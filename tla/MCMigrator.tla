----------------------------- MODULE MCMigrator -----------------------------
(***************************************************************************)
(* Instances of Migrator: two releases of three and of two migrations, of   *)
(* which the second converts rows; two processes run the new release.      *)
(***************************************************************************)
EXTENDS Migrator

CONSTANTS new, twin, old

MCPlan == [r \in {new, twin, old} |-> IF r = old THEN 2 ELSE 3]

(* Accepted: empty, Prisma's, managed at each version; not accepted: a     *)
(* Prisma history that failed, a history without its schema, a schema      *)
(* without its history, a row altered, a half-adopted one.                 *)
MCDatabases ==
  {EmptyDatabase, PrismaDatabase} \cup {ManagedDatabase(n, a) : n \in 1..3, a \in BOOLEAN}
  \cup {[PrismaDatabase EXCEPT !.prisma = "invalid"],
        [ManagedDatabase(2, FALSE) EXCEPT !.catalog = NoCatalog],
        [ManagedDatabase(2, FALSE) EXCEPT !.history = <<>>],
        [ManagedDatabase(2, FALSE) EXCEPT !.history = <<1, 0>>],
        [EmptyDatabase EXCEPT !.archived = TRUE]}
=============================================================================
