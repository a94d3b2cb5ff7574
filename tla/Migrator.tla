------------------------------ MODULE Migrator ------------------------------
(***************************************************************************)
(* db:migrate.  Runs of several releases may start at once, beside an      *)
(* application that is still writing, and may lose their connection at any *)
(* point.  Each recognises the database from three facts, applies what is  *)
(* missing in one transaction, checks the result and commits.              *)
(***************************************************************************)
EXTENDS Integers, Sequences, FiniteSets

CONSTANTS
  Runners,
  Plan,        \* Plan[r]: how many migrations the release of r holds
  Statements,  \* statements per migration
  CONVERSION,  \* the migration that converts rows and adds their CHECKs
  Databases,   \* the databases a run may find
  MaxRuns,     \* bound on the runs of one runner
  None

ASSUME MigratorAssumption ==
  /\ Plan \in [Runners -> Nat \ {0}] /\ Statements \in Nat \ {0}
  /\ CONVERSION \in Nat \ {0} /\ MaxRuns \in Nat \ {0} /\ None \notin Runners
  /\ \E r \in Runners : \A s \in Runners : Plan[s] <= Plan[r]   \* the newest

VARIABLES
  db,        \* what is committed
  found,     \* the database the first run found
  breaking,  \* rows that would break a CHECK of the conversion exist
  busy,      \* an application transaction holds the table of those rows
  drifting,  \* the migrations whose statements do not give their catalog
  lock,      \* the holder of the advisory lock
  pc, work,  \* work[r]: the database as the transaction of r sees it
  result, runs

vars == <<db, found, breaking, busy, drifting, lock, pc, work, result, runs>>

application == <<breaking, busy>>
given       == <<found, drifting>>

-----------------------------------------------------------------------------
(* FACTS.  A catalog is a number of migrations and how many statements of  *)
(* the next are applied; the one after the first is also Prisma's.  A      *)
(* history lists the migrations recorded, 0 for a row of none of them.     *)

After(n) == [level |-> n, part |-> 0]

NoCatalog == [level |-> -1, part |-> 0]   \* matches no expected schema

Recorded(n) == [i \in 1..n |-> i]

Database == [prisma : {"absent", "valid", "invalid"}, archived : BOOLEAN,
             history : Seq(Nat),
             catalog : [level : {-1} \cup Nat, part : Nat]]

ASSUME DatabasesAssumption == Databases \subseteq Database

EmptyDatabase == [prisma |-> "absent", archived |-> FALSE, history |-> <<>>, catalog |-> After(0)]

PrismaDatabase == [prisma |-> "valid", archived |-> FALSE, history |-> <<>>, catalog |-> After(1)]

ManagedDatabase(n, adopted) ==
  [prisma |-> "absent", archived |-> adopted, history |-> Recorded(n), catalog |-> After(n)]

(* readDrizzleHistory.                                                     *)
prefix(history, n) == Len(history) \in 1..n /\ history = Recorded(Len(history))

(* decide: how the database is recognised, and the migrations it has.      *)
decide(d, n) ==
  IF d = EmptyDatabase THEN [state |-> "fresh", from |-> 0]
  ELSE IF /\ d.prisma = "absent" /\ prefix(d.history, n)
          /\ d.catalog = After(Len(d.history))
       THEN [state |-> "managed", from |-> Len(d.history)]
  ELSE IF d = PrismaDatabase THEN [state |-> "prisma-era", from |-> 1]
  ELSE [state |-> "refuse", from |-> 0]

(* What apply asks of the database before it commits.                      *)
final(d, n) == d.prisma = "absent" /\ d.history = Recorded(n) /\ d.catalog = After(n)

Steps == {"start", "locking", "deciding", "adopting", "migration", "statements",
          "final", "committing", "ended"}

InTransaction == {"deciding", "adopting", "migration", "statements", "final", "committing"}

Init ==
  /\ db \in Databases /\ found = db
  /\ breaking \in BOOLEAN /\ busy = FALSE
  /\ breaking => db.catalog.level < CONVERSION
  /\ drifting \in SUBSET {CONVERSION + 1}
  /\ lock = None
  /\ pc = [r \in Runners |-> "start"]
  /\ work = [r \in Runners |-> EmptyDatabase]
  /\ result = [r \in Runners |-> "none"]
  /\ runs = [r \in Runners |-> 0]

goto(r, step) == pc' = [pc EXCEPT ![r] = step]

(* ROLLBACK if there is a transaction; the session ends and with it the    *)
(* lock.                                                                   *)
end(r, outcome) ==
  /\ goto(r, "ended")
  /\ result' = [result EXCEPT ![r] = outcome]
  /\ lock' = IF lock = r THEN None ELSE lock
  /\ work' = [work EXCEPT ![r] = EmptyDatabase]

-----------------------------------------------------------------------------
(* A RUN.                                                                  *)

Start(r) ==
  /\ pc[r] \in {"start", "ended"} /\ runs[r] < MaxRuns
  /\ runs' = [runs EXCEPT ![r] = @ + 1]
  /\ result' = [result EXCEPT ![r] = "none"]
  /\ goto(r, "locking")
  /\ UNCHANGED <<db, application, given, lock, work>>

(* Mutant: BEGIN without the advisory lock.                                *)
BeginAtOnce(r) ==
  /\ pc[r] = "locking"
  /\ lock' = r
  /\ work' = [work EXCEPT ![r] = db]
  /\ goto(r, "deciding")
  /\ UNCHANGED <<db, application, given, result, runs>>

(* pg_advisory_lock, then BEGIN: what is decided on is read after the wait.*)
Begin(r) ==
  /\ pc[r] = "locking" /\ lock = None
  /\ lock' = r
  /\ work' = [work EXCEPT ![r] = db]
  /\ goto(r, "deciding")
  /\ UNCHANGED <<db, application, given, result, runs>>

Decide(r) ==
  LET state == decide(work[r], Plan[r]).state IN
  /\ pc[r] = "deciding"
  /\ \/ state = "refuse" /\ end(r, "refused")
     \/ /\ state # "refuse"
        /\ goto(r, IF state = "prisma-era" THEN "adopting" ELSE "migration")
        /\ UNCHANGED <<lock, work, result>>
  /\ UNCHANGED <<db, application, given, runs>>

(* The Prisma history is archived and the baseline recorded unexecuted.    *)
adopted(d) == [d EXCEPT !.prisma = "absent", !.archived = TRUE, !.history = <<1>>]

(* Mutant: the history is moved in a transaction of its own.               *)
AdoptAtOnce(r) ==
  /\ pc[r] = "adopting"
  /\ work' = [work EXCEPT ![r] = adopted(@)]
  /\ db' = [db EXCEPT !.prisma = "absent", !.archived = TRUE]
  /\ goto(r, "migration")
  /\ UNCHANGED <<application, given, lock, result, runs>>

Adopt(r) ==
  /\ pc[r] = "adopting"
  /\ work' = [work EXCEPT ![r] = adopted(@)]
  /\ goto(r, "migration")
  /\ UNCHANGED <<db, application, given, lock, result, runs>>

applied(r) == Len(work[r].history)

(* The head of the loop, with refuseBreakingRows.                          *)
NextMigration(r) ==
  LET next == applied(r) + 1 IN
  /\ pc[r] = "migration"
  /\ \/ next > Plan[r] /\ goto(r, "final") /\ UNCHANGED <<lock, work, result>>
     \/ next <= Plan[r] /\ next = CONVERSION /\ breaking /\ end(r, "refused")
     \/ /\ next <= Plan[r] /\ ~(next = CONVERSION /\ breaking)
        /\ goto(r, "statements") /\ UNCHANGED <<lock, work, result>>
  /\ UNCHANGED <<db, application, given, runs>>

(* The statement that converts the rows, the last of its migration.        *)
converting(r) ==
  applied(r) + 1 = CONVERSION /\ work[r].catalog.part + 1 = Statements

executed(r) ==
  IF applied(r) + 1 \in drifting
  THEN [work[r] EXCEPT !.catalog = [level |-> -1, part |-> @.part + 1]]
  ELSE [work[r] EXCEPT !.catalog.part = @ + 1]

(* Mutant: the CHECKs are added without looking at the rows.               *)
StatementNotValid(r) ==
  /\ pc[r] = "statements" /\ work[r].catalog.part < Statements
  /\ converting(r) => ~busy
  /\ work' = [work EXCEPT ![r] = executed(r)]
  /\ UNCHANGED <<db, application, given, lock, pc, result, runs>>

(* A statement waits for the application; a CHECK that a row breaks fails  *)
(* it.                                                                     *)
Statement(r) ==
  /\ pc[r] = "statements" /\ work[r].catalog.part < Statements
  /\ converting(r) => ~busy
  /\ \/ /\ ~(converting(r) /\ breaking)
        /\ work' = [work EXCEPT ![r] = executed(r)]
        /\ UNCHANGED <<lock, pc, result>>
     \/ converting(r) /\ breaking /\ end(r, "failed")
  /\ UNCHANGED <<db, application, given, runs>>

(* Mutant: DDL waits for the application for ever.                         *)
LockTimeoutOff(r) == FALSE /\ pc[r] = "statements" /\ UNCHANGED vars

(* DDL_LOCK_TIMEOUT.                                                       *)
LockTimeout(r) ==
  /\ pc[r] = "statements" /\ converting(r) /\ busy
  /\ end(r, "failed")
  /\ UNCHANGED <<db, application, given, runs>>

recorded(d) ==
  LET n == Len(d.history) + 1 IN
  [d EXCEPT !.history = Append(@, n),
            !.catalog = IF @.level = n - 1 THEN After(n) ELSE NoCatalog]

(* Mutant: each migration is committed as it is recorded.                  *)
RecordAndCommit(r) ==
  /\ pc[r] = "statements" /\ work[r].catalog.part = Statements
  /\ work' = [work EXCEPT ![r] = recorded(@)]
  /\ db' = recorded(work[r])
  /\ goto(r, "migration")
  /\ UNCHANGED <<application, given, lock, result, runs>>

Record(r) ==
  /\ pc[r] = "statements" /\ work[r].catalog.part = Statements
  /\ work' = [work EXCEPT ![r] = recorded(@)]
  /\ goto(r, "migration")
  /\ UNCHANGED <<db, application, given, lock, result, runs>>

FinalCheck(r) ==
  /\ pc[r] = "final"
  /\ \/ final(work[r], Plan[r]) /\ goto(r, "committing") /\ UNCHANGED <<lock, work, result>>
     \/ ~final(work[r], Plan[r]) /\ end(r, "refused")
  /\ UNCHANGED <<db, application, given, runs>>

Commit(r) ==
  /\ pc[r] = "committing"
  /\ db' = work[r]
  /\ end(r, "done")
  /\ UNCHANGED <<application, given, runs>>

(* The connection or the process is lost; COMMIT may have taken effect.    *)
Lose(r) ==
  /\ pc[r] \in {"locking"} \cup InTransaction
  /\ \/ db' = db
     \/ pc[r] = "committing" /\ db' = work[r]
  /\ end(r, "failed")
  /\ UNCHANGED <<application, given, runs>>

-----------------------------------------------------------------------------
(* THE APPLICATION of the release before the conversion.                   *)

rowsLocked == \E r \in Runners :
  /\ pc[r] \in InTransaction
  /\ \/ applied(r) >= CONVERSION /\ Len(db.history) < CONVERSION
     \/ applied(r) + 1 = CONVERSION /\ work[r].catalog.part = Statements

AppBegin ==
  /\ ~busy /\ ~rowsLocked /\ db.catalog.level \in 1..CONVERSION - 1
  /\ busy' = TRUE
  /\ UNCHANGED <<db, breaking, given, lock, pc, work, result, runs>>

(* It writes a row that the conversion will refuse, or corrects them.      *)
AppCommit ==
  /\ busy
  /\ busy' = FALSE /\ breaking' \in BOOLEAN
  /\ UNCHANGED <<db, given, lock, pc, work, result, runs>>

-----------------------------------------------------------------------------
Run(r) ==
  \/ Begin(r) \/ Decide(r) \/ Adopt(r) \/ NextMigration(r) \/ Statement(r)
  \/ LockTimeout(r) \/ Record(r) \/ FinalCheck(r) \/ Commit(r)

Next ==
  \/ \E r \in Runners : Start(r) \/ Run(r) \/ Lose(r)
  \/ AppBegin \/ AppCommit

Spec == Init /\ [][Next]_vars

(* A process that runs goes on; the application may keep its transaction.  *)
FairSpec == Spec /\ \A r \in Runners : WF_vars(Run(r))

-----------------------------------------------------------------------------
(* Types; one run at a time has a transaction, the holder of the lock.     *)
TypeOK ==
  /\ db \in Database /\ found \in Database
  /\ breaking \in BOOLEAN /\ busy \in BOOLEAN
  /\ lock \in Runners \cup {None}
  /\ pc \in [Runners -> Steps]
  /\ work \in [Runners -> Database]
  /\ result \in [Runners -> {"none", "done", "refused", "failed"}]
  /\ runs \in [Runners -> 0..MaxRuns]
  /\ \A r \in Runners : pc[r] \in InTransaction <=> lock = r

(* A database that a release accepted is accepted by that release, or by   *)
(* the newest one that has run, whatever run is cut off where.             *)
NeverStranded ==
  LET newest == CHOOSE n \in {Plan[r] : r \in Runners} : \A r \in Runners : Plan[r] <= n IN
  decide(found, newest).state # "refuse" => decide(db, newest).state # "refuse"

(* A run that reports success leaves its whole release applied, and no     *)
(* later run of an older release takes it back.                            *)
DoneIsApplied ==
  \A r \in Runners : result[r] = "done" =>
    Len(db.history) >= Plan[r] /\ final(db, Len(db.history))

(* The database can always be deployed to, and a deployment that said it   *)
(* succeeded stays so.                                                     *)
Recoverable == NeverStranded /\ DoneIsApplied

(* No row escapes the constraints of the conversion, though the rows are   *)
(* counted before the table is locked and the application writes between.  *)
NoBreakingRowConverted == breaking => db.catalog.level < CONVERSION

(* Every run ends: it waits without bound only for another run, and for    *)
(* the application at most the lock timeout.                               *)
EveryRunEnds == \A r \in Runners : (pc[r] # "start") ~> (pc[r] = "ended")

Unknown == -1

versionOf(d) ==
  IF d = EmptyDatabase THEN 0
  ELSE IF d = PrismaDatabase THEN 1
  ELSE IF d.history # <<>> /\ final(d, Len(d.history)) THEN Len(d.history)
  ELSE Unknown

Upgrade == INSTANCE SchemaUpgrade WITH
  Releases <- {Plan[r] : r \in Runners}, Unknown <- Unknown, version <- versionOf(db)

(* Beside one another, the application and failures, the runs move the     *)
(* database from a version they know to the last of a release in one step, *)
(* never back and never from a state they do not know.                     *)
ImplementsUpgrade == Upgrade!Spec
=============================================================================
