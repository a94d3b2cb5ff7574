------------------------------ MODULE RowLocks ------------------------------
(***************************************************************************)
(* PostgreSQL's row-level locks, as the API's repositories use them:       *)
(* SELECT ... FOR UPDATE / FOR SHARE / FOR KEY SHARE, the lock an UPDATE   *)
(* takes on the row it writes, and the lock a foreign key takes on the row *)
(* it names.  A lock is a record; a lock table is a set of them.           *)
(* The table belongs to the module that uses these operators.              *)
(***************************************************************************)

ForUpdate   == "UPDATE"         \* SELECT ... FOR UPDATE, DELETE
NoKeyUpdate == "NO KEY UPDATE"  \* UPDATE of columns outside every unique key
ForShare    == "SHARE"          \* SELECT ... FOR SHARE
KeyShare    == "KEY SHARE"      \* SELECT ... FOR KEY SHARE, a foreign key

LockModes == {ForUpdate, NoKeyUpdate, ForShare, KeyShare}

Lock(t, row, mode) == [txn |-> t, row |-> row, mode |-> mode]

(* The conflict table of PostgreSQL's "Explicit Locking" chapter. *)
Conflict(m, n) ==
  \/ m = ForUpdate
  \/ n = ForUpdate
  \/ m = NoKeyUpdate /\ n \in {NoKeyUpdate, ForShare}
  \/ m = ForShare    /\ n = NoKeyUpdate

(* Transaction t may take the row in that mode: nobody else's lock is in   *)
(* the way.  Its own locks never are.                                      *)
Grantable(table, t, row, mode) ==
  \A l \in table : (l.row = row /\ l.txn # t) => ~Conflict(l.mode, mode)

(* Commit and rollback both drop every lock of the transaction. *)
Release(table, t) == {l \in table : l.txn # t}

=============================================================================
