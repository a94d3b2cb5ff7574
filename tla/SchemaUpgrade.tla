---------------------------- MODULE SchemaUpgrade ----------------------------
(***************************************************************************)
(* What db:migrate promises of a database: its schema goes from a version  *)
(* it knows to the last version of some release, in one step, or nothing   *)
(* changes.                                                                *)
(***************************************************************************)
EXTENDS Integers

CONSTANTS
  Releases,  \* the last version of each release
  Unknown    \* a schema db:migrate does not know, and no number

VARIABLE version   \* 0 is an empty database

Init == version \in Nat \cup {Unknown}

Upgrade(n) == version # Unknown /\ version <= n /\ version' = n

Next == \E n \in Releases : Upgrade(n)

Spec == Init /\ [][Next]_version
=============================================================================
