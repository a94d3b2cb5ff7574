--------------------------- MODULE MCAttemptLimits ---------------------------
(***************************************************************************)
(* Instances of AttemptLimits: sign-ins of one account, or calls of one    *)
(* address to one bucket.                                                  *)
(***************************************************************************)
EXTENDS AttemptLimits, TLC

CONSTANTS c1, c2

MCWorkloads == {[signIn |-> 6, api |-> 0], [signIn |-> 0, api |-> 6]}

Symmetry == Permutations(Calls)

=============================================================================
