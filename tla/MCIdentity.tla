----------------------------- MODULE MCIdentity -----------------------------
(***************************************************************************)
(* Instances of IdentitySession: two tabs, two customers of whom one has   *)
(* yet to register, and a member of staff.                                 *)
(***************************************************************************)
EXTENDS IdentitySession, TLC

CONSTANTS t1, t2, ann, bob, zoe, s0, s1, s2, s3

(* A customer on either page, and staff on theirs.                         *)
MCSignIns == {<<ann, "customer">>, <<ann, "staff">>, <<zoe, "staff">>}

Symmetry == Permutations(Sessions)

=============================================================================
