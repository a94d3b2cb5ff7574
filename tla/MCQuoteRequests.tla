-------------------------- MODULE MCQuoteRequests ---------------------------
(***************************************************************************)
(* Instances of QuoteRequests: two insurers, one whose licence runs out on *)
(* day 0, one policy, two users of an insurer and two administrators.      *)
(***************************************************************************)
EXTENDS QuoteRequests

CONSTANTS c1, c2, c3, ann, bob, zig, madison, p, u1, u2

MCPolicyOwner   == [q \in {p} |-> ann]
MCListing       == [i \in {zig, madison} |-> IF i = madison THEN 1 ELSE 2]
MCLicenceExpiry == [i \in {zig, madison} |-> IF i = madison THEN 0 ELSE 9]

Submission      == [kind |-> "submit", customer |-> ann, of |-> None]
Again(k, c)     == [kind |-> "requote", customer |-> k, of |-> c]
NoReplies == {}
NoChanges == {}

Renewal(k)      == [kind |-> "renew", customer |-> k, of |-> p]

ReplyOf(c, i, u)      == [request |-> c, insurer |-> i, user |-> u]
ChangeOf(i, to, x, u) == [insurer |-> i, to |-> to, user |-> u, expiry |-> x]

(* A request, sent again while insurers reply to it: both insurers, and    *)
(* two users of one of them.                                               *)
AnswerAsks    == {Submission, Again(ann, c1)}
AnswerReplies == {ReplyOf(c1, zig, u1), ReplyOf(c1, zig, u2),
                  ReplyOf(c1, madison, u1)}

(* Renewals of one policy, requotes of the first request, strangers.       *)
RenewalAsks == {Renewal(ann), Renewal(bob), Again(ann, c1), Again(bob, c1)}

(* A request distributed while its insurers are deactivated, deleted and   *)
(* restored, or while one is created twice and its licence ended, and the  *)
(* licence of the other is renewed.                                        *)
Lifecycle == {ChangeOf(zig, "INACTIVE", None, u1), ChangeOf(zig, "DELETED", None, u2),
              ChangeOf(zig, "RESTORED", None, u1),
              ChangeOf(madison, "ACTIVE", None, u1)}
Profiles  == {ChangeOf(zig, "CREATED", 9, u1), ChangeOf(zig, "CREATED", 0, u2),
              ChangeOf(zig, "UPDATED", 0, u1), ChangeOf(madison, "UPDATED", 9, u1)}
InsurerChanges == Lifecycle \cup Profiles

MCAsks == AnswerAsks \cup RenewalAsks

(* Only the transactions of S are called, and call c asks for what A[c]    *)
(* holds.                                                                  *)
Workload(S, A) ==
  /\ pc = [x \in Txns |-> IF x \in S THEN "idle" ELSE "done"]
  /\ ask \in [Calls -> UNION {A[c] : c \in Calls}]
  /\ \A c \in Calls : ask[c] \in A[c]

Asking(A1, A2, A3) == [c \in Calls |-> CASE c = c1 -> A1 [] c = c2 -> A2 [] OTHER -> A3]

Before == [Insurers -> {"ACTIVE", "INACTIVE"}]
Anew   == [Insurers -> {"ACTIVE", None}]
Once   == Asking({Submission}, {Submission}, {Submission})

MCInit ==
  /\ \/ /\ Workload({c1, c2} \cup Replies,
                    Asking({Submission}, AnswerAsks, {Submission}))
        /\ insurerStatus \in Before
     \/ /\ Workload({c1, c2, c3},
                    Asking({Renewal(ann), Submission}, RenewalAsks,
                           {Renewal(ann), Again(ann, c1)}))
        /\ insurerStatus \in Before
     \/ Workload({c1} \cup Lifecycle, Once) /\ insurerStatus \in Before
     \/ /\ Workload({c1} \cup Profiles, Once)
        /\ insurerStatus \in Anew
  /\ Init

MCSpec == MCInit /\ [][Next]_vars

=============================================================================
