------------------------------- MODULE Market -------------------------------
(***************************************************************************)
(* What the marketplace promises of a quote request: it goes out once, to  *)
(* insurers that accept requests at that moment and have a licence for     *)
(* that day; each of them answers at most once, and nobody else does; it   *)
(* is sent again at most once.                                             *)
(***************************************************************************)
EXTENDS Naturals

CONSTANTS
  Requests, Insurers, Days,
  Answers,  \* possible answers: records with a request and an insurer
  None

VARIABLES
  accepting,  \* the insurers that accept requests
  until,      \* until[i]: the last day of the licence of i
  sentTo,     \* sentTo[r]: the insurers r was distributed to, {} before
  sentOn,     \* sentOn[r]: the day r was distributed, None before
  again,      \* again[r]: the request that r was sent again as, or None
  answers     \* the answers given

vars == <<accepting, until, sentTo, sentOn, again, answers>>

Init ==
  /\ accepting \subseteq Insurers
  /\ until \in [Insurers -> Nat]
  /\ sentTo = [r \in Requests |-> {}]
  /\ sentOn = [r \in Requests |-> None]
  /\ again = [r \in Requests |-> None]
  /\ answers = {}

Distribute(r, S, d) ==
  /\ sentTo[r] = {}
  /\ S # {} /\ S \subseteq accepting
  /\ \A i \in S : until[i] >= d
  /\ sentTo' = [sentTo EXCEPT ![r] = S]
  /\ sentOn' = [sentOn EXCEPT ![r] = d]
  /\ UNCHANGED <<accepting, until, answers>>

Submit(r, S, d) == Distribute(r, S, d) /\ UNCHANGED again

SendAgain(o, r, S, d) ==
  /\ sentTo[o] # {}
  /\ again[o] = None
  /\ again' = [again EXCEPT ![o] = r]
  /\ Distribute(r, S, d)

Answer(a) ==
  /\ a.insurer \in sentTo[a.request]
  /\ \A b \in answers : ~(b.request = a.request /\ b.insurer = a.insurer)
  /\ answers' = answers \cup {a}
  /\ UNCHANGED <<accepting, until, sentTo, sentOn, again>>

(* Insurers come, change, go and come back.                                *)
Admit ==
  /\ accepting' \in SUBSET Insurers
  /\ until' \in [Insurers -> Nat]
  /\ UNCHANGED <<sentTo, sentOn, again, answers>>

Next ==
  \/ Admit
  \/ \E a \in Answers : Answer(a)
  \/ \E r \in Requests, S \in SUBSET Insurers, d \in Days :
       \/ Submit(r, S, d)
       \/ \E o \in Requests : SendAgain(o, r, S, d)

Spec == Init /\ [][Next]_vars

=============================================================================
