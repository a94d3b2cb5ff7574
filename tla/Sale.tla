-------------------------------- MODULE Sale --------------------------------
(***************************************************************************)
(* What the marketplace promises of a sale, with no transaction in sight:  *)
(* an open account buys a request from one insurer, once; the insurer's    *)
(* own code on the request is spent by that sale and must be unspent; an   *)
(* account with a policy stays open.                                       *)
(***************************************************************************)
CONSTANTS Customers, Requests, Insurers, Codes, Owner, CodeOf, Issuer, None

VARIABLES
  sold,    \* sold[r]: the insurer the request was bought from, or None
  closed,  \* the closed accounts
  spent    \* the redeemed codes

vars == <<sold, closed, spent>>

Init ==
  /\ sold = [r \in Requests |-> None]
  /\ closed = {}
  /\ spent = {}

(* The code a sale of r to insurer i uses up.                              *)
codesUsed(r, i) == {k \in Codes : CodeOf[r] = k /\ Issuer[k] = i}

Sell(r, i) ==
  /\ sold[r] = None
  /\ Owner[r] \notin closed
  /\ codesUsed(r, i) \cap spent = {}
  /\ sold' = [sold EXCEPT ![r] = i]
  /\ spent' = spent \cup codesUsed(r, i)
  /\ UNCHANGED closed

Close(c) ==
  /\ \A r \in Requests : Owner[r] = c => sold[r] = None
  /\ closed' = closed \cup {c}
  /\ UNCHANGED <<sold, spent>>

Next ==
  \/ \E r \in Requests, i \in Insurers : Sell(r, i)
  \/ \E c \in Customers : Close(c)

Spec == Init /\ [][Next]_vars

=============================================================================
