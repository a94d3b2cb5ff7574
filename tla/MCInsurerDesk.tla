---------------------------- MODULE MCInsurerDesk ---------------------------
(***************************************************************************)
(* Instances of InsurerDesk: two clerks of the insurer, of whom pat waits  *)
(* for each reload, and another client of its users; two claims and three  *)
(* applications, one still to be made and one of another insurer.          *)
(***************************************************************************)
EXTENDS InsurerDesk, TLC

CONSTANTS c1, c2, c3, pat, quin, other,
          m1, m2, a1, a2, foreign,   \* claims and applications
          k1, k2, k3,                \* codes
          low, high,                 \* rates
          ref1, ref2                 \* an insurer's own references

Of(who, kind, r, choice) == [who |-> who, kind |-> kind, record |-> r, choice |-> choice]

Receipts == {Of(pat, "acknowledge", m1, None), Of(quin, "acknowledge", m1, None),
             Of(pat, "acknowledge", m2, None),
             Of(other, "acknowledge", m1, ref1), Of(other, "acknowledge", m1, ref2)}

PortalDecisions == {Of(pat, "decide", a1, "APPROVED"), Of(pat, "decide", a1, "REJECTED"),
                    Of(quin, "decide", a1, "UNDER_REVIEW"),
                    Of(other, "decide", a1, "APPROVED")}

(* Decisions by other clients, on records of others, and while the         *)
(* application is being made and the insurer deactivated.                  *)
OtherCalls == {Of(other, "decide", a1, "APPROVED"), Of(other, "decide", a2, "APPROVED"),
               Of(other, "decide", foreign, "REJECTED"), Of(other, "decide", a1, "REJECTED"),
               Of(other, "apply", a2, None), Of(other, "deactivate", a1, None)}

Settings == {Of(other, "rate", a1, n) : n \in Rates}

MCAsks == Receipts \cup PortalDecisions \cup OtherCalls \cup Settings

(* Calls of one kind of work meet each other; two of them are the portal's. *)
MCInit ==
  /\ ask \in UNION {[Calls -> S] : S \in {Receipts, PortalDecisions, OtherCalls, Settings}}
  /\ Init
  /\ Cardinality({c \in Calls : ask[c].who \in Clerks}) <= 2
  /\ (\E c \in Calls : ask[c].kind # "rate") => rate = low

MCSpec == MCInit /\ [][Next]_vars

Symmetry == Permutations(Calls)

=============================================================================
