---------------------------- MODULE MCDocuments -----------------------------
(***************************************************************************)
(* Instances of Documents: two customers and a user of an insurer; two     *)
(* photos, a White Book and two claim documents of ann, two quotations and *)
(* two certificates; two deliveries to quote and two policies of ann.      *)
(***************************************************************************)
EXTENDS Documents

CONSTANTS c1, c2, c3, ann, bob, staff,
          p1, p2, w, a1, a2, q1, q2, k1, k2,  \* documents
          d1, d2,                             \* deliveries
          m1, m2                              \* policies

InOrder == <<p1, p2, a1, a2, w, q1, q2, k1, k2>>

MCDocId    == [d \in Docs |-> CHOOSE n \in 1..9 : InOrder[n] = d]
MCUploader == [d \in Docs |-> IF d \in {q1, q2, k1, k2} THEN staff ELSE ann]
MCKind     == [d \in Docs |->
                CASE d \in {p1, p2} -> "INSPECTION_PHOTO"
                  [] d \in {a1, a2} -> "CLAIM_ATTACHMENT"
                  [] d = w          -> "WHITE_BOOK"
                  [] d \in {q1, q2} -> "QUOTATION"
                  [] OTHER          -> "CERTIFICATE"]
MCActsFor  == [x \in Principals |->
                CASE x = ann   -> {m1, m2}
                  [] x = staff -> {d1, d2, m1, m2}
                  [] OTHER     -> {}]

Of(kind, who, ds, book, parent) ==
  [kind |-> kind, who |-> who, documents |-> ds, whiteBook |-> book, parent |-> parent]

Submit(ds, book) == Of("request", ann, ds, book, None)
Claim(ds, m)     == Of("claim", ann, ds, None, m)
Again(who, c)    == Of("requote", who, {}, None, c)
Quote(d, on)     == Of("quote", staff, {d}, None, on)
Certify(k, m)    == Of("certificate", staff, {k}, None, m)

(* Photos given to two requests, a White Book given to both, a claim's     *)
(* document given to two claims, a stranger's call.                        *)
CustomerAsks == {Submit({p1}, w), Submit({p1, p2}, None), Claim({a1, a2}, m1),
                 Claim({a1}, None), Of("request", bob, {p2}, w, None)}

(* A request sent again, twice, and by a stranger.                         *)
ResendAsks == {Submit({p1}, w), Submit({p2}, w), Again(ann, c1), Again(bob, c1)}

(* A quotation for two deliveries, a certificate for two policies, two     *)
(* quotations for one delivery, two certificates for one policy, a         *)
(* quotation as a certificate, two documents in two claims, a stranger.    *)
InsurerAsks == {Quote(q1, d1), Quote(q1, d2), Quote(q2, d1), Certify(k1, m1),
                Certify(k1, m2), Certify(k2, m1),
                Certify(q1, m1), Claim({a1, a2}, m1), Claim({a1, a2}, m2),
                Of("claim", bob, {a1}, None, m1)}

MCAsks == CustomerAsks \cup ResendAsks \cup InsurerAsks

(* The families are Orderly: a requote locks its photos in no fixed order, *)
(* and with a request of two photos the two would wait for each other      *)
(* (README, Disagreements).                                                *)
MCInit ==
  /\ ask \in UNION {[Calls -> S] : S \in {CustomerAsks, ResendAsks, InsurerAsks}}
  /\ Init
  /\ Orderly

MCSpec == MCInit /\ [][Next]_vars

=============================================================================
