--------------------------- MODULE PaymentsProofs ---------------------------
(***************************************************************************)
(* Proofs about Payments, for any number of attempts, customers, requests, *)
(* insurers, keys and codes; and, at the end, what the arithmetic of       *)
(* CoverTerm, the period and the premium floor of the cover paid for,      *)
(* gives for every date, term and amount.                                  *)
(***************************************************************************)
EXTENDS Payments, CoverTerm, TLAPS

(* Every answer pay gives is a reply.                                      *)
LEMMA Replies ==
  /\ NoReply \in ReplyType /\ Failed \in ReplyType
  /\ \A e \in Refusals : Refused(e) \in ReplyType
  /\ \A b \in Attempts : Receipt(b) \in ReplyType
  BY DEF ReplyType, NoReply, Failed, Refused, Receipt, Refusals

LEMMA InitTypeOK == Init => TypeOK
  BY PaymentAssumption, Replies DEF Init, TypeOK, PcValues, InForce

(* What the typing of the control state needs of a step.                   *)
LEMMA GotoTypes ==
  ASSUME TypeOK, NEW a \in Attempts, NEW l \in PcValues, goto(a, l)
  PROVE  /\ pc' \in [Attempts -> PcValues]
         /\ pc'[a] = l
         /\ \A b \in Attempts \ {a} : pc'[b] = pc[b]
  BY DEF goto, TypeOK

LEMMA FinishTypes ==
  ASSUME TypeOK, NEW a \in Attempts, NEW r \in ReplyType, finish(a, r)
  PROVE  /\ pc' \in [Attempts -> PcValues]
         /\ pc'[a] = "done"
         /\ \A b \in Attempts \ {a} : pc'[b] = pc[b]
         /\ reply' \in [Attempts -> ReplyType]
  BY DEF finish, goto, TypeOK, PcValues

LEMMA RollbackTypes ==
  ASSUME TypeOK, NEW a \in Attempts, Rollback(a)
  PROVE  /\ payments' = payments \ {a}
         /\ committed' = committed
         /\ policies' \in [Attempts -> InForce \cup {None}]
         /\ redeemedBy' \in [Codes -> Attempts \cup {None}]
         /\ locks' \subseteq locks
  BY PaymentAssumption DEF Rollback, Release, TypeOK

LEMMA TakeLock ==
  ASSUME TypeOK, NEW t \in Attempts \cup Customers, NEW row,
         NEW mode \in LockModes, locks' = locks \cup {Lock(t, row, mode)}
  PROVE  \A l \in locks' : l.txn \in Attempts \cup Customers /\ l.mode \in LockModes
  BY DEF TypeOK, Lock

LEMMA Modes == {ForUpdate, NoKeyUpdate, KeyShare} \subseteq LockModes
  BY DEF LockModes

LEMMA ReplayOutcomeTypes ==
  ASSUME TypeOK, NEW a \in Attempts, NEW b \in Stored(a)
  PROVE  replayOutcome(a, b) \in ReplyType
  BY Replies DEF replayOutcome, Stored, TypeOK, Refusals

LEMMA NextTypeOK == TypeOK /\ [Next]_vars => TypeOK'
<1> SUFFICES ASSUME TypeOK, [Next]_vars PROVE TypeOK'
  OBVIOUS
<1> USE PaymentAssumption DEF TypeOK, tables, attempt, quotes, account
<1>p. \A l \in InTransaction \cup {"idle", "replay", "findQuote", "stamp",
                                   "replayWinner", "done"} : l \in PcValues
  BY DEF InTransaction, PcValues
<1>1. ASSUME NEW a \in Attempts, Call(a) PROVE TypeOK'
  BY <1>1 DEF Call, goto, PcValues, InTransaction
<1>2. ASSUME NEW a \in Attempts, Replay(a) PROVE TypeOK'
  <2>1. CASE \E b \in Stored(a) : finish(a, replayOutcome(a, b))
    BY <1>2, <2>1, ReplayOutcomeTypes, FinishTypes DEF Replay, InTransaction
  <2>2. CASE goto(a, "findQuote") /\ UNCHANGED reply
    BY <1>2, <2>2 DEF Replay, goto, PcValues, InTransaction
  <2> QED
    BY <1>2, <2>1, <2>2 DEF Replay
<1>3. ASSUME NEW a \in Attempts, FindQuote(a) PROVE TypeOK'
  <2>1. CASE UNCHANGED offer /\ \E e \in Refusals : finish(a, Refused(e))
    BY <1>3, <2>1, Replies, FinishTypes DEF FindQuote, InTransaction
  <2>2. CASE QuoteOf(a) \in Quotes /\ goto(a, "stamp") /\ UNCHANGED reply
             /\ offer' = [offer EXCEPT ![a] = validUntil[QuoteOf(a)]]
    BY <1>3, <2>2 DEF FindQuote, goto, PcValues, InTransaction
  <2> QED
    BY <1>3, <2>1, <2>2 DEF FindQuote, Refusals
<1>4. ASSUME NEW a \in Attempts, Stamp(a) PROVE TypeOK'
  BY <1>4 DEF Stamp, goto, PcValues, InTransaction
<1>5. ASSUME NEW a \in Attempts, LockCustomer(a) PROVE TypeOK'
  <2>1. CASE finish(a, Refused("ACCOUNT_CLOSED")) /\ UNCHANGED locks
    <3>1. Refused("ACCOUNT_CLOSED") \in ReplyType
      BY Replies DEF Refusals
    <3> QED
      BY <1>5, <2>1, <3>1, FinishTypes DEF LockCustomer
  <2>2. CASE /\ goto(a, "lockRequest") /\ UNCHANGED reply
             /\ locks' = locks \cup {Lock(a, customerRow(ask[a].customer), KeyShare)}
    <3>1. \A l \in locks' : l.txn \in Attempts \cup Customers /\ l.mode \in LockModes
      BY <2>2, TakeLock, Modes
    <3> QED
      BY <1>5, <2>2, <3>1 DEF LockCustomer, goto, PcValues
  <2> QED
    BY <1>5, <2>1, <2>2 DEF LockCustomer
<1>6. ASSUME NEW a \in Attempts, LockRequest(a) PROVE TypeOK'
  BY <1>6, <1>p, GotoTypes DEF LockRequest, Lock, LockModes, ForUpdate, InTransaction
<1>7. ASSUME NEW a \in Attempts, InsertPayment(a) PROVE TypeOK'
  <2>1. CASE goto(a, "replayWinner") /\ Rollback(a)
    BY <1>7, <2>1, <1>p, GotoTypes, RollbackTypes DEF InsertPayment
  <2>2. CASE /\ goto(a, "insertPolicy") /\ payments' = payments \cup {a}
             /\ UNCHANGED <<policies, redeemedBy, committed, locks>>
    BY <1>7, <2>2, <1>p, GotoTypes DEF InsertPayment, InTransaction
  <2> QED
    BY <1>7, <2>1, <2>2 DEF InsertPayment
<1>8. ASSUME NEW a \in Attempts, InsertPolicy(a) PROVE TypeOK'
  <2>1. CASE (\E e \in Refusals : finish(a, Refused(e))) /\ Rollback(a)
    BY <1>8, <2>1, Replies, FinishTypes, RollbackTypes DEF InsertPolicy
  <2>2. CASE /\ goto(a, "redeem")
             /\ policies' = [policies EXCEPT ![a] = "AWAITING_INSURER_CERTIFICATE"]
             /\ UNCHANGED <<payments, redeemedBy, committed, locks, reply>>
    BY <1>8, <2>2, <1>p, GotoTypes DEF InsertPolicy, InTransaction, InForce
  <2>3. offerRefusal(a) # "NONE" => offerRefusal(a) \in Refusals
    BY DEF offerRefusal, Refusals
  <2> QED
    BY <1>8, <2>1, <2>2, <2>3 DEF InsertPolicy
<1>9. ASSUME NEW a \in Attempts, Redeem(a) PROVE TypeOK'
  <2>1. CASE goto(a, "commit") /\ UNCHANGED <<tables, locks, reply>>
    BY <1>9, <2>1, <1>p, GotoTypes DEF Redeem, InTransaction
  <2>2. CASE \E k \in Codes :
               /\ goto(a, "commit") /\ redeemedBy' = [redeemedBy EXCEPT ![k] = a]
               /\ locks' = locks \cup {Lock(a, codeRow(k), NoKeyUpdate)}
               /\ UNCHANGED <<payments, policies, committed, reply>>
    <3>1. \A l \in locks' : l.txn \in Attempts \cup Customers /\ l.mode \in LockModes
      BY <2>2, TakeLock, Modes
    <3> QED
      BY <1>9, <2>2, <3>1 DEF Redeem, goto, PcValues
  <2>3. CASE finish(a, Refused("NCD_CODE_UNAVAILABLE")) /\ Rollback(a)
    <3>1. Refused("NCD_CODE_UNAVAILABLE") \in ReplyType
      BY Replies DEF Refusals
    <3> QED
      BY <1>9, <2>3, <3>1, FinishTypes, RollbackTypes DEF Redeem
  <2> QED
    BY <1>9, <2>1, <2>2, <2>3 DEF Redeem, AskType
<1>10. ASSUME NEW a \in Attempts, Commit(a) PROVE TypeOK'
  BY <1>10, Replies, FinishTypes DEF Commit, Release
<1>11. ASSUME NEW a \in Attempts, Fail(a) PROVE TypeOK'
  BY <1>11, Replies, FinishTypes, RollbackTypes DEF Fail
<1>12. ASSUME NEW a \in Attempts, ReplayWinner(a) PROVE TypeOK'
  BY <1>12, ReplayOutcomeTypes, FinishTypes DEF ReplayWinner
<1>13. ASSUME NEW a \in Attempts, IssueCertificate(a) PROVE TypeOK'
  BY <1>13 DEF IssueCertificate, InForce
<1>14. ASSUME NEW c \in Customers, Close(c) PROVE TypeOK'
  <2>1. CASE LockForClosure(c)
    <3>1. \A l \in locks' : l.txn \in Attempts \cup Customers /\ l.mode \in LockModes
      BY <2>1, TakeLock, Modes DEF LockForClosure
    <3> QED
      BY <2>1, <3>1 DEF LockForClosure
  <2>2. CASE CheckPolicies(c)
    BY <2>2 DEF CheckPolicies, Release
  <2>3. CASE EndClosure(c)
    BY <2>3 DEF EndClosure, Release
  <2> QED
    BY <1>14, <2>1, <2>2, <2>3 DEF Close
<1>15. ASSUME NEW q \in Extendable, StartExtension(q) \/ ExtendOpenQuote(q)
       PROVE TypeOK'
  <2>1. CASE StartExtension(q)
    BY <2>1 DEF StartExtension
  <2>2. CASE ExtendOpenQuote(q)
    BY <2>2 DEF ExtendOpenQuote
  <2> QED
    BY <1>15, <2>1, <2>2
<1>16. CASE Tick
  BY <1>16 DEF Tick
<1>17. CASE UNCHANGED vars
  BY <1>17 DEF vars
<1>18. QED
  BY <1>1, <1>2, <1>3, <1>4, <1>5, <1>6, <1>7, <1>8, <1>9, <1>10, <1>11, <1>12,
     <1>13, <1>14, <1>15, <1>16, <1>17 DEF Next, Pay, Step

(* Every reachable state is well typed, and a payment row belongs to a     *)
(* committed payment or to a transaction under way.                        *)
THEOREM Typing == Spec => []TypeOK
  BY InitTypeOK, NextTypeOK, PTL DEF Spec

-----------------------------------------------------------------------------
(* The inductive invariant.  An attempt past lockOpenCustomer holds the    *)
(* customer's key share, past lockRequest it holds the request, a closure  *)
(* past its first statement holds the customer, a redeemed code is held    *)
(* until its payment commits, and no two locks held conflict.  So what an  *)
(* attempt or a closure has checked stays true until it commits.           *)

HoldsRequest  == {"insertPayment", "insertPolicy", "redeem", "commit"}
HoldsCustomer == HoldsRequest \cup {"lockRequest"}
FoundQuote    == HoldsCustomer \cup {"stamp", "lockCustomer"}

LocksHeld ==
  /\ \A a \in Attempts : pc[a] \in HoldsCustomer =>
       Lock(a, customerRow(ask[a].customer), KeyShare) \in locks
  /\ \A a \in Attempts : pc[a] \in HoldsRequest =>
       Lock(a, requestRow(ask[a].request), ForUpdate) \in locks
  /\ \A c \in Customers : closing[c] # "idle" =>
       Lock(c, customerRow(c), ForUpdate) \in locks
  /\ \A k \in Codes : redeemedBy[k] \in Attempts \ committed =>
       Lock(redeemedBy[k], codeRow(k), NoKeyUpdate) \in locks

LocksExclude ==
  \A l, m \in locks :
    (l.row = m.row /\ l.txn # m.txn) => ~Conflict(l.mode, m.mode)

(* The quote was found before anything was locked or written.              *)
Found ==
  \A a \in Attempts : (pc[a] \in FoundQuote \/ a \in committed) =>
    Owner[ask[a].request] = ask[a].customer /\ QuoteOf(a) \in Quotes

Rows ==
  /\ \A a \in committed : /\ pc[a] = "done" /\ a \in payments
                          /\ policies[a] \in InForce
  /\ \A a \in Attempts :
       /\ pc[a] \in {"insertPolicy", "redeem", "commit"} => a \in payments
       /\ pc[a] \in {"redeem", "commit"} => policies[a] \in InForce

KeysUnique ==
  \A a, b \in payments : ask[a].key = ask[b].key => a = b

(* What the payment found under its locks still holds.                     *)
StillUnpaid ==
  \A a \in Attempts : pc[a] \in {"redeem", "commit"} => ~PaidBefore(a)

StillOpen ==
  \A a \in Attempts : pc[a] \in HoldsCustomer => ask[a].customer \notin closed

(* What the closure found under its lock still holds.                      *)
StillClear ==
  \A c \in Customers : closing[c] = "clear" => policiesInForce(c) = {}

Discounts(a, k) == CodeOf[ask[a].request] = k /\ Issuer[k] = ask[a].insurer

CodesSpent ==
  \A a \in Attempts, k \in Codes :
    /\ redeemedBy[k] = a => /\ Discounts(a, k) /\ Holder[k] = ask[a].customer
                            /\ a \in committed \/ pc[a] = "commit"
    /\ ((a \in committed \/ pc[a] = "commit") /\ Discounts(a, k))
         => redeemedBy[k] = a

(* The offer a payment confirmed still stands.                             *)
OfferStands ==
  \A a \in Attempts :
    /\ (pc[a] \in FoundQuote \/ a \in committed) =>
         offer[a] \in Nat /\ offer[a] <= validUntil[QuoteOf(a)]
    /\ (pc[a] \in FoundQuote \ {"stamp"} \/ a \in committed) =>
         confirmedAt[a] \in Nat
    /\ (pc[a] \in {"redeem", "commit"} \/ a \in committed) =>
         /\ confirmedAt[a] < offer[a]
         /\ ask[a].amount = expectedAmount(QuoteOf(a))

(* A refusal on the state of the sale stays justified, and it was another  *)
(* key that sold the request or spent the code: the refused payment had    *)
(* its own row in, so its key was nobody else's.                           *)
Answers ==
  \A a \in Attempts :
    /\ reply[a].code = "ALREADY_PAID" =>
         \E b \in committed : /\ ask[b].request = ask[a].request
                              /\ ask[b].key # ask[a].key
    /\ reply[a].code = "ACCOUNT_CLOSED" => ask[a].customer \in closed
    /\ reply[a].code = "NCD_CODE_UNAVAILABLE" =>
         \E k \in Codes : /\ Discounts(a, k)
                          /\ \/ Holder[k] # ask[a].customer
                             \/ /\ redeemedBy[k] \in committed
                                /\ ask[redeemedBy[k]].key # ask[a].key
    /\ reply[a].code = "RECEIPT" =>
         reply[a].of \in committed /\ ask[reply[a].of] = ask[a]

IInv ==
  /\ TypeOK /\ LocksHeld /\ LocksExclude /\ Found /\ Rows /\ KeysUnique
  /\ StillUnpaid /\ StillOpen /\ StillClear /\ CodesSpent /\ Answers
  /\ OfferStands
  /\ OnePolicyPerRequest /\ ClosedHoldsNoCover

-----------------------------------------------------------------------------
(* Locks.                                                                  *)

LEMMA LockFields ==
  ASSUME NEW t, NEW row, NEW mode
  PROVE  /\ Lock(t, row, mode).txn = t
         /\ Lock(t, row, mode).row = row
         /\ Lock(t, row, mode).mode = mode
  BY DEF Lock

LEMMA ConflictSymmetric ==
  ASSUME NEW m \in LockModes, NEW n \in LockModes
  PROVE  Conflict(m, n) <=> Conflict(n, m)
  BY DEF Conflict, LockModes, ForUpdate, NoKeyUpdate, ForShare, KeyShare

(* A lock granted leaves no conflicting pair. *)
LEMMA ExcludeTake ==
  ASSUME TypeOK, LocksExclude, NEW t \in Attempts \cup Customers, NEW row,
         NEW mode \in LockModes, Grantable(locks, t, row, mode),
         locks' = locks \cup {Lock(t, row, mode)}
  PROVE  LocksExclude'
<1> SUFFICES ASSUME NEW l \in locks', NEW m \in locks',
                    l.row = m.row, l.txn # m.txn
             PROVE  ~Conflict(l.mode, m.mode)
  BY DEF LocksExclude
<1> DEFINE new == Lock(t, row, mode)
<1>f. new.txn = t /\ new.row = row /\ new.mode = mode
  BY LockFields
<1>m. \A o \in locks : o.mode \in LockModes
  BY DEF TypeOK
<1>1. CASE l \in locks /\ m \in locks
  BY <1>1 DEF LocksExclude
<1>2. CASE l = new /\ m \in locks
  <2>1. ~Conflict(m.mode, mode)
    BY <1>2, <1>f DEF Grantable
  <2> QED
    BY <1>2, <2>1, <1>f, <1>m, ConflictSymmetric
<1>3. CASE l \in locks /\ m = new
  BY <1>3, <1>f DEF Grantable
<1>4. QED
  BY <1>1, <1>2, <1>3

LEMMA ExcludeRelease ==
  ASSUME LocksExclude, locks' \subseteq locks
  PROVE  LocksExclude'
  BY DEF LocksExclude

LEMMA ReleaseKeeps ==
  ASSUME NEW t, NEW u, u # t, NEW row, NEW mode, Lock(u, row, mode) \in locks,
         locks' = Release(locks, t)
  PROVE  Lock(u, row, mode) \in locks'
  BY LockFields DEF Release

(* A transaction that ends drops its own locks, nobody else's.             *)
LEMMA EndHeld ==
  ASSUME TypeOK, LocksHeld, NEW a \in Attempts,
         locks' = Release(locks, a), ask' = ask, closing' = closing,
         pc' \in [Attempts -> PcValues], pc'[a] \notin HoldsCustomer,
         \A b \in Attempts \ {a} : pc'[b] = pc[b],
         \A k \in Codes : redeemedBy'[k] \in Attempts \ committed' =>
           redeemedBy'[k] # a /\ redeemedBy'[k] = redeemedBy[k]
           /\ redeemedBy[k] \notin committed
  PROVE  LocksHeld'
<1>1. HoldsRequest \subseteq HoldsCustomer
  BY DEF HoldsCustomer
<1>2. ASSUME NEW b \in Attempts, pc'[b] \in HoldsCustomer
      PROVE  Lock(b, customerRow(ask'[b].customer), KeyShare) \in locks'
  BY <1>2, ReleaseKeeps DEF LocksHeld
<1>3. ASSUME NEW b \in Attempts, pc'[b] \in HoldsRequest
      PROVE  Lock(b, requestRow(ask'[b].request), ForUpdate) \in locks'
  BY <1>1, <1>3, ReleaseKeeps DEF LocksHeld
<1>4. ASSUME NEW c \in Customers, closing'[c] # "idle"
      PROVE  Lock(c, customerRow(c), ForUpdate) \in locks'
  <2>1. c # a
    BY PaymentAssumption
  <2> QED
    BY <1>4, <2>1, ReleaseKeeps DEF LocksHeld
<1>5. ASSUME NEW k \in Codes, redeemedBy'[k] \in Attempts \ committed'
      PROVE  Lock(redeemedBy'[k], codeRow(k), NoKeyUpdate) \in locks'
  BY <1>5, ReleaseKeeps DEF LocksHeld
<1>6. QED
  BY <1>2, <1>3, <1>4, <1>5 DEF LocksHeld, customerRow, requestRow, codeRow

LEMMA RollbackHeld ==
  ASSUME TypeOK, LocksHeld, NEW a \in Attempts, Rollback(a), ask' = ask,
         closing' = closing,
         pc' \in [Attempts -> PcValues], pc'[a] \notin HoldsCustomer,
         \A b \in Attempts \ {a} : pc'[b] = pc[b]
  PROVE  LocksHeld' /\ locks' \subseteq locks
<1>1. \A k \in Codes : redeemedBy'[k] \in Attempts \ committed' =>
        redeemedBy'[k] # a /\ redeemedBy'[k] = redeemedBy[k]
        /\ redeemedBy[k] \notin committed
  BY PaymentAssumption DEF Rollback
<1>2. QED
  BY <1>1, EndHeld DEF Rollback, Release

(* Steps that leave the locks and their owners' rows alone.                *)
LEMMA QuietHeld ==
  ASSUME TypeOK, LocksHeld, NEW a \in Attempts, UNCHANGED <<locks, ask, closing>>,
         UNCHANGED <<redeemedBy, committed>>,
         \A b \in Attempts \ {a} : pc'[b] = pc[b],
         pc'[a] \in HoldsCustomer => pc[a] \in HoldsCustomer,
         pc'[a] \in HoldsRequest => pc[a] \in HoldsRequest
  PROVE  LocksHeld'
  BY DEF LocksHeld, customerRow, requestRow, codeRow

LEMMA NextLocks == IInv /\ [Next]_vars => LocksHeld' /\ LocksExclude'
<1> SUFFICES ASSUME IInv, [Next]_vars PROVE LocksHeld' /\ LocksExclude'
  OBVIOUS
<1> USE DEF IInv, tables, attempt, quotes, account
<1>t. TypeOK'
  BY NextTypeOK
<1>h. /\ {"idle", "replay", "findQuote", "stamp", "lockCustomer", "replayWinner",
          "done"} \cap HoldsCustomer = {}
      /\ HoldsRequest \subseteq HoldsCustomer
      /\ HoldsCustomer \subseteq InTransaction
  BY DEF HoldsCustomer, HoldsRequest, InTransaction
<1>u. ASSUME UNCHANGED locks PROVE LocksExclude'
  BY <1>u DEF LocksExclude
<1>1. ASSUME NEW a \in Attempts,
             Call(a) \/ Replay(a) \/ FindQuote(a) \/ Stamp(a) \/ ReplayWinner(a)
      PROVE  LocksHeld' /\ LocksExclude'
  <2>1. /\ UNCHANGED <<locks, ask, closing, redeemedBy, committed>>
        /\ \A b \in Attempts \ {a} : pc'[b] = pc[b]
        /\ pc'[a] \in {"replay", "findQuote", "stamp", "lockCustomer", "done"}
    BY <1>1 DEF Call, Replay, FindQuote, Stamp, ReplayWinner, goto, finish, TypeOK
  <2> QED
    BY <2>1, <1>h, <1>u, QuietHeld
<1>2. ASSUME NEW a \in Attempts, LockCustomer(a)
      PROVE  LocksHeld' /\ LocksExclude'
  <2>1. CASE finish(a, Refused("ACCOUNT_CLOSED")) /\ UNCHANGED locks
    <3>1. /\ UNCHANGED <<locks, ask, closing, redeemedBy, committed>>
          /\ \A b \in Attempts \ {a} : pc'[b] = pc[b]
          /\ pc'[a] = "done"
      BY <1>2, <2>1 DEF LockCustomer, goto, finish, TypeOK
    <3> QED
      BY <3>1, <1>h, <1>u, QuietHeld
  <2>2. CASE /\ goto(a, "lockRequest")
             /\ locks' = locks \cup {Lock(a, customerRow(ask[a].customer), KeyShare)}
    <3>1. LocksHeld'
      BY <1>2, <2>2 DEF LockCustomer, goto, LocksHeld, HoldsCustomer, HoldsRequest,
         customerRow, requestRow, codeRow, TypeOK
    <3>2. Grantable(locks, a, customerRow(ask[a].customer), KeyShare)
      BY <1>2 DEF LockCustomer
    <3> QED
      BY <2>2, <3>1, <3>2, ExcludeTake, Modes
  <2> QED
    BY <1>2, <2>1, <2>2 DEF LockCustomer
<1>3. ASSUME NEW a \in Attempts, LockRequest(a)
      PROVE  LocksHeld' /\ LocksExclude'
  <2>1. LocksHeld'
    BY <1>3 DEF LockRequest, goto, LocksHeld, HoldsCustomer, HoldsRequest,
       customerRow, requestRow, codeRow, TypeOK
  <2>2. /\ Grantable(locks, a, requestRow(ask[a].request), ForUpdate)
        /\ locks' = locks \cup {Lock(a, requestRow(ask[a].request), ForUpdate)}
    BY <1>3 DEF LockRequest
  <2> QED
    BY <2>1, <2>2, ExcludeTake, Modes
<1>4. ASSUME NEW a \in Attempts, InsertPayment(a) \/ InsertPolicy(a)
      PROVE  LocksHeld' /\ LocksExclude'
  <2>1. CASE pc'[a] \in {"replayWinner", "done"} /\ Rollback(a)
    <3>1. /\ UNCHANGED <<ask, closing>>
          /\ \A b \in Attempts \ {a} : pc'[b] = pc[b]
          /\ pc' \in [Attempts -> PcValues]
      BY <1>4, <1>t DEF InsertPayment, InsertPolicy, goto, finish, TypeOK
    <3> QED
      BY <2>1, <3>1, <1>h, RollbackHeld, ExcludeRelease
  <2>2. CASE /\ pc'[a] \in HoldsRequest /\ pc[a] \in HoldsRequest
             /\ UNCHANGED <<redeemedBy, committed, locks>>
    <3>1. /\ UNCHANGED <<ask, closing>>
          /\ \A b \in Attempts \ {a} : pc'[b] = pc[b]
      BY <1>4 DEF InsertPayment, InsertPolicy, goto, finish, TypeOK
    <3> QED
      BY <2>2, <3>1, <1>h, <1>u, QuietHeld
  <2> QED
    BY <1>4, <2>1, <2>2 DEF InsertPayment, InsertPolicy, goto, finish, TypeOK,
       HoldsRequest
<1>5. ASSUME NEW a \in Attempts, Redeem(a)
      PROVE  LocksHeld' /\ LocksExclude'
  <2>0. /\ UNCHANGED <<ask, closing>>
        /\ \A b \in Attempts \ {a} : pc'[b] = pc[b]
        /\ pc' \in [Attempts -> PcValues]
        /\ pc[a] \in HoldsRequest
    BY <1>5, <1>t DEF Redeem, goto, finish, TypeOK, HoldsRequest
  <2>1. CASE goto(a, "commit") /\ UNCHANGED <<tables, locks>>
    <3>1. pc'[a] \in HoldsRequest
      BY <2>1 DEF goto, TypeOK, HoldsRequest
    <3> QED
      BY <2>0, <2>1, <3>1, <1>h, <1>u, QuietHeld
  <2>2. ASSUME NEW k \in Codes, goto(a, "commit"),
               Grantable(locks, a, codeRow(k), NoKeyUpdate),
               redeemedBy' = [redeemedBy EXCEPT ![k] = a],
               locks' = locks \cup {Lock(a, codeRow(k), NoKeyUpdate)},
               UNCHANGED committed
        PROVE  LocksHeld' /\ LocksExclude'
    <3>1. LocksHeld'
      BY <2>0, <2>2 DEF goto, LocksHeld, HoldsCustomer, HoldsRequest,
         customerRow, requestRow, codeRow, TypeOK
    <3> QED
      BY <2>2, <3>1, ExcludeTake, Modes
  <2>3. CASE finish(a, Refused("NCD_CODE_UNAVAILABLE")) /\ Rollback(a)
    <3>1. pc'[a] = "done"
      BY <2>3 DEF finish, goto, TypeOK
    <3> QED
      BY <2>0, <2>3, <3>1, <1>h, RollbackHeld, ExcludeRelease
  <2>4. CodeOf[ask[a].request] \in Codes \cup {None}
    BY PaymentAssumption DEF TypeOK, AskType
  <2> QED
    BY <1>5, <2>1, <2>2, <2>3, <2>4 DEF Redeem
<1>6. ASSUME NEW a \in Attempts, Commit(a)
      PROVE  LocksHeld' /\ LocksExclude'
  <2>1. /\ UNCHANGED <<ask, closing, redeemedBy>>
        /\ locks' = Release(locks, a) /\ committed' = committed \cup {a}
        /\ \A b \in Attempts \ {a} : pc'[b] = pc[b]
        /\ pc' \in [Attempts -> PcValues] /\ pc'[a] = "done"
    BY <1>6, <1>t DEF Commit, goto, finish, TypeOK
  <2> QED
    BY <2>1, <1>h, EndHeld, ExcludeRelease DEF Release
<1>7. ASSUME NEW a \in Attempts, Fail(a)
      PROVE  LocksHeld' /\ LocksExclude'
  <2>1. /\ UNCHANGED <<ask, closing>> /\ Rollback(a)
        /\ \A b \in Attempts \ {a} : pc'[b] = pc[b]
        /\ pc' \in [Attempts -> PcValues] /\ pc'[a] = "done"
    BY <1>7, <1>t DEF Fail, goto, finish, TypeOK
  <2> QED
    BY <2>1, <1>h, RollbackHeld, ExcludeRelease
<1>8. ASSUME NEW c \in Customers, LockForClosure(c)
      PROVE  LocksHeld' /\ LocksExclude'
  <2>1. LocksHeld'
    BY <1>8 DEF LockForClosure, LocksHeld, customerRow, requestRow, codeRow, TypeOK
  <2>2. /\ Grantable(locks, c, customerRow(c), ForUpdate)
        /\ locks' = locks \cup {Lock(c, customerRow(c), ForUpdate)}
    BY <1>8 DEF LockForClosure
  <2> QED
    BY <2>1, <2>2, ExcludeTake, Modes
<1>9. ASSUME NEW c \in Customers, CheckPolicies(c) \/ EndClosure(c)
      PROVE  LocksHeld' /\ LocksExclude'
  <2>1. CASE UNCHANGED locks /\ closing[c] = "locked"
    <3>1. LocksHeld'
      BY <1>9, <2>1 DEF CheckPolicies, EndClosure, LocksHeld, customerRow, requestRow,
         codeRow, TypeOK
    <3> QED
      BY <2>1, <3>1, <1>u
  <2>2. CASE locks' = Release(locks, c) /\ closing' = [closing EXCEPT ![c] = "idle"]
    <3>0. UNCHANGED <<tables, attempt>>
      BY <1>9 DEF CheckPolicies, EndClosure
    <3>1. \A b \in Attempts : b # c
      BY PaymentAssumption
    <3>2. LocksHeld'
      BY <2>2, <3>0, <3>1, ReleaseKeeps DEF LocksHeld, customerRow, requestRow, codeRow,
         TypeOK
    <3> QED
      BY <2>2, <3>2, ExcludeRelease DEF Release
  <2> QED
    BY <1>9, <2>1, <2>2 DEF CheckPolicies, EndClosure
<1>10. ASSUME \/ \E a \in Attempts : IssueCertificate(a)
              \/ \E q \in Extendable : StartExtension(q) \/ ExtendOpenQuote(q)
              \/ Tick \/ UNCHANGED vars
       PROVE  LocksHeld' /\ LocksExclude'
  <2>1. UNCHANGED <<locks, ask, pc, closing, redeemedBy, committed>>
    BY <1>10 DEF IssueCertificate, StartExtension, ExtendOpenQuote, Tick, vars
  <2> QED
    BY <2>1, <1>u DEF LocksHeld, customerRow, requestRow, codeRow
<1>11. QED
  BY <1>1, <1>2, <1>3, <1>4, <1>5, <1>6, <1>7, <1>8, <1>9, <1>10
     DEF Next, Pay, Step, Close

(* Two payments of one request are never both past its lock, and a payment *)
(* past the lock of the account excludes the closure of the account.       *)
LEMMA Exclusion ==
  ASSUME IInv
  PROVE  /\ \A a, b \in Attempts :
              (/\ pc[a] \in HoldsRequest /\ pc[b] \in HoldsRequest
               /\ ask[a].request = ask[b].request) => a = b
         /\ \A a \in Attempts, c \in Customers :
              (pc[a] \in HoldsCustomer /\ closing[c] # "idle") => ask[a].customer # c
<1> USE DEF IInv
<1>1. ASSUME NEW a \in Attempts, NEW b \in Attempts, a # b,
             pc[a] \in HoldsRequest, pc[b] \in HoldsRequest,
             ask[a].request = ask[b].request
      PROVE  FALSE
  <2> DEFINE row == requestRow(ask[a].request)
  <2>1. Lock(a, row, ForUpdate) \in locks /\ Lock(b, row, ForUpdate) \in locks
    BY <1>1 DEF LocksHeld
  <2> QED
    BY <1>1, <2>1, LockFields DEF LocksExclude, Conflict
<1>2. ASSUME NEW a \in Attempts, NEW c \in Customers, pc[a] \in HoldsCustomer,
             closing[c] # "idle", ask[a].customer = c
      PROVE  FALSE
  <2>1. /\ Lock(a, customerRow(c), KeyShare) \in locks
        /\ Lock(c, customerRow(c), ForUpdate) \in locks
    BY <1>2 DEF LocksHeld
  <2>2. a # c
    BY PaymentAssumption
  <2> QED
    BY <2>1, <2>2, LockFields DEF LocksExclude, Conflict
<1>3. QED
  BY <1>1, <1>2

-----------------------------------------------------------------------------
(* Rows.                                                                   *)

LEMMA NextFound == IInv /\ [Next]_vars => Found'
<1> SUFFICES ASSUME IInv, [Next]_vars PROVE Found'
  OBVIOUS
<1> USE DEF IInv, Found, FoundQuote, HoldsCustomer, HoldsRequest, QuoteOf, tables,
      attempt, quotes, account
<1>1. ASSUME NEW a \in Attempts, Call(a) \/ Replay(a) \/ ReplayWinner(a)
      PROVE  Found'
  BY <1>1 DEF Call, Replay, ReplayWinner, goto, finish, TypeOK
<1>2. ASSUME NEW a \in Attempts, FindQuote(a) PROVE Found'
  BY <1>2 DEF FindQuote, goto, finish, TypeOK
<1>3. ASSUME NEW a \in Attempts, Stamp(a) \/ LockCustomer(a) \/ LockRequest(a)
      PROVE  Found'
  BY <1>3 DEF Stamp, LockCustomer, LockRequest, goto, finish, TypeOK
<1>4. ASSUME NEW a \in Attempts, InsertPayment(a) PROVE Found'
  BY <1>4 DEF InsertPayment, Rollback, goto, TypeOK
<1>5. ASSUME NEW a \in Attempts, InsertPolicy(a) PROVE Found'
  BY <1>5 DEF InsertPolicy, Rollback, goto, finish, TypeOK
<1>6. ASSUME NEW a \in Attempts, Redeem(a) PROVE Found'
  BY <1>6 DEF Redeem, Rollback, goto, finish, TypeOK
<1>7. ASSUME NEW a \in Attempts, Commit(a) \/ Fail(a) PROVE Found'
  BY <1>7 DEF Commit, Fail, Rollback, goto, finish, TypeOK
<1>8. ASSUME \/ \E a \in Attempts : IssueCertificate(a)
             \/ \E c \in Customers : Close(c)
             \/ \E q \in Extendable : StartExtension(q) \/ ExtendOpenQuote(q)
             \/ Tick \/ UNCHANGED vars
      PROVE  Found'
  BY <1>8 DEF IssueCertificate, Close, LockForClosure, CheckPolicies, EndClosure,
     StartExtension, ExtendOpenQuote, Tick, vars
<1>9. QED
  BY <1>1, <1>2, <1>3, <1>4, <1>5, <1>6, <1>7, <1>8 DEF Next, Pay, Step

LEMMA NextRows == IInv /\ [Next]_vars => Rows' /\ KeysUnique'
<1> SUFFICES ASSUME IInv, [Next]_vars PROVE Rows' /\ KeysUnique'
  OBVIOUS
<1> USE DEF IInv, Rows, KeysUnique, tables, attempt, quotes, account
<1>1. ASSUME NEW a \in Attempts,
             \/ Call(a) \/ Replay(a) \/ FindQuote(a) \/ Stamp(a) \/ LockCustomer(a)
             \/ LockRequest(a) \/ ReplayWinner(a)
      PROVE  Rows' /\ KeysUnique'
  <2>1. /\ UNCHANGED <<tables, ask>> /\ pc[a] # "done"
        /\ \A b \in Attempts \ {a} : pc'[b] = pc[b]
        /\ pc'[a] \in {"replay", "findQuote", "stamp", "lockCustomer", "lockRequest",
                       "insertPayment", "done"}
    BY <1>1 DEF Call, Replay, FindQuote, Stamp, LockCustomer, LockRequest, ReplayWinner,
       goto, finish, TypeOK
  <2> QED
    BY <2>1 DEF TypeOK
<1>2. ASSUME NEW a \in Attempts, InsertPayment(a) PROVE Rows' /\ KeysUnique'
  <2>1. CASE goto(a, "replayWinner") /\ Rollback(a)
    BY <1>2, <2>1 DEF InsertPayment, Rollback, goto, TypeOK
  <2>2. CASE /\ goto(a, "insertPolicy") /\ payments' = payments \cup {a}
             /\ \A b \in payments \ {a} : ask[b].key # ask[a].key
             /\ UNCHANGED <<policies, redeemedBy, committed, locks>>
    BY <1>2, <2>2 DEF InsertPayment, goto, TypeOK
  <2> QED
    BY <1>2, <2>1, <2>2 DEF InsertPayment
<1>3. ASSUME NEW a \in Attempts, InsertPolicy(a) PROVE Rows' /\ KeysUnique'
  BY <1>3 DEF InsertPolicy, Rollback, goto, finish, TypeOK, InForce
<1>4. ASSUME NEW a \in Attempts, Redeem(a) PROVE Rows' /\ KeysUnique'
  BY <1>4 DEF Redeem, Rollback, goto, finish, TypeOK
<1>5. ASSUME NEW a \in Attempts, Commit(a) PROVE Rows' /\ KeysUnique'
  BY <1>5 DEF Commit, goto, finish, TypeOK
<1>6. ASSUME NEW a \in Attempts, Fail(a) PROVE Rows' /\ KeysUnique'
  BY <1>6 DEF Fail, Rollback, goto, finish, TypeOK, InTransaction
<1>7. ASSUME NEW a \in Attempts, IssueCertificate(a) PROVE Rows' /\ KeysUnique'
  BY <1>7 DEF IssueCertificate, TypeOK, InForce
<1>8. ASSUME \/ \E c \in Customers : Close(c)
             \/ \E q \in Extendable : StartExtension(q) \/ ExtendOpenQuote(q)
             \/ Tick \/ UNCHANGED vars
      PROVE  Rows' /\ KeysUnique'
  BY <1>8 DEF Close, LockForClosure, CheckPolicies, EndClosure, StartExtension,
     ExtendOpenQuote, Tick, vars
<1>9. QED
  BY <1>1, <1>2, <1>3, <1>4, <1>5, <1>6, <1>7, <1>8 DEF Next, Pay, Step

-----------------------------------------------------------------------------
(* The sale of a request.                                                  *)

(* The lock on the request keeps it unpaid until the buyer has committed.  *)
LEMMA NextUnpaid == IInv /\ [Next]_vars => StillUnpaid' /\ OnePolicyPerRequest'
<1> SUFFICES ASSUME IInv, [Next]_vars PROVE StillUnpaid' /\ OnePolicyPerRequest'
  OBVIOUS
<1> USE DEF IInv, tables, attempt, quotes, account
<1>q. ASSUME NEW a \in Attempts, committed' = committed, ask' = ask,
             \A b \in committed : policies'[b] = policies[b],
             \A b \in Attempts \ {a} : pc'[b] = pc[b],
             pc'[a] \in {"redeem", "commit"} =>
               pc[a] \in {"redeem", "commit"} \/ ~PaidBefore(a)
      PROVE  StillUnpaid' /\ OnePolicyPerRequest'
  BY <1>q DEF StillUnpaid, PaidBefore, OnePolicyPerRequest
<1>1. ASSUME NEW a \in Attempts,
             \/ Call(a) \/ Replay(a) \/ FindQuote(a) \/ Stamp(a) \/ LockCustomer(a)
             \/ LockRequest(a) \/ ReplayWinner(a)
      PROVE  StillUnpaid' /\ OnePolicyPerRequest'
  <2>1. /\ UNCHANGED <<tables, ask>>
        /\ \A b \in Attempts \ {a} : pc'[b] = pc[b]
        /\ pc'[a] \notin {"redeem", "commit"}
    BY <1>1 DEF Call, Replay, FindQuote, Stamp, LockCustomer, LockRequest, ReplayWinner,
       goto, finish, TypeOK
  <2> QED
    BY <2>1, <1>q
<1>2. ASSUME NEW a \in Attempts, InsertPayment(a) \/ Redeem(a) \/ Fail(a)
      PROVE  StillUnpaid' /\ OnePolicyPerRequest'
  <2>1. a \notin committed
    BY <1>2 DEF InsertPayment, Redeem, Fail, InTransaction, Rows
  <2>2. /\ UNCHANGED <<committed, ask>>
        /\ \A b \in Attempts \ {a} : pc'[b] = pc[b]
        /\ \A b \in Attempts \ {a} : policies'[b] = policies[b]
        /\ pc'[a] \in {"redeem", "commit"} => pc[a] = "redeem"
    BY <1>2 DEF InsertPayment, Redeem, Fail, Rollback, goto, finish, TypeOK
  <2> QED
    BY <2>1, <2>2, <1>q DEF TypeOK
<1>3. ASSUME NEW a \in Attempts, InsertPolicy(a)
      PROVE  StillUnpaid' /\ OnePolicyPerRequest'
  <2>1. a \notin committed
    BY <1>3 DEF InsertPolicy, Rows
  <2>2. /\ UNCHANGED <<committed, ask>>
        /\ \A b \in Attempts \ {a} : pc'[b] = pc[b]
        /\ \A b \in Attempts \ {a} : policies'[b] = policies[b]
        /\ pc'[a] \in {"redeem", "commit"} => ~PaidBefore(a)
    BY <1>3 DEF InsertPolicy, Rollback, goto, finish, TypeOK, offerRefusal
  <2> QED
    BY <2>1, <2>2, <1>q DEF TypeOK
<1>4. ASSUME NEW a \in Attempts, Commit(a)
      PROVE  StillUnpaid' /\ OnePolicyPerRequest'
  <2>1. /\ committed' = committed \cup {a} /\ UNCHANGED <<ask, policies>>
        /\ \A b \in Attempts \ {a} : pc'[b] = pc[b]
        /\ pc'[a] = "done" /\ pc[a] = "commit"
    BY <1>4 DEF Commit, goto, finish, TypeOK
  <2>2. ~PaidBefore(a)
    BY <2>1 DEF StillUnpaid
  <2>3. OnePolicyPerRequest'
    BY <2>1, <2>2 DEF PaidBefore, OnePolicyPerRequest
  <2>4. ASSUME NEW b \in Attempts, pc'[b] \in {"redeem", "commit"}
        PROVE  ~PaidBefore(b)'
    <3>1. b # a /\ ask[b].request # ask[a].request
      BY <2>1, <2>4, Exclusion DEF HoldsRequest
    <3> QED
      BY <2>1, <2>4, <3>1 DEF StillUnpaid, PaidBefore
  <2> QED
    BY <2>3, <2>4 DEF StillUnpaid
<1>5. ASSUME NEW a \in Attempts, IssueCertificate(a)
      PROVE  StillUnpaid' /\ OnePolicyPerRequest'
  <2>1. policies[a] # None
    BY <1>5, PaymentAssumption DEF IssueCertificate, InForce
  <2>2. \A b \in Attempts : policies'[b] # None => policies[b] # None
    BY <1>5, <2>1 DEF IssueCertificate, TypeOK
  <2> QED
    BY <1>5, <2>2 DEF IssueCertificate, StillUnpaid, PaidBefore, OnePolicyPerRequest,
       TypeOK
<1>6. ASSUME \/ \E c \in Customers : Close(c)
             \/ \E q \in Extendable : StartExtension(q) \/ ExtendOpenQuote(q)
             \/ Tick \/ UNCHANGED vars
      PROVE  StillUnpaid' /\ OnePolicyPerRequest'
  <2>1. UNCHANGED <<tables, attempt>>
    BY <1>6 DEF Close, LockForClosure, CheckPolicies, EndClosure, StartExtension,
       ExtendOpenQuote, Tick, vars
  <2> QED
    BY <2>1 DEF StillUnpaid, PaidBefore, OnePolicyPerRequest
<1>7. QED
  BY <1>1, <1>2, <1>3, <1>4, <1>5, <1>6 DEF Next, Pay, Step

-----------------------------------------------------------------------------
(* The account and its closure.                                            *)

LEMMA NextOpen == IInv /\ [Next]_vars => StillOpen' /\ StillClear' /\ ClosedHoldsNoCover'
<1> SUFFICES ASSUME IInv, [Next]_vars
             PROVE  StillOpen' /\ StillClear' /\ ClosedHoldsNoCover'
  OBVIOUS
<1> USE DEF IInv, tables, attempt, quotes, account
<1>q. ASSUME NEW a \in Attempts, UNCHANGED <<ask, committed, closed, closing>>,
             \A b \in committed : policies'[b] = policies[b],
             \A b \in Attempts \ {a} : pc'[b] = pc[b],
             pc'[a] \in HoldsCustomer =>
               pc[a] \in HoldsCustomer \/ ask[a].customer \notin closed
      PROVE  StillOpen' /\ StillClear' /\ ClosedHoldsNoCover'
  <2>1. \A c \in Customers : policiesInForce(c)' = policiesInForce(c)
    BY <1>q DEF policiesInForce
  <2> QED
    BY <1>q, <2>1 DEF StillOpen, StillClear, ClosedHoldsNoCover, TypeOK
<1>1. ASSUME NEW a \in Attempts,
             \/ Call(a) \/ Replay(a) \/ FindQuote(a) \/ Stamp(a) \/ LockCustomer(a)
             \/ LockRequest(a) \/ ReplayWinner(a)
      PROVE  StillOpen' /\ StillClear' /\ ClosedHoldsNoCover'
  <2>1. /\ UNCHANGED <<tables, ask, closed, closing>>
        /\ \A b \in Attempts \ {a} : pc'[b] = pc[b]
        /\ pc'[a] \in {"replay", "findQuote", "stamp", "lockCustomer", "lockRequest",
                       "insertPayment", "done"}
        /\ pc'[a] = "lockRequest" => ask[a].customer \notin closed
        /\ pc'[a] = "insertPayment" => pc[a] = "lockRequest"
    BY <1>1 DEF Call, Replay, FindQuote, Stamp, LockCustomer, LockRequest, ReplayWinner,
       goto, finish, TypeOK
  <2> QED
    BY <2>1, <1>q DEF HoldsCustomer, HoldsRequest
<1>2. ASSUME NEW a \in Attempts,
             InsertPayment(a) \/ InsertPolicy(a) \/ Redeem(a) \/ Fail(a)
      PROVE  StillOpen' /\ StillClear' /\ ClosedHoldsNoCover'
  <2>1. a \notin committed
    BY <1>2 DEF InsertPayment, InsertPolicy, Redeem, Fail, InTransaction, Rows
  <2>2. /\ UNCHANGED <<ask, committed, closed, closing>>
        /\ \A b \in Attempts \ {a} : pc'[b] = pc[b]
        /\ \A b \in Attempts \ {a} : policies'[b] = policies[b]
        /\ pc'[a] \in HoldsCustomer => pc[a] \in HoldsCustomer
    BY <1>2 DEF InsertPayment, InsertPolicy, Redeem, Fail, Rollback, goto, finish,
       TypeOK, HoldsCustomer, HoldsRequest
  <2> QED
    BY <2>1, <2>2, <1>q DEF TypeOK
<1>3. ASSUME NEW a \in Attempts, Commit(a)
      PROVE  StillOpen' /\ StillClear' /\ ClosedHoldsNoCover'
  <2> DEFINE mine == ask[a].customer
  <2>1. /\ committed' = committed \cup {a}
        /\ UNCHANGED <<ask, policies, closed, closing>>
        /\ \A b \in Attempts \ {a} : pc'[b] = pc[b]
        /\ pc'[a] = "done" /\ pc[a] \in HoldsCustomer
    BY <1>3 DEF Commit, goto, finish, TypeOK, HoldsCustomer, HoldsRequest
  <2>2. mine \notin closed
    BY <2>1 DEF StillOpen
  <2>3. \A c \in Customers : closing[c] # "idle" => mine # c
    BY <2>1, Exclusion
  <2>4. \A c \in Customers : c # mine => policiesInForce(c)' = policiesInForce(c)
    BY <2>1 DEF policiesInForce
  <2> QED
    BY <2>1, <2>2, <2>3, <2>4 DEF StillOpen, StillClear, ClosedHoldsNoCover, TypeOK,
       HoldsCustomer, HoldsRequest
<1>4. ASSUME NEW a \in Attempts, IssueCertificate(a)
      PROVE  StillOpen' /\ StillClear' /\ ClosedHoldsNoCover'
  <2>1. \A c \in Customers : policiesInForce(c)' = policiesInForce(c)
    BY <1>4 DEF IssueCertificate, policiesInForce, InForce, TypeOK
  <2> QED
    BY <1>4, <2>1 DEF IssueCertificate, StillOpen, StillClear, ClosedHoldsNoCover, TypeOK
<1>5. ASSUME NEW c \in Customers, Close(c)
      PROVE  StillOpen' /\ StillClear' /\ ClosedHoldsNoCover'
  <2>0. /\ UNCHANGED <<tables, attempt>>
        /\ \A d \in Customers : policiesInForce(d)' = policiesInForce(d)
        /\ \A d \in Customers \ {c} : closing'[d] = closing[d]
        /\ closing'[c] = "clear" => policiesInForce(c) = {}
        /\ closed \subseteq Customers
    BY <1>5 DEF Close, LockForClosure, CheckPolicies, EndClosure, policiesInForce,
       TypeOK
  <2>1. StillClear'
    BY <2>0 DEF StillClear
  <2>2. CASE UNCHANGED closed
    BY <2>0, <2>1, <2>2 DEF StillOpen, ClosedHoldsNoCover
  <2>3. CASE closing[c] = "clear" /\ closed' = closed \cup {c}
    <3>1. \A a \in Attempts : pc[a] \in HoldsCustomer => ask[a].customer # c
      BY <2>3, Exclusion
    <3>2. policiesInForce(c) = {}
      BY <2>3 DEF StillClear
    <3> QED
      BY <2>0, <2>1, <2>3, <3>1, <3>2 DEF StillOpen, ClosedHoldsNoCover
  <2> QED
    BY <1>5, <2>2, <2>3 DEF Close, LockForClosure, CheckPolicies, EndClosure
<1>6. ASSUME \/ \E q \in Extendable : StartExtension(q) \/ ExtendOpenQuote(q)
             \/ Tick \/ UNCHANGED vars
      PROVE  StillOpen' /\ StillClear' /\ ClosedHoldsNoCover'
  <2>1. UNCHANGED <<tables, attempt, closed, closing>>
    BY <1>6 DEF StartExtension, ExtendOpenQuote, Tick, vars
  <2> QED
    BY <2>1 DEF StillOpen, StillClear, ClosedHoldsNoCover, policiesInForce
<1>7. QED
  BY <1>1, <1>2, <1>3, <1>4, <1>5, <1>6 DEF Next, Pay, Step

-----------------------------------------------------------------------------
(* The no-claim discount code.                                             *)

LEMMA NextCodes == IInv /\ [Next]_vars => CodesSpent'
<1> SUFFICES ASSUME IInv, [Next]_vars PROVE CodesSpent'
  OBVIOUS
<1> USE DEF IInv, tables, attempt, quotes, account
<1>q. ASSUME NEW a \in Attempts, UNCHANGED <<ask, committed, redeemedBy>>,
             \A b \in Attempts \ {a} : pc'[b] = pc[b],
             pc'[a] = "commit" <=> pc[a] = "commit"
      PROVE  CodesSpent'
  BY <1>q DEF CodesSpent, Discounts
<1>r. ASSUME NEW a \in Attempts, Rollback(a), pc[a] \in InTransaction,
             UNCHANGED ask, pc'[a] # "commit", \A b \in Attempts \ {a} : pc'[b] = pc[b]
      PROVE  CodesSpent'
  <2>1. a \notin committed
    BY <1>r DEF Rows, InTransaction
  <2>2. \A k \in Codes : /\ redeemedBy[k] = a => redeemedBy'[k] = None
                         /\ redeemedBy[k] # a => redeemedBy'[k] = redeemedBy[k]
    BY <1>r DEF Rollback
  <2>3. None \notin Attempts /\ committed' = committed
    BY <1>r, PaymentAssumption DEF Rollback
  <2> QED
    BY <1>r, <2>1, <2>2, <2>3 DEF CodesSpent, Discounts
<1>1. ASSUME NEW a \in Attempts,
             \/ Call(a) \/ Replay(a) \/ FindQuote(a) \/ Stamp(a) \/ LockCustomer(a)
             \/ LockRequest(a) \/ ReplayWinner(a)
      PROVE  CodesSpent'
  <2>1. /\ UNCHANGED <<ask, committed, redeemedBy>>
        /\ \A b \in Attempts \ {a} : pc'[b] = pc[b]
        /\ pc'[a] # "commit" /\ pc[a] # "commit"
    BY <1>1 DEF Call, Replay, FindQuote, Stamp, LockCustomer, LockRequest, ReplayWinner,
       goto, finish, TypeOK
  <2> QED
    BY <2>1, <1>q
<1>2. ASSUME NEW a \in Attempts, InsertPayment(a) \/ InsertPolicy(a)
      PROVE  CodesSpent'
  <2>1. /\ UNCHANGED ask /\ \A b \in Attempts \ {a} : pc'[b] = pc[b]
        /\ pc'[a] # "commit" /\ pc[a] # "commit" /\ pc[a] \in InTransaction
        /\ Rollback(a) \/ UNCHANGED <<committed, redeemedBy>>
    BY <1>2 DEF InsertPayment, InsertPolicy, goto, finish, TypeOK, InTransaction
  <2> QED
    BY <2>1, <1>q, <1>r
<1>3. ASSUME NEW a \in Attempts, Redeem(a) PROVE CodesSpent'
  <2> DEFINE k == CodeOf[ask[a].request]
  <2>0. /\ UNCHANGED ask /\ \A b \in Attempts \ {a} : pc'[b] = pc[b]
        /\ pc[a] = "redeem" /\ a \notin committed /\ None \notin Attempts \cup Codes
    BY <1>3, PaymentAssumption DEF Redeem, goto, finish, TypeOK, Rows
  <2>1. CASE /\ k = None \/ Issuer[k] # ask[a].insurer
             /\ goto(a, "commit") /\ UNCHANGED <<committed, redeemedBy>>
    <3>1. pc'[a] = "commit" /\ \A j \in Codes : ~Discounts(a, j)
      BY <2>0, <2>1 DEF goto, TypeOK, Discounts
    <3> QED
      BY <2>0, <2>1, <3>1 DEF CodesSpent, Discounts
  <2>2. CASE /\ k # None /\ Issuer[k] = ask[a].insurer /\ redeemable(a, k)
             /\ goto(a, "commit") /\ redeemedBy' = [redeemedBy EXCEPT ![k] = a]
             /\ UNCHANGED committed
    <3>1. k \in Codes
      BY <2>2, PaymentAssumption DEF TypeOK, AskType
    <3>2. /\ pc'[a] = "commit" /\ redeemedBy[k] = None /\ redeemedBy'[k] = a
          /\ Holder[k] = ask[a].customer
          /\ \A j \in Codes \ {k} : redeemedBy'[j] = redeemedBy[j]
      BY <2>2, <3>1 DEF goto, TypeOK, redeemable
    <3>3. ASSUME NEW j \in Codes, Discounts(a, j) PROVE j = k
      BY <3>3 DEF Discounts
    <3>4. Discounts(a, k)
      BY <2>2 DEF Discounts
    <3> QED
      BY <2>0, <2>2, <3>1, <3>2, <3>3, <3>4 DEF CodesSpent, Discounts
  <2>3. CASE finish(a, Refused("NCD_CODE_UNAVAILABLE")) /\ Rollback(a)
    <3>1. pc'[a] = "done"
      BY <2>3 DEF finish, goto, TypeOK
    <3> QED
      BY <2>0, <2>3, <3>1, <1>r DEF InTransaction
  <2> QED
    BY <1>3, <2>1, <2>2, <2>3 DEF Redeem
<1>4. ASSUME NEW a \in Attempts, Commit(a) PROVE CodesSpent'
  <2>1. /\ UNCHANGED <<ask, redeemedBy>> /\ committed' = committed \cup {a}
        /\ \A b \in Attempts \ {a} : pc'[b] = pc[b]
        /\ pc[a] = "commit"
    BY <1>4 DEF Commit, goto, finish, TypeOK
  <2> QED
    BY <2>1 DEF CodesSpent, Discounts
<1>5. ASSUME NEW a \in Attempts, Fail(a) PROVE CodesSpent'
  <2>1. /\ UNCHANGED ask /\ \A b \in Attempts \ {a} : pc'[b] = pc[b]
        /\ pc'[a] # "commit"
    BY <1>5 DEF Fail, goto, finish, TypeOK
  <2> QED
    BY <1>5, <2>1, <1>r DEF Fail
<1>6. ASSUME \/ \E a \in Attempts : IssueCertificate(a)
             \/ \E c \in Customers : Close(c)
             \/ \E q \in Extendable : StartExtension(q) \/ ExtendOpenQuote(q)
             \/ Tick \/ UNCHANGED vars
      PROVE  CodesSpent'
  <2>1. UNCHANGED <<ask, committed, redeemedBy, pc>>
    BY <1>6 DEF IssueCertificate, Close, LockForClosure, CheckPolicies, EndClosure,
       StartExtension, ExtendOpenQuote, Tick, vars
  <2> QED
    BY <2>1 DEF CodesSpent, Discounts
<1>7. QED
  BY <1>1, <1>2, <1>3, <1>4, <1>5, <1>6 DEF Next, Pay, Step

-----------------------------------------------------------------------------
(* The offer.                                                              *)

LEMMA NextOffer == IInv /\ [Next]_vars => OfferStands'
<1> SUFFICES ASSUME IInv, [Next]_vars PROVE OfferStands'
  OBVIOUS
<1> USE DEF IInv, tables, attempt, quotes, account
<1>q. ASSUME NEW a \in Attempts, UNCHANGED <<ask, committed, validUntil>>,
             \A b \in Attempts \ {a} : /\ pc'[b] = pc[b] /\ offer'[b] = offer[b]
                                       /\ confirmedAt'[b] = confirmedAt[b],
             (pc'[a] \in FoundQuote \/ a \in committed) =>
               offer'[a] \in Nat /\ offer'[a] <= validUntil[QuoteOf(a)],
             (pc'[a] \in FoundQuote \ {"stamp"} \/ a \in committed) =>
               confirmedAt'[a] \in Nat,
             (pc'[a] \in {"redeem", "commit"} \/ a \in committed) =>
               /\ confirmedAt'[a] < offer'[a]
               /\ ask[a].amount = expectedAmount(QuoteOf(a))
      PROVE  OfferStands'
  BY <1>q DEF OfferStands, QuoteOf, expectedAmount
<1>1. ASSUME NEW a \in Attempts, Call(a) \/ Replay(a) \/ ReplayWinner(a)
      PROVE  OfferStands'
  <2>1. /\ UNCHANGED <<ask, committed, validUntil, offer, confirmedAt>>
        /\ \A b \in Attempts \ {a} : pc'[b] = pc[b]
        /\ pc'[a] \in {"replay", "findQuote", "done"} /\ a \notin committed
    BY <1>1 DEF Call, Replay, ReplayWinner, goto, finish, TypeOK, Rows
  <2> QED
    BY <2>1, <1>q DEF FoundQuote, HoldsCustomer, HoldsRequest
<1>2. ASSUME NEW a \in Attempts, FindQuote(a) PROVE OfferStands'
  <2>1. CASE pc'[a] = "done" /\ UNCHANGED offer
    <3>1. /\ UNCHANGED <<ask, committed, validUntil, confirmedAt>>
          /\ \A b \in Attempts \ {a} : pc'[b] = pc[b]
          /\ a \notin committed
      BY <1>2 DEF FindQuote, goto, finish, TypeOK, Rows
    <3> QED
      BY <2>1, <3>1, <1>q DEF FoundQuote, HoldsCustomer, HoldsRequest
  <2>2. CASE /\ QuoteOf(a) \in Quotes /\ goto(a, "stamp")
             /\ offer' = [offer EXCEPT ![a] = validUntil[QuoteOf(a)]]
    <3>1. /\ UNCHANGED <<ask, committed, validUntil, confirmedAt>>
          /\ \A b \in Attempts \ {a} : pc'[b] = pc[b] /\ offer'[b] = offer[b]
          /\ a \notin committed /\ pc'[a] = "stamp"
          /\ offer'[a] = validUntil[QuoteOf(a)]
          /\ validUntil[QuoteOf(a)] \in 0..MaxTime
      BY <1>2, <2>2 DEF FindQuote, goto, TypeOK, Rows
    <3> QED
      BY <3>1, <1>q
  <2> QED
    BY <1>2, <2>1, <2>2 DEF FindQuote, goto, finish, TypeOK
<1>3. ASSUME NEW a \in Attempts, Stamp(a) PROVE OfferStands'
  <2>1. /\ UNCHANGED <<ask, committed, validUntil, offer>>
        /\ \A b \in Attempts \ {a} : pc'[b] = pc[b] /\ confirmedAt'[b] = confirmedAt[b]
        /\ a \notin committed /\ pc[a] = "stamp" /\ pc'[a] = "lockCustomer"
        /\ confirmedAt'[a] \in Nat
    BY <1>3 DEF Stamp, goto, TypeOK, Rows
  <2> QED
    BY <2>1, <1>q DEF OfferStands, FoundQuote
<1>4. ASSUME NEW a \in Attempts,
             \/ LockCustomer(a) \/ LockRequest(a) \/ InsertPayment(a) \/ Redeem(a)
             \/ Fail(a)
      PROVE  OfferStands'
  <2>1. /\ UNCHANGED <<ask, committed, validUntil, offer, confirmedAt>>
        /\ \A b \in Attempts \ {a} : pc'[b] = pc[b]
        /\ a \notin committed
        /\ pc'[a] \in FoundQuote => pc[a] \in FoundQuote \ {"stamp"}
        /\ pc'[a] \in {"redeem", "commit"} => pc[a] = "redeem"
    BY <1>4 DEF LockCustomer, LockRequest, InsertPayment, Redeem, Fail, Rollback,
       InTransaction, goto, finish, TypeOK, Rows, FoundQuote, HoldsCustomer, HoldsRequest
  <2> QED
    BY <2>1, <1>q DEF OfferStands
<1>5. ASSUME NEW a \in Attempts, InsertPolicy(a) PROVE OfferStands'
  <2>1. /\ UNCHANGED <<ask, committed, validUntil, offer, confirmedAt>>
        /\ \A b \in Attempts \ {a} : pc'[b] = pc[b]
        /\ a \notin committed
        /\ pc[a] \in FoundQuote \ {"stamp"} /\ pc'[a] \in {"redeem", "done"}
        /\ pc'[a] = "redeem" => offerRefusal(a) = "NONE"
    BY <1>5 DEF InsertPolicy, Rollback, goto, finish, TypeOK, Rows, FoundQuote,
       HoldsCustomer, HoldsRequest
  <2>2. /\ offer[a] \in Nat /\ offer[a] <= validUntil[QuoteOf(a)]
        /\ confirmedAt[a] \in Nat
    BY <2>1 DEF OfferStands
  <2>3. pc'[a] = "redeem" => /\ ~(offer[a] <= confirmedAt[a])
                            /\ ask[a].amount = expectedAmount(QuoteOf(a))
    BY <2>1 DEF offerRefusal, isQuoteExpired
  <2>4. pc'[a] = "redeem" => confirmedAt[a] < offer[a]
    BY <2>2, <2>3
  <2> QED
    BY <2>1, <2>2, <2>3, <2>4, <1>q
<1>6. ASSUME NEW a \in Attempts, Commit(a) PROVE OfferStands'
  <2>1. /\ UNCHANGED <<ask, validUntil, offer, confirmedAt>>
        /\ committed' = committed \cup {a}
        /\ \A b \in Attempts \ {a} : pc'[b] = pc[b]
        /\ pc[a] = "commit" /\ pc'[a] = "done"
    BY <1>6 DEF Commit, goto, finish, TypeOK
  <2> QED
    BY <2>1 DEF OfferStands, QuoteOf, expectedAmount, FoundQuote, HoldsCustomer,
       HoldsRequest
<1>7. ASSUME NEW q \in Extendable, ExtendOpenQuote(q) PROVE OfferStands'
  <2>1. UNCHANGED <<ask, committed, offer, confirmedAt, pc>>
    BY <1>7 DEF ExtendOpenQuote
  <2>2. \A p \in Quotes : validUntil[p] \in Nat /\ validUntil'[p] \in Nat
                         /\ validUntil[p] <= validUntil'[p]
    BY <1>7 DEF ExtendOpenQuote, TypeOK
  <2>3. ASSUME NEW a \in Attempts, pc[a] \in FoundQuote \/ a \in committed
        PROVE  offer[a] <= validUntil'[QuoteOf(a)]
    <3>1. QuoteOf(a) \in Quotes /\ offer[a] \in Nat /\ offer[a] <= validUntil[QuoteOf(a)]
      BY <2>3 DEF OfferStands, Found
    <3> QED
      BY <3>1, <2>2
  <2> QED
    BY <2>1, <2>3 DEF OfferStands, QuoteOf, expectedAmount
<1>8. ASSUME \/ \E a \in Attempts : IssueCertificate(a)
             \/ \E c \in Customers : Close(c)
             \/ \E q \in Extendable : StartExtension(q)
             \/ Tick \/ UNCHANGED vars
      PROVE  OfferStands'
  <2>1. UNCHANGED <<ask, committed, offer, confirmedAt, pc, validUntil>>
    BY <1>8 DEF IssueCertificate, Close, LockForClosure, CheckPolicies, EndClosure,
       StartExtension, Tick, vars
  <2> QED
    BY <2>1 DEF OfferStands, QuoteOf, expectedAmount
<1>9. QED
  BY <1>1, <1>2, <1>3, <1>4, <1>5, <1>6, <1>7, <1>8 DEF Next, Pay, Step

-----------------------------------------------------------------------------
(* The answers.                                                            *)

(* What makes an answer of attempt a the truth about the database.         *)
Justified(a, r) ==
  /\ r.code = "ALREADY_PAID" =>
       \E b \in committed : /\ ask[b].request = ask[a].request
                            /\ ask[b].key # ask[a].key
  /\ r.code = "ACCOUNT_CLOSED" => ask[a].customer \in closed
  /\ r.code = "NCD_CODE_UNAVAILABLE" =>
       \E k \in Codes : /\ Discounts(a, k)
                        /\ \/ Holder[k] # ask[a].customer
                           \/ /\ redeemedBy[k] \in committed
                              /\ ask[redeemedBy[k]].key # ask[a].key
  /\ r.code = "RECEIPT" => r.of \in committed /\ ask[r.of] = ask[a]

LEMMA AnswersJustified == Answers <=> \A a \in Attempts : Justified(a, reply[a])
  BY DEF Answers, Justified

(* Nothing a step does takes a justification away.                         *)
LEMMA StaysJustified ==
  ASSUME ask' = ask, committed \subseteq committed', closed \subseteq closed',
         \A k \in Codes : redeemedBy[k] \in committed => redeemedBy'[k] = redeemedBy[k],
         NEW a \in Attempts, NEW r, Justified(a, r)
  PROVE  Justified(a, r)'
<1> USE DEF Justified
<1>1. (r.code = "ALREADY_PAID" =>
       \E b \in committed : /\ ask[b].request = ask[a].request
                            /\ ask[b].key # ask[a].key)'
  OBVIOUS
<1>2. (r.code = "NCD_CODE_UNAVAILABLE" =>
       \E k \in Codes : /\ Discounts(a, k)
                        /\ \/ Holder[k] # ask[a].customer
                           \/ /\ redeemedBy[k] \in committed
                              /\ ask[redeemedBy[k]].key # ask[a].key)'
  BY DEF Discounts
<1>3. (r.code = "ACCOUNT_CLOSED" => ask[a].customer \in closed)'
  OBVIOUS
<1>4. (r.code = "RECEIPT" => r.of \in committed /\ ask[r.of] = ask[a])'
  OBVIOUS
<1> QED
  BY <1>1, <1>2, <1>3, <1>4

LEMMA OnlyGrows ==
  IInv /\ [Next]_vars =>
    /\ ask' = ask /\ committed \subseteq committed' /\ closed \subseteq closed'
    /\ \A k \in Codes : redeemedBy[k] \in committed => redeemedBy'[k] = redeemedBy[k]
<1> SUFFICES ASSUME IInv, [Next]_vars
             PROVE  /\ ask' = ask
                    /\ committed \subseteq committed' /\ closed \subseteq closed'
                    /\ \A k \in Codes : redeemedBy[k] \in committed =>
                         redeemedBy'[k] = redeemedBy[k]
  OBVIOUS
<1> USE DEF IInv, tables, attempt, quotes, account
<1>r. ASSUME NEW a \in Attempts, Rollback(a), pc[a] \in InTransaction
      PROVE  \A k \in Codes : redeemedBy[k] \in committed =>
               redeemedBy'[k] = redeemedBy[k]
  <2>1. a \notin committed
    BY <1>r DEF Rows, InTransaction
  <2> QED
    BY <1>r, <2>1 DEF Rollback
<1>1. ASSUME NEW a \in Attempts,
             \/ Call(a) \/ Replay(a) \/ FindQuote(a) \/ Stamp(a) \/ LockCustomer(a)
             \/ LockRequest(a) \/ ReplayWinner(a) \/ Commit(a) \/ IssueCertificate(a)
      PROVE  /\ UNCHANGED <<ask, redeemedBy, closed>> /\ committed \subseteq committed'
  BY <1>1 DEF Call, Replay, FindQuote, Stamp, LockCustomer, LockRequest, ReplayWinner,
     Commit, IssueCertificate
<1>2. ASSUME NEW a \in Attempts,
             InsertPayment(a) \/ InsertPolicy(a) \/ Redeem(a) \/ Fail(a)
      PROVE  /\ UNCHANGED <<ask, committed, closed>>
             /\ \A k \in Codes : redeemedBy[k] \in committed =>
                  redeemedBy'[k] = redeemedBy[k]
  <2>1. pc[a] \in InTransaction /\ UNCHANGED <<ask, committed, closed>>
    BY <1>2 DEF InsertPayment, InsertPolicy, Redeem, Fail, InTransaction, Rollback
  <2>2. CASE Rollback(a)
    BY <2>1, <2>2, <1>r
  <2>3. CASE UNCHANGED redeemedBy
    BY <2>1, <2>3
  <2>4. CASE \E k : redeemable(a, k) /\ redeemedBy' = [redeemedBy EXCEPT ![k] = a]
    <3>1. None \notin committed
      BY PaymentAssumption DEF TypeOK
    <3> QED
      BY <2>1, <2>4, <3>1 DEF redeemable, TypeOK
  <2> QED
    BY <1>2, <2>2, <2>3, <2>4 DEF InsertPayment, InsertPolicy, Redeem, Fail
<1>3. ASSUME \/ \E c \in Customers : Close(c)
             \/ \E q \in Extendable : StartExtension(q) \/ ExtendOpenQuote(q)
             \/ Tick \/ UNCHANGED vars
      PROVE  UNCHANGED <<ask, committed, redeemedBy>> /\ closed \subseteq closed'
  BY <1>3 DEF Close, LockForClosure, CheckPolicies, EndClosure, StartExtension,
     ExtendOpenQuote, Tick, vars
<1>4. QED
  BY <1>1, <1>2, <1>3 DEF Next, Pay, Step

LEMMA ReplayJustified ==
  ASSUME IInv, NEW a \in Attempts, NEW b \in Stored(a)
  PROVE  Justified(a, replayOutcome(a, b))
  BY DEF Justified, replayOutcome, Stored, Refused, Receipt

(* The answer a step gives is true when it is given.                       *)
LEMMA NextAnswers == IInv /\ [Next]_vars => Answers'
<1> SUFFICES ASSUME IInv, [Next]_vars PROVE Answers'
  OBVIOUS
<1> USE DEF IInv, tables, attempt, quotes, account
<1>s. \A b \in Attempts : \A r : Justified(b, r) => Justified(b, r)'
  BY OnlyGrows, StaysJustified
<1>k. ASSUME NEW b \in Attempts, reply'[b] = reply[b] PROVE Justified(b, reply[b])'
  <2>1. Justified(b, reply[b])
    BY AnswersJustified
  <2> QED
    BY <1>k, <2>1, <1>s DEF Justified
<1>n. ASSUME NEW a \in Attempts, NEW r, reply' = [reply EXCEPT ![a] = r],
             Justified(a, r)'
      PROVE  Answers'
  <2>1. ASSUME NEW b \in Attempts PROVE Justified(b, reply[b])'
    <3>1. CASE b = a
      <4>1. reply'[a] = r
        BY <1>n DEF TypeOK
      <4> QED
        BY <3>1, <4>1, <1>n DEF Justified
    <3>2. CASE b # a
      <4>1. reply'[b] = reply[b]
        BY <3>2, <1>n
      <4> QED
        BY <4>1, <1>k
    <3> QED
      BY <3>1, <3>2
  <2> QED
    BY <2>1 DEF Answers, Justified
<1>u. ASSUME UNCHANGED reply PROVE Answers'
  <2>1. ASSUME NEW b \in Attempts PROVE Justified(b, reply[b])'
    BY <1>u, <1>k
  <2> QED
    BY <2>1 DEF Answers, Justified
<1>1. ASSUME NEW a \in Attempts, Replay(a) \/ ReplayWinner(a) PROVE Answers'
  <2>1. CASE UNCHANGED reply
    BY <2>1, <1>u
  <2>2. ASSUME NEW b \in Stored(a), finish(a, replayOutcome(a, b)) PROVE Answers'
    <3>1. Justified(a, replayOutcome(a, b))
      BY ReplayJustified
    <3> QED
      BY <2>2, <3>1, <1>s, <1>n DEF finish
  <2> QED
    BY <1>1, <2>1, <2>2 DEF Replay, ReplayWinner
<1>2. ASSUME NEW a \in Attempts, NEW e \in Refusals \cup {"FAILED"},
             e \notin {"ALREADY_PAID", "ACCOUNT_CLOSED", "NCD_CODE_UNAVAILABLE"},
             finish(a, Refused(e))
      PROVE  Answers'
  <2>1. Justified(a, Refused(e))'
    BY <1>2 DEF Justified, Refused, Refusals
  <2> QED
    BY <1>2, <2>1, <1>n DEF finish
<1>3. ASSUME NEW a \in Attempts, FindQuote(a) PROVE Answers'
  BY <1>3, <1>2, <1>u DEF FindQuote, Refusals
<1>4. ASSUME NEW a \in Attempts, LockCustomer(a) PROVE Answers'
  <2>1. CASE ask[a].customer \in closed /\ finish(a, Refused("ACCOUNT_CLOSED"))
    <3>1. Justified(a, Refused("ACCOUNT_CLOSED"))
      BY <2>1 DEF Justified, Refused
    <3> QED
      BY <2>1, <3>1, <1>s, <1>n DEF finish
  <2> QED
    BY <1>4, <2>1, <1>u DEF LockCustomer
<1>5. ASSUME NEW a \in Attempts, InsertPolicy(a) PROVE Answers'
  <2>1. CASE offerRefusal(a) = "ALREADY_PAID" /\ finish(a, Refused("ALREADY_PAID"))
    <3>1. PaidBefore(a)
      BY <2>1 DEF offerRefusal
    <3>2. a \in payments /\ a \notin committed /\ committed \subseteq payments
      BY <1>5 DEF InsertPolicy, Rows
    <3>3. Justified(a, Refused("ALREADY_PAID"))
      BY <3>1, <3>2 DEF Justified, Refused, PaidBefore, KeysUnique, TypeOK
    <3> QED
      BY <2>1, <3>3, <1>s, <1>n DEF finish
  <2>2. CASE /\ offerRefusal(a) \in {"QUOTE_EXPIRED", "AMOUNT_MISMATCH"}
             /\ finish(a, Refused(offerRefusal(a)))
    BY <2>2, <1>2 DEF Refusals
  <2> QED
    BY <1>5, <2>1, <2>2, <1>u DEF InsertPolicy, offerRefusal
<1>6. ASSUME NEW a \in Attempts, Redeem(a) PROVE Answers'
  <2> DEFINE k == CodeOf[ask[a].request]
  <2>1. CASE /\ k # None /\ Issuer[k] = ask[a].insurer
             /\ Grantable(locks, a, codeRow(k), NoKeyUpdate) /\ ~redeemable(a, k)
             /\ finish(a, Refused("NCD_CODE_UNAVAILABLE"))
    <3>0. /\ k \in Codes /\ redeemedBy[k] \in Attempts \cup {None}
          /\ Discounts(a, k)
      BY <2>1, PaymentAssumption DEF TypeOK, AskType, Discounts
    <3>1. /\ a \in payments /\ a \notin committed /\ pc[a] = "redeem"
          /\ committed \subseteq payments
      BY <1>6 DEF Redeem, Rows
    <3>2. ASSUME redeemedBy[k] # None
          PROVE  redeemedBy[k] \in committed /\ ask[redeemedBy[k]].key # ask[a].key
      <4> DEFINE b == redeemedBy[k]
      <4>1. b \in Attempts /\ b # a
        BY <3>0, <3>1, <3>2 DEF CodesSpent
      <4>2. ASSUME b \notin committed PROVE FALSE
        <5>1. Lock(b, codeRow(k), NoKeyUpdate) \in locks
          BY <3>0, <4>1, <4>2 DEF LocksHeld
        <5> QED
          BY <2>1, <4>1, <5>1, LockFields DEF Grantable, Conflict
      <4> QED
        BY <3>1, <4>1, <4>2 DEF KeysUnique
    <3>3. Holder[k] # ask[a].customer \/ redeemedBy[k] # None
      BY <2>1 DEF redeemable
    <3>4. Justified(a, Refused("NCD_CODE_UNAVAILABLE"))
      BY <3>0, <3>2, <3>3 DEF Justified, Refused
    <3> QED
      BY <2>1, <3>4, <1>s, <1>n DEF finish
  <2> QED
    BY <1>6, <2>1, <1>u DEF Redeem
<1>7. ASSUME NEW a \in Attempts, Commit(a) PROVE Answers'
  <2>1. CASE finish(a, Receipt(a))
    <3>1. Justified(a, Receipt(a))'
      BY <1>7 DEF Commit, Justified, Receipt
    <3> QED
      BY <2>1, <3>1, <1>n DEF finish
  <2>2. CASE finish(a, Failed)
    BY <2>2, <1>2 DEF Failed, Refused
  <2> QED
    BY <1>7, <2>1, <2>2 DEF Commit
<1>8. ASSUME NEW a \in Attempts, Fail(a) PROVE Answers'
  BY <1>8, <1>2 DEF Fail, Failed, Refused
<1>9. ASSUME \/ \E a \in Attempts : \/ Call(a) \/ Stamp(a) \/ LockRequest(a)
                                    \/ InsertPayment(a) \/ IssueCertificate(a)
             \/ \E c \in Customers : Close(c)
             \/ \E q \in Extendable : StartExtension(q) \/ ExtendOpenQuote(q)
             \/ Tick \/ UNCHANGED vars
      PROVE  Answers'
  <2>1. UNCHANGED reply
    BY <1>9 DEF Call, Stamp, LockRequest, InsertPayment, IssueCertificate, Close,
       LockForClosure, CheckPolicies, EndClosure, StartExtension, ExtendOpenQuote,
       Tick, vars
  <2> QED
    BY <2>1, <1>u
<1>10. QED
  BY <1>1, <1>3, <1>4, <1>5, <1>6, <1>7, <1>8, <1>9 DEF Next, Pay, Step

-----------------------------------------------------------------------------
(* The invariant and what follows from it.                                 *)

LEMMA InitIInv == Init => IInv
<1> SUFFICES ASSUME Init PROVE IInv
  OBVIOUS
<1>1. TypeOK
  BY InitTypeOK
<1>2. \A a \in Attempts : pc[a] = "idle" /\ reply[a] = NoReply
  BY DEF Init
<1>3. LocksHeld /\ LocksExclude
  BY <1>2, PaymentAssumption DEF Init, LocksHeld, LocksExclude, HoldsCustomer, HoldsRequest
<1>4. Found /\ Rows /\ KeysUnique /\ StillUnpaid /\ StillOpen /\ StillClear
  BY <1>2 DEF Init, Found, Rows, KeysUnique, StillUnpaid, StillOpen, StillClear,
     FoundQuote, HoldsCustomer, HoldsRequest
<1>5. CodesSpent /\ OfferStands
  BY <1>2, PaymentAssumption DEF Init, CodesSpent, OfferStands, FoundQuote,
     HoldsCustomer, HoldsRequest
<1>6. Answers
  BY <1>2 DEF Answers, NoReply
<1>7. OnePolicyPerRequest /\ ClosedHoldsNoCover
  BY DEF Init, OnePolicyPerRequest, ClosedHoldsNoCover
<1> QED
  BY <1>1, <1>3, <1>4, <1>5, <1>6, <1>7 DEF IInv

LEMMA NextIInv == IInv /\ [Next]_vars => IInv'
<1> SUFFICES ASSUME IInv, [Next]_vars PROVE IInv'
  OBVIOUS
<1>1. TypeOK' /\ LocksHeld' /\ LocksExclude'
  BY NextTypeOK, NextLocks DEF IInv
<1>2. Found' /\ Rows' /\ KeysUnique' /\ StillUnpaid' /\ OnePolicyPerRequest'
  BY NextFound, NextRows, NextUnpaid
<1>3. StillOpen' /\ StillClear' /\ ClosedHoldsNoCover' /\ CodesSpent'
  BY NextOpen, NextCodes
<1>4. Answers' /\ OfferStands'
  BY NextAnswers, NextOffer
<1> QED
  BY <1>1, <1>2, <1>3, <1>4 DEF IInv

LEMMA Invariance == Spec => []IInv
  BY InitIInv, NextIInv, PTL DEF Spec

(* Whatever payments of a request overlap, for whichever of its quotes, at *)
(* most one of them leaves a policy behind.                                *)
THEOREM SoldOnce == Spec => []OnePolicyPerRequest
<1>1. IInv => OnePolicyPerRequest
  BY DEF IInv
<1> QED
  BY <1>1, Invariance, PTL

(* No interleaving of AccountService.close with payments leaves a closed   *)
(* account with cover in force.                                            *)
THEOREM ClosureSafe == Spec => []ClosedHoldsNoCover
<1>1. IInv => ClosedHoldsNoCover
  BY DEF IInv
<1> QED
  BY <1>1, Invariance, PTL

(* A no-claim discount code is spent by exactly the committed payment that *)
(* bought a request carrying it from the insurer that issued it.           *)
THEOREM CodeSpentOnce == Spec => []CodeDiscountsOnePolicy
<1>1. IInv => CodeDiscountsOnePolicy
  <2> SUFFICES ASSUME IInv, NEW a \in committed, NEW k \in Codes
               PROVE  /\ Discounts(a, k) => redeemedBy[k] = a
                      /\ redeemedBy[k] = a => /\ Discounts(a, k)
                                              /\ Holder[k] = ask[a].customer
    BY DEF CodeDiscountsOnePolicy, Discounts
  <2>1. a \in Attempts
    BY DEF IInv, TypeOK
  <2> QED
    BY <2>1 DEF IInv, CodesSpent
<1> QED
  BY <1>1, Invariance, PTL

(* The three together: a sale is safe, whatever payments and closures run  *)
(* at once.                                                                *)
THEOREM SaleSafety == Spec => []SaleSafe
<1>1. OnePolicyPerRequest /\ ClosedHoldsNoCover /\ CodeDiscountsOnePolicy => SaleSafe
  BY DEF SaleSafe
<1> QED
  BY <1>1, SoldOnce, ClosureSafe, CodeSpentOnce, PTL

(* Once a payment is charged, a repetition of the call with its key and    *)
(* body is never refused on the state the payment itself left behind.      *)
THEOREM RetrySafe == Spec => []RetryNeverRefused
<1>1. IInv => RetryNeverRefused
  <2> SUFFICES ASSUME IInv, NEW a \in committed, NEW b \in Attempts, ask[b] = ask[a],
                      reply[b].code \in
                        {"ALREADY_PAID", "NCD_CODE_UNAVAILABLE", "ACCOUNT_CLOSED"}
               PROVE  FALSE
    BY DEF RetryNeverRefused
  <2> USE DEF IInv
  <2>0. a \in Attempts /\ a \in payments /\ policies[a] \in InForce
    BY DEF TypeOK, Rows
  <2>1. CASE reply[b].code = "ALREADY_PAID"
    <3>1. PICK c \in committed : /\ ask[c].request = ask[b].request
                                 /\ ask[c].key # ask[b].key
      BY <2>1 DEF Answers
    <3>2. policies[a] # None /\ policies[c] # None
      BY PaymentAssumption DEF Rows
    <3> QED
      BY <3>1, <3>2 DEF OnePolicyPerRequest
  <2>2. CASE reply[b].code = "ACCOUNT_CLOSED"
    <3>1. ask[a].customer \in closed
      BY <2>2 DEF Answers
    <3> QED
      BY <2>0, <3>1 DEF ClosedHoldsNoCover, policiesInForce
  <2>3. CASE reply[b].code = "NCD_CODE_UNAVAILABLE"
    <3>1. PICK k \in Codes : /\ Discounts(b, k)
                             /\ \/ Holder[k] # ask[b].customer
                                \/ /\ redeemedBy[k] \in committed
                                   /\ ask[redeemedBy[k]].key # ask[b].key
      BY <2>3 DEF Answers
    <3>2. redeemedBy[k] = a /\ Holder[k] = ask[a].customer
      BY <2>0, <3>1 DEF CodesSpent, Discounts
    <3> QED
      BY <3>1, <3>2
  <2> QED
    BY <2>1, <2>2, <2>3
<1> QED
  BY <1>1, Invariance, PTL

(* All the receipts given for one idempotency key are of one committed     *)
(* payment, made by the same customer with the same body.                  *)
THEOREM KeyStandsForOnePayment == Spec => []OneReceiptPerKey
<1>1. IInv => OneReceiptPerKey
  <2> SUFFICES ASSUME IInv, NEW a \in Attempts, NEW b \in Attempts,
                      reply[a].code = "RECEIPT"
               PROVE  /\ reply[a].of \in committed /\ ask[reply[a].of] = ask[a]
                      /\ (reply[b].code = "RECEIPT" /\ ask[a].key = ask[b].key)
                            => reply[a].of = reply[b].of
    BY DEF OneReceiptPerKey
  <2>1. reply[a].of \in committed /\ ask[reply[a].of] = ask[a]
    BY DEF IInv, Answers
  <2>2. ASSUME reply[b].code = "RECEIPT", ask[a].key = ask[b].key
        PROVE  reply[a].of = reply[b].of
    <3>1. reply[b].of \in committed /\ ask[reply[b].of] = ask[b]
      BY <2>2 DEF IInv, Answers
    <3>2. reply[a].of \in payments /\ reply[b].of \in payments
      BY <2>1, <3>1 DEF IInv, Rows
    <3> QED
      BY <2>1, <2>2, <3>1, <3>2 DEF IInv, KeysUnique
  <2> QED
    BY <2>1, <2>2
<1> QED
  BY <1>1, Invariance, PTL

(* Both at once, as the run states it: retries agree with the first call.  *)
THEOREM RetryAgreement == Spec => []RetriesAgree
<1>1. RetryNeverRefused /\ OneReceiptPerKey => RetriesAgree
  BY DEF RetriesAgree
<1> QED
  BY <1>1, RetrySafe, KeyStandsForOnePayment, PTL

(* What a committed payment bought had not expired at the instant it       *)
(* confirmed with, however its insurer extended the quote meanwhile.       *)
THEOREM OfferHeld == Spec => []BoughtWhileOnOffer
<1>1. IInv => BoughtWhileOnOffer
  <2> SUFFICES ASSUME IInv, NEW a \in committed
               PROVE  /\ ~(validUntil[QuoteOf(a)] <= confirmedAt[a])
                      /\ ask[a].amount = expectedAmount(QuoteOf(a))
    BY DEF BoughtWhileOnOffer, isQuoteExpired
  <2>1. a \in Attempts /\ QuoteOf(a) \in Quotes
    BY DEF IInv, TypeOK, Found
  <2>2. /\ offer[a] \in Nat /\ offer[a] <= validUntil[QuoteOf(a)]
        /\ confirmedAt[a] \in Nat /\ confirmedAt[a] < offer[a]
        /\ ask[a].amount = expectedAmount(QuoteOf(a))
    BY <2>1 DEF IInv, OfferStands
  <2>3. validUntil[QuoteOf(a)] \in Nat
    BY <2>1 DEF IInv, TypeOK
  <2> QED
    BY <2>2, <2>3
<1> QED
  BY <1>1, Invariance, PTL

-----------------------------------------------------------------------------
(* The refinement of Sale.                                                 *)

LEMMA BuyersOf ==
  ASSUME IInv, NEW a \in committed
  PROVE  buyers(ask[a].request) = {a}
<1>1. \A b \in committed : policies[b] # None
  BY PaymentAssumption DEF IInv, Rows
<1> QED
  BY <1>1 DEF buyers, IInv, OnePolicyPerRequest

(* A step that neither commits a payment nor closes an account leaves the  *)
(* sale as it was.                                                         *)
LEMMA UnseenStep ==
  ASSUME UNCHANGED <<ask, committed, closed>>,
         \A k \in Codes : redeemedBy'[k] \in committed <=> redeemedBy[k] \in committed
  PROVE  UNCHANGED <<soldTo, closed, spentCodes>>
<1>1. \A r \in Requests : buyers(r)' = buyers(r)
  BY DEF buyers
<1>2. soldTo' = soldTo
  BY <1>1 DEF soldTo
<1>3. spentCodes' = spentCodes
  BY DEF spentCodes
<1> QED
  BY <1>2, <1>3

LEMMA CommitSells ==
  ASSUME IInv, NEW a \in Attempts, Commit(a)
  PROVE  Abstract!Sell(ask[a].request, ask[a].insurer)
<1> DEFINE r == ask[a].request
           i == ask[a].insurer
<1> USE DEF IInv
<1>1. /\ committed' = committed \cup {a} /\ UNCHANGED <<ask, redeemedBy, closed>>
      /\ pc[a] = "commit" /\ a \notin committed
  BY DEF Commit, account, quotes, Rows
<1>2. /\ r \in Requests /\ Owner[r] = ask[a].customer
      /\ ask[a].customer \notin closed
  BY <1>1, PaymentAssumption DEF TypeOK, AskType, Found, FoundQuote, StillOpen,
     HoldsCustomer, HoldsRequest
<1>3. buyers(r) = {}
  <2>1. ~PaidBefore(a) /\ \A b \in committed : policies[b] # None
    BY <1>1, PaymentAssumption DEF StillUnpaid, Rows
  <2> QED
    BY <2>1 DEF PaidBefore, buyers
<1>4. /\ buyers(r)' = {a}
      /\ \A s \in Requests \ {r} : buyers(s)' = buyers(s)
  BY <1>1, <1>3 DEF buyers
<1>5. soldTo[r] = None
  BY <1>2, <1>3 DEF soldTo
<1>6. soldTo' = [soldTo EXCEPT ![r] = i]
  <2>1. \A s \in Requests \ {r} : soldTo'[s] = soldTo[s]
    BY <1>1, <1>4 DEF soldTo
  <2>2. soldTo'[r] = i
    BY <1>1, <1>2, <1>4 DEF soldTo, anyOf
  <2> QED
    BY <1>2, <2>1, <2>2 DEF soldTo
<1>7. Abstract!codesUsed(r, i) = {k \in Codes : redeemedBy[k] = a}
  BY <1>1 DEF Abstract!codesUsed, CodesSpent, Discounts
<1>8. /\ Abstract!codesUsed(r, i) \cap spentCodes = {}
      /\ spentCodes' = spentCodes \cup Abstract!codesUsed(r, i)
  BY <1>1, <1>7 DEF spentCodes
<1> QED
  BY <1>1, <1>2, <1>5, <1>6, <1>8 DEF Abstract!Sell

LEMMA ClosureCloses ==
  ASSUME IInv, NEW c \in Customers, EndClosure(c), closing[c] = "clear",
         closed' = closed \cup {c}
  PROVE  Abstract!Close(c)
<1> USE DEF IInv
<1>1. UNCHANGED <<ask, committed, redeemedBy>>
  BY DEF EndClosure, tables, attempt
<1>2. UNCHANGED <<soldTo, spentCodes>>
  <2>1. \A r \in Requests : buyers(r)' = buyers(r)
    BY <1>1 DEF buyers
  <2> QED
    BY <1>1, <2>1 DEF soldTo, spentCodes
<1>3. ASSUME NEW r \in Requests, Owner[r] = c PROVE soldTo[r] = None
  <2>1. policiesInForce(c) = {}
    BY DEF StillClear
  <2>2. \A a \in committed : /\ a \in Attempts /\ policies[a] \in InForce
                             /\ ask[a].customer = Owner[ask[a].request]
    BY DEF TypeOK, Rows, Found
  <2>3. buyers(r) = {}
    BY <1>3, <2>1, <2>2 DEF buyers, policiesInForce
  <2> QED
    BY <2>3 DEF soldTo
<1> QED
  BY <1>2, <1>3 DEF Abstract!Close

LEMMA StepRefines == IInv /\ [Next]_vars => [Abstract!Next]_(Abstract!vars)
<1> SUFFICES ASSUME IInv, [Next]_vars
             PROVE  Abstract!Next \/ UNCHANGED <<soldTo, closed, spentCodes>>
  BY DEF Abstract!vars
<1> USE DEF IInv, tables, attempt, quotes, account
<1>1. ASSUME NEW a \in Attempts,
             \/ Call(a) \/ Replay(a) \/ FindQuote(a) \/ Stamp(a) \/ LockCustomer(a)
             \/ LockRequest(a) \/ ReplayWinner(a) \/ IssueCertificate(a)
      PROVE  UNCHANGED <<soldTo, closed, spentCodes>>
  <2>1. UNCHANGED <<ask, committed, closed, redeemedBy>>
    BY <1>1 DEF Call, Replay, FindQuote, Stamp, LockCustomer, LockRequest, ReplayWinner,
       IssueCertificate
  <2> QED
    BY <2>1, UnseenStep
<1>2. ASSUME NEW a \in Attempts,
             InsertPayment(a) \/ InsertPolicy(a) \/ Redeem(a) \/ Fail(a)
      PROVE  UNCHANGED <<soldTo, closed, spentCodes>>
  <2>0. None \notin committed
    BY PaymentAssumption DEF TypeOK
  <2>1. /\ UNCHANGED <<ask, committed, closed>> /\ a \notin committed
        /\ \/ UNCHANGED redeemedBy
           \/ Rollback(a)
           \/ \E k : redeemable(a, k) /\ redeemedBy' = [redeemedBy EXCEPT ![k] = a]
    BY <1>2 DEF InsertPayment, InsertPolicy, Redeem, Fail, Rollback, InTransaction, Rows
  <2>2. \A k \in Codes : redeemedBy'[k] \in committed <=> redeemedBy[k] \in committed
    BY <2>0, <2>1 DEF Rollback, redeemable, TypeOK
  <2> QED
    BY <2>1, <2>2, UnseenStep
<1>3. ASSUME NEW a \in Attempts, Commit(a) PROVE Abstract!Next
  <2>1. ask[a].request \in Requests /\ ask[a].insurer \in Insurers
    BY PaymentAssumption DEF TypeOK, AskType
  <2> QED
    BY <1>3, <2>1, CommitSells DEF Abstract!Next
<1>4. ASSUME NEW c \in Customers, Close(c)
      PROVE  Abstract!Next \/ UNCHANGED <<soldTo, closed, spentCodes>>
  <2>1. CASE EndClosure(c) /\ closing[c] = "clear" /\ closed' = closed \cup {c}
    BY <2>1, ClosureCloses DEF Abstract!Next
  <2>2. CASE UNCHANGED <<ask, committed, closed, redeemedBy>>
    BY <2>2, UnseenStep
  <2> QED
    BY <1>4, <2>1, <2>2 DEF Close, LockForClosure, CheckPolicies, EndClosure
<1>5. ASSUME \/ \E q \in Extendable : StartExtension(q) \/ ExtendOpenQuote(q)
             \/ Tick \/ UNCHANGED vars
      PROVE  UNCHANGED <<soldTo, closed, spentCodes>>
  <2>1. UNCHANGED <<ask, committed, closed, redeemedBy>>
    BY <1>5 DEF StartExtension, ExtendOpenQuote, Tick, vars
  <2> QED
    BY <2>1, UnseenStep
<1>6. QED
  BY <1>1, <1>2, <1>3, <1>4, <1>5 DEF Next, Pay, Step

LEMMA InitRefines == Init => Abstract!Init
<1> SUFFICES ASSUME Init PROVE Abstract!Init
  OBVIOUS
<1>1. \A r \in Requests : buyers(r) = {}
  BY DEF Init, buyers
<1> QED
  BY <1>1 DEF Init, Abstract!Init, soldTo, spentCodes

(* Payments, statement by statement and with closures, retries, failures   *)
(* and codes, is the one-step sale of module Sale.                         *)
THEOREM Refinement == Spec => ImplementsSale
<1>1. Spec => Abstract!Init /\ [][Abstract!Next]_(Abstract!vars)
  BY InitRefines, StepRefines, Invariance, PTL DEF Spec
<1> QED
  BY <1>1 DEF ImplementsSale, Abstract!Spec

-----------------------------------------------------------------------------
(* COVER.                                                                  *)

(* The times of a day start at 0.                                          *)
LEMMA Milliseconds == TimesOfDay \subseteq Nat /\ 0 \in TimesOfDay
<1>1. MS_PER_DAY \in Nat /\ 0 < MS_PER_DAY
  BY SMT DEF MS_PER_DAY
<1> QED
  BY <1>1 DEF TimesOfDay

(* The ranges of an instant's fields.                                      *)
LEMMA FieldsOf ==
  ASSUME NEW t \in Instant
  PROVE  /\ t = [year |-> t.year, month |-> t.month, day |-> t.day, time |-> t.time]
         /\ t.year \in Nat /\ t.month \in 0..11 /\ t.day \in 1..31
         /\ t.time \in TimesOfDay /\ t.time \in Nat
         /\ months(t) \in Nat
         /\ t.day <= lastDay(t.year, t.month)
<1>1. /\ t.year \in Nat /\ t.month \in 0..11 /\ t.day \in 1..31
      /\ t.time \in TimesOfDay
      /\ t = [year |-> t.year, month |-> t.month, day |-> t.day, time |-> t.time]
  BY DEF Instant, Fields
<1>2. t.time \in Nat /\ months(t) \in Nat
  BY <1>1, Milliseconds DEF months
<1> QED
  BY <1>1, <1>2 DEF Instant

(* Every month has from 28 to 31 days.                                     *)
LEMMA LastDayBounds ==
  ASSUME NEW y \in Nat, NEW m \in 0..11
  PROVE  lastDay(y, m) \in 28..31
BY DEF lastDay, lastDayOf, leapDay

(* What a date clamped to a month is.                                      *)
Clamps(c, y, m, day, time) ==
  /\ c \in Instant
  /\ c.year = y /\ c.month = m /\ c.time = time
  /\ c.day <= day
  /\ c.day # day => c.day = lastDay(y, m)

(* A clamped day is a day of its month, and moves no further than it must. *)
LEMMA Clamping ==
  ASSUME NEW y \in Nat, NEW m \in 0..11, NEW day \in 1..31,
         NEW time \in TimesOfDay
  PROVE  Clamps(clamped(y, m, day, time), y, m, day, time)
<1> DEFINE c == clamped(y, m, day, time)
<1>1. lastDay(y, m) \in 28..31
  BY LastDayBounds
<1>2. /\ c \in Fields /\ c.year = y /\ c.month = m /\ c.time = time
      /\ c.day = IF day <= lastDay(y, m) THEN day ELSE lastDay(y, m)
  BY <1>1 DEF clamped, Fields
<1>3. c.day <= lastDay(y, m) /\ c.day <= day
  BY <1>1, <1>2
<1> QED
  BY <1>1, <1>2, <1>3 DEF Instant, Clamps

(* Whole years and the months left over.                                   *)
LEMMA YearsAndMonths ==
  ASSUME NEW x \in Nat
  PROVE  x \div 12 \in Nat /\ x % 12 \in 0..11 /\ 12 * (x \div 12) + (x % 12) = x
<1>1. x \div 12 \in Nat
  BY SMT
<1>2. x % 12 \in 0..11
  BY SMT
<1>3. 12 * (x \div 12) + (x % 12) = x
  BY SMT
<1> QED
  BY <1>1, <1>2, <1>3

(* The month a number of quarters later.                                   *)
LEMMA TargetMonth ==
  ASSUME NEW t \in Instant, NEW q \in 1..4
  PROVE  /\ t.year + ((t.month + q * 3) \div 12) \in Nat
         /\ (t.month + q * 3) % 12 \in 0..11
         /\ 12 * (t.year + ((t.month + q * 3) \div 12)) + ((t.month + q * 3) % 12)
              = months(t) + 3 * q
<1>1. t.year \in Nat /\ t.month \in 0..11
  BY FieldsOf
<1>2. PICK x \in Nat : x = t.month + q * 3
  BY <1>1
<1>3. /\ x \div 12 \in Nat /\ x % 12 \in 0..11
      /\ 12 * (x \div 12) + (x % 12) = x
  BY YearsAndMonths
<1>4. PICK w \in Nat, r \in 0..11 : w = x \div 12 /\ r = x % 12
  BY <1>3
<1>5. 12 * w + r = t.month + q * 3
  BY <1>2, <1>3, <1>4
<1>6. t.year + w \in Nat /\ 12 * (t.year + w) + r = months(t) + 3 * q
  BY <1>1, <1>5 DEF months
<1> QED
  BY <1>2, <1>4, <1>6

(* The end of a cover period is a date that exists, a whole number of      *)
(* quarters of calendar months after its start, at the same time of day:   *)
(* on the same day of the month, or on the last day of a shorter month.    *)
THEOREM WholeQuarters ==
  ASSUME NEW s \in Instant, NEW q \in 1..4
  PROVE  LET e == addQuarters(s, q) IN
         /\ e \in Instant
         /\ months(e) = months(s) + 3 * q
         /\ e.time = s.time
         /\ e.day <= s.day
         /\ e.day # s.day => e.day = lastDay(e.year, e.month)
<1> DEFINE m == (s.month + q * 3) % 12
           y == s.year + ((s.month + q * 3) \div 12)
           e == addQuarters(s, q)
<1>1. /\ y \in Nat /\ m \in 0..11
      /\ 12 * y + m = months(s) + 3 * q
  BY TargetMonth
<1>2. e = clamped(y, m, s.day, s.time)
  BY DEF addQuarters
<1> HIDE DEF m, y, e
<1>3. s.day \in 1..31 /\ s.time \in TimesOfDay
  BY FieldsOf
<1>4. /\ e \in Instant
      /\ e.year = y /\ e.month = m /\ e.time = s.time
      /\ e.day <= s.day
      /\ e.day # s.day => e.day = lastDay(y, m)
  <2>1. Clamps(clamped(y, m, s.day, s.time), y, m, s.day, s.time)
    BY <1>1, <1>3, Clamping, Zenon
  <2> QED
    BY <1>2, <2>1 DEF Clamps
<1>5. months(e) = months(s) + 3 * q
  BY <1>1, <1>4 DEF months
<1> QED
  BY <1>4, <1>5 DEF e

(* No term gives cover that ends before it starts, or at once.             *)
THEOREM EndsAfterItStarts ==
  ASSUME NEW s \in Instant, NEW q \in 1..4
  PROVE  Before(s, addQuarters(s, q))
<1> DEFINE e == addQuarters(s, q)
<1>1. e \in Instant /\ months(e) = months(s) + 3 * q
  BY WholeQuarters
<1> HIDE DEF e
<1>2. months(s) < months(e)
  BY <1>1, FieldsOf
<1> QED
  BY <1>2 DEF Before, e

(* Cover that starts on a later day never ends on an earlier one: a        *)
(* customer who puts the start off loses no day at the end.  (Within the   *)
(* day the hour may go back, when both ends are clamped to the last day of *)
(* one month.)                                                             *)
THEOREM LaterStartLaterEnd ==
  ASSUME NEW s \in Instant, NEW t \in Instant, NEW q \in 1..4, NotAfter(s, t)
  PROVE  LET d == addQuarters(s, q)
             e == addQuarters(t, q)
         IN months(d) < months(e) \/ (months(d) = months(e) /\ d.day <= e.day)
<1> DEFINE d == addQuarters(s, q)
           e == addQuarters(t, q)
<1>1. /\ d \in Instant /\ months(d) = months(s) + 3 * q /\ d.day <= s.day
      /\ d.day # s.day => d.day = lastDay(d.year, d.month)
  BY WholeQuarters
<1>2. /\ e \in Instant /\ months(e) = months(t) + 3 * q /\ e.day <= t.day
      /\ e.day # t.day => e.day = lastDay(e.year, e.month)
  BY WholeQuarters
<1> HIDE DEF d, e
<1>3. months(s) \in Nat /\ months(t) \in Nat /\ s.day \in 1..31 /\ t.day \in 1..31
  BY FieldsOf
<1>4. months(s) < months(t) \/ (months(s) = months(t) /\ s.day <= t.day)
  BY <1>3 DEF NotAfter, Before
<1>5. CASE months(s) < months(t)
  BY <1>1, <1>2, <1>3, <1>5 DEF d, e
<1>6. CASE months(s) = months(t) /\ s.day <= t.day
  <2>1. months(d) = months(e)
    BY <1>1, <1>2, <1>6
  <2>2. d.year = e.year /\ d.month = e.month
    BY <1>1, <1>2, <2>1, FieldsOf DEF months
  <2>3. /\ d.day \in 1..31 /\ e.day \in 1..31
        /\ d.day <= lastDay(e.year, e.month)
    BY <1>1, <1>2, <2>2, FieldsOf
  <2>4. d.day <= e.day
    BY <1>1, <1>2, <1>3, <1>6, <2>3
  <2> QED
    BY <2>1, <2>4 DEF d, e
<1> QED
  BY <1>4, <1>5, <1>6

(* A year of cover ends on the day it started, but for 29 February.        *)
THEOREM YearOfCover ==
  ASSUME NEW s \in Instant
  PROVE  LET e == coverPeriod(s, "Q4").endDate IN
         /\ e.year = s.year + 1 /\ e.month = s.month
         /\ e.day # s.day => s.month = 1 /\ s.day = 29 /\ e.day = 28
<1> DEFINE e == addQuarters(s, 4)
<1>1. coverPeriod(s, "Q4").endDate = e
  BY DEF coverPeriod, QUARTERS, Terms
<1>2. /\ e \in Instant /\ months(e) = months(s) + 12 /\ e.day <= s.day
      /\ e.day # s.day => e.day = lastDay(e.year, e.month)
  BY WholeQuarters
<1> HIDE DEF e
<1>3. e.year = s.year + 1 /\ e.month = s.month
  BY <1>2, FieldsOf DEF months
<1>4. e.day \in 1..31 /\ s.day \in 1..31 /\ s.day <= lastDay(s.year, s.month)
  BY <1>2, FieldsOf
<1>5. e.day # s.day => s.month = 1 /\ s.day = 29 /\ e.day = 28
  BY <1>2, <1>3, <1>4 DEF lastDay, lastDayOf, leapDay
<1> QED
  BY <1>1, <1>3, <1>5

(* An RTSA anniversary is a date of the current year: the registered day,  *)
(* or 28 February for a vehicle registered on a 29th.                      *)
THEOREM AnniversaryExists ==
  ASSUME NEW r \in Instant, NEW today \in Instant
  PROVE  LET a == rtsaAnniversaryStart(r, today) IN
         /\ a \in Instant /\ a.year = today.year /\ a.month = r.month /\ a.time = 0
         /\ a.day # r.day => r.month = 1 /\ r.day = 29 /\ a.day = 28
<1> DEFINE a == clamped(today.year, r.month, r.day, 0)
<1>1. today.year \in Nat /\ r.month \in 0..11 /\ r.day \in 1..31 /\ 0 \in TimesOfDay
  BY FieldsOf, Milliseconds
<1>2. /\ a \in Instant /\ a.year = today.year /\ a.month = r.month /\ a.time = 0
      /\ a.day <= r.day
      /\ a.day # r.day => a.day = lastDay(today.year, r.month)
  <2>1. Clamps(a, today.year, r.month, r.day, 0)
    BY <1>1, Clamping, Zenon
  <2> QED
    BY <2>1 DEF Clamps
<1> HIDE DEF a
<1>3. a.day \in 1..31 /\ r.day <= lastDay(r.year, r.month)
  BY <1>2, FieldsOf
<1>4. a.day # r.day => r.month = 1 /\ r.day = 29 /\ a.day = 28
  BY <1>1, <1>2, <1>3 DEF lastDay, lastDayOf, leapDay
<1> QED
  BY <1>2, <1>4 DEF rtsaAnniversaryStart, a

(* A year is 365 days long, and a day longer when it is a leap year.       *)
LEMMA YearLength ==
  ASSUME NEW y \in Nat
  PROVE  /\ leapDay(y) \in 0..1
         /\ daysBeforeYear(y) \in Int
         /\ daysBeforeYear(y + 1) = daysBeforeYear(y) + 365 + leapDay(y)
<1>1. (y + 4) \div 4 = ((y + 3) \div 4) + IF y % 4 = 0 THEN 1 ELSE 0
  BY SMT
<1>2. (y + 100) \div 100 = ((y + 99) \div 100) + IF y % 100 = 0 THEN 1 ELSE 0
  BY SMT
<1>3. (y + 400) \div 400 = ((y + 399) \div 400) + IF y % 400 = 0 THEN 1 ELSE 0
  BY SMT
<1>4. (y % 400 = 0 => y % 100 = 0) /\ (y % 100 = 0 => y % 4 = 0)
  BY SMT
<1>5. (y + 1) + 3 = y + 4 /\ (y + 1) + 99 = y + 100 /\ (y + 1) + 399 = y + 400
  BY SMT
<1> QED
  BY <1>1, <1>2, <1>3, <1>4, <1>5, SMT DEF daysBeforeYear, leapDay, leap

(* The days a term of q quarters may have.                                 *)
DaysOfTerm(days, q) ==
  /\ q = 1 => days \in 89..92
  /\ q = 2 => days \in 181..184
  /\ q = 3 => days \in 273..276
  /\ q = 4 => days \in 365..366

(* A term that ends in the year it starts in: d and c are the days of the  *)
(* month of its start and its end.                                         *)
LEMMA WithinAYear ==
  ASSUME NEW m \in 0..11, NEW n \in 0..11, NEW q \in 1..4, NEW x \in 0..1,
         NEW d \in 1..31, NEW c \in 1..31,
         n = m + 3 * q, d <= lastDayOf(m, x), c <= d, c # d => c = lastDayOf(n, x)
  PROVE  DaysOfTerm(daysBeforeMonth(n, x) + c - daysBeforeMonth(m, x) - d, q)
BY SMT DEF daysBeforeMonth, lastDayOf, DaysOfTerm

(* The same for a term that ends in the next year.                         *)
LEMMA IntoTheNextYear ==
  ASSUME NEW m \in 0..11, NEW n \in 0..11, NEW q \in 1..4, NEW x \in 0..1, NEW z \in 0..1,
         NEW d \in 1..31, NEW c \in 1..31,
         n + 12 = m + 3 * q, d <= lastDayOf(m, x), c <= d, c # d => c = lastDayOf(n, z)
  PROVE  DaysOfTerm(365 + x + daysBeforeMonth(n, z) + c - daysBeforeMonth(m, x) - d, q)
BY SMT DEF daysBeforeMonth, lastDayOf, DaysOfTerm

(* The days before a month are a number.                                   *)
LEMMA MonthStarts ==
  ASSUME NEW m \in 0..11, NEW x \in 0..1
  PROVE  daysBeforeMonth(m, x) \in Nat
BY SMT DEF daysBeforeMonth

(* The coverageDays a request is stored with: three of the four terms vary *)
(* with the months they span, and none is ever nearer to the next term.    *)
THEOREM CoverageDays ==
  ASSUME NEW s \in Instant, NEW t \in Terms
  PROVE  DaysOfTerm(coverPeriod(s, t).days, QUARTERS[t])
<1>1. PICK q \in 1..4 : q = QUARTERS[t]
  BY DEF QUARTERS, Terms
<1> DEFINE e == addQuarters(s, q)
<1>2. /\ e \in Instant /\ months(e) = months(s) + 3 * q /\ e.day <= s.day
      /\ e.day # s.day => e.day = lastDay(e.year, e.month)
  BY WholeQuarters
<1>3. coverPeriod(s, t).days = LET days == dayNumber(e) - dayNumber(s) IN
                               IF days < 1 THEN 1 ELSE days
  BY <1>1 DEF coverPeriod
<1> HIDE DEF e
<1>4. PICK y \in Nat, m \in 0..11, d \in 1..31, x \in 0..1, b \in Int, f \in Nat :
        /\ y = s.year /\ m = s.month /\ d = s.day /\ x = leapDay(y)
        /\ d <= lastDayOf(m, x)
        /\ b = daysBeforeYear(y) /\ f = daysBeforeMonth(m, x)
  BY FieldsOf, YearLength, MonthStarts DEF lastDay
<1>5. PICK w \in Nat, n \in 0..11, c \in 1..31 :
        /\ w = e.year /\ n = e.month /\ c = e.day
        /\ c <= d /\ (c # d => c = lastDayOf(n, leapDay(w)))
  BY <1>2, <1>4, FieldsOf DEF lastDay
<1>6. PICK z \in 0..1, g \in Nat : z = leapDay(w) /\ g = daysBeforeMonth(n, z)
  BY YearLength, MonthStarts
<1>7. \/ w = y /\ n = m + 3 * q
      \/ w = y + 1 /\ n + 12 = m + 3 * q
  BY <1>2, <1>4, <1>5 DEF months
<1>8. c <= d /\ (c # d => c = lastDayOf(n, z)) /\ d <= lastDayOf(m, x)
  BY <1>4, <1>5, <1>6
<1>9. CASE w = y /\ n = m + 3 * q
  <2>1. x = z /\ dayNumber(e) - dayNumber(s) = g + c - f - d
    BY <1>4, <1>5, <1>6, <1>9 DEF dayNumber
  <2>2. c # d => c = lastDayOf(n, x)
    BY <1>8, <2>1
  <2>3. DaysOfTerm(daysBeforeMonth(n, x) + c - daysBeforeMonth(m, x) - d, q)
    BY <1>8, <1>9, <2>2, WithinAYear, Zenon
  <2> QED
    BY <1>1, <1>3, <1>4, <1>6, <2>1, <2>3 DEF DaysOfTerm
<1>10. CASE w = y + 1 /\ n + 12 = m + 3 * q
  <2>1. daysBeforeYear(w) = b + 365 + x
    BY <1>4, <1>10, YearLength
  <2>2. dayNumber(e) - dayNumber(s) = 365 + x + g + c - f - d
    BY <1>4, <1>5, <1>6, <2>1 DEF dayNumber
  <2>3. DaysOfTerm(365 + x + daysBeforeMonth(n, z) + c - daysBeforeMonth(m, x) - d, q)
    BY <1>8, <1>10, IntoTheNextYear, Zenon
  <2> QED
    BY <1>1, <1>3, <1>4, <1>6, <2>2, <2>3 DEF DaysOfTerm
<1> QED
  BY <1>7, <1>9, <1>10

-----------------------------------------------------------------------------
(* Integer division leaves less than the divisor.                          *)
LEMMA Division ==
  ASSUME NEW n \in Nat, NEW d \in Nat \ {0}
  PROVE  n \div d \in Nat /\ d * (n \div d) <= n /\ n < d * (n \div d) + d
<1>1. n \div d \in Nat
  BY Z3
<1>2. d * (n \div d) <= n /\ n < d * (n \div d) + d
  BY Z3
<1> QED
  BY <1>1, <1>2

(* The one rounding rule for money: the result is at most half a unit      *)
(* away, and half a unit away means away from zero.                        *)
THEOREM Rounding ==
  ASSUME NEW n \in Int, NEW d \in Nat \ {0}
  PROVE  LET r == divideRoundHalfUp(n, d) IN
         /\ r \in Int
         /\ 2 * magnitude(r * d - n) <= d
         /\ 2 * magnitude(r * d - n) = d => magnitude(r) * d > magnitude(n)
<1>1. PICK a \in Nat : a = magnitude(n)
  BY DEF magnitude
<1>2. PICK q \in Nat : q = (a * 2 + d) \div (d * 2)
                       /\ (d * 2) * q <= a * 2 + d /\ a * 2 + d < (d * 2) * q + d * 2
  <2>1. a * 2 + d \in Nat /\ d * 2 \in Nat \ {0}
    BY <1>1
  <2> QED
    BY <2>1, Division
<1>3. PICK w \in Nat : w = q * d /\ (d * 2) * q = 2 * w /\ (-q) * d = -w
  BY <1>2
<1>4. 2 * w <= a * 2 + d /\ a * 2 + d < 2 * w + d * 2
  BY <1>2, <1>3
<1>5. CASE n < 0
  <2>1. divideRoundHalfUp(n, d) = -q
    BY <1>1, <1>2, <1>5 DEF divideRoundHalfUp
  <2>2. a = -n /\ magnitude((-q) * d - n) = IF a < w THEN w - a ELSE a - w
    BY <1>1, <1>3, <1>5 DEF magnitude
  <2>3. magnitude(-q) * d = w
    BY <1>3 DEF magnitude
  <2> QED
    BY <1>1, <1>3, <1>4, <2>1, <2>2, <2>3
<1>6. CASE ~(n < 0)
  <2>1. divideRoundHalfUp(n, d) = q
    BY <1>1, <1>2, <1>6 DEF divideRoundHalfUp
  <2>2. a = n /\ magnitude(q * d - n) = IF a < w THEN w - a ELSE a - w
    BY <1>1, <1>3, <1>6 DEF magnitude
  <2>3. magnitude(q) * d = w
    BY <1>3 DEF magnitude
  <2> QED
    BY <1>1, <1>3, <1>4, <2>1, <2>2, <2>3
<1> QED
  BY <1>5, <1>6

(* Products of naturals grow with their factors.                           *)
LEMMA ProductsGrow ==
  ASSUME NEW a \in Nat, NEW b \in Nat, NEW c \in Nat, NEW d \in Nat, a <= b, c <= d
  PROVE  a * c \in Nat /\ b * d \in Nat /\ a * c <= b * d
<1>1. a * c \in Nat /\ b * c \in Nat /\ b * d \in Nat
  BY Z3
<1>2. a * c <= b * c
  <2>1. PICK k \in Nat : b = a + k
    BY SMT
  <2>2. b * c = a * c + k * c /\ k * c \in Nat
    BY <2>1, Z3
  <2> QED
    BY <1>1, <2>2
<1>3. b * c <= b * d
  <2>1. PICK k \in Nat : d = c + k
    BY SMT
  <2>2. b * d = b * c + b * k /\ b * k \in Nat
    BY <2>1, Z3
  <2> QED
    BY <1>1, <2>2
<1> QED
  BY <1>1, <1>2, <1>3

(* A term is from one to four quarters.                                    *)
LEMMA TermLength ==
  ASSUME NEW t \in Terms
  PROVE  QUARTERS[t] \in 1..4 /\ QUARTERS[t] \in Nat
BY DEF QUARTERS, Terms

(* f is x / 40000 to the nearest whole: x is in ngwee, basis points and    *)
(* quarters.                                                               *)
Nearest(f, x) ==
  /\ f \in Nat /\ x \in Nat
  /\ 80000 * f <= 2 * x + 40000
  /\ 2 * x + 40000 < 80000 * f + 80000

(* The premium floor is the nearest ngwee.                                 *)
LEMMA FloorOf ==
  ASSUME NEW v \in Nat, NEW r \in Nat, NEW t \in Terms
  PROVE  Nearest(premiumFloorMinor(v, r, t), v * r * QUARTERS[t])
<1>1. PICK x \in Nat : x = v * r * QUARTERS[t]
  <2>1. v * r \in Nat
    BY Z3
  <2> QED
    BY TermLength, <2>1, Z3
<1>2. premiumFloorMinor(v, r, t) = (x * 2 + 40000) \div 80000
  BY <1>1, SMT DEF premiumFloorMinor, divideRoundHalfUp, magnitude
<1>3. /\ (x * 2 + 40000) \div 80000 \in Nat
      /\ 80000 * ((x * 2 + 40000) \div 80000) <= x * 2 + 40000
      /\ x * 2 + 40000 < 80000 * ((x * 2 + 40000) \div 80000) + 80000
  BY SMT
<1> QED
  BY <1>1, <1>2, <1>3, SMT DEF Nearest

(* A larger amount is not rounded to a smaller one.                        *)
LEMMA NearestGrows ==
  ASSUME NEW f, NEW x, NEW g, NEW y, Nearest(f, x), Nearest(g, y), x <= y
  PROVE  f <= g
BY SMT DEF Nearest

(* A larger value, a higher rate or a longer term never lowers the floor:  *)
(* an insurer cannot be told to charge less for more cover.                *)
THEOREM FloorGrows ==
  ASSUME NEW v \in Nat, NEW r \in Nat, NEW t \in Terms,
         NEW w \in Nat, NEW p \in Nat, NEW u \in Terms,
         v <= w, r <= p, QUARTERS[t] <= QUARTERS[u]
  PROVE  premiumFloorMinor(v, r, t) <= premiumFloorMinor(w, p, u)
<1>1. v * r \in Nat /\ w * p \in Nat /\ v * r <= w * p
  BY ProductsGrow, Zenon
<1>2. QUARTERS[t] \in Nat /\ QUARTERS[u] \in Nat
  BY TermLength, Zenon
<1>3. v * r * QUARTERS[t] <= w * p * QUARTERS[u]
  BY <1>1, <1>2, ProductsGrow, Zenon
<1>4. /\ Nearest(premiumFloorMinor(v, r, t), v * r * QUARTERS[t])
      /\ Nearest(premiumFloorMinor(w, p, u), w * p * QUARTERS[u])
  BY FloorOf, Zenon
<1> QED
  BY <1>3, <1>4, NearestGrows, Zenon

(* With a rate of at most 100 percent the floor never exceeds the declared *)
(* value, so it is an amount the database can hold, exact as a number.     *)
THEOREM FloorWithinValue ==
  ASSUME NEW v \in Nat, NEW r \in 0..MAX_RATE_BPS, NEW t \in Terms
  PROVE  premiumFloorMinor(v, r, t) \in 0..v
<1>1. r \in Nat
  BY SMT DEF MAX_RATE_BPS
<1>2. PICK q \in Nat : q = QUARTERS[t] /\ q <= 4
  BY TermLength, SMT
<1>3. v * r \in Nat /\ v * 10000 \in Nat /\ v * r <= v * 10000
  BY SMT, ProductsGrow DEF MAX_RATE_BPS
<1>4. v * r * q <= (v * 10000) * 4
  BY <1>2, <1>3, SMT, ProductsGrow
<1>5. Nearest(premiumFloorMinor(v, r, t), v * r * q)
  <2>1. Nearest(premiumFloorMinor(v, r, t), v * r * QUARTERS[t])
    BY <1>1, FloorOf, Zenon
  <2> QED
    BY <1>2, <2>1, Zenon
<1> QED
  BY <1>4, <1>5, SMT DEF Nearest

(* Rounding once, at the end: four quarters bought one by one cost the     *)
(* floor of the year to within two ngwee.                                  *)
THEOREM FourQuarters ==
  ASSUME NEW v \in Nat, NEW r \in Nat
  PROVE  magnitude(4 * premiumFloorMinor(v, r, "Q1") - premiumFloorMinor(v, r, "Q4")) <= 2
<1>1. "Q1" \in Terms /\ "Q4" \in Terms /\ QUARTERS["Q1"] = 1 /\ QUARTERS["Q4"] = 4
  BY DEF Terms, QUARTERS
<1>2. PICK x \in Nat : x = v * r
  BY Z3
<1>3. /\ Nearest(premiumFloorMinor(v, r, "Q1"), v * r * QUARTERS["Q1"])
      /\ Nearest(premiumFloorMinor(v, r, "Q4"), v * r * QUARTERS["Q4"])
  BY <1>1, FloorOf, Zenon
<1>4. /\ Nearest(premiumFloorMinor(v, r, "Q1"), x * 1)
      /\ Nearest(premiumFloorMinor(v, r, "Q4"), x * 4)
  BY <1>1, <1>2, <1>3, Zenon
<1> QED
  BY <1>2, <1>4, SMT DEF Nearest, magnitude

=============================================================================
