------------------------------ MODULE Payments ------------------------------
(***************************************************************************)
(* Paying for an insurer's quote, and what races it: a second payment of   *)
(* the same request, a retry with the same idempotency key, a payment that *)
(* spends the same no-claim discount code, the closure of the customer's   *)
(* account, and the insurer extending the quote.                           *)
(*                                                                         *)
(* One action is one statement of PaymentsService.pay or of                *)
(* AccountService.close, run under READ COMMITTED: a statement sees the    *)
(* rows of committed transactions and of its own.  A row is named by the   *)
(* payment attempt that wrote it, so "committed" holds the attempts whose  *)
(* rows the others can see.                                                *)
(***************************************************************************)
EXTENDS Naturals, RowLocks

CONSTANTS
  Attempts,    \* calls of POST /payments
  Customers, Requests, Insurers, Keys, Codes,
  Asks,        \* what a call may ask for: a subset of AskType
  Quotes,      \* the <<request, insurer>> pairs an insurer answered
  Owner,       \* Owner[r]: the customer of the quote request
  CodeOf,      \* CodeOf[r]: the NCD code on the request, or None
  Issuer,      \* Issuer[code]: the insurer that issued it
  Holder,      \* Holder[code]: the customer whose application it approved
  Premium,     \* Premium[q], in ngwee
  Fee,         \* Fee[r]: the RTSA anniversary fee charged with the request
  MaxCharge,   \* MAX_NGWEE
  Validity,    \* when the quotes first expire
  Extendable,  \* the quotes whose insurer may extend them
  MaxTime,     \* bound on the clock and on extensions
  None

(* The method of payment is compared and stored beside the amount; the two *)
(* are one value here.                                                     *)
AskType == [key : Keys, customer : Customers, request : Requests,
            insurer : Insurers, amount : Nat]

(* status in IN_FORCE: bought and awaiting its certificate, or active. *)
InForce == {"AWAITING_INSURER_CERTIFICATE", "ACTIVE"}

ASSUME PaymentAssumption ==
  /\ Asks \subseteq AskType
  /\ Quotes \subseteq Requests \X Insurers
  /\ Owner \in [Requests -> Customers]
  /\ CodeOf \in [Requests -> Codes \cup {None}]
  /\ Issuer \in [Codes -> Insurers]
  /\ Holder \in [Codes -> Customers]
  /\ Premium \in [Quotes -> Nat]
  /\ Fee \in [Requests -> Nat]
  /\ MaxCharge \in Nat /\ Validity \in Nat /\ MaxTime \in Nat
  /\ Validity <= MaxTime
  /\ Extendable \subseteq Quotes
  /\ None \notin Attempts \cup Codes \cup Nat \cup InForce
  /\ Attempts \cap Customers = {}

VARIABLES
  now,          \* the clock
  pc,           \* pc[a]: the next statement of the attempt
  ask,          \* ask[a]: the request body and the caller
  offer,        \* offer[a]: the quote as read before the transaction
  confirmedAt,  \* confirmedAt[a]: the instant the attempt confirms with
  payments,     \* attempts whose payment row is written
  policies,     \* policies[a]: the status of the policy row it wrote, or None
  redeemedBy,   \* redeemedBy[code]: the attempt that set redeemedAt, or None
  committed,    \* attempts whose transaction committed
  reply,        \* reply[a]: what the caller was told
  validUntil,   \* validUntil[q]: insurer_quotes.validUntil
  extending,    \* extending[q]: the instant an extension under way started
  closed,       \* customers with deletedAt set
  closing,      \* closing[c]: the next statement of the closure of c
  locks         \* the row locks held

tables  == <<payments, policies, redeemedBy, committed>>
attempt == <<pc, ask, offer, confirmedAt, reply>>
quotes  == <<validUntil, extending>>
account == <<closed, closing>>
vars == <<now, tables, attempt, quotes, account, locks>>

PcValues == {"idle", "replay", "findQuote", "stamp", "lockCustomer",
             "lockRequest", "insertPayment", "insertPolicy", "redeem",
             "commit", "replayWinner", "done"}

(* The statements that run inside the payment's transaction. *)
InTransaction == {"lockCustomer", "lockRequest", "insertPayment",
                  "insertPolicy", "redeem", "commit"}

Refusals == {"IDEMPOTENCY_KEY_REUSED", "FORBIDDEN", "NOT_FOUND",
             "PAYMENT_AMOUNT_TOO_HIGH", "ACCOUNT_CLOSED", "ALREADY_PAID",
             "QUOTE_EXPIRED", "AMOUNT_MISMATCH", "NCD_CODE_UNAVAILABLE"}

ReplyType == [code : Refusals \cup {"NONE", "FAILED", "RECEIPT"},
              of : Attempts \cup {None}]

NoReply    == [code |-> "NONE", of |-> None]
Failed     == [code |-> "FAILED", of |-> None]
Refused(e) == [code |-> e, of |-> None]
Receipt(b) == [code |-> "RECEIPT", of |-> b]

QuoteOf(a) == <<ask[a].request, ask[a].insurer>>

customerRow(c) == <<"customers", c>>
requestRow(r)  == <<"quote_requests", r>>
codeRow(k)     == <<"ncd_codes", k>>

expectedAmount(q) == Premium[q] + Fee[q[1]]

isQuoteExpired(until, at) == until <= at

-----------------------------------------------------------------------------
Init ==
  /\ now = 0
  /\ pc = [a \in Attempts |-> "idle"]
  /\ ask \in [Attempts -> Asks]
  /\ offer = [a \in Attempts |-> None]
  /\ confirmedAt = [a \in Attempts |-> None]
  /\ payments = {}
  /\ policies = [a \in Attempts |-> None]
  /\ redeemedBy = [k \in Codes |-> None]
  /\ committed = {}
  /\ reply = [a \in Attempts |-> NoReply]
  /\ validUntil = [q \in Quotes |-> Validity]
  /\ extending = [q \in Quotes |-> None]
  /\ closed = {}
  /\ closing = [c \in Customers |-> "idle"]
  /\ locks = {}

-----------------------------------------------------------------------------
(* The payment attempt outside its transaction.                            *)

goto(a, l) == pc' = [pc EXCEPT ![a] = l]

finish(a, r) ==
  /\ goto(a, "done")
  /\ reply' = [reply EXCEPT ![a] = r]

Call(a) ==
  /\ pc[a] = "idle"
  /\ goto(a, "replay")
  /\ UNCHANGED <<now, tables, ask, offer, confirmedAt, reply, quotes, account,
                 locks>>

(* findByKey: the committed payment of the key.                            *)
Stored(a) == {b \in payments \cap committed : ask[b].key = ask[a].key}

(* replayOutcome: the receipt when the key was used for this payment.      *)
replayOutcome(a, b) ==
  IF ask[b].customer # ask[a].customer THEN Refused("FORBIDDEN")
  ELSE IF ask[b] = ask[a] THEN Receipt(b)
  ELSE Refused("IDEMPOTENCY_KEY_REUSED")

Replay(a) ==
  /\ pc[a] = "replay"
  /\ \/ \E b \in Stored(a) : finish(a, replayOutcome(a, b))
     \/ /\ Stored(a) = {}
        /\ goto(a, "findQuote")
        /\ UNCHANGED reply
  /\ UNCHANGED <<now, tables, ask, offer, confirmedAt, quotes, account, locks>>

(* findRequest and findQuote: the request must be the caller's, and its    *)
(* insurer must have quoted.  validUntil is read here, before any lock.    *)
FindQuote(a) ==
  /\ pc[a] = "findQuote"
  /\ LET found   == Owner[ask[a].request] = ask[a].customer
                    /\ QuoteOf(a) \in Quotes
         tooHigh == expectedAmount(QuoteOf(a)) > MaxCharge
     IN \/ ~found /\ finish(a, Refused("NOT_FOUND")) /\ UNCHANGED offer
        \/ /\ found /\ tooHigh
           /\ finish(a, Refused("PAYMENT_AMOUNT_TOO_HIGH"))
           /\ UNCHANGED offer
        \/ /\ found /\ ~tooHigh
           /\ goto(a, "stamp")
           /\ offer' = [offer EXCEPT ![a] = validUntil[QuoteOf(a)]]
           /\ UNCHANGED reply
  /\ UNCHANGED <<now, tables, ask, confirmedAt, quotes, account, locks>>

(* confirmedAt = new Date(), taken before the transaction starts.          *)
Stamp(a) ==
  /\ pc[a] = "stamp"
  /\ goto(a, "lockCustomer")
  /\ confirmedAt' = [confirmedAt EXCEPT ![a] = now]
  /\ UNCHANGED <<now, tables, ask, offer, reply, quotes, account, locks>>

-----------------------------------------------------------------------------
(* The payment's transaction.                                              *)

(* Mutant: a rollback that leaves the payment row behind.                  *)
RollbackKeepingPayment(a) ==
  /\ policies' = [policies EXCEPT ![a] = None]
  /\ redeemedBy' = [k \in Codes |-> IF redeemedBy[k] = a THEN None
                                    ELSE redeemedBy[k]]
  /\ locks' = Release(locks, a)
  /\ UNCHANGED <<payments, committed>>

(* Rolled back: its rows were never visible and its locks are dropped.     *)
Rollback(a) ==
  /\ payments' = payments \ {a}
  /\ policies' = [policies EXCEPT ![a] = None]
  /\ redeemedBy' = [k \in Codes |-> IF redeemedBy[k] = a THEN None
                                    ELSE redeemedBy[k]]
  /\ locks' = Release(locks, a)
  /\ UNCHANGED committed

(* lockOpenCustomer: FOR KEY SHARE where deletedAt is null.                *)
LockCustomer(a) ==
  LET c == ask[a].customer IN
  /\ pc[a] = "lockCustomer"
  /\ Grantable(locks, a, customerRow(c), KeyShare)
  /\ \/ /\ c \in closed
        /\ finish(a, Refused("ACCOUNT_CLOSED"))
        /\ UNCHANGED locks
     \/ /\ c \notin closed
        /\ goto(a, "lockRequest")
        /\ locks' = locks \cup {Lock(a, customerRow(c), KeyShare)}
        /\ UNCHANGED reply
  /\ UNCHANGED <<now, tables, ask, offer, confirmedAt, quotes, account>>

(* Mutant: the request is read without a lock.                             *)
ReadRequest(a) ==
  /\ pc[a] = "lockRequest"
  /\ goto(a, "insertPayment")
  /\ UNCHANGED <<now, tables, ask, offer, confirmedAt, reply, quotes, account,
                 locks>>

(* lockRequest: FOR UPDATE.                                                *)
LockRequest(a) ==
  LET row == requestRow(ask[a].request) IN
  /\ pc[a] = "lockRequest"
  /\ Grantable(locks, a, row, ForUpdate)
  /\ locks' = locks \cup {Lock(a, row, ForUpdate)}
  /\ goto(a, "insertPayment")
  /\ UNCHANGED <<now, tables, ask, offer, confirmedAt, reply, quotes, account>>

(* findPolicyNumberForRequest.                                             *)
PaidBefore(a) ==
  \E b \in committed : /\ policies[b] # None
                       /\ ask[b].request = ask[a].request

(* Mutant: the payment is inserted after the request is found unpaid.      *)
InsertPaymentIfUnpaid(a) ==
  LET rivals == {b \in payments \ {a} : ask[b].key = ask[a].key} IN
  /\ pc[a] = "insertPayment"
  /\ \/ /\ PaidBefore(a)
        /\ finish(a, Refused("ALREADY_PAID"))
        /\ Rollback(a)
     \/ /\ ~PaidBefore(a) /\ rivals = {}
        /\ goto(a, "insertPolicy")
        /\ payments' = payments \cup {a}
        /\ UNCHANGED <<policies, redeemedBy, committed, locks, reply>>
  /\ UNCHANGED <<now, ask, offer, confirmedAt, quotes, account>>

(* insertPayment: the unique index on idempotencyKey makes it wait for an  *)
(* uncommitted row of the key and refuse a committed one, which ends the   *)
(* transaction and has the winner replayed.                                *)
InsertPayment(a) ==
  LET rivals == {b \in payments \ {a} : ask[b].key = ask[a].key} IN
  /\ pc[a] = "insertPayment"
  /\ rivals \subseteq committed
  /\ \/ /\ rivals # {}
        /\ goto(a, "replayWinner")
        /\ Rollback(a)
     \/ /\ rivals = {}
        /\ goto(a, "insertPolicy")
        /\ payments' = payments \cup {a}
        /\ UNCHANGED <<policies, redeemedBy, committed, locks>>
  /\ UNCHANGED <<now, ask, offer, confirmedAt, reply, quotes, account>>

(* Mutant: the deadline of the offer is not checked.                       *)
offerRefusalNoDeadline(a) ==
  IF PaidBefore(a) THEN "ALREADY_PAID"
  ELSE IF ask[a].amount # expectedAmount(QuoteOf(a)) THEN "AMOUNT_MISMATCH"
  ELSE "NONE"

(* The checks on the offer, then insertPolicy.                             *)
offerRefusal(a) ==
  IF PaidBefore(a) THEN "ALREADY_PAID"
  ELSE IF isQuoteExpired(offer[a], confirmedAt[a]) THEN "QUOTE_EXPIRED"
  ELSE IF ask[a].amount # expectedAmount(QuoteOf(a)) THEN "AMOUNT_MISMATCH"
  ELSE "NONE"

InsertPolicy(a) ==
  /\ pc[a] = "insertPolicy"
  /\ \/ /\ offerRefusal(a) # "NONE"
        /\ finish(a, Refused(offerRefusal(a)))
        /\ Rollback(a)
     \/ /\ offerRefusal(a) = "NONE"
        /\ goto(a, "redeem")
        /\ policies' = [policies EXCEPT ![a] = "AWAITING_INSURER_CERTIFICATE"]
        /\ UNCHANGED <<payments, redeemedBy, committed, locks, reply>>
  /\ UNCHANGED <<now, ask, offer, confirmedAt, quotes, account>>

(* redeemNcdCode: the UPDATE matches the quote's insurer's own code, held  *)
(* by this customer and unredeemed; it waits for a rival's row lock and    *)
(* then rechecks.  A code of this insurer that did not match is refused.   *)
redeemable(a, k) ==
  /\ Issuer[k] = ask[a].insurer
  /\ Holder[k] = ask[a].customer
  /\ redeemedBy[k] = None

(* Mutant: a code that could not be redeemed is passed over.               *)
RedeemIfPossible(a) ==
  LET k == CodeOf[ask[a].request] IN
  /\ pc[a] = "redeem"
  /\ goto(a, "commit")
  /\ \/ /\ k = None \/ ~redeemable(a, k)
        /\ UNCHANGED <<tables, locks>>
     \/ /\ k # None /\ redeemable(a, k)
        /\ Grantable(locks, a, codeRow(k), NoKeyUpdate)
        /\ redeemedBy' = [redeemedBy EXCEPT ![k] = a]
        /\ locks' = locks \cup {Lock(a, codeRow(k), NoKeyUpdate)}
        /\ UNCHANGED <<payments, policies, committed>>
  /\ UNCHANGED <<now, ask, offer, confirmedAt, reply, quotes, account>>

Redeem(a) ==
  LET k == CodeOf[ask[a].request] IN
  /\ pc[a] = "redeem"
  /\ \/ /\ k = None \/ Issuer[k] # ask[a].insurer
        /\ goto(a, "commit")
        /\ UNCHANGED <<tables, locks, reply>>
     \/ /\ k # None /\ Issuer[k] = ask[a].insurer
        /\ Grantable(locks, a, codeRow(k), NoKeyUpdate)
        /\ \/ /\ redeemable(a, k)
              /\ goto(a, "commit")
              /\ redeemedBy' = [redeemedBy EXCEPT ![k] = a]
              /\ locks' = locks \cup {Lock(a, codeRow(k), NoKeyUpdate)}
              /\ UNCHANGED <<payments, policies, committed, reply>>
           \/ /\ ~redeemable(a, k)
              /\ finish(a, Refused("NCD_CODE_UNAVAILABLE"))
              /\ Rollback(a)
  /\ UNCHANGED <<now, ask, offer, confirmedAt, quotes, account>>

(* The audit rows and the commit; the answer may be lost on its way back.  *)
Commit(a) ==
  /\ pc[a] = "commit"
  /\ committed' = committed \cup {a}
  /\ locks' = Release(locks, a)
  /\ \/ finish(a, Receipt(a))
     \/ finish(a, Failed)
  /\ UNCHANGED <<now, payments, policies, redeemedBy, ask, offer, confirmedAt,
                 quotes, account>>

(* Mutant: without lock_timeout a statement waits for its lock forever.    *)
FailWithoutLockTimeout(a) ==
  /\ pc[a] \in InTransaction \ {"lockCustomer", "lockRequest"}
  /\ finish(a, Failed)
  /\ Rollback(a)
  /\ UNCHANGED <<now, ask, offer, confirmedAt, quotes, account>>

(* A lock or statement timeout, or a lost connection, inside the           *)
(* transaction: the database rolls back and the caller gets an error.      *)
Fail(a) ==
  /\ pc[a] \in InTransaction
  /\ finish(a, Failed)
  /\ Rollback(a)
  /\ UNCHANGED <<now, ask, offer, confirmedAt, quotes, account>>

(* The catch of the unique violation: the winner of the key is replayed.   *)
ReplayWinner(a) ==
  /\ pc[a] = "replayWinner"
  /\ \E b \in Stored(a) : finish(a, replayOutcome(a, b))
  /\ UNCHANGED <<now, tables, ask, offer, confirmedAt, quotes, account, locks>>

-----------------------------------------------------------------------------
(* AccountService.close, one closure of a customer at a time.              *)

LockForClosure(c) ==
  /\ closing[c] = "idle"
  /\ Grantable(locks, c, customerRow(c), ForUpdate)
  /\ locks' = locks \cup {Lock(c, customerRow(c), ForUpdate)}
  /\ closing' = [closing EXCEPT ![c] = "locked"]
  /\ UNCHANGED <<now, tables, attempt, quotes, closed>>

(* policiesInForce reads without a lock.                                   *)
policiesInForce(c) ==
  {a \in committed : policies[a] \in InForce /\ ask[a].customer = c}

CheckPolicies(c) ==
  /\ closing[c] = "locked"
  /\ \/ /\ policiesInForce(c) # {}
        /\ closing' = [closing EXCEPT ![c] = "idle"]
        /\ locks' = Release(locks, c)
     \/ /\ policiesInForce(c) = {}
        /\ closing' = [closing EXCEPT ![c] = "clear"]
        /\ UNCHANGED locks
  /\ UNCHANGED <<now, tables, attempt, quotes, closed>>

(* deletedAt is set, the sessions are revoked and the transaction commits, *)
(* or it fails and nothing happened.                                       *)
EndClosure(c) ==
  /\ closing[c] \in {"locked", "clear"}
  /\ closing' = [closing EXCEPT ![c] = "idle"]
  /\ locks' = Release(locks, c)
  /\ \/ closing[c] = "clear" /\ closed' = closed \cup {c}
     \/ UNCHANGED closed
  /\ UNCHANGED <<now, tables, attempt, quotes>>

-----------------------------------------------------------------------------
(* The insurer: extending its quote, issuing the certificate.              *)

(* extendQuote passes new Date() to an UPDATE that runs later.             *)
StartExtension(q) ==
  /\ extending[q] = None
  /\ extending' = [extending EXCEPT ![q] = now]
  /\ UNCHANGED <<now, tables, attempt, validUntil, account, locks>>

ExtendOpenQuote(q) ==
  /\ extending[q] # None
  /\ extending' = [extending EXCEPT ![q] = None]
  /\ \/ /\ validUntil[q] >= extending[q]
        /\ validUntil[q] < MaxTime
        /\ validUntil' = [validUntil EXCEPT ![q] = @ + 1]
     \/ /\ validUntil[q] < extending[q]
        /\ UNCHANGED validUntil
  /\ UNCHANGED <<now, tables, attempt, account, locks>>

(* lockPolicy and activatePolicy of a policy its payment committed.        *)
IssueCertificate(a) ==
  /\ a \in committed
  /\ policies[a] = "AWAITING_INSURER_CERTIFICATE"
  /\ policies' = [policies EXCEPT ![a] = "ACTIVE"]
  /\ UNCHANGED <<now, payments, redeemedBy, committed, attempt, quotes,
                 account, locks>>

Tick ==
  /\ now < MaxTime
  /\ now' = now + 1
  /\ UNCHANGED <<tables, attempt, quotes, account, locks>>

-----------------------------------------------------------------------------
(* The next statement of an attempt. *)
Step(a) ==
  \/ Replay(a) \/ FindQuote(a) \/ Stamp(a) \/ LockCustomer(a)
  \/ LockRequest(a) \/ InsertPayment(a) \/ InsertPolicy(a) \/ Redeem(a)
  \/ Commit(a) \/ ReplayWinner(a)

Pay(a) == Call(a) \/ Step(a) \/ Fail(a)

Close(c) == LockForClosure(c) \/ CheckPolicies(c) \/ EndClosure(c)

Next ==
  \/ \E a \in Attempts : Pay(a) \/ IssueCertificate(a)
  \/ \E c \in Customers : Close(c)
  \/ \E q \in Extendable : StartExtension(q) \/ ExtendOpenQuote(q)
  \/ Tick

Spec == Init /\ [][Next]_vars

(* The server runs every statement it has started, or times it out: the    *)
(* pool sets lock_timeout and statement_timeout on every connection.  An   *)
(* account closure is a request like any other.                            *)
Progress ==
  /\ \A a \in Attempts : WF_vars(Step(a) \/ Fail(a))
  /\ \A c \in Customers : WF_vars(CheckPolicies(c) \/ EndClosure(c))

FairSpec == Spec /\ Progress

-----------------------------------------------------------------------------
TypeOK ==
  /\ now \in 0..MaxTime
  /\ pc \in [Attempts -> PcValues]
  /\ ask \in [Attempts -> Asks]
  /\ offer \in [Attempts -> 0..MaxTime \cup {None}]
  /\ confirmedAt \in [Attempts -> 0..MaxTime \cup {None}]
  /\ payments \subseteq Attempts
  /\ policies \in [Attempts -> InForce \cup {None}]
  /\ redeemedBy \in [Codes -> Attempts \cup {None}]
  /\ committed \subseteq Attempts
  /\ reply \in [Attempts -> ReplyType]
  /\ validUntil \in [Quotes -> 0..MaxTime]
  /\ extending \in [Quotes -> 0..MaxTime \cup {None}]
  /\ closed \subseteq Customers
  /\ closing \in [Customers -> {"idle", "locked", "clear"}]
  /\ \A a \in payments : a \in committed
                         \/ pc[a] \in {"insertPolicy", "redeem", "commit"}
  /\ \A l \in locks : /\ l.txn \in Attempts \cup Customers
                      /\ l.mode \in LockModes

(* A quote request is bought at most once, whichever of its quotes the     *)
(* customer pays and however many payments run at once: policies has no    *)
(* unique index on the request, only pay's lock on the request row.        *)
OnePolicyPerRequest ==
  \A a, b \in committed :
    (/\ policies[a] # None /\ policies[b] # None
     /\ ask[a].request = ask[b].request) => a = b

(* No account is closed with cover in force: the closure's unlocked read   *)
(* of the policies and the payment's check of the account cannot both miss *)
(* each other.                                                             *)
ClosedHoldsNoCover ==
  \A c \in closed : policiesInForce(c) = {}

(* A policy bought from the insurer that issued the request's code is the  *)
(* one that spent it, so a code never discounts two policies; and a code   *)
(* is spent only by a policy of its own insurer and its own customer.      *)
CodeDiscountsOnePolicy ==
  \A a \in committed, k \in Codes :
    LET discounted == /\ CodeOf[ask[a].request] = k
                      /\ Issuer[k] = ask[a].insurer
    IN /\ discounted => redeemedBy[k] = a
       /\ redeemedBy[k] = a => discounted /\ Holder[k] = ask[a].customer

(* The sale is safe: a request is bought once, a closed account holds no   *)
(* cover, and a no-claim code discounts one policy, whatever payments and  *)
(* closures overlap.                                                       *)
SaleSafe ==
  /\ OnePolicyPerRequest
  /\ ClosedHoldsNoCover
  /\ CodeDiscountsOnePolicy

(* A payment that was charged is never answered with a refusal on a retry: *)
(* a call with the same key and the same body as a committed payment is    *)
(* not told that the request is already paid, its code already used or the *)
(* account closed, wherever in pay the two calls overlap.                  *)
RetryNeverRefused ==
  \A a \in committed, b \in Attempts :
    ask[b] = ask[a] => reply[b].code \notin
      {"ALREADY_PAID", "NCD_CODE_UNAVAILABLE", "ACCOUNT_CLOSED"}

(* A key stands for one payment: every receipt given for it is of the same *)
(* committed payment, and only the caller who made that payment gets it.   *)
OneReceiptPerKey ==
  \A a, b \in Attempts :
    reply[a].code = "RECEIPT" =>
      /\ reply[a].of \in committed /\ ask[reply[a].of] = ask[a]
      /\ (reply[b].code = "RECEIPT" /\ ask[a].key = ask[b].key)
            => reply[a].of = reply[b].of

(* Retries agree with the first call: they are not refused what it has     *)
(* paid, and get its receipt and no other.                                 *)
RetriesAgree == RetryNeverRefused /\ OneReceiptPerKey

(* What was bought was on offer: at the instant the payment confirms with, *)
(* the quote had not expired, and the charge was its premium and the RTSA  *)
(* fee, although the quote is read before the transaction and extensions   *)
(* run meanwhile.                                                          *)
BoughtWhileOnOffer ==
  \A a \in committed :
    /\ ~isQuoteExpired(validUntil[QuoteOf(a)], confirmedAt[a])
    /\ ask[a].amount = expectedAmount(QuoteOf(a))

(* Every call is answered, with a receipt, a refusal or an error.          *)
EveryCallAnswered ==
  \A a \in Attempts : pc[a] = "replay" ~> pc[a] = "done"

-----------------------------------------------------------------------------
(* What the customer is promised: the sale of a request is one step.       *)

buyers(r) == {a \in committed : ask[a].request = r}

anyOf(S) == CHOOSE a \in S : TRUE

soldTo == [r \in Requests |->
            IF buyers(r) = {} THEN None ELSE ask[anyOf(buyers(r))].insurer]

spentCodes == {k \in Codes : redeemedBy[k] \in committed}

Abstract == INSTANCE Sale WITH sold <- soldTo, spent <- spentCodes

ImplementsSale == Abstract!Spec

=============================================================================
