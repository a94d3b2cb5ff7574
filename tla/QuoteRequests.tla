--------------------------- MODULE QuoteRequests ----------------------------
(***************************************************************************)
(* Sending quote requests to insurers and answering them: a customer       *)
(* submits a request, sends one again or renews a policy; an insurer's     *)
(* users reply; administrators create, change, delete and restore          *)
(* insurers.                                                               *)
(*                                                                         *)
(* One action is one statement of a transaction under READ COMMITTED.  A   *)
(* statement takes its row locks when it runs; the rows a transaction      *)
(* writes become visible at its commit, so they are written there.  A      *)
(* request is named by the customer call that creates it.                  *)
(***************************************************************************)
EXTENDS Naturals, Sequences, RowLocks

CONSTANTS
  Calls,          \* customer calls, and the requests they create
  Replies,        \* calls of submitQuote: [request, insurer, user]
  Changes,        \* calls of create, update, setStatus and restore:
                  \* [insurer, to, user, expiry]; an insurer is its name
  Customers, Insurers, Policies, Users,
  Asks,           \* what a customer call may ask for
  PolicyOwner,    \* PolicyOwner[p]: the customer of the policy
  Listing,        \* Listing[i]: the place of the insurer's name
  LicenceExpiry,  \* LicenceExpiry[i]: the last day of its licence at first
  Validity,       \* REQUEST_VALIDITY_DAYS
  MaxTime,        \* bound on the clock, in days
  None

AskType == [kind : {"submit", "requote", "renew"}, customer : Customers,
            of : Calls \cup Policies \cup {None}]

InsurerStatus == {"ACTIVE", "INACTIVE", "DELETED"}

Txns == Calls \cup Replies \cup Changes

ASSUME QuoteRequestsAssumption ==
  /\ Asks \subseteq AskType
  /\ Replies \subseteq [request : Calls, insurer : Insurers, user : Users]
  /\ Changes \subseteq [insurer : Insurers, user : Users,
                        to : InsurerStatus \cup {"CREATED", "UPDATED", "RESTORED"},
                        expiry : Nat \cup {None}]
  /\ PolicyOwner \in [Policies -> Customers]
  /\ Listing \in [Insurers -> Nat]
  /\ LicenceExpiry \in [Insurers -> Nat]
  /\ Validity \in Nat \ {0} /\ MaxTime \in Nat
  /\ Calls \cap (Replies \cup Changes) = {} /\ Replies \cap Changes = {}
  /\ None \notin Calls \cup Nat \cup InsurerStatus \cup {"SUBMITTED", "QUOTED"}

VARIABLES
  now,            \* the clock
  pc,             \* pc[x]: the next statement of transaction x
  outcome,        \* outcome[x]: what the caller was told
  ask,            \* ask[c]: what customer call c asks for
  stamp,          \* stamp[x]: submittedAt of a call, sentAt of a reply
  day,            \* day[c]: currentDay when call c chose insurers, or None
  candidates,     \* candidates[c]: the insurers call c sends its request to
  seen,           \* seen[x]: the status a reply or change read first
  status,         \* status[c]: the status of the committed request c, or None
  quoted,         \* the replies whose quote is committed
  history,        \* history[c]: the state_history rows of request c
  insurerStatus,  \* insurerStatus[i], or None before it is created
  licenceExpiry,  \* licenceExpiry[i]
  audited,        \* audited[i]: the status changes in the audit log
  locks           \* the row locks held

requests == <<status, quoted, history>>
insurers == <<insurerStatus, licenceExpiry, audited>>
reading  == <<ask, stamp, day, candidates, seen>>
vars == <<now, pc, outcome, reading, requests, insurers, locks>>

PcValues == {"idle", "original", "links", "policy", "renewals", "eligible",
             "share", "distribute", "delivery", "check", "insertQuote",
             "keyInsurer", "markQuoted", "create", "insurer", "update",
             "commit", "done"}

Refusals == {"NOT_FOUND", "ALREADY_REQUOTED", "RENEWAL_IN_PROGRESS",
             "NO_ACTIVE_INSURERS", "ALREADY_QUOTED", "REQUEST_EXPIRED",
             "INSURER_NOT_DELETED", "INSURER_EXISTS"}

-----------------------------------------------------------------------------
(* What the statements read.                                               *)

created == {c \in Calls : status[c] # None}

expiresAt(c) == stamp[c] + Validity

(* isRequestOpen; nothing in the API marks a request EXPIRED.              *)
isRequestOpen(c) == expiresAt(c) > now

(* An insurer that accepts requests on a day.                              *)
eligible(i, d) == insurerStatus[i] = "ACTIVE" /\ licenceExpiry[i] >= d

requoteLinks(o) ==
  {c \in created : ask[c].kind = "requote" /\ ask[c].of = o}

renewalsOf(p) == {c \in created : ask[c].kind = "renew" /\ ask[c].of = p}

(* Mutant: a quote is taken to be the user's, not the insurer's.           *)
rivalQuotesOfUser(r) ==
  {q \in Replies \ {r} :
     /\ q.request = r.request /\ q.insurer = r.insurer /\ q.user = r.user
     /\ q \in quoted \/ pc[q] \in {"keyInsurer", "markQuoted", "commit"}}

(* The quotes, committed or not, that the unique index on the request and  *)
(* the insurer sets against reply r.                                       *)
rivalQuotes(r) ==
  {q \in Replies \ {r} :
     /\ q.request = r.request /\ q.insurer = r.insurer
     /\ q \in quoted \/ pc[q] \in {"keyInsurer", "markQuoted", "commit"}}

(* The requests, committed or not, that the unique index on requotedFromId *)
(* sets against call c.                                                    *)
rivalRequotes(c) ==
  {b \in Calls \ {c} :
     /\ ask[c].kind = "requote" /\ ask[b].kind = "requote"
     /\ ask[b].of = ask[c].of
     /\ b \in created \/ pc[b] = "commit"}

(* Other transactions that have inserted the name and not ended.           *)
creating(d) ==
  {e \in Changes \ {d} : /\ e.to = "CREATED" /\ e.insurer = d.insurer
                         /\ pc[e] = "update"}

-----------------------------------------------------------------------------
(* The lock each statement takes.                                          *)

requestRow(c)     == <<"quote_requests", c>>
policyRow(p)      == <<"policies", p>>
insurerRow(i)     == <<"insurers", i>>
deliveryRow(c, i) == <<"quote_request_recipients", c, i>>

(* Mutant: the original is locked so weakly that two requotes both hold it. *)
lockRequestKeyShare(c) == Lock(c, requestRow(ask[c].of), KeyShare)

(* QuoteRequestsRepository.lockOwned *)
lockRequest(c) == Lock(c, requestRow(ask[c].of), ForUpdate)

(* Mutant: the policy is locked so weakly that two renewals both hold it.  *)
lockPolicyKeyShare(c) == Lock(c, policyRow(ask[c].of), KeyShare)

(* PoliciesRepository.lockOwned *)
lockPolicy(c) == Lock(c, policyRow(ask[c].of), ForUpdate)

(* activeInsurerIds FOR SHARE, one row after the other in name order.      *)
unshared(c) == {i \in candidates[c] :
                  Lock(c, insurerRow(i), ForShare) \notin locks}

nextUnshared(c) == CHOOSE i \in unshared(c) :
                     \A j \in unshared(c) : Listing[i] <= Listing[j]

lockEligible(c) == Lock(c, insurerRow(nextUnshared(c)), ForShare)

lockDelivery(r) == Lock(r, deliveryRow(r.request, r.insurer), ForUpdate)

(* Mutant: the request is shared, so that its status holds still.          *)
shareRequest(r) == Lock(r, requestRow(r.request), ForShare)

(* The foreign keys of the inserted quote.                                 *)
keyRequest(r) == Lock(r, requestRow(r.request), KeyShare)
keyInsurer(r) == Lock(r, insurerRow(r.insurer), KeyShare)

(* The UPDATE of markQuoted.                                               *)
lockQuoted(r) == Lock(r, requestRow(r.request), NoKeyUpdate)

(* Mutant: the insurer is read without keeping other changes out.          *)
lockInsurerKeyShare(d) == Lock(d, insurerRow(d.insurer), KeyShare)

(* InsurersRepository.lock, or the conditional UPDATE of restoreDeleted.   *)
lockInsurer(d) ==
  Lock(d, insurerRow(d.insurer),
       IF d.to = "RESTORED" THEN NoKeyUpdate ELSE ForUpdate)

goto(x, l) == pc' = [pc EXCEPT ![x] = l]

(* Run the statement that takes lock l, once nobody holds it off.          *)
Take(x, l, next) ==
  /\ Grantable(locks, x, l.row, l.mode)
  /\ locks' = locks \cup {l}
  /\ goto(x, next)

(* Mutant: a transaction ends without dropping its locks.                  *)
EndKeepingLocks(x, o) ==
  /\ goto(x, "done")
  /\ outcome' = [outcome EXCEPT ![x] = o]
  /\ UNCHANGED locks

(* The transaction ends, with its answer.                                  *)
End(x, o) ==
  /\ goto(x, "done")
  /\ outcome' = [outcome EXCEPT ![x] = o]
  /\ locks' = Release(locks, x)

-----------------------------------------------------------------------------
Init ==
  /\ now = 0
  /\ pc \in [Txns -> {"idle", "done"}]     \* a call may never be made
  /\ outcome = [x \in Txns |-> "NONE"]
  /\ ask \in [Calls -> Asks]
  /\ stamp = [x \in Calls \cup Replies |-> 0]
  /\ day = [c \in Calls |-> None]
  /\ candidates = [c \in Calls |-> {}]
  /\ seen = [x \in Replies \cup Changes |-> None]
  /\ status = [c \in Calls |-> None]
  /\ quoted = {}
  /\ history = [c \in Calls |-> <<>>]
  /\ insurerStatus \in [Insurers -> {"ACTIVE", "INACTIVE", None}]
  /\ licenceExpiry = LicenceExpiry
  /\ audited = [i \in Insurers |-> <<>>]
  /\ locks = {}

-----------------------------------------------------------------------------
(* QuoteRequestsService.submit and requote, PoliciesService.renew.         *)

(* submittedAt is taken before the transaction.                            *)
Submit(c) ==
  /\ pc[c] = "idle" /\ ask[c].kind = "submit"
  /\ stamp' = [stamp EXCEPT ![c] = now]
  /\ goto(c, "eligible")
  /\ UNCHANGED <<now, outcome, ask, day, candidates, seen, requests, insurers,
                 locks>>

(* requote and renew find the row that they lock, or it is not the         *)
(* customer's.                                                             *)
Requote(c) ==
  LET o == ask[c].of IN
  /\ pc[c] = "idle" /\ ask[c].kind = "requote"
  /\ \/ /\ o \in created /\ ask[o].customer = ask[c].customer
        /\ goto(c, "original")
        /\ UNCHANGED <<outcome, locks>>
     \/ /\ ~(o \in created /\ ask[o].customer = ask[c].customer)
        /\ End(c, "NOT_FOUND")
  /\ UNCHANGED <<now, reading, requests, insurers>>

LockOriginal(c) ==
  /\ pc[c] = "original"
  /\ Take(c, lockRequest(c), "links")
  /\ UNCHANGED <<now, outcome, reading, requests, insurers>>

CheckLinks(c) ==
  /\ pc[c] = "links"
  /\ \/ requoteLinks(ask[c].of) # {} /\ End(c, "ALREADY_REQUOTED")
     \/ /\ requoteLinks(ask[c].of) = {}
        /\ goto(c, "eligible")
        /\ UNCHANGED <<outcome, locks>>
  /\ UNCHANGED <<now, reading, requests, insurers>>

Renew(c) ==
  /\ pc[c] = "idle" /\ ask[c].kind = "renew"
  /\ \/ /\ PolicyOwner[ask[c].of] = ask[c].customer
        /\ goto(c, "policy")
        /\ UNCHANGED <<outcome, locks>>
     \/ /\ PolicyOwner[ask[c].of] # ask[c].customer
        /\ End(c, "NOT_FOUND")
  /\ UNCHANGED <<now, reading, requests, insurers>>

(* now = new Date() follows the lock and precedes the read of renewals.    *)
LockPolicy(c) ==
  /\ pc[c] = "policy"
  /\ Take(c, lockPolicy(c), "renewals")
  /\ stamp' = [stamp EXCEPT ![c] = now]
  /\ UNCHANGED <<now, outcome, ask, day, candidates, seen, requests, insurers>>

CheckRenewals(c) ==
  LET open == {b \in renewalsOf(ask[c].of) : expiresAt(b) > stamp[c]} IN
  /\ pc[c] = "renewals"
  /\ \/ open # {} /\ End(c, "RENEWAL_IN_PROGRESS")
     \/ open = {} /\ goto(c, "eligible") /\ UNCHANGED <<outcome, locks>>
  /\ UNCHANGED <<now, reading, requests, insurers>>

(* activeInsurerIds: the rows the statement's snapshot finds eligible ...  *)
FindEligible(c) ==
  /\ pc[c] = "eligible"
  /\ day' = [day EXCEPT ![c] = now]
  /\ candidates' = [candidates EXCEPT ![c] = {i \in Insurers : eligible(i, now)}]
  /\ goto(c, "share")
  /\ UNCHANGED <<now, outcome, ask, stamp, seen, requests, insurers, locks>>

(* Mutant: the eligible insurers are read without a lock.                  *)
ReadEligible(c) ==
  /\ pc[c] = "share" /\ unshared(c) # {}
  /\ goto(c, "distribute")
  /\ UNCHANGED <<now, outcome, reading, requests, insurers, locks>>

(* ... are locked in turn, waiting for a change under way, and dropped     *)
(* when that change made them ineligible.                                  *)
ShareEligible(c) ==
  LET i == nextUnshared(c) IN
  /\ pc[c] = "share" /\ unshared(c) # {}
  /\ Take(c, lockEligible(c), "share")
  /\ candidates' = [candidates EXCEPT ![c] = IF eligible(i, day[c]) THEN @
                                             ELSE @ \ {i}]
  /\ UNCHANGED <<now, outcome, ask, stamp, day, seen, requests, insurers>>

EndShare(c) ==
  /\ pc[c] = "share" /\ unshared(c) = {}
  /\ \/ candidates[c] = {} /\ End(c, "NO_ACTIVE_INSURERS")
     \/ candidates[c] # {} /\ goto(c, "distribute") /\ UNCHANGED <<outcome, locks>>
  /\ UNCHANGED <<now, reading, requests, insurers>>

(* distribute: the request, its recipients and photos are inserted.  The   *)
(* unique index on requotedFromId waits for an uncommitted rival and       *)
(* refuses a committed one.  requote takes submittedAt here.               *)
Distribute(c) ==
  /\ pc[c] = "distribute"
  /\ rivalRequotes(c) \subseteq created
  /\ stamp' = [stamp EXCEPT ![c] = IF ask[c].kind = "requote" THEN now ELSE @]
  /\ IF rivalRequotes(c) # {} THEN End(c, "UNIQUE_VIOLATION")
     ELSE goto(c, "commit") /\ UNCHANGED <<outcome, locks>>
  /\ UNCHANGED <<now, ask, day, candidates, seen, requests, insurers>>

CommitRequest(c) ==
  /\ pc[c] = "commit"
  /\ status' = [status EXCEPT ![c] = "SUBMITTED"]
  /\ history' = [history EXCEPT ![c] =
                   Append(@, [from |-> None, to |-> "SUBMITTED"])]
  /\ End(c, "CREATED")
  /\ UNCHANGED <<now, reading, quoted, insurers>>

-----------------------------------------------------------------------------
(* InsurerPortalService.submitQuote.                                       *)

(* lockDelivery's snapshot: the request as it was when the statement       *)
(* started, whatever it waits for.                                         *)
Reply(r) ==
  /\ pc[r] = "idle" /\ r.request \in created
  /\ \/ /\ r.insurer \in candidates[r.request]
        /\ seen' = [seen EXCEPT ![r] = status[r.request]]
        /\ goto(r, "delivery")
        /\ UNCHANGED <<outcome, locks>>
     \/ /\ r.insurer \notin candidates[r.request]
        /\ End(r, "NOT_FOUND")
        /\ UNCHANGED seen
  /\ UNCHANGED <<now, ask, stamp, day, candidates, requests, insurers>>

(* Only the recipient row is locked.                                       *)
LockDelivery(r) ==
  /\ pc[r] = "delivery"
  /\ Take(r, lockDelivery(r), "check")
  /\ UNCHANGED <<now, outcome, reading, requests, insurers>>

(* hasQuote, then sentAt = new Date().                                     *)
CheckReply(r) ==
  LET answered == rivalQuotes(r) \cap quoted # {} IN
  /\ pc[r] = "check"
  /\ stamp' = [stamp EXCEPT ![r] = now]
  /\ \/ answered /\ End(r, "ALREADY_QUOTED")
     \/ ~answered /\ ~isRequestOpen(r.request) /\ End(r, "REQUEST_EXPIRED")
     \/ /\ ~answered /\ isRequestOpen(r.request)
        /\ goto(r, "insertQuote")
        /\ UNCHANGED <<outcome, locks>>
  /\ UNCHANGED <<now, ask, day, candidates, seen, requests, insurers>>

(* The unique index waits for an uncommitted quote of the same insurer and *)
(* refuses a committed one; then the foreign keys are checked.             *)
InsertQuote(r) ==
  /\ pc[r] = "insertQuote"
  /\ rivalQuotes(r) \subseteq quoted
  /\ IF rivalQuotes(r) # {} THEN End(r, "UNIQUE_VIOLATION")
     ELSE Take(r, keyRequest(r), "keyInsurer") /\ UNCHANGED outcome
  /\ UNCHANGED <<now, reading, requests, insurers>>

KeyInsurer(r) ==
  /\ pc[r] = "keyInsurer"
  /\ Take(r, keyInsurer(r), "markQuoted")
  /\ UNCHANGED <<now, outcome, reading, requests, insurers>>

MarkQuoted(r) ==
  /\ pc[r] = "markQuoted"
  /\ Take(r, lockQuoted(r), "commit")
  /\ UNCHANGED <<now, outcome, reading, requests, insurers>>

(* The quote, the status, and a state_history row when the status that was *)
(* read first was not QUOTED.                                              *)
CommitQuote(r) ==
  LET c == r.request IN
  /\ pc[r] = "commit"
  /\ quoted' = quoted \cup {r}
  /\ status' = [status EXCEPT ![c] = "QUOTED"]
  /\ history' = [history EXCEPT ![c] =
       IF seen[r] = "QUOTED" THEN @
       ELSE Append(@, [from |-> seen[r], to |-> "QUOTED"])]
  /\ End(r, "QUOTED")
  /\ UNCHANGED <<now, reading, insurers>>

-----------------------------------------------------------------------------
(* InsurersService.create, update, setStatus, remove (setStatus to         *)
(* DELETED) and restore.                                                   *)

Change(d) ==
  /\ pc[d] = "idle"
  /\ goto(d, IF d.to = "CREATED" THEN "create" ELSE "insurer")
  /\ UNCHANGED <<now, outcome, reading, requests, insurers, locks>>

(* The unique index on the name, which deleted insurers keep, waits for an *)
(* uncommitted rival and refuses a committed one.                          *)
InsertInsurer(d) ==
  /\ pc[d] = "create"
  /\ creating(d) = {}
  /\ \/ insurerStatus[d.insurer] # None /\ End(d, "INSURER_EXISTS")
     \/ /\ insurerStatus[d.insurer] = None
        /\ goto(d, "update")
        /\ UNCHANGED <<outcome, locks>>
  /\ UNCHANGED <<now, reading, requests, insurers>>

(* Why the insurer, in status s, is not changed as d asks, or "NONE".      *)
refusal(d, s) ==
  CASE s = None                                 -> "NOT_FOUND"
    [] s = "DELETED" /\ d.to # "RESTORED"       -> "NOT_FOUND"
    [] s # "DELETED" /\ d.to = "RESTORED"       -> "INSURER_NOT_DELETED"
    [] OTHER                                    -> "NONE"

LockInsurer(d) ==
  LET before == insurerStatus[d.insurer] IN
  /\ pc[d] = "insurer"
  /\ Grantable(locks, d, lockInsurer(d).row, lockInsurer(d).mode)
  /\ \/ /\ refusal(d, before) # "NONE"
        /\ End(d, refusal(d, before))
        /\ UNCHANGED seen
     \/ /\ refusal(d, before) = "NONE"
        /\ Take(d, lockInsurer(d), "update")
        /\ seen' = [seen EXCEPT ![d] = before]
        /\ UNCHANGED outcome
  /\ UNCHANGED <<now, ask, stamp, day, candidates, requests, insurers>>

(* The status after d: a new insurer is active, an edited one keeps its.   *)
after(d) ==
  CASE d.to = "CREATED"  -> "ACTIVE"
    [] d.to = "UPDATED"  -> insurerStatus[d.insurer]
    [] d.to = "RESTORED" -> "INACTIVE"
    [] OTHER             -> d.to

(* The insert or update, the audit row and the commit.                     *)
UpdateInsurer(d) ==
  /\ pc[d] = "update"
  /\ insurerStatus' = [insurerStatus EXCEPT ![d.insurer] = after(d)]
  /\ licenceExpiry' = [licenceExpiry EXCEPT ![d.insurer] =
       IF d.to \in {"CREATED", "UPDATED"} /\ d.expiry # None THEN d.expiry ELSE @]
  /\ audited' = [audited EXCEPT ![d.insurer] =
                   Append(@, [from |-> seen[d], to |-> after(d)])]
  /\ End(d, "CHANGED")
  /\ UNCHANGED <<now, reading, requests>>

-----------------------------------------------------------------------------
(* Any refusal of the documents, the NCD code or the premium inside the    *)
(* transaction, a timeout or a lost connection: it is rolled back.         *)
Fail(x) ==
  /\ pc[x] \notin {"idle", "done"}
  /\ End(x, "FAILED")
  /\ UNCHANGED <<now, reading, requests, insurers>>

Tick ==
  /\ now < MaxTime
  /\ now' = now + 1
  /\ UNCHANGED <<pc, outcome, reading, requests, insurers, locks>>

SendRequest(c) ==
  \/ Submit(c) \/ Requote(c) \/ LockOriginal(c) \/ CheckLinks(c)
  \/ Renew(c) \/ LockPolicy(c) \/ CheckRenewals(c)
  \/ FindEligible(c) \/ ShareEligible(c) \/ EndShare(c)
  \/ Distribute(c) \/ CommitRequest(c)

SubmitQuote(r) ==
  \/ Reply(r) \/ LockDelivery(r) \/ CheckReply(r) \/ InsertQuote(r)
  \/ KeyInsurer(r) \/ MarkQuoted(r) \/ CommitQuote(r)

ChangeInsurer(d) ==
  Change(d) \/ InsertInsurer(d) \/ LockInsurer(d) \/ UpdateInsurer(d)

Next ==
  \/ \E c \in Calls : SendRequest(c)
  \/ \E r \in Replies : SubmitQuote(r)
  \/ \E d \in Changes : ChangeInsurer(d)
  \/ \E x \in Txns : Fail(x)
  \/ Tick

Spec == Init /\ [][Next]_vars

-----------------------------------------------------------------------------
TransitionType == [from : {"SUBMITTED", "QUOTED", None} \cup InsurerStatus,
                   to : {"SUBMITTED", "QUOTED"} \cup InsurerStatus]

TypeOK ==
  /\ now \in 0..MaxTime
  /\ pc \in [Txns -> PcValues]
  /\ outcome \in [Txns -> Refusals \cup {"NONE", "CREATED", "QUOTED", "CHANGED",
                                         "FAILED", "UNIQUE_VIOLATION"}]
  /\ ask \in [Calls -> Asks]
  /\ stamp \in [Calls \cup Replies -> 0..MaxTime]
  /\ day \in [Calls -> 0..MaxTime \cup {None}]
  /\ candidates \in [Calls -> SUBSET Insurers]
  /\ seen \in [Replies \cup Changes ->
                 {"SUBMITTED", "QUOTED", None} \cup InsurerStatus]
  /\ status \in [Calls -> {"SUBMITTED", "QUOTED", None}]
  /\ quoted \subseteq Replies
  /\ history \in [Calls -> Seq(TransitionType)]
  /\ insurerStatus \in [Insurers -> InsurerStatus \cup {None}]
  /\ licenceExpiry \in [Insurers -> Nat]
  /\ audited \in [Insurers -> Seq(TransitionType)]
  /\ \A l \in locks : /\ l.txn \in Txns /\ l.mode \in LockModes
                      /\ pc[l.txn] \notin {"idle", "done"}

(* A policy has at most one open renewal, however many renewals of it are  *)
(* started at once: only the lock on the policy stands between two calls   *)
(* that both find none open.                                               *)
OneOpenRenewal ==
  \A p \in Policies : \A b, c \in renewalsOf(p) :
    isRequestOpen(b) /\ isRequestOpen(c) => b = c

(* A rival is refused by name: the second requote of a request is told     *)
(* ALREADY_REQUOTED and the second reply of an insurer ALREADY_QUOTED; the *)
(* unique indexes behind them, whose error the caller could not tell from  *)
(* a fault, never fire.                                                    *)
RivalsRefusedByName ==
  \A x \in Txns : outcome[x] # "UNIQUE_VIOLATION"

(* Calls that rival for one place are settled: one gets it, the others are *)
(* told so.                                                                *)
RivalsSettled == OneOpenRenewal /\ RivalsRefusedByName

(* The audit log of an insurer's status is its history: every entry starts *)
(* where the entry before it ended and the last one ends at the status the *)
(* insurer has, whatever edits, changes, deletions and restores ran at     *)
(* once; an insurer that is created twice is so once.                      *)
AuditFollowsStatus ==
  \A i \in Insurers :
    LET n == Len(audited[i]) IN
    /\ \A k \in 2..n : audited[i][k].from = audited[i][k-1].to
    /\ n > 0 => audited[i][n].to = insurerStatus[i]

(* The lock the next statement of x waits for.                             *)
wanted(x) ==
  CASE pc[x] = "original"                       -> {lockRequest(x)}
    [] pc[x] = "policy"                         -> {lockPolicy(x)}
    [] pc[x] = "share" /\ unshared(x) # {}      -> {lockEligible(x)}
    [] pc[x] = "delivery"                       -> {lockDelivery(x)}
    [] pc[x] = "insertQuote"                    -> {keyRequest(x)}
    [] pc[x] = "keyInsurer"                     -> {keyInsurer(x)}
    [] pc[x] = "markQuoted"                     -> {lockQuoted(x)}
    [] pc[x] = "insurer"                        -> {lockInsurer(x)}
    [] OTHER                                    -> {}

blockers(x) ==
  {l.txn : l \in {h \in locks : /\ h.txn # x
                                /\ \E w \in wanted(x) :
                                     h.row = w.row /\ Conflict(h.mode, w.mode)}}
  \cup (IF pc[x] = "insertQuote" THEN rivalQuotes(x) \ quoted ELSE {})
  \cup (IF pc[x] = "create" THEN creating(x) ELSE {})
  \cup (IF pc[x] = "distribute" THEN rivalRequotes(x) \ created ELSE {})

(* The transactions never wait for each other in a circle: in any group of *)
(* them one can go on without the others.  A reply locks the delivery, the *)
(* request's key, the insurer's key and then the request itself, while a   *)
(* requote holds the request and waits for insurers.                       *)
NoDeadlock ==
  \A S \in SUBSET {x \in Txns : pc[x] \notin {"idle", "done"}} :
    S # {} => \E x \in S : blockers(x) \cap S = {}

(* state_history's rows of a request form a chain, so that "First insurer  *)
(* quote received." is recorded once: a row starts at the status the row   *)
(* before it left.                                                         *)
HistoryFollowsStatus ==
  \A c \in Calls : \A k \in 2..Len(history[c]) :
    history[c][k].from = history[c][k-1].to

-----------------------------------------------------------------------------
(* The marketplace these transactions implement.                           *)
Promise == INSTANCE Market WITH
  Requests <- Calls, Answers <- Replies, Days <- 0..MaxTime,
  accepting <- {i \in Insurers : insurerStatus[i] = "ACTIVE"},
  until <- licenceExpiry,
  sentTo <- [c \in Calls |-> IF c \in created THEN candidates[c] ELSE {}],
  sentOn <- [c \in Calls |-> IF c \in created THEN day[c] ELSE None],
  again <- [o \in Calls |-> IF requoteLinks(o) = {} THEN None
                            ELSE CHOOSE c \in requoteLinks(o) : TRUE],
  answers <- quoted

ImplementsMarket == Promise!Spec

=============================================================================
