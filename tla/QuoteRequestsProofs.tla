------------------------ MODULE QuoteRequestsProofs -------------------------
(***************************************************************************)
(* Proofs about QuoteRequests, for any number of customers' calls,         *)
(* insurers, replies, changes and policies.                                *)
(***************************************************************************)
EXTENDS QuoteRequests, TLAPS

-----------------------------------------------------------------------------
(* HOW A TRANSACTION MOVES.                                                *)

Outcomes == Refusals \cup {"NONE", "CREATED", "QUOTED", "CHANGED", "FAILED", "UNIQUE_VIOLATION"}

LockTypes == \A l \in locks : /\ l.txn \in Txns /\ l.mode \in LockModes
                              /\ pc[l.txn] \notin {"idle", "done"}

LocksExclude ==
  \A l, m \in locks : l.row = m.row /\ l.txn # m.txn => ~Conflict(l.mode, m.mode)

Granted(x) ==
  \E row : \E mode \in LockModes :
    Grantable(locks, x, row, mode) /\ locks' = locks \cup {Lock(x, row, mode)}

(* It ends, or goes on to its next statement, perhaps with a lock more.    *)
Moves(x) ==
  \/ \E o \in Outcomes : End(x, o)
  \/ /\ \E next \in PcValues \ {"idle", "done"} : goto(x, next)
     /\ UNCHANGED outcome
     /\ UNCHANGED locks \/ Granted(x)

Does(x) ==
  \/ x \in Calls /\ SendRequest(x)
  \/ x \in Replies /\ SubmitQuote(x)
  \/ x \in Changes /\ ChangeInsurer(x)
  \/ Fail(x)

LEMMA SetUp ==
  /\ Txns = Calls \cup Replies \cup Changes
  /\ \A c \in Calls : c \notin Replies /\ c \notin Changes
  /\ \A r \in Replies : /\ r \notin Calls /\ r \notin Changes
                        /\ r.request \in Calls /\ r.insurer \in Insurers
  /\ \A d \in Changes : /\ d \notin Calls /\ d \notin Replies /\ d.insurer \in Insurers
                        /\ d.to \in InsurerStatus \cup {"CREATED", "UPDATED", "RESTORED"}
                        /\ d.expiry \in Nat \cup {None}
  /\ MaxTime \in Nat /\ Validity \in Nat \ {0}
  /\ None \notin Calls /\ None \notin Nat
  /\ None \notin {"SUBMITTED", "QUOTED", "ACTIVE", "INACTIVE", "DELETED"}
BY QuoteRequestsAssumption DEF Txns, InsurerStatus

LEMMA LockFields ==
  ASSUME NEW t, NEW row, NEW mode
  PROVE  /\ Lock(t, row, mode).txn = t
         /\ Lock(t, row, mode).row = row
         /\ Lock(t, row, mode).mode = mode
BY DEF Lock

LEMMA Modes ==
  /\ ForUpdate \in LockModes /\ NoKeyUpdate \in LockModes
  /\ ForShare \in LockModes /\ KeyShare \in LockModes
BY DEF LockModes

LEMMA Symmetric ==
  ASSUME NEW m \in LockModes, NEW n \in LockModes
  PROVE  Conflict(m, n) <=> Conflict(n, m)
BY DEF Conflict

LEMMA Conflicts ==
  /\ Conflict(ForUpdate, ForUpdate) /\ Conflict(NoKeyUpdate, NoKeyUpdate)
  /\ Conflict(ForUpdate, NoKeyUpdate) /\ Conflict(NoKeyUpdate, ForUpdate)
  /\ Conflict(ForUpdate, ForShare) /\ Conflict(ForShare, ForUpdate)
  /\ Conflict(NoKeyUpdate, ForShare) /\ Conflict(ForShare, NoKeyUpdate)
  /\ Conflict(ForUpdate, KeyShare) /\ Conflict(KeyShare, ForUpdate)
BY DEF Conflict

LEMMA Differ ==
  /\ ForUpdate # NoKeyUpdate /\ ForUpdate # ForShare /\ ForUpdate # KeyShare
  /\ NoKeyUpdate # ForShare /\ NoKeyUpdate # KeyShare /\ ForShare # KeyShare
BY Zenon DEF ForUpdate, NoKeyUpdate, ForShare, KeyShare

LEMMA Compatible ==
  /\ ~Conflict(KeyShare, KeyShare) /\ ~Conflict(KeyShare, NoKeyUpdate)
  /\ ~Conflict(NoKeyUpdate, KeyShare) /\ ~Conflict(KeyShare, ForShare)
  /\ ~Conflict(ForShare, KeyShare) /\ ~Conflict(ForShare, ForShare)
BY Differ DEF Conflict

(* A statement that takes a lock.                                          *)
LEMMA Takes ==
  ASSUME NEW x, NEW row, NEW mode \in LockModes, NEW next \in PcValues \ {"idle", "done"},
         Take(x, Lock(x, row, mode), next), UNCHANGED outcome
  PROVE  /\ Moves(x) /\ Grantable(locks, x, row, mode)
         /\ locks' = locks \cup {Lock(x, row, mode)}
BY LockFields DEF Take, Moves, Granted

LEMMA StepMoves ==
  ASSUME TypeOK, NEW x \in Txns, Does(x)
  PROVE  Moves(x)
<1>p. {"original", "links", "policy", "renewals", "eligible", "share", "distribute", "delivery",
       "check", "insertQuote", "keyInsurer", "markQuoted", "create", "insurer", "update",
       "commit"} \subseteq PcValues \ {"idle", "done"}
  BY DEF PcValues
<1>o. /\ {"NOT_FOUND", "ALREADY_REQUOTED", "RENEWAL_IN_PROGRESS", "NO_ACTIVE_INSURERS",
          "ALREADY_QUOTED", "REQUEST_EXPIRED", "INSURER_NOT_DELETED", "INSURER_EXISTS", "NONE",
          "CREATED", "QUOTED", "CHANGED", "FAILED", "UNIQUE_VIOLATION"} \subseteq Outcomes
  BY DEF Outcomes, Refusals
<1> USE <1>p, <1>o
<1>1. CASE Submit(x) \/ Requote(x) \/ CheckLinks(x) \/ Renew(x) \/ CheckRenewals(x)
           \/ FindEligible(x) \/ EndShare(x) \/ Distribute(x) \/ CommitRequest(x)
  BY <1>1 DEF Submit, Requote, CheckLinks, Renew, CheckRenewals, FindEligible, EndShare,
       Distribute, CommitRequest, Moves
<1>2. CASE LockOriginal(x)
  BY <1>2, Takes, Modes DEF LockOriginal, lockRequest
<1>3. CASE LockPolicy(x)
  BY <1>3, Takes, Modes DEF LockPolicy, lockPolicy
<1>4. CASE ShareEligible(x)
  BY <1>4, Takes, Modes DEF ShareEligible, lockEligible
<1>5. CASE Reply(x) \/ CheckReply(x) \/ CommitQuote(x)
  BY <1>5 DEF Reply, CheckReply, CommitQuote, Moves
<1>6. CASE LockDelivery(x)
  BY <1>6, Takes, Modes DEF LockDelivery, lockDelivery
<1>7. CASE InsertQuote(x)
  BY <1>7, Takes, Modes DEF InsertQuote, keyRequest, Moves
<1>8. CASE KeyInsurer(x)
  BY <1>8, Takes, Modes DEF KeyInsurer, keyInsurer
<1>9. CASE MarkQuoted(x)
  BY <1>9, Takes, Modes DEF MarkQuoted, lockQuoted
<1>10. CASE Change(x) \/ InsertInsurer(x) \/ UpdateInsurer(x)
  BY <1>10 DEF Change, InsertInsurer, UpdateInsurer, Moves
<1>11. CASE LockInsurer(x)
  <2>1. PICK mode \in LockModes : lockInsurer(x) = Lock(x, insurerRow(x.insurer), mode)
    BY Modes DEF lockInsurer
  <2>2. CASE Take(x, lockInsurer(x), "update") /\ UNCHANGED outcome
    BY <2>1, <2>2, Takes
  <2>3. CASE End(x, refusal(x, insurerStatus[x.insurer]))
             /\ refusal(x, insurerStatus[x.insurer]) # "NONE"
    BY <2>3 DEF refusal, Moves
  <2> QED
    BY <1>11, <2>2, <2>3 DEF LockInsurer
<1>12. CASE Fail(x)
  BY <1>12 DEF Fail, Moves
<1> QED
  BY <1>1, <1>2, <1>3, <1>4, <1>5, <1>6, <1>7, <1>8, <1>9, <1>10, <1>11, <1>12
     DEF Does, SendRequest, SubmitQuote, ChangeInsurer

(* What a move leaves to the others.                                       *)
LEMMA OthersWait ==
  ASSUME TypeOK, LocksExclude, NEW x \in Txns, Moves(x)
  PROVE  /\ pc' \in [Txns -> PcValues] /\ outcome' \in [Txns -> Outcomes]
         /\ LockTypes' /\ LocksExclude'
         /\ \A y \in Txns \ {x} : pc'[y] = pc[y] /\ outcome'[y] = outcome[y]
         /\ \A l : l.txn # x => (l \in locks' <=> l \in locks)
         /\ pc'[x] # "idle"
         /\ pc'[x] = "done" => \A l \in locks' : l.txn # x
         /\ pc'[x] # "done" => locks \subseteq locks' /\ outcome' = outcome
<1>1. /\ \A m \in locks : m.mode \in LockModes /\ m.txn \in Txns /\ pc[m.txn] \notin {"idle", "done"}
      /\ "done" \in PcValues
  BY DEF TypeOK, PcValues
<1>2. CASE \E o \in Outcomes : End(x, o)
  <2>1. PICK o \in Outcomes : End(x, o)
    BY <1>2
  <2> QED
    BY <1>1, <2>1 DEF TypeOK, End, goto, Release, LocksExclude, LockTypes, Outcomes
<1>3. CASE /\ \E next \in PcValues \ {"idle", "done"} : goto(x, next)
           /\ UNCHANGED outcome
           /\ UNCHANGED locks \/ Granted(x)
  <2>1. /\ pc' \in [Txns -> PcValues] /\ outcome' \in [Txns -> Outcomes]
        /\ pc'[x] \notin {"idle", "done"} /\ outcome' = outcome
        /\ \A y \in Txns \ {x} : pc'[y] = pc[y]
    BY <1>3 DEF TypeOK, goto, Outcomes
  <2>2. CASE UNCHANGED locks
    BY <1>1, <2>1, <2>2 DEF LocksExclude, LockTypes
  <2>3. CASE Granted(x)
    <3>1. PICK row : \E mode \in LockModes :
            Grantable(locks, x, row, mode) /\ locks' = locks \cup {Lock(x, row, mode)}
      BY <2>3 DEF Granted
    <3>2. PICK mode \in LockModes :
            Grantable(locks, x, row, mode) /\ locks' = locks \cup {Lock(x, row, mode)}
      BY <3>1
    <3>3. PICK new : new = Lock(x, row, mode)
      OBVIOUS
    <3>4. new.txn = x /\ new.row = row /\ new.mode = mode
      BY <3>3, LockFields
    <3>5. LockTypes' /\ \A l : l.txn # x => (l \in locks' <=> l \in locks)
      BY <1>1, <2>1, <3>2, <3>3, <3>4 DEF LockTypes
    <3>6. ASSUME NEW l \in locks', NEW m \in locks', l.row = m.row, l.txn # m.txn
          PROVE  ~Conflict(l.mode, m.mode)
      <4>1. CASE l \in locks /\ m \in locks
        BY <3>6, <4>1 DEF LocksExclude
      <4>2. CASE l = new /\ m \in locks
        <5>1. ~Conflict(m.mode, mode) /\ m.mode \in LockModes
          BY <1>1, <3>2, <3>4, <3>6, <4>2 DEF Grantable
        <5> QED
          BY <3>4, <4>2, <5>1, Symmetric
      <4>3. CASE m = new /\ l \in locks
        BY <3>2, <3>4, <3>6, <4>3 DEF Grantable
      <4> QED
        BY <3>2, <3>3, <3>6, <4>1, <4>2, <4>3
    <3> QED
      BY <2>1, <3>2, <3>5, <3>6 DEF LocksExclude
  <2> QED
    BY <1>3, <2>2, <2>3
<1> QED
  BY <1>2, <1>3 DEF Moves

-----------------------------------------------------------------------------
(* WHAT IT READS AND WRITES.                                               *)

ReadingTypes ==
  /\ ask \in [Calls -> Asks]
  /\ stamp \in [Calls \cup Replies -> 0..MaxTime]
  /\ day \in [Calls -> 0..MaxTime \cup {None}]
  /\ candidates \in [Calls -> SUBSET Insurers]
  /\ seen \in [Replies \cup Changes -> {"SUBMITTED", "QUOTED", None} \cup InsurerStatus]

TableTypes ==
  /\ status \in [Calls -> {"SUBMITTED", "QUOTED", None}]
  /\ quoted \subseteq Replies
  /\ history \in [Calls -> Seq(TransitionType)]
  /\ insurerStatus \in [Insurers -> InsurerStatus \cup {None}]
  /\ licenceExpiry \in [Insurers -> Nat]
  /\ audited \in [Insurers -> Seq(TransitionType)]

(* A step reads for its own transaction only, and only the last one of a   *)
(* transaction writes.                                                     *)
LEMMA OwnReads ==
  ASSUME TypeOK, NEW x \in Txns, Does(x)
  PROVE  /\ ReadingTypes' /\ now' = now /\ ask' = ask
         /\ \A y \in (Calls \cup Replies) \ {x} : stamp'[y] = stamp[y]
         /\ \A y \in Calls \ {x} : day'[y] = day[y] /\ candidates'[y] = candidates[y]
         /\ \A y \in (Replies \cup Changes) \ {x} : seen'[y] = seen[y]
         /\ \/ x \in Calls /\ CommitRequest(x)
            \/ x \in Replies /\ CommitQuote(x)
            \/ x \in Changes /\ UpdateInsurer(x)
            \/ UNCHANGED <<requests, insurers>>
<1> USE SetUp
<1>t. ReadingTypes /\ TableTypes /\ now \in 0..MaxTime
  BY DEF TypeOK, ReadingTypes, TableTypes
<1>1. CASE x \in Calls /\ (Submit(x) \/ LockPolicy(x) \/ Distribute(x))
  <2>1. PICK at \in 0..MaxTime : stamp' = [stamp EXCEPT ![x] = at]
    BY <1>1, <1>t DEF ReadingTypes, Submit, LockPolicy, Distribute
  <2>2. UNCHANGED <<now, ask, day, candidates, seen, requests, insurers>>
    BY <1>1 DEF Submit, LockPolicy, Distribute
  <2> QED
    BY <1>t, <2>1, <2>2 DEF ReadingTypes
<1>2. CASE x \in Calls /\ FindEligible(x)
  <2>1. PICK S \in SUBSET Insurers : candidates' = [candidates EXCEPT ![x] = S]
    BY <1>2 DEF FindEligible
  <2> QED
    BY <1>2, <1>t, <2>1 DEF ReadingTypes, FindEligible
<1>3. CASE x \in Calls /\ ShareEligible(x)
  <2>1. PICK S \in SUBSET Insurers : candidates' = [candidates EXCEPT ![x] = S]
    BY <1>3, <1>t DEF ShareEligible, ReadingTypes
  <2> QED
    BY <1>3, <1>t, <2>1 DEF ReadingTypes, ShareEligible
<1>4. CASE Requote(x) \/ LockOriginal(x) \/ CheckLinks(x) \/ Renew(x) \/ CheckRenewals(x)
           \/ EndShare(x)
  BY <1>4, <1>t DEF ReadingTypes, Requote, LockOriginal, CheckLinks, Renew, CheckRenewals,
       EndShare, reading
<1>5. CASE x \in Calls /\ CommitRequest(x)
  BY <1>5, <1>t DEF ReadingTypes, CommitRequest, reading
<1>6. CASE x \in Replies /\ Reply(x)
  <2>1. PICK s \in {"SUBMITTED", "QUOTED", None} :
          seen' = [seen EXCEPT ![x] = s] \/ seen' = seen
    BY <1>6, <1>t DEF Reply, TableTypes
  <2>2. UNCHANGED <<now, ask, stamp, day, candidates, requests, insurers>>
    BY <1>6 DEF Reply
  <2> QED
    BY <1>6, <1>t, <2>1, <2>2 DEF ReadingTypes
<1>7. CASE x \in Replies /\ CheckReply(x)
  BY <1>7, <1>t DEF ReadingTypes, CheckReply
<1>8. CASE LockDelivery(x) \/ InsertQuote(x) \/ KeyInsurer(x) \/ MarkQuoted(x)
  BY <1>8, <1>t DEF ReadingTypes, LockDelivery, InsertQuote, KeyInsurer, MarkQuoted, reading
<1>9. CASE x \in Replies /\ CommitQuote(x)
  BY <1>9, <1>t DEF ReadingTypes, CommitQuote, reading
<1>10. CASE Change(x) \/ InsertInsurer(x)
  BY <1>10, <1>t DEF ReadingTypes, Change, InsertInsurer, reading
<1>11. CASE x \in Changes /\ LockInsurer(x)
  <2>1. insurerStatus[x.insurer] \in InsurerStatus \cup {None}
    BY <1>11, <1>t DEF TableTypes
  <2>2. PICK s \in InsurerStatus \cup {None} : seen' = [seen EXCEPT ![x] = s] \/ seen' = seen
    BY <1>11, <2>1 DEF LockInsurer
  <2>3. UNCHANGED <<now, ask, stamp, day, candidates, requests, insurers>>
    BY <1>11 DEF LockInsurer
  <2> QED
    BY <1>11, <1>t, <2>2, <2>3 DEF ReadingTypes
<1>12. CASE x \in Changes /\ UpdateInsurer(x)
  BY <1>12, <1>t DEF ReadingTypes, UpdateInsurer, reading
<1>13. CASE Fail(x)
  BY <1>13, <1>t DEF ReadingTypes, Fail, reading
<1> QED
  BY <1>1, <1>2, <1>3, <1>4, <1>5, <1>6, <1>7, <1>8, <1>9, <1>10, <1>11, <1>12, <1>13
     DEF Does, SendRequest, SubmitQuote, ChangeInsurer

(* A row of a history.                                                     *)
LEMMA Appended ==
  ASSUME NEW from, NEW to, [from |-> from, to |-> to] \in TransitionType,
         NEW X, NEW x \in X, NEW f \in [X -> Seq(TransitionType)], NEW g,
         g = [f EXCEPT ![x] = Append(@, [from |-> from, to |-> to])]
  PROVE  /\ g \in [X -> Seq(TransitionType)]
         /\ \A y \in X \ {x} : g[y] = f[y]
         /\ Len(g[x]) = Len(f[x]) + 1 /\ Len(f[x]) \in Nat
         /\ g[x][Len(g[x])] = [from |-> from, to |-> to]
         /\ \A k \in 1..Len(f[x]) : g[x][k] = f[x][k]
<1>1. PICK T : T = TransitionType
  OBVIOUS
<1>2. PICK row \in T : row = [from |-> from, to |-> to]
  BY <1>1
<1>3. f \in [X -> Seq(T)] /\ g = [f EXCEPT ![x] = Append(f[x], row)]
  BY <1>1, <1>2
<1>4. f[x] \in Seq(T) /\ Append(f[x], row) \in Seq(T)
  BY <1>2, <1>3
<1>5. g \in [X -> Seq(T)] /\ g[x] = Append(f[x], row) /\ \A y \in X \ {x} : g[y] = f[y]
  BY <1>3, <1>4
<1>6. PICK s : s = f[x]
  OBVIOUS
<1>7. s \in Seq(T) /\ g[x] = Append(s, row)
  BY <1>4, <1>5, <1>6
<1>8. /\ Len(g[x]) = Len(s) + 1 /\ Len(s) \in Nat /\ g[x][Len(s) + 1] = row
      /\ \A k \in 1..Len(s) : g[x][k] = s[k]
  <2>1. /\ Len(Append(s, row)) = Len(s) + 1 /\ Len(s) \in Nat
        /\ \A k \in 1..(Len(s) + 1) : Append(s, row)[k] = IF k <= Len(s) THEN s[k] ELSE row
    BY <1>2, <1>7
  <2>2. Len(s) + 1 \in 1..(Len(s) + 1) /\ ~(Len(s) + 1 <= Len(s))
    BY <2>1
  <2>3. \A k \in 1..Len(s) : k \in 1..(Len(s) + 1) /\ k <= Len(s)
    BY <2>1
  <2> QED
    BY <1>7, <2>1, <2>2, <2>3
<1> QED
  BY <1>1, <1>2, <1>5, <1>6, <1>8

-----------------------------------------------------------------------------
(* THE INVARIANT.                                                          *)

HasLock(x, row, mode) == Lock(x, row, mode) \in locks

(* Where a call holds the request it sends again or the policy it renews,  *)
(* where it chooses insurers, and where it has chosen them.                *)
Sending  == {"eligible", "share", "distribute", "commit"}
Choosing == {"share", "distribute", "commit"}
Chosen   == {"distribute", "commit"}
Running  == Sending \cup {"original", "links", "policy", "renewals"}

Unrivalled == {"insertQuote", "keyInsurer", "markQuoted", "commit"}
Replying   == Unrivalled \cup {"delivery", "check"}

CallStep(c) ==
  /\ pc[c] \in Running \cup {"idle", "done"}
  /\ pc[c] \in {"original", "links"} => ask[c].kind = "requote"
  /\ pc[c] \in {"policy", "renewals"} => ask[c].kind = "renew"
  /\ ask[c].kind = "requote" /\ pc[c] \in Running => ask[c].of \in created
  /\ c \in created => pc[c] = "done" /\ candidates[c] # {} /\ day[c] \in 0..MaxTime
  /\ pc[c] \in Choosing => day[c] \in 0..MaxTime
  /\ pc[c] \in Chosen => candidates[c] # {}

ReplyStep(r) ==
  /\ pc[r] \in Replying \cup {"idle", "done"}
  /\ pc[r] \in Replying => r.request \in created /\ r.insurer \in candidates[r.request]
  /\ r \in quoted => pc[r] = "done" /\ r.request \in created

ChangeStep(d) ==
  /\ pc[d] \in {"idle", "create", "insurer", "update", "done"}
  /\ pc[d] = "create" => d.to = "CREATED"
  /\ pc[d] = "insurer" => d.to # "CREATED"
  /\ pc[d] \in {"idle", "create", "insurer"} => seen[d] = None

(* The locks a transaction has where it stands ...                         *)
CallLocks(c) ==
  /\ ask[c].kind = "requote" /\ pc[c] \in Sending \cup {"links"} => lockRequest(c) \in locks
  /\ ask[c].kind = "renew" /\ pc[c] \in Sending \cup {"renewals"} => lockPolicy(c) \in locks
  /\ pc[c] \in Chosen => \A i \in candidates[c] : HasLock(c, insurerRow(i), ForShare)

ReplyLocks(r) ==
  /\ pc[r] \in Unrivalled \cup {"check"} => lockDelivery(r) \in locks
  /\ pc[r] \in Unrivalled \ {"insertQuote"} => keyRequest(r) \in locks

ChangeLocks(d) == pc[d] = "update" /\ d.to # "CREATED" => lockInsurer(d) \in locks

(* ... and the only ones it can have.                                      *)
CallHolds(c, l) ==
  \/ l = lockRequest(c) /\ ask[c].kind = "requote" /\ pc[c] \in Sending \cup {"links"}
  \/ l = lockPolicy(c) /\ ask[c].kind = "renew" /\ pc[c] \in Sending \cup {"renewals"}
  \/ (\E i : l = Lock(c, insurerRow(i), ForShare)) /\ pc[c] \in Choosing

ReplyHolds(r, l) ==
  \/ l = lockDelivery(r) /\ pc[r] \in Unrivalled \cup {"check"}
  \/ l = keyRequest(r) /\ pc[r] \in Unrivalled \ {"insertQuote"}
  \/ l = keyInsurer(r) /\ pc[r] \in {"markQuoted", "commit"}
  \/ l = lockQuoted(r) /\ pc[r] = "commit"

ChangeHolds(d, l) == l = lockInsurer(d) /\ pc[d] = "update"

LocksOnly ==
  \A l \in locks : /\ l.txn \in Calls => CallHolds(l.txn, l)
                   /\ l.txn \in Replies => ReplyHolds(l.txn, l)
                   /\ l.txn \in Changes => ChangeHolds(l.txn, l)

(* What a call found under its lock is still so.                           *)
Checked(c) ==
  /\ ask[c].kind = "requote" /\ pc[c] \in Sending => requoteLinks(ask[c].of) = {}
  /\ ask[c].kind = "renew" /\ pc[c] \in Sending =>
       \A b \in renewalsOf(ask[c].of) : expiresAt(b) <= stamp[c]
  /\ pc[c] \in Choosing => \A i \in candidates[c] :
       HasLock(c, insurerRow(i), ForShare) => eligible(i, day[c])

FirstReply(r) == pc[r] \in Unrivalled => rivalQuotes(r) \cap quoted = {}

SeenStays(d) ==
  pc[d] = "update" => /\ seen[d] = insurerStatus[d.insurer]
                      /\ seen[d] = None <=> d.to = "CREATED"

OneCreating ==
  \A d, e \in Changes :
    /\ d.insurer = e.insurer /\ d.to = "CREATED" /\ e.to = "CREATED"
    /\ pc[d] = "update" /\ pc[e] = "update"
    => d = e

Stamped == \A x \in Calls \cup Replies : stamp[x] <= now

CallInv(c)   == CallStep(c) /\ CallLocks(c) /\ Checked(c)
ReplyInv(r)  == ReplyStep(r) /\ ReplyLocks(r) /\ FirstReply(r)
ChangeInv(d) == ChangeStep(d) /\ ChangeLocks(d) /\ SeenStays(d)

IInv ==
  /\ TypeOK
  /\ \A c \in Calls : CallInv(c)
  /\ \A r \in Replies : ReplyInv(r)
  /\ \A d \in Changes : ChangeInv(d)
  /\ LocksOnly /\ LocksExclude /\ OneCreating /\ Stamped
  /\ OneOpenRenewal /\ RivalsRefusedByName /\ AuditFollowsStatus

-----------------------------------------------------------------------------
(* WHAT LOCKS KEEP APART.                                                  *)

LEMMA Rows ==
  /\ \A a, b : /\ requestRow(a) = requestRow(b) => a = b
               /\ policyRow(a) = policyRow(b) => a = b
               /\ insurerRow(a) = insurerRow(b) => a = b
               /\ requestRow(a) # policyRow(b) /\ requestRow(a) # insurerRow(b)
               /\ policyRow(a) # insurerRow(b)
  /\ \A a, b, c : /\ deliveryRow(a, b) # requestRow(c) /\ deliveryRow(a, b) # policyRow(c)
                  /\ deliveryRow(a, b) # insurerRow(c)
  /\ \A a, b, c, d : deliveryRow(a, b) = deliveryRow(c, d) => a = c /\ b = d
BY DEF requestRow, policyRow, insurerRow, deliveryRow

LEMMA Apart ==
  ASSUME LocksExclude, NEW x, NEW y, x # y, NEW row, NEW m, NEW n,
         Lock(x, row, m) \in locks, Lock(y, row, n) \in locks
  PROVE  ~Conflict(m, n)
BY LockFields DEF LocksExclude

(* The request, the policy and the delivery are locked by one at a time.   *)
LEMMA OneRequote ==
  ASSUME LocksExclude, NEW b \in Calls, NEW c \in Calls, ask[b].of = ask[c].of,
         lockRequest(b) \in locks, lockRequest(c) \in locks
  PROVE  b = c
BY Apart, Conflicts DEF lockRequest

LEMMA OneRenewing ==
  ASSUME LocksExclude, NEW b \in Calls, NEW c \in Calls, ask[b].of = ask[c].of,
         lockPolicy(b) \in locks, lockPolicy(c) \in locks
  PROVE  b = c
BY Apart, Conflicts DEF lockPolicy

LEMMA OneReply ==
  ASSUME LocksExclude, NEW q \in Replies, NEW r \in Replies,
         q.request = r.request, q.insurer = r.insurer,
         lockDelivery(q) \in locks, lockDelivery(r) \in locks
  PROVE  q = r
BY Apart, Conflicts DEF lockDelivery

(* An insurer is changed by one at a time, and not while a call that sends *)
(* it a request shares it.                                                 *)
LEMMA OneChange ==
  ASSUME LocksExclude, OneCreating, NEW d \in Changes, NEW e \in Changes,
         ChangeInv(d), ChangeInv(e), d.insurer = e.insurer, pc[d] = "update", pc[e] = "update"
  PROVE  d = e
<1>1. d.to = "CREATED" <=> e.to = "CREATED"
  BY DEF ChangeInv, SeenStays
<1>2. CASE d.to = "CREATED"
  BY <1>1, <1>2 DEF OneCreating
<1>3. CASE d.to # "CREATED"
  <2>1. PICK m \in {ForUpdate, NoKeyUpdate} : lockInsurer(d) = Lock(d, insurerRow(d.insurer), m)
    BY DEF lockInsurer
  <2>2. PICK n \in {ForUpdate, NoKeyUpdate} : lockInsurer(e) = Lock(e, insurerRow(e.insurer), n)
    BY DEF lockInsurer
  <2>3. Lock(d, insurerRow(d.insurer), m) \in locks /\ Lock(e, insurerRow(d.insurer), n) \in locks
    BY <1>1, <1>3, <2>1, <2>2 DEF ChangeInv, ChangeLocks
  <2>4. Conflict(m, n)
    BY Conflicts
  <2> QED
    BY <2>3, <2>4, Apart
<1> QED
  BY <1>2, <1>3

LEMMA SharedStays ==
  ASSUME LocksExclude, NEW c \in Calls, NEW d \in Changes, c # d, ChangeInv(d),
         pc[d] = "update", HasLock(c, insurerRow(d.insurer), ForShare),
         insurerStatus[d.insurer] # None
  PROVE  FALSE
<1>1. PICK m \in {ForUpdate, NoKeyUpdate} : lockInsurer(d) = Lock(d, insurerRow(d.insurer), m)
  BY DEF lockInsurer
<1>2. Lock(d, insurerRow(d.insurer), m) \in locks
  BY <1>1 DEF ChangeInv, ChangeLocks, SeenStays
<1>3. Conflict(m, ForShare)
  BY Conflicts
<1> QED
  BY <1>2, <1>3, Apart DEF HasLock

-----------------------------------------------------------------------------
(* WHAT IT WRITES.                                                         *)

LEMMA Sends ==
  ASSUME TypeOK, NEW c \in Calls, CallInv(c), CommitRequest(c)
  PROVE  /\ status' = [status EXCEPT ![c] = "SUBMITTED"] /\ created' = created \cup {c}
         /\ UNCHANGED <<quoted, insurers>> /\ TableTypes' /\ c \notin created /\ pc[c] = "commit"
<1>1. /\ status \in [Calls -> {"SUBMITTED", "QUOTED", None}] /\ quoted \subseteq Replies
      /\ insurerStatus \in [Insurers -> InsurerStatus \cup {None}]
      /\ licenceExpiry \in [Insurers -> Nat] /\ audited \in [Insurers -> Seq(TransitionType)]
      /\ history \in [Calls -> Seq(TransitionType)]
  BY DEF TypeOK
<1>2. /\ status' = [status EXCEPT ![c] = "SUBMITTED"] /\ UNCHANGED <<quoted, insurers>>
      /\ pc[c] = "commit"
      /\ history' = [history EXCEPT ![c] = Append(@, [from |-> None, to |-> "SUBMITTED"])]
  BY DEF CommitRequest
<1>3. [from |-> None, to |-> "SUBMITTED"] \in TransitionType
  BY DEF TransitionType
<1>4. history' \in [Calls -> Seq(TransitionType)]
  BY <1>1, <1>2, <1>3, Appended
<1>5. status' \in [Calls -> {"SUBMITTED", "QUOTED", None}] /\ created' = created \cup {c}
  BY <1>1, <1>2, SetUp DEF created
<1>6. c \notin created
  BY <1>2 DEF CallInv, CallStep
<1> QED
  BY <1>1, <1>2, <1>4, <1>5, <1>6 DEF TableTypes, insurers

LEMMA Quotes ==
  ASSUME TypeOK, NEW r \in Replies, ReplyInv(r), CommitQuote(r)
  PROVE  /\ status' = [status EXCEPT ![r.request] = "QUOTED"] /\ created' = created
         /\ quoted' = quoted \cup {r} /\ r \notin quoted /\ pc[r] = "commit"
         /\ UNCHANGED insurers /\ TableTypes'
<1>1. /\ status \in [Calls -> {"SUBMITTED", "QUOTED", None}] /\ quoted \subseteq Replies
      /\ insurerStatus \in [Insurers -> InsurerStatus \cup {None}]
      /\ licenceExpiry \in [Insurers -> Nat] /\ audited \in [Insurers -> Seq(TransitionType)]
      /\ history \in [Calls -> Seq(TransitionType)]
      /\ seen[r] \in {"SUBMITTED", "QUOTED", None} \cup InsurerStatus
  BY DEF TypeOK
<1>2. /\ status' = [status EXCEPT ![r.request] = "QUOTED"] /\ UNCHANGED insurers
      /\ pc[r] = "commit" /\ quoted' = quoted \cup {r}
      /\ \/ history' = [history EXCEPT ![r.request] = Append(@, [from |-> seen[r], to |-> "QUOTED"])]
         \/ history' = history
  BY <1>1 DEF CommitQuote
<1>3. [from |-> seen[r], to |-> "QUOTED"] \in TransitionType
  BY <1>1 DEF TransitionType
<1>4. history' \in [Calls -> Seq(TransitionType)]
  <2>1. r.request \in Calls
    BY SetUp
  <2>2. CASE history' = [history EXCEPT ![r.request] =
                           Append(@, [from |-> seen[r], to |-> "QUOTED"])]
    BY <1>1, <1>3, <2>1, <2>2, Appended
  <2> QED
    BY <1>1, <1>2, <2>2
<1>5. r.request \in created /\ r \notin quoted
  BY <1>2 DEF ReplyInv, ReplyStep, Replying, Unrivalled
<1>6. status' \in [Calls -> {"SUBMITTED", "QUOTED", None}] /\ created' = created
  BY <1>1, <1>2, <1>5, SetUp DEF created
<1> QED
  BY <1>1, <1>2, <1>4, <1>5, <1>6 DEF TableTypes, insurers

LEMMA After ==
  ASSUME TypeOK, NEW d \in Changes, ChangeInv(d), pc[d] = "update"
  PROVE  after(d) \in InsurerStatus
<1>1. insurerStatus[d.insurer] \in InsurerStatus \cup {None}
  BY SetUp DEF TypeOK
<1>2. d.to # "CREATED" => insurerStatus[d.insurer] # None
  BY DEF ChangeInv, SeenStays
<1>3. d.to \in InsurerStatus \cup {"CREATED", "UPDATED", "RESTORED"}
  BY SetUp
<1>4. "ACTIVE" \in InsurerStatus /\ "INACTIVE" \in InsurerStatus
  BY DEF InsurerStatus
<1>5. CASE d.to = "CREATED"
  BY <1>4, <1>5 DEF after
<1>6. CASE d.to = "UPDATED"
  BY <1>1, <1>2, <1>6 DEF after
<1>7. CASE d.to = "RESTORED"
  BY <1>4, <1>7 DEF after
<1>8. CASE d.to \notin {"CREATED", "UPDATED", "RESTORED"}
  BY <1>3, <1>8 DEF after
<1> QED
  BY <1>5, <1>6, <1>7, <1>8

LEMMA Updates ==
  ASSUME TypeOK, NEW d \in Changes, ChangeInv(d), UpdateInsurer(d)
  PROVE  /\ insurerStatus' = [insurerStatus EXCEPT ![d.insurer] = after(d)]
         /\ \A i \in Insurers \ {d.insurer} : /\ insurerStatus'[i] = insurerStatus[i]
                                              /\ licenceExpiry'[i] = licenceExpiry[i]
                                              /\ audited'[i] = audited[i]
         /\ insurerStatus'[d.insurer] = after(d) /\ after(d) \in InsurerStatus
         /\ LET i == d.insurer IN
            /\ Len(audited'[i]) = Len(audited[i]) + 1 /\ Len(audited[i]) \in Nat
            /\ audited'[i][Len(audited'[i])] = [from |-> seen[d], to |-> after(d)]
            /\ \A k \in 1..Len(audited[i]) : audited'[i][k] = audited[i][k]
         /\ UNCHANGED requests /\ created' = created /\ TableTypes' /\ pc[d] = "update"
<1>1. /\ status \in [Calls -> {"SUBMITTED", "QUOTED", None}] /\ quoted \subseteq Replies
      /\ insurerStatus \in [Insurers -> InsurerStatus \cup {None}]
      /\ licenceExpiry \in [Insurers -> Nat] /\ audited \in [Insurers -> Seq(TransitionType)]
      /\ history \in [Calls -> Seq(TransitionType)]
      /\ seen[d] \in {"SUBMITTED", "QUOTED", None} \cup InsurerStatus
      /\ d.insurer \in Insurers /\ d.expiry \in Nat \cup {None}
  BY SetUp DEF TypeOK
<1>2. /\ insurerStatus' = [insurerStatus EXCEPT ![d.insurer] = after(d)] /\ UNCHANGED requests
      /\ pc[d] = "update"
      /\ audited' = [audited EXCEPT ![d.insurer] = Append(@, [from |-> seen[d], to |-> after(d)])]
      /\ licenceExpiry' = [licenceExpiry EXCEPT ![d.insurer] =
           IF d.to \in {"CREATED", "UPDATED"} /\ d.expiry # None THEN d.expiry ELSE @]
  BY DEF UpdateInsurer
<1>3. after(d) \in InsurerStatus
  BY <1>2, After
<1>4. [from |-> seen[d], to |-> after(d)] \in TransitionType
  BY <1>1, <1>3 DEF TransitionType
<1>5. /\ audited' \in [Insurers -> Seq(TransitionType)]
      /\ \A i \in Insurers \ {d.insurer} : audited'[i] = audited[i]
      /\ LET i == d.insurer IN
         /\ Len(audited'[i]) = Len(audited[i]) + 1 /\ Len(audited[i]) \in Nat
         /\ audited'[i][Len(audited'[i])] = [from |-> seen[d], to |-> after(d)]
         /\ \A k \in 1..Len(audited[i]) : audited'[i][k] = audited[i][k]
  BY <1>1, <1>2, <1>4, Appended
<1>6. PICK e \in Nat : licenceExpiry' = [licenceExpiry EXCEPT ![d.insurer] = e]
  BY <1>1, <1>2
<1>7. /\ licenceExpiry' \in [Insurers -> Nat]
      /\ \A i \in Insurers \ {d.insurer} : licenceExpiry'[i] = licenceExpiry[i]
  BY <1>1, <1>6
<1>8. /\ insurerStatus' \in [Insurers -> InsurerStatus \cup {None}]
      /\ insurerStatus'[d.insurer] = after(d)
      /\ \A i \in Insurers \ {d.insurer} : insurerStatus'[i] = insurerStatus[i]
  BY <1>1, <1>2, <1>3
<1>9. created' = created
  BY <1>2 DEF requests, created
<1>10. TableTypes'
  BY <1>1, <1>2, <1>5, <1>7, <1>8 DEF TableTypes, requests
<1> QED
  BY <1>2, <1>3, <1>5, <1>7, <1>8, <1>9, <1>10

LEMMA Stays ==
  ASSUME TypeOK, UNCHANGED <<requests, insurers>>
  PROVE  /\ TableTypes' /\ created' = created
         /\ UNCHANGED <<status, quoted, history, insurerStatus, licenceExpiry, audited>>
BY DEF TypeOK, TableTypes, requests, insurers, created

LEMMA Types ==
  ASSUME IInv, NEW x \in Txns, Does(x)
  PROVE  TypeOK'
<1>1. TypeOK /\ LocksExclude
  BY DEF IInv
<1>2. TableTypes'
  BY <1>1, OwnReads, Sends, Quotes, Updates, Stays DEF IInv
<1>3. /\ ReadingTypes' /\ now' = now /\ LockTypes'
      /\ pc' \in [Txns -> PcValues] /\ outcome' \in [Txns -> Outcomes]
  BY <1>1, OwnReads, StepMoves, OthersWait
<1> QED
  BY <1>1, <1>2, <1>3 DEF TypeOK, TableTypes, ReadingTypes, LockTypes, Outcomes

-----------------------------------------------------------------------------
(* WHAT A STEP LEAVES TO THE OTHERS.                                       *)

LEMMA Frame ==
  ASSUME IInv, NEW x \in Txns, Does(x)
  PROVE  /\ now' = now /\ ask' = ask
         /\ \A y \in Txns \ {x} : pc'[y] = pc[y] /\ outcome'[y] = outcome[y]
         /\ \A y \in (Calls \cup Replies) \ {x} : stamp'[y] = stamp[y]
         /\ \A y \in Calls \ {x} : day'[y] = day[y] /\ candidates'[y] = candidates[y]
         /\ \A y \in (Replies \cup Changes) \ {x} : seen'[y] = seen[y]
         /\ \A l : l.txn # x => (l \in locks' <=> l \in locks)
         /\ created \subseteq created' /\ created' \subseteq created \cup {x}
         /\ x \in created' \ created => x \in Calls /\ CommitRequest(x)
         /\ quoted \subseteq quoted' /\ quoted' \subseteq quoted \cup {x}
         /\ x \in quoted' \ quoted => x \in Replies /\ CommitQuote(x)
         /\ \A i \in Insurers :
              \/ insurerStatus'[i] = insurerStatus[i] /\ licenceExpiry'[i] = licenceExpiry[i]
              \/ x \in Changes /\ UpdateInsurer(x) /\ x.insurer = i
<1>1. TypeOK /\ LocksExclude
  BY DEF IInv
<1>2. /\ now' = now /\ ask' = ask
      /\ \A y \in Txns \ {x} : pc'[y] = pc[y] /\ outcome'[y] = outcome[y]
      /\ \A y \in (Calls \cup Replies) \ {x} : stamp'[y] = stamp[y]
      /\ \A y \in Calls \ {x} : day'[y] = day[y] /\ candidates'[y] = candidates[y]
      /\ \A y \in (Replies \cup Changes) \ {x} : seen'[y] = seen[y]
      /\ \A l : l.txn # x => (l \in locks' <=> l \in locks)
  BY <1>1, OwnReads, StepMoves, OthersWait
<1>3. CASE x \in Calls /\ CommitRequest(x)
  BY <1>1, <1>2, <1>3, Sends DEF IInv, insurers
<1>4. CASE x \in Replies /\ CommitQuote(x)
  BY <1>1, <1>2, <1>4, Quotes DEF IInv, insurers
<1>5. CASE x \in Changes /\ UpdateInsurer(x)
  BY <1>1, <1>2, <1>5, Updates DEF IInv, requests
<1>6. CASE UNCHANGED <<requests, insurers>>
  BY <1>1, <1>2, <1>6, Stays
<1> QED
  BY <1>1, <1>3, <1>4, <1>5, <1>6, OwnReads

LEMMA NotDone ==
  ASSUME NEW c \in Calls, Does(c)
  PROVE  pc[c] # "done"
BY SetUp DEF Does, SendRequest, Submit, Requote, LockOriginal, CheckLinks, Renew, LockPolicy,
   CheckRenewals, FindEligible, ShareEligible, EndShare, Distribute, CommitRequest, Fail

LEMMA OthersCall ==
  ASSUME IInv, NEW x \in Txns, Does(x), NEW c \in Calls \ {x}
  PROVE  CallInv(c)'
<1>1. /\ pc'[c] = pc[c] /\ ask' = ask /\ stamp'[c] = stamp[c] /\ day'[c] = day[c]
      /\ candidates'[c] = candidates[c]
      /\ \A row, mode : Lock(c, row, mode) \in locks' <=> Lock(c, row, mode) \in locks
      /\ created \subseteq created' /\ (c \in created' => c \in created)
  BY Frame, LockFields, SetUp
<1>2. CallInv(c)
  BY DEF IInv
<1>3. CallStep(c)'
  BY <1>1, <1>2 DEF CallInv, CallStep
<1>4. CallLocks(c)'
  BY <1>1, <1>2 DEF CallInv, CallLocks, lockRequest, lockPolicy, HasLock
<1>5. ASSUME ask[c].kind = "requote", pc[c] \in Sending PROVE requoteLinks(ask[c].of)' = {}
  <2>1. requoteLinks(ask[c].of) = {} /\ lockRequest(c) \in locks
    BY <1>2, <1>5 DEF CallInv, CallLocks, Checked
  <2>2. ASSUME NEW b \in requoteLinks(ask[c].of)' PROVE FALSE
    <3>1. b \in created' /\ ask[b].kind = "requote" /\ ask[b].of = ask[c].of
      BY <1>1, <2>2 DEF requoteLinks
    <3>2. b \notin created
      BY <2>1, <3>1 DEF requoteLinks
    <3>3. b = x /\ x \in Calls /\ CommitRequest(x)
      BY <3>1, <3>2, Frame
    <3>4. lockRequest(x) \in locks
      BY <3>1, <3>3 DEF IInv, CallInv, CallLocks, CommitRequest, Sending
    <3> QED
      BY <2>1, <3>1, <3>3, <3>4, OneRequote DEF IInv
  <2> QED
    BY <2>2
<1>6. ASSUME ask[c].kind = "renew", pc[c] \in Sending, NEW b \in renewalsOf(ask[c].of)'
      PROVE  (expiresAt(b) <= stamp[c])'
  <2>1. lockPolicy(c) \in locks /\ \A a \in renewalsOf(ask[c].of) : expiresAt(a) <= stamp[c]
    BY <1>2, <1>6 DEF CallInv, CallLocks, Checked
  <2>2. b \in created' /\ ask[b].kind = "renew" /\ ask[b].of = ask[c].of
    BY <1>1, <1>6 DEF renewalsOf
  <2>3. CASE b = x
    <3>1. CASE x \in created
      <4>1. pc[x] = "done" /\ x \in Calls
        BY <3>1 DEF IInv, CallInv, CallStep, created
      <4>2. FALSE
        BY <4>1, NotDone
      <4> QED
        BY <4>2
    <3>2. CASE x \notin created
      <4>1. x \in Calls /\ CommitRequest(x)
        BY <2>2, <2>3, <3>2, Frame
      <4>2. lockPolicy(x) \in locks
        BY <2>2, <2>3, <4>1 DEF IInv, CallInv, CallLocks, CommitRequest, Sending
      <4> QED
        BY <2>1, <2>2, <2>3, <4>1, <4>2, OneRenewing DEF IInv
    <3> QED
      BY <3>1, <3>2
  <2>4. CASE b # x
    <3>1. b \in created /\ stamp'[b] = stamp[b] /\ b \in Calls
      BY <2>2, <2>4, Frame DEF created
    <3> QED
      BY <1>1, <2>1, <2>2, <3>1 DEF renewalsOf, expiresAt
  <2> QED
    BY <2>3, <2>4
<1>7. ASSUME pc[c] \in Choosing, NEW i \in candidates[c], HasLock(c, insurerRow(i), ForShare)
      PROVE  eligible(i, day[c])'
  <2>1. eligible(i, day[c]) /\ i \in Insurers
    BY <1>2, <1>7 DEF CallInv, Checked, IInv, TypeOK
  <2>2. ASSUME x \in Changes, UpdateInsurer(x), x.insurer = i PROVE FALSE
    <3>1. insurerStatus[i] # None
      BY <2>1, SetUp DEF eligible
    <3>2. ChangeInv(x) /\ pc[x] = "update" /\ LocksExclude
      BY <2>2 DEF IInv, UpdateInsurer
    <3> QED
      BY <1>7, <2>2, <3>1, <3>2, SharedStays
  <2>3. insurerStatus'[i] = insurerStatus[i] /\ licenceExpiry'[i] = licenceExpiry[i]
    BY <2>1, <2>2, Frame
  <2> QED
    BY <1>1, <2>1, <2>3 DEF eligible
<1>8. Checked(c)'
  <2>1. /\ ask'[c] = ask[c] /\ \A i : HasLock(c, insurerRow(i), ForShare)' <=>
                                       HasLock(c, insurerRow(i), ForShare)
    BY <1>1 DEF HasLock
  <2> QED
    BY <1>1, <1>5, <1>6, <1>7, <2>1 DEF Checked
<1> QED
  BY <1>3, <1>4, <1>8 DEF CallInv

LEMMA OthersReply ==
  ASSUME IInv, NEW x \in Txns, Does(x), NEW r \in Replies \ {x}
  PROVE  ReplyInv(r)'
<1>1. /\ pc'[r] = pc[r] /\ created \subseteq created' /\ (r \in quoted' => r \in quoted)
      /\ \A row, mode : Lock(r, row, mode) \in locks' <=> Lock(r, row, mode) \in locks
  BY Frame, LockFields, SetUp
<1>2. ReplyInv(r) /\ r.request \in Calls
  BY SetUp DEF IInv
<1>3. ReplyStep(r)'
  <2>1. ASSUME r.request \in created PROVE candidates'[r.request] = candidates[r.request]
    <3>1. CASE r.request = x
      <4>1. pc[x] = "done" /\ x \in Calls
        BY <1>2, <2>1, <3>1 DEF IInv, CallInv, CallStep
      <4>2. FALSE
        BY <4>1, NotDone
      <4> QED
        BY <4>2
    <3>2. CASE r.request # x
      BY <1>2, <3>2, Frame
    <3> QED
      BY <3>1, <3>2
  <2> QED
    BY <1>1, <1>2, <2>1 DEF ReplyInv, ReplyStep
<1>4. ReplyLocks(r)'
  BY <1>1, <1>2 DEF ReplyInv, ReplyLocks, lockDelivery, keyRequest
<1>5. ASSUME pc[r] \in Unrivalled, NEW q \in rivalQuotes(r)' \cap quoted' PROVE FALSE
  <2>1. q \in Replies \ {r} /\ q.request = r.request /\ q.insurer = r.insurer
    BY <1>5 DEF rivalQuotes
  <2>2. rivalQuotes(r) \cap quoted = {} /\ lockDelivery(r) \in locks
    BY <1>2, <1>5 DEF ReplyInv, FirstReply, ReplyLocks
  <2>3. q \notin quoted
    BY <2>1, <2>2 DEF rivalQuotes
  <2>4. q = x /\ CommitQuote(x)
    BY <1>5, <2>3, Frame
  <2>5. lockDelivery(q) \in locks
    BY <2>1, <2>4 DEF IInv, ReplyInv, ReplyLocks, CommitQuote, Unrivalled
  <2> QED
    BY <2>1, <2>2, <2>5, OneReply DEF IInv
<1>6. FirstReply(r)'
  BY <1>1, <1>5 DEF FirstReply
<1> QED
  BY <1>3, <1>4, <1>6 DEF ReplyInv

LEMMA OthersChange ==
  ASSUME IInv, NEW x \in Txns, Does(x), NEW d \in Changes \ {x}
  PROVE  ChangeInv(d)'
<1>1. /\ pc'[d] = pc[d] /\ seen'[d] = seen[d]
      /\ \A row, mode : Lock(d, row, mode) \in locks' <=> Lock(d, row, mode) \in locks
  BY Frame, LockFields, SetUp
<1>2. ChangeInv(d) /\ d.insurer \in Insurers
  BY SetUp DEF IInv
<1>3. ChangeStep(d)'
  BY <1>1, <1>2 DEF ChangeInv, ChangeStep
<1>4. ChangeLocks(d)'
  BY <1>1, <1>2 DEF ChangeInv, ChangeLocks, lockInsurer
<1>5. ASSUME pc[d] = "update" PROVE insurerStatus'[d.insurer] = insurerStatus[d.insurer]
  <2>1. ASSUME x \in Changes, UpdateInsurer(x), x.insurer = d.insurer PROVE FALSE
    <3>1. pc[x] = "update"
      BY <2>1 DEF UpdateInsurer
    <3> QED
      BY <1>2, <1>5, <2>1, <3>1, OneChange DEF IInv
  <2> QED
    BY <1>2, <2>1, Frame
<1>6. SeenStays(d)'
  BY <1>1, <1>2, <1>5 DEF ChangeInv, SeenStays
<1> QED
  BY <1>3, <1>4, <1>6 DEF ChangeInv

-----------------------------------------------------------------------------
(* WHAT A STEP DOES TO ITS OWN TRANSACTION.                                *)

CallOwns(c)   == \A l \in locks : l.txn = c => CallHolds(c, l)
ReplyOwns(r)  == \A l \in locks : l.txn = r => ReplyHolds(r, l)
ChangeOwns(d) == \A l \in locks : l.txn = d => ChangeHolds(d, l)

LEMMA Goes ==
  ASSUME TypeOK, NEW x \in Txns
  PROVE  /\ \A l : goto(x, l) => pc'[x] = l
         /\ \A o : End(x, o) => pc'[x] = "done" /\ locks' = Release(locks, x)
         /\ \A l, next : Take(x, l, next) => pc'[x] = next /\ locks' = locks \cup {l}
BY DEF TypeOK, goto, End, Take

LEMMA CallEnds ==
  ASSUME IInv, NEW c \in Calls, pc[c] # "done", pc'[c] = "done", locks' = Release(locks, c),
         created' = created
  PROVE  CallInv(c)' /\ CallOwns(c)'
<1>1. c \notin created' /\ \A l \in locks' : l.txn # c
  BY DEF IInv, CallInv, CallStep, Release
<1> QED
  BY <1>1 DEF CallInv, CallStep, CallLocks, Checked, CallOwns, Running, Sending, Choosing, Chosen

(* Its locks stay, and one may be added.                                   *)
LEMMA CallKeeps ==
  ASSUME IInv, NEW c \in Calls, pc[c] # "done", UNCHANGED <<ask, created>>, locks \subseteq locks',
         \A l \in locks' \ locks : CallHolds(c, l)',
         \/ pc[c] = "idle"
         \/ pc[c] = "original" /\ pc'[c] = "links" /\ lockRequest(c) \in locks'
         \/ pc[c] = "links" /\ pc'[c] = "eligible"
         \/ pc[c] = "policy" /\ pc'[c] = "renewals" /\ lockPolicy(c) \in locks'
         \/ pc[c] = "renewals" /\ pc'[c] = "eligible"
         \/ pc[c] = "eligible" /\ pc'[c] = "share"
         \/ pc[c] = "share" /\ pc'[c] \in {"share", "distribute"}
         \/ pc[c] = "distribute" /\ pc'[c] = "commit",
         \/ pc'[c] = "original"
         \/ pc'[c] = "policy"
         \/ pc'[c] = "eligible" /\ (pc[c] = "idle" => ask[c].kind = "submit")
         \/ pc[c] # "idle"
  PROVE  /\ CallOwns(c)'
         /\ ask[c].kind = "requote" /\ pc'[c] \in Sending \cup {"links"} =>
              (lockRequest(c) \in locks)'
         /\ ask[c].kind = "renew" /\ pc'[c] \in Sending \cup {"renewals"} =>
              (lockPolicy(c) \in locks)'
<1>1. CallInv(c) /\ LocksOnly
  BY DEF IInv
<1>2. CallStep(c) /\ CallLocks(c)
  BY <1>1 DEF CallInv
<1>3. lockRequest(c)' = lockRequest(c) /\ lockPolicy(c)' = lockPolicy(c)
  BY DEF lockRequest, lockPolicy
<1>4. ASSUME NEW l \in locks, l.txn = c PROVE CallHolds(c, l)'
  <2>1. CallHolds(c, l)
    BY <1>1, <1>4 DEF LocksOnly
  <2> QED
    BY <1>3, <2>1 DEF CallHolds, Sending, Choosing
<1>5. CallOwns(c)'
  BY <1>4 DEF CallOwns
<1>6. /\ ask[c].kind = "requote" /\ pc'[c] \in Sending \cup {"links"} =>
              (lockRequest(c) \in locks)'
      /\ ask[c].kind = "renew" /\ pc'[c] \in Sending \cup {"renewals"} =>
              (lockPolicy(c) \in locks)'
  BY <1>2, <1>3 DEF CallStep, CallLocks, Sending, Choosing
<1> QED
  BY <1>5, <1>6

LEMMA OwnCall ==
  ASSUME IInv, NEW c \in Calls, SendRequest(c) \/ Fail(c)
  PROVE  CallInv(c)' /\ CallOwns(c)'
<1>t. /\ TypeOK /\ CallInv(c) /\ c \in Txns
      /\ stamp \in [Calls \cup Replies -> 0..MaxTime] /\ day \in [Calls -> 0..MaxTime \cup {None}]
      /\ candidates \in [Calls -> SUBSET Insurers] /\ now \in 0..MaxTime
  BY SetUp DEF IInv, TypeOK
<1>s. CallStep(c) /\ CallLocks(c) /\ Checked(c)
  BY <1>t DEF CallInv
<1>g. /\ \A l : goto(c, l) => pc'[c] = l
      /\ \A o : End(c, o) => pc'[c] = "done" /\ locks' = Release(locks, c)
      /\ \A l, next : Take(c, l, next) => pc'[c] = next /\ locks' = locks \cup {l}
  BY <1>t, Goes
<1>q. UNCHANGED requests => created' = created
  BY DEF requests, created
<1>r. UNCHANGED reading => UNCHANGED <<ask, stamp, day, candidates, seen>>
  BY DEF reading
<1>i. UNCHANGED insurers => UNCHANGED <<insurerStatus, licenceExpiry>>
  BY DEF insurers
<1>n. c \notin created \/ pc[c] = "done"
  BY <1>s DEF CallStep
<1> USE <1>q, <1>r, <1>i
<1>1. CASE Submit(c)
  <2>1. /\ pc'[c] = "eligible" /\ pc[c] = "idle" /\ ask[c].kind = "submit" /\ locks' = locks
        /\ UNCHANGED <<ask, created, candidates, day>>
    BY <1>1, <1>g DEF Submit
  <2>2. CallOwns(c)'
    BY <2>1, CallKeeps
  <2>3. CallStep(c)' /\ CallLocks(c)' /\ Checked(c)'
    BY <1>n, <2>1 DEF CallStep, CallLocks, Checked, Running, Sending, Choosing, Chosen
  <2> QED
    BY <2>2, <2>3 DEF CallInv
<1>2. CASE Requote(c)
  <2>1. CASE pc'[c] = "done"
    BY <1>2, <1>g, <2>1, CallEnds DEF Requote
  <2>2. CASE pc'[c] # "done"
    <3>1. /\ pc'[c] = "original" /\ pc[c] = "idle" /\ ask[c].kind = "requote" /\ locks' = locks
          /\ UNCHANGED <<ask, created, candidates, day>> /\ ask[c].of \in created
      BY <1>2, <1>g, <2>2 DEF Requote
    <3>2. CallOwns(c)'
      BY <3>1, CallKeeps
    <3>3. CallStep(c)' /\ CallLocks(c)' /\ Checked(c)'
      BY <1>n, <3>1 DEF CallStep, CallLocks, Checked, Running, Sending, Choosing, Chosen
    <3> QED
      BY <3>2, <3>3 DEF CallInv
  <2> QED
    BY <2>1, <2>2
<1>3. CASE LockOriginal(c)
  <2>1. /\ pc'[c] = "links" /\ pc[c] = "original" /\ locks' = locks \cup {lockRequest(c)}
        /\ UNCHANGED <<ask, created, candidates, day>>
    BY <1>3, <1>g DEF LockOriginal
  <2>2. ask[c].kind = "requote" /\ ask[c].of \in created
    BY <1>s, <2>1 DEF CallStep, Running
  <2>3. \A l : l = lockRequest(c) => CallHolds(c, l)'
    BY <2>1, <2>2 DEF CallHolds, lockRequest
  <2>4. CallOwns(c)' /\ (lockRequest(c) \in locks)'
    BY <2>1, <2>2, <2>3, CallKeeps
  <2>5. CallStep(c)' /\ CallLocks(c)' /\ Checked(c)'
    BY <1>n, <2>1, <2>2, <2>4 DEF CallStep, CallLocks, Checked, Running, Sending, Choosing, Chosen
  <2> QED
    BY <2>4, <2>5 DEF CallInv
<1>4. CASE CheckLinks(c)
  <2>1. CASE pc'[c] = "done"
    BY <1>4, <1>g, <2>1, CallEnds DEF CheckLinks
  <2>2. CASE pc'[c] # "done"
    <3>1. /\ pc'[c] = "eligible" /\ pc[c] = "links" /\ locks' = locks
          /\ UNCHANGED <<ask, created, candidates, day>> /\ requoteLinks(ask[c].of) = {}
      BY <1>4, <1>g, <2>2 DEF CheckLinks
    <3>2. ask[c].kind = "requote" /\ ask[c].of \in created
      BY <1>s, <3>1 DEF CallStep, Running
    <3>3. CallOwns(c)' /\ (lockRequest(c) \in locks)'
      BY <3>1, <3>2, CallKeeps DEF Sending
    <3>4. requoteLinks(ask[c].of)' = {}
      BY <3>1 DEF requoteLinks
    <3>5. CallStep(c)' /\ CallLocks(c)'
      BY <1>n, <3>1, <3>2, <3>3 DEF CallStep, CallLocks, Running, Sending, Choosing, Chosen
    <3>6. Checked(c)'
      BY <3>1, <3>2, <3>4 DEF Checked, Choosing
    <3> QED
      BY <3>3, <3>5, <3>6 DEF CallInv
  <2> QED
    BY <2>1, <2>2
<1>5. CASE Renew(c)
  <2>1. CASE pc'[c] = "done"
    BY <1>5, <1>g, <2>1, CallEnds DEF Renew
  <2>2. CASE pc'[c] # "done"
    <3>1. /\ pc'[c] = "policy" /\ pc[c] = "idle" /\ ask[c].kind = "renew" /\ locks' = locks
          /\ UNCHANGED <<ask, created, candidates, day>>
      BY <1>5, <1>g, <2>2 DEF Renew
    <3>2. CallOwns(c)'
      BY <3>1, CallKeeps
    <3>3. CallStep(c)' /\ CallLocks(c)' /\ Checked(c)'
      BY <1>n, <3>1 DEF CallStep, CallLocks, Checked, Running, Sending, Choosing, Chosen
    <3> QED
      BY <3>2, <3>3 DEF CallInv
  <2> QED
    BY <2>1, <2>2
<1>6. CASE LockPolicy(c)
  <2>1. /\ pc'[c] = "renewals" /\ pc[c] = "policy" /\ locks' = locks \cup {lockPolicy(c)}
        /\ UNCHANGED <<ask, created, candidates, day>>
    BY <1>6, <1>g DEF LockPolicy
  <2>2. ask[c].kind = "renew"
    BY <1>s, <2>1 DEF CallStep
  <2>3. \A l : l = lockPolicy(c) => CallHolds(c, l)'
    BY <2>1, <2>2 DEF CallHolds, lockPolicy
  <2>4. CallOwns(c)' /\ (lockPolicy(c) \in locks)'
    BY <2>1, <2>2, <2>3, CallKeeps
  <2>5. CallStep(c)' /\ CallLocks(c)' /\ Checked(c)'
    BY <1>n, <2>1, <2>2, <2>4 DEF CallStep, CallLocks, Checked, Running, Sending, Choosing, Chosen
  <2> QED
    BY <2>4, <2>5 DEF CallInv
<1>7. CASE CheckRenewals(c)
  <2>1. CASE pc'[c] = "done"
    BY <1>7, <1>g, <2>1, CallEnds DEF CheckRenewals
  <2>2. CASE pc'[c] # "done"
    <3>1. /\ pc'[c] = "eligible" /\ pc[c] = "renewals" /\ locks' = locks
          /\ UNCHANGED <<ask, created, candidates, day, stamp>>
          /\ {b \in renewalsOf(ask[c].of) : expiresAt(b) > stamp[c]} = {}
      BY <1>7, <1>g, <2>2 DEF CheckRenewals
    <3>2. ask[c].kind = "renew"
      BY <1>s, <3>1 DEF CallStep
    <3>3. CallOwns(c)' /\ (lockPolicy(c) \in locks)'
      BY <3>1, <3>2, CallKeeps DEF Sending
    <3>4. ASSUME NEW b \in renewalsOf(ask[c].of) PROVE expiresAt(b) <= stamp[c]
      <4>1. ~(expiresAt(b) > stamp[c]) /\ b \in Calls
        BY <3>1 DEF renewalsOf, created
      <4> QED
        BY <1>t, <4>1, SetUp DEF expiresAt
    <3>5. renewalsOf(ask[c].of)' = renewalsOf(ask[c].of) /\ \A b : expiresAt(b)' = expiresAt(b)
      BY <3>1 DEF renewalsOf, expiresAt
    <3>6. CallStep(c)' /\ CallLocks(c)'
      BY <1>n, <3>1, <3>2, <3>3 DEF CallStep, CallLocks, Running, Sending, Choosing, Chosen
    <3>7. Checked(c)'
      BY <3>1, <3>2, <3>4, <3>5 DEF Checked, Choosing
    <3> QED
      BY <3>3, <3>6, <3>7 DEF CallInv
  <2> QED
    BY <2>1, <2>2
<1>8. CASE FindEligible(c)
  <2>1. /\ pc'[c] = "share" /\ pc[c] = "eligible" /\ locks' = locks
        /\ UNCHANGED <<ask, created>> /\ day'[c] \in 0..MaxTime
    BY <1>8, <1>g, <1>t DEF FindEligible
  <2>2. CallOwns(c)' /\ (ask[c].kind = "requote" => (lockRequest(c) \in locks)')
        /\ (ask[c].kind = "renew" => (lockPolicy(c) \in locks)')
    BY <2>1, CallKeeps DEF Sending
  <2>3. ASSUME NEW i, HasLock(c, insurerRow(i), ForShare) PROVE FALSE
    <3>1. PICK l \in locks : l = Lock(c, insurerRow(i), ForShare)
      BY <2>3 DEF HasLock
    <3>2. l.txn = c /\ l.mode = ForShare
      BY <3>1, LockFields
    <3>3. CallHolds(c, l)
      BY <3>2 DEF IInv, LocksOnly
    <3>4. l = lockRequest(c) \/ l = lockPolicy(c)
      BY <2>1, <3>3 DEF CallHolds, Choosing
    <3> QED
      BY <3>2, <3>4, LockFields, Differ DEF lockRequest, lockPolicy
  <2>4. \A i : ~HasLock(c, insurerRow(i), ForShare)'
    BY <2>1, <2>3 DEF HasLock
  <2>5. requoteLinks(ask[c].of)' = requoteLinks(ask[c].of)
    BY <2>1 DEF requoteLinks
  <2>6. renewalsOf(ask[c].of)' = renewalsOf(ask[c].of) /\ \A b : expiresAt(b)' = expiresAt(b)
        /\ stamp' = stamp
    BY <1>8, <2>1 DEF renewalsOf, expiresAt, FindEligible
  <2>7. CallStep(c)' /\ CallLocks(c)'
    BY <1>n, <1>s, <2>1, <2>2 DEF CallStep, CallLocks, Running, Sending, Choosing, Chosen
  <2>8. Checked(c)'
    BY <1>s, <2>1, <2>4, <2>5, <2>6 DEF Checked, Sending
  <2> QED
    BY <2>2, <2>7, <2>8 DEF CallInv
<1>9. CASE ShareEligible(c)
  <2>0. PICK i : i = nextUnshared(c)
    OBVIOUS
  <2>1. /\ pc'[c] = "share" /\ pc[c] = "share"
        /\ locks' = locks \cup {Lock(c, insurerRow(i), ForShare)}
        /\ UNCHANGED <<ask, created, day, stamp, insurerStatus, licenceExpiry>>
        /\ candidates'[c] = IF eligible(i, day[c]) THEN candidates[c] ELSE candidates[c] \ {i}
    BY <1>9, <1>g, <1>t, <2>0 DEF ShareEligible, lockEligible
  <2>2. CallHolds(c, Lock(c, insurerRow(i), ForShare))'
    BY <2>1 DEF CallHolds, Choosing
  <2>3. CallOwns(c)' /\ (ask[c].kind = "requote" => (lockRequest(c) \in locks)')
        /\ (ask[c].kind = "renew" => (lockPolicy(c) \in locks)')
    BY <2>1, <2>2, CallKeeps DEF Sending
  <2>4. requoteLinks(ask[c].of)' = requoteLinks(ask[c].of)
    BY <2>1 DEF requoteLinks
  <2>5. renewalsOf(ask[c].of)' = renewalsOf(ask[c].of) /\ \A b : expiresAt(b)' = expiresAt(b)
    BY <2>1 DEF renewalsOf, expiresAt
  <2>6. ASSUME NEW j \in candidates'[c], HasLock(c, insurerRow(j), ForShare)'
        PROVE  eligible(j, day[c])'
    <3>1. eligible(j, day[c])' <=> eligible(j, day[c])
      BY <2>1 DEF eligible
    <3>2. CASE HasLock(c, insurerRow(j), ForShare)
      BY <1>s, <2>1, <2>6, <3>1, <3>2 DEF Checked, Choosing
    <3>3. CASE ~HasLock(c, insurerRow(j), ForShare)
      <4>1. Lock(c, insurerRow(j), ForShare) = Lock(c, insurerRow(i), ForShare)
        BY <2>1, <2>6, <3>3 DEF HasLock
      <4>2. insurerRow(j) = insurerRow(i)
        BY <4>1, LockFields
      <4>3. j = i
        BY <4>2, Rows
      <4> QED
        BY <2>1, <2>6, <3>1, <4>3
    <3> QED
      BY <3>2, <3>3
  <2>7. CallStep(c)' /\ CallLocks(c)'
    BY <1>n, <1>s, <2>1, <2>3 DEF CallStep, CallLocks, Running, Sending, Choosing, Chosen
  <2>8. Checked(c)'
    BY <1>s, <2>1, <2>4, <2>5, <2>6 DEF Checked, Sending
  <2> QED
    BY <2>3, <2>7, <2>8 DEF CallInv
<1>10. CASE EndShare(c)
  <2>1. CASE pc'[c] = "done"
    BY <1>10, <1>g, <2>1, CallEnds DEF EndShare
  <2>2. CASE pc'[c] # "done"
    <3>1. /\ pc'[c] = "distribute" /\ pc[c] = "share" /\ locks' = locks
          /\ UNCHANGED <<ask, created, candidates, day, stamp, insurerStatus, licenceExpiry>>
          /\ candidates[c] # {} /\ unshared(c) = {}
      BY <1>10, <1>g, <2>2 DEF EndShare
    <3>2. CallOwns(c)' /\ (ask[c].kind = "requote" => (lockRequest(c) \in locks)')
          /\ (ask[c].kind = "renew" => (lockPolicy(c) \in locks)')
      BY <3>1, CallKeeps DEF Sending
    <3>3. \A i \in candidates[c] : HasLock(c, insurerRow(i), ForShare)'
      BY <3>1 DEF unshared, HasLock
    <3>4. CallStep(c)' /\ CallLocks(c)'
      BY <1>n, <1>s, <3>1, <3>2, <3>3 DEF CallStep, CallLocks, Running, Sending, Choosing, Chosen
    <3>5. /\ requoteLinks(ask[c].of)' = requoteLinks(ask[c].of)
          /\ renewalsOf(ask[c].of)' = renewalsOf(ask[c].of)
          /\ \A b : expiresAt(b)' = expiresAt(b)
          /\ \A i : eligible(i, day[c])' = eligible(i, day[c])
          /\ \A i : HasLock(c, insurerRow(i), ForShare)' = HasLock(c, insurerRow(i), ForShare)
      BY <3>1 DEF requoteLinks, renewalsOf, expiresAt, eligible, HasLock
    <3>6. Checked(c)'
      BY <1>s, <3>1, <3>5 DEF Checked, Sending, Choosing
    <3> QED
      BY <3>2, <3>4, <3>6 DEF CallInv
  <2> QED
    BY <2>1, <2>2
<1>11. CASE Distribute(c)
  <2>1. CASE pc'[c] = "done"
    BY <1>11, <1>g, <2>1, CallEnds DEF Distribute
  <2>2. CASE pc'[c] # "done"
    <3>1. /\ pc'[c] = "commit" /\ pc[c] = "distribute" /\ locks' = locks
          /\ UNCHANGED <<ask, created, candidates, day, insurerStatus, licenceExpiry>>
          /\ \A b \in created : stamp'[b] = stamp[b]
          /\ ask[c].kind # "requote" => stamp'[c] = stamp[c]
      BY <1>11, <1>g, <1>n, <1>t, <2>2 DEF Distribute, created
    <3>2. CallOwns(c)' /\ (ask[c].kind = "requote" => (lockRequest(c) \in locks)')
          /\ (ask[c].kind = "renew" => (lockPolicy(c) \in locks)')
      BY <3>1, CallKeeps DEF Sending
    <3>3. /\ requoteLinks(ask[c].of)' = requoteLinks(ask[c].of)
          /\ renewalsOf(ask[c].of)' = renewalsOf(ask[c].of)
          /\ \A b \in renewalsOf(ask[c].of) : expiresAt(b)' = expiresAt(b)
          /\ \A i : eligible(i, day[c])' = eligible(i, day[c])
          /\ \A i : HasLock(c, insurerRow(i), ForShare)' = HasLock(c, insurerRow(i), ForShare)
      BY <3>1 DEF requoteLinks, renewalsOf, expiresAt, eligible, HasLock
    <3>4. CallStep(c)' /\ CallLocks(c)'
      BY <1>n, <1>s, <3>1, <3>2, <3>3 DEF CallStep, CallLocks, Running, Sending, Choosing, Chosen
    <3>5. Checked(c)'
      BY <1>s, <3>1, <3>3 DEF Checked, Sending, Choosing
    <3> QED
      BY <3>2, <3>4, <3>5 DEF CallInv
  <2> QED
    BY <2>1, <2>2
<1>12. CASE CommitRequest(c)
  <2>1. /\ pc'[c] = "done" /\ pc[c] = "commit" /\ locks' = Release(locks, c)
        /\ UNCHANGED <<ask, candidates, day>>
    BY <1>12, <1>g DEF CommitRequest
  <2>2. \A l \in locks' : l.txn # c
    BY <2>1 DEF Release
  <2>3. CallStep(c)'
    BY <1>s, <2>1 DEF CallStep, Running, Sending, Choosing, Chosen
  <2> QED
    BY <2>1, <2>2, <2>3 DEF CallInv, CallLocks, Checked, CallOwns, Running, Sending, Choosing, Chosen
<1>13. CASE Fail(c)
  BY <1>13, <1>g, CallEnds DEF Fail
<1> QED
  BY <1>1, <1>2, <1>3, <1>4, <1>5, <1>6, <1>7, <1>8, <1>9, <1>10, <1>11, <1>12, <1>13
     DEF SendRequest

LEMMA ReplyEnds ==
  ASSUME IInv, NEW r \in Replies, pc'[r] = "done", locks' = Release(locks, r),
         r \in quoted' => r.request \in created'
  PROVE  ReplyInv(r)' /\ ReplyOwns(r)'
<1>1. \A l \in locks' : l.txn # r
  BY DEF Release
<1> QED
  BY <1>1 DEF ReplyInv, ReplyStep, ReplyLocks, FirstReply, ReplyOwns, Unrivalled, Replying

(* A reply goes on; its delivery, its rivals and its locks stay.           *)
LEMMA ReplyKeeps ==
  ASSUME IInv, NEW r \in Replies, pc[r] # "done", UNCHANGED <<created, candidates, quoted>>,
         r.request \in created, r.insurer \in candidates[r.request],
         locks \subseteq locks', \A l \in locks' \ locks : ReplyHolds(r, l)',
         \/ pc[r] = "idle" /\ pc'[r] = "delivery"
         \/ pc[r] = "delivery" /\ pc'[r] = "check" /\ lockDelivery(r) \in locks'
         \/ pc[r] = "check" /\ pc'[r] = "insertQuote" /\ rivalQuotes(r)' \cap quoted = {}
         \/ pc[r] = "insertQuote" /\ pc'[r] = "keyInsurer" /\ keyRequest(r) \in locks'
         \/ pc[r] = "keyInsurer" /\ pc'[r] = "markQuoted"
         \/ pc[r] = "markQuoted" /\ pc'[r] = "commit"
  PROVE  ReplyInv(r)' /\ ReplyOwns(r)'
<1>1. ReplyStep(r) /\ ReplyLocks(r) /\ FirstReply(r) /\ LocksOnly
  BY DEF IInv, ReplyInv
<1>2. ASSUME NEW l \in locks, l.txn = r PROVE ReplyHolds(r, l)'
  <2>1. ReplyHolds(r, l)
    BY <1>1, <1>2 DEF LocksOnly
  <2> QED
    BY <2>1 DEF ReplyHolds, Unrivalled, lockDelivery, keyRequest, keyInsurer, lockQuoted
<1>3. ReplyOwns(r)'
  BY <1>2 DEF ReplyOwns
<1>4. ReplyStep(r)'
  BY <1>1 DEF ReplyStep, Replying, Unrivalled
<1>5. ReplyLocks(r)'
  BY <1>1 DEF ReplyLocks, Unrivalled, lockDelivery, keyRequest
<1>6. \A q : q \in rivalQuotes(r)' \cap quoted => q \in rivalQuotes(r) \cap quoted
  BY DEF rivalQuotes
<1>7. FirstReply(r)'
  BY <1>1, <1>6 DEF FirstReply, Unrivalled
<1> QED
  BY <1>3, <1>4, <1>5, <1>7 DEF ReplyInv

LEMMA OwnReply ==
  ASSUME IInv, NEW r \in Replies, SubmitQuote(r) \/ Fail(r)
  PROVE  ReplyInv(r)' /\ ReplyOwns(r)'
<1>t. /\ TypeOK /\ r \in Txns /\ r.request \in Calls
      /\ ReplyStep(r) /\ ReplyLocks(r) /\ FirstReply(r)
  BY SetUp DEF IInv, ReplyInv
<1>g. /\ \A l : goto(r, l) => pc'[r] = l
      /\ \A o : End(r, o) => pc'[r] = "done" /\ locks' = Release(locks, r)
      /\ \A l, next : Take(r, l, next) => pc'[r] = next /\ locks' = locks \cup {l}
  BY <1>t, Goes
<1>q. /\ UNCHANGED requests => UNCHANGED <<created, quoted>>
      /\ UNCHANGED reading => UNCHANGED candidates
  BY DEF requests, created, reading
<1>e. ASSUME pc[r] # "done", \E o : End(r, o), quoted' = quoted PROVE ReplyInv(r)' /\ ReplyOwns(r)'
  BY <1>e, <1>g, <1>t, ReplyEnds DEF ReplyStep
<1> USE <1>q
<1>1. CASE Reply(r)
  <2>1. CASE pc'[r] = "done"
    BY <1>1, <1>e, <1>g, <2>1 DEF Reply
  <2>2. CASE pc'[r] # "done"
    <3>1. /\ pc'[r] = "delivery" /\ pc[r] = "idle" /\ locks' = locks
          /\ UNCHANGED <<created, candidates, quoted>>
          /\ r.request \in created /\ r.insurer \in candidates[r.request]
      BY <1>1, <1>g, <2>2 DEF Reply
    <3> QED
      BY <3>1, ReplyKeeps
  <2> QED
    BY <2>1, <2>2
<1>2. CASE LockDelivery(r)
  <2>1. /\ pc'[r] = "check" /\ pc[r] = "delivery" /\ locks' = locks \cup {lockDelivery(r)}
        /\ UNCHANGED <<created, candidates, quoted>>
    BY <1>2, <1>g DEF LockDelivery
  <2>2. \A l : l = lockDelivery(r) => ReplyHolds(r, l)'
    BY <2>1 DEF ReplyHolds, lockDelivery
  <2>3. r.request \in created /\ r.insurer \in candidates[r.request]
    BY <1>t, <2>1 DEF ReplyStep, Replying
  <2> QED
    BY <2>1, <2>2, <2>3, ReplyKeeps
<1>3. CASE CheckReply(r)
  <2>1. CASE pc'[r] = "done"
    BY <1>3, <1>e, <1>g, <2>1 DEF CheckReply
  <2>2. CASE pc'[r] # "done"
    <3>1. /\ pc'[r] = "insertQuote" /\ pc[r] = "check" /\ locks' = locks
          /\ UNCHANGED <<created, candidates, quoted>>
          /\ rivalQuotes(r) \cap quoted = {}
      BY <1>3, <1>g, <2>2 DEF CheckReply
    <3>2. r.request \in created /\ r.insurer \in candidates[r.request]
      BY <1>t, <3>1 DEF ReplyStep, Replying
    <3>3. rivalQuotes(r)' \cap quoted = {}
      BY <3>1 DEF rivalQuotes
    <3> QED
      BY <3>1, <3>2, <3>3, ReplyKeeps
  <2> QED
    BY <2>1, <2>2
<1>4. CASE InsertQuote(r)
  <2>1. CASE pc'[r] = "done"
    <3>1. ~Take(r, keyRequest(r), "keyInsurer")
      BY <1>g, <2>1
    <3> QED
      BY <1>4, <1>e, <3>1 DEF InsertQuote
  <2>2. CASE pc'[r] # "done"
    <3>1. /\ pc'[r] = "keyInsurer" /\ pc[r] = "insertQuote" /\ locks' = locks \cup {keyRequest(r)}
          /\ UNCHANGED <<created, candidates, quoted>>
      BY <1>4, <1>g, <2>2 DEF InsertQuote
    <3>2. \A l : l = keyRequest(r) => ReplyHolds(r, l)'
      BY <3>1 DEF ReplyHolds, keyRequest, Unrivalled
    <3>3. r.request \in created /\ r.insurer \in candidates[r.request]
      BY <1>t, <3>1 DEF ReplyStep, Replying, Unrivalled
    <3> QED
      BY <3>1, <3>2, <3>3, ReplyKeeps
  <2> QED
    BY <2>1, <2>2
<1>5. CASE KeyInsurer(r)
  <2>1. /\ pc'[r] = "markQuoted" /\ pc[r] = "keyInsurer" /\ locks' = locks \cup {keyInsurer(r)}
        /\ UNCHANGED <<created, candidates, quoted>>
    BY <1>5, <1>g DEF KeyInsurer
  <2>2. \A l : l = keyInsurer(r) => ReplyHolds(r, l)'
    BY <2>1 DEF ReplyHolds, keyInsurer
  <2>3. r.request \in created /\ r.insurer \in candidates[r.request]
    BY <1>t, <2>1 DEF ReplyStep, Replying, Unrivalled
  <2> QED
    BY <2>1, <2>2, <2>3, ReplyKeeps
<1>6. CASE MarkQuoted(r)
  <2>1. /\ pc'[r] = "commit" /\ pc[r] = "markQuoted" /\ locks' = locks \cup {lockQuoted(r)}
        /\ UNCHANGED <<created, candidates, quoted>>
    BY <1>6, <1>g DEF MarkQuoted
  <2>2. \A l : l = lockQuoted(r) => ReplyHolds(r, l)'
    BY <2>1 DEF ReplyHolds, lockQuoted
  <2>3. r.request \in created /\ r.insurer \in candidates[r.request]
    BY <1>t, <2>1 DEF ReplyStep, Replying, Unrivalled
  <2> QED
    BY <2>1, <2>2, <2>3, ReplyKeeps
<1>7. CASE CommitQuote(r)
  <2>1. created' = created /\ r.request \in created
    BY <1>7, <1>t, Quotes DEF IInv, CommitQuote, ReplyStep, Replying, Unrivalled
  <2> QED
    BY <1>7, <1>g, <2>1, ReplyEnds DEF CommitQuote
<1>8. CASE Fail(r)
  BY <1>8, <1>e DEF Fail
<1> QED
  BY <1>1, <1>2, <1>3, <1>4, <1>5, <1>6, <1>7, <1>8 DEF SubmitQuote

LEMMA ChangeEnds ==
  ASSUME NEW d \in Changes, pc'[d] = "done", locks' = Release(locks, d)
  PROVE  ChangeInv(d)' /\ ChangeOwns(d)'
<1>1. \A l \in locks' : l.txn # d
  BY DEF Release
<1> QED
  BY <1>1 DEF ChangeInv, ChangeStep, ChangeLocks, SeenStays, ChangeOwns

LEMMA OwnChange ==
  ASSUME IInv, NEW d \in Changes, ChangeInsurer(d) \/ Fail(d)
  PROVE  ChangeInv(d)' /\ ChangeOwns(d)'
<1>t. /\ TypeOK /\ d \in Txns /\ d.insurer \in Insurers
      /\ ChangeStep(d) /\ ChangeLocks(d) /\ SeenStays(d) /\ LocksOnly
      /\ seen \in [Replies \cup Changes -> {"SUBMITTED", "QUOTED", None} \cup InsurerStatus]
      /\ insurerStatus \in [Insurers -> InsurerStatus \cup {None}]
  BY SetUp DEF IInv, ChangeInv, TypeOK
<1>g. /\ \A l : goto(d, l) => pc'[d] = l
      /\ \A o : End(d, o) => pc'[d] = "done" /\ locks' = Release(locks, d)
      /\ \A l, next : Take(d, l, next) => pc'[d] = next /\ locks' = locks \cup {l}
  BY <1>t, Goes
<1>q. /\ UNCHANGED insurers => UNCHANGED insurerStatus
      /\ UNCHANGED reading => UNCHANGED seen
  BY DEF insurers, reading
<1>e. ASSUME \E o : End(d, o) PROVE ChangeInv(d)' /\ ChangeOwns(d)'
  BY <1>e, <1>g, ChangeEnds
<1>o. pc[d] # "update" => \A l \in locks : l.txn # d
  BY <1>t DEF LocksOnly, ChangeHolds
<1> USE <1>q
<1>1. CASE Change(d)
  <2>1. /\ pc'[d] = IF d.to = "CREATED" THEN "create" ELSE "insurer"
        /\ pc[d] = "idle" /\ UNCHANGED <<locks, seen, insurerStatus>>
    BY <1>1, <1>g DEF Change
  <2> QED
    BY <1>t, <1>o, <2>1 DEF ChangeInv, ChangeStep, ChangeLocks, SeenStays, ChangeOwns
<1>2. CASE InsertInsurer(d)
  <2>1. CASE \E o : End(d, o)
    BY <1>e, <2>1
  <2>2. CASE ~\E o : End(d, o)
    <3>1. /\ pc'[d] = "update" /\ pc[d] = "create" /\ UNCHANGED <<locks, seen, insurerStatus>>
          /\ insurerStatus[d.insurer] = None
      BY <1>2, <1>g, <2>2 DEF InsertInsurer
    <3> QED
      BY <1>t, <1>o, <3>1 DEF ChangeInv, ChangeStep, ChangeLocks, SeenStays, ChangeOwns
  <2> QED
    BY <2>1, <2>2
<1>3. CASE LockInsurer(d)
  <2>1. CASE \E o : End(d, o)
    BY <1>e, <2>1
  <2>2. CASE ~\E o : End(d, o)
    <3>1. /\ pc'[d] = "update" /\ pc[d] = "insurer" /\ locks' = locks \cup {lockInsurer(d)}
          /\ UNCHANGED insurerStatus /\ refusal(d, insurerStatus[d.insurer]) = "NONE"
          /\ seen' = [seen EXCEPT ![d] = insurerStatus[d.insurer]]
      BY <1>3, <1>g, <2>2 DEF LockInsurer
    <3>2. seen'[d] = insurerStatus[d.insurer]
      BY <1>t, <3>1
    <3>3. insurerStatus[d.insurer] # None
      BY <3>1 DEF refusal
    <3>4. ChangeStep(d)' /\ SeenStays(d)'
      BY <1>t, <3>1, <3>2, <3>3 DEF ChangeStep, SeenStays
    <3>5. \A l : l = lockInsurer(d) => ChangeHolds(d, l)' /\ l \in locks'
      BY <3>1 DEF ChangeHolds, lockInsurer
    <3>6. ChangeLocks(d)' /\ ChangeOwns(d)'
      BY <1>o, <3>1, <3>5 DEF ChangeLocks, ChangeOwns, lockInsurer
    <3> QED
      BY <3>4, <3>6 DEF ChangeInv
  <2> QED
    BY <2>1, <2>2
<1>4. CASE UpdateInsurer(d) \/ Fail(d)
  BY <1>4, <1>e DEF UpdateInsurer, Fail
<1> QED
  BY <1>1, <1>2, <1>3, <1>4 DEF ChangeInsurer

-----------------------------------------------------------------------------
(* THE INVARIANT IS KEPT.                                                  *)

LEMMA Each ==
  ASSUME IInv, NEW x \in Txns, Does(x)
  PROVE  /\ \A c \in Calls : CallInv(c)'
         /\ \A r \in Replies : ReplyInv(r)'
         /\ \A d \in Changes : ChangeInv(d)'
<1>1. /\ x \in Calls => SendRequest(x) \/ Fail(x)
      /\ x \in Replies => SubmitQuote(x) \/ Fail(x)
      /\ x \in Changes => ChangeInsurer(x) \/ Fail(x)
  BY SetUp DEF Does
<1>2. ASSUME NEW c \in Calls PROVE CallInv(c)'
  BY <1>1, OwnCall, OthersCall
<1>3. ASSUME NEW r \in Replies PROVE ReplyInv(r)'
  BY <1>1, OwnReply, OthersReply
<1>4. ASSUME NEW d \in Changes PROVE ChangeInv(d)'
  BY <1>1, OwnChange, OthersChange
<1> QED
  BY <1>2, <1>3, <1>4

LEMMA HoldsNoMore ==
  ASSUME IInv, NEW x \in Txns, Does(x)
  PROVE  LocksOnly'
<1>1. /\ x \in Calls => SendRequest(x) \/ Fail(x)
      /\ x \in Replies => SubmitQuote(x) \/ Fail(x)
      /\ x \in Changes => ChangeInsurer(x) \/ Fail(x)
  BY SetUp DEF Does
<1>2. ASSUME NEW l \in locks', l.txn = x
      PROVE  /\ x \in Calls => CallHolds(x, l)' 
             /\ x \in Replies => ReplyHolds(x, l)'
             /\ x \in Changes => ChangeHolds(x, l)'
  BY <1>1, <1>2, OwnCall, OwnReply, OwnChange DEF CallOwns, ReplyOwns, ChangeOwns
<1>3. ASSUME NEW l \in locks', l.txn # x
      PROVE  /\ l.txn \in Calls => CallHolds(l.txn, l)' 
             /\ l.txn \in Replies => ReplyHolds(l.txn, l)'
             /\ l.txn \in Changes => ChangeHolds(l.txn, l)'
  <2>1. l \in locks /\ ask' = ask /\ \A y \in Txns \ {x} : pc'[y] = pc[y]
    BY <1>3, Frame
  <2>2. /\ l.txn \in Calls => CallHolds(l.txn, l)
        /\ l.txn \in Replies => ReplyHolds(l.txn, l)
        /\ l.txn \in Changes => ChangeHolds(l.txn, l)
    BY <2>1 DEF IInv, LocksOnly
  <2>3. l.txn \in Calls => CallHolds(l.txn, l)'
    BY <1>3, <2>1, <2>2, SetUp DEF CallHolds, lockRequest, lockPolicy
  <2>4. l.txn \in Replies => ReplyHolds(l.txn, l)'
    BY <1>3, <2>1, <2>2, SetUp DEF ReplyHolds
  <2>5. l.txn \in Changes => ChangeHolds(l.txn, l)'
    BY <1>3, <2>1, <2>2, SetUp DEF ChangeHolds
  <2> QED
    BY <2>3, <2>4, <2>5
<1> QED
  BY <1>2, <1>3 DEF LocksOnly

LEMMA CreatesApart ==
  ASSUME IInv, NEW x \in Txns, Does(x)
  PROVE  OneCreating'
<1>1. ASSUME NEW d \in Changes, NEW e \in Changes, d # e, d.insurer = e.insurer,
             d.to = "CREATED", e.to = "CREATED", pc'[d] = "update", pc'[e] = "update", x = d
      PROVE  FALSE
  <2>1. pc[e] = "update" /\ e \in Txns
    BY <1>1, Frame, SetUp
  <2>2. pc[d] # "update"
    BY <1>1, <2>1 DEF IInv, OneCreating
  <2>3. ChangeInsurer(d) \/ Fail(d)
    BY <1>1, SetUp DEF Does
  <2>4. pc'[d] = "update" => InsertInsurer(d) \/ LockInsurer(d)
    <3>1. TypeOK /\ d \in Txns
      BY SetUp DEF IInv
    <3>2. Change(d) => pc'[d] # "update"
      BY <3>1, Goes DEF Change
    <3>3. UpdateInsurer(d) \/ Fail(d) => pc'[d] # "update"
      BY <3>1, Goes DEF UpdateInsurer, Fail
    <3> QED
      BY <2>3, <3>2, <3>3 DEF ChangeInsurer
  <2>5. ~LockInsurer(d)
    BY <1>1 DEF IInv, ChangeInv, ChangeStep, LockInsurer
  <2>6. creating(d) = {}
    BY <1>1, <2>4, <2>5 DEF InsertInsurer
  <2> QED
    BY <1>1, <2>1, <2>6 DEF creating
<1>2. ASSUME NEW d \in Changes, NEW e \in Changes, d # e, d.insurer = e.insurer,
             d.to = "CREATED", e.to = "CREATED", pc'[d] = "update", pc'[e] = "update",
             x # d, x # e
      PROVE  FALSE
  BY <1>2, Frame, SetUp DEF IInv, OneCreating
<1> QED
  BY <1>1, <1>2 DEF OneCreating

LEMMA StampsPast ==
  ASSUME IInv, NEW x \in Txns, Does(x)
  PROVE  Stamped'
<1>1. /\ stamp \in [Calls \cup Replies -> 0..MaxTime] /\ now \in 0..MaxTime /\ Stamped
      /\ now' = now
  BY Frame DEF IInv, TypeOK
<1>2. \/ stamp' = stamp
      \/ \E y \in Calls \cup Replies : \E at \in {now, stamp[y]} :
           stamp' = [stamp EXCEPT ![y] = at]
  <2>1. CASE x \in Calls /\ SendRequest(x)
    BY <2>1 DEF SendRequest, Submit, Requote, LockOriginal, CheckLinks, Renew, LockPolicy,
       CheckRenewals, FindEligible, ShareEligible, EndShare, Distribute, CommitRequest, reading
  <2>2. CASE x \in Replies /\ SubmitQuote(x)
    BY <2>2 DEF SubmitQuote, Reply, LockDelivery, CheckReply, InsertQuote, KeyInsurer,
       MarkQuoted, CommitQuote, reading
  <2>3. CASE x \in Changes /\ ChangeInsurer(x)
    BY <2>3 DEF ChangeInsurer, Change, InsertInsurer, LockInsurer, UpdateInsurer, reading
  <2>4. CASE Fail(x)
    BY <2>4 DEF Fail, reading
  <2> QED
    BY <2>1, <2>2, <2>3, <2>4 DEF Does
<1> QED
  BY <1>1, <1>2, SetUp DEF Stamped

(* A renewal that commits finds every other one of its policy expired.     *)
LEMMA RenewsOnce ==
  ASSUME IInv, NEW x \in Txns, Does(x)
  PROVE  OneOpenRenewal'
<1>t. /\ stamp \in [Calls \cup Replies -> 0..MaxTime] /\ now \in 0..MaxTime /\ Stamped
      /\ now' = now /\ ask' = ask
  BY Frame DEF IInv, TypeOK
<1>1. ASSUME NEW b \in created PROVE b \in Calls /\ isRequestOpen(b)' = isRequestOpen(b)
  <2>1. b \in Calls /\ pc[b] = "done"
    BY DEF IInv, CallInv, CallStep, created
  <2>2. b # x
    BY <2>1, NotDone
  <2>3. stamp'[b] = stamp[b]
    BY <2>1, <2>2, Frame
  <2> QED
    BY <1>t, <2>1, <2>3 DEF isRequestOpen, expiresAt
<1>2. ASSUME NEW p \in Policies, NEW b \in renewalsOf(p)', b \notin created,
             NEW a \in renewalsOf(p)', a # b
      PROVE  ~isRequestOpen(a)'
  <2>1. /\ b \in created' /\ a \in created' /\ ask[a].kind = "renew" /\ ask[a].of = p
        /\ ask[b].kind = "renew" /\ ask[b].of = p
    BY <1>t, <1>2 DEF renewalsOf
  <2>2. b = x /\ CommitRequest(b) /\ a \in created /\ b \in Calls
    BY <1>2, <2>1, Frame
  <2>3. expiresAt(a) <= stamp[b] /\ stamp[b] <= now
    BY <1>t, <2>1, <2>2 DEF IInv, CallInv, Checked, renewalsOf, CommitRequest, Sending, Stamped
  <2>4. expiresAt(a) \in Nat /\ stamp[b] \in Nat /\ now \in Nat
    BY <1>t, <1>1, <2>2, SetUp DEF expiresAt
  <2>5. ~isRequestOpen(a)
    BY <2>3, <2>4 DEF isRequestOpen
  <2> QED
    BY <1>1, <2>2, <2>5
<1>3. ASSUME NEW p \in Policies, NEW a \in renewalsOf(p)', NEW b \in renewalsOf(p)',
             isRequestOpen(a)', isRequestOpen(b)', a # b
      PROVE  FALSE
  <2>1. a \in created /\ b \in created
    BY <1>2, <1>3
  <2>2. isRequestOpen(a) /\ isRequestOpen(b)
    BY <1>1, <1>3, <2>1
  <2>3. a \in renewalsOf(p) /\ b \in renewalsOf(p)
    BY <1>t, <1>3, <2>1 DEF renewalsOf
  <2> QED
    BY <1>3, <2>2, <2>3 DEF IInv, OneOpenRenewal
<1> QED
  BY <1>3 DEF OneOpenRenewal

(* The unique indexes never fire: the rival was seen under the lock.       *)
LEMMA RefusedByName ==
  ASSUME IInv, NEW x \in Txns, Does(x)
  PROVE  RivalsRefusedByName'
<1>1. TypeOK /\ x \in Txns
  BY DEF IInv
<1>2. ASSUME outcome'[x] = "UNIQUE_VIOLATION" PROVE FALSE
  <2>1. outcome[x] # "UNIQUE_VIOLATION" /\ outcome \in [Txns -> Outcomes]
    BY <1>1 DEF IInv, RivalsRefusedByName, TypeOK, Outcomes
  <2>2. End(x, "UNIQUE_VIOLATION")
    <3>1. \A o : End(x, o) => outcome'[x] = o
      BY <2>1 DEF End
    <3>2. outcome' # outcome
      BY <1>2, <2>1
    <3>3. PICK o : End(x, o)
      BY <1>1, <3>2, StepMoves DEF Moves
    <3> QED
      BY <1>2, <3>1, <3>3
  <2>3. \A o : End(x, o) => o = "UNIQUE_VIOLATION"
    BY <1>2, <2>1 DEF End
  <2>4. \/ x \in Calls /\ Distribute(x) /\ rivalRequotes(x) # {}
        \/ x \in Replies /\ InsertQuote(x) /\ rivalQuotes(x) # {}
    <3>1. \A l, s : goto(x, l) /\ End(x, s) => l = "done"
      BY <1>1 DEF goto, End, TypeOK
    <3>2. \A l, next : Take(x, l, next) => next = "done"
      BY <1>1, <2>2 DEF Take, goto, End, TypeOK
    <3>3. \A s : refusal(x, s) # "UNIQUE_VIOLATION"
      BY DEF refusal
    <3>4. CASE x \in Calls /\ SendRequest(x)
      <4>1. Distribute(x)
        BY <2>2, <2>3, <3>1, <3>2, <3>4 DEF SendRequest, Submit, Requote, LockOriginal,
           CheckLinks, Renew, LockPolicy, CheckRenewals, FindEligible, ShareEligible, EndShare,
           CommitRequest
      <4> QED
        BY <2>2, <3>1, <3>4, <4>1 DEF Distribute
    <3>5. CASE x \in Replies /\ SubmitQuote(x)
      <4>1. InsertQuote(x)
        BY <2>2, <2>3, <3>1, <3>2, <3>5 DEF SubmitQuote, Reply, LockDelivery, CheckReply,
           KeyInsurer, MarkQuoted, CommitQuote
      <4> QED
        BY <2>2, <3>2, <3>5, <4>1 DEF InsertQuote
    <3>6. CASE x \in Changes /\ ChangeInsurer(x)
      <4>1. \A l : goto(x, l) => l = "done"
        BY <2>2, <3>1
      <4>2. ~Change(x)
        BY <4>1 DEF Change
      <4>3. ~InsertInsurer(x)
        BY <2>3, <4>1 DEF InsertInsurer
      <4>4. ~LockInsurer(x)
        BY <2>3, <3>2, <3>3 DEF LockInsurer
      <4>5. ~UpdateInsurer(x)
        BY <2>3 DEF UpdateInsurer
      <4> QED
        BY <3>6, <4>2, <4>3, <4>4, <4>5 DEF ChangeInsurer
    <3>7. CASE Fail(x)
      BY <2>3, <3>7 DEF Fail
    <3> QED
      BY <3>4, <3>5, <3>6, <3>7 DEF Does
  <2>5. CASE x \in Calls /\ Distribute(x) /\ rivalRequotes(x) # {}
    <3>1. PICK b \in rivalRequotes(x) : b \in created
      BY <2>5 DEF Distribute
    <3>2. b \in requoteLinks(ask[x].of) /\ ask[x].kind = "requote" /\ pc[x] = "distribute"
      BY <2>5, <3>1 DEF rivalRequotes, requoteLinks, Distribute
    <3> QED
      BY <2>5, <3>2 DEF IInv, CallInv, Checked, Sending
  <2>6. CASE x \in Replies /\ InsertQuote(x) /\ rivalQuotes(x) # {}
    BY <2>6 DEF IInv, ReplyInv, FirstReply, InsertQuote, Unrivalled
  <2> QED
    BY <2>4, <2>5, <2>6
<1> QED
  BY <1>2, Frame DEF IInv, RivalsRefusedByName

LEMMA AuditKept ==
  ASSUME IInv, NEW x \in Txns, Does(x)
  PROVE  AuditFollowsStatus'
<1>1. TypeOK /\ AuditFollowsStatus /\ TableTypes
  BY DEF IInv, TypeOK, TableTypes
<1>2. CASE x \in Changes /\ UpdateInsurer(x)
  <2>1. ASSUME NEW i \in Insurers, i # x.insurer
        PROVE  /\ \A k \in 2..Len(audited'[i]) : audited'[i][k].from = audited'[i][k-1].to
               /\ Len(audited'[i]) > 0 => audited'[i][Len(audited'[i])].to = insurerStatus'[i]
    <3>1. audited'[i] = audited[i] /\ insurerStatus'[i] = insurerStatus[i]
      BY <1>1, <1>2, <2>1, Updates DEF IInv
    <3> QED
      BY <1>1, <3>1 DEF AuditFollowsStatus
  <2>2. PICK i \in Insurers : i = x.insurer
    BY <1>2, SetUp
  <2>3. PICK n : n = Len(audited[i])
    OBVIOUS
  <2>4. /\ Len(audited'[i]) = n + 1 /\ n \in Nat
        /\ audited'[i][n + 1] = [from |-> seen[x], to |-> after(x)]
        /\ \A k \in 1..n : audited'[i][k] = audited[i][k]
        /\ insurerStatus'[i] = after(x) /\ pc[x] = "update"
    BY <1>1, <1>2, <2>2, <2>3, Updates DEF IInv
  <2>5. seen[x] = insurerStatus[i]
    BY <1>2, <2>2, <2>4 DEF IInv, ChangeInv, SeenStays
  <2>6. n > 0 => audited[i][n].to = insurerStatus[i]
    BY <1>1, <2>3 DEF AuditFollowsStatus
  <2>7. audited'[i][n + 1].from = seen[x] /\ audited'[i][n + 1].to = after(x)
    BY <2>4
  <2>8. ASSUME NEW k \in 2..(n + 1) PROVE audited'[i][k].from = audited'[i][k-1].to
    <3>1. CASE k = n + 1
      <4>1. n > 0 /\ k - 1 = n /\ n \in 1..n
        BY <2>4, <2>8, <3>1
      <4>2. audited'[i][k-1] = audited[i][n]
        BY <2>4, <4>1
      <4> QED
        BY <2>5, <2>6, <2>7, <3>1, <4>1, <4>2
    <3>2. CASE k # n + 1
      <4>1. k \in 2..n /\ k \in 1..n /\ k - 1 \in 1..n
        BY <2>4, <2>8, <3>2
      <4>2. audited[i][k].from = audited[i][k-1].to
        BY <1>1, <2>3, <4>1 DEF AuditFollowsStatus
      <4> QED
        BY <2>4, <4>1, <4>2
    <3> QED
      BY <3>1, <3>2
  <2>9. ASSUME NEW j \in Insurers
        PROVE  /\ \A k \in 2..Len(audited'[j]) : audited'[j][k].from = audited'[j][k-1].to
               /\ Len(audited'[j]) > 0 => audited'[j][Len(audited'[j])].to = insurerStatus'[j]
    BY <2>1, <2>2, <2>4, <2>7, <2>8
  <2> QED
    BY <2>9 DEF AuditFollowsStatus
<1>3. CASE ~(x \in Changes /\ UpdateInsurer(x))
  <2>1. UNCHANGED <<audited, insurerStatus>>
    BY <1>1, <1>3, OwnReads, Sends, Quotes, Stays DEF IInv, insurers
  <2> QED
    BY <1>1, <2>1 DEF AuditFollowsStatus
<1> QED
  BY <1>2, <1>3

LEMMA InitIInv == Init => IInv
<1> SUFFICES ASSUME Init PROVE IInv
  OBVIOUS
<1>1. \A x \in Txns : pc[x] \in {"idle", "done"}
  BY DEF Init
<1>2. created = {} /\ quoted = {} /\ locks = {}
  BY DEF Init, created
<1>3. now = 0 /\ 0 \in 0..MaxTime
  BY SetUp DEF Init
<1>4. TypeOK
  <2>1. /\ ReadingTypes /\ outcome \in [Txns -> Outcomes]
        /\ pc \in [Txns -> PcValues]
    BY <1>3, SetUp DEF Init, ReadingTypes, Outcomes, PcValues
  <2>2. <<>> \in Seq(TransitionType)
    OBVIOUS
  <2>3. PICK none \in Seq(TransitionType) : none = <<>>
    BY <2>2
  <2>4. history \in [Calls -> Seq(TransitionType)] /\ audited \in [Insurers -> Seq(TransitionType)]
    <3>1. history = [c \in Calls |-> none] /\ audited = [i \in Insurers |-> none]
      BY <2>3 DEF Init
    <3> QED
      BY <3>1
  <2>5. TableTypes
    BY <2>4, QuoteRequestsAssumption DEF Init, TableTypes, InsurerStatus
  <2> QED
    BY <1>2, <1>3, <2>1, <2>5 DEF TypeOK, TableTypes, ReadingTypes, Outcomes
<1>5. ASSUME NEW c \in Calls PROVE CallInv(c)
  <2>1. pc[c] \in {"idle", "done"}
    BY <1>1, SetUp
  <2> QED
    BY <1>2, <2>1 DEF CallInv, CallStep, CallLocks, Checked, Running, Sending, Choosing, Chosen
<1>6. ASSUME NEW r \in Replies PROVE ReplyInv(r)
  <2>1. pc[r] \in {"idle", "done"}
    BY <1>1, SetUp
  <2> QED
    BY <1>2, <2>1 DEF ReplyInv, ReplyStep, ReplyLocks, FirstReply, Replying, Unrivalled
<1>7. ASSUME NEW d \in Changes PROVE ChangeInv(d)
  <2>1. pc[d] \in {"idle", "done"} /\ seen[d] = None
    BY <1>1, SetUp DEF Init
  <2> QED
    BY <2>1 DEF ChangeInv, ChangeStep, ChangeLocks, SeenStays
<1>8. LocksOnly /\ LocksExclude
  BY <1>2 DEF LocksOnly, LocksExclude
<1>9. OneCreating
  BY <1>1, SetUp DEF OneCreating
<1>10. Stamped
  BY <1>3 DEF Init, Stamped
<1>11. OneOpenRenewal /\ RivalsRefusedByName
  BY <1>2 DEF Init, OneOpenRenewal, renewalsOf, RivalsRefusedByName
<1>12. AuditFollowsStatus
  <2>1. ASSUME NEW i \in Insurers PROVE Len(audited[i]) = 0
    BY DEF Init
  <2> QED
    BY <2>1 DEF AuditFollowsStatus
<1> QED
  BY <1>4, <1>5, <1>6, <1>7, <1>8, <1>9, <1>10, <1>11, <1>12 DEF IInv

(* The clock closes requests and opens none.                               *)
LEMMA TickKeeps == IInv /\ Tick => IInv'
<1> SUFFICES ASSUME IInv, Tick PROVE IInv'
  OBVIOUS
<1>1. /\ UNCHANGED <<pc, outcome, ask, stamp, day, candidates, seen, status, quoted, history,
                     insurerStatus, licenceExpiry, audited, locks>>
      /\ now' = now + 1 /\ now' \in 0..MaxTime /\ now \in 0..MaxTime
  BY SetUp DEF Tick, IInv, TypeOK, reading, requests, insurers
<1>2. TypeOK'
  BY <1>1 DEF IInv, TypeOK
<1>3. /\ \A c \in Calls : CallInv(c)' = CallInv(c)
      /\ \A r \in Replies : ReplyInv(r)' = ReplyInv(r)
      /\ \A d \in Changes : ChangeInv(d)' = ChangeInv(d)
  <2>1. created' = created /\ \A x, row, mode : HasLock(x, row, mode)' = HasLock(x, row, mode)
    BY <1>1 DEF created, HasLock
  <2>2. ASSUME NEW c \in Calls PROVE CallInv(c)' = CallInv(c)
    BY <1>1, <2>1 DEF CallInv, CallStep, CallLocks, Checked, requoteLinks, renewalsOf, expiresAt,
       eligible, lockRequest, lockPolicy
  <2>3. ASSUME NEW r \in Replies PROVE ReplyInv(r)' = ReplyInv(r)
    BY <1>1, <2>1 DEF ReplyInv, ReplyStep, ReplyLocks, FirstReply, rivalQuotes
  <2>4. ASSUME NEW d \in Changes PROVE ChangeInv(d)' = ChangeInv(d)
    BY <1>1, <2>1 DEF ChangeInv, ChangeStep, ChangeLocks, SeenStays
  <2> QED
    BY <2>2, <2>3, <2>4
<1>4. LocksOnly'
  <2>1. /\ \A c, l : CallHolds(c, l)' = CallHolds(c, l)
        /\ \A r, l : ReplyHolds(r, l)' = ReplyHolds(r, l)
        /\ \A d, l : ChangeHolds(d, l)' = ChangeHolds(d, l)
    BY <1>1 DEF CallHolds, ReplyHolds, ChangeHolds, lockRequest, lockPolicy
  <2> QED
    BY <1>1, <2>1 DEF IInv, LocksOnly
<1>5. LocksExclude' /\ OneCreating' /\ RivalsRefusedByName' /\ AuditFollowsStatus'
  BY <1>1 DEF IInv, LocksExclude, OneCreating, RivalsRefusedByName, AuditFollowsStatus
<1>6. Stamped'
  BY <1>1, SetUp DEF IInv, TypeOK, Stamped
<1>7. OneOpenRenewal'
  <2>1. \A p : renewalsOf(p)' = renewalsOf(p)
    BY <1>1 DEF renewalsOf, created
  <2>2. ASSUME NEW b \in created, isRequestOpen(b)' PROVE isRequestOpen(b)
    <3>1. stamp[b] \in 0..MaxTime /\ expiresAt(b)' = expiresAt(b)
      BY <1>1 DEF IInv, TypeOK, created, expiresAt
    <3>2. expiresAt(b) \in Nat
      BY <3>1, SetUp DEF expiresAt
    <3> QED
      BY <1>1, <2>2, <3>1, <3>2 DEF isRequestOpen
  <2>3. \A p : renewalsOf(p) \subseteq created
    BY DEF renewalsOf
  <2> QED
    BY <2>1, <2>2, <2>3 DEF IInv, OneOpenRenewal
<1> QED
  BY <1>2, <1>3, <1>4, <1>5, <1>6, <1>7 DEF IInv

LEMMA StepKeeps ==
  ASSUME IInv, NEW x \in Txns, Does(x)
  PROVE  IInv'
<1>1. LocksExclude'
  BY StepMoves, OthersWait DEF IInv
<1> QED
  BY <1>1, Types, Each, HoldsNoMore, CreatesApart, StampsPast, RenewsOnce, RefusedByName,
     AuditKept DEF IInv

LEMMA NextIInv == IInv /\ [Next]_vars => IInv'
<1> SUFFICES ASSUME IInv, [Next]_vars PROVE IInv'
  OBVIOUS
<1>1. CASE \E x \in Txns : Does(x)
  BY <1>1, StepKeeps
<1>2. CASE Tick
  BY <1>2, TickKeeps
<1>3. CASE UNCHANGED vars
  <2>1. UNCHANGED <<now, pc, outcome, ask, stamp, day, candidates, seen, status, quoted, history,
                    insurerStatus, licenceExpiry, audited, locks>>
    BY <1>3 DEF vars, reading, requests, insurers
  <2>2. created' = created /\ \A x, row, mode : HasLock(x, row, mode)' = HasLock(x, row, mode)
    BY <2>1 DEF created, HasLock
  <2>3. TypeOK'
    BY <2>1 DEF IInv, TypeOK
  <2>4. ASSUME NEW c \in Calls PROVE CallInv(c)'
    BY <2>1, <2>2 DEF IInv, CallInv, CallStep, CallLocks, Checked, requoteLinks, renewalsOf,
       expiresAt, eligible, lockRequest, lockPolicy
  <2>5. ASSUME NEW r \in Replies PROVE ReplyInv(r)'
    BY <2>1, <2>2 DEF IInv, ReplyInv, ReplyStep, ReplyLocks, FirstReply, rivalQuotes
  <2>6. ASSUME NEW d \in Changes PROVE ChangeInv(d)'
    BY <2>1, <2>2 DEF IInv, ChangeInv, ChangeStep, ChangeLocks, SeenStays
  <2>7. LocksOnly'
    BY <2>1 DEF IInv, LocksOnly, CallHolds, ReplyHolds, ChangeHolds, lockRequest, lockPolicy
  <2>8. LocksExclude' /\ OneCreating' /\ RivalsRefusedByName' /\ AuditFollowsStatus' /\ Stamped'
    BY <2>1 DEF IInv, LocksExclude, OneCreating, RivalsRefusedByName, AuditFollowsStatus, Stamped
  <2>9. OneOpenRenewal'
    BY <2>1, <2>2 DEF IInv, OneOpenRenewal, renewalsOf, isRequestOpen, expiresAt
  <2> QED
    BY <2>3, <2>4, <2>5, <2>6, <2>7, <2>8, <2>9 DEF IInv
<1> QED
  BY <1>1, <1>2, <1>3, SetUp DEF Next, Does

LEMMA Invariance == Spec => []IInv
  BY InitIInv, NextIInv, PTL DEF Spec

(* Every reachable state is well typed and only a transaction under way    *)
(* holds a lock.                                                           *)
THEOREM Typing == Spec => []TypeOK
<1>1. IInv => TypeOK
  BY DEF IInv
<1> QED
  BY <1>1, Invariance, PTL

(* Of calls that rival for one place one gets it and the others are told   *)
(* so by name: one open renewal of a policy, one requote of a request, one *)
(* quote of an insurer (quote-requests.service.ts, policies.service.ts,    *)
(* insurer-portal.service.ts).                                             *)
THEOREM Settling == Spec => []RivalsSettled
<1>1. IInv => RivalsSettled
  BY DEF IInv, RivalsSettled
<1> QED
  BY <1>1, Invariance, PTL

(* The audit log of an insurer's status is the history of that status      *)
(* (insurers.service.ts).                                                  *)
THEOREM Auditing == Spec => []AuditFollowsStatus
<1>1. IInv => AuditFollowsStatus
  BY DEF IInv
<1> QED
  BY <1>1, Invariance, PTL

-----------------------------------------------------------------------------
(* NO DEADLOCK.  Who waits, waits for somebody nearer to its end.          *)

rank(x) ==
  CASE pc[x] = "delivery"                                                        -> 1
    [] pc[x] \in {"insertQuote", "original", "policy", "insurer"}                -> 2
    [] pc[x] \in {"share", "distribute", "keyInsurer", "markQuoted", "create"}   -> 3
    [] OTHER                                                                     -> 4

LEMMA Ranks ==
  ASSUME NEW x
  PROVE  /\ rank(x) \in 1..4
         /\ pc[x] = "delivery" => rank(x) = 1
         /\ pc[x] \in {"insertQuote", "original", "policy", "insurer"} => rank(x) = 2
         /\ pc[x] \in {"share", "distribute", "keyInsurer", "markQuoted", "create"} => rank(x) = 3
         /\ pc[x] \in {"links", "renewals", "eligible", "check", "commit", "update"} => rank(x) = 4
BY DEF rank

(* Who has a row: the lock says where its holder stands.                   *)
LEMMA Holders ==
  ASSUME IInv, NEW l \in locks
  PROVE  /\ l.txn \in Txns
         /\ \A c : l.row = requestRow(c) =>
              \/ /\ l.txn \in Calls /\ l = lockRequest(l.txn) /\ l.mode = ForUpdate
                 /\ pc[l.txn] \in Sending \cup {"links"}
              \/ l.txn \in Replies /\ l.mode = KeyShare /\ pc[l.txn] \in Unrivalled \ {"insertQuote"}
              \/ l.txn \in Replies /\ l.mode = NoKeyUpdate /\ pc[l.txn] = "commit"
         /\ \A p : l.row = policyRow(p) => pc[l.txn] \in Sending \cup {"renewals"}
         /\ \A i : l.row = insurerRow(i) =>
              \/ l.txn \in Calls /\ l.mode = ForShare /\ pc[l.txn] \in Choosing
              \/ l.txn \in Replies /\ l.mode = KeyShare /\ pc[l.txn] \in {"markQuoted", "commit"}
              \/ l.txn \in Changes /\ pc[l.txn] = "update"
         /\ \A c, i : l.row = deliveryRow(c, i) => pc[l.txn] \in Unrivalled \cup {"check"}
<1>1. l.txn \in Txns /\ LocksOnly
  BY DEF IInv, TypeOK
<1>2. CASE l.txn \in Calls
  <2>0. PICK c : c = l.txn
    OBVIOUS
  <2>1. CallHolds(c, l)
    BY <1>1, <1>2, <2>0 DEF LocksOnly
  <2>2. CASE l = lockRequest(c) /\ pc[c] \in Sending \cup {"links"}
    <3>1. l.row = requestRow(ask[c].of) /\ l.mode = ForUpdate
      BY <2>2, LockFields DEF lockRequest
    <3> QED
      BY <1>1, <1>2, <2>0, <2>2, <3>1, Rows
  <2>3. CASE l = lockPolicy(c) /\ pc[c] \in Sending \cup {"renewals"}
    <3>1. l.row = policyRow(ask[c].of)
      BY <2>3, LockFields DEF lockPolicy
    <3> QED
      BY <1>1, <2>0, <2>3, <3>1, Rows
  <2>4. CASE (\E i : l = Lock(c, insurerRow(i), ForShare)) /\ pc[c] \in Choosing
    <3>1. PICK i : l = Lock(c, insurerRow(i), ForShare)
      BY <2>4
    <3>2. l.row = insurerRow(i) /\ l.mode = ForShare
      BY <3>1, LockFields
    <3> QED
      BY <1>1, <1>2, <2>0, <2>4, <3>2, Rows
  <2> QED
    BY <2>1, <2>2, <2>3, <2>4 DEF CallHolds
<1>3. CASE l.txn \in Replies
  <2>0. PICK r : r = l.txn
    OBVIOUS
  <2>1. ReplyHolds(r, l)
    BY <1>1, <1>3, <2>0 DEF LocksOnly
  <2>2. CASE l = lockDelivery(r) /\ pc[r] \in Unrivalled \cup {"check"}
    <3>1. l.row = deliveryRow(r.request, r.insurer)
      BY <2>2, LockFields DEF lockDelivery
    <3> QED
      BY <1>1, <2>0, <2>2, <3>1, Rows
  <2>3. CASE l = keyRequest(r) /\ pc[r] \in Unrivalled \ {"insertQuote"}
    <3>1. l.row = requestRow(r.request) /\ l.mode = KeyShare
      BY <2>3, LockFields DEF keyRequest
    <3> QED
      BY <1>1, <1>3, <2>0, <2>3, <3>1, Rows
  <2>4. CASE l = keyInsurer(r) /\ pc[r] \in {"markQuoted", "commit"}
    <3>1. l.row = insurerRow(r.insurer) /\ l.mode = KeyShare
      BY <2>4, LockFields DEF keyInsurer
    <3> QED
      BY <1>1, <1>3, <2>0, <2>4, <3>1, Rows
  <2>5. CASE l = lockQuoted(r) /\ pc[r] = "commit"
    <3>1. l.row = requestRow(r.request) /\ l.mode = NoKeyUpdate
      BY <2>5, LockFields DEF lockQuoted
    <3> QED
      BY <1>1, <1>3, <2>0, <2>5, <3>1, Rows
  <2> QED
    BY <2>1, <2>2, <2>3, <2>4, <2>5 DEF ReplyHolds
<1>4. CASE l.txn \in Changes
  <2>0. PICK d : d = l.txn
    OBVIOUS
  <2>1. l = lockInsurer(d) /\ pc[d] = "update"
    BY <1>1, <1>4, <2>0 DEF LocksOnly, ChangeHolds
  <2>2. l.row = insurerRow(d.insurer)
    BY <2>1, LockFields DEF lockInsurer
  <2> QED
    BY <1>1, <1>4, <2>0, <2>1, <2>2, Rows
<1> QED
  BY <1>1, <1>2, <1>3, <1>4, SetUp

(* A reply that holds the request's key keeps every requote of it out.     *)
LEMMA KeyKeepsOut ==
  ASSUME IInv, NEW r \in Replies, pc[r] = "markQuoted", NEW c \in Calls,
         lockRequest(c) \in locks, ask[c].of = r.request
  PROVE  FALSE
<1>1. keyRequest(r) \in locks /\ LocksExclude
  BY DEF IInv, ReplyInv, ReplyLocks, Unrivalled
<1>2. c # r
  BY SetUp
<1> QED
  BY <1>1, <1>2, Apart, Conflicts DEF keyRequest, lockRequest

LEMMA Ahead ==
  ASSUME IInv, NEW x \in Txns, pc[x] \notin {"idle", "done"}, NEW y \in blockers(x)
  PROVE  rank(y) > rank(x)
<1>s. /\ x \in Calls => pc[x] \in Running
      /\ x \in Replies => pc[x] \in Replying
      /\ x \in Changes => pc[x] \in {"create", "insurer", "update"}
  BY DEF IInv, CallInv, CallStep, ReplyInv, ReplyStep, ChangeInv, ChangeStep
<1> USE Ranks DEF Sending, Choosing, Chosen, Running, Unrivalled, Replying
<1>1. CASE \E l \in locks : /\ l.txn = y /\ l.txn # x
                            /\ \E w \in wanted(x) : l.row = w.row /\ Conflict(l.mode, w.mode)
  <2>1. PICK l \in locks : /\ l.txn = y /\ l.txn # x
                           /\ \E w \in wanted(x) : l.row = w.row /\ Conflict(l.mode, w.mode)
    BY <1>1
  <2>2. PICK w \in wanted(x) : l.row = w.row /\ Conflict(l.mode, w.mode)
    BY <2>1
  <2>3. CASE pc[x] = "original"
    <3>1. w = lockRequest(x)
      BY <2>2, <2>3 DEF wanted
    <3>2. l.row = requestRow(ask[x].of)
      BY <2>2, <3>1, LockFields DEF lockRequest
    <3> QED
      BY <2>1, <2>3, <3>2, Holders
  <2>4. CASE pc[x] = "policy"
    <3>1. w = lockPolicy(x)
      BY <2>2, <2>4 DEF wanted
    <3>2. l.row = policyRow(ask[x].of)
      BY <2>2, <3>1, LockFields DEF lockPolicy
    <3> QED
      BY <2>1, <2>4, <3>2, Holders
  <2>5. CASE pc[x] = "share"
    <3>1. w = Lock(x, insurerRow(nextUnshared(x)), ForShare)
      BY <2>2, <2>5 DEF wanted, lockEligible
    <3>2. l.row = insurerRow(nextUnshared(x)) /\ Conflict(l.mode, ForShare)
      BY <2>2, <3>1, LockFields
    <3>3. pc[y] = "update"
      BY <2>1, <3>2, Holders, Compatible
    <3> QED
      BY <2>5, <3>3
  <2>6. CASE pc[x] = "delivery"
    <3>1. w = lockDelivery(x)
      BY <2>2, <2>6 DEF wanted
    <3>2. l.row = deliveryRow(x.request, x.insurer)
      BY <2>2, <3>1, LockFields DEF lockDelivery
    <3> QED
      BY <2>1, <2>6, <3>2, Holders
  <2>7. CASE pc[x] = "insertQuote"
    <3>1. w = keyRequest(x)
      BY <2>2, <2>7 DEF wanted
    <3>2. l.row = requestRow(x.request)
      BY <2>2, <3>1, LockFields DEF keyRequest
    <3> QED
      BY <2>1, <2>7, <3>2, Holders
  <2>8. CASE pc[x] = "keyInsurer"
    <3>1. w = keyInsurer(x)
      BY <2>2, <2>8 DEF wanted
    <3>2. l.row = insurerRow(x.insurer) /\ Conflict(l.mode, KeyShare)
      BY <2>2, <3>1, LockFields DEF keyInsurer
    <3>3. pc[y] = "update"
      BY <2>1, <3>2, Holders, Compatible
    <3> QED
      BY <2>8, <3>3
  <2>9. CASE pc[x] = "markQuoted"
    <3>1. w = lockQuoted(x) /\ x \in Replies
      BY <1>s, <2>2, <2>9, SetUp DEF wanted
    <3>2. l.row = requestRow(x.request) /\ Conflict(l.mode, NoKeyUpdate)
      BY <2>2, <3>1, LockFields DEF lockQuoted
    <3>3. ~(y \in Calls /\ l = lockRequest(y))
      <4>1. ASSUME y \in Calls, l = lockRequest(y) PROVE ask[y].of = x.request
        <5>1. l.row = requestRow(ask[y].of)
          BY <4>1, LockFields DEF lockRequest
        <5> QED
          BY <3>2, <5>1, Rows
      <4> QED
        BY <2>9, <3>1, <4>1, KeyKeepsOut
    <3>4. pc[y] = "commit"
      BY <2>1, <3>2, <3>3, Holders, Compatible
    <3> QED
      BY <2>9, <3>4
  <2>10. CASE pc[x] = "insurer"
    <3>1. w = lockInsurer(x)
      BY <2>2, <2>10 DEF wanted
    <3>2. l.row = insurerRow(x.insurer)
      BY <2>2, <3>1, LockFields DEF lockInsurer
    <3> QED
      BY <2>1, <2>10, <3>2, Holders
  <2>11. CASE pc[x] \notin {"original", "policy", "share", "delivery", "insertQuote", "keyInsurer",
                            "markQuoted", "insurer"}
    BY <2>2, <2>11 DEF wanted
  <2> QED
    BY <2>3, <2>4, <2>5, <2>6, <2>7, <2>8, <2>9, <2>10, <2>11
<1>2. CASE pc[x] = "insertQuote" /\ y \in rivalQuotes(x) \ quoted
  BY <1>2 DEF rivalQuotes
<1>3. CASE pc[x] = "create" /\ y \in creating(x)
  BY <1>3 DEF creating
<1>4. CASE pc[x] = "distribute" /\ y \in rivalRequotes(x) \ created
  BY <1>4 DEF rivalRequotes
<1> QED
  BY <1>1, <1>2, <1>3, <1>4 DEF blockers

(* In any group of waiting transactions, of any size, one can go on        *)
(* without the others: replies, requotes, renewals and changes of insurers *)
(* lock in an order that goes one way.                                     *)
THEOREM NeverStuck == Spec => []NoDeadlock
<1>1. IInv => NoDeadlock
  <2> SUFFICES ASSUME IInv, NEW S \in SUBSET {x \in Txns : pc[x] \notin {"idle", "done"}}, S # {}
               PROVE  \E x \in S : blockers(x) \cap S = {}
    BY DEF NoDeadlock
  <2>1. \A x, y \in S : y \in blockers(x) => rank(y) > rank(x)
    BY Ahead
  <2>2. \A x \in S : rank(x) \in 1..4
    BY Ranks
  <2>3. \E x \in S : \A y \in S : ~(rank(y) > rank(x))
    <3>1. CASE \E x \in S : rank(x) = 4
      BY <2>2, <3>1
    <3>2. CASE (\A x \in S : rank(x) # 4) /\ \E x \in S : rank(x) = 3
      BY <2>2, <3>2
    <3>3. CASE (\A x \in S : rank(x) \notin {3, 4}) /\ \E x \in S : rank(x) = 2
      BY <2>2, <3>3
    <3>4. CASE \A x \in S : rank(x) \notin {2, 3, 4}
      BY <2>2, <3>4
    <3> QED
      BY <3>1, <3>2, <3>3, <3>4
  <2> QED
    BY <2>1, <2>3
<1> QED
  BY <1>1, Invariance, PTL

-----------------------------------------------------------------------------
(* THE MARKETPLACE.  The state of Market these transactions stand for.     *)

Accepting == {i \in Insurers : insurerStatus[i] = "ACTIVE"}
SentTo    == [c \in Calls |-> IF c \in created THEN candidates[c] ELSE {}]
SentOn    == [c \in Calls |-> IF c \in created THEN day[c] ELSE None]
TheOne(S) == IF S = {} THEN None ELSE CHOOSE c \in S : TRUE
Again     == [o \in Calls |-> TheOne(requoteLinks(o))]

LEMMA MarketInit == Init => Promise!Init
<1> SUFFICES ASSUME Init PROVE Promise!Init
  OBVIOUS
<1>1. created = {} /\ \A o : requoteLinks(o) = {}
  BY DEF Init, created, requoteLinks
<1>2. licenceExpiry \in [Insurers -> Nat] /\ quoted = {}
  BY QuoteRequestsAssumption DEF Init
<1> QED
  BY <1>1, <1>2 DEF Promise!Init

(* A request that commits is distributed to insurers that accept requests  *)
(* and have a licence; that was found under locks it still holds.          *)
LEMMA Distributes ==
  ASSUME IInv, NEW c \in Calls, CommitRequest(c)
  PROVE  Promise!Next
<1>t. TypeOK /\ CallInv(c)
  BY DEF IInv
<1>1. /\ created' = created \cup {c} /\ c \notin created /\ pc[c] = "commit"
      /\ UNCHANGED <<ask, candidates, day, quoted, insurerStatus, licenceExpiry>>
  BY <1>t, Sends DEF CommitRequest, reading, insurers
<1>2. /\ candidates[c] # {} /\ candidates[c] \subseteq Insurers /\ day[c] \in 0..MaxTime
      /\ \A i \in candidates[c] : eligible(i, day[c])
  BY <1>t, <1>1 DEF CallInv, CallStep, CallLocks, Checked, Chosen, Choosing, Running, Sending, TypeOK
<1>3. PICK S, d : S = candidates[c] /\ d = day[c]
  OBVIOUS
<1>4. /\ SentTo[c] = {} /\ SentTo' = [SentTo EXCEPT ![c] = S] /\ SentOn' = [SentOn EXCEPT ![c] = d]
      /\ Accepting' = Accepting /\ licenceExpiry' = licenceExpiry /\ quoted' = quoted
      /\ S # {} /\ S \subseteq Accepting /\ \A i \in S : licenceExpiry[i] >= d
  BY <1>1, <1>2, <1>3 DEF SentTo, SentOn, Accepting, eligible
<1>5. Promise!Distribute(c, S, d)
  BY <1>4 DEF Promise!Distribute, SentTo, SentOn, Accepting
<1>6. S \in SUBSET Insurers /\ d \in 0..MaxTime
  BY <1>2, <1>3
<1>7. CASE ask[c].kind = "requote"
  <2>1. PICK o : o = ask[c].of
    OBVIOUS
  <2>2. /\ o \in created /\ o \in Calls /\ requoteLinks(o) = {}
    BY <1>t, <1>1, <1>7, <2>1 DEF CallInv, CallStep, Checked, Running, Sending, created
  <2>3. requoteLinks(o)' = {c}
    BY <1>1, <1>7, <2>1, <2>2 DEF requoteLinks
  <2>4. TheOne({c}) = c /\ TheOne({}) = None
    BY DEF TheOne
  <2>5. \A q \in Calls \ {o} : requoteLinks(q)' = requoteLinks(q)
    BY <1>1, <2>1 DEF requoteLinks
  <2>6. Again[o] = None /\ Again' = [Again EXCEPT ![o] = c]
    BY <1>1, <2>2, <2>3, <2>4, <2>5 DEF Again
  <2>7. SentTo[o] # {}
    BY <2>2 DEF SentTo, IInv, CallInv, CallStep
  <2>8. Promise!SendAgain(o, c, S, d)
    BY <1>5, <2>6, <2>7 DEF Promise!SendAgain, SentTo, Again, TheOne
  <2> QED
    BY <1>6, <2>2, <2>8 DEF Promise!Next
<1>8. CASE ask[c].kind # "requote"
  <2>1. \A q : requoteLinks(q)' = requoteLinks(q)
    BY <1>1, <1>8 DEF requoteLinks
  <2>2. Again' = Again
    BY <2>1 DEF Again
  <2>3. Promise!Submit(c, S, d)
    BY <1>5, <2>2 DEF Promise!Submit, Again, TheOne
  <2> QED
    BY <1>6, <2>3 DEF Promise!Next
<1> QED
  BY <1>7, <1>8

LEMMA Answers ==
  ASSUME IInv, NEW r \in Replies, CommitQuote(r)
  PROVE  Promise!Next
<1>1. /\ created' = created /\ quoted' = quoted \cup {r} /\ r \notin quoted /\ pc[r] = "commit"
      /\ UNCHANGED <<ask, candidates, day, insurerStatus, licenceExpiry>>
  BY Quotes DEF IInv, CommitQuote, reading, insurers
<1>2. /\ r.request \in created /\ r.request \in Calls /\ r.insurer \in candidates[r.request]
      /\ rivalQuotes(r) \cap quoted = {} /\ quoted \subseteq Replies
  BY <1>1, SetUp DEF IInv, ReplyInv, ReplyStep, FirstReply, Replying, Unrivalled, TypeOK
<1>3. r.insurer \in SentTo[r.request]
  BY <1>2 DEF SentTo
<1>4. \A b \in quoted : ~(b.request = r.request /\ b.insurer = r.insurer)
  BY <1>1, <1>2 DEF rivalQuotes
<1>5. /\ Accepting' = Accepting /\ SentTo' = SentTo /\ SentOn' = SentOn /\ Again' = Again
  BY <1>1 DEF Accepting, SentTo, SentOn, Again, requoteLinks
<1>6. Promise!Answer(r)
  BY <1>1, <1>3, <1>4, <1>5 DEF Promise!Answer, Accepting, SentTo, SentOn, Again, TheOne
<1> QED
  BY <1>6 DEF Promise!Next

LEMMA Admits ==
  ASSUME IInv, NEW d \in Changes, UpdateInsurer(d)
  PROVE  Promise!Next
<1>1. /\ TypeOK' /\ created' = created
      /\ UNCHANGED <<ask, candidates, day, quoted>>
  BY Types, Updates, SetUp DEF IInv, UpdateInsurer, reading, requests, Does, ChangeInsurer
<1>2. Accepting' \in SUBSET Insurers /\ licenceExpiry' \in [Insurers -> Nat]
  BY <1>1 DEF Accepting, TypeOK
<1>3. /\ SentTo' = SentTo /\ SentOn' = SentOn /\ Again' = Again
  BY <1>1 DEF SentTo, SentOn, Again, requoteLinks
<1>4. Promise!Admit
  BY <1>1, <1>2, <1>3 DEF Promise!Admit, Accepting, SentTo, SentOn, Again, TheOne
<1> QED
  BY <1>4 DEF Promise!Next

LEMMA Stutters ==
  ASSUME IInv, UNCHANGED <<status, quoted, insurerStatus, licenceExpiry, ask>>,
         \A c \in created : candidates'[c] = candidates[c] /\ day'[c] = day[c]
  PROVE  UNCHANGED Promise!vars
<1>1. created' = created /\ \A o : requoteLinks(o)' = requoteLinks(o)
  BY DEF created, requoteLinks
<1>2. /\ Accepting' = Accepting /\ SentTo' = SentTo /\ SentOn' = SentOn /\ Again' = Again
  BY <1>1 DEF Accepting, SentTo, SentOn, Again
<1> QED
  BY <1>2 DEF Promise!vars, Accepting, SentTo, SentOn, Again, TheOne

LEMMA StepMarket == IInv /\ [Next]_vars => [Promise!Next]_(Promise!vars)
<1> SUFFICES ASSUME IInv, [Next]_vars PROVE [Promise!Next]_(Promise!vars)
  OBVIOUS
<1>1. ASSUME NEW x \in Txns, Does(x) PROVE [Promise!Next]_(Promise!vars)
  <2>1. ASSUME NEW c \in created
        PROVE  candidates'[c] = candidates[c] /\ day'[c] = day[c]
    <3>1. c \in Calls /\ pc[c] = "done"
      BY <2>1 DEF IInv, CallInv, CallStep, created
    <3>2. c # x
      BY <1>1, <3>1, NotDone
    <3> QED
      BY <1>1, <3>1, <3>2, Frame
  <2>2. CASE UNCHANGED <<requests, insurers>>
    <3>1. UNCHANGED <<status, quoted, insurerStatus, licenceExpiry, ask>>
      BY <1>1, <2>2, Frame DEF requests, insurers
    <3> QED
      BY <2>1, <3>1, Stutters
  <2>3. TypeOK
    BY DEF IInv
  <2> QED
    BY <1>1, <2>2, <2>3, OwnReads, Distributes, Answers, Admits
<1>2. CASE Tick
  <2>1. /\ UNCHANGED <<status, quoted, insurerStatus, licenceExpiry, ask, candidates, day>>
    BY <1>2 DEF Tick, reading, requests, insurers
  <2> QED
    BY <2>1, Stutters
<1>3. CASE UNCHANGED vars
  <2>1. /\ UNCHANGED <<status, quoted, insurerStatus, licenceExpiry, ask, candidates, day>>
    BY <1>3 DEF vars, reading, requests, insurers
  <2> QED
    BY <2>1, Stutters
<1> QED
  BY <1>1, <1>2, <1>3, SetUp DEF Next, Does

(* Statement by statement, the API implements the marketplace: a request   *)
(* goes out once, to insurers that accept requests and have a licence when *)
(* it does; each answers once; it is sent again once.                      *)
THEOREM Refinement == Spec => ImplementsMarket
<1>1. IInv /\ [Next]_vars => [Promise!Next]_(Promise!vars)
  BY StepMarket
<1> QED
  BY <1>1, MarketInit, Invariance, PTL DEF Spec, ImplementsMarket, Promise!Spec

=============================================================================
