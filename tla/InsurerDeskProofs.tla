-------------------------- MODULE InsurerDeskProofs -------------------------
(***************************************************************************)
(* Proofs about InsurerDesk, for any number of calls, clerks, claims,      *)
(* applications, codes and rates.                                          *)
(***************************************************************************)
EXTENDS InsurerDesk, FiniteSetTheorems, TLAPS

-----------------------------------------------------------------------------
(* TYPES.                                                                  *)

(* What the statement a call is at says of what it was asked.              *)
LEMMA Kinds ==
  ASSUME CallTypes, NEW c \in Calls
  PROVE  /\ ask[c].kind \in {"acknowledge", "decide", "apply", "deactivate", "rate"}
         /\ pc[c] \in {"receive", "commitReceipt", "readReceipt"} => ask[c].kind = "acknowledge"
         /\ pc[c] \in {"lockApplication", "drawCode", "decide", "commitDecision"} =>
              ask[c].kind = "decide"
         /\ pc[c] \in {"shareInsurer", "commitApplication"} => ask[c].kind = "apply"
         /\ pc[c] \in {"lockInsurer", "commitStatus"} => ask[c].kind = "deactivate"
         /\ pc[c] \in {"lockRate", "saveRate", "commitRate"} => ask[c].kind = "rate"
         /\ ask[c].kind = "acknowledge" => ask[c].record \in Claims
         /\ ask[c].kind = "decide" => ask[c].record \in Applications /\ ask[c].choice \in Decisions
         /\ ask[c].kind = "apply" => ask[c].record \in Late /\ ask[c].record \in Applications
         /\ ask[c].kind = "rate" => ask[c].choice \in Rates
         /\ ask[c].choice \in Results
         /\ ask[c].who \in Clerks => ask[c].record \in Ours
<1>1. ask[c] \in Asks
  BY DEF CallTypes
<1>2. /\ ask[c].kind \in {"acknowledge", "decide", "apply", "deactivate", "rate"}
      /\ ask[c].kind = "acknowledge" => ask[c].record \in Claims
      /\ ask[c].kind = "decide" => ask[c].record \in Applications /\ ask[c].choice \in Decisions
      /\ ask[c].kind = "apply" => ask[c].record \in Late /\ ask[c].record \in Applications
      /\ ask[c].kind = "rate" => ask[c].choice \in Rates
      /\ ask[c].who \in Clerks => ask[c].record \in Ours
  BY <1>1, DeskAssumption
<1>3. ask[c].choice \in Results
  BY <1>1 DEF Results
<1>4. pc[c] \in {"idle", "done"} \cup StepsOf[ask[c].kind]
  BY DEF CallTypes
<1> QED
  BY <1>2, <1>3, <1>4 DEF StepsOf

LEMMA SetUp ==
  /\ Ours \subseteq Records /\ Claims \subseteq Records /\ Applications \subseteq Records
  /\ Claims \cap Applications = {} /\ Late \subseteq Applications
  /\ Issued \subseteq Codes /\ NCD_CODE_ATTEMPTS \in Nat \ {0} /\ MaxMishaps \in Nat
  /\ None \notin Codes /\ None \notin Rates
  /\ None \notin {"NOTIFIED", "RECEIVED_BY_INSURER", "SUBMITTED", "UNDER_REVIEW", "APPROVED",
                  "REJECTED"}
  /\ None \in Results /\ Codes \subseteq Results
  /\ Patient \subseteq Clerks
  /\ \A c \in Clerks : c \notin Others
BY DeskAssumption DEF Records, Reached, Decisions, Results

(* The transaction of a call ends.                                         *)
LEMMA EndTypes ==
  ASSUME CallTypes, NEW c \in Calls, NEW told \in {"saved", "NOT_FOUND", "ALREADY_DECIDED", "INTERNAL"},
         NEW result \in Results, End(c, told, result)
  PROVE  CallTypes'
BY DEF CallTypes, End, goto, Release

LEMMA Modes == {ForUpdate, NoKeyUpdate, ForShare} \subseteq LockModes
BY DEF LockModes

(* A call goes on to its next statement, perhaps with a lock more.         *)
OneLockMore(c) ==
  locks' = locks \/ \E row : \E mode \in {ForUpdate, NoKeyUpdate, ForShare} : Take(c, row, mode)

FoundTypes ==
  /\ found \in [Calls -> [status : Statuses \cup Rates, code : Codes \cup {None}, draws : Nat]]
  /\ \A c \in Calls :
       /\ found[c].draws < NCD_CODE_ATTEMPTS
       /\ found[c].status \in IF ask[c].kind = "rate" THEN Rates \cup {None} ELSE Statuses

LEMMA GoesOn ==
  ASSUME CallTypes, NEW c \in Calls, NEW l \in StepsOf[ask[c].kind], pc[c] # "done", goto(c, l),
         UNCHANGED <<ask, outcome>>, FoundTypes', OneLockMore(c)
  PROVE  CallTypes'
<1>0. l \notin {"idle", "done"}
  BY Kinds DEF StepsOf
<1>1. /\ ask' \in [Calls -> Asks]
      /\ pc' \in [Calls -> {"idle", "done"} \cup UNION {StepsOf[k] : k \in DOMAIN StepsOf}]
      /\ pc'[c] = l /\ \A b \in Calls \ {c} : pc'[b] = pc[b]
  BY Kinds DEF CallTypes, goto, StepsOf
<1>2. \A b \in Calls : pc'[b] \in {"idle", "done"} \cup StepsOf[ask'[b].kind]
  BY <1>1 DEF CallTypes
<1>3. \A b \in Calls : outcome'[b].told = "NONE" <=> pc'[b] # "done"
  BY <1>0, <1>1 DEF CallTypes
<1>4. \A m \in locks' : m \in locks \/ (m.mode \in LockModes /\ m.txn = c)
  BY Modes DEF OneLockMore, Take, Lock
<1>5. \A m \in locks' : m.mode \in LockModes /\ m.txn \in Calls /\ pc'[m.txn] \notin {"idle", "done"}
  BY <1>0, <1>1, <1>4 DEF CallTypes
<1> QED
  BY <1>1, <1>2, <1>3, <1>5 DEF CallTypes, FoundTypes

(* A record gets its next status.                                          *)
LEMMA MoveTypes ==
  ASSUME RecordTypes, NEW r \in Records, NEW from \in Statuses, NEW to \in Statuses,
         NEW result \in Results, move(r, from, to, result)
  PROVE  /\ rows' \in [Records -> [status : Statuses, result : Results]]
         /\ history' \in [Records -> Seq(Statuses \X Statuses)]
<1>1. rows' \in [Records -> [status : Statuses, result : Results]]
  BY DEF move, RecordTypes
<1>2. PICK T : T = Statuses \X Statuses
  OBVIOUS
<1>3. PICK t \in T : t = <<from, to>>
  BY <1>2
<1>4. history' = [history EXCEPT ![r] = Append(history[r], t)]
  BY <1>3 DEF move
<1>5. history \in [Records -> Seq(T)]
  BY <1>2 DEF RecordTypes
<1>6. Append(history[r], t) \in Seq(T)
  BY <1>5
<1> QED
  BY <1>1, <1>2, <1>4, <1>5, <1>6

(* What a call has found changes.                                          *)
LEMMA FindTypes ==
  ASSUME CallTypes, NEW c \in Calls, NEW s, NEW k \in Codes \cup {None}, NEW n \in Nat,
         ask[c].kind = "rate" => s \in Rates \cup {None}, ask[c].kind # "rate" => s \in Statuses,
         n < NCD_CODE_ATTEMPTS,
         found' = [found EXCEPT ![c] = [status |-> s, code |-> k, draws |-> n]], UNCHANGED ask
  PROVE  FoundTypes'
<1>1. None \in Statuses
  BY DEF Statuses
<1>2. found' \in [Calls -> [status : Statuses \cup Rates, code : Codes \cup {None}, draws : Nat]]
  BY <1>1 DEF CallTypes
<1>3. found'[c].draws = n /\ found'[c].status = s /\ \A b \in Calls \ {c} : found'[b] = found[b]
  BY DEF CallTypes
<1> QED
  BY <1>2, <1>3 DEF CallTypes, FoundTypes

LEMMA ServerTypes ==
  ASSUME TypeOK, NEW c \in Calls, ServerStep(c)
  PROVE  RecordTypes' /\ CallTypes'
<1>t. RecordTypes /\ CallTypes
  BY DEF TypeOK
<1> USE <1>t
<1>k. /\ pc[c] \in {"receive", "commitReceipt", "readReceipt"} => ask[c].kind = "acknowledge"
      /\ pc[c] \in {"lockApplication", "drawCode", "decide", "commitDecision"} =>
           ask[c].kind = "decide"
      /\ pc[c] \in {"shareInsurer", "commitApplication"} => ask[c].kind = "apply"
      /\ pc[c] \in {"lockInsurer", "commitStatus"} => ask[c].kind = "deactivate"
      /\ pc[c] \in {"lockRate", "saveRate", "commitRate"} => ask[c].kind = "rate"
      /\ ask[c].kind \in {"acknowledge", "decide", "apply"} => ask[c].record \in Records
      /\ ask[c].kind = "decide" => ask[c].choice \in Decisions
      /\ ask[c].kind = "rate" => ask[c].choice \in Rates
      /\ ask[c].choice \in Results
  BY Kinds, SetUp
<1>e. {None, "NOTIFIED", "RECEIVED_BY_INSURER", "SUBMITTED"} \cup Decisions \subseteq Statuses
  BY DEF Statuses, Reached
<1>o. {None} \cup Codes \subseteq Results /\ Ours \subseteq Records
  BY SetUp
<1>d. PICK S : S = Statuses \cup Rates
  OBVIOUS
<1>g. found \in [Calls -> [status : S, code : Codes \cup {None}, draws : Nat]]
  BY <1>d DEF CallTypes
<1>h. PICK s \in S, k \in Codes \cup {None}, n \in Nat :
        found[c] = [status |-> s, code |-> k, draws |-> n]
  BY <1>g
<1>i. PICK F : found \in [Calls -> F]
  BY <1>g
<1>j. ASSUME NEW x
      PROVE  /\ found' = [found EXCEPT ![c].status = x] =>
                  found' = [found EXCEPT ![c] = [status |-> x, code |-> k, draws |-> n]]
             /\ found' = [found EXCEPT ![c].code = x] =>
                  found' = [found EXCEPT ![c] = [status |-> s, code |-> x, draws |-> n]]
             /\ found' = [found EXCEPT ![c].draws = x] =>
                  found' = [found EXCEPT ![c] = [status |-> s, code |-> k, draws |-> x]]
  BY <1>h, <1>i
<1>f. /\ n < NCD_CODE_ATTEMPTS /\ s = found[c].status /\ k = found[c].code
      /\ ask[c].kind = "rate" => s \in Rates \cup {None}
      /\ ask[c].kind # "rate" => s \in Statuses
  BY <1>h DEF CallTypes
<1>s. /\ ask[c].record \in Records => rows[ask[c].record].status \in Statuses
      /\ ask[c].record \in Records => rows[ask[c].record].result \in Results
  BY DEF RecordTypes
<1>u. UNCHANGED <<found, ask>> => FoundTypes'
  BY DEF CallTypes, FoundTypes
<1>q. ASSUME UNCHANGED <<records, settings>> PROVE RecordTypes'
  BY <1>q DEF records, settings, RecordTypes
<1>r. ASSUME NEW told \in {"NOT_FOUND", "ALREADY_DECIDED", "INTERNAL"}, Rollback(c, told)
      PROVE  RecordTypes' /\ CallTypes'
  BY <1>r, <1>o, <1>q, EndTypes DEF Rollback
<1>1. CASE Receive(c)
  <2>1. RecordTypes'
    BY <1>1, <1>q DEF Receive, quiet
  <2>2. PICK l \in {"commitReceipt", "readReceipt"} : goto(c, l)
    BY <1>1 DEF Receive
  <2>3. OneLockMore(c)
    BY <1>1 DEF Receive, OneLockMore
  <2>4. l \in StepsOf[ask[c].kind] /\ pc[c] # "done" /\ UNCHANGED <<ask, outcome, found>>
    BY <1>1, <1>k DEF Receive, quiet, StepsOf
  <2>5. CallTypes'
    BY <1>u, <2>2, <2>3, <2>4, GoesOn
  <2> QED
    BY <2>1, <2>5
<1>2. CASE CommitReceipt(c)
  <2>1. ask[c].kind = "acknowledge" /\ ask[c].record \in Records
    BY <1>2, <1>k DEF CommitReceipt
  <2>2. CallTypes'
    BY <1>2, <1>k, EndTypes DEF CommitReceipt
  <2>3. RecordTypes'
    BY <1>2, <1>e, <1>k, <2>1, MoveTypes DEF CommitReceipt, RecordTypes, settings
  <2> QED
    BY <2>2, <2>3
<1>3. CASE ReadReceipt(c)
  <2>1. RecordTypes'
    BY <1>3, <1>q DEF ReadReceipt
  <2>2. CallTypes'
    BY <1>3, <1>k, <1>o, <1>s, EndTypes DEF ReadReceipt
  <2> QED
    BY <2>1, <2>2
<1>4. CASE LockApplication(c)
  <2>1. CASE \E told \in {"NOT_FOUND", "ALREADY_DECIDED"} : Refuse(c, told)
    BY <1>r, <2>1 DEF Refuse
  <2>2. CASE /\ Take(c, record(c), ForUpdate) /\ UNCHANGED outcome /\ quiet
             /\ found' = [found EXCEPT ![c].status = rows[ask[c].record].status]
             /\ goto(c, IF ask[c].choice = "APPROVED" THEN "drawCode" ELSE "decide")
    <3>1. ask[c].kind = "decide" /\ pc[c] # "done" /\ ask[c].record \in Records
      BY <1>4, <1>k DEF LockApplication
    <3>0. found' = [found EXCEPT ![c] = [status |-> rows[ask[c].record].status, code |-> k, draws |-> n]]
      BY <1>j, <2>2
    <3>2. FoundTypes' /\ OneLockMore(c)
      BY <1>f, <1>s, <2>2, <3>0, <3>1, FindTypes DEF OneLockMore, quiet
    <3>3. PICK l \in {"drawCode", "decide"} : goto(c, l)
      BY <2>2
    <3>4. l \in StepsOf[ask[c].kind] /\ UNCHANGED <<ask, outcome>>
      BY <2>2, <3>1 DEF StepsOf, quiet
    <3>6. CallTypes'
      BY <3>1, <3>2, <3>3, <3>4, GoesOn
    <3> QED
      BY <1>q, <2>2, <3>6 DEF quiet
  <2> QED
    BY <1>4, <2>1, <2>2 DEF LockApplication
<1>5. CASE DrawCode(c)
  <2>0. ask[c].kind = "decide" /\ pc[c] # "done"
    BY <1>5, <1>k DEF DrawCode
  <2>1. CASE Refuse(c, "INTERNAL")
    BY <1>r, <2>1 DEF Refuse
  <2>2. ASSUME NEW new \in Codes, found' = [found EXCEPT ![c].code = new],
               goto(c, "decide"), UNCHANGED <<outcome, locks>>, quiet
        PROVE  RecordTypes' /\ CallTypes'
    <3>0. found' = [found EXCEPT ![c] = [status |-> s, code |-> new, draws |-> n]]
      BY <1>j, <2>2
    <3>a. UNCHANGED ask /\ ask[c].kind = "decide" /\ new \in Codes \cup {None}
      BY <1>k, <2>0, <2>2 DEF quiet
    <3>1. FoundTypes'
      BY <1>f, <1>h, <3>0, <3>a, FindTypes
    <3>b. OneLockMore(c)
      BY <2>2 DEF OneLockMore
    <3>2. "decide" \in StepsOf[ask[c].kind] /\ UNCHANGED <<ask, outcome>>
      BY <2>0, <2>2 DEF StepsOf, quiet
    <3>4. CallTypes'
      BY <2>0, <2>2, <3>1, <3>2, <3>b, GoesOn
    <3> QED
      BY <1>q, <2>2, <3>4 DEF quiet
  <2>3. CASE /\ ~lastDraw(c) /\ found' = [found EXCEPT ![c].draws = @ + 1]
             /\ UNCHANGED <<pc, outcome, locks>> /\ quiet
    <3>a. found[c].draws = n /\ NCD_CODE_ATTEMPTS \in Nat
      BY <1>h, SetUp
    <3>b. found' = [found EXCEPT ![c].draws = n + 1]
      BY <2>3, <3>a
    <3>0. found' = [found EXCEPT ![c] = [status |-> s, code |-> k, draws |-> n + 1]]
      BY <1>j, <3>b
    <3>1. n + 1 \in Nat /\ n + 1 < NCD_CODE_ATTEMPTS
      BY <1>f, <2>3, <3>a DEF lastDraw
    <3>2. FoundTypes'
      BY <1>f, <2>3, <3>0, <3>1, FindTypes DEF quiet
    <3>3. CallTypes'
      BY <2>3, <3>2 DEF CallTypes, FoundTypes, quiet
    <3> QED
      BY <1>q, <2>3, <3>3 DEF quiet
  <2> QED
    BY <1>5, <2>1, <2>2, <2>3 DEF DrawCode
<1>6. CASE Decide(c)
  <2>1. CASE Refuse(c, "ALREADY_DECIDED")
    BY <1>r, <2>1 DEF Refuse
  <2>2. CASE goto(c, "commitDecision") /\ UNCHANGED <<found, outcome, locks>> /\ quiet
    <3>1. /\ "commitDecision" \in StepsOf[ask[c].kind] /\ pc[c] # "done" /\ UNCHANGED ask
          /\ OneLockMore(c)
      BY <1>6, <1>k, <2>2 DEF Decide, quiet, StepsOf, OneLockMore
    <3>2. CallTypes'
      BY <1>u, <2>2, <3>1, GoesOn
    <3> QED
      BY <1>q, <2>2, <3>2 DEF quiet
  <2> QED
    BY <1>6, <2>1, <2>2 DEF Decide
<1>7. CASE CommitDecision(c)
  <2>1. /\ ask[c].record \in Records /\ ask[c].choice \in Statuses
        /\ found[c].status \in Statuses /\ found[c].code \in Results
    BY <1>7, <1>e, <1>f, <1>k, <1>o DEF CommitDecision
  <2>2. CallTypes'
    BY <1>7, <2>1, EndTypes DEF CommitDecision
  <2>3. codes' \subseteq Codes
    BY <1>7, <1>f DEF CommitDecision, RecordTypes
  <2>4. RecordTypes'
    BY <1>7, <2>1, <2>3, MoveTypes DEF CommitDecision, RecordTypes, settings, decidedFrom
  <2> QED
    BY <2>2, <2>4
<1>8. CASE ShareInsurer(c)
  <2>1. CASE Refuse(c, "NOT_FOUND")
    BY <1>r, <2>1 DEF Refuse
  <2>2. CASE /\ Take(c, insurerRow, ForShare) /\ goto(c, "commitApplication")
             /\ UNCHANGED <<found, outcome>> /\ quiet
    <3>1. /\ "commitApplication" \in StepsOf[ask[c].kind] /\ pc[c] # "done" /\ UNCHANGED ask
          /\ OneLockMore(c)
      BY <1>8, <1>k, <2>2 DEF ShareInsurer, quiet, StepsOf, OneLockMore
    <3>2. CallTypes'
      BY <1>u, <2>2, <3>1, GoesOn
    <3> QED
      BY <1>q, <2>2, <3>2 DEF quiet
  <2> QED
    BY <1>8, <2>1, <2>2 DEF ShareInsurer
<1>9. CASE CommitApplication(c)
  <2>1. ask[c].kind = "apply" /\ ask[c].record \in Records
    BY <1>9, <1>k DEF CommitApplication
  <2>2. CallTypes'
    BY <1>9, <1>o, EndTypes DEF CommitApplication
  <2>3. RecordTypes'
    BY <1>9, <1>e, <1>o, <2>1, MoveTypes DEF CommitApplication, RecordTypes, settings
  <2> QED
    BY <2>2, <2>3
<1>10. CASE LockInsurer(c)
  <2>1. /\ "commitStatus" \in StepsOf[ask[c].kind] /\ goto(c, "commitStatus")
        /\ pc[c] # "done" /\ UNCHANGED <<ask, outcome, found>> /\ OneLockMore(c)
    BY <1>10, <1>k DEF LockInsurer, quiet, StepsOf, OneLockMore
  <2>2. CallTypes'
    BY <1>u, <2>1, GoesOn
  <2> QED
    BY <1>10, <1>q, <2>2 DEF LockInsurer, quiet
<1>11. CASE CommitStatus(c)
  <2>2. CallTypes'
    BY <1>11, <1>o, EndTypes DEF CommitStatus
  <2>3. RecordTypes'
    BY <1>11 DEF CommitStatus, RecordTypes, records
  <2> QED
    BY <2>2, <2>3
<1>12. CASE LockRate(c)
  <2>1. /\ "saveRate" \in StepsOf[ask[c].kind] /\ goto(c, "saveRate") /\ pc[c] # "done"
        /\ UNCHANGED <<ask, outcome>> /\ OneLockMore(c)
        /\ found' = [found EXCEPT ![c].status = rate]
    BY <1>12, <1>k DEF LockRate, quiet, StepsOf, OneLockMore
  <2>2. rate \in Rates \cup {None} /\ ask[c].kind = "rate"
    BY <1>12, <1>k DEF RecordTypes, LockRate
  <2>3. found' = [found EXCEPT ![c] = [status |-> rate, code |-> k, draws |-> n]]
    BY <1>j, <2>1
  <2>4. FoundTypes'
    BY <1>f, <2>1, <2>2, <2>3, FindTypes
  <2>5. CallTypes'
    BY <2>1, <2>4, GoesOn
  <2> QED
    BY <1>12, <1>q, <2>5 DEF LockRate, quiet
<1>13. CASE SaveRate(c)
  <2>1. /\ "commitRate" \in StepsOf[ask[c].kind] /\ goto(c, "commitRate")
        /\ pc[c] # "done" /\ UNCHANGED <<ask, outcome, found>> /\ OneLockMore(c)
    BY <1>13, <1>k DEF SaveRate, quiet, StepsOf, OneLockMore
  <2>2. CallTypes'
    BY <1>u, <2>1, GoesOn
  <2> QED
    BY <1>13, <1>q, <2>2 DEF SaveRate, quiet
<1>14. CASE CommitRate(c)
  <2>1. PICK T : T = (Rates \cup {None}) \X Rates
    OBVIOUS
  <2>2. PICK t \in T : t = <<found[c].status, ask[c].choice>>
    BY <1>14, <1>f, <1>k, <2>1 DEF CommitRate
  <2>3. rates' \in Seq(T) /\ rate' \in Rates
    BY <1>14, <1>k, <2>1, <2>2 DEF CommitRate, RecordTypes
  <2>4. RecordTypes'
    BY <1>14, <2>1, <2>3 DEF CommitRate, RecordTypes, records
  <2> QED
    BY <1>14, <1>o, <2>4, EndTypes DEF CommitRate
<1>15. CASE Fail(c)
  BY <1>15, <1>r DEF Fail
<1> QED
  BY <1>1, <1>2, <1>3, <1>4, <1>5, <1>6, <1>7, <1>8, <1>9, <1>10, <1>11, <1>12,
     <1>13, <1>14, <1>15 DEF ServerStep

(* The portal's own steps.                                                 *)
PortalStep(c) ==
  \/ LeaveTab(c) \/ Answer(c) \/ GiveUp(c)
  \/ \E l \in Lists : ServeLoad(c, l) \/ ApplyLoad(c, l) \/ FailLoad(c, l)

(* The views of the records.                                               *)
LEMMA Views ==
  ASSUME RecordTypes
  PROVE  /\ \A r \in Records : View(r) \in ViewType
         /\ \A l \in Lists : [r \in Listed(l) |-> View(r)] \in [Listed(l) -> ViewType]
<1>1. ASSUME NEW r \in Records PROVE View(r) \in ViewType
  <2>1. rows[r].status \in Statuses
    BY DEF RecordTypes
  <2>2. PICK T : T = Statuses \X Statuses
    OBVIOUS
  <2>3. history[r] \in Seq(T)
    BY <2>2 DEF RecordTypes
  <2>4. Len(history[r]) \in Nat
    BY <2>3
  <2> QED
    BY <2>1, <2>4 DEF View, ViewType
<1> QED
  BY <1>1, SetUp DEF Listed

(* One load moves on.                                                      *)
LEMMA LoadTypes ==
  ASSUME PortalTypes, NEW c \in Calls, NEW l \in Lists,
         NEW stage \in {"asked", "served", "done", "failed"}, NEW view,
         view = <<>> \/ view \in [Listed(l) -> ViewType],
         stage = "served" => view \in [Listed(l) -> ViewType],
         loads' = [loads EXCEPT ![c][l] = [stage |-> stage, view |-> view]]
  PROVE  /\ loads' \in [Calls -> [Lists -> [stage : {"none", "asked", "served", "done", "failed"},
                                            view : {<<>>} \cup [Listed("claims") -> ViewType]
                                                \cup [Listed("applications") -> ViewType]]]]
         /\ \A b \in Calls, m \in Lists :
              loads'[b][m].stage = "served" => loads'[b][m].view \in [Listed(m) -> ViewType]
         /\ loads'[c][l] = [stage |-> stage, view |-> view]
         /\ \A b \in Calls, m \in Lists : b # c \/ m # l => loads'[b][m] = loads[b][m]
<1>1. PICK V : V = {<<>>} \cup [Listed("claims") -> ViewType] \cup [Listed("applications") -> ViewType]
  OBVIOUS
<1>2. PICK L : L = [stage : {"none", "asked", "served", "done", "failed"}, view : V]
  OBVIOUS
<1>3. view \in V
  BY <1>1 DEF Lists
<1>4. PICK x \in L : x = [stage |-> stage, view |-> view]
  BY <1>2, <1>3
<1>5. loads \in [Calls -> [Lists -> L]]
  BY <1>1, <1>2 DEF PortalTypes
<1>6. loads' = [loads EXCEPT ![c][l] = x]
  BY <1>4
<1>7. /\ loads' \in [Calls -> [Lists -> L]] /\ loads'[c][l] = x
      /\ \A b \in Calls, m \in Lists : b # c \/ m # l => loads'[b][m] = loads[b][m]
  BY <1>5, <1>6
<1>8. x.stage = stage /\ x.view = view
  BY <1>4
<1>9. \A b \in Calls, m \in Lists :
        loads'[b][m].stage = "served" => loads'[b][m].view \in [Listed(m) -> ViewType]
  BY <1>7, <1>8 DEF PortalTypes
<1> QED
  BY <1>1, <1>2, <1>4, <1>7, <1>9

LEMMA OverTypes ==
  ASSUME TypeOK, NEW c \in Calls, NEW told, Over(c, told)
  PROVE  /\ PortalTypes'
         /\ ask[c].who \in Clerks =>
              /\ \A l \in Lists : loads'[c][l].stage = "asked"
              /\ due'[c] = Len(history[ask[c].record])
         /\ ask[c].who \notin Clerks => loads' = loads /\ due' = due
         /\ \A b \in Calls \ {c} : loads'[b] = loads[b] /\ due'[b] = due[b]
<1>1. phase' \in [Calls -> {"idle", "sent", "over"}] /\ UNCHANGED <<forgotten, shown>>
  BY DEF TypeOK, PortalTypes, Over
<1>2. CASE ask[c].who \notin Clerks
  BY <1>1, <1>2 DEF Over, TypeOK, PortalTypes
<1>3. CASE ask[c].who \in Clerks
  <2>1. ask[c].record \in Records
    BY <1>3, Kinds, SetUp DEF TypeOK
  <2>2. PICK T : T = Statuses \X Statuses
    OBVIOUS
  <2>3. Len(history[ask[c].record]) \in Nat
    BY <2>1, <2>2 DEF TypeOK, RecordTypes
  <2>4. /\ due' \in [Calls -> Nat] /\ due'[c] = Len(history[ask[c].record])
        /\ \A b \in Calls \ {c} : due'[b] = due[b]
    BY <1>3, <2>3 DEF Over, TypeOK, PortalTypes
  <2>5. PICK V : V = {<<>>} \cup [Listed("claims") -> ViewType] \cup [Listed("applications") -> ViewType]
    OBVIOUS
  <2>6. PICK L : L = [stage : {"none", "asked", "served", "done", "failed"}, view : V]
    OBVIOUS
  <2>v. PICK v \in V : v = <<>>
    BY <2>5
  <2>w. PICK x \in L : x = [stage |-> "asked", view |-> v]
    BY <2>6
  <2>7. x = Load("asked") /\ x.stage = "asked"
    BY <2>v, <2>w DEF Load
  <2>8. loads \in [Calls -> [Lists -> L]]
    BY <2>5, <2>6 DEF TypeOK, PortalTypes
  <2>9. loads' = [loads EXCEPT ![c] = [l \in Lists |-> x]]
    BY <1>3, <2>7 DEF Over, thenReload
  <2>10. /\ loads' \in [Calls -> [Lists -> L]] /\ \A l \in Lists : loads'[c][l].stage = "asked"
         /\ \A b \in Calls \ {c} : loads'[b] = loads[b]
    BY <2>7, <2>8, <2>9
  <2>11. \A b \in Calls, m \in Lists :
           loads'[b][m].stage = "served" => loads'[b][m].view \in [Listed(m) -> ViewType]
    BY <2>10 DEF TypeOK, PortalTypes
  <2>12. PortalTypes'
    BY <1>1, <2>4, <2>5, <2>6, <2>10, <2>11 DEF TypeOK, PortalTypes
  <2> QED
    BY <1>3, <2>4, <2>10, <2>12
<1> QED
  BY <1>2, <1>3

(* What a load brings to the store.                                        *)
LEMMA Arrives ==
  ASSUME TypeOK, NEW c \in Calls, NEW l \in Lists, ApplyLoad(c, l)
  PROVE  /\ shown' \in [Clerks -> [Ours -> ViewType]]
         /\ \A u \in Clerks \ {ask[c].who} : shown'[u] = shown[u]
         /\ ask[c].who \in Clerks => \A r \in Ours :
              shown'[ask[c].who][r] = IF ListOf(r) = l THEN loads[c][l].view[r]
                                      ELSE shown[ask[c].who][r]
<1>1. loads[c][l].view \in [Listed(l) -> ViewType]
  BY DEF TypeOK, PortalTypes, ApplyLoad
<1>2. PICK v : v = loads[c][l].view
  OBVIOUS
<1>3. \A r \in Ours : ListOf(r) = l => v[r] \in ViewType
  BY <1>1, <1>2 DEF Listed
<1>4. shown \in [Clerks -> [Ours -> ViewType]]
  BY DEF TypeOK, PortalTypes
<1>5. shown' = [shown EXCEPT ![ask[c].who] = [r \in Ours |-> IF ListOf(r) = l THEN v[r] ELSE @[r]]]
  BY <1>2 DEF ApplyLoad
<1> QED
  BY <1>2, <1>3, <1>4, <1>5

LEMMA PortalStepTypes ==
  ASSUME TypeOK, NEW c \in Calls, PortalStep(c)
  PROVE  TypeOK'
<1> USE DEF TypeOK
<1>1. UNCHANGED <<records, settings, ask, server>>
  BY DEF PortalStep, LeaveTab, Answer, GiveUp, ServeLoad, ApplyLoad, FailLoad, Over
<1>2. RecordTypes' /\ CallTypes'
  BY <1>1 DEF RecordTypes, CallTypes, records, settings, server
<1>m. mishaps' = mishaps \/ Mishap
  BY DEF PortalStep, LeaveTab, Answer, GiveUp, ServeLoad, ApplyLoad, FailLoad
<1>3. mishaps' \in 0..MaxMishaps
  BY <1>m, SetUp DEF Mishap
<1>9. \A b \in Calls : phase'[b] = "idle" => pc'[b] = "idle"
  <2>1. ASSUME NEW b \in Calls PROVE phase'[b] = "idle" => phase[b] = "idle"
    BY DEF PortalStep, LeaveTab, Answer, GiveUp, ServeLoad, ApplyLoad, FailLoad, Over, PortalTypes
  <2> QED
    BY <1>1, <2>1 DEF server
<1>4. CASE LeaveTab(c)
  BY <1>2, <1>3, <1>4, <1>9 DEF LeaveTab, PortalTypes
<1>5. CASE Answer(c) \/ GiveUp(c)
  BY <1>2, <1>3, <1>5, <1>9, OverTypes DEF Answer, GiveUp
<1>6. ASSUME NEW l \in Lists, ServeLoad(c, l) PROVE PortalTypes'
  BY <1>6, LoadTypes, Views DEF ServeLoad, PortalTypes
<1>7. ASSUME NEW l \in Lists, FailLoad(c, l) PROVE PortalTypes'
  BY <1>7, LoadTypes DEF FailLoad, PortalTypes, Load
<1>8. ASSUME NEW l \in Lists, ApplyLoad(c, l) PROVE PortalTypes'
  <2>1. PICK v : v = <<>>
    OBVIOUS
  <2>2. loads' = [loads EXCEPT ![c][l] = [stage |-> "done", view |-> v]]
    BY <1>8, <2>1 DEF ApplyLoad, Load
  <2>3. /\ loads' \in [Calls -> [Lists -> [stage : {"none", "asked", "served", "done", "failed"},
                                            view : {<<>>} \cup [Listed("claims") -> ViewType]
                                                \cup [Listed("applications") -> ViewType]]]]
        /\ \A b \in Calls, m \in Lists :
              loads'[b][m].stage = "served" => loads'[b][m].view \in [Listed(m) -> ViewType]
    BY <2>1, <2>2, LoadTypes
  <2>4. shown' \in [Clerks -> [Ours -> ViewType]]
    BY <1>8, Arrives
  <2> QED
    BY <1>8, <2>3, <2>4 DEF ApplyLoad, PortalTypes
<1> QED
  BY <1>2, <1>3, <1>4, <1>5, <1>6, <1>7, <1>8, <1>9 DEF PortalStep

LEMMA Types == TypeOK /\ [Next]_vars => TypeOK'
<1> SUFFICES ASSUME TypeOK, [Next]_vars PROVE TypeOK'
  OBVIOUS
<1>1. ASSUME NEW c \in Calls, Send(c) PROVE TypeOK'
  <2>1. PICK l : l = firstStatement[ask[c].kind] /\ l \in StepsOf[ask[c].kind]
                 /\ l \notin {"idle", "done"}
    BY Kinds DEF firstStatement, StepsOf, TypeOK
  <2>2. pc[c] = "idle" /\ pc[c] # "done" /\ goto(c, l) /\ UNCHANGED <<ask, outcome, found, locks>>
    BY <1>1, <2>1 DEF Send, TypeOK, goto
  <2>3. FoundTypes' /\ OneLockMore(c)
    BY <2>2 DEF TypeOK, CallTypes, FoundTypes, OneLockMore
  <2>4. CallTypes'
    BY <2>1, <2>2, <2>3, GoesOn DEF TypeOK
  <2>5. PortalTypes' /\ \A b \in Calls : phase'[b] = "idle" => pc'[b] = "idle"
    BY <1>1 DEF Send, TypeOK, PortalTypes, CallTypes
  <2> QED
    BY <1>1, <2>4, <2>5 DEF Send, TypeOK, RecordTypes, records, settings
<1>2. ASSUME NEW c \in Calls, ServerStep(c) PROVE TypeOK'
  <2>1. UNCHANGED portal
    BY <1>2 DEF ServerStep, Receive, CommitReceipt, ReadReceipt, LockApplication, DrawCode, Decide,
       CommitDecision, ShareInsurer, CommitApplication, LockInsurer, CommitStatus, LockRate,
       SaveRate, CommitRate, Fail, Refuse, Rollback, End, quiet
  <2>2. mishaps' \in 0..MaxMishaps
    BY <1>2, SetUp DEF ServerStep, Receive, CommitReceipt, ReadReceipt, LockApplication, DrawCode,
       Decide, CommitDecision, ShareInsurer, CommitApplication, LockInsurer, CommitStatus, LockRate,
       SaveRate, CommitRate, Fail, Refuse, quiet, Mishap, TypeOK
  <2>3. \A b \in Calls : phase'[b] = "idle" => pc'[b] = "idle"
    BY <1>2, <2>1 DEF ServerStep, Receive, CommitReceipt, ReadReceipt, LockApplication, DrawCode,
       Decide, CommitDecision, ShareInsurer, CommitApplication, LockInsurer, CommitStatus, LockRate,
       SaveRate, CommitRate, Fail, Refuse, Rollback, End, goto, TypeOK, CallTypes, portal
  <2> QED
    BY <1>2, <2>1, <2>2, <2>3, ServerTypes DEF TypeOK, PortalTypes, portal
<1>3. ASSUME NEW c \in Calls, PortalStep(c) PROVE TypeOK'
  BY <1>3, PortalStepTypes
<1>4. CASE UNCHANGED vars
  BY <1>4 DEF vars, records, settings, server, portal, TypeOK, RecordTypes, CallTypes, PortalTypes
<1> QED
  BY <1>1, <1>2, <1>3, <1>4 DEF Next, PortalStep

LEMMA InitTypes == Init => TypeOK
<1> SUFFICES ASSUME Init PROVE TypeOK
  OBVIOUS
<1>0. {"SUBMITTED", "NOTIFIED", None} \subseteq Statuses /\ None \in Results
  BY SetUp DEF Statuses, Reached
<1>1. rows \in [Records -> [status : Statuses, result : Results]]
  BY <1>0 DEF Init
<1>2. history \in [Records -> Seq(Statuses \X Statuses)]
  <2>1. PICK T : T = Statuses \X Statuses
    OBVIOUS
  <2>2. ASSUME NEW r \in Records PROVE history[r] \in Seq(T)
    <3>1. rows[r].status \in Statuses
      BY <1>1
    <3>2. PICK t \in T : t = <<None, rows[r].status>>
      BY <1>0, <2>1, <3>1
    <3>3. history[r] = <<>> \/ history[r] = <<t>>
      BY <3>2 DEF Init
    <3>4. <<>> \in Seq(T) /\ <<t>> \in Seq(T)
      OBVIOUS
    <3> QED
      BY <3>3, <3>4
  <2> QED
    BY <2>1, <2>2 DEF Init
<1>3. rate \in Rates \cup {None} /\ rates \in Seq((Rates \cup {None}) \X Rates)
  BY DEF Init
<1>4. RecordTypes
  BY <1>1, <1>2, <1>3, SetUp DEF Init, RecordTypes
<1>5. CallTypes
  BY <1>0, SetUp DEF Init, CallTypes, NothingFound, Unanswered
<1>6. PortalTypes
  <2>1. \A r \in Ours : View(r) \in ViewType
    BY <1>4, Views, SetUp
  <2>2. PICK V : V = {<<>>} \cup [Listed("claims") -> ViewType] \cup [Listed("applications") -> ViewType]
    OBVIOUS
  <2>3. PICK v \in V : v = <<>>
    BY <2>2
  <2>4. loads = [c \in Calls |-> [l \in Lists |-> [stage |-> "none", view |-> v]]]
    BY <2>3 DEF Init, Load
  <2>5. shown \in [Clerks -> [Ours -> ViewType]]
    BY <2>1 DEF Init
  <2> QED
    BY <2>2, <2>4, <2>5 DEF Init, PortalTypes
<1> QED
  BY <1>4, <1>5, <1>6, SetUp DEF Init, TypeOK

(* A call is at a statement of its own kind, only a call that runs holds a *)
(* lock, and no call draws more codes than NCD_CODE_ATTEMPTS.              *)
THEOREM Typing == Spec => []TypeOK
  BY InitTypes, Types, PTL DEF Spec
-----------------------------------------------------------------------------
(* THE INVARIANT.  What a call has read under a lock stays true until it   *)
(* lets go of the lock: no two locks held conflict.                        *)

Held(c, row, mode) == Lock(c, row, mode) \in locks

LocksHeld(c) ==
  /\ pc[c] = "commitReceipt" => Held(c, record(c), NoKeyUpdate)
  /\ pc[c] \in {"drawCode", "decide", "commitDecision"} => Held(c, record(c), ForUpdate)
  /\ pc[c] = "commitApplication" => Held(c, insurerRow, ForShare)
  /\ pc[c] = "commitStatus" => Held(c, insurerRow, ForUpdate)
  /\ pc[c] \in {"saveRate", "commitRate"} /\ found[c].status # None => Held(c, rateRow, ForUpdate)
  /\ pc[c] = "commitRate" => Held(c, rateRow, NoKeyUpdate)

LocksExclude ==
  \A l, m \in locks : l.row = m.row /\ l.txn # m.txn => ~Conflict(l.mode, m.mode)

StatusOf(c) == rows[ask[c].record].status

StillTrue(c) ==
  /\ pc[c] = "commitReceipt" => StatusOf(c) = "NOTIFIED"
  /\ pc[c] = "readReceipt" /\ ask[c].record \in Ours => StatusOf(c) = "RECEIVED_BY_INSURER"
  /\ pc[c] \in {"drawCode", "decide", "commitDecision"} =>
       StatusOf(c) = found[c].status /\ found[c].status \notin {None, "APPROVED"}
  /\ ask[c].kind = "apply" /\ pc[c] # "done" => StatusOf(c) = None
  /\ pc[c] = "commitApplication" => insurer = "ACTIVE"
  /\ pc[c] \in {"saveRate", "commitRate"} => found[c].status \in {None, rate}
  /\ ask[c].kind = "acknowledge" /\ outcome[c].told = "saved" =>
       rows[ask[c].record] = [status |-> "RECEIVED_BY_INSURER", result |-> outcome[c].result]

(* The code a call has inserted, until it commits or rolls back.           *)
HasCode(c) == pc[c] \in {"decide", "commitDecision"}

Drawn(c) ==
  /\ HasCode(c) => /\ found[c].code # None <=> ask[c].choice = "APPROVED"
                   /\ found[c].code \notin codes
  /\ ~HasCode(c) /\ pc[c] # "done" => found[c].code = None
  /\ pc[c] = "drawCode" => ask[c].choice = "APPROVED"

DrawnApart ==
  \A b, c \in Calls : b # c /\ HasCode(b) /\ HasCode(c) /\ found[b].code = found[c].code =>
    found[c].code = None

AppliedOnce ==
  \A b, c \in Calls :
    ask[b].kind = "apply" /\ ask[c].kind = "apply" /\ ask[b].record = ask[c].record => b = c

ClaimsMove == \A m \in Claims : rows[m].status \in {"NOTIFIED", "RECEIVED_BY_INSURER"}

RateIsLast ==
  /\ rate = None => rates = <<>>
  /\ rates # <<>> => rate = rates[Len(rates)][2]

(* Who found no rate, and has not ended, makes the first entry or finds    *)
(* one made by another who found none.                                     *)
FirstRate ==
  \A c \in Calls :
    pc[c] \in {"saveRate", "commitRate"} /\ found[c].status = None =>
      IF rates = <<>> THEN rate = None ELSE rates[1][1] = None

(* A code issued here is carried by one application.                       *)
Carried ==
  /\ Issued \subseteq codes
  /\ \A a \in Applications :
       /\ rows[a].status = "APPROVED" <=> rows[a].result # None
       /\ rows[a].result \in (codes \ Issued) \cup {None}
  /\ \A k \in codes \ Issued : \E a \in Applications :
       \A b \in Applications : rows[b].result = k <=> b = a

(* A clerk who waits has one change under way at a time, and a list that   *)
(* is on its way to the store is as new as every change that is over.      *)
Reported(c) == ask[c].who \in Patient /\ phase[c] = "over"

Waiting ==
  \A b, c \in Calls :
    ask[b].who = ask[c].who /\ ask[c].who \in Patient /\ busy(b) /\ busy(c) => b = c

Fresh ==
  \A b, c \in Calls :
    /\ Reported(c) => due[c] <= Len(history[ask[c].record])
    /\ Reported(c) /\ ask[b].who = ask[c].who =>
         LET l == ListOf(ask[c].record) IN
         loads[b][l].stage = "served" => due[c] <= loads[b][l].view[ask[c].record].seen

Portal ==
  /\ \A c \in Calls : phase[c] # "over" => \A l \in Lists : loads[c][l].stage = "none"
  /\ Waiting /\ Fresh /\ ReloadShowsChange

Server ==
  /\ LocksExclude /\ \A c \in Calls : LocksHeld(c) /\ StillTrue(c) /\ Drawn(c)
  /\ DrawnApart /\ AppliedOnce /\ ClaimsMove /\ RateIsLast /\ FirstRate /\ Carried
  /\ HistoriesAreChains

IInv == TypeOK /\ Server /\ Portal

-----------------------------------------------------------------------------
(* LOCKS.                                                                  *)

(* Two transactions never hold conflicting locks of a row.                 *)
LEMMA Apart ==
  ASSUME LocksExclude, NEW b, NEW c, b # c, NEW row, NEW m, NEW n,
         Held(b, row, m), Held(c, row, n)
  PROVE  ~Conflict(m, n)
<1>1. /\ Lock(b, row, m).row = row /\ Lock(c, row, n).row = row
      /\ Lock(b, row, m).txn = b /\ Lock(c, row, n).txn = c
      /\ Lock(b, row, m).mode = m /\ Lock(c, row, n).mode = n
  BY DEF Lock
<1> QED
  BY <1>1 DEF Held, LocksExclude

LEMMA Conflicts ==
  /\ Conflict(ForUpdate, ForUpdate) /\ Conflict(NoKeyUpdate, NoKeyUpdate)
  /\ Conflict(ForUpdate, NoKeyUpdate) /\ Conflict(NoKeyUpdate, ForUpdate)
  /\ Conflict(ForUpdate, ForShare) /\ Conflict(ForShare, ForUpdate)
BY DEF Conflict

LEMMA Symmetric ==
  ASSUME NEW m \in LockModes, NEW n \in LockModes
  PROVE  Conflict(m, n) <=> Conflict(n, m)
BY DEF Conflict

(* A lock granted conflicts with none of the others.                       *)
LEMMA Taking ==
  ASSUME CallTypes, LocksExclude, NEW c \in Calls, NEW row,
         NEW mode \in {ForUpdate, NoKeyUpdate, ForShare}, Take(c, row, mode)
  PROVE  LocksExclude' /\ locks \subseteq locks' /\ Lock(c, row, mode) \in locks'
<1>1. locks' = locks \cup {Lock(c, row, mode)} /\ Grantable(locks, c, row, mode)
  BY DEF Take
<1>2. ASSUME NEW l \in locks', NEW m \in locks', l.row = m.row, l.txn # m.txn
      PROVE  ~Conflict(l.mode, m.mode)
  <2>0. PICK new : new = Lock(c, row, mode)
    OBVIOUS
  <2>1. new.txn = c /\ new.row = row /\ new.mode = mode
    BY <2>0 DEF Lock
  <2>2. CASE l \in locks /\ m \in locks
    BY <1>2, <2>2 DEF LocksExclude
  <2>3. CASE l = new /\ m \in locks
    <3>1. ~Conflict(m.mode, mode) /\ m.mode \in LockModes
      BY <1>1, <1>2, <2>1, <2>3 DEF Grantable, CallTypes
    <3> QED
      BY <2>1, <2>3, <3>1, Modes, Symmetric
  <2>4. CASE m = new /\ l \in locks
    BY <1>1, <1>2, <2>1, <2>4 DEF Grantable
  <2> QED
    BY <1>1, <1>2, <2>0, <2>1, <2>2, <2>3, <2>4
<1> QED
  BY <1>1, <1>2 DEF LocksExclude

(* What a step of the server leaves to the other calls.                    *)
LEMMA OthersGoOn ==
  ASSUME TypeOK, LocksExclude, NEW c \in Calls, ServerStep(c)
  PROVE  /\ LocksExclude' /\ UNCHANGED <<ask, portal>>
         /\ \A b \in Calls \ {c} :
              /\ pc'[b] = pc[b] /\ found'[b] = found[b] /\ outcome'[b] = outcome[b]
              /\ LocksHeld(b) => LocksHeld(b)'
<1>1. UNCHANGED <<ask, portal>>
  BY DEF ServerStep, Receive, CommitReceipt, ReadReceipt, LockApplication, DrawCode, Decide,
     CommitDecision, ShareInsurer, CommitApplication, LockInsurer, CommitStatus, LockRate,
     SaveRate, CommitRate, Fail, Refuse, Rollback, End, quiet
<1>2. \A b \in Calls \ {c} : pc'[b] = pc[b]
  BY DEF ServerStep, Receive, CommitReceipt, ReadReceipt, LockApplication, DrawCode, Decide,
     CommitDecision, ShareInsurer, CommitApplication, LockInsurer, CommitStatus, LockRate,
     SaveRate, CommitRate, Fail, Refuse, Rollback, End, goto, TypeOK, CallTypes
<1>3. \A b \in Calls \ {c} : found'[b] = found[b]
  BY DEF ServerStep, Receive, CommitReceipt, ReadReceipt, LockApplication, DrawCode, Decide,
     CommitDecision, ShareInsurer, CommitApplication, LockInsurer, CommitStatus, LockRate,
     SaveRate, CommitRate, Fail, Refuse, Rollback, End, TypeOK, CallTypes
<1>4. \A b \in Calls \ {c} : outcome'[b] = outcome[b]
  BY DEF ServerStep, Receive, CommitReceipt, ReadReceipt, LockApplication, DrawCode, Decide,
     CommitDecision, ShareInsurer, CommitApplication, LockInsurer, CommitStatus, LockRate,
     SaveRate, CommitRate, Fail, Refuse, Rollback, End, TypeOK, CallTypes
<1>5. \/ locks' = locks \/ locks' = Release(locks, c)
      \/ \E row : \E mode \in {ForUpdate, NoKeyUpdate, ForShare} : Take(c, row, mode)
  BY DEF ServerStep, Receive, CommitReceipt, ReadReceipt, LockApplication, DrawCode, Decide,
     CommitDecision, ShareInsurer, CommitApplication, LockInsurer, CommitStatus, LockRate,
     SaveRate, CommitRate, Fail, Refuse, Rollback, End
<1>6. LocksExclude'
  BY <1>5, Taking DEF LocksExclude, Release, TypeOK
<1>7. ASSUME NEW b \in Calls \ {c}, NEW row, NEW mode, Held(b, row, mode)
      PROVE  Held(b, row, mode)'
  <2>1. Lock(b, row, mode).txn = b
    BY DEF Lock
  <2>2. Lock(b, row, mode) \in locks'
    BY <1>5, <1>7, <2>1, Taking DEF Held, Release, TypeOK
  <2> QED
    BY <2>2 DEF Held
<1>8. ASSUME NEW b \in Calls \ {c}, LocksHeld(b) PROVE LocksHeld(b)'
  BY <1>1, <1>2, <1>3, <1>7, <1>8 DEF LocksHeld, record, insurerRow, rateRow
<1> QED
  BY <1>1, <1>2, <1>3, <1>4, <1>6, <1>8

-----------------------------------------------------------------------------
(* A STEP OF THE SERVER.                                                   *)

Commits(c) ==
  CommitReceipt(c) \/ CommitDecision(c) \/ CommitApplication(c) \/ CommitStatus(c) \/ CommitRate(c)

LEMMA OnlyCommitsWrite ==
  ASSUME NEW c \in Calls, ServerStep(c), ~Commits(c)
  PROVE  UNCHANGED <<rows, history, codes, insurer, rate, rates>>
BY DEF ServerStep, Commits, Receive, ReadReceipt, LockApplication, DrawCode, Decide,
   ShareInsurer, LockInsurer, LockRate, SaveRate, Fail, Refuse, Rollback, quiet, records, settings

(* A call that is over holds nothing and stands by what it answered.       *)
LEMMA Ended ==
  ASSUME NEW c \in Calls, pc'[c] = "done",
         ask'[c].kind = "acknowledge" /\ outcome'[c].told = "saved" =>
           rows'[ask'[c].record] = [status |-> "RECEIVED_BY_INSURER", result |-> outcome'[c].result]
  PROVE  LocksHeld(c)' /\ StillTrue(c)' /\ Drawn(c)'
BY DEF LocksHeld, StillTrue, Drawn, HasCode

(* A call that goes on has not answered.                                   *)
GoesOnTo(c, l) ==
  /\ goto(c, l) /\ pc[c] # "done" /\ l \notin {"idle", "done"}
  /\ UNCHANGED <<ask, outcome, rows, history, codes, insurer, rate, rates>>

LEMMA Going ==
  ASSUME CallTypes, NEW c \in Calls, NEW l, GoesOnTo(c, l)
  PROVE  /\ pc'[c] = l /\ ask'[c] = ask[c] /\ outcome'[c].told = "NONE"
         /\ \A r : rows'[r] = rows[r]
         /\ UNCHANGED <<codes, insurer, rate>>
BY DEF CallTypes, GoesOnTo, goto

LEMMA OwnStep ==
  ASSUME IInv, NEW c \in Calls, ServerStep(c)
  PROVE  LocksHeld(c)' /\ StillTrue(c)' /\ Drawn(c)'
<1>t. /\ RecordTypes /\ CallTypes /\ LocksExclude /\ LocksHeld(c) /\ StillTrue(c) /\ Drawn(c)
      /\ ClaimsMove
  BY DEF IInv, TypeOK, Server
<1>k. /\ pc[c] \in {"receive", "commitReceipt", "readReceipt"} =>
           ask[c].kind = "acknowledge" /\ ask[c].record \in Claims
      /\ pc[c] \in {"lockApplication", "drawCode", "decide", "commitDecision"} =>
           ask[c].kind = "decide" /\ ask[c].record \in Records
      /\ pc[c] \in {"shareInsurer", "commitApplication"} => ask[c].kind = "apply"
      /\ pc[c] \in {"lockInsurer", "commitStatus"} => ask[c].kind = "deactivate"
      /\ pc[c] \in {"lockRate", "saveRate", "commitRate"} => ask[c].kind = "rate"
  BY <1>t, Kinds, SetUp
<1>n. /\ None \notin Codes /\ None \notin {"NOTIFIED", "RECEIVED_BY_INSURER", "SUBMITTED"}
      /\ Claims \subseteq Records
  BY SetUp
<1>f. found' \in [Calls -> [status : Statuses \cup Rates, code : Codes \cup {None}, draws : Nat]]
  BY ServerTypes DEF IInv, CallTypes
<1>g. found \in [Calls -> [status : Statuses \cup Rates, code : Codes \cup {None}, draws : Nat]]
  BY <1>t DEF CallTypes
<1>r. ASSUME NEW told \in {"NOT_FOUND", "ALREADY_DECIDED", "INTERNAL"}, Rollback(c, told)
      PROVE  LocksHeld(c)' /\ StillTrue(c)' /\ Drawn(c)'
  <2>1. pc'[c] = "done" /\ outcome'[c].told # "saved"
    BY <1>r, <1>t DEF Rollback, End, goto, CallTypes
  <2> QED
    BY <2>1, Ended
<1>1. CASE Receive(c)
  <2>1. CASE waiting(c) /\ Take(c, record(c), NoKeyUpdate) /\ goto(c, "commitReceipt")
    <3>1. GoesOnTo(c, "commitReceipt")
      BY <1>1, <2>1 DEF Receive, GoesOnTo, quiet, records, settings
    <3>2. Held(c, record(c), NoKeyUpdate)'
      BY <1>t, <2>1, <3>1, Taking DEF Held, record, GoesOnTo
    <3>3. LocksHeld(c)'
      BY <1>t, <3>1, <3>2, Going DEF LocksHeld
    <3>4. StillTrue(c)'
      BY <1>k, <1>t, <1>1, <2>1, <3>1, Going DEF StillTrue, StatusOf, waiting, Receive
    <3>5. Drawn(c)'
      BY <1>t, <1>1, <3>1, Going DEF Drawn, HasCode, Receive
    <3> QED
      BY <3>3, <3>4, <3>5
  <2>2. CASE ~waiting(c) /\ goto(c, "readReceipt")
    <3>1. GoesOnTo(c, "readReceipt")
      BY <1>1, <2>2 DEF Receive, GoesOnTo, quiet, records, settings
    <3>2. LocksHeld(c)'
      BY <1>t, <3>1, Going DEF LocksHeld
    <3>3. ask[c].record \in Ours => StatusOf(c) = "RECEIVED_BY_INSURER"
      BY <1>1, <1>k, <1>t, <2>2 DEF waiting, ClaimsMove, StatusOf, Receive
    <3>4. StillTrue(c)'
      BY <1>k, <1>t, <1>1, <3>1, <3>3, Going DEF StillTrue, StatusOf, Receive
    <3>5. Drawn(c)'
      BY <1>t, <1>1, <3>1, Going DEF Drawn, HasCode, Receive
    <3> QED
      BY <3>2, <3>4, <3>5
  <2> QED
    BY <1>1, <2>1, <2>2 DEF Receive
<1>2. CASE CommitReceipt(c)
  <2>1. /\ ask'[c] = ask[c] /\ ask[c].record \in Records /\ pc'[c] = "done"
        /\ outcome'[c].result = ask[c].choice
        /\ rows' = [rows EXCEPT ![ask[c].record] = [status |-> "RECEIVED_BY_INSURER",
                                                    result |-> ask[c].choice]]
    BY <1>2, <1>k, <1>n, <1>t DEF CommitReceipt, End, move, goto, CallTypes
  <2>2. rows'[ask[c].record] = [status |-> "RECEIVED_BY_INSURER", result |-> ask[c].choice]
    BY <1>t, <2>1 DEF RecordTypes
  <2> QED
    BY <2>1, <2>2, Ended
<1>3. CASE ReadReceipt(c)
  <2>1. CASE ask[c].record \in Ours
    <3>1. /\ ask'[c] = ask[c] /\ ask[c].record \in Records /\ pc'[c] = "done" /\ rows' = rows
          /\ outcome'[c].result = rows[ask[c].record].result
          /\ rows[ask[c].record].status = "RECEIVED_BY_INSURER"
      BY <1>3, <1>k, <1>n, <1>t, <2>1 DEF ReadReceipt, End, goto, CallTypes, StillTrue, StatusOf, records
    <3>2. rows[ask[c].record] \in [status : Statuses, result : Results]
      BY <1>t, <3>1 DEF RecordTypes
    <3>3. rows[ask[c].record] = [status |-> rows[ask[c].record].status,
                                 result |-> rows[ask[c].record].result]
      BY <3>2
    <3> QED
      BY <3>1, <3>3, Ended
  <2>2. CASE ask[c].record \notin Ours
    <3>1. pc'[c] = "done" /\ outcome'[c].told # "saved"
      BY <1>3, <1>t, <2>2 DEF ReadReceipt, End, goto, CallTypes
    <3> QED
      BY <3>1, Ended
  <2> QED
    BY <2>1, <2>2
<1>4. CASE LockApplication(c)
  <2>1. CASE \E told \in {"NOT_FOUND", "ALREADY_DECIDED"} : Refuse(c, told)
    BY <1>r, <2>1 DEF Refuse
  <2>2. ASSUME NEW l \in {"drawCode", "decide"}, goto(c, l), l = "decide" <=> ask[c].choice # "APPROVED",
               rows[ask[c].record].status # None, canDecideNcd(rows[ask[c].record].status),
               Take(c, record(c), ForUpdate), UNCHANGED outcome, quiet,
               found' = [found EXCEPT ![c].status = rows[ask[c].record].status]
        PROVE  LocksHeld(c)' /\ StillTrue(c)' /\ Drawn(c)'
    <3>1. GoesOnTo(c, l)
      BY <1>4, <2>2 DEF LockApplication, GoesOnTo, quiet, records, settings
    <3>2. Held(c, record(c), ForUpdate)'
      BY <1>t, <2>2, <3>1, Taking DEF Held, record, GoesOnTo
    <3>3. found'[c].status = rows[ask[c].record].status /\ found'[c].code = found[c].code
      BY <1>g, <2>2
    <3>4. LocksHeld(c)'
      BY <1>t, <2>2, <3>1, <3>2, Going DEF LocksHeld
    <3>5. StillTrue(c)'
      BY <1>4, <1>k, <1>t, <2>2, <3>1, <3>3, Going DEF StillTrue, StatusOf, canDecideNcd, LockApplication
    <3>6. found[c].code = None
      BY <1>4, <1>t DEF Drawn, HasCode, LockApplication
    <3>7. Drawn(c)'
      BY <1>t, <1>n, <2>2, <3>1, <3>3, <3>6, Going DEF Drawn, HasCode, RecordTypes
    <3> QED
      BY <3>4, <3>5, <3>7
  <2> QED
    BY <1>4, <2>1, <2>2 DEF LockApplication
<1>5. CASE DrawCode(c)
  <2>1. CASE Refuse(c, "INTERNAL")
    BY <1>r, <2>1 DEF Refuse
  <2>2. ASSUME NEW k \in Codes, k \notin codes, found' = [found EXCEPT ![c].code = k],
               goto(c, "decide"), UNCHANGED <<outcome, locks>>, quiet
        PROVE  LocksHeld(c)' /\ StillTrue(c)' /\ Drawn(c)'
    <3>1. GoesOnTo(c, "decide")
      BY <1>5, <2>2 DEF DrawCode, GoesOnTo, quiet, records, settings
    <3>2. found'[c].status = found[c].status /\ found'[c].code = k
      BY <1>g, <2>2
    <3>3. LocksHeld(c)'
      BY <1>5, <1>t, <2>2, <3>1, Going DEF LocksHeld, DrawCode, Held, record
    <3>4. StillTrue(c)'
      BY <1>5, <1>k, <1>t, <3>1, <3>2, Going DEF StillTrue, StatusOf, DrawCode
    <3>5. ask[c].choice = "APPROVED"
      BY <1>5, <1>t DEF Drawn, DrawCode
    <3>6. Drawn(c)'
      BY <1>n, <2>2, <3>1, <3>2, <3>5, <1>t, Going DEF Drawn, HasCode
    <3> QED
      BY <3>3, <3>4, <3>6
  <2>3. CASE found' = [found EXCEPT ![c].draws = @ + 1] /\ UNCHANGED <<pc, outcome, locks>> /\ quiet
    <3>1. /\ found'[c].status = found[c].status /\ found'[c].code = found[c].code
          /\ UNCHANGED <<ask, outcome, rows, codes, insurer, rate>>
      BY <1>g, <2>3 DEF quiet, records, settings
    <3> QED
      BY <1>5, <1>t, <2>3, <3>1 DEF LocksHeld, StillTrue, Drawn, HasCode, DrawCode, StatusOf, Held,
         record, insurerRow, rateRow
  <2> QED
    BY <1>5, <2>1, <2>2, <2>3 DEF DrawCode
<1>6. CASE Decide(c)
  <2>1. CASE Refuse(c, "ALREADY_DECIDED")
    BY <1>r, <2>1 DEF Refuse
  <2>2. CASE goto(c, "commitDecision") /\ UNCHANGED <<found, outcome, locks>> /\ quiet
    <3>1. GoesOnTo(c, "commitDecision")
      BY <1>6, <2>2 DEF Decide, GoesOnTo, quiet, records, settings
    <3>3. LocksHeld(c)'
      BY <1>6, <1>t, <2>2, <3>1, Going DEF LocksHeld, Decide, Held, record
    <3>4. StillTrue(c)'
      BY <1>6, <1>k, <1>t, <2>2, <3>1, Going DEF StillTrue, StatusOf, Decide
    <3>6. Drawn(c)'
      BY <1>6, <2>2, <3>1, <1>t, Going DEF Drawn, HasCode, Decide
    <3> QED
      BY <3>3, <3>4, <3>6
  <2> QED
    BY <1>6, <2>1, <2>2 DEF Decide
<1>7. CASE CommitDecision(c) \/ CommitApplication(c) \/ CommitStatus(c) \/ CommitRate(c)
  <2>1. pc'[c] = "done" /\ ask'[c] = ask[c] /\ ask[c].kind # "acknowledge"
    BY <1>7, <1>k, <1>t DEF CommitDecision, CommitApplication, CommitStatus, CommitRate, End, goto,
       CallTypes
  <2> QED
    BY <2>1, Ended
<1>8. CASE ShareInsurer(c)
  <2>1. CASE Refuse(c, "NOT_FOUND")
    BY <1>r, <2>1 DEF Refuse
  <2>2. CASE /\ insurer = "ACTIVE" /\ Take(c, insurerRow, ForShare) /\ goto(c, "commitApplication")
             /\ UNCHANGED <<found, outcome>> /\ quiet
    <3>1. GoesOnTo(c, "commitApplication")
      BY <1>8, <2>2 DEF ShareInsurer, GoesOnTo, quiet, records, settings
    <3>2. Held(c, insurerRow, ForShare)'
      BY <1>t, <2>2, <3>1, Taking DEF Held, insurerRow
    <3>3. LocksHeld(c)'
      BY <1>t, <3>1, <3>2, Going DEF LocksHeld
    <3>4. StillTrue(c)'
      BY <1>8, <1>k, <1>t, <2>2, <3>1, Going DEF StillTrue, StatusOf, ShareInsurer
    <3>6. Drawn(c)'
      BY <1>8, <2>2, <3>1, <1>t, Going DEF Drawn, HasCode, ShareInsurer
    <3> QED
      BY <3>3, <3>4, <3>6
  <2> QED
    BY <1>8, <2>1, <2>2 DEF ShareInsurer
<1>9. CASE LockInsurer(c)
  <2>1. GoesOnTo(c, "commitStatus") /\ UNCHANGED found /\ Take(c, insurerRow, ForUpdate)
    BY <1>9 DEF LockInsurer, GoesOnTo, quiet, records, settings
  <2>2. Held(c, insurerRow, ForUpdate)'
    BY <1>t, <2>1, Taking DEF Held, insurerRow
  <2>3. LocksHeld(c)'
    BY <1>t, <2>1, <2>2, Going DEF LocksHeld
  <2>4. StillTrue(c)'
    BY <1>9, <1>k, <1>t, <2>1, Going DEF StillTrue, StatusOf, LockInsurer
  <2>5. Drawn(c)'
    BY <1>9, <2>1, <1>t, Going DEF Drawn, HasCode, LockInsurer
  <2> QED
    BY <2>3, <2>4, <2>5
<1>10. CASE LockRate(c)
  <2>1. /\ GoesOnTo(c, "saveRate") /\ found' = [found EXCEPT ![c].status = rate]
        /\ rate # None => Take(c, rateRow, ForUpdate)
    BY <1>10 DEF LockRate, GoesOnTo, quiet, records, settings
  <2>2. found'[c].status = rate /\ found'[c].code = found[c].code
    BY <1>g, <2>1
  <2>3. rate # None => Held(c, rateRow, ForUpdate)'
    BY <1>t, <2>1, Taking DEF Held, rateRow
  <2>4. LocksHeld(c)'
    BY <1>t, <2>1, <2>2, <2>3, Going DEF LocksHeld
  <2>5. StillTrue(c)'
    BY <1>10, <1>k, <1>t, <2>1, <2>2, Going DEF StillTrue, StatusOf, LockRate
  <2>6. Drawn(c)'
    BY <1>10, <2>1, <2>2, <1>t, Going DEF Drawn, HasCode, LockRate
  <2> QED
    BY <2>4, <2>5, <2>6
<1>11. CASE SaveRate(c)
  <2>1. /\ GoesOnTo(c, "commitRate") /\ UNCHANGED found /\ Take(c, rateRow, NoKeyUpdate)
    BY <1>11 DEF SaveRate, GoesOnTo, quiet, records, settings
  <2>2. /\ Held(c, rateRow, NoKeyUpdate)'
        /\ Held(c, rateRow, ForUpdate) => Held(c, rateRow, ForUpdate)'
    BY <1>t, <2>1, Taking DEF Held, rateRow
  <2>4. LocksHeld(c)'
    BY <1>11, <1>t, <2>1, <2>2, Going DEF LocksHeld, SaveRate
  <2>5. StillTrue(c)'
    BY <1>11, <1>k, <1>t, <2>1, <2>2, Going DEF StillTrue, StatusOf, SaveRate
  <2>6. Drawn(c)'
    BY <1>11, <2>1, <2>2, <1>t, Going DEF Drawn, HasCode, SaveRate
  <2> QED
    BY <2>4, <2>5, <2>6
<1>12. CASE Fail(c)
  BY <1>12, <1>r DEF Fail
<1> QED
  BY <1>1, <1>2, <1>3, <1>4, <1>5, <1>6, <1>7, <1>8, <1>9, <1>10, <1>11, <1>12 DEF ServerStep

(* A record gets its next status, and its history the transition.          *)
LEMMA Moved ==
  ASSUME RecordTypes, NEW r \in Records, NEW to, NEW result,
         rows' = [rows EXCEPT ![r] = [status |-> to, result |-> result]]
  PROVE  /\ rows'[r] = [status |-> to, result |-> result]
         /\ rows'[r].status = to /\ rows'[r].result = result
         /\ \A q \in Records \ {r} : rows'[q] = rows[q]
BY DEF RecordTypes

LEMMA Told ==
  ASSUME RecordTypes, NEW r \in Records, NEW from, NEW to, NEW result, move(r, from, to, result)
  PROVE  /\ history'[r] = Append(history[r], <<from, to>>)
         /\ \A q \in Records \ {r} : history'[q] = history[q]
<1>1. PICK t : t = <<from, to>>
  OBVIOUS
<1>2. PICK H : history \in [Records -> H]
  BY DEF RecordTypes
<1>3. history' = [history EXCEPT ![r] = Append(history[r], t)]
  BY <1>1 DEF move
<1>4. history'[r] = Append(history[r], t) /\ \A q \in Records \ {r} : history'[q] = history[q]
  BY <1>2, <1>3
<1> QED
  BY <1>1, <1>4

(* A transition from where the history ends continues the account.         *)
IsAccount(h, s) ==
  /\ \A i \in 2..Len(h) : h[i][1] = h[i - 1][2]
  /\ s = IF h = <<>> THEN None ELSE h[Len(h)][2]

LEMMA Continued ==
  ASSUME NEW T, NEW h \in Seq(T), NEW s, NEW to, IsAccount(h, s)
  PROVE  IsAccount(Append(h, <<s, to>>), to) /\ Len(Append(h, <<s, to>>)) = Len(h) + 1
<1>0. PICK t : t = <<s, to>>
  OBVIOUS
<1>1. t[1] = s /\ t[2] = to
  BY <1>0
<1>2. PICK n \in Nat : n = Len(h)
  OBVIOUS
<1>3. PICK g : g = Append(h, t)
  OBVIOUS
<1>4. Len(g) = n + 1 /\ g[n + 1] = t /\ g # <<>> /\ \A i \in 1..n : g[i] = h[i]
  BY <1>2, <1>3
<1>5. h = <<>> <=> n = 0
  BY <1>2
<1>6. ASSUME NEW i \in 2..n + 1 PROVE g[i][1] = g[i - 1][2]
  <2>1. CASE i \in 2..n
    <3>1. g[i] = h[i] /\ g[i - 1] = h[i - 1]
      BY <1>2, <1>4, <2>1
    <3>2. h[i][1] = h[i - 1][2]
      BY <1>2, <2>1 DEF IsAccount
    <3> QED
      BY <3>1, <3>2
  <2>2. CASE i = n + 1
    <3>1. i - 1 = n /\ n \in 1..n /\ g[i] = t /\ g[i - 1] = h[n]
      BY <1>2, <1>4, <1>6, <2>2
    <3>2. s = h[n][2]
      BY <1>2, <1>5, <1>6, <2>2 DEF IsAccount
    <3> QED
      BY <1>1, <3>1, <3>2
  <2> QED
    BY <1>2, <1>6, <2>1, <2>2
<1>7. to = g[Len(g)][2]
  BY <1>1, <1>4
<1>8. IsAccount(g, to)
  BY <1>4, <1>6, <1>7 DEF IsAccount
<1> QED
  BY <1>0, <1>2, <1>3, <1>4, <1>8

LEMMA HistoryGoesOn ==
  ASSUME RecordTypes, HistoryIsTheRecord, NEW r \in Records, NEW to, NEW result,
         move(r, rows[r].status, to, result)
  PROVE  /\ HistoryIsTheRecord'
         /\ \A q \in Records : Len(history'[q]) \in Nat /\ Len(history'[q]) >= Len(history[q])
<1>1. \A q \in Records : IsAccount(history[q], rows[q].status)
  BY DEF HistoryIsTheRecord, IsAccount
<1>2. PICK T : history \in [Records -> Seq(T)]
  BY DEF RecordTypes
<1>3. \A q \in Records : history[q] \in Seq(T) /\ Len(history[q]) \in Nat
  BY <1>2
<1>4. PICK a : a = Append(history[r], <<rows[r].status, to>>)
  OBVIOUS
<1>5. IsAccount(a, to) /\ Len(a) = Len(history[r]) + 1
  BY <1>1, <1>3, <1>4, Continued
<1>6. /\ history'[r] = a /\ rows'[r].status = to
      /\ \A q \in Records \ {r} : rows'[q] = rows[q] /\ history'[q] = history[q]
  <2>1. history'[r] = a /\ \A q \in Records \ {r} : history'[q] = history[q]
    BY <1>4, Told
  <2>2. rows'[r].status = to /\ \A q \in Records \ {r} : rows'[q] = rows[q]
    BY Moved DEF move
  <2> QED
    BY <2>1, <2>2
<1>7. \A q \in Records : IsAccount(history'[q], rows'[q].status)
  BY <1>1, <1>5, <1>6
<1>8. \A q \in Records : Len(history'[q]) \in Nat /\ Len(history'[q]) >= Len(history[q])
  BY <1>3, <1>5, <1>6
<1> QED
  BY <1>7, <1>8 DEF HistoryIsTheRecord, IsAccount

(* The transitions the commits record start where the record is.           *)
CommitsMove(c) ==
  \E to, result :
    /\ move(ask[c].record, rows[ask[c].record].status, to, result)
    /\ ask[c].record \in Records /\ UNCHANGED <<insurer, rate, rates>>
    /\ \/ /\ CommitReceipt(c) /\ to = "RECEIVED_BY_INSURER" /\ UNCHANGED codes
          /\ ask[c].record \in Claims
       \/ /\ CommitDecision(c) /\ to = ask[c].choice /\ result = found[c].code
          /\ codes' = codes \cup ({found[c].code} \ {None})
          /\ ask[c].record \in Applications
       \/ /\ CommitApplication(c) /\ to = "SUBMITTED" /\ result = None /\ UNCHANGED codes
          /\ ask[c].record \in Applications

LEMMA Commitments ==
  ASSUME IInv, NEW c \in Calls, CommitReceipt(c) \/ CommitDecision(c) \/ CommitApplication(c)
  PROVE  CommitsMove(c)
<1>1. CallTypes /\ StillTrue(c)
  BY DEF IInv, TypeOK, Server
<1>2. CASE CommitReceipt(c)
  <2>1. ask[c].record \in Claims /\ ask[c].record \in Records
    BY <1>1, <1>2, Kinds, SetUp DEF CommitReceipt
  <2>2. move(ask[c].record, rows[ask[c].record].status, "RECEIVED_BY_INSURER", ask[c].choice)
    BY <1>1, <1>2 DEF CommitReceipt, StillTrue, StatusOf
  <2> QED
    BY <1>2, <2>1, <2>2 DEF CommitsMove, CommitReceipt, settings
<1>3. CASE CommitDecision(c)
  <2>1. ask[c].record \in Applications /\ ask[c].record \in Records
    BY <1>1, <1>3, Kinds, SetUp DEF CommitDecision
  <2>2. move(ask[c].record, rows[ask[c].record].status, ask[c].choice, found[c].code)
    BY <1>1, <1>3 DEF CommitDecision, decidedFrom, StillTrue, StatusOf
  <2> QED
    BY <1>3, <2>1, <2>2 DEF CommitsMove, CommitDecision, settings
<1>4. CASE CommitApplication(c)
  <2>1. ask[c].kind = "apply" /\ ask[c].record \in Applications /\ ask[c].record \in Records
    BY <1>1, <1>4, Kinds, SetUp DEF CommitApplication
  <2>2. move(ask[c].record, rows[ask[c].record].status, "SUBMITTED", None)
    BY <1>1, <1>4, <2>1 DEF CommitApplication, StillTrue, StatusOf
  <2> QED
    BY <1>4, <2>1, <2>2 DEF CommitsMove, CommitApplication, settings
<1> QED
  BY <1>2, <1>3, <1>4

LEMMA OthersTrue ==
  ASSUME IInv, NEW c \in Calls, ServerStep(c), NEW b \in Calls \ {c}
  PROVE  StillTrue(b)' /\ Drawn(b)'
<1>t. /\ RecordTypes /\ CallTypes /\ LocksExclude /\ LocksHeld(b) /\ StillTrue(b) /\ Drawn(b)
      /\ LocksHeld(c) /\ StillTrue(c) /\ Drawn(c) /\ DrawnApart /\ AppliedOnce
  BY DEF IInv, TypeOK, Server
<1>s. /\ ask' = ask /\ pc'[b] = pc[b] /\ found'[b] = found[b] /\ outcome'[b] = outcome[b]
  BY OthersGoOn DEF IInv, Server
<1>k. /\ pc[b] \in {"commitReceipt", "readReceipt"} => ask[b].kind = "acknowledge"
      /\ pc[b] \in {"drawCode", "decide", "commitDecision"} => ask[b].kind = "decide"
      /\ pc[b] \in {"commitApplication"} => ask[b].kind = "apply"
      /\ ask[b].kind = "acknowledge" => ask[b].record \in Claims
      /\ ask[b].kind \in {"decide", "apply"} => ask[b].record \in Applications
      /\ pc[c] = "commitReceipt" => ask[c].kind = "acknowledge"
      /\ pc[c] = "commitDecision" => ask[c].kind = "decide"
      /\ pc[c] = "commitApplication" => ask[c].kind = "apply"
  BY <1>t, Kinds
<1>o. Claims \cap Applications = {} /\ Claims \cup Applications = Records /\ None \notin Codes
  BY SetUp DEF Records
<1>1. CASE UNCHANGED <<rows, codes, insurer, rate>>
  BY <1>1, <1>s, <1>t DEF StillTrue, Drawn, HasCode, StatusOf
<1>2. CASE CommitReceipt(c) \/ CommitDecision(c) \/ CommitApplication(c)
  <2>1. PICK to, result :
          /\ move(ask[c].record, rows[ask[c].record].status, to, result)
          /\ ask[c].record \in Records /\ UNCHANGED <<insurer, rate, rates>>
          /\ \/ /\ CommitReceipt(c) /\ to = "RECEIVED_BY_INSURER" /\ UNCHANGED codes
                /\ ask[c].record \in Claims
             \/ /\ CommitDecision(c) /\ to = ask[c].choice /\ result = found[c].code
                /\ codes' = codes \cup ({found[c].code} \ {None})
                /\ ask[c].record \in Applications
             \/ /\ CommitApplication(c) /\ to = "SUBMITTED" /\ result = None /\ UNCHANGED codes
                /\ ask[c].record \in Applications
    BY <1>2, Commitments DEF CommitsMove
  <2>2. rows'[ask[c].record].status = to /\ \A q \in Records \ {ask[c].record} : rows'[q] = rows[q]
    BY <1>t, <2>1, Moved DEF move
  <2>3. Drawn(b)'
    <3>1. CASE UNCHANGED codes
      BY <1>s, <1>t, <3>1 DEF Drawn, HasCode
    <3>2. CASE CommitDecision(c) /\ codes' = codes \cup ({found[c].code} \ {None})
      <4>1. HasCode(c)
        BY <3>2 DEF CommitDecision, HasCode
      <4>2. HasCode(b) => found[b].code = None \/ found[b].code # found[c].code
        BY <1>t, <4>1 DEF DrawnApart
      <4>3. HasCode(b) => found[b].code \notin codes'
        BY <1>t, <3>2, <4>2 DEF Drawn
      <4> QED
        BY <1>s, <1>t, <4>3 DEF Drawn, HasCode
    <3> QED
      BY <2>1, <3>1, <3>2
  <2>4. CASE ask[b].record # ask[c].record
    <3>1. ask[b].kind \in {"acknowledge", "decide", "apply"} => rows'[ask[b].record] = rows[ask[b].record]
      BY <1>k, <1>o, <2>2, <2>4
    <3> QED
      BY <1>k, <1>s, <1>t, <2>1, <2>3, <3>1 DEF StillTrue, StatusOf
  <2>5. CASE ask[b].record = ask[c].record
    <3>0. record(b) = record(c)
      BY <2>5 DEF record
    <3>1. CASE CommitReceipt(c) /\ to = "RECEIVED_BY_INSURER" /\ ask[c].record \in Claims
      <4>1. pc[b] # "commitReceipt"
        BY <1>t, <3>0, <3>1, Apart, Conflicts DEF CommitReceipt, LocksHeld
      <4>2. ~(ask[b].kind = "acknowledge" /\ outcome[b].told = "saved")
        BY <1>t, <2>5, <3>1 DEF CommitReceipt, StillTrue, StatusOf
      <4>3. ask[b].kind \notin {"decide", "apply"}
        BY <1>k, <1>o, <2>5, <3>1
      <4> QED
        BY <1>k, <1>s, <1>t, <2>1, <2>2, <2>3, <2>5, <3>1, <4>1, <4>2, <4>3 DEF StillTrue, StatusOf
    <3>2. CASE CommitDecision(c) /\ ask[c].record \in Applications
      <4>1. pc[b] \notin {"drawCode", "decide", "commitDecision"}
        BY <1>t, <3>0, <3>2, Apart, Conflicts DEF CommitDecision, LocksHeld
      <4>2. ~(ask[b].kind = "apply" /\ pc[b] # "done")
        BY <1>t, <2>5, <3>2 DEF CommitDecision, StillTrue, StatusOf
      <4>3. ask[b].kind # "acknowledge"
        BY <1>k, <1>o, <2>5, <3>2
      <4> QED
        BY <1>k, <1>s, <1>t, <2>1, <2>3, <4>1, <4>2, <4>3 DEF StillTrue
    <3>3. CASE CommitApplication(c) /\ ask[c].record \in Applications
      <4>1. StatusOf(c) = None
        BY <1>k, <1>t, <3>3 DEF CommitApplication, StillTrue
      <4>2. pc[b] \notin {"drawCode", "decide", "commitDecision"}
        BY <1>t, <2>5, <4>1 DEF StillTrue, StatusOf
      <4>3. ask[b].kind # "acknowledge" /\ ask[b].kind # "apply"
        BY <1>k, <1>o, <1>t, <2>5, <3>3 DEF CommitApplication, AppliedOnce
      <4> QED
        BY <1>k, <1>s, <1>t, <2>1, <2>3, <4>2, <4>3 DEF StillTrue
    <3> QED
      BY <2>1, <3>1, <3>2, <3>3
  <2> QED
    BY <2>3, <2>4, <2>5
<1>3. CASE CommitStatus(c)
  <2>1. pc[b] # "commitApplication"
    BY <1>3, <1>t, Apart, Conflicts DEF CommitStatus, LocksHeld
  <2>2. UNCHANGED <<rows, codes, rate>>
    BY <1>3 DEF CommitStatus, records
  <2> QED
    BY <1>s, <1>t, <2>1, <2>2 DEF StillTrue, Drawn, HasCode, StatusOf
<1>4. CASE CommitRate(c)
  <2>1. pc[b] \in {"saveRate", "commitRate"} => found[b].status = None
    BY <1>4, <1>t, Apart, Conflicts DEF CommitRate, LocksHeld
  <2>2. UNCHANGED <<rows, codes, insurer>>
    BY <1>4 DEF CommitRate, records
  <2> QED
    BY <1>s, <1>t, <2>1, <2>2 DEF StillTrue, Drawn, HasCode, StatusOf
<1> QED
  BY <1>1, <1>2, <1>3, <1>4, OnlyCommitsWrite DEF Commits

(* A code that is drawn is nobody else's: one in use is drawn again, one   *)
(* just inserted is waited for.                                            *)
LEMMA DrawnStayApart ==
  ASSUME IInv, NEW c \in Calls, ServerStep(c)
  PROVE  DrawnApart'
<1>t. CallTypes /\ DrawnApart /\ \A b \in Calls : Drawn(b)
  BY DEF IInv, TypeOK, Server
<1>s. \A b \in Calls \ {c} : pc'[b] = pc[b] /\ found'[b] = found[b]
  BY OthersGoOn DEF IInv, Server
<1>n. None \notin Codes
  BY SetUp
<1>1. ASSUME HasCode(c)' => \/ HasCode(c) /\ found'[c].code = found[c].code
                            \/ found'[c].code = None
      PROVE  DrawnApart'
  BY <1>1, <1>s, <1>t DEF DrawnApart, HasCode
<1>2. CASE DrawCode(c)
  <2>1. ASSUME NEW k \in Codes \ pending(c), found' = [found EXCEPT ![c].code = k]
        PROVE  DrawnApart'
    <3>1. found'[c].code = k /\ k # None
      BY <1>n, <1>t, <2>1 DEF CallTypes
    <3>2. ASSUME NEW b \in Calls \ {c}, HasCode(b) PROVE found[b].code # k
      BY <1>n, <2>1, <3>2 DEF pending, HasCode
    <3>3. \A b \in Calls \ {c} : HasCode(b)' => found'[b].code # k
      BY <1>s, <3>2 DEF HasCode
    <3>4. ASSUME NEW a \in Calls, NEW b \in Calls, a # b, HasCode(a)', HasCode(b)',
                 found'[a].code = found'[b].code
          PROVE  found'[b].code = None
      <4>1. a # c /\ b # c
        BY <3>1, <3>3, <3>4
      <4>2. HasCode(a) /\ HasCode(b) /\ found[a].code = found[b].code
        BY <1>s, <3>4, <4>1 DEF HasCode
      <4> QED
        BY <1>s, <1>t, <3>4, <4>1, <4>2 DEF DrawnApart
    <3> QED
      BY <3>4 DEF DrawnApart
  <2>2. CASE pc' = pc
    BY <1>1, <1>2, <2>2 DEF DrawCode, HasCode
  <2>3. CASE Refuse(c, "INTERNAL")
    <3>1. ~HasCode(c)'
      BY <1>t, <2>3 DEF Refuse, Rollback, End, goto, HasCode, CallTypes
    <3> QED
      BY <1>1, <3>1
  <2> QED
    BY <1>2, <2>1, <2>2, <2>3 DEF DrawCode
<1>3. CASE LockApplication(c)
  <2>0. found[c].code = None
    BY <1>3, <1>t DEF Drawn, HasCode, LockApplication
  <2>1. CASE found' = [found EXCEPT ![c].status = rows[ask[c].record].status]
    <3>1. found'[c].code = found[c].code
      BY <1>t, <2>1 DEF CallTypes
    <3> QED
      BY <1>1, <2>0, <3>1
  <2>2. CASE \E told \in {"NOT_FOUND", "ALREADY_DECIDED"} : Refuse(c, told)
    <3>1. ~HasCode(c)'
      BY <1>t, <2>2 DEF Refuse, Rollback, End, goto, HasCode, CallTypes
    <3> QED
      BY <1>1, <3>1
  <2> QED
    BY <1>3, <2>1, <2>2 DEF LockApplication
<1>4. CASE Decide(c)
  <2>1. HasCode(c) /\ found' = found
    BY <1>4 DEF Decide, HasCode, Refuse, Rollback, End
  <2> QED
    BY <1>1, <2>1
<1>5. CASE ~(LockApplication(c) \/ DrawCode(c) \/ Decide(c))
  <2>1. ~HasCode(c)'
    BY <1>5, <1>t DEF ServerStep, Receive, CommitReceipt, ReadReceipt, CommitDecision, ShareInsurer,
       CommitApplication, LockInsurer, CommitStatus, LockRate, SaveRate, CommitRate, Fail, Refuse,
       Rollback, End, goto, HasCode, CallTypes
  <2> QED
    BY <1>1, <2>1
<1> QED
  BY <1>2, <1>3, <1>4, <1>5

LEMMA RecordsStayTrue ==
  ASSUME IInv, NEW c \in Calls, ServerStep(c)
  PROVE  /\ ClaimsMove' /\ RateIsLast' /\ Carried' /\ HistoriesAreChains'
         /\ \A q \in Records : Len(history'[q]) \in Nat /\ Len(history'[q]) >= Len(history[q])
<1>t. /\ RecordTypes /\ CallTypes /\ StillTrue(c) /\ Drawn(c) /\ ClaimsMove /\ RateIsLast /\ Carried
      /\ FirstRate /\ HistoryIsTheRecord /\ RateHistoryIsAChain
  BY DEF IInv, TypeOK, Server, HistoriesAreChains
<1>l. \A q \in Records : Len(history[q]) \in Nat
  <2>1. PICK T : history \in [Records -> Seq(T)]
    BY <1>t DEF RecordTypes
  <2> QED
    BY <2>1
<1>o. /\ Claims \cap Applications = {} /\ Claims \cup Applications = Records /\ None \notin Codes
      /\ None \notin Rates /\ Issued \subseteq Codes
      /\ None # "APPROVED"
  BY SetUp DEF Records
<1>1. CASE UNCHANGED <<rows, history, codes, insurer, rate, rates>>
  BY <1>1, <1>l, <1>t DEF ClaimsMove, RateIsLast, Carried, HistoriesAreChains, HistoryIsTheRecord,
     RateHistoryIsAChain
<1>2. CASE CommitReceipt(c) \/ CommitDecision(c) \/ CommitApplication(c)
  <2>1. PICK to, result :
          /\ move(ask[c].record, rows[ask[c].record].status, to, result)
          /\ ask[c].record \in Records /\ UNCHANGED <<insurer, rate, rates>>
          /\ \/ /\ CommitReceipt(c) /\ to = "RECEIVED_BY_INSURER" /\ UNCHANGED codes
                /\ ask[c].record \in Claims
             \/ /\ CommitDecision(c) /\ to = ask[c].choice /\ result = found[c].code
                /\ codes' = codes \cup ({found[c].code} \ {None})
                /\ ask[c].record \in Applications
             \/ /\ CommitApplication(c) /\ to = "SUBMITTED" /\ result = None /\ UNCHANGED codes
                /\ ask[c].record \in Applications
    BY <1>2, Commitments DEF CommitsMove
  <2>r. PICK r \in Records : r = ask[c].record /\ rows' = [rows EXCEPT ![r] = [status |-> to, result |-> result]]
    BY <2>1 DEF move
  <2>2. /\ rows'[r].status = to /\ rows'[r].result = result
        /\ \A q \in Records \ {r} : rows'[q] = rows[q]
    BY <1>t, <2>r DEF RecordTypes
  <2>3. /\ HistoryIsTheRecord'
        /\ \A q \in Records : Len(history'[q]) \in Nat /\ Len(history'[q]) >= Len(history[q])
    BY <1>t, <2>1, HistoryGoesOn
  <2>4. ClaimsMove'
    BY <1>o, <1>t, <2>1, <2>2, <2>r DEF ClaimsMove
  <2>5. RateIsLast' /\ RateHistoryIsAChain'
    BY <1>t, <2>1 DEF RateIsLast, RateHistoryIsAChain
  <2>6. Carried'
    <3>1. CASE r \in Claims /\ UNCHANGED codes
      <4>1. \A a \in Applications : rows'[a] = rows[a]
        BY <1>o, <2>2, <3>1
      <4> QED
        BY <1>t, <3>1, <4>1 DEF Carried
    <3>2. CASE r \in Applications /\ rows[r].result = None /\ result = None /\ to # "APPROVED"
               /\ UNCHANGED codes
      <4>1. \A a \in Applications : rows'[a].result = rows[a].result
        BY <1>o, <2>2, <3>2
      <4>2. \A a \in Applications : rows'[a].status = "APPROVED" <=> rows'[a].result # None
        BY <1>o, <1>t, <2>2, <3>2 DEF Carried
      <4> QED
        BY <1>t, <3>2, <4>1, <4>2 DEF Carried
    <3>3. CASE /\ r \in Applications /\ rows[r].result = None /\ to = "APPROVED"
               /\ result = found[c].code /\ result \in Codes \ codes /\ codes' = codes \cup {result}
      <4>1. /\ \A a \in Applications \ {r} : rows'[a].result = rows[a].result
            /\ rows'[r].result = result /\ result # None /\ result \notin Issued
        BY <1>o, <1>t, <2>2, <3>3 DEF Carried
      <4>2. \A a \in Applications : rows'[a].status = "APPROVED" <=> rows'[a].result # None
        BY <1>o, <1>t, <2>2, <3>3, <4>1 DEF Carried
      <4>3. \A a \in Applications : rows'[a].result \in (codes' \ Issued) \cup {None}
        BY <1>t, <3>3, <4>1 DEF Carried
      <4>4. ASSUME NEW k \in codes' \ Issued
            PROVE  \E a \in Applications : \A b \in Applications : rows'[b].result = k <=> b = a
        <5>1. CASE k \in codes
          <6>1. PICK a \in Applications : \A b \in Applications : rows[b].result = k <=> b = a
            BY <1>t, <4>4, <5>1 DEF Carried
          <6>2. a # r /\ k # result
            BY <1>o, <1>t, <3>3, <5>1, <6>1 DEF RecordTypes
          <6>3. \A b \in Applications : rows'[b].result = k <=> b = a
            BY <4>1, <6>1, <6>2
          <6> QED
            BY <6>3
        <5>2. CASE k = result
          <6>1. \A b \in Applications \ {r} : rows[b].result # k
            BY <1>o, <1>t, <3>3, <5>2 DEF Carried
          <6>2. \A b \in Applications : rows'[b].result = k <=> b = r
            BY <4>1, <5>2, <6>1
          <6> QED
            BY <3>3, <6>2
        <5> QED
          BY <3>3, <4>4, <5>1, <5>2
      <4> QED
        BY <1>t, <3>3, <4>2, <4>3, <4>4 DEF Carried
    <3>4. CASE CommitApplication(c)
      <4>1. rows[r].status = None
        BY <1>t, <2>r, <3>4, Kinds DEF CommitApplication, StillTrue, StatusOf
      <4>2. r \in Applications /\ result = None /\ to = "SUBMITTED" /\ UNCHANGED codes
        BY <2>1, <2>r, <3>4 DEF CommitApplication, CommitReceipt, CommitDecision
      <4>3. rows[r].result = None
        BY <1>o, <1>t, <4>1, <4>2 DEF Carried
      <4> QED
        BY <3>2, <4>2, <4>3
    <3>5. CASE CommitDecision(c)
      <4>1. /\ r \in Applications /\ to = ask[c].choice /\ result = found[c].code
            /\ codes' = codes \cup ({found[c].code} \ {None})
        BY <2>1, <2>r, <3>5 DEF CommitApplication, CommitReceipt, CommitDecision
      <4>2. rows[r].status # "APPROVED" /\ HasCode(c)
        BY <1>t, <2>r, <3>5 DEF CommitDecision, StillTrue, StatusOf, HasCode
      <4>3. rows[r].result = None
        BY <1>t, <4>1, <4>2 DEF Carried
      <4>4. /\ found[c].code # None <=> ask[c].choice = "APPROVED"
            /\ found[c].code \notin codes /\ found[c].code \in Codes \cup {None}
        BY <1>t, <4>2 DEF Drawn, CallTypes
      <4>5. CASE found[c].code = None
        BY <3>2, <4>1, <4>3, <4>4, <4>5
      <4>6. CASE found[c].code # None
        BY <3>3, <4>1, <4>3, <4>4, <4>6
      <4> QED
        BY <4>5, <4>6
    <3> QED
      BY <2>1, <2>r, <3>1, <3>4, <3>5
  <2> QED
    BY <2>3, <2>4, <2>5, <2>6 DEF HistoriesAreChains
<1>3. CASE CommitStatus(c)
  <2>1. UNCHANGED <<rows, history, codes, rate, rates>>
    BY <1>3 DEF CommitStatus, records
  <2> QED
    BY <1>l, <1>t, <2>1 DEF ClaimsMove, RateIsLast, Carried, HistoriesAreChains, HistoryIsTheRecord,
       RateHistoryIsAChain
<1>4. CASE CommitRate(c)
  <2>1. UNCHANGED <<rows, history, codes>>
    BY <1>4 DEF CommitRate, records
  <2>a. ask[c].choice \in Rates /\ found[c].status \in {None, rate}
    BY <1>4, <1>t, Kinds DEF CommitRate, StillTrue
  <2>b. PICK old, new : old = found[c].status /\ new = ask[c].choice
    OBVIOUS
  <2>2. new \in Rates /\ old \in {None, rate}
    BY <2>a, <2>b
  <2>3. PICK t : t = <<old, new>>
    OBVIOUS
  <2>4. t[1] = old /\ t[2] = new
    BY <2>3
  <2>5. rates' = Append(rates, t) /\ rate' = new
    BY <1>4, <2>b, <2>3 DEF CommitRate
  <2>6. PICK T : rates \in Seq(T)
    BY <1>t DEF RecordTypes
  <2>7. PICK n \in Nat : n = Len(rates)
    BY <2>6
  <2>8. PICK g : g = rates'
    OBVIOUS
  <2>h. PICK h \in Seq(T) : h = rates
    BY <2>6
  <2>i. g = Append(h, t) /\ n = Len(h)
    BY <2>5, <2>7, <2>8, <2>h
  <2>j. Len(g) = n + 1 /\ g[n + 1] = t /\ g # <<>> /\ \A i \in 1..n : g[i] = h[i]
    BY <2>i
  <2>9. Len(g) = n + 1 /\ g[n + 1] = t /\ g # <<>> /\ \A i \in 1..n : g[i] = rates[i]
    BY <2>h, <2>j
  <2>10. rates # <<>> <=> n # 0
    BY <2>6, <2>7
  <2>f. old = None /\ n # 0 => rates[1][1] = None
    BY <1>4, <1>t, <2>b, <2>10 DEF FirstRate, CommitRate
  <2>11. ASSUME NEW i \in 2..n + 1
         PROVE  g[i][1] = g[i - 1][2] \/ (g[i][1] = None /\ g[1][1] = None)
    <3>0. n # 0 /\ g[1] = rates[1]
      BY <2>7, <2>9, <2>11
    <3>1. CASE i \in 2..n
      <4>1. g[i] = rates[i] /\ g[i - 1] = rates[i - 1]
        BY <2>7, <2>9, <3>1
      <4>2. rates[i][1] = rates[i - 1][2] \/ (rates[i][1] = None /\ rates[1][1] = None)
        BY <1>t, <2>7, <3>1 DEF RateHistoryIsAChain
      <4> QED
        BY <3>0, <4>1, <4>2
    <3>2. CASE i = n + 1
      <4>1. i - 1 = n /\ n \in 1..n /\ g[i] = t /\ g[i - 1] = rates[n]
        BY <2>7, <2>9, <2>11, <3>2
      <4>2. rate = rates[n][2]
        BY <1>t, <2>7, <2>10, <4>1 DEF RateIsLast
      <4> QED
        BY <2>2, <2>4, <2>f, <3>0, <4>1, <4>2
    <3> QED
      BY <2>7, <2>11, <3>1, <3>2
  <2>12. RateHistoryIsAChain'
    BY <2>8, <2>9, <2>11 DEF RateHistoryIsAChain
  <2>13. RateIsLast'
    BY <1>o, <2>2, <2>4, <2>5, <2>8, <2>9 DEF RateIsLast
  <2>14. ClaimsMove' /\ Carried' /\ HistoryIsTheRecord'
    BY <1>t, <2>1 DEF ClaimsMove, Carried, HistoryIsTheRecord
  <2> QED
    BY <1>l, <2>1, <2>12, <2>13, <2>14 DEF HistoriesAreChains
<1> QED
  BY <1>1, <1>2, <1>3, <1>4, OnlyCommitsWrite DEF Commits

(* The first rate is committed by one that found none, or the rate was     *)
(* there before.                                                           *)
LEMMA FirstRateStays ==
  ASSUME IInv, NEW c \in Calls, ServerStep(c)
  PROVE  FirstRate'
<1>t. /\ RecordTypes /\ CallTypes /\ StillTrue(c) /\ RateIsLast /\ FirstRate
  BY DEF IInv, TypeOK, Server
<1>g. \A b \in Calls \ {c} : pc'[b] = pc[b] /\ found'[b] = found[b]
  BY OthersGoOn DEF IInv, Server
<1>1. CASE ~CommitRate(c)
  <2>1. UNCHANGED <<rate, rates>>
    BY <1>1 DEF ServerStep, Receive, CommitReceipt, ReadReceipt, LockApplication, DrawCode, Decide,
       CommitDecision, ShareInsurer, CommitApplication, LockInsurer, CommitStatus, LockRate,
       SaveRate, Fail, Refuse, Rollback, quiet, settings
  <2>2. ASSUME pc'[c] \in {"saveRate", "commitRate"}, found'[c].status = None
        PROVE  IF rates = <<>> THEN rate = None ELSE rates[1][1] = None
    <3>1. LockRate(c) \/ SaveRate(c)
      BY <1>1, <1>t, <2>2 DEF ServerStep, Receive, CommitReceipt, ReadReceipt, LockApplication,
         DrawCode, Decide, CommitDecision, ShareInsurer, CommitApplication, LockInsurer,
         CommitStatus, Fail, Refuse, Rollback, End, goto, CallTypes
    <3>2. CASE LockRate(c)
      <4>1. found'[c].status = rate
        BY <1>t, <3>2 DEF LockRate, CallTypes
      <4> QED
        BY <1>t, <2>2, <4>1 DEF RateIsLast
    <3>3. CASE SaveRate(c)
      BY <1>t, <2>2, <3>3 DEF SaveRate, FirstRate
    <3> QED
      BY <3>1, <3>2, <3>3
  <2> QED
    BY <1>g, <1>t, <2>1, <2>2 DEF FirstRate
<1>2. CASE CommitRate(c)
  <2>1. pc'[c] = "done"
    BY <1>2, <1>t DEF CommitRate, End, goto, CallTypes
  <2>2. PICK t : t = <<found[c].status, ask[c].choice>>
    OBVIOUS
  <2>3. t[1] = found[c].status /\ rates' = Append(rates, t)
    BY <1>2, <2>2 DEF CommitRate
  <2>4. PICK T : rates \in Seq(T)
    BY <1>t DEF RecordTypes
  <2>5. PICK h \in Seq(T) : h = rates
    BY <2>4
  <2>6. PICK g : g = Append(h, t)
    OBVIOUS
  <2>7. g # <<>> /\ g[1] = IF h = <<>> THEN t ELSE h[1]
    BY <2>6
  <2>8. ASSUME NEW b \in Calls \ {c}, pc[b] \in {"saveRate", "commitRate"}, found[b].status = None
        PROVE  g[1][1] = None
    <3>1. IF h = <<>> THEN rate = None ELSE h[1][1] = None
      BY <1>t, <2>5, <2>8 DEF FirstRate
    <3>2. rate = None => t[1] = None
      BY <1>2, <1>t, <2>3 DEF CommitRate, StillTrue
    <3> QED
      BY <2>7, <3>1, <3>2
  <2>9. rates' = g
    BY <2>3, <2>5, <2>6
  <2> QED
    BY <1>g, <2>1, <2>7, <2>8, <2>9 DEF FirstRate
<1> QED
  BY <1>1, <1>2

-----------------------------------------------------------------------------
(* A STEP OF THE PORTAL.                                                   *)

(* The records of the waiting clerks.                                      *)
LEMMA Followed ==
  ASSUME CallTypes, NEW c \in Calls, ask[c].who \in Patient
  PROVE  /\ ask[c].who \in Clerks /\ ask[c].record \in Ours /\ ask[c].record \in Records
         /\ ListOf(ask[c].record) \in Lists
BY Kinds, SetUp DEF ListOf, Lists

LEMMA PortalStays ==
  ASSUME IInv, NEW c \in Calls, ServerStep(c)
  PROVE  Portal'
<1>1. UNCHANGED <<ask, phase, loads, due, forgotten, shown>>
  BY OthersGoOn DEF IInv, Server, portal
<1>2. \A q \in Records : Len(history'[q]) \in Nat /\ Len(history'[q]) >= Len(history[q])
  BY RecordsStayTrue
<1>3. Waiting' /\ ReloadShowsChange'
  BY <1>1 DEF IInv, Portal, Waiting, busy, outstanding, ReloadShowsChange
<1>4. ASSUME NEW b \in Calls, Reported(b) PROVE due[b] <= Len(history'[ask[b].record])
  <2>1. ask[b].record \in Records /\ due[b] \in Nat /\ due[b] <= Len(history[ask[b].record])
    BY <1>4, Followed DEF IInv, TypeOK, PortalTypes, Portal, Fresh, Reported
  <2>2. PICK n \in Nat : n = Len(history'[ask[b].record])
    BY <1>2, <2>1
  <2>3. PICK T : history \in [Records -> Seq(T)]
    BY DEF IInv, TypeOK, RecordTypes
  <2>4. PICK m \in Nat : m = Len(history[ask[b].record])
    BY <2>1, <2>3
  <2> QED
    BY <1>2, <2>1, <2>2, <2>4
<1>5. Fresh'
  BY <1>1, <1>4 DEF IInv, Portal, Fresh, Reported
<1> QED
  BY <1>1, <1>3, <1>5 DEF IInv, Portal

LEMMA PortalMoves ==
  ASSUME IInv, NEW c \in Calls, Send(c) \/ PortalStep(c)
  PROVE  Portal'
<1>t. /\ RecordTypes /\ CallTypes /\ PortalTypes /\ Waiting /\ Fresh /\ ReloadShowsChange
      /\ \A b \in Calls : phase[b] # "over" => \A l \in Lists : loads[b][l].stage = "none"
  BY DEF IInv, TypeOK, Portal
<1>v. ASSUME NEW r \in Records PROVE Len(history[r]) \in Nat
  <2>1. PICK T : history \in [Records -> Seq(T)]
    BY <1>t DEF RecordTypes
  <2> QED
    BY <2>1
<1>1. CASE Send(c)
  <2>1. /\ UNCHANGED <<ask, history, loads, due, shown>> /\ phase'[c] = "sent" /\ phase[c] = "idle"
        /\ \A b \in Calls \ {c} : phase'[b] = phase[b]
    BY <1>1, <1>t DEF Send, PortalTypes, records
  <2>2. \A b \in Calls \ {c} : busy(b)' => busy(b)
    BY <2>1 DEF busy, outstanding
  <2>3. ask[c].who \in Patient => \A b \in Calls : ask[b].who = ask[c].who => ~busy(b)
    BY <1>1 DEF Send
  <2>4. Waiting'
    BY <1>t, <2>1, <2>2, <2>3 DEF Waiting
  <2>5. \A b \in Calls : Reported(b)' => Reported(b)
    BY <2>1 DEF Reported
  <2>6. Fresh'
    BY <1>t, <2>1, <2>5 DEF Fresh
  <2>7. ReloadShowsChange'
    BY <1>t, <2>1 DEF ReloadShowsChange
  <2> QED
    BY <1>t, <2>1, <2>4, <2>6, <2>7 DEF Portal
<1>2. CASE LeaveTab(c)
  <2>1. UNCHANGED <<ask, history, phase, loads, due, shown>>
    BY <1>2 DEF LeaveTab, records
  <2> QED
    BY <1>t, <2>1 DEF Portal, Waiting, busy, outstanding, Fresh, Reported, ReloadShowsChange
<1>3. ASSUME NEW told, Over(c, told) PROVE Portal'
  <2>1. /\ UNCHANGED <<ask, history, shown>> /\ phase'[c] = "over" /\ phase[c] = "sent"
        /\ \A b \in Calls \ {c} : phase'[b] = phase[b]
    BY <1>3, <1>t DEF Over, PortalTypes, records
  <2>2. /\ ask[c].who \in Clerks =>
              /\ \A l \in Lists : loads'[c][l].stage = "asked"
              /\ due'[c] = Len(history[ask[c].record])
        /\ ask[c].who \notin Clerks => loads' = loads /\ due' = due
        /\ \A b \in Calls \ {c} : loads'[b] = loads[b] /\ due'[b] = due[b]
    BY <1>3, OverTypes DEF IInv
  <2>3. busy(c) /\ \A b \in Calls \ {c} : busy(b)' => busy(b)
    BY <2>1, <2>2 DEF busy, outstanding
  <2>4. Waiting'
    BY <1>t, <2>1, <2>3 DEF Waiting
  <2>5. \A b \in Calls : phase'[b] # "over" => \A l \in Lists : loads'[b][l].stage = "none"
    BY <1>t, <2>1, <2>2
  <2>6. ASSUME NEW b \in Calls, NEW x \in Calls, Reported(x)'
        PROVE  /\ due'[x] <= Len(history[ask[x].record])
               /\ ask[b].who = ask[x].who /\ loads'[b][ListOf(ask[x].record)].stage = "served" =>
                    due'[x] <= loads'[b][ListOf(ask[x].record)].view[ask[x].record].seen
    <3>0. /\ ask[x].who \in Patient /\ ask[x].record \in Records /\ ask[x].who \in Clerks
          /\ ListOf(ask[x].record) \in Lists
      BY <1>t, <2>1, <2>6, Followed DEF Reported
    <3>1. CASE x = c
      <4>1. due'[x] = Len(history[ask[x].record]) /\ Len(history[ask[x].record]) \in Nat
        BY <1>v, <2>2, <3>0, <3>1
      <4>2. CASE b = c
        BY <2>2, <3>0, <3>1, <4>1, <4>2
      <4>3. CASE b # c
        <5>1. ask[b].who = ask[c].who => ~busy(b)
          BY <1>t, <2>3, <3>0, <3>1, <4>3 DEF Waiting
        <5>2. ask[b].who = ask[c].who => loads'[b][ListOf(ask[x].record)].stage # "served"
          BY <2>2, <3>0, <4>3, <5>1 DEF busy, outstanding
        <5> QED
          BY <3>1, <4>1, <5>2
      <4> QED
        BY <4>2, <4>3
    <3>2. CASE x # c
      <4>1. Reported(x) /\ due'[x] = due[x]
        BY <2>1, <2>2, <2>6, <3>2 DEF Reported
      <4>2. CASE b = c
        BY <1>t, <2>2, <3>0, <4>1, <4>2 DEF Fresh
      <4>3. CASE b # c
        BY <1>t, <2>2, <4>1, <4>3 DEF Fresh
      <4> QED
        BY <4>2, <4>3
    <3> QED
      BY <3>1, <3>2
  <2>7. Fresh'
    BY <2>1, <2>6 DEF Fresh, Reported
  <2>8. ReloadShowsChange'
    <3>1. ASSUME NEW x \in Calls, ask[x].who \in Patient, phase'[x] = "over",
                 loads'[x][ListOf(ask[x].record)].stage = "done"
          PROVE  shown[ask[x].who][ask[x].record].seen >= due'[x]
      <4>1. ask[x].who \in Clerks /\ ListOf(ask[x].record) \in Lists
        BY <1>t, <3>1, Followed
      <4>2. x # c
        BY <2>2, <3>1, <4>1
      <4> QED
        BY <1>t, <2>1, <2>2, <3>1, <4>2 DEF ReloadShowsChange
    <3> QED
      BY <2>1, <3>1 DEF ReloadShowsChange
  <2> QED
    BY <2>4, <2>5, <2>7, <2>8 DEF Portal
<1>4. ASSUME NEW l \in Lists, ServeLoad(c, l) \/ ApplyLoad(c, l) \/ FailLoad(c, l) PROVE Portal'
  <2>1. UNCHANGED <<ask, history, phase, due>> /\ loads[c][l].stage \in {"asked", "served"}
    BY <1>4 DEF ServeLoad, ApplyLoad, FailLoad, records
  <2>0. PICK stage \in {"served", "done", "failed"} : \E view :
          /\ loads' = [loads EXCEPT ![c][l] = [stage |-> stage, view |-> view]]
          /\ \/ /\ stage = "served" /\ view = [r \in Listed(l) |-> View(r)] /\ shown' = shown
                /\ loads[c][l].stage = "asked"
             \/ /\ view = <<>> /\ stage = "done" /\ ApplyLoad(c, l)
             \/ /\ view = <<>> /\ stage = "failed" /\ shown' = shown
    BY <1>4 DEF ServeLoad, ApplyLoad, FailLoad, Load
  <2>2. PICK view :
          /\ loads' = [loads EXCEPT ![c][l] = [stage |-> stage, view |-> view]]
          /\ \/ /\ stage = "served" /\ view = [r \in Listed(l) |-> View(r)] /\ shown' = shown
                /\ loads[c][l].stage = "asked"
             \/ /\ view = <<>> /\ stage = "done" /\ ApplyLoad(c, l)
             \/ /\ view = <<>> /\ stage = "failed" /\ shown' = shown
    BY <2>0
  <2>3. /\ loads'[c][l].stage = stage /\ loads'[c][l].view = view
        /\ \A b \in Calls, m \in Lists : b # c \/ m # l => loads'[b][m] = loads[b][m]
    <3>1. PICK entry : entry = [stage |-> stage, view |-> view]
      OBVIOUS
    <3>2. entry.stage = stage /\ entry.view = view
      BY <3>1
    <3>3. PICK L : loads \in [Calls -> [Lists -> L]]
      BY <1>t DEF PortalTypes
    <3>4. loads' = [loads EXCEPT ![c][l] = entry]
      BY <2>2, <3>1
    <3>5. /\ loads'[c][l] = entry
          /\ \A b \in Calls, m \in Lists : b # c \/ m # l => loads'[b][m] = loads[b][m]
      BY <3>3, <3>4
    <3> QED
      BY <3>2, <3>5
  <2>4. \A b \in Calls : busy(b)' => busy(b)
    BY <2>1, <2>3 DEF busy, outstanding
  <2>5. Waiting'
    BY <1>t, <2>1, <2>4 DEF Waiting
  <2>6. \A b \in Calls : phase'[b] # "over" => \A m \in Lists : loads'[b][m].stage = "none"
    BY <1>t, <2>1, <2>3
  <2>7. ASSUME NEW b \in Calls, NEW x \in Calls, Reported(x)
        PROVE  /\ due[x] <= Len(history[ask[x].record])
               /\ ask[b].who = ask[x].who /\ loads'[b][ListOf(ask[x].record)].stage = "served" =>
                    due[x] <= loads'[b][ListOf(ask[x].record)].view[ask[x].record].seen
    <3>0. /\ ask[x].record \in Ours /\ ListOf(ask[x].record) \in Lists
          /\ due[x] <= Len(history[ask[x].record])
      BY <1>t, <2>7, Followed DEF Reported, Fresh
    <3>1. CASE b # c \/ ListOf(ask[x].record) # l
      BY <1>t, <2>3, <2>7, <3>0, <3>1 DEF Fresh
    <3>2. CASE b = c /\ ListOf(ask[x].record) = l /\ stage = "served"
      <4>1. view = [r \in Listed(l) |-> View(r)] /\ ask[x].record \in Listed(l)
        BY <2>2, <3>0, <3>2 DEF Listed
      <4>2. view[ask[x].record].seen = Len(history[ask[x].record])
        BY <4>1 DEF View
      <4> QED
        BY <2>3, <3>0, <3>2, <4>2
    <3> QED
      BY <2>3, <3>0, <3>1, <3>2
  <2>8. Fresh'
    BY <2>1, <2>7 DEF Fresh, Reported
  <2>9. ReloadShowsChange'
    <3>1. ASSUME NEW x \in Calls, ask[x].who \in Patient, phase[x] = "over",
                 loads'[x][ListOf(ask[x].record)].stage = "done"
          PROVE  shown'[ask[x].who][ask[x].record].seen >= due[x]
      <4>0. /\ ask[x].who \in Clerks /\ ListOf(ask[x].record) \in Lists /\ ask[x].record \in Ours
            /\ Reported(x)
        BY <1>t, <3>1, Followed DEF Reported
      <4>1. CASE ~ApplyLoad(c, l)
        <5>1. shown' = shown /\ stage # "done"
          BY <2>2, <4>1
        <5>2. loads[x][ListOf(ask[x].record)].stage = "done"
          BY <2>3, <3>1, <4>0, <5>1
        <5> QED
          BY <1>t, <3>1, <5>1, <5>2 DEF ReloadShowsChange
      <4>2. CASE ApplyLoad(c, l) /\ ask[c].who = ask[x].who /\ ListOf(ask[x].record) = l
        <5>1. shown'[ask[x].who][ask[x].record] = loads[c][l].view[ask[x].record]
          BY <4>0, <4>2, Arrives DEF IInv
        <5>2. loads[c][l].stage = "served"
          BY <4>2 DEF ApplyLoad
        <5>3. due[x] <= loads[c][l].view[ask[x].record].seen
          BY <1>t, <4>0, <4>2, <5>2 DEF Fresh
        <5>4. /\ loads[c][l].view[ask[x].record].seen \in Nat /\ due[x] \in Nat
          <6>1. loads[c][l].view \in [Listed(l) -> ViewType]
            BY <1>t, <5>2 DEF PortalTypes
          <6>2. ask[x].record \in Listed(l)
            BY <4>0, <4>2 DEF Listed
          <6>3. loads[c][l].view[ask[x].record] \in ViewType
            BY <6>1, <6>2
          <6>4. \A v \in ViewType : v.seen \in Nat
            BY DEF ViewType
          <6>5. due[x] \in Nat
            BY <1>t DEF PortalTypes
          <6> QED
            BY <6>3, <6>4, <6>5
        <5> QED
          BY <5>1, <5>3, <5>4
      <4>3. CASE ApplyLoad(c, l) /\ ~(ask[c].who = ask[x].who /\ ListOf(ask[x].record) = l)
        <5>1. shown'[ask[x].who][ask[x].record] = shown[ask[x].who][ask[x].record]
          BY <4>0, <4>3, Arrives DEF IInv
        <5>2. loads[x][ListOf(ask[x].record)].stage = "done"
          BY <2>3, <3>1, <4>0, <4>3
        <5> QED
          BY <1>t, <3>1, <5>1, <5>2 DEF ReloadShowsChange
      <4> QED
        BY <4>1, <4>2, <4>3
    <3> QED
      BY <2>1, <3>1 DEF ReloadShowsChange
  <2> QED
    BY <2>5, <2>6, <2>8, <2>9 DEF Portal
<1> QED
  BY <1>1, <1>2, <1>3, <1>4 DEF PortalStep, Answer, GiveUp

-----------------------------------------------------------------------------
LEMMA InitIInv == Init => IInv
<1> SUFFICES ASSUME Init PROVE IInv
  OBVIOUS
<1>1. TypeOK
  BY InitTypes
<1>2. \A c \in Calls : /\ pc[c] = "idle" /\ phase[c] = "idle" /\ found[c].code = None
                       /\ outcome[c].told = "NONE" /\ \A l \in Lists : loads[c][l].stage = "none"
  BY DEF Init, NothingFound, Unanswered, Load
<1>3. \A c \in Calls : LocksHeld(c) /\ Drawn(c)
  BY <1>2 DEF LocksHeld, Drawn, HasCode
<1>4. \A r \in Records :
        /\ rows[r].result = None
        /\ rows[r].status = IF r \in Claims THEN "NOTIFIED" ELSE IF r \in Late THEN None ELSE "SUBMITTED"
  BY DEF Init
<1>5. \A c \in Calls : StillTrue(c)
  <2>1. ASSUME NEW c \in Calls, ask[c].kind = "apply" PROVE rows[ask[c].record].status = None
    <3>1. ask[c].record \in Late
      BY <1>1, <2>1, Kinds DEF TypeOK
    <3> QED
      BY <1>4, <3>1, SetUp
  <2> QED
    BY <1>2, <2>1 DEF StillTrue, StatusOf
<1>6. DrawnApart /\ LocksExclude /\ AppliedOnce
  BY <1>2 DEF DrawnApart, HasCode, LocksExclude, AppliedOnce, Init
<1>7. ClaimsMove
  BY <1>4, SetUp DEF ClaimsMove
<1>8. RateIsLast /\ FirstRate /\ RateHistoryIsAChain
  BY <1>2 DEF Init, RateIsLast, FirstRate, RateHistoryIsAChain
<1>9. Carried
  BY <1>4, SetUp DEF Carried, Init
<1>10. HistoryIsTheRecord
  <2>1. ASSUME NEW r \in Records PROVE IsAccount(history[r], rows[r].status)
    <3>1. CASE r \in Late
      <4>1. history[r] = <<>> /\ rows[r].status = None
        BY <1>4, <3>1, SetUp DEF Init
      <4> QED
        BY <4>1 DEF IsAccount
    <3>2. CASE r \notin Late
      <4>1. PICK t : t = <<None, rows[r].status>>
        OBVIOUS
      <4>2. history[r] = <<t>> /\ t[2] = rows[r].status
        BY <3>2, <4>1 DEF Init
      <4>3. PICK h : h = history[r]
        OBVIOUS
      <4>4. Len(h) = 1 /\ h[1] = t /\ h # <<>>
        BY <4>2, <4>3
      <4> QED
        BY <4>2, <4>3, <4>4 DEF IsAccount
    <3> QED
      BY <3>1, <3>2
  <2> QED
    BY <2>1 DEF HistoryIsTheRecord, IsAccount
<1>11. Portal
  BY <1>2 DEF Portal, Waiting, busy, outstanding, Fresh, Reported, ReloadShowsChange
<1> QED
  BY <1>1, <1>3, <1>5, <1>6, <1>7, <1>8, <1>9, <1>10, <1>11 DEF IInv, Server, HistoriesAreChains

LEMMA NextIInv == IInv /\ [Next]_vars => IInv'
<1> SUFFICES ASSUME IInv, [Next]_vars PROVE IInv'
  OBVIOUS
<1>1. TypeOK'
  BY Types DEF IInv
<1>2. ASSUME NEW c \in Calls, ServerStep(c) PROVE IInv'
  <2>1. \A b \in Calls : (LocksHeld(b) /\ StillTrue(b) /\ Drawn(b))'
    BY <1>2, OwnStep, OthersTrue, OthersGoOn DEF IInv, Server
  <2>2. LocksExclude' /\ AppliedOnce'
    BY <1>2, OthersGoOn DEF IInv, Server, AppliedOnce
  <2> QED
    BY <1>1, <1>2, <2>1, <2>2, DrawnStayApart, RecordsStayTrue, FirstRateStays, PortalStays DEF IInv, Server
<1>3. ASSUME NEW c \in Calls, Send(c) PROVE IInv'
  <2>1. /\ UNCHANGED <<rows, history, codes, insurer, rate, rates, ask, found, outcome, locks>>
        /\ pc[c] = "idle" /\ \A b \in Calls \ {c} : pc'[b] = pc[b]
        /\ pc'[c] \in {"receive", "lockApplication", "shareInsurer", "lockInsurer", "lockRate"}
    BY <1>3, Kinds DEF IInv, TypeOK, CallTypes, Send, records, settings, firstStatement
  <2>2. \A b \in Calls : (LocksHeld(b) /\ StillTrue(b) /\ Drawn(b))'
    BY <2>1 DEF IInv, Server, LocksHeld, StillTrue, Drawn, HasCode, StatusOf, Held, record,
       insurerRow, rateRow
  <2>3. DrawnApart'
    BY <2>1 DEF IInv, Server, DrawnApart, HasCode
  <2>4. /\ LocksExclude' /\ AppliedOnce' /\ ClaimsMove' /\ RateIsLast' /\ Carried' /\ HistoriesAreChains'
        /\ FirstRate'
    BY <2>1 DEF IInv, Server, LocksExclude, AppliedOnce, ClaimsMove, RateIsLast, FirstRate, Carried,
       HistoriesAreChains, HistoryIsTheRecord, RateHistoryIsAChain
  <2> QED
    BY <1>1, <1>3, <2>2, <2>3, <2>4, PortalMoves DEF IInv, Server
<1>4. ASSUME UNCHANGED <<records, settings, ask, server>> PROVE Server'
  <2>1. UNCHANGED <<rows, history, codes, insurer, rate, rates, ask, pc, found, outcome, locks>>
    BY <1>4 DEF records, settings, server
  <2>2. \A b \in Calls : (LocksHeld(b) /\ StillTrue(b) /\ Drawn(b))'
    BY <2>1 DEF IInv, Server, LocksHeld, StillTrue, Drawn, HasCode, StatusOf, Held, record,
       insurerRow, rateRow
  <2>3. /\ LocksExclude' /\ AppliedOnce' /\ ClaimsMove' /\ RateIsLast' /\ Carried'
        /\ HistoriesAreChains' /\ DrawnApart' /\ FirstRate'
    BY <2>1 DEF IInv, Server, LocksExclude, AppliedOnce, ClaimsMove, RateIsLast, FirstRate, Carried,
       HistoriesAreChains, HistoryIsTheRecord, RateHistoryIsAChain, DrawnApart, HasCode
  <2> QED
    BY <2>2, <2>3 DEF Server
<1>5. ASSUME NEW c \in Calls, PortalStep(c) PROVE IInv'
  <2>1. UNCHANGED <<records, settings, ask, server>>
    BY <1>5 DEF PortalStep, LeaveTab, Answer, GiveUp, ServeLoad, ApplyLoad, FailLoad, Over
  <2> QED
    BY <1>1, <1>4, <1>5, <2>1, PortalMoves DEF IInv
<1>6. CASE UNCHANGED vars
  <2>1. Portal'
    BY <1>6 DEF vars, records, portal, IInv, Portal, Waiting, busy, outstanding, Fresh, Reported,
       ReloadShowsChange
  <2> QED
    BY <1>1, <1>4, <1>6, <2>1 DEF vars, IInv
<1> QED
  BY <1>2, <1>3, <1>5, <1>6 DEF Next, PortalStep

LEMMA Invariance == Spec => []IInv
  BY InitIInv, NextIInv, PTL DEF Spec

(* An approved application has its code and a code is one approved         *)
(* application's: the code is drawn and spent in the transaction that      *)
(* holds the application (insurer-portal.service.ts, decideNcd).           *)
THEOREM OneCode == Spec => []OneCodePerApproval
<1>1. ASSUME IInv PROVE OneCodePerApproval
  <2>1. Carried
    BY <1>1 DEF IInv, Server
  <2>2. ASSUME NEW k \in codes \ Issued
        PROVE  Cardinality({a \in Applications : rows[a].result = k}) = 1
    <3>1. PICK a \in Applications : \A b \in Applications : rows[b].result = k <=> b = a
      BY <2>1 DEF Carried
    <3>2. {b \in Applications : rows[b].result = k} = {a}
      BY <3>1
    <3> QED
      BY <3>2, FS_Singleton
  <2>3. \A a \in Applications : rows[a].status = "APPROVED" <=> rows[a].result # None
    BY <2>1 DEF Carried
  <2>4. \A a \in Applications : rows[a].result \in codes \cup {None} /\ rows[a].result \notin Issued
    BY <2>1, SetUp DEF Carried
  <2> QED
    BY <2>2, <2>3, <2>4 DEF OneCodePerApproval
<1> QED
  BY <1>1, Invariance, PTL

(* Everybody who was told a claim is received was told what its row says   *)
(* (insurer-portal.repository.ts, acknowledgeClaim).                       *)
THEOREM RepeatsAnswerFirst == Spec => []RepeatAnswersFirst
<1>1. IInv => RepeatAnswersFirst
  BY DEF IInv, Server, StillTrue, RepeatAnswersFirst
<1> QED
  BY <1>1, Invariance, PTL

(* state_history and pia_config_history are accounts without a gap of the  *)
(* records and of a rate that was seeded, whoever moves them at the same   *)
(* time (pia.service.ts, insurer-portal.repository.ts).                    *)
THEOREM HistoriesChain == Spec => []HistoriesAreChains
<1>1. IInv => HistoriesAreChains
  BY DEF IInv, Server
<1> QED
  BY <1>1, Invariance, PTL

(* A clerk who waits for each reload is shown the record as it was when    *)
(* the change was over, or later, for any number of loads.                 *)
THEOREM ReloadsShow == Spec => []ReloadShowsChange
<1>1. IInv => ReloadShowsChange
  BY DEF IInv, Portal
<1> QED
  BY <1>1, Invariance, PTL

(* No application reaches an insurer that is not active when it arrives:   *)
(* the share lock on the insurer lasts until the application commits.      *)
THEOREM AppliesWhileActive == Spec => AppliedWhileActive
<1>1. IInv /\ [Next]_vars =>
        \A a \in Late : rows[a].status = None /\ rows'[a].status # None => insurer = "ACTIVE"
  <2> SUFFICES ASSUME IInv, [Next]_vars, NEW a \in Late, rows[a].status = None, rows'[a].status # None
               PROVE  insurer = "ACTIVE"
    OBVIOUS
  <2>1. PICK c \in Calls : Commits(c)
    <3>1. ASSUME NEW c \in Calls, Send(c) \/ PortalStep(c) PROVE rows' = rows
      BY <3>1 DEF Send, PortalStep, LeaveTab, Answer, GiveUp, ServeLoad, ApplyLoad, FailLoad, Over,
         records
    <3>2. ASSUME NEW c \in Calls, ServerStep(c), ~Commits(c) PROVE rows' = rows
      BY <3>2, OnlyCommitsWrite
    <3> QED
      BY <3>1, <3>2 DEF Next, PortalStep, vars, records
  <2>2. StillTrue(c) /\ RecordTypes /\ CallTypes
    BY DEF IInv, Server, TypeOK
  <2>3. CASE CommitApplication(c)
    BY <2>2, <2>3 DEF CommitApplication, StillTrue
  <2>4. CASE CommitReceipt(c) \/ CommitDecision(c)
    <3>1. StatusOf(c) # None
      BY <2>2, <2>4, SetUp DEF CommitReceipt, CommitDecision, StillTrue
    <3>2. rows'[a] = rows[a]
      <4>1. PICK r, x : rows' = [rows EXCEPT ![r] = x] /\ r = ask[c].record
        BY <2>4 DEF CommitReceipt, CommitDecision, move
      <4>2. a # r /\ a \in Records
        BY <3>1, <4>1, SetUp DEF StatusOf
      <4> QED
        BY <2>2, <4>1, <4>2 DEF RecordTypes
    <3> QED
      BY <3>2
  <2>5. CASE CommitStatus(c) \/ CommitRate(c)
    BY <2>5 DEF CommitStatus, CommitRate, records
  <2> QED
    BY <2>1, <2>3, <2>4, <2>5 DEF Commits
<1>2. Spec => [][\A a \in Late : rows[a].status = None /\ rows'[a].status # None => insurer = "ACTIVE"]_vars
  BY <1>1, Invariance, PTL DEF Spec
<1> QED
  BY <1>2 DEF AppliedWhileActive
=============================================================================
