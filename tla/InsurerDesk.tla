----------------------------- MODULE InsurerDesk ----------------------------
(***************************************************************************)
(* The desk of one insurer: its users mark claims received and decide      *)
(* no-claim applications, in the portal or by other clients of the API,    *)
(* while a customer applies, an administrator deactivates the insurer and  *)
(* administrators set the PIA rate.                                        *)
(*                                                                         *)
(* On the server one action is one statement of a transaction under READ   *)
(* COMMITTED.  In the portal a change is sent from a list, answered, and   *)
(* followed by a reload of both lists, each a request of its own.          *)
(***************************************************************************)
EXTENDS Naturals, Sequences, FiniteSets, RowLocks

CONSTANTS
  Claims, Applications,
  Ours,               \* those addressed to this insurer
  Late,               \* the applications still to be made
  Clerks,             \* the users of the portal
  Patient,            \* those who wait for each reload before they act again
  Others,             \* users of other clients, customers, administrators
  Calls,
  Asks,               \* what a call may ask for
  Codes,              \* the codes that can be drawn
  Issued,             \* those issued before
  Rates,
  NCD_CODE_ATTEMPTS,
  MaxMishaps,         \* bound on failures and lost answers
  None

Records == Claims \cup Applications
Lists == {"claims", "applications"}
ListOf(r) == IF r \in Claims THEN "claims" ELSE "applications"
Listed(l) == {r \in Ours : ListOf(r) = l}

Decisions == {"UNDER_REVIEW", "APPROVED", "REJECTED"}
Reached == Decisions \cup {"NOTIFIED", "RECEIVED_BY_INSURER", "SUBMITTED"}
Statuses == Reached \cup {None}

ASSUME DeskAssumption ==
  /\ Claims \cap Applications = {} /\ Ours \subseteq Records
  /\ Late \subseteq Applications \cap Ours
  /\ Patient \subseteq Clerks /\ Clerks \cap Others = {}
  /\ Issued \subseteq Codes /\ NCD_CODE_ATTEMPTS \in Nat \ {0} /\ MaxMishaps \in Nat
  /\ None \notin Codes \cup Rates \cup Records \cup Reached
  /\ \A a \in Asks :
       /\ a.who \in Clerks \cup Others
       /\ \/ a.kind = "acknowledge" /\ a.record \in Claims
          \/ a.kind = "decide" /\ a.record \in Applications /\ a.choice \in Decisions
          \/ a.kind = "apply" /\ a.record \in Late /\ a.who \in Others
          \/ a.kind = "deactivate" /\ a.who \in Others
          \/ a.kind = "rate" /\ a.choice \in Rates /\ a.who \in Others
       /\ a.who \in Clerks => a.record \in Ours

VARIABLES
  rows,         \* rows[r]: its status, and the reference or code it carries
  history,      \* history[r]: its transitions, <<from, to>>
  codes,        \* the codes issued
  insurer,      \* the insurer's status
  rate,         \* the PIA rate, None before the first is set
  rates,        \* its history, <<previous, new>>
  ask,          \* ask[c]
  pc,           \* pc[c]: the next statement of call c on the server
  found,        \* found[c]: what its statements read or drew
  outcome,      \* outcome[c]: the server's answer
  locks,        \* the row locks held
  phase,        \* phase[c]: what the client of c is doing
  loads,        \* loads[c]: the loads that follow c, by list
  due,          \* due[c]: how far the record had come when c was over
  forgotten,    \* the calls whose guard went with the tab that made it
  shown,        \* shown[u]: the lists in the store of clerk u
  mishaps       \* the failures and lost answers so far

records  == <<rows, history, codes>>
settings == <<insurer, rate, rates>>
server   == <<pc, found, outcome, locks>>
portal   == <<phase, loads, due, forgotten, shown>>
vars     == <<records, settings, ask, server, portal, mishaps>>

NothingFound == [status |-> None, code |-> None, draws |-> 0]
Unanswered == [told |-> "NONE", result |-> None]
Load(stage) == [stage |-> stage, view |-> <<>>]
View(r) == [status |-> rows[r].status, seen |-> Len(history[r])]

Init ==
  /\ rows = [r \in Records |->
               [status |-> IF r \in Claims THEN "NOTIFIED" ELSE IF r \in Late THEN None ELSE "SUBMITTED",
                result |-> None]]
  /\ history = [r \in Records |-> IF r \in Late THEN <<>> ELSE <<<<None, rows[r].status>>>>]
  /\ codes = Issued
  /\ insurer = "ACTIVE"
  /\ rate \in Rates \cup {None}
  /\ rates = <<>>              \* the seed sets a rate and writes no history
  /\ ask \in [Calls -> Asks]
  /\ \A b, c \in Calls :        \* an application is made once
       ask[b].kind = "apply" /\ ask[c].kind = "apply" /\ ask[b].record = ask[c].record => b = c
  /\ pc = [c \in Calls |-> "idle"]
  /\ found = [c \in Calls |-> NothingFound]
  /\ outcome = [c \in Calls |-> Unanswered]
  /\ locks = {}
  /\ phase = [c \in Calls |-> "idle"]
  /\ loads = [c \in Calls |-> [l \in Lists |-> Load("none")]]
  /\ due = [c \in Calls |-> 0]
  /\ forgotten = {}
  /\ mishaps = 0
  /\ shown = [u \in Clerks |-> [r \in Ours |-> View(r)]]

Mishap == mishaps < MaxMishaps /\ mishaps' = mishaps + 1

-----------------------------------------------------------------------------
(* The portal.                                                             *)

outstanding(c) == \E l \in Lists : loads[c][l].stage \in {"asked", "served"}
busy(c) == phase[c] = "sent" \/ outstanding(c)

(* A list's guard: one save for each claim, one decision at a time.        *)
guarded(c) ==
  \E b \in Calls \ {c} :
    /\ ask[b].who = ask[c].who /\ ask[b].kind = ask[c].kind
    /\ ask[c].kind = "acknowledge" => ask[b].record = ask[c].record
    /\ busy(b) /\ b \notin forgotten

(* What the lists offer: a new claim to mark, an application that is not   *)
(* approved to be given another status.                                    *)
offered(c) ==
  LET status == shown[ask[c].who][ask[c].record].status IN
  CASE ask[c].kind = "acknowledge" -> status = "NOTIFIED"
    [] OTHER -> status \notin {None, "APPROVED", ask[c].choice}

firstStatement ==
  [acknowledge |-> "receive", decide |-> "lockApplication", apply |-> "shareInsurer",
   deactivate |-> "lockInsurer", rate |-> "lockRate"]

Send(c) ==
  /\ phase[c] = "idle"
  /\ ask[c].who \in Clerks => offered(c) /\ ~guarded(c)
  /\ ask[c].who \in Patient => \A b \in Calls : ask[b].who = ask[c].who => ~busy(b)
  /\ phase' = [phase EXCEPT ![c] = "sent"]
  /\ pc' = [pc EXCEPT ![c] = firstStatement[ask[c].kind]]
  /\ UNCHANGED <<records, settings, ask, found, outcome, locks, loads, due, forgotten, shown, mishaps>>

(* Mutant: nothing is reloaded after a failure.                            *)
thenReloadSaved(told) == [l \in Lists |-> Load(IF told = "saved" THEN "asked" ELSE "done")]

(* Whatever the change was told, both lists are loaded again.              *)
thenReload(told) == [l \in Lists |-> Load("asked")]

Over(c, told) ==
  /\ phase[c] = "sent"
  /\ phase' = [phase EXCEPT ![c] = "over"]
  /\ IF ask[c].who \in Clerks
       THEN /\ loads' = [loads EXCEPT ![c] = thenReload(told)]
            /\ due' = [due EXCEPT ![c] = Len(history[ask[c].record])]
       ELSE UNCHANGED <<loads, due>>
  /\ UNCHANGED <<records, settings, ask, server, forgotten, shown>>

Answer(c) == pc[c] = "done" /\ Over(c, outcome[c].told) /\ UNCHANGED mishaps

(* No answer in time, or none at all: the call may still run, or never.    *)
GiveUp(c) == Over(c, "NETWORK") /\ Mishap

ServeLoad(c, l) ==
  /\ loads[c][l].stage = "asked"
  /\ loads' = [loads EXCEPT ![c][l] = [stage |-> "served",
                                          view |-> [r \in Listed(l) |-> View(r)]]]
  /\ UNCHANGED <<records, settings, ask, server, phase, due, forgotten, shown, mishaps>>

(* A result replaces the list, in whatever order results arrive.           *)
ApplyLoad(c, l) ==
  /\ loads[c][l].stage = "served"
  /\ shown' = [shown EXCEPT ![ask[c].who] =
                 [r \in Ours |-> IF ListOf(r) = l THEN loads[c][l].view[r] ELSE @[r]]]
  /\ loads' = [loads EXCEPT ![c][l] = Load("done")]
  /\ UNCHANGED <<records, settings, ask, server, phase, due, forgotten, mishaps>>

FailLoad(c, l) ==
  /\ loads[c][l].stage = "asked"
  /\ loads' = [loads EXCEPT ![c][l] = Load("failed")]
  /\ Mishap
  /\ UNCHANGED <<records, settings, ask, server, phase, due, forgotten, shown>>

(* The guards live in the list's component: a clerk who leaves the tab and *)
(* comes back may send what a guard held off.                              *)
LeaveTab(c) ==
  /\ phase[c] = "idle" /\ ask[c].who \in Clerks
  /\ offered(c) /\ guarded(c)
  /\ forgotten' = forgotten \cup
       {b \in Calls : ask[b].who = ask[c].who /\ ask[b].kind = ask[c].kind /\ busy(b)}
  /\ UNCHANGED <<records, settings, ask, server, phase, loads, due, shown, mishaps>>

-----------------------------------------------------------------------------
(* The server.                                                             *)

record(c) == <<"record", ask[c].record>>
insurerRow == <<"insurer">>
rateRow == <<"rate">>

quiet == UNCHANGED <<records, settings, ask, portal, mishaps>>

Take(c, row, mode) ==
  /\ Grantable(locks, c, row, mode)
  /\ locks' = locks \cup {Lock(c, row, mode)}

goto(c, l) == pc' = [pc EXCEPT ![c] = l]

(* The transaction ends, by a commit or a rollback.                        *)
End(c, told, result) ==
  /\ goto(c, "done")
  /\ outcome' = [outcome EXCEPT ![c] = [told |-> told, result |-> result]]
  /\ locks' = Release(locks, c)
  /\ UNCHANGED <<ask, found, portal>>

Rollback(c, told) == End(c, told, None) /\ UNCHANGED <<records, settings>>
Refuse(c, told) == Rollback(c, told) /\ UNCHANGED mishaps

(* A statement fails, or the API stops.                                    *)
Fail(c) == pc[c] \notin {"idle", "done"} /\ Rollback(c, "INTERNAL") /\ Mishap

move(r, from, to, result) ==
  /\ rows' = [rows EXCEPT ![r] = [status |-> to, result |-> result]]
  /\ history' = [history EXCEPT ![r] = Append(@, <<from, to>>)]

(* Mutant: the update is not conditional.                                  *)
waitingAlways(c) == ask[c].record \in Ours

(* The condition of acknowledgeClaim's update.                             *)
waiting(c) == ask[c].record \in Ours /\ rows[ask[c].record].status = "NOTIFIED"

(* The update waits for the row, then looks at it again.                   *)
Receive(c) ==
  /\ pc[c] = "receive"
  /\ IF waiting(c)
       THEN Take(c, record(c), NoKeyUpdate) /\ goto(c, "commitReceipt")
       ELSE Grantable(locks, c, record(c), NoKeyUpdate) /\ goto(c, "readReceipt") /\ UNCHANGED locks
  /\ UNCHANGED <<found, outcome>> /\ quiet

CommitReceipt(c) ==
  /\ pc[c] = "commitReceipt"
  /\ move(ask[c].record, "NOTIFIED", "RECEIVED_BY_INSURER", ask[c].choice)
  /\ End(c, "saved", ask[c].choice)
  /\ UNCHANGED <<codes, settings, mishaps>>

(* A repeat answers what the first recorded.                               *)
ReadReceipt(c) ==
  /\ pc[c] = "readReceipt"
  /\ IF ask[c].record \in Ours
       THEN End(c, "saved", rows[ask[c].record].result)
       ELSE End(c, "NOT_FOUND", None)
  /\ UNCHANGED <<records, settings, mishaps>>

-----------------------------------------------------------------------------
canDecideNcd(status) == status # "APPROVED"

LockApplication(c) ==
  /\ pc[c] = "lockApplication"
  /\ LET status == rows[ask[c].record].status IN
     \/ ask[c].record \notin Ours /\ Refuse(c, "NOT_FOUND")
     \/ /\ ask[c].record \in Ours
        /\ Grantable(locks, c, record(c), ForUpdate)
        /\ \/ status = None /\ Refuse(c, "NOT_FOUND")
           \/ status # None /\ ~canDecideNcd(status) /\ Refuse(c, "ALREADY_DECIDED")
           \/ /\ status # None /\ canDecideNcd(status)
              /\ Take(c, record(c), ForUpdate)
              /\ found' = [found EXCEPT ![c].status = status]
              /\ goto(c, IF ask[c].choice = "APPROVED" THEN "drawCode" ELSE "decide")
              /\ UNCHANGED outcome /\ quiet

(* The codes inserted by transactions that have not ended.                 *)
pending(c) == {found[b].code : b \in {b \in Calls \ {c} : pc[b] \notin {"idle", "done"}}} \ {None}

(* Mutant: the code is inserted outside the transaction.                   *)
DrawCodeOutside(c) ==
  /\ pc[c] = "drawCode"
  /\ \E k \in Codes \ codes :
       /\ found' = [found EXCEPT ![c].code = k]
       /\ codes' = codes \cup {k}
  /\ goto(c, "decide")
  /\ UNCHANGED <<rows, history, settings, ask, outcome, locks, portal, mishaps>>

(* Mutant: one attempt too many.                                           *)
lastDrawLate(c) == found[c].draws = NCD_CODE_ATTEMPTS

lastDraw(c) == found[c].draws + 1 = NCD_CODE_ATTEMPTS

(* insertUnusedNcdCode: a code that another transaction has just inserted  *)
(* is waited for, one that is taken is drawn again.                        *)
DrawCode(c) ==
  /\ pc[c] = "drawCode"
  /\ \E k \in Codes \ pending(c) :
       \/ /\ k \notin codes
          /\ found' = [found EXCEPT ![c].code = k]
          /\ goto(c, "decide")
          /\ UNCHANGED <<outcome, locks>> /\ quiet
       \/ /\ k \in codes /\ ~lastDraw(c)
          /\ found' = [found EXCEPT ![c].draws = @ + 1]
          /\ UNCHANGED <<pc, outcome, locks>> /\ quiet
       \/ /\ k \in codes /\ lastDraw(c)
          /\ Refuse(c, "INTERNAL")

Decide(c) ==
  /\ pc[c] = "decide"
  /\ IF rows[ask[c].record].status = found[c].status
       THEN goto(c, "commitDecision") /\ UNCHANGED <<found, outcome, locks>> /\ quiet
       ELSE Refuse(c, "ALREADY_DECIDED")

decidedFromStart(c) == "SUBMITTED"

decidedFrom(c) == found[c].status

CommitDecision(c) ==
  /\ pc[c] = "commitDecision"
  /\ move(ask[c].record, decidedFrom(c), ask[c].choice, found[c].code)
  /\ codes' = codes \cup ({found[c].code} \ {None})
  /\ End(c, "saved", found[c].code)
  /\ UNCHANGED <<settings, mishaps>>

-----------------------------------------------------------------------------
(* Mutant: the insurer is looked up without a lock.                        *)
ShareInsurerUnlocked(c) ==
  /\ pc[c] = "shareInsurer"
  /\ IF insurer = "ACTIVE"
       THEN goto(c, "commitApplication") /\ UNCHANGED <<found, outcome, locks>> /\ quiet
       ELSE Refuse(c, "NOT_FOUND")

(* findActiveInsurer                                                       *)
ShareInsurer(c) ==
  /\ pc[c] = "shareInsurer"
  /\ Grantable(locks, c, insurerRow, ForShare)
  /\ IF insurer = "ACTIVE"
       THEN /\ Take(c, insurerRow, ForShare) /\ goto(c, "commitApplication")
            /\ UNCHANGED <<found, outcome>> /\ quiet
       ELSE Refuse(c, "NOT_FOUND")

CommitApplication(c) ==
  /\ pc[c] = "commitApplication"
  /\ move(ask[c].record, None, "SUBMITTED", None)
  /\ End(c, "saved", None)
  /\ UNCHANGED <<codes, settings, mishaps>>

LockInsurer(c) ==
  /\ pc[c] = "lockInsurer"
  /\ Take(c, insurerRow, ForUpdate)
  /\ goto(c, "commitStatus")
  /\ UNCHANGED <<found, outcome>> /\ quiet

CommitStatus(c) ==
  /\ pc[c] = "commitStatus"
  /\ insurer' = "INACTIVE"
  /\ End(c, "saved", None)
  /\ UNCHANGED <<records, rate, rates, mishaps>>

-----------------------------------------------------------------------------
(* Mutant: the current rate is read without a lock.                        *)
LockRateUnlocked(c) ==
  /\ pc[c] = "lockRate"
  /\ found' = [found EXCEPT ![c].status = rate]
  /\ goto(c, "saveRate")
  /\ UNCHANGED <<outcome, locks>> /\ quiet

(* lockCurrent: before the first rate there is no row to lock.             *)
LockRate(c) ==
  /\ pc[c] = "lockRate"
  /\ IF rate = None THEN UNCHANGED locks ELSE Take(c, rateRow, ForUpdate)
  /\ found' = [found EXCEPT ![c].status = rate]
  /\ goto(c, "saveRate")
  /\ UNCHANGED outcome /\ quiet

(* The upsert waits for a row being inserted as for one being updated.     *)
SaveRate(c) ==
  /\ pc[c] = "saveRate"
  /\ Take(c, rateRow, NoKeyUpdate)
  /\ goto(c, "commitRate")
  /\ UNCHANGED <<found, outcome>> /\ quiet

CommitRate(c) ==
  /\ pc[c] = "commitRate"
  /\ rate' = ask[c].choice
  /\ rates' = Append(rates, <<found[c].status, ask[c].choice>>)
  /\ End(c, "saved", None)
  /\ UNCHANGED <<records, insurer, mishaps>>

-----------------------------------------------------------------------------
ServerStep(c) ==
  \/ Receive(c) \/ CommitReceipt(c) \/ ReadReceipt(c)
  \/ LockApplication(c) \/ DrawCode(c) \/ Decide(c) \/ CommitDecision(c)
  \/ ShareInsurer(c) \/ CommitApplication(c)
  \/ LockInsurer(c) \/ CommitStatus(c)
  \/ LockRate(c) \/ SaveRate(c) \/ CommitRate(c)
  \/ Fail(c)

Next ==
  \/ \E c \in Calls : Send(c) \/ LeaveTab(c) \/ Answer(c) \/ GiveUp(c) \/ ServerStep(c)
  \/ \E c \in Calls, l \in Lists : ServeLoad(c, l) \/ ApplyLoad(c, l) \/ FailLoad(c, l)

Spec == Init /\ [][Next]_vars

-----------------------------------------------------------------------------
ViewType == [status : Statuses, seen : Nat]
Results  == Codes \cup {None} \cup {a.choice : a \in Asks}

StepsOf ==
  [acknowledge |-> {"receive", "commitReceipt", "readReceipt"},
   decide      |-> {"lockApplication", "drawCode", "decide", "commitDecision"},
   apply       |-> {"shareInsurer", "commitApplication"},
   deactivate  |-> {"lockInsurer", "commitStatus"},
   rate        |-> {"lockRate", "saveRate", "commitRate"}]

RecordTypes ==
  /\ rows \in [Records -> [status : Statuses, result : Results]]
  /\ history \in [Records -> Seq(Statuses \X Statuses)]
  /\ codes \subseteq Codes
  /\ insurer \in {"ACTIVE", "INACTIVE"}
  /\ rate \in Rates \cup {None} /\ rates \in Seq((Rates \cup {None}) \X Rates)

CallTypes ==
  /\ ask \in [Calls -> Asks]
  /\ pc \in [Calls -> {"idle", "done"} \cup UNION {StepsOf[k] : k \in DOMAIN StepsOf}]
  /\ \A c \in Calls : pc[c] \in {"idle", "done"} \cup StepsOf[ask[c].kind]
  /\ found \in [Calls -> [status : Statuses \cup Rates, code : Codes \cup {None}, draws : Nat]]
  /\ \A c \in Calls :
       /\ found[c].draws < NCD_CODE_ATTEMPTS
       /\ found[c].status \in IF ask[c].kind = "rate" THEN Rates \cup {None} ELSE Statuses
  /\ outcome \in [Calls -> [told : {"NONE", "saved", "NOT_FOUND", "ALREADY_DECIDED", "INTERNAL"},
                            result : Results]]
  /\ \A c \in Calls : outcome[c].told = "NONE" <=> pc[c] # "done"
  /\ \A l \in locks : l.mode \in LockModes /\ l.txn \in Calls /\ pc[l.txn] \notin {"idle", "done"}

PortalTypes ==
  /\ phase \in [Calls -> {"idle", "sent", "over"}]
  /\ loads \in [Calls -> [Lists -> [stage : {"none", "asked", "served", "done", "failed"},
                                    view : {<<>>} \cup [Listed("claims") -> ViewType]
                                                 \cup [Listed("applications") -> ViewType]]]]
  /\ \A c \in Calls, l \in Lists :
       loads[c][l].stage = "served" => loads[c][l].view \in [Listed(l) -> ViewType]
  /\ due \in [Calls -> Nat] /\ forgotten \subseteq Calls
  /\ shown \in [Clerks -> [Ours -> ViewType]]

(* Type correctness; a call is at a statement of its own kind, locks are   *)
(* held only by calls that run, and no call draws more codes than it may.  *)
TypeOK ==
  /\ RecordTypes /\ CallTypes /\ PortalTypes
  /\ \A c \in Calls : phase[c] = "idle" => pc[c] = "idle"
  /\ mishaps \in 0..MaxMishaps

(* insurer-portal.service.ts:339: an approved application has its code and *)
(* a code is one approved application's, through decisions that race,      *)
(* fail half way or draw the same code.                                    *)
OneCodePerApproval ==
  /\ \A a \in Applications : (rows[a].status = "APPROVED") = (rows[a].result # None)
  /\ \A k \in codes \ Issued :
       Cardinality({a \in Applications : rows[a].result = k}) = 1
  /\ \A a \in Applications : rows[a].result \in codes \cup {None}
  /\ \A a \in Applications : rows[a].result \notin Issued

(* acknowledgeClaim's comment: acknowledging twice is harmless.  Everybody *)
(* who was told a claim is received was told what its row says, whoever    *)
(* came first and with whatever reference.                                 *)
RepeatAnswersFirst ==
  \A c \in Calls :
    ask[c].kind = "acknowledge" /\ outcome[c].told = "saved" =>
      rows[ask[c].record] = [status |-> "RECEIVED_BY_INSURER", result |-> outcome[c].result]

(* state_history is an account of each record: every transition starts     *)
(* where the one before it ended, and the last ends at the status.         *)
HistoryIsTheRecord ==
  \A r \in Records :
    LET h == history[r] IN
    /\ \A i \in 2..Len(h) : h[i][1] = h[i - 1][2]
    /\ rows[r].status = IF h = <<>> THEN None ELSE h[Len(h)][2]

(* pia_config_history is an account of the rate: each entry names the rate *)
(* before it, whoever sets it at the same time.  Where the rate was never  *)
(* seeded the first entry names none, and so may others, which found no    *)
(* row to lock (pia.service.ts:30); where it was, none is left out.        *)
RateHistoryIsAChain ==
  \A i \in 2..Len(rates) :
    rates[i][1] = rates[i - 1][2] \/ (rates[i][1] = None /\ rates[1][1] = None)

(* What the desk decided can be read back from its histories.              *)
HistoriesAreChains == HistoryIsTheRecord /\ RateHistoryIsAChain

(* thenReloadPortal's comment: after a change, saved or not, the lists     *)
(* show what is true and not what the browser last saw.  For a clerk who   *)
(* waits for each reload the record is shown as it was when the change was *)
(* over, or later.  (Reloads that overlap are applied as they arrive, and  *)
(* the older may come last.)                                               *)
ReloadShowsChange ==
  \A c \in Calls :
    /\ ask[c].who \in Patient /\ phase[c] = "over"
    /\ loads[c][ListOf(ask[c].record)].stage = "done"
    => shown[ask[c].who][ask[c].record].seen >= due[c]

(* No application reaches an insurer that is not active when it arrives.   *)
AppliedWhileActive ==
  [][\A a \in Late : rows[a].status = None /\ rows'[a].status # None => insurer = "ACTIVE"]_vars

=============================================================================
