-------------------------- MODULE SubmissionProofs --------------------------
(***************************************************************************)
(* Proofs about Submission, for any number of tabs and of visits and any   *)
(* journeys.                                                               *)
(***************************************************************************)
EXTENDS Submission, TLAPS

-----------------------------------------------------------------------------
(* THE INVARIANT.                                                          *)

Entry == [form : Fingerprint, attempt : Nat]

(* Everything TypeOK says but KeyHeldOnce.                                 *)
Types ==
  /\ operation \in [Tabs -> Operations]
  /\ journey \in [Tabs -> Journeys]
  /\ photos \in [Tabs -> 0..MaxPhotos]
  /\ complete \in [Tabs -> BOOLEAN]
  /\ attempt \in [Tabs -> Nat]
  /\ page \in [Tabs -> Visits \cup {None}]
  /\ away \in [Tabs -> BOOLEAN]
  /\ pending \in [Tabs -> Command \cup {None}]
  /\ pc \in [Visits -> {"idle", "preparing", "waiting", "loading", "done"}]
  /\ tab \in [Visits -> Tabs \cup {None}]
  /\ entered \in [Visits -> Entry \cup {None}]
  /\ sent \in [Visits -> Command \cup {None}]
  /\ at \in [Visits -> {"none", "insert", "lookup", "work", "record", "done"}]
  /\ answer \in [Visits -> AnswerType]
  /\ records \subseteq RecordType
  /\ made \subseteq Visits

Sent(v) == at[v] # "none"

(* What a tab's form holds and the attempt it belongs to.                  *)
current(t) == [form |-> filled(t), attempt |-> attempt[t]]

(* A visit has a tab and what it was made with, no later than what its tab *)
(* holds now.                                                              *)
Made(v) ==
  pc[v] # "idle" =>
    /\ tab[v] \in Tabs /\ entered[v] \in Entry
    /\ entered[v].attempt <= attempt[tab[v]]
    /\ entered[v].form.photos <= photos[tab[v]]

(* The server has a request of it when its command was sent.               *)
Asked(v) ==
  /\ pc[v] \in {"idle", "preparing"} => at[v] = "none"
  /\ pc[v] = "waiting" => Sent(v)
  /\ Sent(v) => pc[v] # "idle" /\ sent[v] \in Command

(* A command is the one that the visit of its key prepared ...             *)
Known(c) == pc[c.key] # "idle" /\ c = command(c.key)

AllKnown ==
  /\ \A t \in Tabs : pending[t] # None => Known(pending[t])
  /\ \A v \in Visits : Sent(v) => Known(sent[v])

(* ... and is only sent for the form it was prepared from.                 *)
FormKept == \A v \in Visits : Sent(v) => sent[v].body.form = entered[v].form

(* What was made and what is recorded is the same.                         *)
Recorded ==
  /\ \A r \in records : /\ r.result \in made
                        /\ r.key = sent[r.result].key /\ r.hash = sent[r.result].body
  /\ \A v \in made : at[v] = "done" /\ recordsOf(v) # {}

(* A record that was found stays, and a result is of the key asked for.    *)
Answered(v) ==
  /\ at[v] = "lookup" => recordsOf(v) # {}
  /\ answer[v].code = "RESULT" =>
       Sent(v) /\ answer[v].of \in made /\ sent[answer[v].of].key = sent[v].key

(* As long as the page of a call was not left, it waits for the call ...   *)
Watched(v) ==
  /\ pc[v] = "preparing" /\ ~away[tab[v]] => page[tab[v]] = v
  /\ pc[v] \in {"waiting", "loading"} /\ ~away[tab[v]] /\ ~isQuote(tab[v]) => page[tab[v]] = v
  /\ pc[v] = "loading" => ~isQuote(tab[v])

(* ... which prepares a command only when what the form holds was not sent *)
(* yet ...                                                                 *)
FirstOfEntry(u) ==
  pc[u] = "preparing" /\ ~away[tab[u]] =>
    \A v \in Visits : Sent(v) /\ tab[v] = tab[u] =>
      entered[v] \notin {entered[u], current(tab[u])}

(* ... and when it was, its command is still saved, or the page is busy    *)
(* loading and will start another attempt.                                 *)
StillSaved(v) ==
  Sent(v) /\ ~away[tab[v]] /\ entered[v] = current(tab[v]) =>
    pending[tab[v]] = sent[v] \/ loading(tab[v])

OneCommandPerEntry ==
  \A v, w \in Visits :
    Sent(v) /\ Sent(w) /\ tab[v] = tab[w] /\ ~away[tab[v]] /\ entered[v] = entered[w]
      => sent[v] = sent[w]

Visiting == \A v \in Visits : Made(v) /\ Asked(v)
Serving  == /\ KeyHeldOnce /\ Recorded /\ OneRequestPerKey /\ RetryNotMistaken
            /\ \A v \in Visits : Answered(v)
Saving   == /\ \A v \in Visits : Watched(v) /\ FirstOfEntry(v) /\ StillSaved(v)
            /\ OneCommandPerEntry

IInv == Types /\ Visiting /\ AllKnown /\ FormKept /\ Serving /\ Saving

-----------------------------------------------------------------------------
LEMMA TypeParts ==
  /\ TypeOK <=> Types /\ KeyHeldOnce
BY DEF TypeOK, Types, Entry

LEMMA StartIInv == Init => IInv
<1> SUFFICES ASSUME Init PROVE IInv
  OBVIOUS
<1>1. Types
  BY SubmissionAssumption DEF Init, Types, AnswerType, Only
<1>2. Visiting /\ AllKnown /\ FormKept
  BY DEF Init, Visiting, Made, Asked, AllKnown, FormKept, Sent
<1>3. Serving
  BY DEF Init, Serving, KeyHeldOnce, OneRequestPerKey, Recorded, Answered, RetryNotMistaken, Only
<1>4. Saving
  BY DEF Init, Saving, Watched, FirstOfEntry, StillSaved, OneCommandPerEntry, Sent
<1> QED
  BY <1>1, <1>2, <1>3, <1>4 DEF IInv

LEMMA Forms ==
  ASSUME Types, NEW t \in Tabs
  PROVE  /\ filled(t) \in Fingerprint /\ current(t) \in Entry
         /\ current(t).attempt = attempt[t] /\ current(t).form = filled(t)
         /\ filled(t).details = journey[t] /\ filled(t).photos = photos[t]
BY SubmissionAssumption DEF Types, filled, current, Entry, Fingerprint

LEMMA Commands ==
  ASSUME NEW v \in Visits, entered[v] \in Entry
  PROVE  /\ command(v) \in Command /\ command(v) # None
         /\ command(v).key = v /\ command(v).body.form = entered[v].form
BY SubmissionAssumption DEF command, Command, Body, Entry

LEMMA Replies ==
  ASSUME Types, NEW v \in Visits
  PROVE  /\ Only("REFUSED") \in AnswerType /\ Only("FAILED") \in AnswerType
         /\ stored(v) \in AnswerType
         /\ [code |-> "RESULT", of |-> v] \in AnswerType
<1>1. \A code : code \in {"NONE", "RESULT", "REFUSED", "FAILED", "IDEMPOTENCY_RETRY",
                 "IDEMPOTENCY_KEY_REUSED", "IDEMPOTENCY_IN_PROGRESS"} => Only(code) \in AnswerType
  BY DEF Only, AnswerType
<1>2. stored(v) \in AnswerType
  <2>1. CASE recordsOf(v) = {}
    BY <1>1, <2>1 DEF stored
  <2>2. CASE recordsOf(v) # {}
    <3> DEFINE r == CHOOSE x \in recordsOf(v) : TRUE
    <3>1. r \in recordsOf(v)
      BY <2>2
    <3>2. r.result \in Visits \cup {None}
      BY <3>1 DEF recordsOf, Types, RecordType
    <3>3. stored(v) \in {Only("IDEMPOTENCY_KEY_REUSED"), Only("IDEMPOTENCY_IN_PROGRESS"),
                         [code |-> "RESULT", of |-> r.result]}
      BY <2>2 DEF stored
    <3> QED
      BY <1>1, <3>2, <3>3 DEF AnswerType
  <2> QED
    BY <2>1, <2>2
<1> QED
  BY <1>1, <1>2 DEF AnswerType

LEMMA TypesKept ==
  ASSUME Types, Visiting, [Next]_vars
  PROVE  Types'
<1> USE SubmissionAssumption
<1>1. ASSUME NEW t \in Tabs, Edit(t) PROVE Types'
  BY <1>1 DEF Edit, Types, entry, server
<1>2. ASSUME NEW t \in Tabs, Complete(t) PROVE Types'
  BY <1>2 DEF Complete, Types, server
<1>3. ASSUME NEW t \in Tabs, Reload(t) PROVE Types'
  <2>1. away' \in [Tabs -> BOOLEAN] /\ complete' \in [Tabs -> BOOLEAN]
    BY <1>3, Zenon DEF Reload, Types
  <2> QED
    BY <1>3, <2>1 DEF Reload, Types, server
<1>4. ASSUME NEW t \in Tabs, Leave(t) PROVE Types'
  BY <1>4 DEF Leave, Types, server
<1>5. ASSUME NEW t \in Tabs, NEW v \in Visits, Resend(v, t) PROVE Types'
  <2>1. [form |-> filled(t), attempt |-> attempt[t]] \in Entry /\ pending[t] \in Command
    BY <1>5, Forms DEF current, Resend, saved, Types
  <2> QED
    BY <1>5, <2>1 DEF Resend, open, send, Types, entry
<1>6. ASSUME NEW t \in Tabs, NEW v \in Visits, Prepare(v, t) PROVE Types'
  <2>1. [form |-> filled(t), attempt |-> attempt[t]] \in Entry
    BY Forms DEF current
  <2> QED
    BY <1>6, <2>1 DEF Prepare, open, Types, entry, server
<1>7. ASSUME NEW v \in Visits, Send(v) PROVE Types'
  <2>1. command(v) \in Command
    BY <1>7, Commands DEF Send, Visiting, Made
  <2> QED
    BY <1>7, <2>1 DEF Send, send, Types, form, entry
<1>8. ASSUME NEW v \in Visits, NoAnswer(v) PROVE Types'
  BY <1>8 DEF NoAnswer, settle, Types, entry, server
<1>9. ASSUME NEW v \in Visits, Receive(v) PROVE Types'
  <2>1. pending' \in [Tabs -> Command \cup {None}]
    BY <1>9 DEF Receive, ReceiveQuote, ReceiveClaim, ReceiveError, dropped, Types
  <2>2. /\ page' \in [Tabs -> Visits \cup {None}] /\ attempt' \in [Tabs -> Nat]
        /\ pc' \in [Visits -> {"idle", "preparing", "waiting", "loading", "done"}]
    BY <1>9 DEF Receive, ReceiveQuote, ReceiveClaim, ReceiveError, settle, Types
  <2> QED
    BY <1>9, <2>1, <2>2 DEF Receive, Types, entry, server
<1>show. ASSUME NEW v \in Visits, Show(v) PROVE Types'
  <2>1. PICK d \in BOOLEAN :
          /\ attempt' = [attempt EXCEPT ![tab[v]] = IF d THEN @ + 1 ELSE @]
          /\ complete' = [complete EXCEPT ![tab[v]] = @ /\ ~d]
    BY <1>show DEF Show
  <2>2. attempt' \in [Tabs -> Nat]
    <3>1. \A n \in Nat : (IF d THEN n + 1 ELSE n) \in Nat
      OBVIOUS
    <3> QED
      BY <2>1, <3>1 DEF Types
  <2>3. complete' \in [Tabs -> BOOLEAN]
    BY <2>1, Zenon DEF Types
  <2>4. /\ page' \in [Tabs -> Visits \cup {None}]
        /\ pc' \in [Visits -> {"idle", "preparing", "waiting", "loading", "done"}]
    BY <1>show DEF Show, settle, Types
  <2> QED
    BY <1>show, <2>2, <2>3, <2>4 DEF Show, Types, server
<1>10. ASSUME NEW v \in Visits, Insert(v) PROVE Types'
  BY <1>10 DEF Insert, Types, client, form, entry
<1>11. ASSUME NEW v \in Visits, Lookup(v) PROVE Types'
  BY <1>11, Replies DEF Lookup, reply, Types, client, form, entry
<1>12. ASSUME NEW v \in Visits, Work(v) PROVE Types'
  <2>1. CASE at' = [at EXCEPT ![v] = "record"] /\ UNCHANGED answer
    BY <1>12, <2>1 DEF Work, Types, client, form, entry
  <2>2. CASE reply(v, Only("REFUSED"))
    BY <1>12, <2>2, Replies DEF Work, reply, Types, client, form, entry
  <2> QED
    BY <1>12, <2>1, <2>2 DEF Work
<1>13. ASSUME NEW v \in Visits, Commit(v) PROVE Types'
  <2>1. sent[v] \in Command
    BY <1>13 DEF Commit, Visiting, Asked, Sent
  <2>2. [key |-> sent[v].key, hash |-> sent[v].body, result |-> v] \in RecordType
    BY <2>1 DEF Command, RecordType
  <2>3. records' \subseteq RecordType /\ made' \subseteq Visits
    BY <1>13, <2>2 DEF Commit, Types
  <2>4. at' \in [Visits -> {"none", "insert", "lookup", "work", "record", "done"}]
        /\ answer' \in [Visits -> AnswerType]
    BY <1>13, Replies DEF Commit, reply, Types
  <2> QED
    BY <1>13, <2>3, <2>4 DEF Commit, Types, client, form, entry
<1>14. ASSUME NEW v \in Visits, Fail(v) PROVE Types'
  BY <1>14, Replies DEF Fail, reply, Types, client, form, entry
<1>15. CASE UNCHANGED vars
  BY <1>15 DEF vars, client, server, form, entry, Types
<1> QED
  BY <1>1, <1>2, <1>3, <1>4, <1>5, <1>6, <1>7, <1>8, <1>9, <1>show, <1>10, <1>11, <1>12, <1>13,
     <1>14, <1>15 DEF Next

-----------------------------------------------------------------------------
(* STEPS.                                                                  *)

(* The form moves on; a visit keeps its entry and a request its command.   *)
Onward ==
  /\ operation' = operation /\ made \subseteq made'
  /\ \A t \in Tabs : /\ attempt[t] <= attempt'[t] /\ photos[t] <= photos'[t]
                     /\ away[t] => away'[t]
  /\ \A v \in Visits :
       /\ pc[v] # "idle" => pc'[v] # "idle" /\ tab'[v] = tab[v] /\ entered'[v] = entered[v]
       /\ Sent(v) => Sent(v)' /\ sent'[v] = sent[v]

Client(t, v) ==
  Edit(t) \/ Complete(t) \/ Reload(t) \/ Leave(t) \/ Resend(v, t) \/ Prepare(v, t)

Server(v) == Insert(v) \/ Lookup(v) \/ Work(v) \/ Commit(v) \/ Fail(v)

LEMMA ServerOnward ==
  ASSUME Types, Visiting, NEW v \in Visits, Server(v)
  PROVE  Onward /\ UNCHANGED client
<1>1. UNCHANGED client /\ made \subseteq made'
  BY DEF Server, Insert, Lookup, Work, Commit, Fail
<1>2. at[v] # "none" /\ \E new \in {"work", "lookup", "record", "done"} : at' = [at EXCEPT ![v] = new]
  BY DEF Server, Insert, Lookup, Work, Commit, Fail, reply
<1> QED
  BY <1>1, <1>2 DEF Onward, client, form, entry, Types, Sent

LEMMA StepOnward ==
  ASSUME Types, Visiting, [Next]_vars
  PROVE  Onward
<1>1. ASSUME NEW t \in Tabs, Edit(t) \/ Complete(t) \/ Leave(t) PROVE Onward
  <2>1. operation' = operation /\ UNCHANGED <<pc, tab, entered, sent, at, made>>
    BY <1>1 DEF Edit, Complete, Leave, server, entry
  <2>2. \A u \in Tabs : /\ attempt[u] <= attempt'[u] /\ photos[u] <= photos'[u]
                        /\ away[u] => away'[u]
    <3>1. CASE Edit(t)
      BY <3>1 DEF Edit, entry, Types
    <3>2. CASE Complete(t)
      BY <3>2 DEF Complete, Types
    <3>3. CASE Leave(t)
      <4>1. attempt' = attempt /\ photos' = photos
        BY <3>3 DEF Leave
      <4>2. \A u \in Tabs : away[u] => away'[u]
        BY <3>3, Zenon DEF Leave, Types
      <4> QED
        BY <4>1, <4>2 DEF Types
    <3> QED
      BY <1>1, <3>1, <3>2, <3>3
  <2> QED
    BY <2>1, <2>2 DEF Onward, Sent
<1>2. ASSUME NEW t \in Tabs, Reload(t) PROVE Onward
  <2>1. \A u \in Tabs : away[u] => away'[u]
    BY <1>2, Zenon DEF Reload, Types
  <2> QED
    BY <1>2, <2>1 DEF Reload, server, Onward, Sent, Types
<1>3. ASSUME NEW t \in Tabs, NEW v \in Visits, Resend(v, t) PROVE Onward
  BY <1>3 DEF Resend, open, send, entry, Onward, Sent, Types, Visiting, Asked
<1>4. ASSUME NEW t \in Tabs, NEW v \in Visits, Prepare(v, t) PROVE Onward
  BY <1>4 DEF Prepare, open, server, entry, Onward, Sent, Types
<1>5. ASSUME NEW v \in Visits, Send(v) PROVE Onward
  BY <1>5 DEF Send, send, form, entry, Onward, Sent, Types, Visiting, Asked
<1>6. ASSUME NEW v \in Visits, NoAnswer(v) PROVE Onward
  BY <1>6 DEF NoAnswer, settle, server, entry, Onward, Sent, Types
<1>7. ASSUME NEW v \in Visits, Receive(v) \/ Show(v) PROVE Onward
  <2>1. attempt' = attempt \/ attempt' = [attempt EXCEPT ![tab[v]] = @ + 1]
    BY <1>7 DEF Receive, ReceiveQuote, ReceiveClaim, ReceiveError, Show, Types
  <2>2. \A t \in Tabs : attempt[t] <= attempt'[t]
    BY <2>1 DEF Types
  <2>3. /\ UNCHANGED <<operation, photos, away, tab, entered, sent, server>>
        /\ pc' = [pc EXCEPT ![v] = "done"] \/ pc' = [pc EXCEPT ![v] = "loading"]
    BY <1>7 DEF Receive, ReceiveQuote, ReceiveClaim, ReceiveError, Show, settle, entry
  <2> QED
    BY <2>2, <2>3 DEF server, Onward, Sent, Types
<1>8. ASSUME NEW v \in Visits, Server(v) PROVE Onward
  BY <1>8, ServerOnward
<1>9. CASE UNCHANGED vars
  BY <1>9 DEF vars, client, server, form, entry, Types, Onward, Sent
<1> QED
  BY <1>1, <1>2, <1>3, <1>4, <1>5, <1>6, <1>7, <1>8, <1>9 DEF Next, Server

(* What the end of a call leaves alone.                                    *)
LEMMA Ends ==
  ASSUME NEW v \in Visits, NoAnswer(v) \/ Receive(v) \/ Show(v)
  PROVE  /\ UNCHANGED <<operation, journey, photos, away, tab, entered, sent, server>>
         /\ pc[v] # "idle"
         /\ pc' = [pc EXCEPT ![v] = "done"] \/ pc' = [pc EXCEPT ![v] = "loading"]
BY DEF NoAnswer, Receive, ReceiveQuote, ReceiveClaim, ReceiveError, Show, settle, entry

LEMMA VisitingKept ==
  ASSUME Types, Visiting, [Next]_vars
  PROVE  Visiting'
<1>o. Onward
  BY StepOnward
<1>t. Types'
  BY TypesKept
<1> SUFFICES ASSUME NEW x \in Visits PROVE Made(x)' /\ Asked(x)'
  BY DEF Visiting
<1>x. Made(x) /\ Asked(x)
  BY DEF Visiting
<1>1. CASE pc[x] # "idle"
  <2>1. Made(x)'
    BY <1>1, <1>x, <1>o, <1>t DEF Made, Onward, Types, Entry, Fingerprint
  <2>2. Asked(x)'
    <3>1. ASSUME NEW v \in Visits, Send(v) PROVE Asked(x)'
      <4>1. command(v) \in Command
        BY <3>1, Commands DEF Send, Visiting, Made
      <4> QED
        BY <3>1, <4>1, <1>x DEF Send, send, Asked, Sent, Types
    <3>2. ASSUME NEW t \in Tabs, NEW v \in Visits, Resend(v, t) PROVE Asked(x)'
      BY <3>2, <1>1, <1>x DEF Resend, open, send, Asked, Sent, Types
    <3>3. ASSUME NEW t \in Tabs, NEW v \in Visits, Prepare(v, t) PROVE Asked(x)'
      BY <3>3, <1>1, <1>x DEF Prepare, open, server, Asked, Sent, Types
    <3>4. ASSUME NEW v \in Visits, NoAnswer(v) \/ Receive(v) \/ Show(v) PROVE Asked(x)'
      <4>1. /\ UNCHANGED <<sent, server>>
            /\ pc' = [pc EXCEPT ![v] = "done"] \/ pc' = [pc EXCEPT ![v] = "loading"]
        BY <3>4, Ends
      <4> QED
        BY <4>1, <1>1, <1>x DEF server, Asked, Sent, Types
    <3>5. ASSUME NEW v \in Visits, Server(v) PROVE Asked(x)'
      <4>1. UNCHANGED client /\ at[v] # "none"
        BY <3>5, ServerOnward DEF Server, Insert, Lookup, Work, Commit, Fail
      <4>2. at'[x] # "none" <=> at[x] # "none"
        BY <3>5 DEF Server, Insert, Lookup, Work, Commit, Fail, reply, Types
      <4> QED
        BY <4>1, <4>2, <1>x DEF Asked, Sent, client
    <3>6. ASSUME NEW t \in Tabs, Edit(t) \/ Complete(t) \/ Leave(t) PROVE Asked(x)'
      BY <3>6, <1>x DEF Edit, Complete, Leave, server, Asked, Sent
    <3>7. ASSUME NEW t \in Tabs, Reload(t) PROVE Asked(x)'
      BY <3>7, <1>1, <1>x DEF Reload, server, Asked, Sent, Types
    <3>8. CASE UNCHANGED vars
      BY <3>8, <1>x DEF vars, client, server, Asked, Sent
    <3> QED
      BY <3>1, <3>2, <3>3, <3>4, <3>5, <3>6, <3>7, <3>8 DEF Next, Server
  <2> QED
    BY <2>1, <2>2
<1>2. CASE pc[x] = "idle"
  <2>1. ASSUME NEW t \in Tabs, Resend(x, t) PROVE Made(x)' /\ Asked(x)'
    <3>1. filled(t) \in Fingerprint /\ filled(t).photos = photos[t] /\ attempt[t] \in Nat
          /\ photos[t] \in Nat
      BY Forms, SubmissionAssumption DEF Types
    <3> QED
      BY <2>1, <3>1 DEF Resend, open, send, saved, entry, Made, Asked, Sent, Types, Entry
  <2>2. ASSUME NEW t \in Tabs, Prepare(x, t) PROVE Made(x)' /\ Asked(x)'
    <3>1. filled(t) \in Fingerprint /\ filled(t).photos = photos[t] /\ attempt[t] \in Nat
          /\ photos[t] \in Nat
      BY Forms, SubmissionAssumption DEF Types
    <3> QED
      BY <2>2, <3>1, <1>x, <1>2 DEF Prepare, open, server, entry, Made, Asked, Sent, Types, Entry
  <2>3. ASSUME ~\E t \in Tabs : Resend(x, t) \/ Prepare(x, t) PROVE pc'[x] = "idle" /\ at'[x] = at[x]
    <3>1. ASSUME NEW v \in Visits, Send(v) \/ NoAnswer(v) \/ Receive(v) \/ Show(v)
          PROVE pc'[x] = "idle" /\ at'[x] = at[x]
      <4>1. CASE Send(v)
        BY <4>1, <1>2 DEF Send, send, Types
      <4>2. CASE NoAnswer(v) \/ Receive(v) \/ Show(v)
        <5>1. pc[v] # "idle" /\ UNCHANGED server
              /\ (pc' = [pc EXCEPT ![v] = "done"] \/ pc' = [pc EXCEPT ![v] = "loading"])
          BY <4>2, Ends
        <5> QED
          BY <5>1, <1>2 DEF server, Types
      <4> QED
        BY <3>1, <4>1, <4>2
    <3>2. ASSUME NEW v \in Visits, Server(v) PROVE pc'[x] = "idle" /\ at'[x] = at[x]
      <4>1. UNCHANGED client /\ at[v] # "none"
        BY <3>2, ServerOnward DEF Server, Insert, Lookup, Work, Commit, Fail
      <4>2. v # x
        BY <4>1, <1>2, <1>x DEF Asked
      <4> QED
        BY <3>2, <1>2, <4>1, <4>2 DEF Server, Insert, Lookup, Work, Commit, Fail, reply, Types, client
    <3>3. ASSUME NEW t \in Tabs, Edit(t) \/ Complete(t) \/ Leave(t) \/ Reload(t)
          PROVE pc'[x] = "idle" /\ at'[x] = at[x]
      BY <3>3, <1>2 DEF Edit, Complete, Leave, Reload, server
    <3>4. ASSUME NEW t \in Tabs, NEW v \in Visits, Resend(v, t) \/ Prepare(v, t)
          PROVE pc'[x] = "idle" /\ at'[x] = at[x]
      BY <2>3, <3>4, <1>2 DEF Resend, Prepare, open, send, server, Types
    <3>5. CASE UNCHANGED vars
      BY <3>5, <1>2 DEF vars, client, server
    <3> QED
      BY <3>1, <3>2, <3>3, <3>4, <3>5 DEF Next, Server
  <2> QED
    BY <2>1, <2>2, <2>3, <1>2, <1>x DEF Made, Asked, Sent
<1> QED
  BY <1>1, <1>2

-----------------------------------------------------------------------------
(* WHAT IS SENT.                                                           *)

LEMMA KnownStays ==
  ASSUME Types, Onward, NEW c \in Command, Known(c)
  PROVE  Known(c)'
BY DEF Types, Onward, Known, command, Command

(* A new pending command and a new sent one.                               *)
LEMMA KnownKept ==
  ASSUME Types, Visiting, AllKnown, [Next]_vars
  PROVE  AllKnown'
<1>o. Onward
  BY StepOnward
<1>t. Types'
  BY TypesKept
<1>1. ASSUME NEW v \in Visits, Send(v) PROVE AllKnown'
  <2>1. /\ pc[v] # "idle" /\ tab[v] \in Tabs /\ entered[v] \in Entry
        /\ command(v) \in Command /\ command(v).key = v
    BY <1>1, Commands DEF Send, Visiting, Made
  <2>2. Known(command(v))
    BY <2>1 DEF Known
  <2>3. Known(command(v))'
    BY <1>1, <2>1, <2>2 DEF Send, send, Known, form, command, Types
  <2>4. /\ pending' = [pending EXCEPT ![tab[v]] = command(v)]
        /\ sent' = [sent EXCEPT ![v] = command(v)]
        /\ \A x \in Visits : x # v => at'[x] = at[x]
        /\ UNCHANGED entered
    BY <1>1 DEF Send, send, form, Types
  <2>5. \A c \in Command : Known(c) => Known(c)'
    BY <1>o, KnownStays
  <2>6. command(v)' = command(v)
    BY <2>4 DEF command
  <2>7. \A t \in Tabs : pending'[t] # None => Known(pending[t])'
    BY <2>3, <2>4, <2>5, <2>6, <1>t DEF Types, AllKnown
  <2>8. \A x \in Visits : Sent(x)' => Known(sent[x])'
    BY <2>3, <2>4, <2>5, <2>6 DEF Types, AllKnown, Sent, Visiting, Asked
  <2> QED
    BY <2>7, <2>8 DEF AllKnown
<1>2. ASSUME NEW t \in Tabs, NEW v \in Visits, Resend(v, t) PROVE AllKnown'
  <2>1. /\ pending[t] # None /\ pending' = pending
        /\ sent' = [sent EXCEPT ![v] = pending[t]]
        /\ \A x \in Visits : x # v => at'[x] = at[x]
    BY <1>2 DEF Resend, saved, send, Types
  <2>2. \A c \in Command : Known(c) => Known(c)'
    BY <1>o, KnownStays
  <2>3. \A u \in Tabs : pending[u] # None => pending[u] \in Command /\ Known(pending[u])'
    BY <2>1, <2>2 DEF Types, AllKnown
  <2>4. \A x \in Visits : Sent(x)' => Known(sent[x])'
    BY <2>1, <2>2, <2>3 DEF Types, AllKnown, Sent, Visiting, Asked
  <2> QED
    BY <2>1, <2>3, <2>4 DEF AllKnown
<1>3. ASSUME \/ UNCHANGED pending
             \/ \E t \in Tabs : pending' = [pending EXCEPT ![t] = None],
             \A v \in Visits : Sent(v)' => Sent(v)
      PROVE  AllKnown'
  <2>1. \A c \in Command : Known(c) => Known(c)'
    BY <1>o, KnownStays
  <2>2. \A t \in Tabs : pending'[t] # None => pending'[t] = pending[t]
    BY <1>3 DEF Types
  <2>3. \A x \in Visits : Sent(x)' => Sent(x) /\ sent'[x] = sent[x] /\ sent[x] \in Command
    BY <1>3, <1>o DEF Onward, Visiting, Asked
  <2> QED
    BY <2>1, <2>2, <2>3 DEF AllKnown, Types
<1>4. ASSUME NEW t \in Tabs, \/ Edit(t) \/ Complete(t) \/ Leave(t) \/ Reload(t)
                             \/ \E v \in Visits : Prepare(v, t)
      PROVE  AllKnown'
  BY <1>4, <1>3 DEF Edit, Complete, Leave, Reload, Prepare, server, Sent
<1>5. ASSUME NEW v \in Visits, NoAnswer(v) \/ Show(v) PROVE AllKnown'
  BY <1>5, <1>3 DEF NoAnswer, Show, server, Sent
<1>6. ASSUME NEW v \in Visits, Receive(v) PROVE AllKnown'
  <2>1. tab[v] \in Tabs /\ \A x \in Visits : Sent(x)' => Sent(x)
    BY <1>6 DEF Receive, Visiting, Made, server, Sent
  <2>2. UNCHANGED pending \/ pending' = [pending EXCEPT ![tab[v]] = None]
    BY <1>6 DEF Receive, ReceiveQuote, ReceiveClaim, ReceiveError, dropped
  <2> QED
    BY <2>1, <2>2, <1>3
<1>7. ASSUME NEW v \in Visits, Server(v) PROVE AllKnown'
  <2>1. UNCHANGED pending
    BY <1>7, ServerOnward DEF client
  <2>2. \A x \in Visits : at'[x] # "none" => at[x] # "none"
    BY <1>7 DEF Server, Insert, Lookup, Work, Commit, Fail, reply, Types
  <2> QED
    BY <2>1, <2>2, <1>3 DEF Sent
<1>8. CASE UNCHANGED vars
  BY <1>8, <1>3 DEF vars, client, server, Sent
<1> QED
  BY <1>1, <1>2, <1>4, <1>5, <1>6, <1>7, <1>8 DEF Next, Server

(* One key, one command.                                                   *)
LEMMA SameKey ==
  ASSUME Visiting, AllKnown, NEW v \in Visits, NEW w \in Visits, Sent(v), Sent(w)
  PROVE  sent[v].key = sent[w].key <=> sent[v] = sent[w]
BY DEF Visiting, AllKnown, Known, Asked

LEMMA FormStays ==
  ASSUME Types, Visiting, AllKnown, FormKept, [Next]_vars
  PROVE  FormKept'
<1>o. Onward
  BY StepOnward
<1>n. Visiting'
  BY VisitingKept
<1> SUFFICES ASSUME NEW x \in Visits, Sent(x)'
             PROVE  (sent[x].body.form = entered[x].form)'
  BY DEF FormKept
<1>1. CASE Sent(x)
  BY <1>1, <1>o DEF Onward, FormKept, Visiting, Asked
<1>2. ASSUME Send(x) PROVE (sent[x].body.form = entered[x].form)'
  <2>1. sent'[x] = command(x) /\ entered'[x] = entered[x]
    BY <1>2 DEF Send, send, form, Types
  <2>2. command(x).body.form = entered[x].form
    BY <1>2, Commands DEF Send, Visiting, Made
  <2> QED
    BY <2>1, <2>2
<1>3. ASSUME NEW t \in Tabs, Resend(x, t) PROVE (sent[x].body.form = entered[x].form)'
  BY <1>3 DEF Resend, open, send, saved, Types
<1>4. ASSUME ~Sent(x), ~Send(x), ~\E t \in Tabs : Resend(x, t) PROVE FALSE
  <2>1. ASSUME NEW v \in Visits, v # x, Send(v) PROVE at'[x] = at[x]
    BY <2>1 DEF Send, send
  <2>2. ASSUME NEW v \in Visits, NEW t \in Tabs, v # x, Resend(v, t) PROVE at'[x] = at[x]
    BY <2>2 DEF Resend, send
  <2>3. ASSUME NEW v \in Visits, Server(v) PROVE at'[x] # "none" => at[x] # "none"
    BY <2>3 DEF Server, Insert, Lookup, Work, Commit, Fail, reply, Types
  <2>4. ASSUME NEW t \in Tabs, \/ Edit(t) \/ Complete(t) \/ Leave(t) \/ Reload(t)
                               \/ \E v \in Visits : Prepare(v, t)
        PROVE at' = at
    BY <2>4 DEF Edit, Complete, Leave, Reload, Prepare, server
  <2>5. ASSUME NEW v \in Visits, NoAnswer(v) \/ Receive(v) \/ Show(v) PROVE at' = at
    BY <2>5, Ends DEF server
  <2>6. CASE UNCHANGED vars
    BY <2>6, <1>4 DEF vars, server, Sent
  <2> QED
    BY <2>1, <2>2, <2>3, <2>4, <2>5, <2>6, <1>4 DEF Next, Server, Sent
<1> QED
  BY <1>1, <1>2, <1>3, <1>4

-----------------------------------------------------------------------------
(* THE SERVER.                                                             *)

(* A client's step leaves what the server does with its requests.          *)
LEMMA Asking ==
  ASSUME Types, Visiting, [Next]_vars, ~\E v \in Visits : Server(v)
  PROVE  /\ UNCHANGED <<answer, records, made>>
         /\ \A x \in Visits : Sent(x) => at'[x] = at[x] /\ sent'[x] = sent[x]
         /\ \A x \in Visits : ~Sent(x) => at'[x] \in {"none", "insert"}
<1>1. ASSUME NEW v \in Visits, pc[v] \in {"idle", "preparing"}, \E c : send(v, c),
             UNCHANGED <<answer, records, made>>
      PROVE  /\ UNCHANGED <<answer, records, made>>
             /\ \A x \in Visits : Sent(x) => at'[x] = at[x] /\ sent'[x] = sent[x]
             /\ \A x \in Visits : ~Sent(x) => at'[x] \in {"none", "insert"}
  BY <1>1 DEF send, Visiting, Asked, Sent, Types
<1>2. ASSUME UNCHANGED <<sent, server>>
      PROVE  /\ UNCHANGED <<answer, records, made>>
             /\ \A x \in Visits : Sent(x) => at'[x] = at[x] /\ sent'[x] = sent[x]
             /\ \A x \in Visits : ~Sent(x) => at'[x] \in {"none", "insert"}
  BY <1>2 DEF server, Sent
<1>3. ASSUME NEW v \in Visits, Send(v) \/ \E t \in Tabs : Resend(v, t)
      PROVE  pc[v] \in {"idle", "preparing"} /\ (\E c : send(v, c)) /\ UNCHANGED <<answer, records, made>>
  BY <1>3 DEF Send, Resend, open
<1>4. ASSUME NEW t \in Tabs, \/ Edit(t) \/ Complete(t) \/ Leave(t) \/ Reload(t)
                             \/ \E v \in Visits : Prepare(v, t)
      PROVE  UNCHANGED <<sent, server>>
  BY <1>4 DEF Edit, Complete, Leave, Reload, Prepare
<1>5. ASSUME NEW v \in Visits, NoAnswer(v) \/ Receive(v) \/ Show(v)
      PROVE  UNCHANGED <<sent, server>>
  BY <1>5, Ends
<1>6. CASE UNCHANGED vars
  BY <1>6, <1>2 DEF vars, client
<1> QED
  BY <1>1, <1>2, <1>3, <1>4, <1>5, <1>6 DEF Next, Server

LEMMA AskingServes ==
  ASSUME Types, Visiting, Serving, [Next]_vars, ~\E v \in Visits : Server(v)
  PROVE  Serving'
<1>1. /\ UNCHANGED <<answer, records, made>>
      /\ \A x \in Visits : Sent(x) => at'[x] = at[x] /\ sent'[x] = sent[x]
      /\ \A x \in Visits : ~Sent(x) => at'[x] \in {"none", "insert"}
  BY Asking
<1>2. \A x \in Visits : at'[x] \in {"work", "record", "lookup", "done"} =>
        Sent(x) /\ at'[x] = at[x] /\ recordsOf(x)' = recordsOf(x)
  BY <1>1 DEF recordsOf, Sent
<1>3. KeyHeldOnce'
  <2> SUFFICES ASSUME NEW x \in Visits, at'[x] \in {"work", "record"}
               PROVE  inserting(x)' = {} /\ recordsOf(x)' = {}
    BY DEF KeyHeldOnce
  <2>1. \A w \in inserting(x)' : w \in inserting(x)
    BY <1>1, <1>2 DEF inserting, Sent
  <2> QED
    BY <2>1, <1>2 DEF Serving, KeyHeldOnce
<1>4. Recorded'
  <2>1. \A r \in records : r.result \in Visits /\ Sent(r.result)
    BY DEF Serving, Recorded, Types, Sent
  <2>2. \A x \in made : x \in Visits /\ Sent(x) /\ at'[x] = "done"
    BY <1>1 DEF Serving, Recorded, Types, Sent
  <2> QED
    BY <1>1, <1>2, <2>1, <2>2 DEF Serving, Recorded
<1>5. \A x \in Visits : Answered(x)'
  <2>1. \A x \in made : x \in Visits /\ Sent(x)
    BY DEF Serving, Recorded, Types, Sent
  <2> QED
    BY <1>1, <1>2, <2>1 DEF Serving, Answered, Sent
<1>6. OneRequestPerKey'
  BY <1>1 DEF Serving, OneRequestPerKey, Recorded, Types, Sent
<1> QED
  BY <1>1, <1>3, <1>4, <1>5, <1>6 DEF Serving, RetryNotMistaken

(* A retry finds the record of its own command.                            *)
LEMMA Found ==
  ASSUME Types, Visiting, AllKnown, Serving, NEW v \in Visits, at[v] = "lookup"
  PROVE  \E w \in made : stored(v) = [code |-> "RESULT", of |-> w] /\ sent[w].key = sent[v].key
<1> DEFINE r == CHOOSE x \in recordsOf(v) : TRUE
<1>1. recordsOf(v) # {} /\ r \in recordsOf(v)
  BY DEF Serving, Answered
<1>2. /\ r.result \in made /\ r.result \in Visits /\ Sent(r.result) /\ Sent(v)
      /\ sent[r.result].key = sent[v].key /\ r.hash = sent[r.result].body
  BY <1>1 DEF recordsOf, Serving, Recorded, Types, Sent
<1>3. sent[r.result] = sent[v]
  BY <1>2, SameKey
<1>4. r.result # None
  BY <1>2, SubmissionAssumption
<1> HIDE DEF r
<1>5. stored(v) = [code |-> "RESULT", of |-> r.result]
  BY <1>1, <1>2, <1>3, <1>4 DEF stored, r
<1> QED
  BY <1>2, <1>5

LEMMA ServerServes ==
  ASSUME Types, Visiting, AllKnown, Serving, NEW v \in Visits, Server(v)
  PROVE  Serving'
<1>c. /\ UNCHANGED <<pc, tab, entered, sent>>
      /\ at[v] \notin {"none", "done"} /\ Sent(v) /\ v \notin made
      /\ \A x \in made : x # v /\ x \in Visits /\ Sent(x)
  BY ServerOnward DEF client, Server, Insert, Lookup, Work, Commit, Fail, Sent, Serving, Recorded, Types
<1>1. CASE Insert(v)
  <2>1. /\ inserting(v) = {} /\ UNCHANGED <<answer, records, made>>
        /\ at' = [at EXCEPT ![v] = IF recordsOf(v) = {} THEN "work" ELSE "lookup"]
    BY <1>1 DEF Insert
  <2>2. \A x \in Visits : recordsOf(x)' = recordsOf(x)
    BY <2>1, <1>c DEF recordsOf
  <2>3. /\ \A x \in Visits : x # v => at'[x] = at[x]
        /\ recordsOf(v) = {} => at'[v] = "work"
        /\ recordsOf(v) # {} => at'[v] = "lookup"
    BY <2>1 DEF Types
  <2>4. KeyHeldOnce'
    <3> SUFFICES ASSUME NEW x \in Visits, at'[x] \in {"work", "record"}
                 PROVE  inserting(x)' = {} /\ recordsOf(x)' = {}
      BY DEF KeyHeldOnce
    <3>1. CASE x = v
      <4>1. \A w \in inserting(v)' : w \in inserting(v)
        BY <2>3, <1>c DEF inserting
      <4> QED
        BY <3>1, <4>1, <2>1, <2>2, <2>3
    <3>2. CASE x # v
      <4>1. inserting(x) = {} /\ recordsOf(x) = {}
        BY <3>2, <2>3 DEF Serving, KeyHeldOnce
      <4>2. x \notin inserting(v)
        BY <2>1
      <4>3. \A w \in inserting(x)' : w \in inserting(x)
        BY <3>2, <4>2, <2>3, <1>c DEF inserting
      <4> QED
        BY <4>1, <4>3, <2>2
    <3> QED
      BY <3>1, <3>2
  <2>5. Recorded'
    BY <2>1, <2>2, <2>3, <1>c DEF Serving, Recorded, Types
  <2>6. \A x \in Visits : Answered(x)'
    BY <2>1, <2>2, <2>3, <1>c DEF Serving, Answered, Sent
  <2>7. OneRequestPerKey'
    BY <2>1, <1>c DEF Serving, OneRequestPerKey
  <2> QED
    BY <2>1, <2>4, <2>5, <2>6, <2>7 DEF Serving, RetryNotMistaken
<1>2. CASE Lookup(v) \/ Work(v) \/ Fail(v)
  <2>1. /\ UNCHANGED <<records, made>>
        /\ \A x \in Visits : x # v => at'[x] = at[x] /\ answer'[x] = answer[x]
        /\ at'[v] \in {"record", "done"}
        /\ at'[v] = "record" => at[v] = "work"
    BY <1>2 DEF Lookup, Work, Fail, reply, Types
  <2>2. \A x \in Visits : recordsOf(x)' = recordsOf(x)
    BY <2>1, <1>c DEF recordsOf
  <2>3. KeyHeldOnce'
    <3> SUFFICES ASSUME NEW x \in Visits, at'[x] \in {"work", "record"}
                 PROVE  inserting(x)' = {} /\ recordsOf(x)' = {}
      BY DEF KeyHeldOnce
    <3>1. at[x] \in {"work", "record"}
      BY <2>1
    <3>2. \A w \in inserting(x)' : w \in inserting(x)
      BY <2>1, <1>c DEF inserting
    <3> QED
      BY <3>1, <3>2, <2>2 DEF Serving, KeyHeldOnce
  <2>4. Recorded'
    BY <2>1, <2>2, <1>c DEF Serving, Recorded, Types
  <2>5. \/ answer'[v] = answer[v]
        \/ answer'[v] \in {Only("REFUSED"), Only("FAILED")}
        \/ \E w \in made : answer'[v] = [code |-> "RESULT", of |-> w] /\ sent[w].key = sent[v].key
    BY <1>2, Found DEF Lookup, Work, Fail, reply, Types
  <2>6. Answered(v)' /\ answer'[v].code \notin
          {"IDEMPOTENCY_RETRY", "IDEMPOTENCY_KEY_REUSED", "IDEMPOTENCY_IN_PROGRESS"}
    <3>1. CASE answer'[v] = answer[v]
      BY <3>1, <2>1, <1>c DEF Serving, Answered, Sent, RetryNotMistaken
    <3>2. CASE answer'[v] \in {Only("REFUSED"), Only("FAILED")}
      BY <3>2, <2>1, <1>c DEF Answered, Only
    <3>3. ASSUME NEW w \in made, answer'[v] = [code |-> "RESULT", of |-> w],
                 sent[w].key = sent[v].key
          PROVE  Answered(v)' /\ answer'[v].code = "RESULT"
      BY <3>3, <2>1, <1>c DEF Answered, Sent
    <3> QED
      BY <2>5, <3>1, <3>2, <3>3
  <2>7. \A x \in Visits : x # v => Answered(x)'
    BY <2>1, <2>2, <1>c DEF Serving, Answered, Sent
  <2>8. OneRequestPerKey'
    BY <2>1, <1>c DEF Serving, OneRequestPerKey
  <2> QED
    BY <2>1, <2>3, <2>4, <2>6, <2>7, <2>8 DEF Serving, RetryNotMistaken
<1>3. CASE Commit(v)
  <2>1. inserting(v) = {} /\ recordsOf(v) = {} /\ at[v] = "record"
    BY <1>3 DEF Commit, Serving, KeyHeldOnce
  <2>2. PICK r : r = [key |-> sent[v].key, hash |-> sent[v].body, result |-> v]
    OBVIOUS
  <2>3. /\ records' = records \cup {r} /\ made' = made \cup {v}
        /\ \A x \in Visits : x # v => at'[x] = at[x] /\ answer'[x] = answer[x]
        /\ at'[v] = "done" /\ answer'[v] = [code |-> "RESULT", of |-> v]
    BY <1>3, <2>1, <2>2 DEF Commit, reply, Types
  <2>4. r.key = sent[v].key /\ r.hash = sent[v].body /\ r.result = v
    BY <2>2
  <2>5. \A x \in Visits : /\ recordsOf(x) \subseteq recordsOf(x)'
                          /\ sent[x].key # sent[v].key => recordsOf(x)' = recordsOf(x)
    BY <2>3, <2>4, <1>c DEF recordsOf
  <2>6. KeyHeldOnce'
    <3> SUFFICES ASSUME NEW x \in Visits, at'[x] \in {"work", "record"}
                 PROVE  inserting(x)' = {} /\ recordsOf(x)' = {}
      BY DEF KeyHeldOnce
    <3>1. x # v /\ at[x] \in {"work", "record"} /\ x \notin inserting(v)
      BY <2>1, <2>3
    <3>2. sent[x].key # sent[v].key
      BY <3>1 DEF inserting
    <3>3. \A w \in inserting(x)' : w \in inserting(x)
      BY <2>3, <1>c DEF inserting
    <3> QED
      BY <3>1, <3>2, <3>3, <2>5 DEF Serving, KeyHeldOnce
  <2>7. Recorded'
    <3>1. \A s \in records' : s.result \in made' /\ s.key = sent'[s.result].key
                               /\ s.hash = sent'[s.result].body
      BY <2>3, <2>4, <1>c DEF Serving, Recorded
    <3>2. r \in recordsOf(v)'
      BY <2>3, <2>4, <1>c DEF recordsOf
    <3>3. \A x \in made' : at'[x] = "done" /\ recordsOf(x)' # {}
      BY <3>2, <2>3, <2>5, <1>c DEF Serving, Recorded
    <3> QED
      BY <3>1, <3>3 DEF Recorded
  <2>8. \A x \in Visits : Answered(x)'
    <3>1. Answered(v)'
      BY <2>3, <1>c DEF Answered, Sent
    <3>2. \A x \in Visits : x # v => Answered(x)'
      BY <2>3, <2>5, <1>c DEF Serving, Answered, Sent
    <3> QED
      BY <3>1, <3>2
  <2>9. RetryNotMistaken'
    BY <2>3 DEF Serving, RetryNotMistaken
  <2>10. OneRequestPerKey'
    <3>1. \A x \in made : sent[x].key # sent[v].key
      BY <2>1, <1>c DEF Serving, Recorded, recordsOf
    <3> QED
      BY <3>1, <2>3, <1>c DEF Serving, OneRequestPerKey
  <2> QED
    BY <2>6, <2>7, <2>8, <2>9, <2>10 DEF Serving
<1> QED
  BY <1>1, <1>2, <1>3 DEF Server

-----------------------------------------------------------------------------
(* THE BROWSER.                                                            *)

(* A step that opens no visit, sends nothing and takes no command away     *)
(* from what the form holds, unless its page goes on loading.              *)
LEMMA Stays ==
  ASSUME Types, Visiting, Saving, Onward,
         UNCHANGED <<tab, entered, sent, at>>,
         \A v \in Visits : pc'[v] \in {pc[v], "loading", "done"},
         \A t \in Tabs : current(t)' # current(t) =>
           attempt'[t] > attempt[t] \/ photos'[t] > photos[t],
         \A v \in Visits : Watched(v)',
         \A t \in Tabs : current(t)' = current(t) /\ ~away'[t] =>
           (pending'[t] = pending[t] \/ loading(t)') /\ (loading(t) => loading(t)')
  PROVE  Saving'
<1>1. \A t \in Tabs : ~away'[t] => ~away[t]
  BY DEF Onward
<1>2. \A v \in Visits : Sent(v)' => Sent(v) /\ tab[v] \in Tabs /\ entered[v] \in Entry
  BY DEF Sent, Visiting, Made, Asked
<1>3. \A v \in Visits : pc'[v] \in {"preparing", "waiting"} =>
        pc[v] = pc'[v] /\ tab[v] \in Tabs /\ entered[v] \in Entry
  BY DEF Visiting, Made, Types
<1>4. \A v \in Visits : Sent(v) /\ current(tab[v])' # current(tab[v]) =>
        entered[v] # current(tab[v])'
  <2> SUFFICES ASSUME NEW v \in Visits, Sent(v), current(tab[v])' # current(tab[v]),
                      entered[v] = current(tab[v])'
               PROVE  FALSE
    OBVIOUS
  <2>1. /\ tab[v] \in Tabs /\ entered[v].attempt <= attempt[tab[v]]
        /\ entered[v].form.photos <= photos[tab[v]]
    BY DEF Visiting, Made, Asked
  <2>2. entered[v].attempt = attempt'[tab[v]] /\ entered[v].form.photos = photos'[tab[v]]
    BY DEF current, filled
  <2>3. /\ attempt[tab[v]] \in Nat /\ photos[tab[v]] \in Nat
        /\ entered[v].attempt \in Nat /\ entered[v].form.photos \in Nat
    BY <2>1, SubmissionAssumption DEF Types, Visiting, Made, Asked, Entry, Fingerprint
  <2> QED
    BY <2>1, <2>2, <2>3
<1>6. \A u \in Visits : FirstOfEntry(u)'
  BY <1>1, <1>2, <1>3, <1>4 DEF Saving, FirstOfEntry
<1>7. \A v \in Visits : StillSaved(v)'
  BY <1>1, <1>2, <1>4 DEF Saving, StillSaved
<1>8. OneCommandPerEntry'
  BY <1>1, <1>2 DEF Saving, OneCommandPerEntry
<1> QED
  BY <1>6, <1>7, <1>8 DEF Saving

(* Pages keep watch: whoever takes a page away from a call that needs it   *)
(* leaves a mark.                                                          *)
LEMMA WatchKept ==
  ASSUME Types, Visiting, Saving, [Next]_vars, NEW x \in Visits
  PROVE  Watched(x)'
<1>o. Onward
  BY StepOnward
<1>w. Watched(x) /\ Made(x)
  BY DEF Saving, Visiting
<1>1. ASSUME tab'[x] = tab[x],
             \/ pc'[x] \in {pc[x], "done"}
             \/ pc[x] = "preparing" /\ pc'[x] = "waiting"
             \/ pc[x] = "waiting" /\ pc'[x] = "loading" /\ ~isQuote(tab[x]),
             tab[x] \in Tabs /\ pc'[x] # "done" => page'[tab[x]] = page[tab[x]]
      PROVE  Watched(x)'
  BY <1>1, <1>o, <1>w DEF Watched, Onward, isQuote, Made, Types
<1>2. ASSUME NEW t \in Tabs, Edit(t) \/ Complete(t) PROVE Watched(x)'
  BY <1>2, <1>1 DEF Edit, Complete
<1>3. ASSUME NEW t \in Tabs, Reload(t) PROVE Watched(x)'
  <2>1. /\ tab' = tab /\ page' = [page EXCEPT ![t] = None]
        /\ pc'[x] = IF tab[x] = t /\ pc[x] # "idle" THEN "done" ELSE pc[x]
    BY <1>3 DEF Reload
  <2>2. CASE pc[x] = "idle"
    BY <2>1, <2>2 DEF Watched
  <2>3. CASE pc[x] # "idle"
    BY <2>1, <2>3, <1>1 DEF Types
  <2> QED
    BY <2>2, <2>3
<1>4. ASSUME NEW t \in Tabs, Leave(t) PROVE Watched(x)'
  <2>1. /\ UNCHANGED <<tab, pc, operation>> /\ page[t] # None
        /\ \A u \in Tabs : u # t => page'[u] = page[u] /\ away'[u] = away[u]
        /\ ~away'[t] => ~away[t] /\ isQuote(t) /\ pc[page[t]] # "preparing"
    <3>1. away'[t] <=> away[t] \/ ~isQuote(t) \/ pc[page[t]] = "preparing"
      BY <1>4, Zenon DEF Leave, Types
    <3>2. \A u \in Tabs : u # t => away'[u] = away[u]
      BY <1>4, Zenon DEF Leave, Types
    <3> QED
      BY <1>4, <3>1, <3>2 DEF Leave, Types
  <2>2. CASE tab[x] = t
    BY <2>1, <2>2, <1>w DEF Watched, isQuote
  <2>3. CASE tab[x] # t
    BY <2>1, <2>3, <1>1 
  <2> QED
    BY <2>2, <2>3
<1>5. ASSUME NEW t \in Tabs, NEW v \in Visits, Resend(v, t) \/ Prepare(v, t) PROVE Watched(x)'
  <2>1. /\ page[t] = None /\ pc[v] = "idle" /\ away' = away /\ operation' = operation
        /\ page' = [page EXCEPT ![t] = v] /\ tab' = [tab EXCEPT ![v] = t]
        /\ pc'[v] # "loading" /\ \A u \in Visits : u # v => pc'[u] = pc[u]
    BY <1>5 DEF Resend, Prepare, open, send, entry, Types
  <2>2. CASE x = v
    BY <2>1, <2>2 DEF Watched, Types
  <2>3. CASE x # v
    BY <2>1, <2>3, <1>w, SubmissionAssumption DEF Watched, Types, isQuote, Made
  <2> QED
    BY <2>2, <2>3
<1>6. ASSUME NEW v \in Visits, Send(v) PROVE Watched(x)'
  BY <1>6, <1>1 DEF Send, send, form, Types
<1>7. ASSUME NEW v \in Visits, NoAnswer(v) \/ Receive(v) \/ Show(v) PROVE Watched(x)'
  <2>1. UNCHANGED <<operation, away, tab>>
    BY <1>7, Ends
  <2>2. CASE ReceiveClaim(v) /\ Receive(v)
    BY <2>1, <2>2, <1>1 DEF Receive, ReceiveClaim, Types
  <2>3. CASE settle(v)
    <3>1. /\ pc' = [pc EXCEPT ![v] = "done"]
          /\ page' = [page EXCEPT ![tab[v]] = IF @ = v THEN None ELSE @]
      BY <2>3 DEF settle
    <3>2. CASE x = v
      BY <3>1, <3>2 DEF Watched, Types
    <3>3. CASE x # v
      <4>1. pc'[x] = pc[x]
        BY <3>1, <3>3
      <4>2. \A t \in Tabs : page[t] = x => page'[t] = x
        BY <3>1, <3>3 DEF Types
      <4> QED
        BY <2>1, <4>1, <4>2, <1>w DEF Watched, Made, isQuote
    <3> QED
      BY <3>2, <3>3
  <2> QED
    BY <1>7, <2>2, <2>3 DEF NoAnswer, Receive, ReceiveQuote, ReceiveError, Show
<1>8. ASSUME NEW v \in Visits, Server(v) PROVE Watched(x)'
  BY <1>8, <1>1, ServerOnward DEF client, form
<1>9. CASE UNCHANGED vars
  BY <1>9, <1>1 DEF vars, client, form
<1> QED
  BY <1>2, <1>3, <1>4, <1>5, <1>6, <1>7, <1>8, <1>9 DEF Next, Server

LEMMA FormMoves ==
  ASSUME Types, Visiting, Saving, Serving, NEW t \in Tabs,
         Edit(t) \/ Complete(t) \/ Reload(t) \/ Leave(t), [Next]_vars
  PROVE  Saving'
<1>o. Onward
  BY StepOnward
<1>w. \A v \in Visits : Watched(v)'
  BY WatchKept
<1>1. /\ UNCHANGED <<tab, entered, sent, at, pending>>
      /\ \A v \in Visits : pc'[v] \in {pc[v], "loading", "done"}
  BY DEF Edit, Complete, Reload, Leave, server, Types
<1>3. \A u \in Tabs : ~away'[u] /\ loading(u) => loading(u)'
  <2> SUFFICES ASSUME NEW u \in Tabs, ~away'[u], NEW v \in Visits,
                      pc[v] = "loading", tab[v] = u, page[u] = v
               PROVE  pc'[v] = "loading" /\ tab'[v] = u /\ page'[u] = v
    BY DEF loading
  <2>1. CASE Edit(t) \/ Complete(t)
    BY <2>1 DEF Edit, Complete
  <2>2. CASE Reload(t)
    <3>1. u # t
      <4>1. loading(u)
        BY DEF loading
      <4> QED
        BY <2>2, <4>1, Zenon DEF Reload, Types
    <3> QED
      BY <2>2, <3>1 DEF Reload, Types
  <2>3. CASE Leave(t)
    <3>1. u # t
      <4>1. ~isQuote(u)
        BY DEF Saving, Watched
      <4> QED
        BY <2>3, <4>1, Zenon DEF Leave, Types
    <3> QED
      BY <2>3, <3>1 DEF Leave, Types
  <2> QED
    BY <2>1, <2>2, <2>3
<1>2. \A u \in Tabs : current(u)' # current(u) =>
        attempt'[u] > attempt[u] \/ photos'[u] > photos[u]
  <2>1. CASE Edit(t)
    BY <2>1 DEF Edit, entry, Types, current, filled
  <2>2. CASE Complete(t)
    BY <2>2, SubmissionAssumption DEF Complete, Types, current, filled
  <2>3. CASE Reload(t) \/ Leave(t)
    BY <2>3 DEF Reload, Leave, current, filled
  <2> QED
    BY <2>1, <2>2, <2>3
<1> QED
  BY <1>o, <1>w, <1>1, <1>2, <1>3, Stays

LEMMA EndKeeps ==
  ASSUME Types, Visiting, Saving, Serving, NEW v \in Visits,
         NoAnswer(v) \/ Receive(v) \/ Show(v), [Next]_vars
  PROVE  Saving'
<1>o. Onward
  BY StepOnward
<1>w. \A x \in Visits : Watched(x)'
  BY WatchKept
<1>t. tab[v] \in Tabs
  BY Ends DEF Visiting, Made
<1>1. /\ UNCHANGED <<away, tab, entered, sent, at, journey, photos>>
      /\ \A x \in Visits : pc'[x] \in {pc[x], "loading", "done"}
  BY Ends DEF server, Types
<1>2. \A u \in Tabs : u # tab[v] =>
        attempt'[u] = attempt[u] /\ pending'[u] = pending[u] /\ (loading(u) => loading(u)')
  <2>1. \A u \in Tabs : u # tab[v] => attempt'[u] = attempt[u] /\ pending'[u] = pending[u]
    BY DEF NoAnswer, Receive, ReceiveQuote, ReceiveClaim, ReceiveError, Show, dropped, entry, Types
  <2>2. /\ \A u \in Tabs : u # tab[v] => page'[u] = page[u]
        /\ \A x \in Visits : x # v => pc'[x] = pc[x]
    BY DEF NoAnswer, Receive, ReceiveQuote, ReceiveClaim, ReceiveError, Show, settle, Types
  <2> QED
    BY <1>1, <2>1, <2>2 DEF loading
<1>3. CASE attempt' = [attempt EXCEPT ![tab[v]] = @ + 1]
  <2>1. attempt'[tab[v]] = attempt[tab[v]] + 1 /\ attempt[tab[v]] \in Nat
    BY <1>3, <1>t DEF Types
  <2>2. attempt'[tab[v]] > attempt[tab[v]]
    BY <2>1
  <2>3. current(tab[v])' # current(tab[v])
    <3>1. current(tab[v])'.attempt # current(tab[v]).attempt
      BY <2>1, <1>1 DEF current
    <3> QED
      BY <3>1
  <2>4. \A u \in Tabs : current(u)' # current(u) => u = tab[v]
    BY <1>1, <1>2 DEF current, filled
  <2> QED
    BY <1>o, <1>w, <1>1, <1>2, <2>2, <2>3, <2>4, Stays
<1>4. CASE attempt' = attempt
  <2>1. \A u : current(u)' = current(u)
    BY <1>1, <1>4 DEF current, filled
  <2>2. ASSUME ~away'[tab[v]]
        PROVE  /\ pending'[tab[v]] = pending[tab[v]] \/ loading(tab[v])'
               /\ loading(tab[v]) => loading(tab[v])'
    <3>1. answer[v].code # "IDEMPOTENCY_KEY_REUSED"
      BY DEF Serving, RetryNotMistaken
    <3>2. CASE ReceiveClaim(v) /\ Receive(v)
      <4>1. pc'[v] = "loading" /\ tab'[v] = tab[v] /\ page'[tab[v]] = v
        BY <3>2, <2>2, <1>1 DEF Receive, ReceiveClaim, Saving, Watched, Types
      <4>2. loading(tab[v])'
        BY <4>1, <1>1 DEF loading
      <4> QED
        BY <4>2
    <3>3. CASE settle(v) /\ pc[v] # "loading"
      <4>1. pending'[tab[v]] = pending[tab[v]]
        <5>1. ~ReceiveQuote(v)
          BY <1>4, <1>t DEF ReceiveQuote, Types
        <5> QED
          BY <3>1, <3>3, <5>1 DEF NoAnswer, Receive, ReceiveClaim, ReceiveError, settle, Show, Types
      <4>2. loading(tab[v]) => loading(tab[v])'
        <5> SUFFICES ASSUME NEW x \in Visits, pc[x] = "loading", tab[x] = tab[v], page[tab[v]] = x
                     PROVE  loading(tab[v])'
          BY DEF loading
        <5>1. x # v
          BY <3>3
        <5>2. pc'[x] = "loading" /\ page'[tab[v]] = x
          BY <3>3, <5>1, <1>t DEF settle, Types
        <5> QED
          BY <5>2, <1>1 DEF loading
      <4> QED
        BY <4>1, <4>2
    <3>4. ~Show(v)
      <4>1. ASSUME Show(v) PROVE page[tab[v]] = v
        BY <4>1, <2>2, <1>1 DEF Show, Saving, Watched
      <4>2. ASSUME Show(v), page[tab[v]] = v PROVE attempt' # attempt
        BY <4>2, <1>t DEF Show, Types
      <4> QED
        BY <4>1, <4>2, <1>4
    <3> QED
      BY <3>2, <3>3, <3>4 DEF NoAnswer, Receive, ReceiveQuote, ReceiveError
  <2> QED
    BY <1>o, <1>w, <1>1, <1>2, <2>1, <2>2, Stays
<1> QED
  <2>1. attempt' = attempt \/ attempt' = [attempt EXCEPT ![tab[v]] = @ + 1]
    BY DEF NoAnswer, Receive, ReceiveQuote, ReceiveClaim, ReceiveError, Show, entry, Types
  <2> QED
    BY <2>1, <1>3, <1>4

LEMMA ServerKeeps ==
  ASSUME Types, Visiting, Saving, NEW v \in Visits, Server(v), [Next]_vars
  PROVE  Saving'
<1>o. Onward /\ UNCHANGED client
  BY ServerOnward
<1>1. \A x \in Visits : Sent(x)' <=> Sent(x)
  BY DEF Server, Insert, Lookup, Work, Commit, Fail, reply, Types, Sent
<1>2. \A x \in Visits : Watched(x)'
  BY WatchKept
<1>3. UNCHANGED <<operation, journey, photos, attempt, page, away, pending, pc, tab, entered, sent>>
  BY <1>o DEF client, form, entry
<1>4. \A t : current(t)' = current(t)
  BY <1>3 DEF current, filled
<1>5. \A x \in Visits : FirstOfEntry(x)' /\ StillSaved(x)'
  BY <1>1, <1>3, <1>4 DEF Saving, FirstOfEntry, StillSaved, loading
<1>6. OneCommandPerEntry'
  BY <1>1, <1>3 DEF Saving, OneCommandPerEntry
<1> QED
  BY <1>2, <1>5, <1>6 DEF Saving

(* A page that may open a visit is not loading.                            *)
LEMMA PageFree ==
  ASSUME Types, NEW t \in Tabs, NEW v \in Visits, pc[v] = "idle", page[t] = None,
         \A x \in Visits : x # v => pc'[x] = pc[x] /\ tab'[x] = tab[x],
         \A u \in Tabs : u # t => page'[u] = page[u]
  PROVE  ~loading(t) /\ \A u \in Tabs : u # t /\ loading(u) => loading(u)'
BY SubmissionAssumption DEF loading

(* What the form holds was not sent before it is prepared.                 *)
LEMMA PrepareKeeps ==
  ASSUME Types, Visiting, AllKnown, FormKept, Saving, NEW t \in Tabs, NEW v \in Visits,
         Prepare(v, t), [Next]_vars
  PROVE  Saving'
<1>1. /\ UNCHANGED <<operation, journey, photos, attempt, away, pending, sent, at>>
      /\ page[t] = None /\ pc[v] = "idle" /\ pc'[v] = "preparing" /\ tab'[v] = t
      /\ entered'[v] = current(t)
      /\ \A x \in Visits : x # v => pc'[x] = pc[x] /\ tab'[x] = tab[x] /\ entered'[x] = entered[x]
      /\ \A u \in Tabs : u # t => page'[u] = page[u]
  BY DEF Prepare, open, entry, server, current, Types
<1>2. \A u : current(u)' = current(u)
  BY <1>1 DEF current, filled
<1>3. \A x \in Visits : Sent(x)' <=> Sent(x)
  BY <1>1 DEF Sent
<1>4. ~Sent(v)
  BY <1>1 DEF Visiting, Asked, Sent
<1>5. \A x \in Visits : Watched(x)'
  BY WatchKept
<1>idle. ~loading(t) /\ \A u \in Tabs : u # t /\ loading(u) => loading(u)'
  BY <1>1, PageFree
<1>6. ASSUME NEW w \in Visits, Sent(w), tab[w] = t, ~away[t] PROVE entered[w] # current(t)
  <2>1. ASSUME entered[w] = current(t) PROVE FALSE
    <3>1. pending[t] = sent[w] /\ sent[w] \in Command /\ sent[w].body.form = filled(t)
      BY <1>6, <1>idle, <2>1, Forms DEF Saving, StillSaved, FormKept, Visiting, Asked
    <3>2. saved(t)
      BY <3>1, SubmissionAssumption DEF saved
    <3> QED
      BY <3>2 DEF Prepare
  <2> QED
    BY <2>1
<1>7. \A x \in Visits : FirstOfEntry(x)'
  <2> SUFFICES ASSUME NEW x \in Visits, pc'[x] = "preparing", ~away'[tab'[x]],
                      NEW w \in Visits, Sent(w), tab'[w] = tab'[x]
               PROVE  entered'[w] \notin {entered'[x], current(tab'[x])}
    BY <1>2, <1>3, <1>1 DEF FirstOfEntry, current, filled
  <2>1. w # v
    BY <1>4
  <2>2. CASE x = v
    BY <1>1, <1>6, <2>1, <2>2
  <2>3. CASE x # v
    BY <1>1, <2>1, <2>3 DEF Saving, FirstOfEntry
  <2> QED
    BY <2>2, <2>3
<1>8. \A x \in Visits : StillSaved(x)'
  BY <1>1, <1>2, <1>3, <1>4, <1>idle DEF Saving, StillSaved, Visiting, Made, Asked
<1>9. OneCommandPerEntry'
  BY <1>1, <1>3, <1>4 DEF Saving, OneCommandPerEntry
<1> QED
  BY <1>5, <1>7, <1>8, <1>9 DEF Saving

LEMMA ResendKeeps ==
  ASSUME Types, Visiting, AllKnown, FormKept, Saving, NEW t \in Tabs, NEW v \in Visits,
         Resend(v, t), [Next]_vars
  PROVE  Saving'
<1>1. /\ UNCHANGED <<operation, journey, photos, attempt, away, pending>>
      /\ page[t] = None /\ pc[v] = "idle" /\ pc'[v] = "waiting" /\ tab'[v] = t
      /\ entered'[v] = current(t) /\ sent'[v] = pending[t]
      /\ \A x \in Visits : x # v => /\ pc'[x] = pc[x] /\ tab'[x] = tab[x]
                                    /\ entered'[x] = entered[x] /\ sent'[x] = sent[x]
                                    /\ at'[x] = at[x]
      /\ \A u \in Tabs : u # t => page'[u] = page[u]
  BY DEF Resend, open, send, entry, current, Types
<1>2. \A u : current(u)' = current(u)
  BY <1>1 DEF current, filled
<1>3. \A x \in Visits : x # v => (Sent(x)' <=> Sent(x))
  BY <1>1 DEF Sent
<1>5. \A x \in Visits : Watched(x)'
  BY WatchKept
<1>idle. ~loading(t) /\ \A u \in Tabs : u # t /\ loading(u) => loading(u)'
  BY <1>1, PageFree
<1>6. \A x \in Visits : pc[x] = "preparing" /\ ~away[tab[x]] => tab[x] # t
  BY <1>1, SubmissionAssumption DEF Saving, Watched, Visiting, Made
<1>7. \A x \in Visits : FirstOfEntry(x)'
  <2> SUFFICES ASSUME NEW x \in Visits, pc'[x] = "preparing", ~away'[tab'[x]],
                      NEW w \in Visits, Sent(w)', tab'[w] = tab'[x]
               PROVE  entered'[w] \notin {entered'[x], current(tab'[x])}
    BY <1>2, <1>1 DEF FirstOfEntry, current, filled
  <2>1. x # v /\ pc[x] = "preparing" /\ tab[x] # t
    BY <1>1, <1>6
  <2>2. w # v
    BY <1>1, <2>1
  <2> QED
    BY <1>1, <1>3, <2>1, <2>2 DEF Saving, FirstOfEntry
<1>8. \A x \in Visits : StillSaved(x)'
  <2>1. StillSaved(v)'
    BY <1>1 DEF StillSaved
  <2>2. \A x \in Visits : x # v => StillSaved(x)'
    BY <1>1, <1>2, <1>3, <1>idle DEF Saving, StillSaved, Visiting, Made, Asked
  <2> QED
    BY <2>1, <2>2
<1>9. OneCommandPerEntry'
  <2>1. \A w \in Visits : w # v /\ Sent(w) /\ tab[w] = t /\ ~away[t] /\ entered[w] = current(t)
          => sent[w] = pending[t]
    BY <1>idle DEF Saving, StillSaved
  <2> QED
    BY <1>1, <1>3, <2>1 DEF Saving, OneCommandPerEntry
<1> QED
  BY <1>5, <1>7, <1>8, <1>9 DEF Saving

LEMMA SendKeeps ==
  ASSUME Types, Visiting, AllKnown, FormKept, Saving, NEW v \in Visits,
         Send(v), [Next]_vars
  PROVE  Saving'
<1>1. /\ UNCHANGED <<operation, journey, photos, attempt, away, page, tab, entered>>
      /\ pc[v] = "preparing" /\ pc'[v] = "waiting" /\ tab[v] \in Tabs
      /\ sent'[v] = command(v) /\ pending' = [pending EXCEPT ![tab[v]] = command(v)]
      /\ \A x \in Visits : x # v => pc'[x] = pc[x] /\ sent'[x] = sent[x] /\ at'[x] = at[x]
  BY DEF Send, send, form, entry, Types, Visiting, Made
<1>2. \A u : current(u)' = current(u)
  BY <1>1 DEF current, filled
<1>3. ~Sent(v) /\ \A x \in Visits : x # v => (Sent(x)' <=> Sent(x))
  BY <1>1 DEF Sent, Visiting, Asked
<1>5. \A x \in Visits : Watched(x)'
  BY WatchKept
<1>6. ~away[tab[v]] =>
        /\ page[tab[v]] = v
        /\ \A w \in Visits : Sent(w) /\ tab[w] = tab[v] =>
             entered[w] \notin {entered[v], current(tab[v])}
  BY <1>1 DEF Saving, Watched, FirstOfEntry
<1>7. \A x \in Visits : FirstOfEntry(x)'
  <2> SUFFICES ASSUME NEW x \in Visits, pc'[x] = "preparing", ~away'[tab'[x]],
                      NEW w \in Visits, Sent(w)', tab'[w] = tab'[x]
               PROVE  entered'[w] \notin {entered'[x], current(tab'[x])}
    BY <1>2, <1>1 DEF FirstOfEntry, current, filled
  <2>1. x # v /\ pc[x] = "preparing"
    BY <1>1
  <2>2. tab[x] # tab[v]
    BY <1>1, <1>6, <2>1 DEF Saving, Watched
  <2>3. w # v
    BY <1>1, <2>2
  <2> QED
    BY <1>1, <1>3, <2>1, <2>3 DEF Saving, FirstOfEntry
<1>8. \A x \in Visits : StillSaved(x)'
  <2>1. StillSaved(v)'
    BY <1>1 DEF StillSaved, Types
  <2>2. ASSUME NEW x \in Visits, x # v PROVE StillSaved(x)'
    <3>1. CASE tab[x] = tab[v]
      BY <1>1, <1>2, <1>3, <1>6, <2>2, <3>1 DEF StillSaved
    <3>2. CASE tab[x] # tab[v]
      <4>1. \A u \in Tabs : loading(u) => loading(u)'
        BY <1>1 DEF loading
      <4> QED
        BY <1>1, <1>2, <1>3, <2>2, <3>2, <4>1 DEF Saving, StillSaved, Types, Visiting, Asked, Made
    <3> QED
      BY <3>1, <3>2
  <2> QED
    BY <2>1, <2>2
<1>9. OneCommandPerEntry'
  BY <1>1, <1>3, <1>6 DEF Saving, OneCommandPerEntry
<1> QED
  BY <1>5, <1>7, <1>8, <1>9 DEF Saving

-----------------------------------------------------------------------------
(* THE INVARIANT HOLDS.                                                    *)

LEMMA NextIInv == IInv /\ [Next]_vars => IInv'
<1> SUFFICES ASSUME IInv, [Next]_vars PROVE IInv'
  OBVIOUS
<1> USE DEF IInv
<1>1. Types' /\ Visiting' /\ AllKnown' /\ FormKept'
  BY TypesKept, VisitingKept, KnownKept, FormStays
<1>2. Serving'
  BY AskingServes, ServerServes
<1>3. Saving'
  <2>1. CASE UNCHANGED vars
    <3>1. \A x \in Visits : Watched(x)'
      BY WatchKept
    <3>2. UNCHANGED <<journey, photos, attempt, page, away, pending, pc, tab, entered, sent, at>>
      BY <2>1 DEF vars, client, form, entry, server
    <3> QED
      BY <3>1, <3>2 DEF Saving, FirstOfEntry, StillSaved, OneCommandPerEntry, Sent, current, filled,
                         loading
  <2>2. CASE \E t \in Tabs : Edit(t) \/ Complete(t) \/ Reload(t) \/ Leave(t)
    BY <2>2, FormMoves
  <2>3. CASE \E t \in Tabs, v \in Visits : Resend(v, t) \/ Prepare(v, t)
    BY <2>3, ResendKeeps, PrepareKeeps
  <2>4. CASE \E v \in Visits : Send(v) \/ NoAnswer(v) \/ Receive(v) \/ Show(v) \/ Server(v)
    BY <2>4, SendKeeps, EndKeeps, ServerKeeps
  <2> QED
    BY <2>1, <2>2, <2>3, <2>4 DEF Next, Server
<1> QED
  BY <1>1, <1>2, <1>3

LEMMA Invariance == Spec => []IInv
BY StartIInv, NextIInv, PTL DEF Spec

(* Every state of the browser and of the server is one the code knows, and *)
(* at most one transaction at a time holds an uncommitted record of a key, *)
(* when none is committed (idempotency.service.ts).                        *)
THEOREM Typing == Spec => []TypeOK
<1>1. IInv => TypeOK
  BY TypeParts DEF IInv, Serving
<1> QED
  BY <1>1, Invariance, PTL

(* What was entered once makes one request, unless its page was left or    *)
(* reloaded when the new page could not know what became of the call (away *)
(* in Submission); a key never makes two, and a retry is told the result   *)
(* or an error of its own (idempotency.js, idempotency.service.ts).        *)
THEOREM Submitting == Spec => []SubmittedOnce
<1>1. IInv => SubmittedOnce
  <2> SUFFICES ASSUME IInv PROVE SubmittedOnce
    OBVIOUS
  <2> USE DEF IInv
  <2>1. \A v \in made : v \in Visits /\ Sent(v) /\ recordsOf(v) # {}
    BY DEF Serving, Recorded, Sent, Types
  <2>2. OneRequestPerKey
    BY DEF Serving
  <2>3. OneRequestIfSaved
    BY <2>1, <2>2 DEF OneRequestIfSaved, OneRequestPerKey, Saving, OneCommandPerEntry
  <2> QED
    BY <2>2, <2>3 DEF SubmittedOnce, Serving
<1> QED
  BY <1>1, Invariance, PTL

(* The result a page is given is of a request made from the form that was  *)
(* entered when the page was sent (idempotency.js,                         *)
(* idempotency.service.ts).                                                *)
THEOREM Showing == Spec => []ResultIsOfThisJourney
<1>1. IInv => ResultIsOfThisJourney
  <2> SUFFICES ASSUME IInv, NEW v \in Visits, answer[v].code = "RESULT"
               PROVE  /\ answer[v].of \in made
                      /\ sent[answer[v].of].body.form = entered[v].form
    BY DEF ResultIsOfThisJourney
  <2> USE DEF IInv
  <2>1. /\ Sent(v) /\ answer[v].of \in made /\ answer[v].of \in Visits /\ Sent(answer[v].of)
        /\ sent[answer[v].of].key = sent[v].key
    BY DEF Serving, Answered, Recorded, Types, Sent
  <2> QED
    BY <2>1, SameKey DEF FormKept
<1> QED
  BY <1>1, Invariance, PTL

=============================================================================
