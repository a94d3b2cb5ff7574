----------------------------- MODULE Submission -----------------------------
(***************************************************************************)
(* Submitting a quote request or a claim so that a lost answer can be      *)
(* retried: submitWithRetry in the browser, which saves a prepared command *)
(* with its idempotency key before it sends it, and                        *)
(* IdempotencyService.execute on the server, which records the key and the *)
(* answer in the transaction that does the work.                           *)
(*                                                                         *)
(* The two pages keep their form in different places.  A quote journey is  *)
(* in the store: it survives leaving the page, and a reload but for its    *)
(* photos, which are not persisted and taken anew.  A claim is the state   *)
(* of its page, lost with it, and entered again with the same files; its   *)
(* page loads the customer's lists between the moment the saved command is *)
(* dropped and the moment the form is emptied and the result shown.        *)
(*                                                                         *)
(* A visit is one call of submitWithRetry and the one HTTP request it      *)
(* makes.  A key is named by the visit that drew it, the body it sends by  *)
(* the form and the visit that uploaded the documents it names, and a      *)
(* record on the server by the visit whose transaction wrote it.           *)
(***************************************************************************)
EXTENDS Naturals

CONSTANTS
  Tabs,      \* browser tabs of one customer, each with its own sessionStorage
  Visits,
  Journeys,  \* what the customer may have entered
  MaxAttempt,\* bound on the attempts of a tab
  MaxPhotos, \* bound on how often a tab's photos are taken again
  None

Operations == {"quote-request", "claim-notification"}

(* What a fingerprint tells apart.                                         *)
Fingerprint == [details : Journeys, photos : Nat]

Body    == [form : Fingerprint, by : Visits]
Command == [body : Body, key : Visits]

ASSUME SubmissionAssumption ==
  /\ MaxAttempt \in Nat /\ MaxPhotos \in Nat
  /\ None \notin Visits /\ None \notin Command

VARIABLES
  operation,\* operation[t]: what the tab's form submits
  journey,  \* journey[t]: the details the tab's form holds
  photos,   \* photos[t]: how often its photos were taken again
  complete, \* complete[t]: the form and its documents are there
  attempt,  \* attempt[t]: counts edits and answered submissions
  page,     \* page[t]: the visit whose end the page waits for, or None
  away,     \* away[t]: the page was left or reloaded at a moment at which the
            \* new page cannot know what becomes of the call
  pending,  \* pending[t]: the saved command, or None
  pc,       \* pc[v]: where submitWithRetry and the page's handler are
  tab,      \* tab[v]: the tab that made the visit, or None
  entered,  \* entered[v]: the form and attempt it was made with
  sent,     \* sent[v]: the command the visit sends, or None
  at,       \* at[v]: where the server's transaction for its request is
  answer,   \* answer[v]: the server's answer
  records,  \* idempotency_records: key, body hash, and the answer
  made      \* the visits whose transaction made a request

entry   == <<operation, photos, complete>>
form    == <<entry, journey, attempt, page, away>>
client  == <<form, pending, pc, tab, entered, sent>>
server  == <<at, answer, records, made>>
vars == <<client, server>>

RecordType == [key : Visits, hash : Body, result : Visits \cup {None}]

AnswerType == [code : {"NONE", "RESULT", "REFUSED", "FAILED", "IDEMPOTENCY_RETRY",
                       "IDEMPOTENCY_KEY_REUSED", "IDEMPOTENCY_IN_PROGRESS"},
               of : Visits \cup {None}]

Only(code) == [code |-> code, of |-> None]

Init ==
  /\ operation \in [Tabs -> Operations]
  /\ journey \in [Tabs -> Journeys]
  /\ photos = [t \in Tabs |-> 0]
  /\ complete = [t \in Tabs |-> TRUE]
  /\ attempt = [t \in Tabs |-> 0]
  /\ page = [t \in Tabs |-> None]
  /\ away = [t \in Tabs |-> FALSE]
  /\ pending = [t \in Tabs |-> None]
  /\ pc = [v \in Visits |-> "idle"]
  /\ tab = [v \in Visits |-> None]
  /\ entered = [v \in Visits |-> None]
  /\ sent = [v \in Visits |-> None]
  /\ at = [v \in Visits |-> "none"]
  /\ answer = [v \in Visits |-> Only("NONE")]
  /\ records = {}
  /\ made = {}

-----------------------------------------------------------------------------
(* The browser.                                                            *)

isQuote(t) == operation[t] = "quote-request"

filled(t) == [details |-> journey[t], photos |-> photos[t]]

(* The customer changes the details: from here on it is another attempt.   *)
Edit(t) ==
  /\ attempt[t] < MaxAttempt
  /\ attempt' = [attempt EXCEPT ![t] = @ + 1]
  /\ \E j \in Journeys \ {journey[t]} : journey' = [journey EXCEPT ![t] = j]
  /\ UNCHANGED <<entry, page, away, pending, pc, tab, entered, sent, server>>

(* The form is completed again: a journey with new photos, a claim with    *)
(* the details and the files it had.                                       *)
Complete(t) ==
  /\ ~complete[t]
  /\ complete' = [complete EXCEPT ![t] = TRUE]
  /\ \/ isQuote(t) /\ photos[t] < MaxPhotos
        /\ photos' = [photos EXCEPT ![t] = @ + 1]
     \/ ~isQuote(t) /\ UNCHANGED photos
  /\ UNCHANGED <<operation, journey, attempt, page, away, pending, pc, tab,
                 entered, sent, server>>

send(v, command) ==
  /\ sent' = [sent EXCEPT ![v] = command]
  /\ at' = [at EXCEPT ![v] = "insert"]
  /\ pc' = [pc EXCEPT ![v] = "waiting"]

open(v, t) ==
  /\ pc[v] = "idle" /\ page[t] = None /\ complete[t]
  /\ page' = [page EXCEPT ![t] = v]
  /\ tab' = [tab EXCEPT ![v] = t]
  /\ entered' = [entered EXCEPT ![v] = [form |-> filled(t),
                                        attempt |-> attempt[t]]]

saved(t) == pending[t] # None /\ pending[t].body.form = filled(t)

(* Mutant: whatever command is saved is sent.                              *)
ResendAnyway(v, t) ==
  /\ open(v, t)
  /\ pending[t] # None
  /\ send(v, pending[t])
  /\ UNCHANGED <<entry, journey, attempt, away, pending, answer, records, made>>

(* The saved command is for this journey: it is sent again.                *)
Resend(v, t) ==
  /\ open(v, t)
  /\ saved(t)
  /\ send(v, pending[t])
  /\ UNCHANGED <<entry, journey, attempt, away, pending, answer, records, made>>

(* There is none: a new one is prepared, uploading the documents.          *)
Prepare(v, t) ==
  /\ open(v, t)
  /\ ~saved(t)
  /\ pc' = [pc EXCEPT ![v] = "preparing"]
  /\ UNCHANGED <<entry, journey, attempt, away, pending, sent, server>>

command(v) == [body |-> [form |-> entered[v].form, by |-> v], key |-> v]

(* Mutant: the command is sent without being saved.                        *)
SendUnsaved(v) ==
  /\ pc[v] = "preparing"
  /\ send(v, command(v))
  /\ UNCHANGED <<form, pending, tab, entered, answer, records, made>>

(* prepare() has returned: the command is saved, then sent.                *)
Send(v) ==
  /\ pc[v] = "preparing"
  /\ pending' = [pending EXCEPT ![tab[v]] = command(v)]
  /\ send(v, command(v))
  /\ UNCHANGED <<form, tab, entered, answer, records, made>>

(* The page stops waiting for v.                                           *)
settle(v) ==
  /\ pc' = [pc EXCEPT ![v] = "done"]
  /\ page' = [page EXCEPT ![tab[v]] = IF @ = v THEN None ELSE @]

(* An upload fails, or the request ends without an answer: the command     *)
(* stays saved.                                                            *)
NoAnswer(v) ==
  /\ pc[v] \in {"preparing", "waiting"}
  /\ settle(v)
  /\ UNCHANGED <<entry, journey, attempt, away, pending, tab, entered, sent, server>>

dropped(v) == pending' = [pending EXCEPT ![tab[v]] = None]

(* A journey goes on to its request from wherever the customer is: that    *)
(* starts another attempt.                                                 *)
ReceiveQuote(v) ==
  /\ answer[v].code = "RESULT" /\ isQuote(tab[v])
  /\ dropped(v)
  /\ settle(v)
  /\ attempt' = [attempt EXCEPT ![tab[v]] = @ + 1]

(* The command of a claim is dropped; its page, unchanged, loads the       *)
(* customer's lists.                                                       *)
ReceiveClaim(v) ==
  /\ answer[v].code = "RESULT" /\ ~isQuote(tab[v])
  /\ dropped(v)
  /\ pc' = [pc EXCEPT ![v] = "loading"]
  /\ UNCHANGED <<page, attempt>>

(* A reused key drops the saved command, any other error leaves it.        *)
ReceiveError(v) ==
  /\ answer[v].code \notin {"NONE", "RESULT"}
  /\ IF answer[v].code = "IDEMPOTENCY_KEY_REUSED" THEN dropped(v) ELSE UNCHANGED pending
  /\ settle(v)
  /\ UNCHANGED attempt

(* An answer arrives.                                                      *)
Receive(v) ==
  /\ pc[v] = "waiting"
  /\ ReceiveQuote(v) \/ ReceiveClaim(v) \/ ReceiveError(v)
  /\ UNCHANGED <<entry, journey, away, tab, entered, sent, server>>

(* The lists are there, or failed: the form of the claim is emptied and    *)
(* its result shown.  A page that was left shows nothing.                  *)
Show(v) ==
  LET t == tab[v]
      shows == page[t] = v
  IN
  /\ pc[v] = "loading"
  /\ settle(v)
  /\ attempt' = [attempt EXCEPT ![t] = IF shows THEN @ + 1 ELSE @]
  /\ complete' = [complete EXCEPT ![t] = @ /\ ~shows]
  /\ UNCHANGED <<operation, journey, photos, away, pending, tab, entered, sent, server>>

loading(t) == \E v \in Visits : pc[v] = "loading" /\ tab[v] = t /\ page[t] = v

(* The tab is reloaded: sessionStorage survives, the calls under way, the  *)
(* photos of a journey and the form of a claim do not.  A claim whose      *)
(* lists were loading is recorded, and nothing in the tab says so.         *)
Reload(t) ==
  /\ page[t] # None \/ pending[t] # None
  /\ complete[t]
  /\ page' = [page EXCEPT ![t] = None]
  /\ away' = [away EXCEPT ![t] = @ \/ loading(t)]
  /\ complete' = [complete EXCEPT ![t] = FALSE]
  /\ pc' = [v \in Visits |-> IF tab[v] = t /\ pc[v] # "idle" THEN "done" ELSE pc[v]]
  /\ UNCHANGED <<operation, journey, photos, attempt, pending, tab, entered, sent,
                 server>>

(* The customer goes to another page and back: submitWithRetry goes on,    *)
(* but the new page does not know that it is sending.                      *)
Leave(t) ==
  /\ page[t] # None
  /\ page' = [page EXCEPT ![t] = None]
  /\ away' = [away EXCEPT ![t] = @ \/ ~isQuote(t) \/ pc[page[t]] = "preparing"]
  /\ complete' = [complete EXCEPT ![t] = @ /\ isQuote(t)]
  /\ UNCHANGED <<operation, journey, photos, attempt, pending, pc, tab, entered,
                 sent, server>>

-----------------------------------------------------------------------------
(* The server: one transaction for each request that arrives.              *)

recordsOf(v) == {r \in records : r.key = sent[v].key}

(* Other transactions that have inserted the key and not ended.            *)
inserting(v) ==
  {w \in Visits \ {v} : /\ at[w] \in {"work", "record"}
                        /\ sent[w].key = sent[v].key}

reply(v, r) ==
  /\ at' = [at EXCEPT ![v] = "done"]
  /\ answer' = [answer EXCEPT ![v] = r]

(* Mutant: the insert does not wait for another transaction's.             *)
InsertAtOnce(v) ==
  /\ at[v] = "insert"
  /\ at' = [at EXCEPT ![v] = IF recordsOf(v) = {} THEN "work" ELSE "lookup"]
  /\ UNCHANGED <<client, answer, records, made>>

(* INSERT ... ON CONFLICT DO NOTHING waits for an uncommitted key.         *)
Insert(v) ==
  /\ at[v] = "insert"
  /\ inserting(v) = {}
  /\ at' = [at EXCEPT ![v] = IF recordsOf(v) = {} THEN "work" ELSE "lookup"]
  /\ UNCHANGED <<client, answer, records, made>>

stored(v) ==
  LET found == recordsOf(v)
      r == CHOOSE x \in found : TRUE
  IN IF found = {} THEN Only("IDEMPOTENCY_RETRY")
     ELSE IF r.hash # sent[v].body THEN Only("IDEMPOTENCY_KEY_REUSED")
     ELSE IF r.result = None THEN Only("IDEMPOTENCY_IN_PROGRESS")
     ELSE [code |-> "RESULT", of |-> r.result]

(* The stored answer of the key.                                           *)
Lookup(v) ==
  /\ at[v] = "lookup"
  /\ reply(v, stored(v))
  /\ UNCHANGED <<client, records, made>>

(* work(tx) submits the request, or refuses it and rolls everything back.  *)
Work(v) ==
  /\ at[v] = "work"
  /\ \/ at' = [at EXCEPT ![v] = "record"] /\ UNCHANGED answer
     \/ reply(v, Only("REFUSED"))
  /\ UNCHANGED <<client, records, made>>

(* The answer is recorded and the whole commits.                           *)
Commit(v) ==
  /\ at[v] = "record"
  /\ reply(v, [code |-> "RESULT", of |-> v])
  /\ made' = made \cup {v}
  /\ records' = (records \ recordsOf(v)) \cup
                {[key |-> sent[v].key, hash |-> sent[v].body, result |-> v]}
  /\ UNCHANGED client

(* A lost request, a timeout or a lost connection.                         *)
Fail(v) ==
  /\ at[v] \in {"insert", "lookup", "work", "record"}
  /\ reply(v, Only("FAILED"))
  /\ UNCHANGED <<client, records, made>>

-----------------------------------------------------------------------------
Next ==
  \/ \E t \in Tabs :
       \/ Edit(t) \/ Complete(t) \/ Reload(t) \/ Leave(t)
       \/ \E v \in Visits : Resend(v, t) \/ Prepare(v, t)
  \/ \E v \in Visits :
       \/ Send(v) \/ NoAnswer(v) \/ Receive(v) \/ Show(v)
       \/ Insert(v) \/ Lookup(v) \/ Work(v) \/ Commit(v) \/ Fail(v)

Spec == Init /\ [][Next]_vars

-----------------------------------------------------------------------------
(* At most one transaction at a time holds an uncommitted record of a key, *)
(* and then no committed one exists.                                       *)
KeyHeldOnce ==
  \A v \in Visits : at[v] \in {"work", "record"} =>
    inserting(v) = {} /\ recordsOf(v) = {}

TypeOK ==
  /\ operation \in [Tabs -> Operations]
  /\ journey \in [Tabs -> Journeys]
  /\ photos \in [Tabs -> 0..MaxPhotos]
  /\ complete \in [Tabs -> BOOLEAN]
  /\ attempt \in [Tabs -> Nat]
  /\ page \in [Tabs -> Visits \cup {None}]
  /\ away \in [Tabs -> BOOLEAN]
  /\ pending \in [Tabs -> Command \cup {None}]
  /\ pc \in [Visits -> {"idle", "preparing", "waiting", "loading", "done"}]
  /\ tab \in [Visits -> Tabs \cup {None}]
  /\ entered \in [Visits -> [form : Fingerprint, attempt : Nat] \cup {None}]
  /\ sent \in [Visits -> Command \cup {None}]
  /\ at \in [Visits -> {"none", "insert", "lookup", "work", "record", "done"}]
  /\ answer \in [Visits -> AnswerType]
  /\ records \subseteq RecordType
  /\ made \subseteq Visits
  /\ KeyHeldOnce

(* A submit attempt makes at most one request: however often its answer is *)
(* lost, the page reloaded or left and the form sent again, whether or not *)
(* the server is still busy with an earlier send.                          *)
OneRequestPerAttempt ==
  \A v, w \in made :
    tab[v] = tab[w] /\ entered[v].attempt = entered[w].attempt => v = w

(* What does hold, however often answers are lost, the tab is reloaded     *)
(* while an answer is out, or its page left while the answer to a journey  *)
(* is: what was entered once, photos included, makes one request.  Not     *)
(* safe, and left out by away: a journey whose page is left while it       *)
(* uploads, a claim whose page is left at all, and a claim whose page is   *)
(* reloaded while it loads its lists, its command dropped.                 *)
OneRequestIfSaved ==
  \A v, w \in made :
    /\ tab[v] = tab[w] /\ ~away[tab[v]]
    /\ entered[v] = entered[w]
    => v = w

(* The server alone keeps a key from making two requests, at once or one   *)
(* after another, whatever the browser does.                               *)
OneRequestPerKey == \A v, w \in made : sent[v].key = sent[w].key => v = w

(* A retry gets the result or an error of its own: it is never told that   *)
(* its key is used for something else, still in progress or lost.          *)
RetryNotMistaken ==
  \A v \in Visits : answer[v].code \notin
    {"IDEMPOTENCY_RETRY", "IDEMPOTENCY_KEY_REUSED", "IDEMPOTENCY_IN_PROGRESS"}

(* An attempt to submit is made once, and known to be: one request of a    *)
(* command that was saved, one of a key, and retries that say so.          *)
SubmittedOnce == OneRequestIfSaved /\ OneRequestPerKey /\ RetryNotMistaken

(* The result a customer is shown is of a request that was made, from the  *)
(* form that was entered when this page was sent.                          *)
ResultIsOfThisJourney ==
  \A v \in Visits : answer[v].code = "RESULT" =>
    /\ answer[v].of \in made
    /\ sent[answer[v].of].body.form = entered[v].form

=============================================================================
