---------------------------- MODULE PhotoHandoff ----------------------------
(***************************************************************************)
(* "Continue on your phone": a dialog of the quote form on a laptop opens  *)
(* a session at the relay, a phone opens its link, takes the photos that   *)
(* are asked for one by one and sends each to the relay.  The laptop       *)
(* learns of them by an event stream and by a poll, and closes the dialog  *)
(* when the session is complete.  The relay keeps sessions in memory, for  *)
(* 30 minutes at most.                                                     *)
(*                                                                         *)
(* Dialog d's session is session d.  One action is one event of a browser, *)
(* or what the relay does for one request without awaiting its body.       *)
(*                                                                         *)
(* The formulas of the specification carry the module's name, since the    *)
(* proofs speak of it beside Documents.                                    *)
(***************************************************************************)
EXTENDS Naturals, Sequences, FiniteSetsExt

CONSTANTS
  Shots,       \* the photos of an inspection, numbered in the order asked
  Phones,
  Polls,       \* polls of one dialog that may be under way at once
  Final,       \* the get that a completion frame starts
  MaxDialogs,  \* bound on the dialogs opened
  MaxTakes,    \* bound on the photos taken with a phone
  MaxEdits,    \* bound on the customer's own changes of the form
  MaxMishaps,  \* bound on lost requests, answers and streams, reloads,
               \* restarts of the relay and sessions that grow old
  Own,         \* a photo chosen on the laptop
  Blank

Dialogs == 1..MaxDialogs
Takes   == 1..MaxTakes
Gets    == Polls \cup {Final}

ASSUME HandoffAssumption ==
  /\ Shots # {} /\ Shots \subseteq Nat /\ Final \notin Polls
  /\ MaxDialogs \in Nat /\ MaxTakes \in Nat /\ MaxEdits \in Nat /\ MaxMishaps \in Nat
  /\ Own # Blank /\ {Own, Blank} \cap (Dialogs \X Takes) = {}

VARIABLES
  form,     \* form[s]: the photo in a tile of the quote form
  shown,    \* the dialog on the screen, 0 when there is none
  box,      \* box[d]: what a dialog's component keeps
  stream,   \* stream[d]: the dialog's event stream and the frames on it
  get,      \* get[d][k]: the dialog's reads of the session
  session,  \* session[d]: the relay's entry
  phone,    \* phone[p]: the capture page, or the quote form resumed on it
  takes, edits, mishaps

handoffVars == <<form, shown, box, stream, get, session, phone, takes, edits, mishaps>>

NoPhotos == [s \in Shots |-> 0]   \* 0: no photo; otherwise which take

PhotosType == [Shots -> 0..MaxTakes]

StatusType == {"open", "complete"}

SessionType == [phase : {"none", "live", "aged", "gone"}, status : StatusType,
                photos : PhotosType]

BoxType == [phase : {"unopened", "opening", "linked", "failed"},
            asked : SUBSET Shots, received : SUBSET Shots,
            closing : BOOLEAN,   \* closingAfterCompletion
            finished : BOOLEAN]  \* closed by the session's completion

GetType == [phase : {"idle", "asked", "answered", "failed"},
            status : StatusType, photos : PhotosType]

Frames == [type : {"session"}, photos : PhotosType]
          \cup [type : {"photo"}, shot : Shots, take : Takes]
          \cup [type : {"complete", "expired"}]

(* A stalled stream looks open to the browser and delivers nothing.        *)
StreamPhases == {"off", "connecting", "on", "stalled", "closed"}

PhoneSteps == {"off", "loading", "capturing", "saving", "finishing", "stopped",
               "sent", "unavailable", "restoring", "restored"}

PhoneType ==
  [step : PhoneSteps, of : 0..MaxDialogs,
   photos : SUBSET Shots,  \* those the page knows the relay to have
   call : {"none", "asked", "held", "ok", "failed"},
   status : StatusType, seen : SUBSET Shots,  \* the answer of a call
   shot : Shots \cup {0}, take : 0..MaxTakes]

Idle == [phase |-> "idle", status |-> "open", photos |-> NoPhotos]

Closed == [phase |-> "closed", frames |-> <<>>]

HandoffInit ==
  /\ form = [s \in Shots |-> Blank]
  /\ shown = 0
  /\ box = [d \in Dialogs |-> [phase |-> "unopened", asked |-> {}, received |-> {},
                               closing |-> FALSE, finished |-> FALSE]]
  /\ stream = [d \in Dialogs |-> [phase |-> "off", frames |-> <<>>]]
  /\ get = [d \in Dialogs |-> [k \in Gets |-> Idle]]
  /\ session = [d \in Dialogs |-> [phase |-> "none", status |-> "open",
                                   photos |-> NoPhotos]]
  /\ phone = [p \in Phones |-> [step |-> "off", of |-> 0, photos |-> {}, call |-> "none",
                                status |-> "open", seen |-> {}, shot |-> 0, take |-> 0]]
  /\ takes = 0 /\ edits = 0 /\ mishaps = 0

Mishap == mishaps < MaxMishaps /\ mishaps' = mishaps + 1

-----------------------------------------------------------------------------
(* RELAY                                                                   *)

Live(d) == session[d].phase = "live"

Having(photos) == {s \in Shots : photos[s] # 0}

broadcast(d, frame) ==
  [stream EXCEPT ![d].frames = IF stream[d].phase = "on" THEN Append(@, frame) ELSE @]

(* liveSession of a code that is unknown or too old: the answer is 404,    *)
(* and the first request to notice the age ends the session.               *)
turnAway(d) ==
  /\ ~Live(d)
  /\ IF session[d].phase = "aged"
     THEN /\ session' = [session EXCEPT ![d].phase = "gone"]
          /\ stream' = broadcast(d, [type |-> "expired"])
     ELSE UNCHANGED <<session, stream>>

(* 30 minutes pass.                                                        *)
Age(d) ==
  /\ Live(d) /\ Mishap
  /\ session' = [session EXCEPT ![d].phase = "aged"]
  /\ UNCHANGED <<form, shown, box, stream, get, phone, takes, edits>>

(* The relay starts anew: the sessions were in its memory, and a request   *)
(* whose body it awaited is sent again by its client.                      *)
Restart ==
  /\ Mishap
  /\ session' = [d \in Dialogs |-> IF session[d].phase = "none" THEN session[d]
                                   ELSE [session[d] EXCEPT !.phase = "gone"]]
  /\ stream' = [d \in Dialogs |-> IF stream[d].phase = "on"
                                  THEN [phase |-> "connecting", frames |-> <<>>]
                                  ELSE stream[d]]
  /\ phone' = [p \in Phones |-> IF phone[p].call = "held"
                                THEN [phone[p] EXCEPT !.call = "asked"] ELSE phone[p]]
  /\ UNCHANGED <<form, shown, box, get, takes, edits>>

-----------------------------------------------------------------------------
(* LAPTOP: the form and the dialog.                                        *)

(* requestedShotKeys: the tiles without a photo, or all of them.           *)
requestedShotKeys ==
  LET missing == {s \in Shots : form[s] = Blank}
  IN  IF missing = {} THEN Shots ELSE missing

(* Mutant: a photo handed up before is handed up again.                    *)
absorbAgain(d, photos) ==
  form' = [s \in Shots |-> IF photos[s] # 0 THEN <<d, photos[s]>> ELSE form[s]]

(* Hand up each photo that is new; onPhotos is the form's setDocuments.    *)
absorb(d, photos) ==
  LET fresh == Having(photos) \ box[d].received
  IN  form' = [s \in Shots |-> IF s \in fresh THEN <<d, photos[s]>> ELSE form[s]]

(* The ref is marked after the form took the photos.                       *)
received(d, photos) == box[d].received \cup Having(photos)

Opens ==
  \E d \in Dialogs :
    /\ shown = 0 /\ box[d].phase = "unopened"
    /\ \A e \in 1..(d - 1) : box[e].phase # "unopened"
    /\ shown' = d
    /\ box' = [box EXCEPT ![d].phase = "opening", ![d].asked = requestedShotKeys]
    /\ UNCHANGED <<form, stream, get, session, phone, takes, edits, mishaps>>

(* POST and its answer; a session whose answer is lost has no link.  The   *)
(* answer is dropped when the dialog is gone (cancelled); otherwise the    *)
(* link is shown, and the code's effects start the stream and the poll.    *)
Created(d) ==
  /\ box[d].phase = "opening"
  /\ IF shown = d
     THEN /\ box' = [box EXCEPT ![d].phase = "linked"]
          /\ session' = [session EXCEPT ![d].phase = "live"]
          /\ stream' = [stream EXCEPT ![d].phase = "connecting"]
     ELSE box' = [box EXCEPT ![d].phase = "failed"] /\ UNCHANGED <<session, stream>>
  /\ UNCHANGED <<form, shown, get, phone, takes, edits, mishaps>>

CreateFails(d) ==
  /\ box[d].phase = "opening" /\ Mishap
  /\ box' = [box EXCEPT ![d].phase = "failed"]
  /\ UNCHANGED <<form, shown, stream, get, session, phone, takes, edits>>

(* Mutant: the dialog goes and its event stream stays open.                *)
closeHandoffStreaming == shown' = 0 /\ UNCHANGED stream

(* onClose is the form's: it closes the dialog on the screen, whichever    *)
(* dialog calls it.  The effects' clean-ups end its stream and its timer.  *)
closeHandoff ==
  /\ shown' = 0
  /\ stream' = [d \in Dialogs |-> IF d = shown THEN Closed ELSE stream[d]]

(* The close button, or Escape.                                            *)
CloseByHand ==
  /\ shown # 0 /\ closeHandoff
  /\ UNCHANGED <<form, box, get, session, phone, takes, edits, mishaps>>

(* A photo is stamped and judged before it enters its tile, and may do so  *)
(* while a dialog covers the form.                                         *)
ChoosePhoto ==
  /\ edits < MaxEdits /\ edits' = edits + 1
  /\ \E s \in Shots : form' = [form EXCEPT ![s] = Own]
  /\ UNCHANGED <<shown, box, stream, get, session, phone, takes, mishaps>>

(* removePhoto, or clearInspectionPhotos once all are there.               *)
Remove ==
  /\ shown = 0 /\ edits < MaxEdits /\ edits' = edits + 1
  /\ \/ \E s \in Shots : form[s] # Blank /\ form' = [form EXCEPT ![s] = Blank]
     \/ (\A s \in Shots : form[s] # Blank) /\ form' = [s \in Shots |-> Blank]
  /\ UNCHANGED <<shown, box, stream, get, session, phone, takes, mishaps>>

-----------------------------------------------------------------------------
(* LAPTOP: the event stream.  The browser connects again after a loss.     *)

Connect(d) ==
  /\ stream[d].phase = "connecting"
  /\ \/ /\ Live(d)
        /\ stream' = [stream EXCEPT ![d] =
             [phase |-> "on",
              frames |-> <<[type |-> "session", photos |-> session[d].photos]>>]]
        /\ UNCHANGED session
     \/ /\ ~Live(d)  \* 404: the browser gives up, and liveSession has no client to tell
        /\ session' = [session EXCEPT ![d].phase = "gone"]
        /\ stream' = [stream EXCEPT ![d] = Closed]
  /\ UNCHANGED <<form, shown, box, get, phone, takes, edits, mishaps>>

LoseStream(d) ==
  /\ stream[d].phase = "on" /\ Mishap
  /\ \E phase \in {"connecting", "stalled"} :
       stream' = [stream EXCEPT ![d] = [phase |-> phase, frames |-> <<>>]]
  /\ UNCHANGED <<form, shown, box, get, session, phone, takes, edits>>

frame(d) == Head(stream[d].frames)

Pops(d) == stream' = [stream EXCEPT ![d].frames = Tail(@)]

Arrives(d, type) ==
  stream[d].phase = "on" /\ stream[d].frames # <<>> /\ frame(d).type = type

OnPhotos(d) ==
  /\ Arrives(d, "session") \/ Arrives(d, "photo")
  /\ LET photos == IF frame(d).type = "session" THEN frame(d).photos
                   ELSE [NoPhotos EXCEPT ![frame(d).shot] = frame(d).take]
     IN  /\ absorb(d, photos)
         /\ box' = [box EXCEPT ![d].received = received(d, photos)]
  /\ Pops(d)
  /\ UNCHANGED <<shown, get, session, phone, takes, edits, mishaps>>

(* Completion: read the session once more before the dialog closes.        *)
OnComplete(d) ==
  /\ Arrives(d, "complete")
  /\ IF box[d].closing THEN UNCHANGED <<box, get>>
     ELSE /\ box' = [box EXCEPT ![d].closing = TRUE]
          /\ get' = [get EXCEPT ![d][Final].phase = "asked"]
  /\ Pops(d)
  /\ UNCHANGED <<form, shown, session, phone, takes, edits, mishaps>>

OnExpired(d) ==
  /\ Arrives(d, "expired")
  /\ stream' = [stream EXCEPT ![d] = Closed]
  /\ UNCHANGED <<form, shown, box, get, session, phone, takes, edits, mishaps>>

-----------------------------------------------------------------------------
(* LAPTOP: the poll, and the last read.  Neither ends with the dialog.     *)

Linked(d) == shown = d /\ box[d].phase = "linked"

(* Mutant: the poll is a fallback, for a browser without an open stream.   *)
tickingWithoutStream(d) == Linked(d) /\ stream[d].phase \in {"connecting", "closed"}

(* The interval runs from the link to the dialog's end.                    *)
ticking(d) == Linked(d)

Tick(d, k) ==
  /\ ticking(d) /\ get[d][k].phase = "idle"
  /\ get' = [get EXCEPT ![d][k].phase = "asked"]
  /\ UNCHANGED <<form, shown, box, stream, session, phone, takes, edits, mishaps>>

ServeGet(d, k) ==
  /\ get[d][k].phase = "asked"
  /\ \/ /\ Live(d)
        /\ get' = [get EXCEPT ![d][k] = [phase |-> "answered", status |-> session[d].status,
                                         photos |-> session[d].photos]]
        /\ UNCHANGED <<session, stream>>
     \/ turnAway(d) /\ get' = [get EXCEPT ![d][k].phase = "failed"]
  /\ UNCHANGED <<form, shown, box, phone, takes, edits, mishaps>>

(* All tries of the request are lost.                                      *)
LoseGet(d, k) ==
  /\ get[d][k].phase = "asked" /\ Mishap
  /\ get' = [get EXCEPT ![d][k].phase = "failed"]
  /\ UNCHANGED <<form, shown, box, stream, session, phone, takes, edits>>

GetAnswered(d, k) ==
  /\ get[d][k].phase = "answered"
  /\ LET latest == get[d][k]
         ends   == k = Final \/ latest.status = "complete"
     IN  /\ absorb(d, latest.photos)
         /\ box' = [box EXCEPT ![d].received = received(d, latest.photos),
                               ![d].finished = @ \/ ends]
         /\ IF ends THEN closeHandoff ELSE UNCHANGED <<shown, stream>>
  /\ get' = [get EXCEPT ![d][k] = Idle]
  /\ UNCHANGED <<session, phone, takes, edits, mishaps>>

(* The poll goes on; the last read may be started again.                   *)
GetFailed(d, k) ==
  /\ get[d][k].phase = "failed"
  /\ get' = [get EXCEPT ![d][k] = Idle]
  /\ box' = IF k = Final THEN [box EXCEPT ![d].closing = FALSE] ELSE box
  /\ UNCHANGED <<form, shown, stream, session, phone, takes, edits, mishaps>>

-----------------------------------------------------------------------------
(* PHONE: the capture page.                                                *)

Asked(p) == box[phone[p].of].asked

At(p, step) == phone[p].step = step

(* The phone scans the code while the dialog shows it.                     *)
Scan(p) ==
  /\ At(p, "off") /\ shown # 0 /\ box[shown].phase = "linked"
  /\ phone' = [phone EXCEPT ![p].step = "loading", ![p].of = shown, ![p].call = "asked"]
  /\ UNCHANGED <<form, shown, box, stream, get, session, takes, edits, mishaps>>

(* The page is opened again from the same link.                            *)
Reload(p) ==
  /\ phone[p].step \notin {"off", "loading", "restoring", "restored"} /\ Mishap
  /\ phone' = [phone EXCEPT ![p].step = "loading", ![p].photos = {}, ![p].call = "asked",
                            ![p].status = "open", ![p].seen = {},
                            ![p].shot = 0, ![p].take = 0]
  /\ UNCHANGED <<form, shown, box, stream, get, session, takes, edits>>

Answer(p, photos, status) ==
  phone' = [phone EXCEPT ![p].call = "ok", ![p].seen = Having(photos), ![p].status = status]

(* The relay handles a read or the completion at once.  Of a photo it      *)
(* looks the session up, then awaits the body of the request.              *)
ServePhone(p) ==
  LET d == phone[p].of
      status == IF At(p, "finishing") THEN "complete" ELSE session[d].status
  IN  /\ phone[p].call = "asked"
      /\ \/ /\ Live(d) /\ At(p, "saving")
            /\ phone' = [phone EXCEPT ![p].call = "held"]
            /\ UNCHANGED <<session, stream>>
         \/ /\ Live(d) /\ ~At(p, "saving")
            /\ session' = [session EXCEPT ![d].status = status]
            /\ stream' = IF At(p, "finishing") THEN broadcast(d, [type |-> "complete"])
                         ELSE stream
            /\ Answer(p, session[d].photos, status)
         \/ turnAway(d) /\ phone' = [phone EXCEPT ![p].call = "failed"]
      /\ UNCHANGED <<form, shown, box, get, takes, edits, mishaps>>

(* The body has come: the photo is stored whatever became of the session,  *)
(* which may have ended and have no client left.                           *)
StorePhoto(p) ==
  LET d == phone[p].of
      photos == [session[d].photos EXCEPT ![phone[p].shot] = phone[p].take]
  IN  /\ phone[p].call = "held"
      /\ session' = [session EXCEPT ![d].photos = photos]
      /\ stream' = IF session[d].phase = "gone" THEN stream
                   ELSE broadcast(d, [type |-> "photo", shot |-> phone[p].shot,
                                      take |-> phone[p].take])
      /\ Answer(p, photos, session[d].status)
      /\ UNCHANGED <<form, shown, box, get, takes, edits, mishaps>>

(* The answer is lost and the client tries again, or has tried enough.     *)
LoseAnswer(p) ==
  /\ phone[p].call \in {"asked", "ok"} /\ Mishap
  /\ \E call \in {"asked", "failed"} :
       phone' = [phone EXCEPT ![p].call = call, ![p].seen = {}]
  /\ UNCHANGED <<form, shown, box, stream, get, session, takes, edits>>

hasEveryPhoto(p) == Asked(p) \subseteq phone[p].seen

(* setSession, setPhotos; the answer is kept no longer, but for the status *)
(* of a session whose completion is called once more.                      *)
Shows(p, step, call) ==
  phone' = [phone EXCEPT ![p].step = step, ![p].photos = phone[p].seen, ![p].call = call,
                         ![p].status = IF step = "finishing" THEN @ ELSE "open",
                         ![p].seen = {}, ![p].shot = 0, ![p].take = 0]

Loaded(p) ==
  /\ At(p, "loading") /\ phone[p].call = "ok"
  /\ IF phone[p].status = "complete" THEN Shows(p, "sent", "none")
     ELSE IF hasEveryPhoto(p) THEN Shows(p, "finishing", "asked")
     ELSE Shows(p, "capturing", "none")
  /\ UNCHANGED <<form, shown, box, stream, get, session, takes, edits, mishaps>>

(* GuidedCapture: the first shot of the queue, when its photo is accepted. *)
TakePhoto(p) ==
  LET queue == Asked(p) \ phone[p].photos
  IN  /\ At(p, "capturing") /\ queue # {} /\ takes < MaxTakes
      /\ takes' = takes + 1
      /\ phone' = [phone EXCEPT ![p].step = "saving", ![p].call = "asked",
                                ![p].shot = Min(queue), ![p].take = takes + 1]
      /\ UNCHANGED <<form, shown, box, stream, get, session, edits, mishaps>>

(* The photo that completes the set ends the hand-off by itself.           *)
Saved(p) ==
  /\ At(p, "saving") /\ phone[p].call = "ok"
  /\ IF hasEveryPhoto(p) THEN Shows(p, "finishing", "asked")
     ELSE Shows(p, "capturing", "none")
  /\ UNCHANGED <<form, shown, box, stream, get, session, takes, edits, mishaps>>

Finished(p) ==
  /\ At(p, "finishing") /\ phone[p].call = "ok"
  /\ Shows(p, "sent", "none")
  /\ UNCHANGED <<form, shown, box, stream, get, session, takes, edits, mishaps>>

(* Mutant: a photo that could not be sent counts as taken.                 *)
afterFailureSkipping(p) ==
  CASE At(p, "loading") -> "unavailable"
    [] At(p, "saving") -> IF Asked(p) \subseteq phone[p].photos \cup {phone[p].shot}
                          THEN "stopped" ELSE "capturing"
    [] At(p, "finishing") -> IF phone[p].status = "complete" THEN "sent" ELSE "stopped"
    [] At(p, "restoring") -> "unavailable"

(* Nothing to show; take the photo again; try again.                       *)
afterFailure(p) ==
  CASE phone[p].step \in {"loading", "restoring"} -> "unavailable"
    [] At(p, "saving") -> "capturing"
    [] At(p, "finishing") -> IF phone[p].status = "complete" THEN "sent" ELSE "stopped"

CallFails(p) ==
  /\ phone[p].call = "failed"
  /\ phone' = [phone EXCEPT ![p].step = afterFailure(p), ![p].call = "none",
                            ![p].shot = 0, ![p].take = 0]
  /\ UNCHANGED <<form, shown, box, stream, get, session, takes, edits, mishaps>>

TryAgain(p) ==
  /\ At(p, "stopped")
  /\ phone' = [phone EXCEPT ![p].step = "finishing", ![p].call = "asked"]
  /\ UNCHANGED <<form, shown, box, stream, get, session, takes, edits, mishaps>>

(* "Continue quote on this phone": the quote form reads the session, and   *)
(* fills its tiles with the session's photos.                              *)
Continue(p) ==
  /\ At(p, "sent")
  /\ phone' = [phone EXCEPT ![p].step = "restoring", ![p].call = "asked", ![p].photos = {}]
  /\ UNCHANGED <<form, shown, box, stream, get, session, takes, edits, mishaps>>

Restored(p) ==
  /\ At(p, "restoring") /\ phone[p].call = "ok"
  /\ Shows(p, "restored", "none")
  /\ UNCHANGED <<form, shown, box, stream, get, session, takes, edits, mishaps>>

-----------------------------------------------------------------------------
Read(d, k) == ServeGet(d, k) \/ GetAnswered(d, k) \/ GetFailed(d, k)

Poll(d, k) == Tick(d, k) \/ Read(d, k)

Laptop ==
  \/ Opens \/ CloseByHand \/ ChoosePhoto \/ Remove
  \/ \E d \in Dialogs :
       \/ Created(d) \/ CreateFails(d)
       \/ Connect(d) \/ LoseStream(d)
       \/ OnPhotos(d) \/ OnComplete(d) \/ OnExpired(d)
       \/ \E k \in Polls : Poll(d, k)
       \/ Read(d, Final)
       \/ \E k \in Gets : LoseGet(d, k)

Phone(p) ==
  \/ Scan(p) \/ Reload(p) \/ ServePhone(p) \/ StorePhoto(p) \/ LoseAnswer(p) \/ CallFails(p)
  \/ Loaded(p) \/ TakePhoto(p) \/ Saved(p) \/ Finished(p) \/ TryAgain(p)
  \/ Continue(p) \/ Restored(p)

HandoffNext ==
  \/ Laptop
  \/ \E p \in Phones : Phone(p)
  \/ \E d \in Dialogs : Age(d)
  \/ Restart

HandoffSpec == HandoffInit /\ [][HandoffNext]_handoffVars

(* The timer ticks, and a read is handled and its answer delivered unless  *)
(* it is lost, which a mishap counts.  The stream and the phone promise    *)
(* nothing, and no customer has to act.                                    *)
Progress == \A d \in Dialogs : \A k \in Polls : WF_handoffVars(Poll(d, k))

FairHandoff == HandoffSpec /\ Progress

-----------------------------------------------------------------------------
(* Every record is of its type, and a photo in a tile is the customer's    *)
(* own or one that a phone took.                                           *)
HandoffTypeOK ==
  /\ form \in [Shots -> {Own, Blank} \cup (Dialogs \X Takes)]
  /\ shown \in 0..MaxDialogs
  /\ box \in [Dialogs -> BoxType]
  /\ stream \in [Dialogs -> [phase : StreamPhases, frames : Seq(Frames)]]
  /\ \A d \in Dialogs :
       /\ stream[d].phase # "on" => stream[d].frames = <<>>
       /\ stream[d].phase \in {"connecting", "on", "stalled"} => shown = d
  /\ get \in [Dialogs -> [Gets -> GetType]]
  /\ session \in [Dialogs -> SessionType]
  /\ phone \in [Phones -> PhoneType]
  /\ takes \in 0..MaxTakes /\ edits \in 0..MaxEdits /\ mishaps \in 0..MaxMishaps

(* A hand-off is whole when it ends: a dialog that closed because the      *)
(* session was complete has handed up every photo it asked for, and a      *)
(* phone that says the photos are sent, or carries the quote on, has them  *)
(* all (PhoneHandoff.jsx:111, CapturePage.jsx:71).  A phone with every     *)
(* photo is never left with nothing to do: it is ending the hand-off, says *)
(* so, or offers to try again (CapturePage.jsx:60).                        *)
HandoffWhole ==
  /\ \A d \in Dialogs : box[d].finished => box[d].asked \subseteq box[d].received
  /\ \A p \in Phones :
       /\ phone[p].step \in {"sent", "restored"} => Asked(p) \subseteq phone[p].photos
       /\ At(p, "capturing") => ~(Asked(p) \subseteq phone[p].photos)

(* A photo that a dialog handed up, and the customer then removed or       *)
(* replaced, is not put back by the dialog: not by a late answer, not by   *)
(* the stream, not by the same shot taken again (PhoneHandoff.jsx:54).     *)
RemovedStaysRemoved ==
  [][\A d \in Dialogs : \A s \in box[d].received :
       form'[s] \in {d} \X Takes => form[s] = form'[s]]_handoffVars

(* Whatever the stream does, the open dialog does not stay behind the      *)
(* relay: it hands up what it lacks and closes on completion, unless it is *)
(* closed or its session ends first (PhoneHandoff.jsx:134).                *)
Behind ==
  \E d \in Dialogs :
    /\ Linked(d) /\ Live(d)
    /\ ~(Having(session[d].photos) \subseteq box[d].received)
       \/ session[d].status = "complete"

PhotosArrive == Behind ~> ~Behind
=============================================================================
