-------------------------- MODULE IdentitySession --------------------------
(***************************************************************************)
(* One browser, its single session cookie and the tabs that share it.      *)
(* Each tab binds its private storage to one user; the server refuses a    *)
(* request made for another user than the session's; a tab that learns of  *)
(* a change forgets the person and starts anew.                            *)
(*                                                                         *)
(* One action is one event of a tab's document (a click, a response, a     *)
(* notification, a load) or the server's handling of one request.  A       *)
(* request carries the header and the cookie of the moment it is sent.     *)
(***************************************************************************)
EXTENDS Naturals, Sequences

CONSTANTS
  Tabs, Users,
  Staff,       \* the users with a staff session; the others are customers
  Newcomers,   \* the customers who have yet to register
  SignIns,     \* who signs in, and on which page
  Sessions,    \* the sessions the server may create
  MaxActs,     \* bound on what users start
  MaxMishaps,  \* bound on reloads, frozen pages, lost answers, expired sessions
  Anonymous,   \* the header of a request from an unbound tab
  None

ASSUME IdentityAssumption ==
  /\ Staff \subseteq Users /\ Newcomers \subseteq Users \ Staff
  /\ SignIns \subseteq Users \X {"customer", "staff"}
  /\ Sessions # {} /\ MaxActs \in Nat /\ MaxMishaps \in Nat
  /\ None \notin Users \cup Sessions /\ Anonymous \notin Users \cup {None}

VARIABLES
  owner,     \* owner[s]: the user session s was created for, or None
  alive,     \* the sessions that exist
  accepted,  \* the customers with a consent record
  closed,    \* the customers whose account is closed
  writes,    \* <<for whom, under whose session>> of every write
  cookie,    \* the browser's session cookie
  page,      \* page[t]
  binding,   \* binding[t]: the tab's insurshield-identity key
  store,     \* store[t]: whose data the document holds
  saved,     \* saved[t]: whose data the tab's storage holds
  stale,     \* stale[t]: staleBoot
  retried,   \* retried[t]: bootRetry
  inbox,     \* inbox[t]: notifications not yet delivered
  call,      \* call[t]: the identity request under way
  work,      \* work[t]: the other request under way
  acts, mishaps

server  == <<owner, alive, accepted, closed, writes>>
tab     == <<page, binding, store, saved>>
booting == <<stale, retried>>
bounds  == <<acts, mishaps>>
vars == <<server, cookie, tab, booting, inbox, call, work, bounds>>

Pages == {"booting", "ready", "failed", "leaving", "frozen"}

(* me: the profile; records: the collections; consent: whose acceptance;   *)
(* journey: whether a quote journey is in progress.                        *)
StoreType == [me : Users \cup {None}, records : Users \cup {None},
              consent : BOOLEAN, journey : BOOLEAN]

Empty == [me |-> None, records |-> None, consent |-> FALSE, journey |-> FALSE]

Kinds == {"none", "boot", "signIn", "me", "turnAway", "signOut", "close",
          "register", "load", "consent", "write"}

Phases == {"idle", "sent", "answered"}

Codes == {"NONE", "OK", "UNAUTHENTICATED", "IDENTITY_CHANGED", "FAILED"}

(* user: whom the request is for or signs in; portal: the page it began    *)
(* on; setCookie: the session its response sets, None when it clears it.   *)
RequestType ==
  [kind : Kinds, phase : Phases, header : Users \cup {Anonymous, None},
   session : Sessions \cup {None}, user : Users \cup {None},
   portal : {"customer", "staff"}, code : Codes,
   setCookie : Sessions \cup {None}]

NoRequest == [kind |-> "none", phase |-> "idle", header |-> None,
              session |-> None, user |-> None, portal |-> "customer",
              code |-> "NONE", setCookie |-> None]

Leaving(t) == page[t] = "leaving"

(* SERVER: the caller's session, and the precondition on the header.       *)

sessionUser(r) == IF r.session \in alive THEN owner[r.session] ELSE None

identityMatches(r) ==
  \/ r.header = None
  \/ r.header = Anonymous /\ sessionUser(r) = None
  \/ r.header # Anonymous /\ r.header = sessionUser(r)

(* Mutant: a route that writes does not look at the header.                *)
guardWithoutHeader(r) ==
  IF sessionUser(r) = None THEN "UNAUTHENTICATED" ELSE "OK"

(* AuthGuard on a route that asks for a session.                           *)
canActivate(r) ==
  IF r.header = Anonymous \/ ~identityMatches(r) THEN "IDENTITY_CHANGED"
  ELSE IF sessionUser(r) = None THEN "UNAUTHENTICATED"
  ELSE "OK"

(* sessionChecks on sign-out: Better Auth answers for itself otherwise.    *)
sessionChecks(r) == IF identityMatches(r) THEN "OK" ELSE "IDENTITY_CHANGED"

-----------------------------------------------------------------------------
(* TAB: storage, notifications, transition.                                *)

(* Mutant: the adapter keeps writing after a transition began.             *)
persistAlways(t, s) == saved' = [saved EXCEPT ![t] = s]

(* A set() writes the whole store, unless persistence is suspended.        *)
persist(t, s) ==
  saved' = IF Leaving(t) THEN saved ELSE [saved EXCEPT ![t] = s]

Set(t, s) == store' = [store EXCEPT ![t] = s] /\ persist(t, s)

listening(t) == page[t] \in {"booting", "ready", "failed"}

(* announceIdentity: the tab's own channel hears it as well.               *)
announced(n) == [t \in Tabs |-> IF listening(t) THEN Append(inbox[t], n) ELSE inbox[t]]

(* Mutant: the tab's storage is left as it is.                             *)
transitionKeepingStorage(t) ==
  /\ page' = [page EXCEPT ![t] = "leaving"]
  /\ binding' = [binding EXCEPT ![t] = None]
  /\ UNCHANGED <<store, saved>>

(* transition, once; its location.replace is Unload.                       *)
transition(t) ==
  IF Leaving(t) THEN UNCHANGED tab
  ELSE /\ page' = [page EXCEPT ![t] = "leaving"]
       /\ binding' = [binding EXCEPT ![t] = None]
       /\ saved' = [saved EXCEPT ![t] = Empty]
       /\ UNCHANGED store

transitionAnnouncing(t, n) ==
  /\ transition(t)
  /\ inbox' = IF Leaving(t) THEN inbox ELSE announced(n)

profileOf(u, s) == [s EXCEPT !.me = u, !.consent = u \in accepted]

(* adopt: a leaving document binds and announces all the same.             *)
adopt(t, u) ==
  IF binding[t] \notin {None, u} THEN transitionAnnouncing(t, u)
  ELSE /\ binding' = [binding EXCEPT ![t] = u]
       /\ inbox' = announced(u)
       /\ IF Leaving(t) THEN UNCHANGED <<page, store, saved>>
          ELSE /\ page' = [page EXCEPT ![t] = "ready"]
               /\ Set(t, profileOf(u, store[t]))

(* The request interceptor: header and cookie of the moment.               *)
Request(t, kind, u, portal) ==
  [NoRequest EXCEPT !.kind = kind, !.phase = "sent", !.user = u,
     !.portal = portal, !.session = cookie,
     !.header = IF binding[t] = None THEN Anonymous ELSE binding[t]]

(* me({ boot: !binding }) omits the header of an unbound tab.              *)
BootRequest(t) ==
  [Request(t, "boot", None, "customer") EXCEPT !.header = binding[t]]

-----------------------------------------------------------------------------
(* Tabs are opened into a browser that may hold a session.                 *)
Init ==
  /\ \E u \in (Users \ Newcomers) \cup {None} :
       LET s == CHOOSE x \in Sessions : TRUE IN
       /\ owner = [x \in Sessions |-> IF x = s THEN u ELSE None]
       /\ alive = IF u = None THEN {} ELSE {s}
       /\ cookie = IF u = None THEN None ELSE s
  /\ accepted = {} /\ closed = {} /\ writes = {}
  /\ page = [t \in Tabs |-> "booting"]
  /\ binding = [t \in Tabs |-> None]
  /\ store = [t \in Tabs |-> Empty]
  /\ saved = [t \in Tabs |-> Empty]
  /\ stale = [t \in Tabs |-> FALSE]
  /\ retried = [t \in Tabs |-> FALSE]
  /\ inbox = [t \in Tabs |-> <<>>]
  /\ call = [t \in Tabs |-> BootRequest(t)]
  /\ work = [t \in Tabs |-> NoRequest]
  /\ acts = 0 /\ mishaps = 0

act == acts < MaxActs /\ acts' = acts + 1 /\ UNCHANGED mishaps

mishap == mishaps < MaxMishaps /\ mishaps' = mishaps + 1 /\ UNCHANGED acts

-----------------------------------------------------------------------------
(* What the user does in a tab.                                            *)

idle(t) == page[t] = "ready" /\ call[t] = NoRequest

start(t, kind, u, portal) ==
  /\ call' = [call EXCEPT ![t] = Request(t, kind, u, portal)]
  /\ UNCHANGED <<server, cookie, tab, booting, inbox, work>>

hadSession(u) == \E s \in Sessions : owner[s] = u

(* submitLogin and handleLogin; a bound tab offers the form to a customer  *)
(* without consent, and on the staff page.                                 *)
SignIn(t, u, portal) ==
  /\ idle(t) /\ act
  /\ <<u, portal>> \in SignIns
  /\ binding[t] = None \/ portal = "staff" \/ ~store[t].consent
  /\ u \in Newcomers => hadSession(u)
  /\ start(t, "signIn", u, portal)

(* acceptConsent of a new customer.                                        *)
Register(t, u) ==
  /\ idle(t) /\ act
  /\ binding[t] = None
  /\ u \in Newcomers /\ ~hadSession(u)
  /\ start(t, "register", u, "customer")

(* handleSignOut and handleStaffSignOut; removeAccount.                    *)
SignOut(t, kind) ==
  /\ idle(t) /\ act
  /\ store[t].me # None
  /\ kind = "close" => store[t].me \notin Staff
  /\ start(t, kind, store[t].me, "customer")

(* The page starts something for the person it shows; it is sent later,    *)
(* after the photos are converted, say.                                    *)
Begin(t, kind) ==
  /\ page[t] = "ready" /\ work[t] = NoRequest /\ act
  /\ store[t].me # None
  /\ kind = "consent" => store[t].me \notin Staff
  /\ work' = [work EXCEPT ![t] = [NoRequest EXCEPT !.kind = kind, !.user = store[t].me]]
  /\ UNCHANGED <<server, cookie, tab, booting, inbox, call>>

StartJourney(t) ==
  /\ page[t] = "ready" /\ ~store[t].journey /\ act
  /\ Set(t, [store[t] EXCEPT !.journey = TRUE])
  /\ UNCHANGED <<server, cookie, page, binding, booting, inbox, call, work>>

-----------------------------------------------------------------------------
(* Booting.                                                                *)

startBoot(t) ==
  /\ page' = [page EXCEPT ![t] = "booting"]
  /\ call' = [call EXCEPT ![t] = BootRequest(t)]
  /\ retried' = [retried EXCEPT ![t] = FALSE]

(* A new document: memory and requests are gone, the saved store is        *)
(* merged back.  An answer on its way may still set the cookie.            *)
newDocument(t) ==
  LET r == call[t] IN
  /\ cookie' \in {cookie} \cup (IF r.phase = "answered" /\ r.code = "OK"
                                   /\ r.kind \in {"signIn", "register", "signOut", "turnAway"}
                                THEN {r.setCookie} ELSE {})
  /\ page' = [page EXCEPT ![t] = "booting"]
  /\ store' = [store EXCEPT ![t] = saved[t]]
  /\ stale' = [stale EXCEPT ![t] = FALSE]
  /\ retried' = [retried EXCEPT ![t] = FALSE]
  /\ inbox' = [inbox EXCEPT ![t] = <<>>]
  /\ call' = [call EXCEPT ![t] = [BootRequest(t) EXCEPT !.session = cookie']]
  /\ work' = [work EXCEPT ![t] = NoRequest]
  /\ UNCHANGED <<server, binding, saved>>

(* location.replace.                                                       *)
Unload(t) == Leaving(t) /\ newDocument(t) /\ UNCHANGED bounds

Reload(t) == page[t] \in {"ready", "failed"} /\ mishap /\ newDocument(t)

TryAgain(t) ==
  /\ page[t] = "failed" /\ act
  /\ startBoot(t)
  /\ UNCHANGED <<server, cookie, binding, store, saved, stale, inbox, work>>

(* Into the back/forward cache, and out of it (pageshow, persisted).       *)
Freeze(t) ==
  /\ idle(t) /\ work[t] = NoRequest /\ mishap
  /\ page' = [page EXCEPT ![t] = "frozen"]
  /\ inbox' = [inbox EXCEPT ![t] = <<>>]
  /\ UNCHANGED <<server, cookie, binding, store, saved, booting, call, work>>

Restore(t) ==
  /\ page[t] = "frozen"
  /\ startBoot(t)
  /\ UNCHANGED <<server, cookie, binding, store, saved, stale, inbox, work, bounds>>

(* What boot does with an answer.  The interceptor has begun a transition  *)
(* for IDENTITY_CHANGED before boot asks again, and a document that is     *)
(* leaving still binds the tab.                                            *)
bootAnswered(t) ==
  LET r == call[t]
      again == stale[t] /\ ~retried[t]
      changed == r.code = "IDENTITY_CHANGED"
      show(p, s) == IF Leaving(t) THEN UNCHANGED <<page, store, saved>>
                    ELSE page' = [page EXCEPT ![t] = p] /\ Set(t, s)
  IN
  /\ \/ changed /\ transition(t)
     \/ ~changed /\ again /\ UNCHANGED tab
     \/ /\ ~again /\ r.code = "OK"
        /\ binding' = [binding EXCEPT ![t] = r.user]
        /\ show("ready", profileOf(r.user, store[t]))
     \/ /\ ~again /\ r.code = "UNAUTHENTICATED"   \* settleGuest
        /\ show("ready", [store[t] EXCEPT !.me = None, !.consent = FALSE])
        /\ UNCHANGED binding
     \/ /\ ~again /\ r.code = "FAILED"
        /\ show("failed", store[t])
        /\ UNCHANGED binding
  /\ IF again
     THEN /\ stale' = [stale EXCEPT ![t] = FALSE]
          /\ retried' = [retried EXCEPT ![t] = TRUE]
          /\ call' = [call EXCEPT ![t] = [BootRequest(t) EXCEPT !.header = binding'[t]]]
     ELSE call' = [call EXCEPT ![t] = NoRequest] /\ UNCHANGED booting

ReceiveBoot(t) ==
  /\ call[t].kind = "boot" /\ call[t].phase = "answered"
  /\ bootAnswered(t)
  /\ UNCHANGED <<server, cookie, inbox, work, bounds>>

-----------------------------------------------------------------------------
(* The server handles a request, or it is lost.                            *)

answered(r, code, u) ==
  [r EXCEPT !.phase = "answered", !.code = code,
            !.user = IF code = "OK" THEN u ELSE r.user]

(* GET /auth/me.                                                           *)
ServeMe(t) ==
  LET r == call[t] IN
  /\ r.kind \in {"boot", "me"} /\ r.phase = "sent"
  /\ call' = [call EXCEPT ![t] = answered(r, canActivate(r), sessionUser(r))]
  /\ UNCHANGED <<server, cookie, tab, booting, inbox, work, bounds>>

(* Sign-in and registration replace the session, whatever the header; a    *)
(* closed account gets none.  Sessions bounds how many there may be.       *)
ServeSignIn(t) ==
  LET r == call[t]
      s == CHOOSE x \in Sessions : owner[x] = None
  IN
  /\ r.kind \in {"signIn", "register"} /\ r.phase = "sent"
  /\ \/ /\ r.user \notin closed /\ \E x \in Sessions : owner[x] = None
        /\ owner' = [owner EXCEPT ![s] = r.user]
        /\ alive' = alive \cup {s}
        /\ accepted' = accepted \cup (IF r.kind = "register" THEN {r.user} ELSE {})
        /\ call' = [call EXCEPT ![t] = [answered(r, "OK", r.user) EXCEPT !.setCookie = s]]
     \/ /\ r.user \in closed
        /\ call' = [call EXCEPT ![t] = answered(r, "FAILED", None)]
        /\ UNCHANGED <<owner, alive, accepted>>
  /\ UNCHANGED <<closed, writes, cookie, tab, booting, inbox, work, bounds>>

(* Sign-out ends the session; closing the account ends them all.           *)
ServeSignOut(t) ==
  LET r == call[t]
      u == sessionUser(r)
      code == IF r.kind = "close" THEN canActivate(r) ELSE sessionChecks(r)
      ended == IF r.kind = "close" THEN {s \in Sessions : owner[s] = u} ELSE {r.session}
  IN
  /\ r.kind \in {"signOut", "turnAway", "close"} /\ r.phase = "sent"
  /\ call' = [call EXCEPT ![t] = answered(r, code, r.user)]
  /\ IF code = "OK"
     THEN /\ alive' = alive \ ended
          /\ writes' = writes \cup (IF u = None THEN {} ELSE {<<r.user, u>>})
          /\ closed' = closed \cup (IF r.kind = "close" THEN {u} ELSE {})
     ELSE UNCHANGED <<alive, writes, closed>>
  /\ UNCHANGED <<owner, accepted, cookie, tab, booting, inbox, work, bounds>>

(* A list to load, the consent, or another write of a customer or staff.   *)
ServeWork(t) ==
  LET r == work[t]
      u == sessionUser(r)
      done == canActivate(r) = "OK"
  IN
  /\ r.phase = "sent"
  /\ work' = [work EXCEPT ![t] = answered(r, canActivate(r), u)]
  /\ accepted' = accepted \cup (IF done /\ r.kind = "consent" THEN {u} ELSE {})
  /\ writes' = writes \cup (IF done /\ r.kind # "load" THEN {<<r.user, u>>} ELSE {})
  /\ UNCHANGED <<owner, alive, closed, cookie, tab, booting, inbox, call, bounds>>

(* The connection fails, or the client's timeout passes: the request may   *)
(* have been handled.                                                      *)
Lose(t) ==
  /\ mishap
  /\ \/ /\ call[t].phase # "idle"
        /\ call' = [call EXCEPT ![t] = answered(@, "FAILED", None)]
        /\ UNCHANGED work
     \/ /\ work[t].phase # "idle"
        /\ work' = [work EXCEPT ![t] = answered(@, "FAILED", None)]
        /\ UNCHANGED call
  /\ UNCHANGED <<server, cookie, tab, booting, inbox>>

(* A session reaches its seven days, or is revoked.                        *)
Expire(s) ==
  /\ s \in alive /\ mishap
  /\ alive' = alive \ {s}
  /\ UNCHANGED <<owner, accepted, closed, writes, cookie, tab, booting, inbox, call, work>>

-----------------------------------------------------------------------------
(* A tab receives an answer; a document that is leaving still runs.        *)

over(t) == call' = [call EXCEPT ![t] = NoRequest]

(* The session is asked for before the tab is bound to it.                 *)
ReceiveSignIn(t) ==
  LET r == call[t] IN
  /\ r.kind = "signIn" /\ r.phase = "answered"
  /\ \/ /\ r.code = "OK"
        /\ cookie' = r.setCookie
        /\ call' = [call EXCEPT ![t] = [Request(t, "me", r.user, r.portal)
                                          EXCEPT !.session = r.setCookie]]
     \/ r.code # "OK" /\ over(t) /\ UNCHANGED cookie
  /\ UNCHANGED <<server, tab, booting, inbox, work, bounds>>

ReceiveRegistration(t) ==
  LET r == call[t] IN
  /\ r.kind = "register" /\ r.phase = "answered"
  /\ over(t)
  /\ \/ /\ r.code = "OK"
        /\ cookie' = r.setCookie
        /\ adopt(t, r.user)
     \/ r.code # "OK" /\ UNCHANGED <<cookie, tab, inbox>>
  /\ UNCHANGED <<server, booting, work, bounds>>

(* The staff page signs a customer out again.                              *)
ReceiveMe(t) ==
  LET r == call[t]
      turnedAway == r.portal = "staff" /\ r.user \notin Staff
  IN
  /\ r.kind = "me" /\ r.phase = "answered"
  /\ \/ /\ r.code = "OK" /\ ~turnedAway
        /\ adopt(t, r.user) /\ over(t)
     \/ /\ r.code = "OK" /\ turnedAway
        /\ call' = [call EXCEPT ![t] = Request(t, "turnAway", r.user, r.portal)]
        /\ UNCHANGED <<tab, inbox>>
     \/ /\ r.code = "IDENTITY_CHANGED"
        /\ transition(t) /\ over(t) /\ UNCHANGED inbox
     \/ r.code = "FAILED" /\ over(t) /\ UNCHANGED <<tab, inbox>>
  /\ UNCHANGED <<server, cookie, booting, work, bounds>>

ReceiveSignOut(t) ==
  LET r == call[t] IN
  /\ r.kind \in {"signOut", "turnAway", "close"} /\ r.phase = "answered"
  /\ over(t)
  /\ cookie' = IF r.code = "OK" /\ r.kind # "close" THEN None ELSE cookie
  /\ \/ r.code = "OK" /\ transitionAnnouncing(t, None)
     \/ r.code = "IDENTITY_CHANGED" /\ transition(t) /\ UNCHANGED inbox
     \/ r.code = "FAILED" /\ UNCHANGED <<tab, inbox>>
  /\ UNCHANGED <<server, booting, work, bounds>>

Send(t) ==
  LET r == work[t] IN
  /\ r # NoRequest /\ r.phase = "idle"
  /\ work' = [work EXCEPT ![t] = Request(t, r.kind, r.user, "customer")]
  /\ UNCHANGED <<server, cookie, tab, booting, inbox, call, bounds>>

(* Lists are not applied while leaving; setConsent does not look.          *)
ReceiveWork(t) ==
  LET r == work[t] IN
  /\ r.phase = "answered"
  /\ work' = [work EXCEPT ![t] = NoRequest]
  /\ \/ r.code = "IDENTITY_CHANGED" /\ transition(t)
     \/ /\ r.code = "OK" /\ r.kind = "consent"
        /\ Set(t, [store[t] EXCEPT !.consent = TRUE])
        /\ UNCHANGED <<page, binding>>
     \/ /\ r.code = "OK" /\ r.kind = "load" /\ ~Leaving(t)
        /\ Set(t, [store[t] EXCEPT !.records = r.user])
        /\ UNCHANGED <<page, binding>>
     \/ /\ r.code = "FAILED" \/ (r.code = "OK" /\ (r.kind = "write" \/ (r.kind = "load" /\ Leaving(t))))
        /\ UNCHANGED tab
  /\ UNCHANGED <<server, cookie, booting, inbox, call, bounds>>

(* booting.current.                                                        *)
asking(t) == call[t].kind = "boot"

(* Mutant: a tab that follows a notification passes it on.                 *)
DeliverAndEcho(t) ==
  LET n == Head(inbox[t])
      left == [inbox EXCEPT ![t] = Tail(@)]
  IN
  /\ inbox[t] # <<>>
  /\ IF ~asking(t) /\ binding[t] \notin {None, n}
     THEN /\ transition(t) /\ UNCHANGED stale
          /\ inbox' = [u \in Tabs |-> IF listening(u) /\ ~Leaving(t) THEN Append(left[u], n) ELSE left[u]]
     ELSE /\ stale' = [stale EXCEPT ![t] = @ \/ asking(t)]
          /\ inbox' = left
          /\ UNCHANGED tab
  /\ UNCHANGED <<server, cookie, retried, call, work, bounds>>

(* onMessage.                                                              *)
Deliver(t) ==
  LET n == Head(inbox[t]) IN
  /\ inbox[t] # <<>>
  /\ inbox' = [inbox EXCEPT ![t] = Tail(@)]
  /\ \/ /\ asking(t)
        /\ stale' = [stale EXCEPT ![t] = TRUE]
        /\ UNCHANGED tab
     \/ /\ ~asking(t) /\ binding[t] \notin {None, n}
        /\ transition(t)
        /\ UNCHANGED stale
     \/ /\ ~asking(t) /\ binding[t] \in {None, n}
        /\ UNCHANGED <<tab, stale>>
  /\ UNCHANGED <<server, cookie, retried, call, work, bounds>>

-----------------------------------------------------------------------------
User(t) ==
  \/ \E u \in Users : \/ \E p \in {"customer", "staff"} : SignIn(t, u, p)
                      \/ Register(t, u)
  \/ \E k \in {"signOut", "close"} : SignOut(t, k)
  \/ \E k \in {"load", "consent", "write"} : Begin(t, k)
  \/ StartJourney(t)

Browser(t) == Reload(t) \/ TryAgain(t) \/ Freeze(t) \/ Restore(t) \/ Lose(t)

Serve(t) == ServeMe(t) \/ ServeSignIn(t) \/ ServeSignOut(t) \/ ServeWork(t)

Receive(t) ==
  \/ ReceiveBoot(t) \/ ReceiveSignIn(t) \/ ReceiveRegistration(t)
  \/ ReceiveMe(t) \/ ReceiveSignOut(t) \/ ReceiveWork(t)

Next ==
  \/ \E t \in Tabs : \/ User(t) \/ Browser(t) \/ Serve(t) \/ Receive(t)
                    \/ Send(t) \/ Deliver(t) \/ Unload(t)
  \/ \E s \in Sessions : Expire(s)

Spec == Init /\ [][Next]_vars

(* Requests are answered, by the server or by the client's timeout, and    *)
(* the event loop and the navigation go on.                                *)
FairSpec ==
  /\ Spec
  /\ \A t \in Tabs :
       /\ WF_vars(ServeMe(t) \/ ServeSignIn(t) \/ ServeSignOut(t))
       /\ WF_vars(ServeWork(t))
       /\ WF_vars(ReceiveBoot(t) \/ ReceiveSignIn(t) \/ ReceiveRegistration(t)
                    \/ ReceiveMe(t) \/ ReceiveSignOut(t))
       /\ WF_vars(ReceiveWork(t)) /\ WF_vars(Send(t))
       /\ WF_vars(Deliver(t)) /\ WF_vars(Unload(t))

-----------------------------------------------------------------------------
(* Types; a document that is leaving has left nothing in the tab's         *)
(* storage, whatever it still writes.                                      *)
TypeOK ==
  /\ owner \in [Sessions -> Users \cup {None}]
  /\ alive \subseteq Sessions /\ accepted \subseteq Users /\ closed \subseteq Users
  /\ writes \subseteq Users \X Users
  /\ cookie \in Sessions \cup {None}
  /\ page \in [Tabs -> Pages]
  /\ binding \in [Tabs -> Users \cup {None}]
  /\ store \in [Tabs -> StoreType] /\ saved \in [Tabs -> StoreType]
  /\ stale \in [Tabs -> BOOLEAN] /\ retried \in [Tabs -> BOOLEAN]
  /\ inbox \in [Tabs -> Seq(Users \cup {None})]
  /\ call \in [Tabs -> RequestType] /\ work \in [Tabs -> RequestType]
  /\ acts \in 0..MaxActs /\ mishaps \in 0..MaxMishaps
  /\ \A t \in Tabs : Leaving(t) => saved[t] = Empty

(* A tab shows and keeps the data of one person, the one it is bound to:   *)
(* no answer that arrives late, no reload and no restored page mixes two   *)
(* people's profile, records or consent in one tab.                        *)
OnePersonPerTab ==
  \A t \in Tabs :
    /\ {saved[t].me, saved[t].records} \subseteq {None, binding[t]}
    /\ page[t] = "ready" =>
         /\ store[t].me = binding[t]
         /\ store[t].records \in {None, binding[t]}
         /\ store[t].consent => store[t].me \in accepted

(* What a tab begins for one person never runs under the session of        *)
(* another: the header is read when the request is sent and compared with  *)
(* the session when it is served, on Nest's routes and Better Auth's.      *)
NothingUnderAnother == \A w \in writes : w[1] = w[2]

(* Tabs do not reset each other in a loop: once users, the clock and the   *)
(* browser start nothing more, notifications run out and every tab has     *)
(* booted, or failed to and says so.                                       *)
ReactionsEnd ==
  <>[](\A t \in Tabs : inbox[t] = <<>> /\ page[t] \notin {"booting", "leaving"})

(* "A guest's journey survives the guest's own sign-in in that tab": with  *)
(* no other tab, nothing but the sign-in can have changed the identity.    *)
JourneySurvivesOwnSignIn ==
  [][\A t \in Tabs :
       (binding[t] = None /\ store[t].journey /\ call[t].kind \in {"signIn", "me"})
         => ~Leaving(t)' ]_vars

=============================================================================
