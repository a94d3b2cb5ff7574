----------------------- MODULE IdentitySessionProofs -----------------------
(***************************************************************************)
(* One person per tab, and nothing done for one person under another's     *)
(* session: for any number of tabs, users, sessions and events.            *)
(***************************************************************************)
EXTENDS IdentitySession, SequenceTheorems, TLAPS

-----------------------------------------------------------------------------
(* THE INVARIANT.  One tab, as values: its page p, the user b it is bound  *)
(* to, what its document holds (s) and its storage keeps (v), the identity *)
(* request r and the other request w under way.                            *)

(* A document that stays shows what belongs to the person it is bound to.  *)
Shows(p, b, s, agreed) ==
  /\ p # "leaving" => s.me \in {None, b} /\ s.records \in {None, b}
  /\ p \in {"ready", "frozen"} => s.me = b
  /\ p = "ready" /\ s.consent => s.me \in agreed

(* So does the storage, and a document that leaves has emptied it.         *)
Keeps(p, b, v) ==
  /\ v.me \in {None, b} /\ v.records \in {None, b}
  /\ p = "leaving" => v = Empty

(* The profile is asked for by a document that does nothing else yet; a    *)
(* guest has nothing to lose by the answer.                                *)
Boots(p, b, r, w) ==
  r.kind = "boot" =>
    /\ p \in {"booting", "leaving"} /\ w = NoRequest
    /\ r.header \in Users \cup {None}
    /\ p = "booting" => r.header = b
    /\ r.phase = "answered" /\ r.code = "OK" => r.user \in Users /\ r.header \in {None, r.user}
    /\ r.phase = "answered" /\ r.code = "UNAUTHENTICATED" => r.header = None

(* What changes the person carries the person it changes from.             *)
Changes(p, b, r, w) ==
  /\ r.kind \notin {"none", "boot"} => p \in {"ready", "leaving"}
  /\ r.kind = "register" => b = None /\ w = NoRequest
  /\ r.kind \in {"signIn", "register", "me"} => r.user \in Users
  /\ r.kind \in {"signOut", "close", "turnAway"} =>
       r.user \in Users /\ r.header \in {Anonymous, r.user}
  /\ r.kind = "me" =>
       /\ r.header \in Users \cup {Anonymous}
       /\ r.header \in Users => b \in {None, r.header} /\ (w # NoRequest => w.user = r.header)
       /\ r.phase = "answered" /\ r.code = "OK" => r.user = r.header

(* Other work is for the person the tab was bound to when it began.        *)
Works(p, b, w, agreed) ==
  /\ w.kind \in {"none", "load", "consent", "write"}
  /\ w # NoRequest =>
       /\ p \in {"ready", "leaving"} /\ w.user \in Users /\ b \in {None, w.user}
       /\ p = "ready" => b = w.user
  /\ w.phase # "idle" => w.header \in {Anonymous, w.user}
  /\ w.phase = "answered" /\ w.code = "OK" /\ w.kind = "consent" => w.user \in agreed

Consistent(p, b, s, v, r, w, agreed) ==
  Shows(p, b, s, agreed) /\ Keeps(p, b, v) /\ Boots(p, b, r, w) /\ Changes(p, b, r, w)
    /\ Works(p, b, w, agreed)

TabOK(t) ==
  Consistent(page[t], binding[t], store[t], saved[t], call[t], work[t], accepted)

IInv == TypeOK /\ NothingUnderAnother /\ \A t \in Tabs : TabOK(t)

-----------------------------------------------------------------------------
(* ONE TAB.  What the events of a tab do to its values.                    *)

(* The constants, and what NoRequest and Empty are.                        *)
LEMMA Nobody ==
  /\ None \notin Users /\ None \notin Sessions /\ Anonymous \notin Users /\ Anonymous # None
  /\ Staff \subseteq Users /\ Sessions # {} /\ MaxActs \in Nat /\ MaxMishaps \in Nat
  /\ NoRequest \in RequestType /\ NoRequest.kind = "none" /\ NoRequest.phase = "idle"
  /\ NoRequest.user = None /\ NoRequest.code = "NONE"
  /\ Empty \in StoreType /\ Empty.me = None /\ Empty.records = None
BY IdentityAssumption DEF NoRequest, Empty, RequestType, StoreType, Kinds, Phases, Codes

(* More consents change nothing.                                           *)
LEMMA Grown ==
  ASSUME NEW p, NEW b, NEW s, NEW v, NEW r, NEW w, NEW few, NEW many, few \subseteq many,
         Consistent(p, b, s, v, r, w, few)
  PROVE  Consistent(p, b, s, v, r, w, many)
BY DEF Consistent, Shows, Works

(* A transition.                                                           *)
LEMMA Forgotten ==
  ASSUME NEW p, NEW b, NEW s, NEW v, NEW r, NEW w, NEW agreed,
         Consistent(p, b, s, v, r, w, agreed)
  PROVE  Consistent("leaving", None, s, Empty, r, w, agreed)
BY Nobody DEF Consistent, Shows, Keeps, Boots, Changes, Works

(* The identity request ends.                                              *)
LEMMA Ended ==
  ASSUME NEW p, NEW b, NEW s, NEW v, NEW r, NEW w, NEW agreed,
         Consistent(p, b, s, v, r, w, agreed)
  PROVE  Consistent(p, b, s, v, NoRequest, w, agreed)
BY Nobody DEF Consistent, Boots, Changes

(* The other work ends, and what it wrote.                                 *)
LEMMA WorkEnded ==
  ASSUME NEW p, NEW b, NEW s, NEW v, NEW r, NEW w, NEW agreed,
         Consistent(p, b, s, v, r, w, agreed)
  PROVE  Consistent(p, b, s, v, r, NoRequest, agreed)
BY Nobody DEF Consistent, Boots, Changes, Works

(* A new document takes over what the storage kept.                        *)
LEMMA Opened ==
  ASSUME NEW p, NEW b \in Users \cup {None}, NEW s, NEW v, NEW r, NEW w, NEW agreed,
         Consistent(p, b, s, v, r, w, agreed),
         NEW q, q.kind = "boot", q.phase = "sent", q.header = b
  PROVE  Consistent("booting", b, v, v, q, NoRequest, agreed)
BY Nobody DEF Consistent, Shows, Keeps, Boots, Changes, Works

(* A document that asks again who is signed in.                            *)
LEMMA Rebooted ==
  ASSUME NEW p, NEW b \in Users \cup {None}, NEW s, NEW v, NEW r, NEW w, NEW agreed,
         Consistent(p, b, s, v, r, w, agreed), p \in {"failed", "frozen", "booting"},
         NEW q, q.kind = "boot", q.phase = "sent", q.header = b
  PROVE  Consistent("booting", b, s, v, q, NoRequest, agreed) /\ w = NoRequest
BY Nobody DEF Consistent, Shows, Keeps, Boots, Changes, Works

LEMMA RebootedLeaving ==
  ASSUME NEW b \in Users \cup {None}, NEW s, NEW v, NEW r, NEW w, NEW agreed,
         Consistent("leaving", b, s, v, r, w, agreed), r.kind = "boot",
         NEW q, q.kind = "boot", q.phase = "sent", q.header = b
  PROVE  Consistent("leaving", b, s, v, q, w, agreed)
BY Nobody DEF Consistent, Shows, Keeps, Boots, Changes, Works

(* The tab is bound to the user of its own request.                        *)
Binds(b, r, w, u) ==
  /\ u \in Users /\ b \in {None, u}
  /\ w # NoRequest => w.user = u

LEMMA Adopted ==
  ASSUME NEW p, NEW b, NEW s, NEW v, NEW r, NEW w, NEW agreed,
         Consistent(p, b, s, v, r, w, agreed), NEW u, Binds(b, r, w, u)
  PROVE  /\ p = "leaving" => Consistent(p, u, s, v, NoRequest, w, agreed)
         /\ \A z : p # "leaving" /\ p \in {"booting", "ready"}
                   /\ z.me = u /\ z.records = s.records /\ (z.consent => u \in agreed)
              => Consistent("ready", u, z, z, NoRequest, w, agreed)
<1>1. p = "leaving" => Consistent(p, u, s, v, NoRequest, w, agreed)
  BY Nobody DEF Consistent, Shows, Keeps, Boots, Changes, Works, Binds
<1>2. ASSUME NEW z, p # "leaving", p \in {"booting", "ready"},
             z.me = u, z.records = s.records, z.consent => u \in agreed
      PROVE  Consistent("ready", u, z, z, NoRequest, w, agreed)
  <2>1. Shows("ready", u, z, agreed) /\ Keeps("ready", u, z)
    BY <1>2 DEF Consistent, Shows, Keeps, Binds
  <2>2. Works("ready", u, w, agreed)
    BY <1>2 DEF Consistent, Works, Binds
  <2> QED
    BY <2>1, <2>2, Nobody DEF Consistent, Boots, Changes
<1> QED
  BY <1>1, <1>2

(* What a guest's or a failed boot shows.                                  *)
LEMMA Settled ==
  ASSUME NEW b, NEW s, NEW v, NEW r, NEW w, NEW agreed,
         Consistent("booting", b, s, v, r, w, agreed), NEW z, z.records = s.records
  PROVE  /\ b = None /\ z.me = None /\ ~z.consent
              => Consistent("ready", b, z, z, NoRequest, w, agreed)
         /\ r.kind = "boot" /\ z.me = s.me => Consistent("failed", b, z, z, NoRequest, w, agreed)
BY Nobody DEF Consistent, Shows, Keeps, Boots, Changes, Works

-----------------------------------------------------------------------------
(* REQUESTS.                                                               *)

(* A request carries the header and the cookie of the moment.              *)
LEMMA Requested ==
  ASSUME TypeOK, NEW t \in Tabs, NEW kind \in Kinds, NEW u \in Users \cup {None},
         NEW portal \in {"customer", "staff"}
  PROVE  LET r == Request(t, kind, u, portal) IN
         /\ r \in RequestType
         /\ r.kind = kind /\ r.phase = "sent" /\ r.user = u /\ r.portal = portal
         /\ r.header \in Users \cup {Anonymous}
         /\ binding[t] = None => r.header = Anonymous
         /\ binding[t] # None => r.header = binding[t] /\ binding[t] \in Users
<1>0. PICK h : h = IF binding[t] = None THEN Anonymous ELSE binding[t]
  OBVIOUS
<1>1. Request(t, kind, u, portal) =
        [kind |-> kind, phase |-> "sent", header |-> h, session |-> cookie, user |-> u,
         portal |-> portal, code |-> "NONE", setCookie |-> None]
  <2>1. Request(t, kind, u, portal) =
          [NoRequest EXCEPT !.kind = kind, !.phase = "sent", !.user = u,
             !.portal = portal, !.session = cookie, !.header = h]
    BY <1>0, Zenon DEF Request
  <2> QED
    BY <2>1 DEF NoRequest
<1>2. binding[t] \in Users \cup {None} /\ cookie \in Sessions \cup {None}
  BY DEF TypeOK
<1>3. h \in Users \cup {Anonymous}
  BY <1>0, <1>2
<1> QED
  BY <1>0, <1>1, <1>2, <1>3, Nobody DEF RequestType, Phases, Codes

LEMMA BootRequested ==
  ASSUME TypeOK, NEW t \in Tabs
  PROVE  /\ BootRequest(t) \in RequestType
         /\ BootRequest(t).kind = "boot" /\ BootRequest(t).phase = "sent"
         /\ BootRequest(t).header = binding[t] /\ binding[t] \in Users \cup {None}
<1>1. PICK m \in Users \cup {Anonymous} :
        Request(t, "boot", None, "customer") =
        [kind |-> "boot", phase |-> "sent", header |-> m, session |-> cookie, user |-> None,
         portal |-> "customer", code |-> "NONE", setCookie |-> None]
  <2>1. PICK m : m = IF binding[t] = None THEN Anonymous ELSE binding[t]
    OBVIOUS
  <2>2. Request(t, "boot", None, "customer") =
          [NoRequest EXCEPT !.kind = "boot", !.phase = "sent", !.user = None,
             !.portal = "customer", !.session = cookie, !.header = m]
    BY <2>1, Zenon DEF Request
  <2>3. m \in Users \cup {Anonymous}
    BY <2>1 DEF TypeOK
  <2> QED
    BY <2>2, <2>3 DEF NoRequest
<1>2. BootRequest(t) =
        [kind |-> "boot", phase |-> "sent", header |-> binding[t], session |-> cookie, user |-> None,
         portal |-> "customer", code |-> "NONE", setCookie |-> None]
  BY <1>1 DEF BootRequest
<1>3. binding[t] \in Users \cup {None} /\ cookie \in Sessions \cup {None}
  BY DEF TypeOK
<1> QED
  BY <1>2, <1>3 DEF RequestType, Phases, Codes, Kinds

(* The same request with another header, or another cookie.                *)
LEMMA Amended ==
  ASSUME NEW r \in RequestType, NEW h \in Users \cup {Anonymous, None},
         NEW s \in Sessions \cup {None}
  PROVE  LET a == [r EXCEPT !.header = h]
             q == [r EXCEPT !.session = s]
         IN  /\ a \in RequestType /\ a.kind = r.kind /\ a.phase = r.phase
             /\ a.user = r.user /\ a.header = h
             /\ q \in RequestType /\ q.kind = r.kind /\ q.phase = r.phase
             /\ q.user = r.user /\ q.header = r.header
BY DEF RequestType

(* An answer keeps the request, and tells a user only with OK.             *)
LEMMA Answering ==
  ASSUME NEW r \in RequestType, NEW code \in Codes, NEW u, code = "OK" => u \in Users \cup {None}
  PROVE  LET a == answered(r, code, u) IN
         /\ a \in RequestType
         /\ a.kind = r.kind /\ a.header = r.header /\ a.phase = "answered" /\ a.code = code
         /\ a.user = IF code = "OK" THEN u ELSE r.user
         /\ \A s \in Sessions \cup {None} :
              LET c == [a EXCEPT !.setCookie = s] IN
              /\ c \in RequestType
              /\ c.kind = r.kind /\ c.header = r.header /\ c.phase = "answered" /\ c.code = code
              /\ c.user = IF code = "OK" THEN u ELSE r.user
<1>1. PICK v : v = IF code = "OK" THEN u ELSE r.user
  OBVIOUS
<1>2. answered(r, code, u) =
        [kind |-> r.kind, phase |-> "answered", header |-> r.header, session |-> r.session,
         user |-> v, portal |-> r.portal, code |-> code, setCookie |-> r.setCookie]
  <2>1. answered(r, code, u) = [r EXCEPT !.phase = "answered", !.code = code, !.user = v]
    BY <1>1, Zenon DEF answered
  <2> QED
    BY <2>1 DEF RequestType
<1>3. v \in Users \cup {None}
  BY <1>1 DEF RequestType
<1>4. \A s \in Sessions \cup {None} :
        [answered(r, code, u) EXCEPT !.setCookie = s] =
        [kind |-> r.kind, phase |-> "answered", header |-> r.header, session |-> r.session,
         user |-> v, portal |-> r.portal, code |-> code, setCookie |-> s]
  BY <1>2
<1> QED
  BY <1>1, <1>2, <1>3, <1>4 DEF RequestType, Phases

(* The guard lets a request through for the user of its header.            *)
LEMMA Guarding ==
  ASSUME TypeOK, NEW r \in RequestType
  PROVE  /\ canActivate(r) \in Codes /\ sessionChecks(r) \in Codes
         /\ sessionUser(r) \in Users \cup {None}
         /\ canActivate(r) = "OK" => /\ sessionUser(r) \in Users
                                     /\ r.header \in {None, sessionUser(r)}
         /\ canActivate(r) = "UNAUTHENTICATED" => r.header \notin Users
                                                  /\ r.header # Anonymous
         /\ sessionChecks(r) = "OK" /\ r.header \in Users => sessionUser(r) = r.header
         /\ sessionChecks(r) = "OK" /\ r.header = Anonymous => sessionUser(r) = None
<1>1. sessionUser(r) \in Users \cup {None}
  BY DEF sessionUser, TypeOK
<1> QED
  BY <1>1, Nobody DEF canActivate, sessionChecks, identityMatches, Codes

-----------------------------------------------------------------------------
(* WHAT A TAB KEEPS.                                                       *)

TabTypes ==
  /\ page \in [Tabs -> Pages] /\ binding \in [Tabs -> Users \cup {None}]
  /\ store \in [Tabs -> StoreType] /\ saved \in [Tabs -> StoreType]

(* Only tab t shows, binds or keeps anything else.                         *)
OthersKeep(t) ==
  \A d \in Tabs \ {t} :
    page'[d] = page[d] /\ binding'[d] = binding[d] /\ store'[d] = store[d] /\ saved'[d] = saved[d]

(* Whatever tab t asks for meanwhile, its values stay consistent.          *)
StaysConsistent(t) ==
  \A r, w, agreed :
    Consistent(page[t], binding[t], store[t], saved[t], r, w, agreed)
      => Consistent(page'[t], binding'[t], store'[t], saved'[t], r, w, agreed)

LEMMA Types == TypeOK => TabTypes /\ Empty \in StoreType /\ "leaving" \in Pages /\ None \in Users \cup {None}
BY Nobody DEF TypeOK, TabTypes, Pages

LEMMA Untouched ==
  ASSUME TypeOK, UNCHANGED tab
  PROVE  TabTypes' /\ \A t \in Tabs : OthersKeep(t) /\ StaysConsistent(t)
BY Types DEF tab, TabTypes, OthersKeep, StaysConsistent

LEMMA Transition ==
  ASSUME TypeOK, NEW t \in Tabs, transition(t)
  PROVE  TabTypes' /\ OthersKeep(t) /\ StaysConsistent(t)
<1>1. CASE Leaving(t)
  <2>1. UNCHANGED tab
    BY <1>1 DEF transition
  <2> QED
    BY <2>1, Untouched
<1>2. CASE ~Leaving(t)
  <2>1. /\ page' = [page EXCEPT ![t] = "leaving"] /\ binding' = [binding EXCEPT ![t] = None]
        /\ saved' = [saved EXCEPT ![t] = Empty] /\ store' = store
    BY <1>2 DEF transition
  <2>2. /\ page'[t] = "leaving" /\ binding'[t] = None /\ saved'[t] = Empty /\ store'[t] = store[t]
    BY <2>1, Types DEF TabTypes
  <2>3. TabTypes' /\ OthersKeep(t)
    BY <2>1, Types DEF TabTypes, OthersKeep
  <2>4. StaysConsistent(t)
    BY <2>2, Forgotten DEF StaysConsistent
  <2> QED
    BY <2>3, <2>4
<1> QED
  BY <1>1, <1>2

(* A set() writes the document, and the storage unless it is leaving.      *)
LEMMA Setting ==
  ASSUME TypeOK, NEW t \in Tabs, NEW z \in StoreType, Set(t, z)
  PROVE  /\ store' \in [Tabs -> StoreType] /\ saved' \in [Tabs -> StoreType]
         /\ store'[t] = z /\ saved'[t] = IF Leaving(t) THEN saved[t] ELSE z
         /\ \A d \in Tabs \ {t} : store'[d] = store[d] /\ saved'[d] = saved[d]
BY Types DEF TabTypes, Set, persist

(* Notifications are of users and of no one.                               *)
LEMMA Announcing ==
  ASSUME TypeOK, NEW u \in Users \cup {None}
  PROVE  announced(u) \in [Tabs -> Seq(Users \cup {None})]
<1>1. \A t \in Tabs : inbox[t] \in Seq(Users \cup {None})
                      /\ Append(inbox[t], u) \in Seq(Users \cup {None})
  BY AppendProperties DEF TypeOK
<1> QED
  BY <1>1 DEF announced

(* The profile of a person joins what else the document shows.             *)
LEMMA Profile ==
  ASSUME NEW u \in Users, NEW s \in StoreType
  PROVE  LET z == profileOf(u, s) IN
         z \in StoreType /\ z.me = u /\ z.records = s.records /\ (z.consent => u \in accepted)
<1>1. s.records \in Users \cup {None} /\ s.journey \in BOOLEAN
  BY DEF StoreType
<1>2. CASE u \in accepted
  <2>1. (u \in accepted) = TRUE
    BY <1>2, Zenon
  <2>2. profileOf(u, s) = [s EXCEPT !.me = u, !.consent = TRUE]
    BY <2>1, Zenon DEF profileOf
  <2>3. profileOf(u, s) = [me |-> u, records |-> s.records, consent |-> TRUE, journey |-> s.journey]
    BY <2>2 DEF StoreType
  <2> QED
    BY <1>1, <1>2, <2>3 DEF StoreType
<1>3. CASE u \notin accepted
  <2>1. (u \in accepted) = FALSE
    BY <1>3, SMT
  <2>2. profileOf(u, s) = [s EXCEPT !.me = u, !.consent = FALSE]
    BY <2>1, Zenon DEF profileOf
  <2>3. profileOf(u, s) = [me |-> u, records |-> s.records, consent |-> FALSE, journey |-> s.journey]
    BY <2>2 DEF StoreType
  <2> QED
    BY <1>1, <2>3 DEF StoreType
<1> QED
  BY <1>2, <1>3

(* adopt, by the tab that asked.                                           *)
LEMMA Adopting ==
  ASSUME TypeOK, NEW t \in Tabs, TabOK(t), page[t] \in {"ready", "leaving"}, NEW u,
         Binds(binding[t], call[t], work[t], u), adopt(t, u)
  PROVE  /\ TabTypes' /\ OthersKeep(t) /\ inbox' \in [Tabs -> Seq(Users \cup {None})]
         /\ Consistent(page'[t], binding'[t], store'[t], saved'[t], NoRequest, work[t], accepted)
<1>1. u \in Users /\ binding[t] \in {None, u}
  BY DEF Binds
<1>2. binding' = [binding EXCEPT ![t] = u] /\ inbox' = announced(u)
  BY <1>1 DEF adopt
<1>3. inbox' \in [Tabs -> Seq(Users \cup {None})]
  BY <1>1, <1>2, Announcing
<1>4. binding' \in [Tabs -> Users \cup {None}] /\ binding'[t] = u
      /\ \A d \in Tabs \ {t} : binding'[d] = binding[d]
  BY <1>1, <1>2, Types DEF TabTypes
<1>5. CASE Leaving(t)
  <2>1. page' = page /\ store' = store /\ saved' = saved
    BY <1>1, <1>5 DEF adopt
  <2>2. Consistent(page[t], u, store[t], saved[t], NoRequest, work[t], accepted)
    BY <1>5, Adopted DEF TabOK, Leaving
  <2> QED
    BY <1>3, <1>4, <2>1, <2>2, Types DEF TabTypes, OthersKeep
<1>6. CASE ~Leaving(t)
  <2> DEFINE z == profileOf(u, store[t])
  <2>1. page' = [page EXCEPT ![t] = "ready"] /\ Set(t, z)
    BY <1>1, <1>6 DEF adopt
  <2>2. z \in StoreType /\ z.me = u /\ z.records = store[t].records /\ (z.consent => u \in accepted)
    BY <1>1, Profile, Types DEF TabTypes
  <2> HIDE DEF z
  <2>3. /\ store' \in [Tabs -> StoreType] /\ saved' \in [Tabs -> StoreType]
        /\ store'[t] = z /\ saved'[t] = z
        /\ \A d \in Tabs \ {t} : store'[d] = store[d] /\ saved'[d] = saved[d]
    BY <1>6, <2>1, <2>2, Setting
  <2>4. page' \in [Tabs -> Pages] /\ page'[t] = "ready" /\ \A d \in Tabs \ {t} : page'[d] = page[d]
    BY <2>1, Types DEF TabTypes, Pages
  <2>5. Consistent("ready", u, z, z, NoRequest, work[t], accepted)
    BY <1>6, <2>2, Adopted DEF TabOK, Leaving
  <2> QED
    BY <1>3, <1>4, <2>3, <2>4, <2>5 DEF TabTypes, OthersKeep
<1> QED
  BY <1>5, <1>6

-----------------------------------------------------------------------------
(* THE STEPS.                                                              *)

ServerTypes ==
  /\ owner \in [Sessions -> Users \cup {None}]
  /\ alive \subseteq Sessions /\ accepted \subseteq Users /\ closed \subseteq Users
  /\ writes \subseteq Users \X Users /\ cookie \in Sessions \cup {None}

MoreTypes ==
  /\ stale \in [Tabs -> BOOLEAN] /\ retried \in [Tabs -> BOOLEAN]
  /\ inbox \in [Tabs -> Seq(Users \cup {None})]
  /\ acts \in 0..MaxActs /\ mishaps \in 0..MaxMishaps

CallTypes == call \in [Tabs -> RequestType] /\ work \in [Tabs -> RequestType]

(* Only tab t asks for anything else.                                      *)
OthersAsk(t) == \A d \in Tabs \ {t} : call'[d] = call[d] /\ work'[d] = work[d]

LEMMA Parts ==
  /\ TypeOK => ServerTypes /\ MoreTypes /\ CallTypes
  /\ TypeOK /\ UNCHANGED <<server, cookie>> => ServerTypes'
  /\ MoreTypes /\ UNCHANGED <<booting, inbox, bounds>> => MoreTypes'
BY DEF TypeOK, ServerTypes, MoreTypes, CallTypes, server, booting, bounds

(* A step of one tab keeps the invariant if it keeps that tab's part.      *)
LEMMA Elsewhere ==
  ASSUME IInv, NEW t \in Tabs, TabTypes', ServerTypes', MoreTypes', CallTypes',
         OthersKeep(t), OthersAsk(t), accepted \subseteq accepted', NothingUnderAnother',
         Consistent(page'[t], binding'[t], store'[t], saved'[t], call'[t], work'[t], accepted')
  PROVE  IInv'
<1>1. \A d \in Tabs : TabOK(d)'
  <2> SUFFICES ASSUME NEW d \in Tabs
               PROVE  Consistent(page'[d], binding'[d], store'[d], saved'[d], call'[d], work'[d],
                                 accepted')
    BY DEF TabOK
  <2>1. CASE d = t
    BY <2>1
  <2>2. CASE d # t
    <3>1. Consistent(page[d], binding[d], store[d], saved[d], call[d], work[d], accepted')
      <4>1. Consistent(page[d], binding[d], store[d], saved[d], call[d], work[d], accepted)
        BY DEF IInv, TabOK
      <4> QED
        BY <4>1, Grown
    <3>2. /\ page'[d] = page[d] /\ binding'[d] = binding[d]
          /\ store'[d] = store[d] /\ saved'[d] = saved[d]
          /\ call'[d] = call[d] /\ work'[d] = work[d]
      BY <2>2 DEF OthersKeep, OthersAsk
    <3> QED
      BY <3>1, <3>2
  <2> QED
    BY <2>1, <2>2
<1>2. \A d \in Tabs : page'[d] = "leaving" => saved'[d] = Empty
  BY <1>1 DEF TabOK, Consistent, Keeps
<1>3. TypeOK'
  BY <1>2 DEF TypeOK, TabTypes, ServerTypes, MoreTypes, CallTypes, Leaving
<1> QED
  BY <1>1, <1>3 DEF IInv

(* A tab asks for r, or is told r.                                         *)
LEMMA Asks ==
  ASSUME TypeOK, NEW t \in Tabs, NEW r \in RequestType
  PROVE  /\ call' = [call EXCEPT ![t] = r] /\ work' = work
              => CallTypes' /\ OthersAsk(t) /\ call'[t] = r /\ work'[t] = work[t]
         /\ work' = [work EXCEPT ![t] = r] /\ call' = call
              => CallTypes' /\ OthersAsk(t) /\ work'[t] = r /\ call'[t] = call[t]
         /\ call' = call /\ work' = work
              => CallTypes' /\ OthersAsk(t) /\ work'[t] = work[t] /\ call'[t] = call[t]
BY DEF TypeOK, CallTypes, OthersAsk

(* A request the tab alone makes, and answers that change nothing else.    *)
LEMMA CallOnly ==
  ASSUME IInv, NEW t \in Tabs, NEW r \in RequestType,
         call' = [call EXCEPT ![t] = r],
         UNCHANGED <<server, cookie, tab, inbox, work>>, MoreTypes',
         Consistent(page[t], binding[t], store[t], saved[t], r, work[t], accepted)
  PROVE  IInv'
<1>1. TypeOK /\ ServerTypes' /\ NothingUnderAnother' /\ accepted' = accepted
  BY Parts DEF IInv, NothingUnderAnother, server
<1>2. work' = work /\ CallTypes' /\ OthersAsk(t) /\ call'[t] = r /\ work'[t] = work[t]
  BY <1>1, Asks
<1>3. TabTypes' /\ OthersKeep(t)
  BY <1>1, Untouched
<1>4. page' = page /\ binding' = binding /\ store' = store /\ saved' = saved
  BY DEF tab
<1> QED
  BY <1>1, <1>2, <1>3, <1>4, Elsewhere

LEMMA WorkOnly ==
  ASSUME IInv, NEW t \in Tabs, NEW w \in RequestType,
         work' = [work EXCEPT ![t] = w],
         UNCHANGED <<server, cookie, tab, inbox, call>>, MoreTypes',
         Consistent(page[t], binding[t], store[t], saved[t], call[t], w, accepted)
  PROVE  IInv'
<1>1. TypeOK /\ ServerTypes' /\ NothingUnderAnother' /\ accepted' = accepted
  BY Parts DEF IInv, NothingUnderAnother, server
<1>2. call' = call /\ CallTypes' /\ OthersAsk(t) /\ work'[t] = w /\ call'[t] = call[t]
  BY <1>1, Asks
<1>3. TabTypes' /\ OthersKeep(t)
  BY <1>1, Untouched
<1>4. page' = page /\ binding' = binding /\ store' = store /\ saved' = saved
  BY DEF tab
<1> QED
  BY <1>1, <1>2, <1>3, <1>4, Elsewhere

(* What a user or the browser may do counts, up to its bound.              *)
LEMMA Counts ==
  ASSUME TypeOK, act \/ mishap \/ UNCHANGED bounds
  PROVE  acts' \in 0..MaxActs /\ mishaps' \in 0..MaxMishaps
<1>1. \A n, m \in Nat : n \in 0..m /\ n < m => n + 1 \in 0..m
  OBVIOUS
<1>2. CASE act
  BY <1>1, <1>2, Nobody DEF act, TypeOK
<1>3. CASE mishap
  BY <1>1, <1>3, Nobody DEF mishap, TypeOK
<1>4. CASE UNCHANGED bounds
  BY <1>4 DEF bounds, TypeOK
<1> QED
  BY <1>2, <1>3, <1>4

LEMMA Counting ==
  ASSUME TypeOK, UNCHANGED <<booting, inbox>>, act \/ mishap \/ UNCHANGED bounds
  PROVE  MoreTypes'
BY Counts, Parts DEF MoreTypes, booting

-----------------------------------------------------------------------------
(* What the user does.                                                     *)

LEMMA Starting ==
  ASSUME IInv, NEW t \in Tabs, idle(t), act,
         NEW kind \in Kinds, NEW u \in Users, NEW portal \in {"customer", "staff"},
         start(t, kind, u, portal),
         \/ kind = "signIn"
         \/ kind = "register" /\ binding[t] = None
         \/ kind \in {"signOut", "close"} /\ u = store[t].me
  PROVE  IInv'
<1> DEFINE r == Request(t, kind, u, portal)
<1>1. TypeOK /\ Consistent(page[t], binding[t], store[t], saved[t], call[t], work[t], accepted)
  BY DEF IInv, TabOK
<1>2. /\ r \in RequestType /\ r.kind = kind /\ r.phase = "sent" /\ r.user = u
      /\ r.header \in Users \cup {Anonymous}
      /\ binding[t] # None => r.header = binding[t]
  BY <1>1, Requested
<1>3. call' = [call EXCEPT ![t] = r] /\ UNCHANGED <<server, cookie, tab, inbox, work, booting>>
  BY DEF start
<1> HIDE DEF r
<1>4. Consistent(page[t], binding[t], store[t], saved[t], r, work[t], accepted)
  <2>1. page[t] = "ready" /\ store[t].me = binding[t]
    BY <1>1 DEF idle, Consistent, Shows
  <2>2. kind = "register" => work[t] = NoRequest
    BY <1>1, <2>1, Nobody DEF Consistent, Works
  <2>3. kind \in {"signOut", "close"} => r.header = u
    BY <1>2, <2>1, Nobody
  <2>4. Boots(page[t], binding[t], r, work[t]) /\ Changes(page[t], binding[t], r, work[t])
    BY <1>2, <2>1, <2>2, <2>3 DEF Boots, Changes
  <2> QED
    BY <1>1, <2>4 DEF Consistent
<1>5. MoreTypes'
  BY <1>1, <1>3, Counting
<1> QED
  BY <1>2, <1>3, <1>4, <1>5, CallOnly

LEMMA SignInStep ==
  ASSUME IInv, NEW t \in Tabs, NEW u \in Users, NEW p \in {"customer", "staff"},
         SignIn(t, u, p) \/ Register(t, u)
  PROVE  IInv'
<1>1. CASE SignIn(t, u, p)
  BY <1>1, Starting DEF SignIn, Kinds
<1>2. CASE Register(t, u)
  BY <1>2, Starting DEF Register, Kinds
<1> QED
  BY <1>1, <1>2

LEMMA SignOutStep ==
  ASSUME IInv, NEW t \in Tabs, NEW k \in {"signOut", "close"}, SignOut(t, k)
  PROVE  IInv'
<1>1. store[t].me \in Users
  BY DEF SignOut, IInv, TypeOK, StoreType
<1> QED
  BY <1>1, Starting DEF SignOut, Kinds

LEMMA BeginStep ==
  ASSUME IInv, NEW t \in Tabs, NEW k \in {"load", "consent", "write"}, Begin(t, k)
  PROVE  IInv'
<1> DEFINE w == [NoRequest EXCEPT !.kind = k, !.user = store[t].me]
<1>1. TypeOK /\ Consistent(page[t], binding[t], store[t], saved[t], call[t], work[t], accepted)
  BY DEF IInv, TabOK
<1>2. store[t].me \in Users /\ page[t] = "ready" /\ store[t].me = binding[t]
  BY <1>1 DEF Begin, TypeOK, StoreType, Consistent, Shows
<1>3. w \in RequestType /\ w.kind = k /\ w.phase = "idle" /\ w.user = binding[t]
  <2>1. \A r \in RequestType : \A m \in Users :
          LET x == [r EXCEPT !.kind = k, !.user = m] IN
          x \in RequestType /\ x.kind = k /\ x.phase = r.phase /\ x.user = m
    BY DEF RequestType, Kinds
  <2>2. NoRequest \in RequestType /\ NoRequest.phase = "idle"
    BY Nobody
  <2> QED
    BY <1>2, <2>1, <2>2, Zenon
<1>4. /\ work' = [work EXCEPT ![t] = w]
      /\ UNCHANGED <<server, cookie, tab, inbox, call, booting>> /\ act
  BY DEF Begin
<1> HIDE DEF w
<1>5. Consistent(page[t], binding[t], store[t], saved[t], call[t], w, accepted)
  BY <1>1, <1>2, <1>3, Nobody DEF Consistent, Boots, Changes, Works
<1>6. MoreTypes'
  BY <1>1, <1>4, Counting
<1> QED
  BY <1>3, <1>4, <1>5, <1>6, WorkOnly

(* A document that stays sets what it shows, for the person it shows.      *)
LEMMA Showing ==
  ASSUME IInv, NEW t \in Tabs, NEW z \in StoreType, Set(t, z), UNCHANGED <<page, binding>>,
         UNCHANGED <<server, cookie, inbox>>, CallTypes', MoreTypes', OthersAsk(t),
         ~Leaving(t) => Consistent(page[t], binding[t], z, z, call'[t], work'[t], accepted),
         Leaving(t) => Consistent(page[t], binding[t], z, saved[t], call'[t], work'[t], accepted)
  PROVE  IInv'
<1>1. TypeOK /\ ServerTypes' /\ NothingUnderAnother' /\ accepted' = accepted
  BY Parts DEF IInv, NothingUnderAnother, server
<1>2. /\ store' \in [Tabs -> StoreType] /\ saved' \in [Tabs -> StoreType]
      /\ store'[t] = z /\ saved'[t] = IF Leaving(t) THEN saved[t] ELSE z
      /\ \A d \in Tabs \ {t} : store'[d] = store[d] /\ saved'[d] = saved[d]
  BY <1>1, Setting
<1>3. TabTypes' /\ OthersKeep(t)
  BY <1>1, <1>2, Types DEF TabTypes, OthersKeep
<1>4. Consistent(page'[t], binding'[t], store'[t], saved'[t], call'[t], work'[t], accepted')
  BY <1>1, <1>2
<1> QED
  BY <1>1, <1>3, <1>4, Elsewhere

LEMMA StartJourneyStep ==
  ASSUME IInv, NEW t \in Tabs, StartJourney(t)
  PROVE  IInv'
<1> DEFINE z == [store[t] EXCEPT !.journey = TRUE]
<1>1. TypeOK /\ Consistent(page[t], binding[t], store[t], saved[t], call[t], work[t], accepted)
  BY DEF IInv, TabOK
<1>2. z \in StoreType /\ z.me = store[t].me /\ z.records = store[t].records
      /\ z.consent = store[t].consent
  BY <1>1, Types DEF TabTypes, StoreType
<1>3. Set(t, z) /\ page[t] = "ready" /\ act
  BY DEF StartJourney
<1> HIDE DEF z
<1>4. UNCHANGED <<server, cookie, page, binding, booting, inbox, call, work>>
  BY DEF StartJourney
<1>5. CallTypes' /\ OthersAsk(t) /\ call' = call /\ work' = work /\ MoreTypes'
  BY <1>1, <1>3, <1>4, Asks, Counting, Nobody
<1>6. Consistent(page[t], binding[t], z, z, call'[t], work'[t], accepted)
  BY <1>1, <1>2, <1>3, <1>5 DEF Consistent, Shows, Keeps
<1>7. ~Leaving(t)
  BY <1>3 DEF Leaving
<1> QED
  BY <1>2, <1>3, <1>4, <1>5, <1>6, <1>7, Showing

-----------------------------------------------------------------------------
(* What the browser does.                                                  *)

LEMMA NewDocumentStep ==
  ASSUME IInv, NEW t \in Tabs, Reload(t) \/ Unload(t)
  PROVE  IInv'
<1>1. TypeOK /\ Consistent(page[t], binding[t], store[t], saved[t], call[t], work[t], accepted)
  BY DEF IInv, TabOK
<1>2. newDocument(t) /\ (mishap \/ UNCHANGED bounds)
  BY DEF Reload, Unload
<1>3. cookie' \in Sessions \cup {None}
  <2>1. cookie \in Sessions \cup {None} /\ call[t].setCookie \in Sessions \cup {None}
    BY <1>1 DEF TypeOK, RequestType
  <2> QED
    BY <1>2, <2>1, Zenon DEF newDocument
<1> DEFINE r == [BootRequest(t) EXCEPT !.session = cookie']
<1>4. /\ call' = [call EXCEPT ![t] = r] /\ work' = [work EXCEPT ![t] = NoRequest]
      /\ page' = [page EXCEPT ![t] = "booting"] /\ store' = [store EXCEPT ![t] = saved[t]]
      /\ stale' = [stale EXCEPT ![t] = FALSE] /\ retried' = [retried EXCEPT ![t] = FALSE]
      /\ inbox' = [inbox EXCEPT ![t] = <<>>]
      /\ UNCHANGED <<server, binding, saved>>
  BY <1>2 DEF newDocument
<1>5. /\ binding[t] \in Users \cup {None}
      /\ r \in RequestType /\ r.kind = "boot" /\ r.phase = "sent" /\ r.header = binding[t]
  <2>1. /\ binding[t] \in Users \cup {None}
        /\ BootRequest(t) \in RequestType /\ BootRequest(t).kind = "boot"
        /\ BootRequest(t).phase = "sent" /\ BootRequest(t).header = binding[t]
    BY <1>1, BootRequested
  <2> QED
    BY <1>3, <2>1, Amended
<1> HIDE DEF r
<1>6. TabTypes' /\ OthersKeep(t)
      /\ page'[t] = "booting" /\ binding'[t] = binding[t]
      /\ store'[t] = saved[t] /\ saved'[t] = saved[t]
  BY <1>1, <1>4, Types DEF TabTypes, OthersKeep, Pages
<1>7. CallTypes' /\ OthersAsk(t) /\ call'[t] = r /\ work'[t] = NoRequest
  BY <1>1, <1>4, <1>5, Nobody DEF TypeOK, CallTypes, OthersAsk
<1>8. ServerTypes' /\ NothingUnderAnother' /\ accepted' = accepted
  BY <1>1, <1>3, <1>4 DEF IInv, NothingUnderAnother, server, TypeOK, ServerTypes
<1>9. MoreTypes'
  <2>1. acts' \in 0..MaxActs /\ mishaps' \in 0..MaxMishaps
    BY <1>1, <1>2, Counts
  <2>2. <<>> \in Seq(Users \cup {None})
    OBVIOUS
  <2> QED
    BY <1>1, <1>4, <2>1, <2>2 DEF TypeOK, MoreTypes
<1>10. Consistent("booting", binding[t], saved[t], saved[t], r, NoRequest, accepted)
  BY <1>1, <1>5, Opened
<1> QED
  BY <1>6, <1>7, <1>8, <1>9, <1>10, Elsewhere

LEMMA AskAgainStep ==
  ASSUME IInv, NEW t \in Tabs, TryAgain(t) \/ Restore(t)
  PROVE  IInv'
<1> DEFINE r == BootRequest(t)
<1>1. TypeOK /\ Consistent(page[t], binding[t], store[t], saved[t], call[t], work[t], accepted)
  BY DEF IInv, TabOK
<1>2. startBoot(t) /\ (act \/ UNCHANGED bounds) /\ page[t] \in {"failed", "frozen"}
      /\ UNCHANGED <<server, cookie, binding, store, saved, stale, inbox, work>>
  BY DEF TryAgain, Restore
<1>3. page' = [page EXCEPT ![t] = "booting"] /\ call' = [call EXCEPT ![t] = r]
      /\ retried' = [retried EXCEPT ![t] = FALSE]
  BY <1>2 DEF startBoot
<1>4. /\ binding[t] \in Users \cup {None}
      /\ r \in RequestType /\ r.kind = "boot" /\ r.phase = "sent" /\ r.header = binding[t]
  BY <1>1, BootRequested
<1> HIDE DEF r
<1>5. TabTypes' /\ OthersKeep(t)
      /\ page'[t] = "booting" /\ binding'[t] = binding[t]
      /\ store'[t] = store[t] /\ saved'[t] = saved[t]
  BY <1>1, <1>2, <1>3, Types DEF TabTypes, OthersKeep, Pages
<1>6. CallTypes' /\ OthersAsk(t) /\ call'[t] = r /\ work'[t] = work[t]
  BY <1>1, <1>2, <1>3, <1>4, Asks
<1>7. ServerTypes' /\ NothingUnderAnother' /\ accepted' = accepted
  BY <1>1, <1>2, Parts DEF IInv, NothingUnderAnother, server
<1>8. MoreTypes'
  <2>2. acts' \in 0..MaxActs /\ mishaps' \in 0..MaxMishaps
    BY <1>1, <1>2, Counts
  <2> QED
    BY <1>1, <1>2, <1>3, <2>2 DEF TypeOK, MoreTypes
<1>9. Consistent("booting", binding[t], store[t], saved[t], r, NoRequest, accepted)
      /\ work[t] = NoRequest
  BY <1>1, <1>2, <1>4, Rebooted
<1> QED
  BY <1>5, <1>6, <1>7, <1>8, <1>9, Elsewhere

LEMMA FreezeStep ==
  ASSUME IInv, NEW t \in Tabs, Freeze(t)
  PROVE  IInv'
<1>1. TypeOK /\ Consistent(page[t], binding[t], store[t], saved[t], call[t], work[t], accepted)
  BY DEF IInv, TabOK
<1>2. /\ page[t] = "ready" /\ call[t] = NoRequest /\ work[t] = NoRequest /\ mishap
      /\ page' = [page EXCEPT ![t] = "frozen"] /\ inbox' = [inbox EXCEPT ![t] = <<>>]
      /\ UNCHANGED <<server, cookie, binding, store, saved, booting, call, work>>
  BY DEF Freeze, idle
<1>3. TabTypes' /\ OthersKeep(t)
      /\ page'[t] = "frozen" /\ binding'[t] = binding[t]
      /\ store'[t] = store[t] /\ saved'[t] = saved[t]
  BY <1>1, <1>2, Types DEF TabTypes, OthersKeep, Pages
<1>4. CallTypes' /\ OthersAsk(t) /\ call' = call /\ work' = work
  BY <1>1, <1>2, Asks, Nobody
<1>5. ServerTypes' /\ NothingUnderAnother' /\ accepted' = accepted
  BY <1>1, <1>2, Parts DEF IInv, NothingUnderAnother, server
<1>6. MoreTypes'
  <2>2. acts' \in 0..MaxActs /\ mishaps' \in 0..MaxMishaps
    BY <1>1, <1>2, Counts
  <2>3. <<>> \in Seq(Users \cup {None})
    OBVIOUS
  <2> QED
    BY <1>1, <1>2, <2>2, <2>3 DEF TypeOK, MoreTypes, booting
<1>7. Consistent("frozen", binding[t], store[t], saved[t], NoRequest, NoRequest, accepted)
  BY <1>1, <1>2, Nobody DEF Consistent, Shows, Keeps, Boots, Changes, Works
<1> QED
  BY <1>2, <1>3, <1>4, <1>5, <1>6, <1>7, Elsewhere

(* An answer that brings nothing.                                          *)
LEMMA Lost ==
  ASSUME NEW p, NEW b, NEW s, NEW v, NEW r, NEW w, NEW agreed,
         Consistent(p, b, s, v, r, w, agreed),
         NEW a, a.phase = "answered", a.code = "FAILED"
  PROVE  /\ r # NoRequest /\ a.kind = r.kind /\ a.header = r.header /\ a.user = r.user
              => Consistent(p, b, s, v, a, w, agreed)
         /\ w.phase # "idle" /\ a.kind = w.kind /\ a.header = w.header /\ a.user = w.user
              => Consistent(p, b, s, v, r, a, agreed)
BY Nobody DEF Consistent, Boots, Changes, Works

LEMMA LoseStep ==
  ASSUME IInv, NEW t \in Tabs, Lose(t)
  PROVE  IInv'
<1>1. TypeOK /\ Consistent(page[t], binding[t], store[t], saved[t], call[t], work[t], accepted)
  BY DEF IInv, TabOK
<1>2. call[t] \in RequestType /\ work[t] \in RequestType
  BY <1>1 DEF TypeOK
<1>3. MoreTypes'
  BY <1>1, Counting DEF Lose
<1>4. CASE call[t].phase # "idle" /\ call' = [call EXCEPT ![t] = answered(@, "FAILED", None)]
           /\ UNCHANGED work
  <2> DEFINE a == answered(call[t], "FAILED", None)
  <2>1. /\ a \in RequestType /\ a.kind = call[t].kind /\ a.header = call[t].header
        /\ a.phase = "answered" /\ a.code = "FAILED" /\ a.user = call[t].user
    BY <1>2, Answering DEF Codes
  <2>2. call' = [call EXCEPT ![t] = a]
    BY <1>4
  <2> HIDE DEF a
  <2>3. Consistent(page[t], binding[t], store[t], saved[t], a, work[t], accepted)
    BY <1>1, <1>4, <2>1, Lost, Nobody
  <2> QED
    BY <1>3, <1>4, <2>1, <2>2, <2>3, CallOnly DEF Lose
<1>5. CASE work[t].phase # "idle" /\ work' = [work EXCEPT ![t] = answered(@, "FAILED", None)]
           /\ UNCHANGED call
  <2> DEFINE a == answered(work[t], "FAILED", None)
  <2>1. /\ a \in RequestType /\ a.kind = work[t].kind /\ a.header = work[t].header
        /\ a.phase = "answered" /\ a.code = "FAILED" /\ a.user = work[t].user
    BY <1>2, Answering DEF Codes
  <2>2. work' = [work EXCEPT ![t] = a]
    BY <1>5
  <2> HIDE DEF a
  <2>3. Consistent(page[t], binding[t], store[t], saved[t], call[t], a, accepted)
    BY <1>1, <1>5, <2>1, Lost, Nobody
  <2> QED
    BY <1>3, <1>5, <2>1, <2>2, <2>3, WorkOnly DEF Lose
<1> QED
  BY <1>4, <1>5 DEF Lose

-----------------------------------------------------------------------------
(* What the server does.                                                   *)

LEMMA ServeMeStep ==
  ASSUME IInv, NEW t \in Tabs, ServeMe(t)
  PROVE  IInv'
<1> DEFINE r == call[t]
           code == canActivate(r)
           u == sessionUser(r)
           a == answered(r, code, u)
<1>1. TypeOK /\ Consistent(page[t], binding[t], store[t], saved[t], r, work[t], accepted)
  BY DEF IInv, TabOK
<1>2. r \in RequestType /\ r.header \in Users \cup {Anonymous, None}
  BY <1>1 DEF TypeOK, RequestType
<1>3. /\ code \in Codes /\ u \in Users \cup {None}
      /\ code = "OK" => u \in Users /\ r.header \in {None, u}
      /\ code = "UNAUTHENTICATED" => r.header = None
  BY <1>1, <1>2, Guarding
<1>4. /\ r.kind \in {"boot", "me"} /\ r.phase = "sent"
      /\ call' = [call EXCEPT ![t] = a]
      /\ UNCHANGED <<server, cookie, tab, booting, inbox, work, bounds>>
  BY DEF ServeMe
<1> HIDE DEF code, u
<1>5. /\ a \in RequestType /\ a.kind = r.kind /\ a.header = r.header
      /\ a.phase = "answered" /\ a.code = code /\ a.user = IF code = "OK" THEN u ELSE r.user
  BY <1>2, <1>3, Answering
<1> HIDE DEF r, a
<1>6. Consistent(page[t], binding[t], store[t], saved[t], a, work[t], accepted)
  BY <1>1, <1>3, <1>4, <1>5, Nobody DEF Consistent, Boots, Changes
<1>7. MoreTypes'
  BY <1>1, <1>4, Parts
<1> QED
  BY <1>4, <1>5, <1>6, <1>7, CallOnly

LEMMA ServeSignInStep ==
  ASSUME IInv, NEW t \in Tabs, ServeSignIn(t)
  PROVE  IInv'
<1> DEFINE r == call[t]
           s == CHOOSE x \in Sessions : owner[x] = None
<1>1. TypeOK /\ Consistent(page[t], binding[t], store[t], saved[t], r, work[t], accepted)
  BY DEF IInv, TabOK
<1>2. r \in RequestType /\ r.kind \in {"signIn", "register"}
      /\ UNCHANGED <<closed, writes, cookie, tab, booting, inbox, work, bounds>>
  BY <1>1 DEF ServeSignIn, TypeOK
<1>3. r.user \in Users
  BY <1>1, <1>2 DEF Consistent, Changes
<1>4. PICK a \in RequestType :
        /\ call' = [call EXCEPT ![t] = a] /\ a.kind = r.kind /\ a.header = r.header
        /\ a.phase = "answered" /\ a.user = r.user
        /\ ServerTypes' /\ accepted \subseteq accepted'
  <2>1. CASE /\ \E x \in Sessions : owner[x] = None
             /\ owner' = [owner EXCEPT ![s] = r.user]
             /\ alive' = alive \cup {s}
             /\ accepted' = accepted \cup (IF r.kind = "register" THEN {r.user} ELSE {})
             /\ call' = [call EXCEPT ![t] = [answered(r, "OK", r.user) EXCEPT !.setCookie = s]]
    <3>1. s \in Sessions
      BY <2>1
    <3> DEFINE a == [answered(r, "OK", r.user) EXCEPT !.setCookie = s]
    <3> HIDE DEF s
    <3>2. a \in RequestType /\ a.kind = r.kind /\ a.header = r.header
          /\ a.phase = "answered" /\ a.user = r.user
      BY <1>2, <1>3, <3>1, Answering DEF Codes
    <3>3. ServerTypes' /\ accepted \subseteq accepted'
      BY <1>1, <1>2, <1>3, <2>1, <3>1 DEF TypeOK, ServerTypes
    <3> QED
      BY <2>1, <3>2, <3>3
  <2>2. CASE /\ call' = [call EXCEPT ![t] = answered(r, "FAILED", None)]
             /\ UNCHANGED <<owner, alive, accepted>>
    <3> DEFINE a == answered(r, "FAILED", None)
    <3>1. a \in RequestType /\ a.kind = r.kind /\ a.header = r.header
          /\ a.phase = "answered" /\ a.user = r.user
      BY <1>2, Answering DEF Codes
    <3>2. ServerTypes' /\ accepted \subseteq accepted'
      BY <1>1, <1>2, <2>2 DEF TypeOK, ServerTypes
    <3> QED
      BY <2>2, <3>1, <3>2
  <2> QED
    BY <2>1, <2>2 DEF ServeSignIn
<1> HIDE DEF r
<1>5. Consistent(page[t], binding[t], store[t], saved[t], a, work[t], accepted')
  <2>1. Consistent(page[t], binding[t], store[t], saved[t], a, work[t], accepted)
    BY <1>1, <1>2, <1>3, <1>4, Nobody DEF Consistent, Boots, Changes
  <2> QED
    BY <1>4, <2>1, Grown
<1>6. CallTypes' /\ OthersAsk(t) /\ call'[t] = a /\ work'[t] = work[t]
  BY <1>1, <1>2, <1>4, Asks
<1>7. MoreTypes' /\ NothingUnderAnother'
  BY <1>1, <1>2, Parts DEF IInv, NothingUnderAnother
<1>8. TabTypes' /\ OthersKeep(t)
  BY <1>1, <1>2, Untouched
<1>9. page' = page /\ binding' = binding /\ store' = store /\ saved' = saved
  BY <1>2 DEF tab
<1> QED
  BY <1>4, <1>5, <1>6, <1>7, <1>8, <1>9, Elsewhere

LEMMA ServeSignOutStep ==
  ASSUME IInv, NEW t \in Tabs, ServeSignOut(t)
  PROVE  IInv'
<1> DEFINE r == call[t]
           u == sessionUser(r)
           code == IF r.kind = "close" THEN canActivate(r) ELSE sessionChecks(r)
           a == answered(r, code, r.user)
<1>1. TypeOK /\ Consistent(page[t], binding[t], store[t], saved[t], r, work[t], accepted)
  BY DEF IInv, TabOK
<1>2. r \in RequestType /\ r.kind \in {"signOut", "turnAway", "close"}
      /\ r.header \in Users \cup {Anonymous, None}
  BY <1>1 DEF ServeSignOut, TypeOK, RequestType
<1>3. /\ call' = [call EXCEPT ![t] = a]
      /\ UNCHANGED <<owner, accepted, cookie, tab, booting, inbox, work, bounds>>
      /\ code # "OK" => UNCHANGED <<alive, writes, closed>>
      /\ code = "OK" => /\ alive' \subseteq alive
                        /\ writes' = writes \cup (IF u = None THEN {} ELSE {<<r.user, u>>})
                        /\ closed' = closed \cup (IF r.kind = "close" THEN {u} ELSE {})
  BY DEF ServeSignOut
<1>4. r.user \in Users /\ r.header \in {Anonymous, r.user}
  BY <1>1, <1>2 DEF Consistent, Changes
<1>5. /\ code \in Codes /\ u \in Users \cup {None}
      /\ code = "OK" /\ u # None => r.user = u
      /\ code = "OK" /\ r.kind = "close" => u \in Users
  <2>1. u \in Users \cup {None} /\ canActivate(r) \in Codes /\ sessionChecks(r) \in Codes
    BY <1>1, <1>2, Guarding
  <2>2. CASE r.kind = "close"
    BY <1>1, <1>2, <1>4, <2>1, <2>2, Guarding, Nobody
  <2>3. CASE r.kind # "close"
    BY <1>1, <1>2, <1>4, <2>1, <2>3, Guarding, Nobody
  <2> QED
    BY <2>2, <2>3
<1> HIDE DEF code, u
<1>6. /\ a \in RequestType /\ a.kind = r.kind /\ a.header = r.header
      /\ a.phase = "answered" /\ a.user = r.user
  <2>1. code = "OK" => r.user \in Users \cup {None}
    BY <1>4
  <2> QED
    BY <1>2, <1>5, <2>1, Answering
<1> HIDE DEF r, a
<1>7. Consistent(page[t], binding[t], store[t], saved[t], a, work[t], accepted')
  BY <1>1, <1>2, <1>3, <1>4, <1>6, Nobody DEF Consistent, Boots, Changes
<1>8. CallTypes' /\ OthersAsk(t) /\ call'[t] = a /\ work'[t] = work[t]
  BY <1>1, <1>3, <1>6, Asks
<1>9. ServerTypes' /\ NothingUnderAnother'
  BY <1>1, <1>3, <1>4, <1>5 DEF IInv, TypeOK, ServerTypes, NothingUnderAnother
<1>10. MoreTypes' /\ TabTypes' /\ OthersKeep(t)
  BY <1>1, <1>3, Parts, Untouched
<1>11. page' = page /\ binding' = binding /\ store' = store /\ saved' = saved
  BY <1>3 DEF tab
<1> QED
  BY <1>3, <1>7, <1>8, <1>9, <1>10, <1>11, Elsewhere

LEMMA ServeWorkStep ==
  ASSUME IInv, NEW t \in Tabs, ServeWork(t)
  PROVE  IInv'
<1> DEFINE r == work[t]
           u == sessionUser(r)
           code == canActivate(r)
           a == answered(r, code, u)
<1>1. TypeOK /\ Consistent(page[t], binding[t], store[t], saved[t], call[t], r, accepted)
  BY DEF IInv, TabOK
<1>2. r \in RequestType /\ r.phase = "sent" /\ r.header \in Users \cup {Anonymous, None}
  BY <1>1 DEF ServeWork, TypeOK, RequestType
<1>3. r # NoRequest /\ r.user \in Users /\ r.header \in {Anonymous, r.user}
  BY <1>1, <1>2, Nobody DEF Consistent, Works
<1>4. /\ work' = [work EXCEPT ![t] = a]
      /\ accepted' = accepted \cup (IF code = "OK" /\ r.kind = "consent" THEN {u} ELSE {})
      /\ writes' = writes \cup (IF code = "OK" /\ r.kind # "load" THEN {<<r.user, u>>} ELSE {})
      /\ UNCHANGED <<owner, alive, closed, cookie, tab, booting, inbox, call, bounds>>
  BY DEF ServeWork
<1>5. code \in Codes /\ u \in Users \cup {None} /\ (code = "OK" => u = r.user)
  BY <1>1, <1>2, <1>3, Guarding, Nobody
<1> HIDE DEF code, u
<1>6. /\ a \in RequestType /\ a.kind = r.kind /\ a.header = r.header
      /\ a.phase = "answered" /\ a.code = code /\ a.user = r.user
  BY <1>2, <1>5, Answering
<1> HIDE DEF r, a
<1>7. Consistent(page[t], binding[t], store[t], saved[t], call[t], a, accepted')
  <2>1. a # NoRequest
    BY <1>6, Nobody
  <2>2. Works(page[t], binding[t], a, accepted')
    BY <1>1, <1>3, <1>4, <1>5, <1>6, Nobody DEF Consistent, Works
  <2>3. Boots(page[t], binding[t], call[t], a) /\ Changes(page[t], binding[t], call[t], a)
    BY <1>1, <1>3, <1>6, <2>1 DEF Consistent, Boots, Changes
  <2>4. Shows(page[t], binding[t], store[t], accepted') /\ Keeps(page[t], binding[t], saved[t])
    BY <1>1, <1>4 DEF Consistent, Shows
  <2> QED
    BY <2>2, <2>3, <2>4 DEF Consistent
<1>8. CallTypes' /\ OthersAsk(t) /\ work'[t] = a /\ call'[t] = call[t]
  BY <1>1, <1>4, <1>6, Asks
<1>9. ServerTypes' /\ NothingUnderAnother' /\ accepted \subseteq accepted'
  BY <1>1, <1>3, <1>4, <1>5 DEF IInv, TypeOK, ServerTypes, NothingUnderAnother
<1>10. MoreTypes' /\ TabTypes' /\ OthersKeep(t)
  BY <1>1, <1>4, Parts, Untouched
<1>11. page' = page /\ binding' = binding /\ store' = store /\ saved' = saved
  BY <1>4 DEF tab
<1> QED
  BY <1>7, <1>8, <1>9, <1>10, <1>11, Elsewhere

LEMMA ExpireStep ==
  ASSUME IInv, NEW s \in Sessions, Expire(s)
  PROVE  IInv'
<1>1. TypeOK /\ mishap /\ alive' \subseteq alive
      /\ UNCHANGED <<owner, accepted, closed, writes, cookie, tab, booting, inbox, call, work>>
  BY DEF Expire, IInv
<1>2. MoreTypes'
  BY <1>1, Counting
<1>3. TypeOK'
  BY <1>1, <1>2 DEF TypeOK, MoreTypes, tab, booting, Leaving
<1>4. \A t \in Tabs : TabOK(t)'
  BY <1>1 DEF IInv, TabOK, tab
<1> QED
  BY <1>1, <1>3, <1>4 DEF IInv, NothingUnderAnother

-----------------------------------------------------------------------------
(* What a tab does with an answer.                                         *)

(* A request is followed by another, or by none.                           *)
LEMMA ReceiveSignInStep ==
  ASSUME IInv, NEW t \in Tabs, ReceiveSignIn(t)
  PROVE  IInv'
<1> DEFINE r == call[t]
           q == Request(t, "me", r.user, r.portal)
           m == [q EXCEPT !.session = r.setCookie]
<1>1. TypeOK /\ Consistent(page[t], binding[t], store[t], saved[t], r, work[t], accepted)
  BY DEF IInv, TabOK
<1>2. r \in RequestType /\ r.kind = "signIn" /\ r.setCookie \in Sessions \cup {None}
      /\ r.portal \in {"customer", "staff"}
      /\ UNCHANGED <<server, tab, booting, inbox, work, bounds>>
  BY <1>1 DEF ReceiveSignIn, TypeOK, RequestType
<1>3. r.user \in Users /\ page[t] \in {"ready", "leaving"}
  BY <1>1, <1>2 DEF Consistent, Changes
<1>4. /\ m \in RequestType /\ m.kind = "me" /\ m.phase = "sent" /\ m.user = r.user
      /\ m.header \in Users \cup {Anonymous}
      /\ m.header \in Users => m.header = binding[t]
  <2>1. /\ q \in RequestType /\ q.kind = "me" /\ q.phase = "sent" /\ q.user = r.user
        /\ q.header \in Users \cup {Anonymous}
        /\ q.header \in Users => q.header = binding[t]
    BY <1>1, <1>2, <1>3, Requested, Nobody DEF Kinds
  <2> HIDE DEF q
  <2>2. /\ m \in RequestType /\ m.kind = q.kind /\ m.phase = q.phase
        /\ m.user = q.user /\ m.header = q.header
    BY <1>2, <2>1 DEF RequestType
  <2> QED
    BY <2>1, <2>2
<1>5. CASE r.code = "OK" /\ cookie' = r.setCookie /\ call' = [call EXCEPT ![t] = m]
  <2> HIDE DEF m, r
  <2>1. work[t] # NoRequest => binding[t] \in {None, work[t].user}
    BY <1>1 DEF Consistent, Works
  <2>2. Consistent(page[t], binding[t], store[t], saved[t], m, work[t], accepted)
    BY <1>1, <1>3, <1>4, <2>1, Nobody DEF Consistent, Boots, Changes
  <2>3. CallTypes' /\ OthersAsk(t) /\ call'[t] = m /\ work'[t] = work[t]
    BY <1>1, <1>2, <1>4, <1>5, Asks
  <2>4. ServerTypes' /\ NothingUnderAnother' /\ accepted' = accepted
    BY <1>1, <1>2, <1>5 DEF IInv, NothingUnderAnother, server, TypeOK, ServerTypes
  <2>5. MoreTypes' /\ TabTypes' /\ OthersKeep(t)
    BY <1>1, <1>2, Parts, Untouched
  <2>6. page' = page /\ binding' = binding /\ store' = store /\ saved' = saved
    BY <1>2 DEF tab
  <2> QED
    BY <2>2, <2>3, <2>4, <2>5, <2>6, Elsewhere
<1>6. CASE over(t) /\ UNCHANGED cookie
  <2>1. Consistent(page[t], binding[t], store[t], saved[t], NoRequest, work[t], accepted)
    BY <1>1, Ended
  <2> QED
    BY <1>1, <1>2, <1>6, <2>1, CallOnly, Nobody, Parts DEF over
<1> QED
  BY <1>5, <1>6 DEF ReceiveSignIn

(* The tab transitions, and whatever it asks for next stays consistent.    *)
LEMMA Leaves ==
  ASSUME IInv, NEW t \in Tabs, transition(t), ServerTypes', MoreTypes', CallTypes',
         OthersAsk(t), NothingUnderAnother', accepted' = accepted,
         Consistent(page[t], binding[t], store[t], saved[t], call'[t], work'[t], accepted)
  PROVE  IInv'
<1>1. TypeOK
  BY DEF IInv
<1>2. TabTypes' /\ OthersKeep(t) /\ StaysConsistent(t)
  BY <1>1, Transition
<1>3. Consistent(page'[t], binding'[t], store'[t], saved'[t], call'[t], work'[t], accepted')
  BY <1>2 DEF StaysConsistent
<1> QED
  BY <1>2, <1>3, Elsewhere

LEMMA ReceiveSignOutStep ==
  ASSUME IInv, NEW t \in Tabs, ReceiveSignOut(t)
  PROVE  IInv'
<1>1. TypeOK /\ Consistent(page[t], binding[t], store[t], saved[t], NoRequest, work[t], accepted)
  BY Ended DEF IInv, TabOK
<1>2. /\ call' = [call EXCEPT ![t] = NoRequest]
      /\ cookie' \in {None, cookie}
      /\ UNCHANGED <<server, booting, work, bounds>>
  BY DEF ReceiveSignOut, over
<1>3. CallTypes' /\ OthersAsk(t) /\ call'[t] = NoRequest /\ work'[t] = work[t]
  BY <1>1, <1>2, Asks, Nobody
<1>4. ServerTypes' /\ NothingUnderAnother' /\ accepted' = accepted
  BY <1>1, <1>2 DEF IInv, NothingUnderAnother, server, TypeOK, ServerTypes
<1>5. inbox' \in [Tabs -> Seq(Users \cup {None})] => MoreTypes'
  BY <1>1, <1>2 DEF TypeOK, MoreTypes, booting, bounds
<1>6. CASE transitionAnnouncing(t, None)
  <2>1. transition(t) /\ inbox' \in [Tabs -> Seq(Users \cup {None})]
    BY <1>1, <1>6, Announcing DEF transitionAnnouncing, TypeOK
  <2> QED
    BY <1>1, <1>3, <1>4, <1>5, <2>1, Leaves
<1>7. CASE transition(t) /\ UNCHANGED inbox
  <2>1. MoreTypes'
    BY <1>1, <1>5, <1>7 DEF TypeOK
  <2> QED
    BY <1>1, <1>3, <1>4, <1>7, <2>1, Leaves
<1>8. CASE UNCHANGED <<tab, inbox>>
  <2>1. MoreTypes' /\ TabTypes' /\ OthersKeep(t)
    BY <1>1, <1>5, <1>8, Untouched DEF TypeOK
  <2>2. page' = page /\ binding' = binding /\ store' = store /\ saved' = saved
    BY <1>8 DEF tab
  <2> QED
    BY <1>1, <1>3, <1>4, <2>1, <2>2, Elsewhere
<1> QED
  BY <1>6, <1>7, <1>8 DEF ReceiveSignOut

LEMMA ReceiveRegistrationStep ==
  ASSUME IInv, NEW t \in Tabs, ReceiveRegistration(t)
  PROVE  IInv'
<1> DEFINE r == call[t]
<1>1. TypeOK /\ TabOK(t)
      /\ Consistent(page[t], binding[t], store[t], saved[t], r, work[t], accepted)
  BY DEF IInv, TabOK
<1>2. r \in RequestType /\ r.kind = "register" /\ r.setCookie \in Sessions \cup {None}
      /\ call' = [call EXCEPT ![t] = NoRequest]
      /\ UNCHANGED <<server, booting, work, bounds>>
  BY <1>1 DEF ReceiveRegistration, TypeOK, RequestType, over
<1>3. CallTypes' /\ OthersAsk(t) /\ call'[t] = NoRequest /\ work'[t] = work[t]
  BY <1>1, <1>2, Asks, Nobody
<1>4. cookie' \in Sessions \cup {None}
  BY <1>1, <1>2 DEF ReceiveRegistration, TypeOK
<1>5. ServerTypes' /\ NothingUnderAnother' /\ accepted' = accepted
  BY <1>1, <1>2, <1>4 DEF IInv, NothingUnderAnother, server, TypeOK, ServerTypes
<1>6. inbox' \in [Tabs -> Seq(Users \cup {None})] => MoreTypes'
  BY <1>1, <1>2 DEF TypeOK, MoreTypes, booting, bounds
<1>7. CASE adopt(t, r.user)
  <2>1. page[t] \in {"ready", "leaving"} /\ Binds(binding[t], r, work[t], r.user)
    BY <1>1, <1>2 DEF Consistent, Changes, Binds
  <2>2. /\ TabTypes' /\ OthersKeep(t) /\ inbox' \in [Tabs -> Seq(Users \cup {None})]
        /\ Consistent(page'[t], binding'[t], store'[t], saved'[t], NoRequest, work[t], accepted)
    BY <1>1, <1>7, <2>1, Adopting
  <2> QED
    BY <1>3, <1>5, <1>6, <2>2, Elsewhere
<1>8. CASE UNCHANGED <<tab, inbox>>
  <2>1. MoreTypes' /\ TabTypes' /\ OthersKeep(t)
    BY <1>1, <1>6, <1>8, Untouched DEF TypeOK
  <2>2. page' = page /\ binding' = binding /\ store' = store /\ saved' = saved
    BY <1>8 DEF tab
  <2>3. Consistent(page[t], binding[t], store[t], saved[t], NoRequest, work[t], accepted)
    BY <1>1, Ended
  <2> QED
    BY <1>3, <1>5, <2>1, <2>2, <2>3, Elsewhere
<1> QED
  BY <1>7, <1>8 DEF ReceiveRegistration

LEMMA ReceiveMeStep ==
  ASSUME IInv, NEW t \in Tabs, ReceiveMe(t)
  PROVE  IInv'
<1> DEFINE r == call[t]
           q == Request(t, "turnAway", r.user, r.portal)
<1>1. TypeOK /\ TabOK(t)
      /\ Consistent(page[t], binding[t], store[t], saved[t], r, work[t], accepted)
  BY DEF IInv, TabOK
<1>2. r \in RequestType /\ r.kind = "me" /\ r.phase = "answered"
      /\ r.portal \in {"customer", "staff"}
      /\ UNCHANGED <<server, cookie, booting, work, bounds>>
  BY <1>1 DEF ReceiveMe, TypeOK, RequestType
<1>3. r.user \in Users /\ page[t] \in {"ready", "leaving"}
      /\ (r.code = "OK" => Binds(binding[t], r, work[t], r.user))
  BY <1>1, <1>2 DEF Consistent, Changes, Binds
<1>4. ServerTypes' /\ NothingUnderAnother' /\ accepted' = accepted
  BY <1>1, <1>2, Parts DEF IInv, NothingUnderAnother, server
<1>5. inbox' \in [Tabs -> Seq(Users \cup {None})] => MoreTypes'
  BY <1>1, <1>2 DEF TypeOK, MoreTypes, booting, bounds
<1>6. CASE call' = [call EXCEPT ![t] = NoRequest]
  <2>1. CallTypes' /\ OthersAsk(t) /\ call'[t] = NoRequest /\ work'[t] = work[t]
    BY <1>1, <1>2, <1>6, Asks, Nobody
  <2>2. Consistent(page[t], binding[t], store[t], saved[t], NoRequest, work[t], accepted)
    BY <1>1, Ended
  <2>3. CASE r.code = "OK" /\ adopt(t, r.user)
    <3>1. /\ TabTypes' /\ OthersKeep(t) /\ inbox' \in [Tabs -> Seq(Users \cup {None})]
          /\ Consistent(page'[t], binding'[t], store'[t], saved'[t], NoRequest, work[t], accepted)
      BY <1>1, <1>3, <2>3, Adopting
    <3> QED
      BY <1>4, <1>5, <2>1, <3>1, Elsewhere
  <2>4. CASE transition(t) /\ UNCHANGED inbox
    <3>1. MoreTypes'
      BY <1>1, <1>5, <2>4 DEF TypeOK
    <3> QED
      BY <1>4, <2>1, <2>2, <2>4, <3>1, Leaves
  <2>5. CASE UNCHANGED <<tab, inbox>>
    <3>1. MoreTypes'
      BY <1>1, <1>5, <2>5 DEF TypeOK
    <3> QED
      BY <1>2, <1>6, <2>2, <2>5, <3>1, CallOnly, Nobody
  <2> QED
    BY <2>3, <2>4, <2>5, <1>6 DEF ReceiveMe, over
<1>7. CASE r.code = "OK" /\ call' = [call EXCEPT ![t] = q] /\ UNCHANGED <<tab, inbox>>
  <2>1. /\ q \in RequestType /\ q.kind = "turnAway" /\ q.phase = "sent" /\ q.user = r.user
        /\ q.header \in Users \cup {Anonymous}
        /\ q.header \in Users => q.header = binding[t]
    BY <1>1, <1>2, <1>3, Requested, Nobody DEF Kinds
  <2>2. q.header \in {Anonymous, r.user}
    BY <1>3, <1>7, <2>1, Nobody DEF Binds
  <2> HIDE DEF q, r
  <2>3. Consistent(page[t], binding[t], store[t], saved[t], q, work[t], accepted)
    BY <1>1, <1>3, <2>1, <2>2, Nobody DEF Consistent, Boots, Changes
  <2>4. MoreTypes'
    BY <1>1, <1>5, <1>7 DEF TypeOK
  <2> QED
    BY <1>2, <1>7, <2>1, <2>3, <2>4, CallOnly
<1> QED
  BY <1>6, <1>7 DEF ReceiveMe, over

LEMMA SendStep ==
  ASSUME IInv, NEW t \in Tabs, Send(t)
  PROVE  IInv'
<1> DEFINE r == work[t]
           q == Request(t, r.kind, r.user, "customer")
<1>1. TypeOK /\ Consistent(page[t], binding[t], store[t], saved[t], call[t], r, accepted)
  BY DEF IInv, TabOK
<1>2. r \in RequestType /\ r # NoRequest /\ r.kind \in Kinds
      /\ work' = [work EXCEPT ![t] = q]
      /\ UNCHANGED <<server, cookie, tab, booting, inbox, call, bounds>>
  BY <1>1 DEF Send, TypeOK, RequestType
<1>3. r.user \in Users /\ binding[t] \in {None, r.user}
  BY <1>1, <1>2 DEF Consistent, Works
<1>4. /\ q \in RequestType /\ q.kind = r.kind /\ q.phase = "sent" /\ q.user = r.user
      /\ q.header \in {Anonymous, r.user}
  BY <1>1, <1>2, <1>3, Requested, Nobody
<1> HIDE DEF q, r
<1>5. Consistent(page[t], binding[t], store[t], saved[t], call[t], q, accepted)
  <2>1. Works(page[t], binding[t], q, accepted)
    BY <1>1, <1>2, <1>3, <1>4, Nobody DEF Consistent, Works
  <2>2. Boots(page[t], binding[t], call[t], q) /\ Changes(page[t], binding[t], call[t], q)
    BY <1>1, <1>2, <1>4, Nobody DEF Consistent, Boots, Changes
  <2> QED
    BY <1>1, <2>1, <2>2 DEF Consistent
<1>6. MoreTypes'
  BY <1>1, <1>2, Parts
<1> QED
  BY <1>2, <1>4, <1>5, <1>6, WorkOnly

LEMMA ReceiveWorkStep ==
  ASSUME IInv, NEW t \in Tabs, ReceiveWork(t)
  PROVE  IInv'
<1> DEFINE r == work[t]
<1>1. TypeOK /\ Consistent(page[t], binding[t], store[t], saved[t], call[t], r, accepted)
      /\ Consistent(page[t], binding[t], store[t], saved[t], call[t], NoRequest, accepted)
  BY WorkEnded DEF IInv, TabOK
<1>2. r.phase = "answered" /\ work' = [work EXCEPT ![t] = NoRequest]
      /\ UNCHANGED <<server, cookie, booting, inbox, call, bounds>>
  BY DEF ReceiveWork
<1>3. CallTypes' /\ OthersAsk(t) /\ work'[t] = NoRequest /\ call'[t] = call[t]
  BY <1>1, <1>2, Asks, Nobody
<1>4. MoreTypes' /\ ServerTypes' /\ NothingUnderAnother' /\ accepted' = accepted
  BY <1>1, <1>2, Parts DEF IInv, NothingUnderAnother, server
<1>5. page[t] \in {"ready", "leaving"} /\ r.user \in Users
      /\ (page[t] = "ready" => store[t].me = r.user /\ binding[t] = r.user)
  <2>1. r # NoRequest
    BY <1>2, Nobody
  <2> QED
    BY <1>1, <2>1 DEF Consistent, Works, Shows
<1>6. store[t] \in StoreType
  BY <1>1, Types DEF TabTypes
<1>7. CASE transition(t)
  BY <1>1, <1>3, <1>4, <1>7, Leaves
<1>8. CASE r.code = "OK" /\ r.kind = "consent" /\ Set(t, [store[t] EXCEPT !.consent = TRUE])
           /\ UNCHANGED <<page, binding>>
  <2> DEFINE z == [store[t] EXCEPT !.consent = TRUE]
  <2>1. z \in StoreType /\ z.me = store[t].me /\ z.records = store[t].records
    BY <1>6 DEF StoreType
  <2>2. r.user \in accepted
    BY <1>1, <1>2, <1>8 DEF Consistent, Works
  <2>3. Set(t, z)
    BY <1>8
  <2> HIDE DEF z, r
  <2>4. ~Leaving(t) => Consistent(page[t], binding[t], z, z, call[t], NoRequest, accepted)
    BY <1>1, <1>5, <2>1, <2>2 DEF Consistent, Shows, Keeps, Leaving
  <2>5. Leaving(t) => Consistent(page[t], binding[t], z, saved[t], call[t], NoRequest, accepted)
    BY <1>1, <2>1 DEF Consistent, Shows, Leaving
  <2> QED
    BY <1>2, <1>3, <1>4, <1>8, <2>1, <2>3, <2>4, <2>5, Showing
<1>9. CASE ~Leaving(t) /\ Set(t, [store[t] EXCEPT !.records = r.user])
           /\ UNCHANGED <<page, binding>>
  <2> DEFINE z == [store[t] EXCEPT !.records = r.user]
  <2>1. z \in StoreType /\ z.me = store[t].me /\ z.records = r.user
        /\ z.consent = store[t].consent
    BY <1>5, <1>6 DEF StoreType
  <2>2. Set(t, z)
    BY <1>9
  <2> HIDE DEF z, r
  <2>3. Consistent(page[t], binding[t], z, z, call[t], NoRequest, accepted)
    BY <1>1, <1>5, <1>9, <2>1 DEF Consistent, Shows, Keeps, Leaving
  <2> QED
    BY <1>2, <1>3, <1>4, <1>9, <2>1, <2>2, <2>3, Showing
<1>10. CASE UNCHANGED tab
  <2>1. TabTypes' /\ OthersKeep(t)
    BY <1>1, <1>10, Untouched
  <2>2. page' = page /\ binding' = binding /\ store' = store /\ saved' = saved
    BY <1>10 DEF tab
  <2> QED
    BY <1>1, <1>3, <1>4, <2>1, <2>2, Elsewhere
<1> QED
  BY <1>7, <1>8, <1>9, <1>10 DEF ReceiveWork

(* onMessage.                                                              *)
LEMMA DeliverStep ==
  ASSUME IInv, NEW t \in Tabs, Deliver(t)
  PROVE  IInv'
<1>1. TypeOK /\ Consistent(page[t], binding[t], store[t], saved[t], call[t], work[t], accepted)
  BY DEF IInv, TabOK
<1>2. /\ inbox[t] # <<>> /\ inbox' = [inbox EXCEPT ![t] = Tail(inbox[t])]
      /\ stale' \in {stale, [stale EXCEPT ![t] = TRUE]}
      /\ UNCHANGED <<server, cookie, retried, call, work, bounds>>
      /\ transition(t) \/ UNCHANGED tab
  BY DEF Deliver
<1>3. MoreTypes'
  <2>1. inbox[t] \in Seq(Users \cup {None})
    BY <1>1 DEF TypeOK
  <2>2. Tail(inbox[t]) \in Seq(Users \cup {None})
    BY <1>2, <2>1, HeadTailProperties
  <2>3. inbox' \in [Tabs -> Seq(Users \cup {None})]
    BY <1>1, <1>2, <2>2 DEF TypeOK
  <2>4. stale' \in [Tabs -> BOOLEAN]
    BY <1>1, <1>2 DEF TypeOK
  <2> QED
    BY <1>1, <1>2, <2>3, <2>4 DEF TypeOK, MoreTypes, bounds
<1>4. CallTypes' /\ OthersAsk(t) /\ call'[t] = call[t] /\ work'[t] = work[t]
  BY <1>1, <1>2, Asks, Nobody
<1>5. ServerTypes' /\ NothingUnderAnother' /\ accepted' = accepted
  BY <1>1, <1>2, Parts DEF IInv, NothingUnderAnother, server
<1>6. CASE transition(t)
  BY <1>1, <1>3, <1>4, <1>5, <1>6, Leaves
<1>7. CASE UNCHANGED tab
  <2>1. TabTypes' /\ OthersKeep(t)
    BY <1>1, <1>7, Untouched
  <2>2. page' = page /\ binding' = binding /\ store' = store /\ saved' = saved
    BY <1>7 DEF tab
  <2> QED
    BY <1>1, <1>3, <1>4, <1>5, <2>1, <2>2, Elsewhere
<1> QED
  BY <1>2, <1>6, <1>7

-----------------------------------------------------------------------------
(* What boot does with an answer.                                          *)

Boot(t) == call[t].kind = "boot" /\ call[t].phase = "answered" /\ bootAnswered(t)

again(t) == stale[t] /\ ~retried[t]

(* Asking again, a document that is leaving binds the tab it has reset.    *)
LEMMA BootAgain ==
  ASSUME IInv, NEW t \in Tabs, Boot(t), again(t)
  PROVE  /\ TabTypes' /\ OthersKeep(t)
         /\ \A q : q.kind = "boot" /\ q.phase = "sent" /\ q.header = binding'[t]
              => Consistent(page'[t], binding'[t], store'[t], saved'[t], q, work[t], accepted)
<1>1. TypeOK /\ Consistent(page[t], binding[t], store[t], saved[t], call[t], work[t], accepted)
  BY DEF IInv, TabOK
<1>2. transition(t) \/ UNCHANGED tab
  BY DEF Boot, again, bootAnswered
<1>3. /\ TabTypes' /\ OthersKeep(t)
      /\ Consistent(page'[t], binding'[t], store'[t], saved'[t], call[t], work[t], accepted)
  <2>1. TabTypes' /\ OthersKeep(t) /\ StaysConsistent(t)
    BY <1>1, <1>2, Transition, Untouched
  <2> QED
    BY <1>1, <2>1 DEF StaysConsistent
<1>4. binding'[t] \in Users \cup {None}
  BY <1>3 DEF TabTypes
<1>5. page'[t] \in {"booting", "leaving"} /\ call[t].kind = "boot"
  BY <1>3 DEF Boot, Consistent, Boots
<1> SUFFICES ASSUME NEW q, q.kind = "boot", q.phase = "sent", q.header = binding'[t]
             PROVE  Consistent(page'[t], binding'[t], store'[t], saved'[t], q, work[t], accepted)
  BY <1>3
<1>6. CASE page'[t] = "leaving"
  BY <1>3, <1>4, <1>5, <1>6, RebootedLeaving
<1>7. CASE page'[t] = "booting"
  BY <1>3, <1>4, <1>5, <1>7, Rebooted
<1> QED
  BY <1>5, <1>6, <1>7

(* The first answer, or the second, is what the tab shows.                 *)
LEMMA BootShows ==
  ASSUME IInv, NEW t \in Tabs, Boot(t), ~again(t)
  PROVE  /\ TabTypes' /\ OthersKeep(t)
         /\ Consistent(page'[t], binding'[t], store'[t], saved'[t], NoRequest, work[t], accepted)
<1> DEFINE r == call[t]
           show(p, z) == IF Leaving(t) THEN UNCHANGED <<page, store, saved>>
                         ELSE page' = [page EXCEPT ![t] = p] /\ Set(t, z)
<1>1. TypeOK /\ Consistent(page[t], binding[t], store[t], saved[t], r, work[t], accepted)
      /\ Consistent(page[t], binding[t], store[t], saved[t], NoRequest, work[t], accepted)
  BY Ended DEF IInv, TabOK
<1>2. r.kind = "boot" /\ r.phase = "answered"
  BY DEF Boot
<1>3. /\ page[t] \in {"booting", "leaving"} /\ work[t] = NoRequest
      /\ page[t] = "booting" => r.header = binding[t]
      /\ r.code = "OK" => r.user \in Users /\ r.header \in {None, r.user}
      /\ r.code = "UNAUTHENTICATED" => r.header = None
  BY <1>1, <1>2 DEF Consistent, Boots
<1>4. store[t] \in StoreType /\ binding[t] \in Users \cup {None}
  BY <1>1, Types DEF TabTypes
<1>5. CASE transition(t)
  <2>1. TabTypes' /\ OthersKeep(t) /\ StaysConsistent(t)
    BY <1>1, <1>5, Transition
  <2> QED
    BY <1>1, <2>1 DEF StaysConsistent
(* A document that stays shows z and is bound to b.                        *)
<1>6. ASSUME ~Leaving(t), NEW z \in StoreType, NEW p \in Pages, NEW b \in Users \cup {None},
             show(p, z), binding' = [binding EXCEPT ![t] = b],
             Consistent(p, b, z, z, NoRequest, work[t], accepted)
      PROVE  /\ TabTypes' /\ OthersKeep(t)
             /\ Consistent(page'[t], binding'[t], store'[t], saved'[t], NoRequest, work[t], accepted)
  <2>1. page' = [page EXCEPT ![t] = p] /\ Set(t, z)
    BY <1>6
  <2>2. /\ store' \in [Tabs -> StoreType] /\ saved' \in [Tabs -> StoreType]
        /\ store'[t] = z /\ saved'[t] = z
        /\ \A d \in Tabs \ {t} : store'[d] = store[d] /\ saved'[d] = saved[d]
    BY <1>1, <1>6, <2>1, Setting
  <2>3. /\ page' \in [Tabs -> Pages] /\ binding' \in [Tabs -> Users \cup {None}]
        /\ page'[t] = p /\ binding'[t] = b
        /\ \A d \in Tabs \ {t} : page'[d] = page[d] /\ binding'[d] = binding[d]
    BY <1>1, <1>6, <2>1, Types DEF TabTypes
  <2> QED
    BY <1>6, <2>2, <2>3 DEF TabTypes, OthersKeep
<1>7. CASE r.code = "OK" /\ binding' = [binding EXCEPT ![t] = r.user]
           /\ show("ready", profileOf(r.user, store[t]))
  <2> DEFINE z == profileOf(r.user, store[t])
  <2>1. z \in StoreType /\ z.me = r.user /\ z.records = store[t].records
        /\ (z.consent => r.user \in accepted)
    BY <1>3, <1>4, <1>7, Profile
  <2> HIDE DEF z
  <2>2. CASE ~Leaving(t)
    <3>1. Binds(binding[t], r, work[t], r.user) /\ page[t] = "booting"
      BY <1>3, <1>7, <2>2, Nobody DEF Binds, Leaving
    <3>2. Consistent("ready", r.user, z, z, NoRequest, work[t], accepted)
      BY <1>1, <2>1, <3>1, Adopted
    <3>3. show("ready", z)
      BY <1>7 DEF z
    <3> HIDE DEF show
    <3> QED
      BY <1>3, <1>6, <1>7, <2>1, <2>2, <3>2, <3>3 DEF Pages
  <2>3. CASE Leaving(t)
    <3>1. page' = page /\ store' = store /\ saved' = saved
      BY <1>7, <2>3
    <3>2. TabTypes' /\ OthersKeep(t) /\ binding'[t] = r.user
      BY <1>1, <1>3, <1>7, <3>1, Types DEF TabTypes, OthersKeep
    <3>3. Consistent(page[t], r.user, store[t], saved[t], NoRequest, work[t], accepted)
      BY <1>1, <1>3, <2>3, Nobody
         DEF Consistent, Shows, Keeps, Boots, Changes, Works, Leaving
    <3> QED
      BY <3>1, <3>2, <3>3
  <2> QED
    BY <2>2, <2>3
<1>8. CASE r.code = "UNAUTHENTICATED" /\ UNCHANGED binding
           /\ show("ready", [store[t] EXCEPT !.me = None, !.consent = FALSE])
  <2> DEFINE z == [store[t] EXCEPT !.me = None, !.consent = FALSE]
  <2>1. z \in StoreType /\ z.me = None /\ z.records = store[t].records /\ ~z.consent
    BY <1>4 DEF StoreType
  <2> HIDE DEF z
  <2>2. CASE ~Leaving(t)
    <3>1. binding[t] = None /\ page[t] = "booting"
      BY <1>3, <1>8, <2>2 DEF Leaving
    <3>2. Consistent("ready", binding[t], z, z, NoRequest, work[t], accepted)
      BY <1>1, <2>1, <3>1, Settled
    <3>3. show("ready", z)
      BY <1>8 DEF z
    <3>4. binding' = [binding EXCEPT ![t] = binding[t]]
      BY <1>1, <1>8, Types DEF TabTypes
    <3> HIDE DEF show
    <3> QED
      BY <1>4, <1>6, <2>1, <2>2, <3>2, <3>3, <3>4 DEF Pages
  <2>3. CASE Leaving(t)
    <3>1. UNCHANGED tab
      BY <1>8, <2>3 DEF tab
    <3> QED
      BY <1>1, <3>1, Untouched DEF tab
  <2> QED
    BY <2>2, <2>3
<1>9. CASE UNCHANGED binding /\ show("failed", store[t])
  <2>1. CASE ~Leaving(t)
    <3>1. page[t] = "booting"
      BY <1>3, <2>1 DEF Leaving
    <3>2. Consistent("failed", binding[t], store[t], store[t], NoRequest, work[t], accepted)
      BY <1>1, <1>2, <3>1, Settled
    <3>3. binding' = [binding EXCEPT ![t] = binding[t]]
      BY <1>1, <1>9, Types DEF TabTypes
    <3> HIDE DEF show
    <3> QED
      BY <1>4, <1>6, <1>9, <2>1, <3>2, <3>3 DEF Pages
  <2>2. CASE Leaving(t)
    <3>1. UNCHANGED tab
      BY <1>9, <2>2 DEF tab
    <3> QED
      BY <1>1, <3>1, Untouched DEF tab
  <2> QED
    BY <2>1, <2>2
<1> QED
  BY <1>5, <1>7, <1>8, <1>9 DEF Boot, again, bootAnswered

LEMMA ReceiveBootStep ==
  ASSUME IInv, NEW t \in Tabs, ReceiveBoot(t)
  PROVE  IInv'
<1>1. TypeOK /\ Boot(t) /\ UNCHANGED <<server, cookie, inbox, work, bounds>>
  BY DEF IInv, ReceiveBoot, Boot
<1>2. ServerTypes' /\ NothingUnderAnother' /\ accepted' = accepted
  BY <1>1, Parts DEF IInv, NothingUnderAnother, server
<1>3. CASE again(t)
  <2> DEFINE q == [BootRequest(t) EXCEPT !.header = binding'[t]]
  <2>1. /\ call' = [call EXCEPT ![t] = q]
        /\ stale' = [stale EXCEPT ![t] = FALSE] /\ retried' = [retried EXCEPT ![t] = TRUE]
    BY <1>1, <1>3 DEF Boot, again, bootAnswered
  <2>2. /\ TabTypes' /\ OthersKeep(t)
        /\ \A x : x.kind = "boot" /\ x.phase = "sent" /\ x.header = binding'[t]
             => Consistent(page'[t], binding'[t], store'[t], saved'[t], x, work[t], accepted)
    BY <1>1, <1>3, BootAgain
  <2>3. binding'[t] \in Users \cup {None}
    BY <2>2 DEF TabTypes
  <2>4. q \in RequestType /\ q.kind = "boot" /\ q.phase = "sent" /\ q.header = binding'[t]
    <3>1. /\ BootRequest(t) \in RequestType /\ BootRequest(t).kind = "boot"
          /\ BootRequest(t).phase = "sent"
      BY <1>1, BootRequested
    <3> QED
      BY <2>3, <3>1 DEF RequestType
  <2> HIDE DEF q
  <2>5. CallTypes' /\ OthersAsk(t) /\ call'[t] = q /\ work'[t] = work[t]
    BY <1>1, <2>1, <2>4, Asks
  <2>6. MoreTypes'
    BY <1>1, <2>1 DEF TypeOK, MoreTypes, bounds
  <2> QED
    BY <1>2, <2>2, <2>4, <2>5, <2>6, Elsewhere
<1>4. CASE ~again(t)
  <2>1. call' = [call EXCEPT ![t] = NoRequest] /\ UNCHANGED booting
    BY <1>1, <1>4 DEF Boot, again, bootAnswered
  <2>2. CallTypes' /\ OthersAsk(t) /\ call'[t] = NoRequest /\ work'[t] = work[t] /\ MoreTypes'
    BY <1>1, <2>1, Asks, Nobody, Parts
  <2> QED
    BY <1>1, <1>2, <1>4, <2>2, BootShows, Elsewhere
<1> QED
  BY <1>3, <1>4

-----------------------------------------------------------------------------
(* THE THEOREMS.                                                           *)

(* Every tab begins by asking who is signed in, and shows no one.          *)
LEMMA Beginning == Init => IInv
<1> SUFFICES ASSUME Init
             PROVE  IInv
  OBVIOUS
<1>1. /\ owner \in [Sessions -> Users \cup {None}] /\ alive \subseteq Sessions
      /\ cookie \in Sessions \cup {None}
  <2> DEFINE s == CHOOSE x \in Sessions : TRUE
  <2>1. s \in Sessions
    BY Nobody
  <2>2. PICK u \in (Users \ Newcomers) \cup {None} :
          /\ owner = [x \in Sessions |-> IF x = s THEN u ELSE None]
          /\ alive = IF u = None THEN {} ELSE {s}
          /\ cookie = IF u = None THEN None ELSE s
    BY DEF Init
  <2> HIDE DEF s
  <2> QED
    BY <2>1, <2>2
<1>2. ASSUME NEW t \in Tabs
      PROVE  /\ BootRequest(t) \in RequestType
             /\ BootRequest(t).kind = "boot" /\ BootRequest(t).phase = "sent"
             /\ BootRequest(t).header = None
  <2>1. binding[t] = None
    BY DEF Init
  <2>2. PICK h : h = IF binding[t] = None THEN Anonymous ELSE binding[t]
    OBVIOUS
  <2>3. Request(t, "boot", None, "customer") =
          [NoRequest EXCEPT !.kind = "boot", !.phase = "sent", !.user = None,
             !.portal = "customer", !.session = cookie, !.header = h]
    BY <2>2, Zenon DEF Request
  <2>4. Request(t, "boot", None, "customer") =
          [kind |-> "boot", phase |-> "sent", header |-> h, session |-> cookie, user |-> None,
           portal |-> "customer", code |-> "NONE", setCookie |-> None]
    BY <2>3 DEF NoRequest
  <2>5. BootRequest(t) =
          [kind |-> "boot", phase |-> "sent", header |-> None, session |-> cookie, user |-> None,
           portal |-> "customer", code |-> "NONE", setCookie |-> None]
    BY <2>1, <2>4 DEF BootRequest
  <2> QED
    BY <1>1, <2>5 DEF RequestType, Phases, Codes, Kinds
<1>3. TypeOK
  <2>1. <<>> \in Seq(Users \cup {None})
    OBVIOUS
  <2>2. /\ accepted = {} /\ closed = {} /\ writes = {}
        /\ page = [t \in Tabs |-> "booting"] /\ binding = [t \in Tabs |-> None]
        /\ store = [t \in Tabs |-> Empty] /\ saved = [t \in Tabs |-> Empty]
        /\ stale = [t \in Tabs |-> FALSE] /\ retried = [t \in Tabs |-> FALSE]
        /\ inbox = [t \in Tabs |-> <<>>] /\ acts = 0 /\ mishaps = 0
    BY DEF Init
  <2>3. call \in [Tabs -> RequestType] /\ work \in [Tabs -> RequestType]
    BY <1>2, Nobody DEF Init
  <2>4. 0 \in 0..MaxActs /\ 0 \in 0..MaxMishaps
    BY Nobody
  <2> QED
    BY <1>1, <2>1, <2>2, <2>3, <2>4, Nobody DEF TypeOK, Leaving, Pages
<1>4. ASSUME NEW t \in Tabs
      PROVE  TabOK(t)
  <2>1. /\ page[t] = "booting" /\ binding[t] = None /\ store[t] = Empty /\ saved[t] = Empty
        /\ work[t] = NoRequest /\ call[t].kind = "boot" /\ call[t].phase = "sent"
        /\ call[t].header = None
    BY <1>2 DEF Init
  <2> QED
    BY <2>1, Nobody DEF TabOK, Consistent, Shows, Keeps, Boots, Changes, Works
<1>5. NothingUnderAnother
  BY DEF Init, NothingUnderAnother
<1> QED
  BY <1>3, <1>4, <1>5 DEF IInv

LEMMA Invariance == Spec => []IInv
<1>1. IInv /\ [Next]_vars => IInv'
  <2> SUFFICES ASSUME IInv, [Next]_vars
               PROVE  IInv'
    OBVIOUS
  <2>1. ASSUME NEW t \in Tabs, User(t)
        PROVE  IInv'
    BY <2>1, SignInStep, SignOutStep, BeginStep, StartJourneyStep DEF User
  <2>2. ASSUME NEW t \in Tabs, Browser(t)
        PROVE  IInv'
    BY <2>2, NewDocumentStep, AskAgainStep, FreezeStep, LoseStep DEF Browser
  <2>3. ASSUME NEW t \in Tabs, Serve(t)
        PROVE  IInv'
    BY <2>3, ServeMeStep, ServeSignInStep, ServeSignOutStep, ServeWorkStep DEF Serve
  <2>4. ASSUME NEW t \in Tabs, Receive(t)
        PROVE  IInv'
    BY <2>4, ReceiveBootStep, ReceiveSignInStep, ReceiveRegistrationStep, ReceiveMeStep,
       ReceiveSignOutStep, ReceiveWorkStep DEF Receive
  <2>5. ASSUME NEW t \in Tabs, Send(t) \/ Deliver(t) \/ Unload(t)
        PROVE  IInv'
    BY <2>5, SendStep, DeliverStep, NewDocumentStep
  <2>6. ASSUME NEW s \in Sessions, Expire(s)
        PROVE  IInv'
    BY <2>6, ExpireStep
  <2>7. CASE UNCHANGED vars
    <3>1. /\ UNCHANGED <<server, cookie, booting, inbox, call, work, bounds>> /\ UNCHANGED tab
      BY <2>7 DEF vars
    <3> QED
      BY <3>1 DEF IInv, TypeOK, NothingUnderAnother, TabOK, server, tab, booting, bounds, Leaving
  <2> QED
    BY <2>1, <2>2, <2>3, <2>4, <2>5, <2>6, <2>7 DEF Next
<1> QED
  BY <1>1, Beginning, PTL DEF Spec

(* The types hold, and a document that leaves has left nothing behind.     *)
THEOREM Typing == Spec => []TypeOK
<1>1. IInv => TypeOK
  BY DEF IInv
<1> QED
  BY <1>1, Invariance, PTL

(* A tab shows and keeps one person's data, whatever answers, reloads,     *)
(* sign-ins and notifications come in whatever order.                      *)
THEOREM OnePerson == Spec => []OnePersonPerTab
<1>1. IInv => OnePersonPerTab
  <2>1. ASSUME IInv, NEW t \in Tabs
        PROVE  /\ saved[t].me \in {None, binding[t]} /\ saved[t].records \in {None, binding[t]}
               /\ page[t] = "ready" =>
                    /\ store[t].me = binding[t]
                    /\ store[t].records \in {None, binding[t]}
                    /\ store[t].consent => store[t].me \in accepted
    <3>1. Shows(page[t], binding[t], store[t], accepted) /\ Keeps(page[t], binding[t], saved[t])
      BY <2>1 DEF IInv, TabOK, Consistent
    <3> QED
      BY <3>1 DEF Shows, Keeps
  <2> QED
    BY <2>1, Zenon DEF OnePersonPerTab
<1> QED
  BY <1>1, Invariance, PTL

(* What was begun for one person is never written under another's session, *)
(* though the session may change before it is sent or served.              *)
THEOREM OwnSession == Spec => []NothingUnderAnother
<1>1. IInv => NothingUnderAnother
  BY DEF IInv
<1> QED
  BY <1>1, Invariance, PTL

=============================================================================
