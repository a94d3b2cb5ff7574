----------------------------- MODULE Documents ------------------------------
(***************************************************************************)
(* Uploading documents and attaching them: to a quote request as its       *)
(* photos and White Book, to a claim, to an insurer's quote, to a policy   *)
(* as its certificate; and sending a request again with its photos.        *)
(*                                                                         *)
(* One action is one statement of a transaction under READ COMMITTED, or   *)
(* the lock of one row where a statement locks several.  What else these   *)
(* transactions read and write is modelled in QuoteRequests and Payments;  *)
(* here it can only end them (Fail).                                       *)
(***************************************************************************)
EXTENDS Naturals, FiniteSets, RowLocks

CONSTANTS
  Docs,
  Calls,         \* the calls that attach, and the records they create
  Principals,    \* customers and staff
  Parents,       \* deliveries to quote, policies to certify or claim on
  Asks,          \* what a call may ask for
  DocId,         \* DocId[d]: the place of the document's id
  Kind,          \* Kind[d]: the document's kind
  Uploader,      \* Uploader[d]
  Late,          \* the documents still to be uploaded
  ActsFor,       \* ActsFor[w]: the parents w may act on
  None

CallKinds == {"request", "requote", "claim", "quote", "certificate"}

AskType == [kind : CallKinds, who : Principals, documents : SUBSET Docs,
            whiteBook : Docs \cup {None}, parent : Parents \cup Calls \cup {None}]

ASSUME DocumentsAssumption ==
  /\ Asks \subseteq AskType
  /\ \A a \in Asks :
       /\ IsFiniteSet(a.documents)
       /\ a.kind \in {"quote", "certificate"} => /\ Cardinality(a.documents) = 1
                                                 /\ a.parent \in Parents
       /\ a.kind = "requote" => a.parent \in Calls
       /\ a.kind # "request" => a.whiteBook = None
  /\ DocId \in [Docs -> Nat]
  /\ \A d, e \in Docs : DocId[d] = DocId[e] => d = e
  /\ Uploader \in [Docs -> Principals]
  /\ Late \subseteq Docs
  /\ ActsFor \in [Principals -> SUBSET Parents]
  /\ None \notin Docs \cup Parents \cup Calls

VARIABLES
  objects,    \* the documents whose bytes are in object storage
  documents,  \* the documents with a row
  pc,         \* pc[c]: the next statement of call c
  outcome,    \* outcome[c]: what the caller was told
  ask,        \* ask[c]
  committed,  \* the calls whose record is committed
  kept,       \* kept[c]: the photos and the White Book of the request c made
  active,     \* the policies with status ACTIVE
  locks       \* the row locks held

storage == <<objects, documents>>
records == <<committed, kept, active>>
vars == <<storage, pc, outcome, ask, records, locks>>

PcValues == {"idle", "parent", "checkParent", "documents", "whiteBook", "insert",
             "keyPolicy", "keyWhiteBook", "keyShots", "commit", "done"}

Refusals == {"NOT_FOUND", "ALREADY_QUOTED", "ALREADY_ISSUED",
             "ALREADY_REQUOTED", "DOCUMENT_NOT_ATTACHABLE"}

-----------------------------------------------------------------------------
(* The rows a statement reads.                                             *)

committedOf(kinds) == {c \in committed : ask[c].kind \in kinds}

nothing == [documents |-> {}, whiteBook |-> None]

given(c) == [documents |-> ask[c].documents, whiteBook |-> ask[c].whiteBook]

(* A requote carries the photos and the White Book of its original on.     *)
carried(c) == IF ask[c].kind = "requote" THEN kept[ask[c].parent] ELSE given(c)

shots(c) == carried(c).documents
whiteBook(c) == carried(c).whiteBook

(* DocumentsRepository.referencedIds: the quotes, the certificates, the    *)
(* photos and White Books of requests, and the attachments of claims.      *)
referenced(d) ==
  \/ \E c \in committedOf({"claim", "quote", "certificate"}) : d \in ask[c].documents
  \/ \E c \in committedOf({"request", "requote"}) :
       d \in kept[c].documents \/ d = kept[c].whiteBook

(* The kind of document each call attaches.                                *)
kindFor == [request     |-> "INSPECTION_PHOTO",
            claim       |-> "CLAIM_ATTACHMENT",
            quote       |-> "QUOTATION",
            certificate |-> "CERTIFICATE",
            whiteBook   |-> "WHITE_BOOK"]

proper(a, d, k) == Kind[d] = kindFor[k] /\ Uploader[d] = a.who

(* The rows, committed or not, that the unique indexes set against call c: *)
(* on documentId of claim_attachments and insurer_quotes, and on the       *)
(* delivery of a quote.                                                    *)
rivals(c) ==
  {b \in Calls \ {c} :
     /\ ask[c].kind \in {"claim", "quote"} /\ ask[b].kind = ask[c].kind
     /\ \/ ask[b].documents \cap ask[c].documents # {}
        \/ ask[c].kind = "quote" /\ ask[b].parent = ask[c].parent
     /\ b \in committed \/ pc[b] = "commit"}

-----------------------------------------------------------------------------
(* The lock each statement takes.                                          *)

documentRow(d) == <<"documents", d>>
parentRow(c)   == <<"parents", ask[c].parent>>

(* lockDelivery, lockPolicy and lockOwned all lock FOR UPDATE.             *)
lockParent(c) == Lock(c, parentRow(c), ForUpdate)

locked(c) == {d \in Docs : \E l \in locks : l.txn = c /\ l.row = documentRow(d)}

(* Mutant: no ORDER BY, and not every call's plan finds the same order.    *)
inPlanOrder(c, d, e) ==
  IF c = CHOOSE b \in Calls : TRUE THEN DocId[e] < DocId[d] ELSE DocId[d] < DocId[e]

(* The statement of c locks d before e: ORDER BY id.                       *)
inOrder(c, d, e) == DocId[d] < DocId[e]

(* The rows that the statement has not come to.  It does not go back for a *)
(* row that appears behind it.                                             *)
unlocked(c) ==
  {d \in (ask[c].documents \cap documents) \ locked(c) :
     \A e \in locked(c) : inOrder(c, e, d)}

nextDocument(c) ==
  CHOOSE d \in unlocked(c) : \A e \in unlocked(c) \ {d} : inOrder(c, d, e)

(* Mutant: lockForAttach shares the rows.                                  *)
attachKeyShare(c, d) == Lock(c, documentRow(d), KeyShare)

(* lockForAttach                                                           *)
attachLock(c, d) == Lock(c, documentRow(d), ForUpdate)

(* The foreign keys of the rows inserted.                                  *)
keyDocument(c, d) == Lock(c, documentRow(d), KeyShare)
keyPolicy(c)      == Lock(c, parentRow(c), KeyShare)

goto(c, l) == pc' = [pc EXCEPT ![c] = l]

(* Run the statement that takes lock l, once nobody holds it off.          *)
Take(c, l, next) ==
  /\ Grantable(locks, c, l.row, l.mode)
  /\ locks' = locks \cup {l}
  /\ goto(c, next)

End(c, o) ==
  /\ goto(c, "done")
  /\ outcome' = [outcome EXCEPT ![c] = o]
  /\ locks' = Release(locks, c)
  /\ UNCHANGED <<storage, ask, records>>

quiet == UNCHANGED <<storage, outcome, ask, records>>

-----------------------------------------------------------------------------
Init ==
  /\ objects = Docs \ Late
  /\ documents = Docs \ Late
  /\ pc = [c \in Calls |-> "idle"]
  /\ outcome = [c \in Calls |-> "NONE"]
  /\ ask \in [Calls -> Asks]
  /\ committed = {} /\ active = {}
  /\ kept = [c \in Calls |-> nothing]
  /\ locks = {}

-----------------------------------------------------------------------------
(* DocumentsService.upload: the bytes, then the row.                       *)

PutObject(d) ==
  /\ d \notin objects
  /\ objects' = objects \cup {d}
  /\ UNCHANGED <<documents, pc, outcome, ask, records, locks>>

(* Mutant: the row before the bytes.                                       *)
InsertDocumentFirst(d) ==
  /\ d \notin documents
  /\ documents' = documents \cup {d}
  /\ UNCHANGED <<objects, pc, outcome, ask, records, locks>>

InsertDocument(d) ==
  /\ d \in objects \ documents
  /\ documents' = documents \cup {d}
  /\ UNCHANGED <<objects, pc, outcome, ask, records, locks>>

-----------------------------------------------------------------------------
(* The parent: submitQuote locks its delivery, issueCertificate its        *)
(* policy, requote the request it sends again; submit and notify lock      *)
(* nothing before the documents.                                           *)

Begin(c) ==
  /\ pc[c] = "idle"
  /\ goto(c, IF ask[c].kind \in {"request", "claim"} THEN "documents" ELSE "parent")
  /\ UNCHANGED locks /\ quiet

(* The caller has no such delivery, policy or request.                     *)
unknownParent(c) ==
  IF ask[c].kind = "requote"
  THEN ~ (/\ ask[c].parent \in committedOf({"request", "requote"})
          /\ ask[ask[c].parent].who = ask[c].who)
  ELSE ask[c].parent \notin ActsFor[ask[c].who]

LockParent(c) ==
  /\ pc[c] = "parent"
  /\ IF unknownParent(c)
     THEN End(c, "NOT_FOUND")
     ELSE Take(c, lockParent(c), "checkParent") /\ quiet

(* hasQuote, the policy's status, requoteLinksOf                           *)
CheckParent(c) ==
  /\ pc[c] = "checkParent"
  /\ LET done == \E b \in committedOf({ask[c].kind}) : ask[b].parent = ask[c].parent
     IN CASE ask[c].kind = "quote" /\ done -> End(c, "ALREADY_QUOTED")
          [] ask[c].kind = "requote" /\ done -> End(c, "ALREADY_REQUOTED")
          [] ask[c].kind = "certificate" /\ ask[c].parent \in active
               -> End(c, "ALREADY_ISSUED")
          [] OTHER -> /\ goto(c, IF ask[c].kind = "requote" THEN "keyWhiteBook"
                                                            ELSE "documents")
                      /\ UNCHANGED locks /\ quiet

-----------------------------------------------------------------------------
(* DocumentsService.assertAttachable and assertOwnedOfKind.                *)

(* A call names each document once; others are refused before this.        *)
LockDocument(c) ==
  /\ pc[c] = "documents" /\ unlocked(c) # {}
  /\ Take(c, attachLock(c, nextDocument(c)), "documents")
  /\ quiet

(* Every document asked for is among the rows locked.                      *)
attachable(c) ==
  \A d \in ask[c].documents : /\ d \in locked(c)
                              /\ proper(ask[c], d, ask[c].kind)
                              /\ ~referenced(d)

CheckDocuments(c) ==
  /\ pc[c] = "documents" /\ unlocked(c) = {}
  /\ IF attachable(c)
     THEN /\ goto(c, CASE ask[c].kind = "request" /\ ask[c].whiteBook # None -> "whiteBook"
                       [] ask[c].kind = "claim" -> "keyPolicy"
                       [] OTHER -> "insert")
          /\ UNCHANGED locks /\ quiet
     ELSE End(c, "DOCUMENT_NOT_ATTACHABLE")

(* The White Book is locked, but may be attached already.                  *)
LockWhiteBook(c) ==
  /\ pc[c] = "whiteBook"
  /\ LET d == ask[c].whiteBook IN
     \/ /\ d \in documents /\ proper(ask[c], d, "whiteBook")
        /\ Take(c, attachLock(c, d), "insert")
        /\ quiet
     \/ /\ ~(d \in documents /\ proper(ask[c], d, "whiteBook"))
        /\ Grantable(locks, c, documentRow(d), ForUpdate)
        /\ End(c, "DOCUMENT_NOT_ATTACHABLE")

-----------------------------------------------------------------------------
(* The record and what it attaches.                                        *)

(* A claim names the policy when it is the customer's; another's number is *)
(* dropped.                                                                *)
KeyPolicy(c) ==
  /\ pc[c] = "keyPolicy"
  /\ IF ask[c].parent \in ActsFor[ask[c].who]
     THEN Take(c, keyPolicy(c), "insert")
     ELSE goto(c, "insert") /\ UNCHANGED locks
  /\ quiet

(* activatePolicy updates only a policy that awaits its certificate; the   *)
(* other statements wait for an uncommitted rival.  The foreign keys on    *)
(* the documents are on rows the call has locked.                          *)
Insert(c) ==
  /\ pc[c] = "insert"
  /\ rivals(c) \subseteq committed
  /\ IF rivals(c) # {} \/ (ask[c].kind = "certificate" /\ ask[c].parent \in active)
     THEN End(c, IF rivals(c) # {} THEN "UNIQUE_VIOLATION" ELSE "ALREADY_ISSUED")
     ELSE goto(c, "commit") /\ UNCHANGED locks /\ quiet

(* distribute, for a request sent again: the foreign keys of the new       *)
(* request and of its photos.  The photos of a request share one           *)
(* capturedAt, so nothing orders them.                                     *)
KeyWhiteBook(c) ==
  /\ pc[c] = "keyWhiteBook"
  /\ IF whiteBook(c) = None
     THEN goto(c, "keyShots") /\ UNCHANGED locks
     ELSE Take(c, keyDocument(c, whiteBook(c)), "keyShots")
  /\ quiet

KeyShots(c) ==
  /\ pc[c] = "keyShots"
  /\ IF shots(c) \subseteq locked(c)
     THEN goto(c, "commit") /\ UNCHANGED locks
     ELSE \E d \in shots(c) \ locked(c) : Take(c, keyDocument(c, d), "keyShots")
  /\ quiet

(* A certificate makes its policy ACTIVE.                                  *)
Commit(c) ==
  /\ pc[c] = "commit"
  /\ goto(c, "done")
  /\ outcome' = [outcome EXCEPT ![c] = "CREATED"]
  /\ committed' = committed \cup {c}
  /\ kept' = IF ask[c].kind \in {"request", "requote"}
             THEN [kept EXCEPT ![c] = carried(c)] ELSE kept
  /\ active' = active \cup (IF ask[c].kind = "certificate" THEN {ask[c].parent} ELSE {})
  /\ locks' = Release(locks, c)
  /\ UNCHANGED <<storage, ask>>

(* A timeout, a lost connection, or a refusal of another statement.        *)
Fail(c) ==
  /\ pc[c] \notin {"idle", "done"}
  /\ End(c, "FAILED")

-----------------------------------------------------------------------------
Upload(d) == PutObject(d) \/ InsertDocument(d)

AttachTo(c) ==
  \/ Begin(c) \/ LockParent(c) \/ CheckParent(c)
  \/ LockDocument(c) \/ CheckDocuments(c) \/ LockWhiteBook(c)
  \/ KeyPolicy(c) \/ Insert(c) \/ KeyWhiteBook(c) \/ KeyShots(c)
  \/ Commit(c)

Next ==
  \/ \E d \in Docs : Upload(d)
  \/ \E c \in Calls : AttachTo(c) \/ Fail(c)

Spec == Init /\ [][Next]_vars

-----------------------------------------------------------------------------
(* Types; and an attached document exists, with its bytes.                 *)
TypeOK ==
  /\ documents \subseteq objects /\ objects \subseteq Docs
  /\ pc \in [Calls -> PcValues]
  /\ outcome \in [Calls -> Refusals \cup {"NONE", "CREATED", "FAILED",
                                          "UNIQUE_VIOLATION"}]
  /\ ask \in [Calls -> Asks]
  /\ committed \subseteq Calls
  /\ kept \in [Calls -> [documents : SUBSET Docs, whiteBook : Docs \cup {None}]]
  /\ active \subseteq Parents
  /\ \A l \in locks : /\ l.txn \in Calls /\ l.mode \in LockModes
                      /\ pc[l.txn] \notin {"idle", "done"}
  /\ \A c \in committedOf(CallKinds \ {"requote"}) : ask[c].documents \subseteq documents

(* The locks the next statement of c waits for, any one of them.           *)
wanted(c) ==
  CASE pc[c] = "parent" /\ ~unknownParent(c)      -> {lockParent(c)}
    [] pc[c] = "documents" /\ unlocked(c) # {}    -> {attachLock(c, nextDocument(c))}
    [] pc[c] = "whiteBook"                        -> {attachLock(c, ask[c].whiteBook)}
    [] pc[c] = "keyPolicy" /\ ask[c].parent \in ActsFor[ask[c].who]
                                                  -> {keyPolicy(c)}
    [] pc[c] = "keyWhiteBook" /\ whiteBook(c) # None
                                                  -> {keyDocument(c, whiteBook(c))}
    [] OTHER                                      -> {}

blockers(c) ==
  {l.txn : l \in {h \in locks : /\ h.txn # c
                                /\ \E w \in wanted(c) :
                                     h.row = w.row /\ Conflict(h.mode, w.mode)}}
  \cup (IF pc[c] = "insert" THEN rivals(c) \ committed ELSE {})
  \cup (IF pc[c] # "keyShots" THEN {}
        ELSE {h.txn : h \in {l \in locks :
                /\ l.txn # c
                /\ \E d \in shots(c) \ locked(c) :
                     l.row = documentRow(d) /\ Conflict(l.mode, KeyShare)}})

(* The calls name their documents in an orderly way: none names as its     *)
(* White Book what another attaches; the insurers' documents are not the   *)
(* customers'; and where requests are sent again, who names a photo of     *)
(* another call's request names that photo alone.                          *)
Orderly ==
  /\ \A b, c \in Calls : ask[b].whiteBook \notin ask[c].documents
  /\ \A b, c \in Calls :
       ask[b].kind \in {"quote", "certificate"} /\ ask[c].kind \in {"request", "claim"} =>
         ask[b].documents \cap ask[c].documents = {}
  /\ (\E a \in Calls : ask[a].kind = "requote") =>
       \A b, c \in Calls : b # c /\ ask[c].kind = "request"
                           /\ ask[b].documents \cap ask[c].documents # {} =>
         Cardinality(ask[b].documents) <= 1

(* Calls that attach documents never wait for each other in a circle: in   *)
(* any group of them one can go on without the others.                     *)
NoDeadlock ==
  \A S \in SUBSET {c \in Calls : pc[c] \notin {"idle", "done"}} :
    S # {} => \E c \in S : blockers(c) \cap S = {}

-----------------------------------------------------------------------------
(* The promise these transactions keep.                                    *)
Promise == INSTANCE Evidence WITH Proper <- proper

ImplementsEvidence == Promise!Spec

=============================================================================
