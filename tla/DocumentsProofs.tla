-------------------------- MODULE DocumentsProofs ---------------------------
(***************************************************************************)
(* Proofs about Documents, for any documents, callers and calls, and about *)
(* PhotoHandoff, for any shots, dialogs and phones.                        *)
(***************************************************************************)
EXTENDS Documents, PhotoHandoff, FiniteSetTheorems, SequenceTheorems, TLAPS

-----------------------------------------------------------------------------
(* THE INVARIANT.                                                          *)

Givers  == {"request", "claim", "quote", "certificate"}  \* they attach documents
Locking == {"quote", "requote", "certificate"}           \* they lock a parent

(* The call has checked its documents, its parent.                         *)
attaching(c) == pc[c] \in {"whiteBook", "keyPolicy", "insert", "commit"}
inParent(c)  == pc[c] \notin {"idle", "parent", "done"}
pastParent(c) == inParent(c) /\ pc[c] # "checkParent"

Holds(c, row) == \E l \in locks : l.txn = c /\ l.row = row /\ l.mode = ForUpdate

LocksExclude ==
  \A l, m \in locks : l.row = m.row /\ l.txn # m.txn => ~Conflict(l.mode, m.mode)

(* Each kind of call has statements of its own.                            *)
Path(c) ==
  /\ ask[c].kind = "requote" => pc[c] \notin {"documents", "whiteBook", "insert", "keyPolicy"}
  /\ pc[c] \in {"parent", "checkParent"} => ask[c].kind \in Locking
  /\ pc[c] \in {"keyWhiteBook", "keyShots"} => ask[c].kind = "requote"
  /\ pc[c] = "whiteBook" => ask[c].whiteBook # None
  /\ pc[c] = "keyPolicy" => ask[c].kind = "claim"

(* Documents are locked for update by who attaches them, have a row, ...   *)
DocumentLocks(c) ==
  ask[c].kind \in Givers =>
    \A l \in locks : \A d \in Docs :
      l.txn = c /\ l.row = documentRow(d) => l.mode = ForUpdate /\ d \in documents

(* ... and stay locked and free until they are attached.                   *)
Attachable(c) ==
  ask[c].kind \in Givers /\ attaching(c) =>
    /\ \A d \in ask[c].documents : /\ d \in documents /\ proper(ask[c], d, ask[c].kind)
                                   /\ Holds(c, documentRow(d))
    /\ \A b \in committedOf(Givers) : ask[c].documents \cap ask[b].documents = {}

(* So is a parent.                                                         *)
OnlyChild(c) ==
  ask[c].kind \in Locking =>
    /\ inParent(c) => Holds(c, parentRow(c))
    /\ pastParent(c) => \A b \in committedOf({ask[c].kind}) : ask[b].parent # ask[c].parent

(* What is sent again is there.                                            *)
Original(c) ==
  ask[c].kind = "requote" /\ inParent(c) => ask[c].parent \in committedOf({"request", "requote"})

WhiteBookChecked(c) ==
  pc[c] \in {"insert", "commit"} /\ ask[c].whiteBook # None => proper(ask[c], ask[c].whiteBook, "whiteBook")

Calling(c) == /\ Path(c) /\ DocumentLocks(c) /\ Attachable(c) /\ OnlyChild(c)
              /\ Original(c) /\ WhiteBookChecked(c)

Committed ==
  /\ \A c \in committed : pc[c] = "done"
  /\ \A c \in committedOf({"request"}) : kept[c] = given(c)
  /\ \A c \in committedOf({"certificate"}) : ask[c].parent \in active

IInv == TypeOK /\ LocksExclude /\ Committed /\ \A c \in Calls : Calling(c)

-----------------------------------------------------------------------------
(* HOW A CALL MOVES.                                                       *)

Outcomes == Refusals \cup {"NONE", "CREATED", "FAILED", "UNIQUE_VIOLATION"}

Granted(x) ==
  \E row : \E mode \in LockModes :
    Grantable(locks, x, row, mode) /\ locks' = locks \cup {Lock(x, row, mode)}

Ends(x) ==
  /\ goto(x, "done") /\ locks' = Release(locks, x)
  /\ \E o \in Outcomes : outcome' = [outcome EXCEPT ![x] = o]

Advances(x) ==
  /\ \E next \in PcValues \ {"idle", "done"} : goto(x, next)
  /\ UNCHANGED locks \/ Granted(x)
  /\ quiet

Does(x) == AttachTo(x) \/ Fail(x)

LEMMA Ask ==
  ASSUME TypeOK, NEW c \in Calls
  PROVE  /\ ask[c].kind \in CallKinds /\ ask[c].documents \subseteq Docs
         /\ ask[c].whiteBook \in Docs \cup {None}
         /\ ask[c].kind \in {"quote", "certificate"} => ask[c].parent \in Parents
         /\ ask[c].kind = "requote" => ask[c].parent \in Calls
         /\ ask[c].kind # "request" => ask[c].whiteBook = None
         /\ ask[c].kind \in Givers <=> ask[c].kind # "requote"
BY DocumentsAssumption DEF TypeOK, AskType, CallKinds, Givers

LEMMA Smallest ==
  ASSUME NEW W, W \subseteq Nat, W # {}
  PROVE  \E x \in W : \A y \in W : x <= y
<1> DEFINE below(x) == {y \in W : y < x}
           R == StrictSubsetOrdering(Nat)
           T == {below(x) : x \in W}
<1>1. ASSUME NEW x \in W PROVE below(x) \in FiniteSubsetsOf(Nat)
  <2>1. below(x) \in SUBSET Nat /\ \A s \in below(x) : s <= x
    <3>1. below(x) \in SUBSET Nat
      BY Zenon
    <3>2. \A s \in Nat : s < x => s <= x
      OBVIOUS
    <3> QED
      BY <3>1, <3>2, Zenon
  <2>2. x \in Nat
    OBVIOUS
  <2> HIDE DEF below
  <2>3. IsFiniteSet(below(x))
    BY <2>1, <2>2, FS_BoundedSetOfNaturals
  <2> QED
    BY <2>1, <2>3 DEF FiniteSubsetsOf
<1>2. T \subseteq FiniteSubsetsOf(Nat) /\ T # {}
  BY <1>1
<1>3. PICK B \in T : \A A \in T : <<A, B>> \notin R
  <2>1. IsWellFoundedOn(R, FiniteSubsetsOf(Nat))
    BY FS_StrictSubsetOrderingWellFounded
  <2> HIDE DEF R, T
  <2> QED
    BY <1>2, <2>1, WFMin
<1>4. PICK x \in W : B = below(x)
  BY <1>3
<1>5. ASSUME NEW y \in W, ~(x <= y)
      PROVE  FALSE
  <2>1. y \in Nat /\ x \in Nat /\ y < x
    BY <1>5
  <2>2. below(y) \subseteq below(x) /\ y \in below(x) /\ y \notin below(y)
    <3>1. \A z \in Nat : z < y => z < x
      BY <2>1
    <3>2. ~(y < y)
      BY <2>1
    <3> QED
      BY <2>1, <3>1, <3>2, Zenon
  <2>3. below(y) \in SUBSET Nat /\ below(x) \in SUBSET Nat
    OBVIOUS
  <2>4. below(y) \in T
    OBVIOUS
  <2> HIDE DEF below, T
  <2>5. below(y) # below(x)
    BY <2>2
  <2>6. <<below(y), below(x)>> \in R
    BY <2>2, <2>3, <2>5 DEF StrictSubsetOrdering
  <2> QED
    BY <1>3, <1>4, <2>4, <2>6
<1> QED
  BY <1>5

LEMMA Largest ==
  ASSUME NEW W, W \subseteq Nat, W # {}, NEW n \in Nat, \A y \in W : y <= n
  PROVE  \E x \in W : \A y \in W : y <= x
<1> DEFINE V == {n - y : y \in W}
<1>1. V \subseteq Nat /\ V # {}
  <2>1. \A y \in Nat : y <= n => n - y \in Nat
    OBVIOUS
  <2> QED
    BY <2>1, Zenon
<1>2. PICK v \in V : \A u \in V : v <= u
  BY <1>1, Smallest
<1>3. PICK x \in W : v = n - x
  BY <1>2
<1>4. ASSUME NEW y \in W PROVE y <= x
  <2>1. n - x <= n - y
    BY <1>2, <1>3
  <2> QED
    BY <2>1
<1> QED
  BY <1>4

LEMMA NextDocument ==
  ASSUME TypeOK, NEW c \in Calls, unlocked(c) # {}
  PROVE  /\ nextDocument(c) \in unlocked(c) /\ nextDocument(c) \in Docs
         /\ \A e \in unlocked(c) \ {nextDocument(c)} : inOrder(c, nextDocument(c), e)
<1> DEFINE W == {DocId[d] : d \in unlocked(c)}
<1>1. unlocked(c) \subseteq Docs
  BY Ask DEF unlocked
<1>2. W \subseteq Nat /\ W # {}
  BY <1>1, DocumentsAssumption
<1>3. PICK d \in unlocked(c) : \A e \in unlocked(c) : DocId[d] <= DocId[e]
  <2>1. PICK n \in W : \A m \in W : n <= m
    BY <1>2, Smallest
  <2> QED
    BY <2>1
<1>4. \A e \in unlocked(c) \ {d} : DocId[d] < DocId[e]
  <2> SUFFICES ASSUME NEW e \in unlocked(c), e # d PROVE DocId[d] < DocId[e]
    OBVIOUS
  <2>1. DocId[d] \in Nat /\ DocId[e] \in Nat /\ DocId[d] # DocId[e] /\ DocId[d] <= DocId[e]
    BY <1>1, <1>3, DocumentsAssumption
  <2>2. \A m, n \in Nat : m # n /\ m <= n => m < n
    OBVIOUS
  <2> QED
    BY <2>1, <2>2
<1>5. \E x \in unlocked(c) : \A e \in unlocked(c) \ {x} : inOrder(c, x, e)
  BY <1>4 DEF inOrder
<1>6. nextDocument(c) \in unlocked(c) /\ \A e \in unlocked(c) \ {nextDocument(c)} : inOrder(c, nextDocument(c), e)
  BY <1>5 DEF nextDocument
<1> QED
  BY <1>1, <1>6

LEMMA LockFields ==
  ASSUME NEW t, NEW row, NEW mode
  PROVE  /\ Lock(t, row, mode).txn = t
         /\ Lock(t, row, mode).row = row
         /\ Lock(t, row, mode).mode = mode
BY DEF Lock

LEMMA Modes ==
  /\ ForUpdate \in LockModes /\ KeyShare \in LockModes
  /\ \A m \in LockModes : Conflict(ForUpdate, m) /\ Conflict(m, ForUpdate)
  /\ \A m, n \in LockModes : Conflict(m, n) <=> Conflict(n, m)
BY DEF LockModes, Conflict

LEMMA Rows ==
  /\ \A d, e : documentRow(d) = documentRow(e) => d = e
  /\ \A d, c : documentRow(d) # parentRow(c)
  /\ \A b, c : ask[b].parent = ask[c].parent => parentRow(b) = parentRow(c)
BY DEF documentRow, parentRow

(* A statement that takes a lock.                                          *)
LEMMA TakesLock ==
  ASSUME NEW x, NEW row, NEW mode \in LockModes, NEW next \in PcValues \ {"idle", "done"},
         Take(x, Lock(x, row, mode), next), quiet
  PROVE  /\ Advances(x) /\ Grantable(locks, x, row, mode)
         /\ locks' = locks \cup {Lock(x, row, mode)}
BY LockFields DEF Take, Advances, Granted

LEMMA Ending ==
  ASSUME NEW x, NEW o \in Outcomes, End(x, o)
  PROVE  Ends(x) /\ UNCHANGED <<storage, ask, records>>
BY DEF End, Ends

LEMMA StepMoves ==
  ASSUME TypeOK, NEW x \in Calls, Does(x)
  PROVE  /\ pc[x] # "done"
         /\ Advances(x) \/ (Ends(x) /\ UNCHANGED <<storage, ask, records>>) \/ Commit(x)
<1>n. {"parent", "checkParent", "documents", "whiteBook", "insert", "keyPolicy",
       "keyWhiteBook", "keyShots", "commit"} \subseteq PcValues \ {"idle", "done"}
  BY DEF PcValues
<1>o. Refusals \cup {"FAILED", "UNIQUE_VIOLATION"} \subseteq Outcomes
  BY DEF Outcomes
<1>r. {"NOT_FOUND", "ALREADY_QUOTED", "ALREADY_ISSUED", "ALREADY_REQUOTED",
       "DOCUMENT_NOT_ATTACHABLE"} \subseteq Outcomes
  BY DEF Outcomes, Refusals
<1> USE <1>n, <1>o, <1>r
<1>1. CASE Begin(x)
  BY <1>1 DEF Begin, Advances
<1>2. CASE LockParent(x)
  BY <1>2, TakesLock, Modes, Ending DEF LockParent, lockParent
<1>3. CASE CheckParent(x)
  <2>1. \/ \E o \in {"ALREADY_QUOTED", "ALREADY_ISSUED", "ALREADY_REQUOTED"} : End(x, o)
        \/ (\E next \in {"keyWhiteBook", "documents"} : goto(x, next)) /\ UNCHANGED locks /\ quiet
    BY <1>3 DEF CheckParent
  <2> QED
    BY <1>3, <2>1, Ending DEF CheckParent, Advances
<1>4. CASE LockDocument(x)
  BY <1>4, TakesLock, Modes DEF LockDocument, attachLock
<1>5. CASE CheckDocuments(x)
  <2>1. \/ End(x, "DOCUMENT_NOT_ATTACHABLE")
        \/ (\E next \in {"whiteBook", "keyPolicy", "insert"} : goto(x, next)) /\ UNCHANGED locks /\ quiet
    BY <1>5 DEF CheckDocuments
  <2> QED
    BY <1>5, <2>1, Ending DEF CheckDocuments, Advances
<1>6. CASE LockWhiteBook(x)
  BY <1>6, TakesLock, Modes, Ending DEF LockWhiteBook, attachLock
<1>7. CASE KeyPolicy(x)
  BY <1>7, TakesLock, Modes DEF KeyPolicy, keyPolicy, Advances
<1>8. CASE Insert(x)
  <2>1. \/ \E o \in {"UNIQUE_VIOLATION", "ALREADY_ISSUED"} : End(x, o)
        \/ goto(x, "commit") /\ UNCHANGED locks /\ quiet
    BY <1>8 DEF Insert
  <2> QED
    BY <1>8, <2>1, Ending DEF Insert, Advances
<1>9. CASE KeyWhiteBook(x)
  BY <1>9, TakesLock, Modes DEF KeyWhiteBook, keyDocument, Advances
<1>10. CASE KeyShots(x)
  BY <1>10, TakesLock, Modes DEF KeyShots, keyDocument, Advances
<1>11. CASE Commit(x)
  BY <1>11 DEF Commit
<1>12. CASE Fail(x)
  BY <1>12, Ending DEF Fail
<1> QED
  BY <1>1, <1>2, <1>3, <1>4, <1>5, <1>6, <1>7, <1>8, <1>9, <1>10, <1>11, <1>12
     DEF Does, AttachTo

(* What a step of x leaves to the others.                                  *)
LEMMA Others ==
  ASSUME TypeOK, NEW x \in Calls, Does(x)
  PROVE  /\ UNCHANGED <<storage, ask>>
         /\ \A y \in Calls : y # x => pc'[y] = pc[y]
         /\ \A l : l.txn # x => (l \in locks' <=> l \in locks)
         /\ pc'[x] # "idle"
         /\ pc'[x] # "done" => locks \subseteq locks'
<1>1. CASE Advances(x)
  <2>1. \A l : l.txn # x => (l \in locks' <=> l \in locks)
    BY <1>1, LockFields DEF Advances, Granted
  <2>2. PICK next \in PcValues \ {"idle", "done"} : pc' = [pc EXCEPT ![x] = next]
    BY <1>1 DEF Advances, goto
  <2> QED
    BY <1>1, <2>1, <2>2 DEF Advances, Granted, quiet, TypeOK
<1>2. CASE pc' = [pc EXCEPT ![x] = "done"] /\ locks' = Release(locks, x) /\ UNCHANGED <<storage, ask>>
  BY <1>2 DEF Release, TypeOK
<1> QED
  BY <1>1, <1>2, StepMoves DEF Ends, Commit, goto

LEMMA ExcludeKept ==
  ASSUME TypeOK, LocksExclude, NEW x \in Calls, Does(x)
  PROVE  LocksExclude' /\ \A l \in locks' : l.txn \in Calls /\ l.mode \in LockModes
<1>1. CASE UNCHANGED locks
  BY <1>1 DEF LocksExclude, TypeOK
<1>2. CASE Granted(x)
  <2>0. PICK row : \E mode \in LockModes :
          Grantable(locks, x, row, mode) /\ locks' = locks \cup {Lock(x, row, mode)}
    BY <1>2 DEF Granted
  <2>1. PICK mode \in LockModes :
          Grantable(locks, x, row, mode) /\ locks' = locks \cup {Lock(x, row, mode)}
    BY <2>0
  <2>2. PICK k : k = Lock(x, row, mode)
    OBVIOUS
  <2>3. /\ k.txn = x /\ k.row = row /\ k.mode = mode
        /\ \A l \in locks : l.row = k.row /\ l.txn # k.txn =>
             ~Conflict(l.mode, k.mode) /\ ~Conflict(k.mode, l.mode)
    BY <2>1, <2>2, LockFields, Modes DEF Grantable, TypeOK
  <2> QED
    BY <2>1, <2>2, <2>3 DEF LocksExclude, TypeOK
<1>3. CASE locks' = Release(locks, x)
  BY <1>3 DEF Release, LocksExclude, TypeOK
<1> QED
  BY <1>1, <1>2, <1>3, StepMoves DEF Advances, Ends, Commit

-----------------------------------------------------------------------------
(* WHAT IS COMMITTED.                                                      *)

LEMMA Stays ==
  ASSUME TypeOK, NEW x \in Calls, Does(x), ~Commit(x)
  PROVE  UNCHANGED <<storage, ask, records>>
BY StepMoves DEF Advances, quiet

LEMMA Commits ==
  ASSUME TypeOK, NEW x \in Calls, Commit(x)
  PROVE  /\ pc[x] = "commit" /\ pc' = [pc EXCEPT ![x] = "done"]
         /\ UNCHANGED <<storage, ask>>
         /\ committed' = committed \cup {x}
         /\ \A K : committedOf(K)' = committedOf(K) \cup {c \in {x} : ask[c].kind \in K}
         /\ \A y \in Calls : y # x => kept'[y] = kept[y]
         /\ ask[x].kind \in {"request", "requote"} => kept'[x] = carried(x)
         /\ active \subseteq active'
         /\ ask[x].kind = "certificate" => ask[x].parent \in active'
         /\ \A p \in active' : p \in active \/ (ask[x].kind = "certificate" /\ p = ask[x].parent)
<1>1. /\ pc[x] = "commit" /\ pc' = [pc EXCEPT ![x] = "done"]
      /\ UNCHANGED <<storage, ask>> /\ committed' = committed \cup {x}
  BY DEF Commit, goto
<1>2. \A K : committedOf(K)' = committedOf(K) \cup {c \in {x} : ask[c].kind \in K}
  BY <1>1 DEF committedOf
<1>3. /\ \A y \in Calls : y # x => kept'[y] = kept[y]
      /\ ask[x].kind \in {"request", "requote"} => kept'[x] = carried(x)
  BY DEF Commit, TypeOK
<1>4. active' = active \cup (IF ask[x].kind = "certificate" THEN {ask[x].parent} ELSE {})
  BY DEF Commit
<1> QED
  BY <1>1, <1>2, <1>3, <1>4

LEMMA CommittedKept ==
  ASSUME IInv, NEW x \in Calls, Does(x)
  PROVE  Committed'
<1> USE DEF IInv
<1>1. CASE ~Commit(x)
  <2>1. UNCHANGED <<storage, ask, records>>
    BY <1>1, Stays
  <2>2. \A c \in committed : pc'[c] = "done"
    BY Others, StepMoves DEF Committed, TypeOK
  <2> QED
    BY <2>1, <2>2 DEF Committed, committedOf, given, records
<1>2. CASE Commit(x)
  <2>0. committed' = committed \cup {x} /\ pc' = [pc EXCEPT ![x] = "done"]
    BY <1>2, Commits
  <2>1. \A c \in committed' : pc'[c] = "done"
    BY <2>0 DEF Committed, TypeOK
  <2>2. ask[x].kind = "request" => kept'[x] = given(x)
    BY <1>2, Commits DEF carried
  <2>3. \A c \in committedOf({"request"})' : kept'[c] = given(c)'
    <3>1. \A c : given(c)' = given(c)
      BY <1>2, Commits DEF given
    <3>2. \A c \in committedOf({"request"}) : c # x /\ c \in Calls
      BY <1>2, Commits DEF committedOf, Committed, TypeOK
    <3> QED
      BY <1>2, <2>2, <3>1, <3>2, Commits DEF Committed
  <2>4. \A c \in committedOf({"certificate"})' : ask'[c].parent \in active'
    BY <1>2, Commits DEF Committed
  <2> QED
    BY <2>1, <2>3, <2>4 DEF Committed
<1> QED
  BY <1>1, <1>2

LEMMA TypesStep ==
  ASSUME IInv, NEW x \in Calls, Does(x)
  PROVE  TypeOK'
<1> USE DEF IInv
<1>1. UNCHANGED <<documents, objects, ask>> /\ pc' \in [Calls -> PcValues]
  <2>1. \E next \in PcValues : pc' = [pc EXCEPT ![x] = next]
    BY StepMoves DEF Advances, Ends, Commit, goto, PcValues
  <2> QED
    BY <2>1, Others DEF storage, TypeOK
<1>2. outcome' \in [Calls -> Outcomes]
  BY StepMoves DEF Advances, Ends, Commit, quiet, TypeOK, Outcomes
<1>3. \A l \in locks' : l.txn \in Calls /\ l.mode \in LockModes /\ pc'[l.txn] \notin {"idle", "done"}
  <2>1. pc'[x] = "done" => \A l \in locks' : l.txn # x
    <3>1. ASSUME NEW next \in PcValues \ {"idle", "done"}, goto(x, next) PROVE pc'[x] # "done"
      BY <3>1 DEF goto, TypeOK
    <3>2. Advances(x) \/ locks' = Release(locks, x)
      BY StepMoves DEF Ends, Commit
    <3> QED
      BY <3>1, <3>2 DEF Advances, Release
  <2> QED
    BY <2>1, Others, ExcludeKept DEF TypeOK
<1>4. /\ committed' \subseteq Calls /\ active' \subseteq Parents
      /\ kept' \in [Calls -> [documents : SUBSET Docs, whiteBook : Docs \cup {None}]]
      /\ \A c \in committedOf(CallKinds \ {"requote"})' : ask'[c].documents \subseteq documents'
  <2>1. CASE ~Commit(x)
    BY <2>1, <1>1, Stays DEF records, TypeOK, committedOf
  <2>2. CASE Commit(x)
    <3>0. /\ committed' = committed \cup {x}
          /\ committedOf(CallKinds \ {"requote"})' \subseteq
               committedOf(CallKinds \ {"requote"}) \cup {c \in {x} : ask[c].kind # "requote"}
      BY <2>2, Commits
    <3>1. committed' \subseteq Calls /\ active' \subseteq Parents
      <4>1. \A p \in active' : p \in active \/ (ask[x].kind = "certificate" /\ p = ask[x].parent)
        BY <2>2, Commits
      <4> QED
        BY <3>0, <4>1, Ask DEF TypeOK
    <3>2. carried(x) \in [documents : SUBSET Docs, whiteBook : Docs \cup {None}]
      BY Ask DEF carried, given, TypeOK
    <3>3. kept' \in [Calls -> [documents : SUBSET Docs, whiteBook : Docs \cup {None}]]
      BY <2>2, <3>2 DEF Commit, TypeOK
    <3>4. ask[x].kind \in Givers => ask[x].documents \subseteq documents
      BY <2>2, Commits DEF Calling, Attachable, attaching
    <3>5. \A c \in committedOf(CallKinds \ {"requote"})' : ask'[c].documents \subseteq documents'
      BY <1>1, <3>0, <3>4, Ask DEF TypeOK
    <3> QED
      BY <3>1, <3>3, <3>5
  <2> QED
    BY <2>1, <2>2
<1> QED
  BY <1>1, <1>2, <1>3, <1>4 DEF TypeOK, Outcomes

-----------------------------------------------------------------------------
(* WHAT A CALL LEAVES TO THE OTHERS.                                       *)

LEMMA NotBoth ==
  ASSUME LocksExclude, NEW b, NEW c, b # c, NEW row, Holds(b, row), Holds(c, row)
  PROVE  FALSE
BY DEF Holds, LocksExclude, Conflict

LEMMA OthersCall ==
  ASSUME IInv, NEW x \in Calls, Does(x), NEW y \in Calls, y # x
  PROVE  Calling(y)'
<1> USE DEF IInv
<1>1. /\ UNCHANGED <<documents, ask>> /\ pc'[y] = pc[y]
      /\ \A l : l.txn = y => (l \in locks' <=> l \in locks)
      /\ TypeOK'
  BY Others, TypesStep DEF storage
<1>2. \A row : Holds(y, row) => Holds(y, row)'
  BY <1>1 DEF Holds
<1>3. Calling(y)
  OBVIOUS
<1>4. \/ committed' = committed
      \/ pc[x] = "commit" /\ committed' = committed \cup {x}
  BY Stays, Commits DEF records
<1>5. committed \subseteq committed'
  BY <1>4
<1>6. Path(y)' /\ DocumentLocks(y)' /\ Original(y)' /\ WhiteBookChecked(y)'
  BY <1>1, <1>3, <1>5 DEF Calling, Path, DocumentLocks, Original, WhiteBookChecked, inParent,
       committedOf, documentRow, proper
<1>7. Attachable(y)'
  <2> SUFFICES ASSUME ask[y].kind \in Givers, attaching(y)
               PROVE  /\ \A d \in ask[y].documents :
                           d \in documents /\ proper(ask[y], d, ask[y].kind) /\ Holds(y, documentRow(d))'
                      /\ \A b \in committedOf(Givers)' : ask[y].documents \cap ask[b].documents = {}
    BY <1>1 DEF Attachable, attaching, proper, committedOf
  <2>1. /\ \A d \in ask[y].documents :
             d \in documents /\ proper(ask[y], d, ask[y].kind) /\ Holds(y, documentRow(d))
        /\ \A b \in committedOf(Givers) : ask[y].documents \cap ask[b].documents = {}
    BY <1>3 DEF Calling, Attachable
  <2>2. pc[x] = "commit" /\ ask[x].kind \in Givers => ask[y].documents \cap ask[x].documents = {}
    <3> SUFFICES ASSUME pc[x] = "commit", ask[x].kind \in Givers,
                        NEW d \in ask[y].documents, d \in ask[x].documents
                 PROVE  FALSE
      OBVIOUS
    <3>1. Holds(y, documentRow(d)) /\ Holds(x, documentRow(d))
      BY <2>1 DEF Calling, Attachable, attaching
    <3> QED
      BY <3>1, NotBoth
  <2>3. \A d : Holds(y, documentRow(d)) => Holds(y, documentRow(d))'
    BY <1>2 DEF documentRow
  <2> QED
    BY <1>1, <1>4, <2>1, <2>2, <2>3 DEF committedOf
<1>8. OnlyChild(y)'
  <2> SUFFICES ASSUME ask[y].kind \in Locking
               PROVE  /\ inParent(y) => Holds(y, parentRow(y))'
                      /\ pastParent(y) =>
                           \A b \in committedOf({ask[y].kind})' : ask[b].parent # ask[y].parent
    BY <1>1 DEF OnlyChild, inParent, pastParent, committedOf
  <2>1. /\ inParent(y) => Holds(y, parentRow(y))
        /\ pastParent(y) => \A b \in committedOf({ask[y].kind}) : ask[b].parent # ask[y].parent
    BY <1>3 DEF Calling, OnlyChild
  <2>2. parentRow(y)' = parentRow(y)
    BY <1>1 DEF parentRow
  <2>3. inParent(y) => Holds(y, parentRow(y))'
    BY <1>2, <2>1, <2>2 DEF Holds
  <2>4. ASSUME pastParent(y), pc[x] = "commit", ask[x].kind = ask[y].kind
        PROVE  ask[x].parent # ask[y].parent
    <3>1. Holds(x, parentRow(x)) /\ Holds(y, parentRow(y))
      BY <2>1, <2>4 DEF Calling, OnlyChild, inParent, pastParent
    <3> QED
      BY <3>1, NotBoth, Rows
  <2> QED
    BY <1>1, <1>4, <2>1, <2>3, <2>4 DEF committedOf
<1> QED
  BY <1>6, <1>7, <1>8 DEF Calling

-----------------------------------------------------------------------------
(* WHAT A CALL BRINGS ABOUT ITSELF.                                        *)

(* A call that ends holds nothing and is nowhere.                          *)
LEMMA Ended ==
  ASSUME TypeOK, NEW x \in Calls, pc'[x] = "done", locks' = Release(locks, x)
  PROVE  Calling(x)'
<1>1. \A l \in locks' : l.txn # x
  BY DEF Release
<1> QED
  BY <1>1 DEF Calling, Path, DocumentLocks, Attachable, OnlyChild, Original, WhiteBookChecked,
       attaching, inParent, pastParent

(* A call that goes on keeps what it holds and has seen.                   *)
LEMMA Going ==
  ASSUME IInv, NEW x \in Calls, Advances(x), Path(x)',
         \/ UNCHANGED locks
         \/ \E row, mode : /\ locks' = locks \cup {Lock(x, row, mode)}
                           /\ \/ ask[x].kind = "requote"
                              \/ mode = ForUpdate /\ \A d : row = documentRow(d) => d \in documents
                              \/ \A d : row # documentRow(d),
         attaching(x)' => attaching(x) \/ Attachable(x)',
         inParent(x)' /\ ask[x].kind \in Locking => inParent(x) \/ Holds(x, parentRow(x))',
         inParent(x)' => inParent(x) \/ Original(x)',
         pastParent(x)' /\ ask[x].kind \in Locking =>
           pastParent(x) \/ \A b \in committedOf({ask[x].kind}) : ask[b].parent # ask[x].parent,
         WhiteBookChecked(x)'
  PROVE  Calling(x)'
<1> USE DEF IInv
<1>1. UNCHANGED <<objects, documents, ask, committed>> /\ locks \subseteq locks'
  BY DEF Advances, quiet, storage, records, Granted
<1>2. Calling(x) /\ \A row : Holds(x, row) => Holds(x, row)'
  BY <1>1 DEF Holds
<1>3. DocumentLocks(x)'
  <2>1. CASE locks' = locks
    BY <1>1, <1>2, <2>1 DEF Calling, DocumentLocks, documentRow
  <2>2. CASE locks' # locks
    <3>0. PICK row : \E mode : /\ locks' = locks \cup {Lock(x, row, mode)}
                               /\ \/ ask[x].kind = "requote"
                                  \/ mode = ForUpdate /\ \A d : row = documentRow(d) => d \in documents
                                  \/ \A d : row # documentRow(d)
      BY <2>2
    <3>1. PICK mode : /\ locks' = locks \cup {Lock(x, row, mode)}
                      /\ \/ ask[x].kind = "requote"
                         \/ mode = ForUpdate /\ \A d : row = documentRow(d) => d \in documents
                         \/ \A d : row # documentRow(d)
      BY <3>0
    <3>2. PICK k : k = Lock(x, row, mode)
      OBVIOUS
    <3>3. k.row = row /\ k.mode = mode
      BY <3>2, LockFields
    <3>4. ask[x].kind \in Givers => ask[x].kind # "requote"
      BY Ask
    <3>5. \A d : documentRow(d)' = documentRow(d)
      BY DEF documentRow
    <3> QED
      BY <1>1, <1>2, <3>1, <3>2, <3>3, <3>4, <3>5 DEF Calling, DocumentLocks
  <2> QED
    BY <2>1, <2>2
<1>4. Attachable(x)'
  <2>1. CASE attaching(x)
    <3>1. \A d : Holds(x, documentRow(d)) => Holds(x, documentRow(d))'
      BY <1>2 DEF documentRow
    <3> QED
      BY <1>1, <1>2, <2>1, <3>1 DEF Calling, Attachable, proper, committedOf
  <2>2. CASE ~attaching(x)'
    BY <2>2 DEF Attachable
  <2> QED
    BY <2>1, <2>2
<1>5. OnlyChild(x)'
  <2>1. Holds(x, parentRow(x)) => Holds(x, parentRow(x))'
    BY <1>1 DEF Holds, parentRow
  <2> QED
    BY <1>1, <1>2, <2>1 DEF Calling, OnlyChild, pastParent, committedOf
<1>6. Original(x)'
  BY <1>1, <1>2 DEF Calling, Original, committedOf
<1> QED
  BY <1>3, <1>4, <1>5, <1>6 DEF Calling

LEMMA NowAt ==
  ASSUME TypeOK, NEW x \in Calls, NEW next, goto(x, next)
  PROVE  pc'[x] = next
BY DEF goto, TypeOK

LEMMA HoldsNow ==
  ASSUME NEW x, NEW row, locks' = locks \cup {Lock(x, row, ForUpdate)}
  PROVE  Holds(x, row)'
<1>1. PICK k : k = Lock(x, row, ForUpdate)
  OBVIOUS
<1>2. k \in locks' /\ k.txn = x /\ k.row = row /\ k.mode = ForUpdate
  BY <1>1, LockFields
<1> QED
  BY <1>2 DEF Holds

LEMMA OwnCall ==
  ASSUME IInv, NEW x \in Calls, Does(x)
  PROVE  Calling(x)'
<1> USE DEF IInv
<1>u. UNCHANGED <<storage, ask>>
  BY Others
<1>k. /\ ask[x].kind \in CallKinds
      /\ ask[x].kind \notin Locking => ask[x].kind \in {"request", "claim"}
      /\ ask[x].kind \in Givers <=> ask[x].kind # "requote"
      /\ ask[x].kind # "request" => ask[x].whiteBook = None
  BY Ask DEF CallKinds, Locking
<1>x. Calling(x)
  OBVIOUS
<1>1. CASE Begin(x)
  <2>1. /\ pc[x] = "idle" /\ UNCHANGED locks /\ quiet
        /\ ask[x].kind \in {"request", "claim"} => goto(x, "documents")
        /\ ask[x].kind \notin {"request", "claim"} => goto(x, "parent")
    BY <1>1 DEF Begin
  <2>2. /\ ask[x].kind \in {"request", "claim"} => pc'[x] = "documents"
        /\ ask[x].kind \notin {"request", "claim"} => pc'[x] = "parent"
    BY <2>1, NowAt
  <2>3. Advances(x)
    BY <2>1 DEF Advances, PcValues
  <2>5. Path(x)' /\ ~attaching(x)' /\ WhiteBookChecked(x)'
    BY <1>u, <1>k, <2>2 DEF Path, attaching, WhiteBookChecked, Locking
  <2>6. inParent(x)' => ask[x].kind \in {"request", "claim"}
    BY <2>2 DEF inParent
  <2>7. ask[x].kind \in {"request", "claim"} => ask[x].kind \notin Locking /\ Original(x)'
    BY <1>u DEF Original, Locking
  <2> QED
    BY <2>1, <2>3, <2>5, <2>6, <2>7, Going DEF pastParent
<1>2. CASE LockParent(x)
  <2>1. CASE End(x, "NOT_FOUND")
    BY <2>1, Ended, NowAt DEF End
  <2>2. CASE ~unknownParent(x) /\ Take(x, lockParent(x), "checkParent") /\ quiet
    <3>1. /\ Advances(x) /\ locks' = locks \cup {Lock(x, parentRow(x), ForUpdate)}
      BY <2>2, TakesLock, Modes DEF lockParent, PcValues
    <3>2. pc[x] = "parent" /\ pc'[x] = "checkParent"
      BY <1>2, <2>2, NowAt DEF LockParent, Take
    <3>3. Holds(x, parentRow(x))'
      <4>1. PICK row : row = parentRow(x)
        OBVIOUS
      <4>2. Holds(x, row)'
        BY <3>1, <4>1, HoldsNow
      <4>3. parentRow(x)' = row
        BY <1>u, <4>1 DEF parentRow
      <4> QED
        BY <4>2, <4>3 DEF Holds
    <3>4. Original(x)'
      BY <1>u, <2>2 DEF Original, unknownParent, quiet, records, committedOf
    <3>5. Path(x)' /\ ~attaching(x)' /\ WhiteBookChecked(x)' /\ ~pastParent(x)'
      BY <1>u, <1>x, <3>2 DEF Calling, Path, attaching, WhiteBookChecked, pastParent
    <3>6. \A d : parentRow(x) # documentRow(d)
      BY Rows
    <3> QED
      BY <3>1, <3>3, <3>4, <3>5, <3>6, Going
  <2> QED
    BY <1>2, <2>1, <2>2 DEF LockParent
<1>3. CASE CheckParent(x)
  <2>1. ASSUME NEW o, End(x, o) PROVE Calling(x)'
    BY <2>1, Ended, NowAt DEF End
  <2> DEFINE done == \E b \in committedOf({ask[x].kind}) : ask[b].parent = ask[x].parent
  <2>2. ASSUME ~(ask[x].kind = "quote" /\ done), ~(ask[x].kind = "requote" /\ done),
               ~(ask[x].kind = "certificate" /\ ask[x].parent \in active),
               ask[x].kind = "requote" => goto(x, "keyWhiteBook"),
               ask[x].kind # "requote" => goto(x, "documents"),
               UNCHANGED locks, quiet
        PROVE  Calling(x)'
    <3>1. /\ ask[x].kind = "requote" => pc'[x] = "keyWhiteBook"
          /\ ask[x].kind # "requote" => pc'[x] = "documents"
      BY <2>2, NowAt
    <3>2. Advances(x) /\ pc[x] = "checkParent"
      BY <1>3, <2>2 DEF Advances, PcValues, CheckParent
    <3>3. ask[x].kind \in Locking =>
            \A b \in committedOf({ask[x].kind}) : ask[b].parent # ask[x].parent
      BY <2>2 DEF Committed, committedOf, Locking
    <3>4. Path(x)' /\ ~attaching(x)' /\ WhiteBookChecked(x)' /\ inParent(x)
      BY <1>u, <3>1, <3>2 DEF Path, attaching, WhiteBookChecked, inParent
    <3> QED
      BY <2>2, <3>2, <3>3, <3>4, Going
  <2>3. \/ \E o : End(x, o)
        \/ /\ ~(ask[x].kind = "quote" /\ done) /\ ~(ask[x].kind = "requote" /\ done)
           /\ ~(ask[x].kind = "certificate" /\ ask[x].parent \in active)
           /\ ask[x].kind = "requote" => goto(x, "keyWhiteBook")
           /\ ask[x].kind # "requote" => goto(x, "documents")
           /\ UNCHANGED locks /\ quiet
    BY <1>3 DEF CheckParent
  <2> QED
    BY <2>1, <2>2, <2>3
<1>4. CASE LockDocument(x)
  <2>0. PICK row : row = documentRow(nextDocument(x))
    OBVIOUS
  <2>1. Advances(x) /\ locks' = locks \cup {Lock(x, row, ForUpdate)}
    BY <1>4, <2>0, TakesLock, Modes DEF LockDocument, attachLock, PcValues
  <2>2. pc[x] = "documents" /\ pc'[x] = "documents"
    BY <1>4, NowAt DEF LockDocument, Take
  <2>3. Path(x)' /\ ~attaching(x)' /\ WhiteBookChecked(x)' /\ inParent(x) /\ pastParent(x)
    BY <1>u, <1>x, <2>2 DEF Calling, Path, attaching, WhiteBookChecked, inParent, pastParent
  <2>4. \A d : row = documentRow(d) => d \in documents
    BY <1>4, <2>0, NextDocument, Rows DEF LockDocument, unlocked
  <2> QED
    BY <2>1, <2>3, <2>4, Going
<1>5. CASE CheckDocuments(x)
  <2>1. CASE End(x, "DOCUMENT_NOT_ATTACHABLE")
    BY <2>1, Ended, NowAt DEF End
  <2>2. ASSUME attachable(x),
               \/ goto(x, "whiteBook") /\ ask[x].kind = "request" /\ ask[x].whiteBook # None
               \/ goto(x, "keyPolicy") /\ ask[x].kind = "claim"
               \/ goto(x, "insert") /\ ~(ask[x].kind = "request" /\ ask[x].whiteBook # None),
               UNCHANGED locks, quiet
        PROVE  Calling(x)'
    <3>1. /\ pc[x] = "documents" /\ unlocked(x) = {}
      BY <1>5 DEF CheckDocuments
    <3>2. ask[x].kind \in Givers
      BY <1>k, <1>x, <3>1 DEF Calling, Path
    <3>3. \A d \in ask[x].documents : Holds(x, documentRow(d))
      <4> SUFFICES ASSUME NEW d \in ask[x].documents PROVE Holds(x, documentRow(d))
        OBVIOUS
      <4>1. d \in Docs /\ d \in locked(x)
        BY <2>2 DEF attachable, locked
      <4> QED
        BY <3>2, <1>x, <4>1 DEF locked, Calling, DocumentLocks, Holds
    <3>4. \A d \in ask[x].documents : \A b \in committedOf(Givers) : d \notin ask[b].documents
      <4> SUFFICES ASSUME NEW d \in ask[x].documents, NEW b \in committedOf(Givers),
                          d \in ask[b].documents
                   PROVE  FALSE
        OBVIOUS
      <4>1. ~referenced(d)
        BY <2>2 DEF attachable
      <4>2. CASE ask[b].kind # "request"
        BY <4>1, <4>2 DEF referenced, committedOf, Givers
      <4>3. CASE ask[b].kind = "request"
        <5>1. b \in committedOf({"request"}) /\ b \in committedOf({"request", "requote"})
          BY <4>3 DEF committedOf
        <5>0. kept[b] = given(b)
          BY <5>1 DEF Committed
        <5>2. kept[b].documents = ask[b].documents
          BY <5>0 DEF given
        <5> QED
          BY <4>1, <5>1, <5>2 DEF referenced
      <4> QED
        BY <4>2, <4>3
    <3>5. Attachable(x)'
      <4>1. \A d : Holds(x, documentRow(d)) => Holds(x, documentRow(d))'
        BY <2>2 DEF Holds, documentRow
      <4>2. \A d \in ask[x].documents : d \in documents
        BY <1>x, <3>2, <2>2 DEF attachable, locked, Calling, DocumentLocks
      <4> QED
        BY <1>u, <2>2, <3>3, <3>4, <4>1, <4>2 DEF Attachable, attachable, proper, storage, quiet, records,
             committedOf
    <3>6. /\ pc'[x] \in {"whiteBook", "keyPolicy", "insert"}
          /\ pc'[x] = "insert" => ask[x].whiteBook = None
          /\ pc'[x] = "whiteBook" => ask[x].whiteBook # None
          /\ pc'[x] = "keyPolicy" => ask[x].kind = "claim"
      BY <2>2, <1>k, NowAt
    <3>7. Advances(x)
      BY <2>2 DEF Advances, PcValues
    <3>8. Path(x)' /\ WhiteBookChecked(x)' /\ inParent(x) /\ pastParent(x)
      BY <1>u, <1>k, <3>1, <3>2, <3>6 DEF Path, WhiteBookChecked, inParent, pastParent
    <3> QED
      BY <2>2, <3>5, <3>7, <3>8, Going
  <2>3. \/ End(x, "DOCUMENT_NOT_ATTACHABLE")
        \/ /\ attachable(x) /\ UNCHANGED locks /\ quiet
           /\ \/ goto(x, "whiteBook") /\ ask[x].kind = "request" /\ ask[x].whiteBook # None
              \/ goto(x, "keyPolicy") /\ ask[x].kind = "claim"
              \/ goto(x, "insert") /\ ~(ask[x].kind = "request" /\ ask[x].whiteBook # None)
    BY <1>5 DEF CheckDocuments
  <2> QED
    BY <2>1, <2>2, <2>3
<1>6. CASE LockWhiteBook(x)
  <2>1. CASE End(x, "DOCUMENT_NOT_ATTACHABLE")
    BY <2>1, Ended, NowAt DEF End
  <2>2. CASE /\ ask[x].whiteBook \in documents /\ proper(ask[x], ask[x].whiteBook, "whiteBook")
             /\ Take(x, attachLock(x, ask[x].whiteBook), "insert") /\ quiet
    <3>0. PICK row : row = documentRow(ask[x].whiteBook)
      OBVIOUS
    <3>1. Advances(x) /\ locks' = locks \cup {Lock(x, row, ForUpdate)}
      BY <2>2, <3>0, TakesLock, Modes DEF attachLock, PcValues
    <3>2. pc[x] = "whiteBook" /\ pc'[x] = "insert"
      BY <1>6, <2>2, NowAt DEF LockWhiteBook, Take
    <3>3. Path(x)' /\ WhiteBookChecked(x)' /\ attaching(x) /\ inParent(x) /\ pastParent(x)
      BY <1>u, <1>x, <2>2, <3>2 DEF Calling, Path, attaching, WhiteBookChecked, inParent, pastParent,
           proper
    <3>4. \A d : row = documentRow(d) => d \in documents
      BY <2>2, <3>0, Rows
    <3> QED
      BY <3>1, <3>3, <3>4, Going
  <2> QED
    BY <1>6, <2>1, <2>2 DEF LockWhiteBook
<1>7. CASE KeyPolicy(x)
  <2>1. pc[x] = "keyPolicy" /\ pc'[x] = "insert"
    BY <1>7, NowAt DEF KeyPolicy, Take
  <2>2. Advances(x)
    BY <1>7, TakesLock, Modes DEF KeyPolicy, keyPolicy, Advances, PcValues
  <2>3. UNCHANGED locks \/ locks' = locks \cup {Lock(x, parentRow(x), KeyShare)}
    BY <1>7 DEF KeyPolicy, keyPolicy, Take
  <2>4. \A d : parentRow(x) # documentRow(d)
    BY Rows
  <2>5. Path(x)' /\ WhiteBookChecked(x)' /\ attaching(x) /\ inParent(x) /\ pastParent(x)
    <3>1. ask[x].whiteBook = None
      BY <1>x, <1>k, <2>1 DEF Calling, Path
    <3> QED
      BY <1>u, <1>x, <2>1, <3>1 DEF Calling, Path, attaching, WhiteBookChecked, inParent, pastParent
  <2> QED
    BY <2>2, <2>3, <2>4, <2>5, Going
<1>8. CASE Insert(x)
  <2>1. ASSUME NEW o, End(x, o) PROVE Calling(x)'
    BY <2>1, Ended, NowAt DEF End
  <2>2. CASE goto(x, "commit") /\ UNCHANGED locks /\ quiet
    <3>1. pc[x] = "insert" /\ pc'[x] = "commit"
      BY <1>8, <2>2, NowAt DEF Insert
    <3>2. Path(x)' /\ WhiteBookChecked(x)' /\ attaching(x) /\ inParent(x) /\ pastParent(x)
      BY <1>u, <1>x, <3>1 DEF Calling, Path, attaching, WhiteBookChecked, inParent, pastParent, proper
    <3>3. Advances(x)
      BY <2>2 DEF Advances, PcValues
    <3> QED
      BY <2>2, <3>2, <3>3, Going
  <2> QED
    BY <1>8, <2>1, <2>2 DEF Insert
<1>9. CASE KeyWhiteBook(x) \/ KeyShots(x)
  <2>1. pc[x] \in {"keyWhiteBook", "keyShots"} /\ pc'[x] \in {"keyShots", "commit"}
    BY <1>9, NowAt DEF KeyWhiteBook, KeyShots, Take
  <2>2. Advances(x)
    BY <1>9, TakesLock, Modes DEF KeyWhiteBook, KeyShots, keyDocument, Advances, PcValues
  <2>3. UNCHANGED locks \/ \E row, mode : locks' = locks \cup {Lock(x, row, mode)}
    BY <1>9 DEF KeyWhiteBook, KeyShots, keyDocument, Take
  <2>4. ask[x].kind = "requote" /\ ask[x].whiteBook = None
    BY <1>x, <1>k, <2>1 DEF Calling, Path
  <2>5. Path(x)' /\ WhiteBookChecked(x)' /\ Attachable(x)' /\ inParent(x) /\ pastParent(x)
    BY <1>u, <1>k, <2>1, <2>4 DEF Path, Attachable, WhiteBookChecked, inParent, pastParent
  <2> QED
    BY <2>2, <2>3, <2>4, <2>5, Going
<1>10. CASE Commit(x)
  BY <1>10, Ended, NowAt DEF Commit
<1>11. CASE Fail(x)
  BY <1>11, Ended, NowAt DEF Fail, End
<1> QED
  BY <1>1, <1>2, <1>3, <1>4, <1>5, <1>6, <1>7, <1>8, <1>9, <1>10, <1>11 DEF Does, AttachTo

-----------------------------------------------------------------------------
(* THE INVARIANT HOLDS.                                                    *)

LEMMA Uploads ==
  ASSUME IInv, NEW d \in Docs, Upload(d)
  PROVE  IInv'
<1> USE DEF IInv
<1>1. /\ documents \subseteq documents' /\ documents' \subseteq objects' /\ objects' \subseteq Docs
      /\ UNCHANGED <<pc, outcome, ask, committed, kept, active, locks>>
  BY DEF Upload, PutObject, InsertDocument, records, TypeOK
<1>2. \A K : committedOf(K)' = committedOf(K)
  BY <1>1 DEF committedOf
<1>3. TypeOK'
  BY <1>1, <1>2 DEF TypeOK
<1>4. LocksExclude' /\ Committed'
  BY <1>1, <1>2 DEF LocksExclude, Committed, given
<1>5. ASSUME NEW c \in Calls PROVE Calling(c)'
  <2>1. Calling(c)
    OBVIOUS
  <2>2. Path(c)' /\ DocumentLocks(c)' /\ OnlyChild(c)' /\ Original(c)' /\ WhiteBookChecked(c)'
    BY <1>1, <1>2, <2>1 DEF Calling, Path, DocumentLocks, OnlyChild, Original, WhiteBookChecked,
         inParent, pastParent, Holds, parentRow, documentRow, proper
  <2>3. Attachable(c)'
    BY <1>1, <1>2, <2>1 DEF Calling, Attachable, attaching, Holds, documentRow, proper
  <2> QED
    BY <2>2, <2>3 DEF Calling
<1> QED
  BY <1>3, <1>4, <1>5

LEMMA InitIInv == Init => IInv
<1> SUFFICES ASSUME Init PROVE IInv
  OBVIOUS
<1>1. TypeOK
  BY DEF Init, TypeOK, PcValues, nothing, committedOf
<1>2. LocksExclude /\ Committed
  BY DEF Init, LocksExclude, Committed, committedOf
<1>3. \A c \in Calls : Calling(c)
  BY DEF Init, Calling, Path, DocumentLocks, Attachable, OnlyChild, Original, WhiteBookChecked,
       attaching, inParent, pastParent
<1> QED
  BY <1>1, <1>2, <1>3 DEF IInv

LEMMA NextIInv == IInv /\ [Next]_vars => IInv'
<1> SUFFICES ASSUME IInv, [Next]_vars PROVE IInv'
  OBVIOUS
<1>1. ASSUME NEW x \in Calls, Does(x) PROVE IInv'
  <2>1. TypeOK' /\ Committed' /\ LocksExclude'
    BY <1>1, TypesStep, CommittedKept, ExcludeKept DEF IInv
  <2>2. \A c \in Calls : Calling(c)'
    BY <1>1, OwnCall, OthersCall
  <2> QED
    BY <2>1, <2>2 DEF IInv
<1>2. CASE UNCHANGED vars
  <2>1. \A K : committedOf(K)' = committedOf(K)
    BY <1>2 DEF vars, records, committedOf
  <2>2. TypeOK' /\ LocksExclude' /\ Committed'
    BY <1>2, <2>1 DEF vars, storage, records, IInv, TypeOK, LocksExclude, Committed, given
  <2>3. ASSUME NEW c \in Calls PROVE Calling(c)'
    <3>1. UNCHANGED <<documents, pc, ask, committed, locks>> /\ Calling(c)
      BY <1>2 DEF vars, storage, records, IInv
    <3>2. Path(c)' /\ DocumentLocks(c)' /\ OnlyChild(c)' /\ Original(c)' /\ WhiteBookChecked(c)'
      BY <2>1, <3>1 DEF Calling, Path, DocumentLocks, OnlyChild, Original, WhiteBookChecked,
           inParent, pastParent, Holds, parentRow, documentRow, proper
    <3>3. Attachable(c)'
      BY <2>1, <3>1 DEF Calling, Attachable, attaching, Holds, documentRow, proper
    <3> QED
      BY <3>2, <3>3 DEF Calling
  <2> QED
    BY <2>2, <2>3 DEF IInv
<1> QED
  BY <1>1, <1>2, Uploads DEF Next, Does

LEMMA Invariance == Spec => []IInv
BY InitIInv, NextIInv, PTL DEF Spec

(* Calls and storage are in states the code knows, and an attached         *)
(* document has its row and its bytes (documents.service.ts).              *)
THEOREM Typing == Spec => []TypeOK
<1>1. IInv => TypeOK
  BY DEF IInv
<1> QED
  BY <1>1, Invariance, PTL

-----------------------------------------------------------------------------
(* THE PROMISE.                                                            *)

LEMMA FirstState == Init => Promise!Init
BY DEF Init, Promise!Init, nothing

LEMMA StepEvidence == IInv /\ [Next]_vars => [Promise!Next]_(Promise!vars)
<1> SUFFICES ASSUME IInv, [Next]_vars PROVE [Promise!Next]_(Promise!vars)
  OBVIOUS
<1> USE DEF IInv
<1>1. CASE UNCHANGED <<ask, committed, kept>>
  BY <1>1 DEF Promise!vars
<1>2. ASSUME NEW x \in Calls, Commit(x) PROVE Promise!Next
  <2>1. /\ pc[x] = "commit" /\ x \notin committed /\ UNCHANGED ask
        /\ committed' = committed \cup {x}
        /\ kept' = IF ask[x].kind \in {"request", "requote"}
                   THEN [kept EXCEPT ![x] = carried(x)] ELSE kept
    BY <1>2 DEF Commit, Committed
  <2>2. Calling(x) /\ ask[x].kind \in CallKinds
    BY Ask
  <2>3. \A K : Promise!records(K) = committedOf(K)
    BY DEF Promise!records, committedOf
  <2>4. ask[x].kind \in Locking => Promise!firstOf(x)
    BY <2>1, <2>2, <2>3 DEF Calling, OnlyChild, pastParent, inParent, Promise!firstOf
  <2>5. CASE ask[x].kind \in Givers
    <3>1. Promise!fresh(x)
      BY <2>1, <2>2, <2>3, <2>5 DEF Calling, Attachable, attaching, Givers, Promise!fresh, Promise!proof
    <3>2. \A d \in Promise!proof(x) : proper(ask[x], d, ask[x].kind)
      BY <2>1, <2>2, <2>5 DEF Calling, Attachable, attaching, Promise!proof
    <3>3. ask[x].whiteBook # None => proper(ask[x], ask[x].whiteBook, "whiteBook")
      BY <2>1, <2>2 DEF Calling, WhiteBookChecked
    <3>4. /\ ask[x].kind = "request" => Promise!keeps(x, [documents |-> Promise!proof(x),
                                                          whiteBook |-> ask[x].whiteBook])
          /\ ask[x].kind # "request" => kept' = kept
      BY <2>1, <2>5 DEF Givers, carried, given, Promise!keeps, Promise!proof
    <3>5. Promise!Attach(x)
      BY <2>4, <2>5, <3>1, <3>2, <3>3, <3>4 DEF Givers, Locking, Promise!Attach
    <3> QED
      BY <2>1, <3>5 DEF Promise!Next
  <2>6. CASE ask[x].kind = "requote"
    <3>1. Promise!keeps(x, kept[ask[x].parent])
      BY <2>1, <2>6 DEF carried, Promise!keeps
    <3>2. ask[x].parent \in Promise!records({"request", "requote"})
      BY <2>1, <2>2, <2>3, <2>6 DEF Calling, Original, inParent
    <3>3. Promise!Carry(x)
      BY <2>4, <2>6, <3>1, <3>2 DEF Locking, Promise!Carry
    <3> QED
      BY <2>1, <3>3 DEF Promise!Next
  <2> QED
    BY <2>2, <2>5, <2>6 DEF CallKinds, Givers
<1>3. ASSUME NEW x \in Calls, Does(x), ~Commit(x) PROVE UNCHANGED <<ask, committed, kept>>
  BY <1>3, Stays DEF records
<1>4. ASSUME NEW d \in Docs, Upload(d) PROVE UNCHANGED <<ask, committed, kept>>
  BY <1>4 DEF Upload, PutObject, InsertDocument, records
<1>5. CASE UNCHANGED vars
  BY <1>1, <1>5 DEF vars, records
<1> QED
  BY <1>1, <1>2, <1>3, <1>4, <1>5 DEF Next, Does

(* The documents a record is made with are its own: the transactions of    *)
(* documents.service.ts and of its callers attach a document once, with    *)
(* all a record needs, for a parent that had none of its kind, and a       *)
(* request that is sent again carries what the first one had.              *)
THEOREM Refinement == Spec => ImplementsEvidence
BY FirstState, StepEvidence, Invariance, PTL DEF Spec, ImplementsEvidence, Promise!Spec

-----------------------------------------------------------------------------
(* WHO HOLDS WHAT.                                                         *)

(* What a request keeps, sent again or not, was given to a request.        *)
KeptFrom ==
  \A c \in committedOf({"request", "requote"}) :
    \E r \in committedOf({"request"}) : kept[c] = given(r)

(* A call holds its parent, its documents, its White Book; its policy, for *)
(* a claim; what it sends again.                                           *)
Mine(c, l) ==
  \/ /\ ask[c].kind \in Locking /\ inParent(c)
     /\ l = Lock(c, parentRow(c), ForUpdate)
  \/ /\ ask[c].kind \in Givers /\ (pc[c] = "documents" \/ attaching(c))
     /\ \E d \in ask[c].documents : l = Lock(c, documentRow(d), ForUpdate)
  \/ /\ ask[c].whiteBook # None /\ pc[c] \in {"insert", "commit"}
     /\ l = Lock(c, documentRow(ask[c].whiteBook), ForUpdate)
  \/ /\ ask[c].kind = "claim" /\ pc[c] \in {"insert", "commit"}
     /\ l = Lock(c, parentRow(c), KeyShare)
  \/ /\ ask[c].kind = "requote" /\ pc[c] \in {"keyShots", "commit"}
     /\ \E d \in shots(c) \cup ({whiteBook(c)} \ {None}) : l = Lock(c, documentRow(d), KeyShare)

Held(c) == \A l \in locks : l.txn = c => Mine(c, l)

(* The ids of the documents locked have a bound.                           *)
Bounded ==
  \E n \in Nat : \A l \in locks : \A d \in Docs : l.row = documentRow(d) => DocId[d] <= n

LInv == IInv /\ KeptFrom /\ Bounded /\ \A c \in Calls : Held(c)

LEMMA KeptFromKept ==
  ASSUME IInv, KeptFrom, NEW x \in Calls, Does(x)
  PROVE  KeptFrom'
<1> USE DEF IInv
<1>u. \A c : given(c)' = given(c)
  BY Others DEF given
<1>1. CASE ~Commit(x)
  BY <1>1, <1>u, Stays, Others DEF records, KeptFrom, committedOf
<1>2. CASE Commit(x)
  <2>1. /\ \A K : committedOf(K)' = committedOf(K) \cup {c \in {x} : ask[c].kind \in K}
        /\ \A y \in Calls : y # x => kept'[y] = kept[y]
        /\ ask[x].kind \in {"request", "requote"} => kept'[x] = carried(x)
        /\ pc[x] = "commit"
    BY <1>2, Commits
  <2>2. \A c \in committedOf({"request", "requote"}) : c # x /\ c \in Calls
    BY <2>1 DEF committedOf, Committed, TypeOK
  <2>3. \A r \in committedOf({"request"}) : r \in committedOf({"request"})'
    BY <2>1
  <2>4. CASE ask[x].kind = "request"
    <3>1. kept'[x] = given(x) /\ x \in committedOf({"request"})'
      BY <2>1, <2>4 DEF carried
    <3> QED
      BY <1>u, <2>1, <2>2, <2>3, <3>1 DEF KeptFrom
  <2>5. CASE ask[x].kind = "requote"
    <3>1. kept'[x] = kept[ask[x].parent] /\ ask[x].parent \in committedOf({"request", "requote"})
      BY <2>1, <2>5 DEF carried, Calling, Original, inParent
    <3> QED
      BY <1>u, <2>1, <2>2, <2>3, <3>1 DEF KeptFrom
  <2>6. CASE ask[x].kind \notin {"request", "requote"}
    BY <1>u, <2>1, <2>2, <2>3, <2>6 DEF KeptFrom
  <2> QED
    BY <2>4, <2>5, <2>6
<1> QED
  BY <1>1, <1>2

LEMMA BoundedKept ==
  ASSUME IInv, Bounded, NEW x \in Calls, Does(x)
  PROVE  Bounded'
<1> USE DEF IInv
<1>u. \A d : documentRow(d)' = documentRow(d)
  BY DEF documentRow
<1>1. CASE \A l \in locks' : l \in locks
  BY <1>1, <1>u DEF Bounded
<1>2. CASE Granted(x)
  <2>1. PICK row : \E mode \in LockModes : locks' = locks \cup {Lock(x, row, mode)}
    BY <1>2 DEF Granted
  <2>2. PICK mode \in LockModes : locks' = locks \cup {Lock(x, row, mode)}
    BY <2>1
  <2>3. PICK k : k = Lock(x, row, mode)
    OBVIOUS
  <2>4. k.row = row /\ locks' = locks \cup {k}
    BY <2>2, <2>3, LockFields
  <2>5. PICK n \in Nat : \A l \in locks : \A d \in Docs : l.row = documentRow(d) => DocId[d] <= n
    BY DEF Bounded
  <2>6. CASE \A d \in Docs : row # documentRow(d)
    BY <1>u, <2>4, <2>5, <2>6 DEF Bounded
  <2>7. ASSUME NEW e \in Docs, row = documentRow(e)
        PROVE  Bounded'
    <3>1. \A d \in Docs : row = documentRow(d) => d = e
      BY <2>7, Rows
    <3>2. DocId[e] \in Nat /\ n + DocId[e] \in Nat /\ DocId[e] <= n + DocId[e]
          /\ \A m \in Nat : m <= n => m <= n + DocId[e]
      BY DocumentsAssumption
    <3>3. \A d \in Docs : DocId[d] \in Nat
      BY DocumentsAssumption
    <3>4. \A l \in locks' : \A d \in Docs : l.row = documentRow(d) => DocId[d] <= n + DocId[e]
      BY <2>4, <2>5, <3>1, <3>2, <3>3
    <3> QED
      BY <1>u, <3>2, <3>4 DEF Bounded
  <2> QED
    BY <2>6, <2>7
<1> QED
  BY <1>1, <1>2, StepMoves DEF Advances, Ends, Commit, Release

(* A call that goes on keeps what it has.                                  *)
LEMMA MineGoes ==
  ASSUME TypeOK, NEW x, NEW l, Mine(x, l), UNCHANGED <<ask, kept>>,
         pc'[x] \notin {"idle", "parent", "done"},
         pc[x] = "documents" \/ attaching(x) => pc'[x] = "documents" \/ attaching(x)',
         pc[x] \in {"insert", "commit"} => pc'[x] \in {"insert", "commit"},
         pc[x] \in {"keyShots", "commit"} => pc'[x] \in {"keyShots", "commit"}
  PROVE  Mine(x, l)'
<1>1. /\ parentRow(x)' = parentRow(x) /\ shots(x)' = shots(x) /\ whiteBook(x)' = whiteBook(x)
      /\ \A d : documentRow(d)' = documentRow(d)
      /\ \A row, mode : Lock(x, row, mode)' = Lock(x, row, mode)
  BY DEF parentRow, shots, whiteBook, carried, given, documentRow, Lock
<1> QED
  BY <1>1 DEF Mine, inParent

LEMMA HeldOthers ==
  ASSUME IInv, NEW x \in Calls, Does(x), NEW y \in Calls, y # x, Held(y)
  PROVE  Held(y)'
<1> USE DEF IInv
<1>1. /\ UNCHANGED ask /\ pc'[y] = pc[y] /\ \A l : l.txn = y => (l \in locks' <=> l \in locks)
  BY Others
<1>2. ask[y].kind = "requote" /\ inParent(y) => kept'[ask[y].parent] = kept[ask[y].parent]
  <2> SUFFICES ASSUME ask[y].kind = "requote", inParent(y)
               PROVE  kept'[ask[y].parent] = kept[ask[y].parent]
    OBVIOUS
  <2>1. ask[y].parent \in committed /\ ask[y].parent \in Calls
    BY DEF Calling, Original, committedOf, TypeOK
  <2>2. CASE Commit(x)
    <3>1. ask[y].parent # x
      BY <2>1, <2>2, Commits DEF Committed
    <3> QED
      BY <2>1, <2>2, <3>1, Commits
  <2>3. CASE ~Commit(x)
    BY <2>3, Stays DEF records
  <2> QED
    BY <2>2, <2>3
<1>3. ASSUME NEW l \in locks, l.txn = y PROVE Mine(y, l)'
  <2>1. Mine(y, l)
    BY <1>3 DEF Held
  <2>2. /\ parentRow(y)' = parentRow(y) /\ \A d : documentRow(d)' = documentRow(d)
        /\ \A row, mode : Lock(y, row, mode)' = Lock(y, row, mode)
    BY <1>1 DEF parentRow, documentRow, Lock
  <2>3. ask[y].kind = "requote" /\ inParent(y) =>
          shots(y)' = shots(y) /\ whiteBook(y)' = whiteBook(y)
    BY <1>1, <1>2 DEF shots, whiteBook, carried
  <2> QED
    BY <1>1, <2>1, <2>2, <2>3 DEF Mine, inParent, attaching
<1> QED
  BY <1>1, <1>3 DEF Held

(* What a call holds after it took a lock, or took none.                   *)
LEMMA HeldGoing ==
  ASSUME TypeOK, NEW x \in Calls, Held(x), UNCHANGED <<ask, kept>>,
         pc'[x] \notin {"idle", "parent", "done"},
         pc[x] = "documents" \/ attaching(x) => pc'[x] = "documents" \/ attaching(x)',
         pc[x] \in {"insert", "commit"} => pc'[x] \in {"insert", "commit"},
         pc[x] \in {"keyShots", "commit"} => pc'[x] \in {"keyShots", "commit"},
         \A l \in locks' : l \in locks \/ Mine(x, l)'
  PROVE  Held(x)'
BY MineGoes DEF Held

LEMMA HeldOwn ==
  ASSUME IInv, NEW x \in Calls, Held(x), Does(x)
  PROVE  Held(x)'
<1> USE DEF IInv
<1>x. Calling(x) /\ UNCHANGED <<storage, ask>>
  BY Others
<1>k. /\ ask[x].kind \in CallKinds
      /\ ask[x].kind \in Givers <=> ask[x].kind # "requote"
  BY Ask
<1>r. /\ parentRow(x)' = parentRow(x) /\ \A d : documentRow(d)' = documentRow(d)
  BY <1>x DEF parentRow, documentRow
<1>l. \A l \in locks : l.txn = x => pc[x] \notin {"idle", "parent", "done"}
  BY DEF Held, Mine, inParent, attaching
<1>e. ASSUME locks' = Release(locks, x) PROVE Held(x)'
  BY <1>e DEF Held, Release
<1>e2. ASSUME NEW o, End(x, o) PROVE Held(x)'
  BY <1>e, <1>e2 DEF End
<1>q. quiet => UNCHANGED kept
  BY DEF quiet, records
<1>1. CASE Begin(x)
  <2>1. pc[x] = "idle" /\ UNCHANGED locks
    BY <1>1 DEF Begin
  <2> QED
    BY <2>1, <1>l DEF Held
<1>2. CASE LockParent(x)
  <2>1. CASE Take(x, lockParent(x), "checkParent") /\ quiet
    <3>1. pc[x] = "parent" /\ pc'[x] = "checkParent" /\ locks' = locks \cup {Lock(x, parentRow(x), ForUpdate)}
      BY <1>2, <2>1, NowAt DEF LockParent, Take, lockParent
    <3>2. ask[x].kind \in Locking
      BY <1>x, <3>1 DEF Calling, Path
    <3>3. PICK k : k = Lock(x, parentRow(x), ForUpdate)
      OBVIOUS
    <3>4. Mine(x, k)'
      BY <1>x, <1>r, <3>1, <3>2, <3>3 DEF Mine, inParent, Lock
    <3> QED
      BY <1>x, <1>q, <2>1, <3>1, <3>3, <3>4, HeldGoing DEF attaching
  <2> QED
    BY <1>2, <1>e2, <2>1 DEF LockParent
<1>3. CASE CheckParent(x)
  <2>1. CASE \E next \in {"keyWhiteBook", "documents"} : goto(x, next) /\ UNCHANGED locks /\ quiet
    <3>1. pc[x] = "checkParent" /\ pc'[x] \in {"keyWhiteBook", "documents"}
      BY <1>3, <2>1, NowAt DEF CheckParent
    <3> QED
      BY <1>x, <1>q, <2>1, <3>1, HeldGoing DEF attaching
  <2>2. \/ \E o : End(x, o)
        \/ \E next \in {"keyWhiteBook", "documents"} : goto(x, next) /\ UNCHANGED locks /\ quiet
    BY <1>3 DEF CheckParent
  <2> QED
    BY <1>e2, <2>1, <2>2
<1>4. CASE LockDocument(x)
  <2>1. PICK d : d = nextDocument(x)
    OBVIOUS
  <2>2. pc[x] = "documents" /\ pc'[x] = "documents" /\ quiet /\ locks' = locks \cup {Lock(x, documentRow(d), ForUpdate)}
    BY <1>4, <2>1, NowAt DEF LockDocument, Take, attachLock
  <2>3. d \in ask[x].documents
    BY <1>4, <2>1, NextDocument DEF LockDocument, unlocked
  <2>4. ask[x].kind \in Givers
    BY <1>x, <1>k, <2>2 DEF Calling, Path
  <2>5. PICK k : k = Lock(x, documentRow(d), ForUpdate)
    OBVIOUS
  <2>6. Mine(x, k)'
    BY <1>x, <1>r, <2>2, <2>3, <2>4, <2>5 DEF Mine, Lock
  <2> QED
    BY <1>x, <1>q, <2>2, <2>5, <2>6, HeldGoing DEF attaching
<1>5. CASE CheckDocuments(x)
  <2>1. CASE \E next \in {"whiteBook", "keyPolicy", "insert"} : goto(x, next) /\ UNCHANGED locks /\ quiet
    <3>1. pc[x] = "documents" /\ pc'[x] \in {"whiteBook", "keyPolicy", "insert"}
      BY <1>5, <2>1, NowAt DEF CheckDocuments
    <3> QED
      BY <1>x, <1>q, <2>1, <3>1, HeldGoing DEF attaching
  <2>2. \/ \E o : End(x, o)
        \/ \E next \in {"whiteBook", "keyPolicy", "insert"} : goto(x, next) /\ UNCHANGED locks /\ quiet
    BY <1>5 DEF CheckDocuments
  <2> QED
    BY <1>e2, <2>1, <2>2
<1>6. CASE LockWhiteBook(x)
  <2>1. CASE Take(x, attachLock(x, ask[x].whiteBook), "insert") /\ quiet
    <3>1. PICK d : d = ask[x].whiteBook
      OBVIOUS
    <3>2. pc[x] = "whiteBook" /\ pc'[x] = "insert" /\ locks' = locks \cup {Lock(x, documentRow(d), ForUpdate)}
      BY <1>6, <2>1, <3>1, NowAt DEF LockWhiteBook, Take, attachLock
    <3>3. d # None
      BY <1>x, <3>1, <3>2 DEF Calling, Path
    <3>4. PICK k : k = Lock(x, documentRow(d), ForUpdate)
      OBVIOUS
    <3>5. Mine(x, k)'
      BY <1>x, <1>r, <3>1, <3>2, <3>3, <3>4 DEF Mine, Lock
    <3> QED
      BY <1>x, <1>q, <2>1, <3>2, <3>4, <3>5, HeldGoing DEF attaching
  <2> QED
    BY <1>6, <1>e2, <2>1 DEF LockWhiteBook
<1>7. CASE KeyPolicy(x)
  <2>1. pc[x] = "keyPolicy" /\ pc'[x] = "insert" /\ quiet
    BY <1>7, NowAt DEF KeyPolicy, Take
  <2>2. UNCHANGED locks \/ locks' = locks \cup {Lock(x, parentRow(x), KeyShare)}
    BY <1>7 DEF KeyPolicy, Take, keyPolicy
  <2>3. ask[x].kind = "claim"
    BY <1>x, <2>1 DEF Calling, Path
  <2>4. PICK k : k = Lock(x, parentRow(x), KeyShare)
    OBVIOUS
  <2>5. Mine(x, k)'
    BY <1>x, <1>r, <2>1, <2>3, <2>4 DEF Mine, Lock
  <2> QED
    BY <1>x, <1>q, <2>1, <2>2, <2>4, <2>5, HeldGoing DEF attaching
<1>8. CASE Insert(x)
  <2>1. CASE goto(x, "commit") /\ UNCHANGED locks /\ quiet
    <3>1. pc[x] = "insert" /\ pc'[x] = "commit"
      BY <1>8, <2>1, NowAt DEF Insert
    <3> QED
      BY <1>x, <1>q, <2>1, <3>1, HeldGoing DEF attaching
  <2>2. (\E o : End(x, o)) \/ (goto(x, "commit") /\ UNCHANGED locks /\ quiet)
    BY <1>8 DEF Insert
  <2> QED
    BY <1>e2, <2>1, <2>2
<1>9. CASE KeyWhiteBook(x) \/ KeyShots(x)
  <2>1. /\ pc[x] \in {"keyWhiteBook", "keyShots"} /\ pc'[x] \in {"keyShots", "commit"} /\ quiet
        /\ pc[x] = "keyWhiteBook" => pc'[x] = "keyShots"
    BY <1>9, NowAt DEF KeyWhiteBook, KeyShots, Take
  <2>2. \/ UNCHANGED locks
        \/ /\ pc'[x] = "keyShots"
           /\ \E d \in shots(x) \cup ({whiteBook(x)} \ {None}) : locks' = locks \cup {Lock(x, documentRow(d), KeyShare)}
    BY <1>9, NowAt DEF KeyWhiteBook, KeyShots, Take, keyDocument
  <2>3. ask[x].kind = "requote"
    BY <1>x, <2>1 DEF Calling, Path
  <2>4. shots(x)' = shots(x) /\ whiteBook(x)' = whiteBook(x)
    BY <1>x, <1>q, <2>1 DEF shots, whiteBook, carried, given
  <2>5. ASSUME NEW d \in shots(x) \cup ({whiteBook(x)} \ {None}), pc'[x] = "keyShots"
        PROVE  Mine(x, Lock(x, documentRow(d), KeyShare))'
    BY <1>x, <1>r, <2>3, <2>4, <2>5 DEF Mine, Lock
  <2>6. \A l \in locks' : l \in locks \/ Mine(x, l)'
    <3>1. ASSUME NEW d \in shots(x) \cup ({whiteBook(x)} \ {None}), pc'[x] = "keyShots",
                 NEW k, k = Lock(x, documentRow(d), KeyShare)
          PROVE  Mine(x, k)'
      BY <1>x, <1>r, <2>3, <2>4, <3>1 DEF Mine, Lock
    <3> QED
      BY <2>2, <3>1
  <2> QED
    BY <1>x, <1>k, <1>q, <2>1, <2>3, <2>6, HeldGoing DEF attaching
<1>10. CASE Commit(x) \/ Fail(x)
  BY <1>10, <1>e DEF Commit, Fail, End
<1> QED
  BY <1>1, <1>2, <1>3, <1>4, <1>5, <1>6, <1>7, <1>8, <1>9, <1>10 DEF Does, AttachTo

LEMMA NextLInv == LInv /\ [Next]_vars => LInv'
<1> SUFFICES ASSUME LInv, [Next]_vars PROVE LInv'
  OBVIOUS
<1> USE DEF LInv
<1>i. IInv'
  BY NextIInv
<1>1. ASSUME NEW x \in Calls, Does(x) PROVE LInv'
  <2>1. KeptFrom' /\ Bounded'
    BY <1>1, KeptFromKept, BoundedKept
  <2>2. \A c \in Calls : Held(c)'
    BY <1>1, HeldOwn, HeldOthers
  <2> QED
    BY <1>i, <2>1, <2>2
<1>2. CASE UNCHANGED <<pc, ask, committed, kept, locks>>
  <2>1. \A K : committedOf(K)' = committedOf(K)
    BY <1>2 DEF committedOf
  <2>2. KeptFrom' /\ Bounded'
    BY <1>2, <2>1 DEF KeptFrom, Bounded, given, documentRow
  <2>3. ASSUME NEW c \in Calls PROVE Held(c)'
    <3>1. \A l : Mine(c, l) => Mine(c, l)'
      BY <1>2 DEF Mine, inParent, attaching, parentRow, documentRow, shots, whiteBook, carried, given, Lock
    <3> QED
      BY <1>2, <3>1 DEF Held
  <2> QED
    BY <1>i, <2>2, <2>3
<1>3. ASSUME NEW d \in Docs, Upload(d) PROVE LInv'
  BY <1>2, <1>3 DEF Upload, PutObject, InsertDocument, records
<1>4. CASE UNCHANGED vars
  BY <1>2, <1>4 DEF vars, records
<1> QED
  BY <1>1, <1>3, <1>4 DEF Next, Does

LEMMA Lockings == Spec => []LInv
<1>1. Init => LInv
  <2> SUFFICES ASSUME Init PROVE LInv
    OBVIOUS
  <2>1. locks = {} /\ committed = {} /\ 0 \in Nat
    BY DEF Init
  <2> QED
    BY <2>1, InitIInv DEF LInv, KeptFrom, Bounded, Held, committedOf
<1> QED
  BY <1>1, NextLInv, PTL DEF Spec

-----------------------------------------------------------------------------
(* NO CIRCLE.                                                              *)

waiting(c) == pc[c] = "documents" /\ unlocked(c) # {}

(* A call waits only for calls of a higher rank; or both wait for          *)
(* documents, and the other for one with a higher id.                      *)
rank(c) ==
  IF pc[c] = "parent" THEN 0
  ELSE IF waiting(c) /\ ask[c].kind \in {"request", "claim"} THEN 1
  ELSE IF pc[c] = "keyPolicy" THEN 2
  ELSE IF pc[c] \in {"whiteBook", "keyWhiteBook"} \/ waiting(c) THEN 3
  ELSE IF pc[c] \in {"insert", "keyShots"} THEN 4
  ELSE 5

LEMMA KeyShares ==
  ASSUME NEW mode, Conflict(mode, KeyShare)
  PROVE  mode # KeyShare
BY DEF Conflict, KeyShare, ForUpdate, NoKeyUpdate, ForShare

LEMMA Ranks ==
  ASSUME NEW c
  PROVE  /\ rank(c) \in 0..5
         /\ rank(c) = 0 <=> pc[c] = "parent"
         /\ rank(c) = 1 => waiting(c) /\ ask[c].kind \in {"request", "claim"}
         /\ rank(c) = 5 => ~waiting(c) /\ pc[c] \notin {"parent", "keyPolicy", "whiteBook",
                                                        "keyWhiteBook", "insert", "keyShots"}
         /\ pc[c] = "keyPolicy" => rank(c) = 2
         /\ pc[c] \in {"whiteBook", "keyWhiteBook"} => rank(c) = 3
         /\ waiting(c) => rank(c) = IF ask[c].kind \in {"request", "claim"} THEN 1 ELSE 3
         /\ pc[c] \in {"insert", "keyShots"} => rank(c) = 4
         /\ pc[c] \in {"commit", "checkParent"} => rank(c) = 5
         /\ pc[c] = "documents" /\ unlocked(c) = {} => rank(c) = 5
BY DEF rank, waiting

(* Whoever has a lock on a document attaches it, shares it as its White    *)
(* Book, or carries it on from a committed request.                        *)
LEMMA HoldsDocument ==
  ASSUME LInv, NEW h \in locks, NEW d, h.row = documentRow(d)
  PROVE  LET b == h.txn IN
         /\ b \in Calls
         /\ \/ /\ d \in ask[b].documents /\ ask[b].kind \in Givers /\ d \in locked(b)
               /\ pc[b] = "documents" \/ attaching(b)
            \/ d = ask[b].whiteBook /\ d # None /\ pc[b] \in {"insert", "commit"}
            \/ h.mode = KeyShare /\ pc[b] \in {"keyShots", "commit"}
<1> DEFINE b == h.txn
<1>1. b \in Calls /\ Mine(b, h)
  BY DEF LInv, IInv, TypeOK, Held
<1> HIDE DEF b
<1>2. \A row, mode : h = Lock(b, row, mode) => h.row = row /\ h.mode = mode
  BY LockFields
<1>3. \A e : h = Lock(b, documentRow(e), ForUpdate) => e = d
  BY <1>2, Rows
<1>4. \A mode : h # Lock(b, parentRow(b), mode)
  BY <1>2, Rows
<1>5. d \in ask[b].documents => d \in locked(b)
  <2>1. ask[b].documents \subseteq Docs
    BY <1>1, Ask DEF LInv, IInv
  <2> QED
    BY <2>1 DEF locked, b
<1> QED
  BY <1>1, <1>2, <1>3, <1>4, <1>5 DEF Mine, b

(* What is sent again was given to a committed request.                    *)
LEMMA Carries ==
  ASSUME LInv, NEW c \in Calls, ask[c].kind = "requote", inParent(c)
  PROVE  \E r \in committedOf({"request"}) :
           shots(c) = ask[r].documents /\ whiteBook(c) = ask[r].whiteBook
<1>1. ask[c].parent \in committedOf({"request", "requote"})
  BY DEF LInv, IInv, Calling, Original
<1>2. PICK r \in committedOf({"request"}) : kept[ask[c].parent] = given(r)
  BY <1>1 DEF LInv, KeptFrom
<1> QED
  BY <1>2 DEF shots, whiteBook, carried, given

(* A document is waited for: who has it is further on.                     *)
LEMMA DocumentAhead ==
  ASSUME LInv, Orderly, NEW c \in Calls, waiting(c),
         NEW h \in locks, h.row = documentRow(nextDocument(c)), NEW b, b = h.txn
  PROVE  /\ b \in Calls
         /\ \/ rank(c) < rank(b)
            \/ /\ rank(c) = 1 /\ rank(b) = 1 /\ nextDocument(c) \in locked(b)
<1> USE DEF LInv, IInv
<1>1. PICK d : d = nextDocument(c)
  OBVIOUS
<1>2. d \in ask[c].documents /\ ask[c].kind \in Givers /\ ask[c].kind \in CallKinds
  BY <1>1, NextDocument, Ask DEF waiting, unlocked, Calling, Path
<1>3. /\ b \in Calls
      /\ \/ /\ d \in ask[b].documents /\ ask[b].kind \in Givers /\ d \in locked(b)
            /\ pc[b] = "documents" \/ attaching(b)
         \/ d = ask[b].whiteBook /\ d # None /\ pc[b] \in {"insert", "commit"}
         \/ h.mode = KeyShare /\ pc[b] \in {"keyShots", "commit"}
  BY <1>1, HoldsDocument
<1>4. rank(c) = IF ask[c].kind \in {"request", "claim"} THEN 1 ELSE 3
  BY Ranks
<1>5. CASE pc[b] \in {"insert", "commit", "keyShots"}
  BY <1>3, <1>4, <1>5, Ranks
<1>6. CASE d \in ask[b].documents /\ ask[b].kind \in Givers /\ d \in locked(b)
           /\ pc[b] \in {"documents", "whiteBook", "keyPolicy"}
  <2>1. ask[c].kind \in {"request", "claim"} <=> ask[b].kind \in {"request", "claim"}
    BY <1>2, <1>3, <1>6 DEF Orderly, Givers
  <2>2. CASE ask[c].kind \in {"request", "claim"}
    <3>1. CASE waiting(b)
      <4>1. rank(b) = 1
        BY <2>1, <2>2, <3>1, Ranks
      <4> QED
        BY <1>1, <1>3, <1>4, <1>6, <2>2, <4>1
    <3>2. CASE ~waiting(b)
      BY <1>3, <1>4, <1>6, <2>2, <3>2, Ranks DEF waiting
    <3> QED
      BY <3>1, <3>2
  <2>3. CASE ask[c].kind \notin {"request", "claim"}
    <3>1. ask[b].kind \in {"quote", "certificate"}
      BY <1>6, <2>1, <2>3 DEF Givers
    <3>2. pc[b] = "documents"
      <4>1. Calling(b)
        BY <1>3
      <4>2. ask[b].whiteBook = None
        BY <1>3, <3>1, Ask
      <4> QED
        BY <1>6, <3>1, <4>1, <4>2 DEF Calling, Path
    <3>3. unlocked(b) = {}
      <4>1. ask[b] \in Asks
        BY <1>3 DEF TypeOK
      <4>2. IsFiniteSet(ask[b].documents) /\ Cardinality(ask[b].documents) = 1
        BY <3>1, <4>1, DocumentsAssumption
      <4>3. \E e : ask[b].documents = {e}
        BY <4>2, FS_Singleton
      <4>4. ask[b].documents = {d}
        BY <1>6, <4>3
      <4> QED
        BY <1>6, <4>4 DEF unlocked
    <3> QED
      BY <1>3, <1>4, <2>3, <3>2, <3>3, Ranks
  <2> QED
    BY <2>2, <2>3
<1> QED
  BY <1>3, <1>5, <1>6 DEF attaching

(* A White Book is waited for, or its key.                                 *)
LEMMA WhiteBookAhead ==
  ASSUME LInv, Orderly, NEW r \in Calls, NEW c \in Calls,
         pc[c] \in {"whiteBook", "keyWhiteBook"},
         NEW h \in locks, h.row = documentRow(ask[r].whiteBook), NEW b, b = h.txn
  PROVE  b \in Calls /\ rank(c) < rank(b)
<1>1. PICK d : d = ask[r].whiteBook
  OBVIOUS
<1>2. /\ b \in Calls
      /\ \/ d \in ask[b].documents
         \/ pc[b] \in {"insert", "commit", "keyShots"}
  BY <1>1, HoldsDocument
<1>3. d \notin ask[b].documents
  BY <1>1, <1>2 DEF Orderly
<1> QED
  BY <1>2, <1>3, Ranks

(* The key of a photo is waited for.                                       *)
LEMMA ShotAhead ==
  ASSUME LInv, Orderly, NEW c \in Calls, pc[c] = "keyShots", NEW d \in shots(c),
         NEW h \in locks, h.row = documentRow(d), Conflict(h.mode, KeyShare), NEW b, b = h.txn
  PROVE  b \in Calls /\ rank(c) < rank(b)
<1> USE DEF LInv, IInv
<1>1. ask[c].kind = "requote" /\ inParent(c)
  BY DEF Calling, Path, inParent
<1>2. PICK r \in committedOf({"request"}) : shots(c) = ask[r].documents
  BY <1>1, Carries
<1>3. r \in Calls /\ r \in committed /\ ask[r].kind = "request" /\ pc[r] = "done"
  BY DEF committedOf, TypeOK, Committed
<1>4. h.mode # KeyShare
  BY KeyShares
<1>5. /\ b \in Calls
      /\ \/ /\ d \in ask[b].documents /\ ask[b].kind \in Givers /\ d \in locked(b)
            /\ pc[b] = "documents" \/ attaching(b)
         \/ d = ask[b].whiteBook
  BY <1>4, HoldsDocument
<1>6. d \in ask[r].documents
  BY <1>2
<1>7. d # ask[b].whiteBook
  BY <1>3, <1>5, <1>6 DEF Orderly
<1>8. ~attaching(b)
  <2> SUFFICES ASSUME attaching(b) PROVE FALSE
    OBVIOUS
  <2>1. r \in committedOf(Givers)
    BY <1>3 DEF committedOf, Givers
  <2>2. Attachable(b)
    BY <1>5 DEF Calling
  <2> QED
    BY <1>5, <1>6, <1>7, <2>1, <2>2 DEF Attachable
<1>9. unlocked(b) = {}
  <2>1. b # r
    BY <1>3, <1>5, <1>7, <1>8
  <2>2. Cardinality(ask[b].documents) <= 1
    BY <1>1, <1>3, <1>5, <1>6, <1>7, <2>1 DEF Orderly
  <2>3. IsFiniteSet(ask[b].documents)
    BY <1>5, DocumentsAssumption DEF TypeOK
  <2>4. Cardinality(ask[b].documents) = 1
    <3>1. Cardinality(ask[b].documents) \in Nat /\ Cardinality(ask[b].documents) # 0
      BY <1>5, <1>7, <2>3, FS_CardinalityType, FS_EmptySet
    <3> QED
      BY <2>2, <3>1
  <2>5. ask[b].documents = {d}
    <3>1. \E e : ask[b].documents = {e}
      BY <2>3, <2>4, FS_Singleton
    <3> QED
      BY <1>5, <1>7, <3>1
  <2> QED
    BY <1>5, <1>7, <2>5 DEF unlocked
<1> QED
  BY <1>5, <1>7, <1>8, <1>9, Ranks

(* A parent is waited for, or a claim's policy.                            *)
LEMMA ParentAhead ==
  ASSUME LInv, NEW c \in Calls, pc[c] \in {"parent", "keyPolicy"},
         NEW h \in locks, h.row = parentRow(c),
         pc[c] = "keyPolicy" => Conflict(h.mode, KeyShare), NEW b, b = h.txn
  PROVE  b \in Calls /\ rank(c) < rank(b)
<1> USE DEF LInv, IInv
<1>1. b \in Calls /\ Mine(b, h) /\ pc[b] \notin {"idle", "done"}
  BY DEF TypeOK, Held
<1>2. \A row, mode : h = Lock(b, row, mode) => h.row = row /\ h.mode = mode
  BY LockFields
<1>3. pc[b] # "parent" /\ rank(b) # 0
  BY <1>1, Ranks DEF Mine, inParent, attaching
<1>4. CASE pc[c] = "parent"
  <2>1. rank(c) = 0 /\ rank(b) \in 0..5
    BY <1>4, Ranks
  <2> QED
    BY <1>1, <1>3, <2>1
<1>5. CASE pc[c] = "keyPolicy"
  <2>1. h.mode # KeyShare
    BY <1>5, KeyShares
  <2>2. \A e : h.row # documentRow(e)
    BY Rows
  <2>3. ask[b].kind \in Locking
    BY <1>1, <1>2, <2>1, <2>2 DEF Mine
  <2>4. pc[b] # "keyPolicy" /\ ask[b].kind \notin {"request", "claim"}
    BY <1>1, <2>3 DEF Calling, Path, Locking
  <2>5. rank(b) \notin {0, 1, 2} /\ rank(b) \in 0..5
    BY <1>3, <2>4, Ranks DEF rank
  <2> QED
    BY <1>1, <1>5, <2>5, Ranks
<1> QED
  BY <1>4, <1>5

LEMMA Ahead ==
  ASSUME LInv, Orderly, NEW c \in Calls, pc[c] \notin {"idle", "done"}, NEW b \in blockers(c)
  PROVE  /\ b \in Calls
         /\ \/ rank(c) < rank(b)
            \/ rank(c) = 1 /\ rank(b) = 1 /\ nextDocument(c) \in locked(b)
<1> USE DEF LInv, IInv
<1>1. \/ \E h \in locks : b = h.txn /\ \E w \in wanted(c) : h.row = w.row /\ Conflict(h.mode, w.mode)
      \/ pc[c] = "insert" /\ b \in rivals(c) \ committed
      \/ /\ pc[c] = "keyShots"
         /\ \E h \in locks : b = h.txn /\ \E d \in shots(c) :
              h.row = documentRow(d) /\ Conflict(h.mode, KeyShare)
  BY DEF blockers
<1>2. CASE pc[c] = "insert" /\ b \in rivals(c) \ committed
  BY <1>2, Ranks DEF rivals
<1>3. CASE /\ pc[c] = "keyShots"
           /\ \E h \in locks : b = h.txn /\ \E d \in shots(c) :
                h.row = documentRow(d) /\ Conflict(h.mode, KeyShare)
  BY <1>3, ShotAhead
<1>4. ASSUME NEW h \in locks, b = h.txn, NEW w \in wanted(c), h.row = w.row, Conflict(h.mode, w.mode)
      PROVE  /\ b \in Calls
             /\ \/ rank(c) < rank(b)
                \/ rank(c) = 1 /\ rank(b) = 1 /\ nextDocument(c) \in locked(b)
  <2>1. CASE pc[c] = "parent"
    <3>1. w = lockParent(c)
      BY <1>4, <2>1 DEF wanted
    <3>2. w.row = parentRow(c)
      BY <3>1, LockFields DEF lockParent
    <3> QED
      BY <1>4, <2>1, <3>2, ParentAhead
  <2>2. CASE pc[c] = "documents"
    <3>1. w = attachLock(c, nextDocument(c)) /\ waiting(c)
      BY <1>4, <2>2 DEF wanted, waiting
    <3>2. w.row = documentRow(nextDocument(c))
      BY <3>1, LockFields DEF attachLock
    <3> QED
      BY <1>4, <3>1, <3>2, DocumentAhead
  <2>3. CASE pc[c] = "whiteBook"
    <3>1. w = attachLock(c, ask[c].whiteBook)
      BY <1>4, <2>3 DEF wanted
    <3>2. w.row = documentRow(ask[c].whiteBook)
      BY <3>1, LockFields DEF attachLock
    <3> QED
      BY <1>4, <2>3, <3>2, WhiteBookAhead
  <2>4. CASE pc[c] = "keyPolicy"
    <3>1. w = keyPolicy(c)
      BY <1>4, <2>4 DEF wanted
    <3>2. w.row = parentRow(c) /\ w.mode = KeyShare
      BY <3>1, LockFields DEF keyPolicy
    <3> QED
      BY <1>4, <2>4, <3>2, ParentAhead
  <2>5. CASE pc[c] = "keyWhiteBook"
    <3>1. w = keyDocument(c, whiteBook(c))
      BY <1>4, <2>5 DEF wanted
    <3>2. w.row = documentRow(whiteBook(c))
      BY <3>1, LockFields DEF keyDocument
    <3>3. ask[c].kind = "requote" /\ inParent(c)
      BY <2>5 DEF Calling, Path, inParent
    <3>4. PICK r \in committedOf({"request"}) : whiteBook(c) = ask[r].whiteBook
      BY <3>3, Carries
    <3>5. r \in Calls
      BY DEF committedOf, TypeOK
    <3> QED
      BY <1>4, <2>5, <3>2, <3>4, <3>5, WhiteBookAhead
  <2>6. pc[c] \in {"parent", "documents", "whiteBook", "keyPolicy", "keyWhiteBook"}
    BY <1>4 DEF wanted
  <2> QED
    BY <2>1, <2>2, <2>3, <2>4, <2>5, <2>6
<1> QED
  BY <1>1, <1>2, <1>3, <1>4

LEMMA NeverStuck == LInv /\ Orderly => NoDeadlock
<1> SUFFICES ASSUME LInv, Orderly,
                    NEW S \in SUBSET {c \in Calls : pc[c] \notin {"idle", "done"}}, S # {},
                    \A c \in S : blockers(c) \cap S # {}
             PROVE  FALSE
  BY DEF NoDeadlock
<1>1. \A c \in S : c \in Calls /\ pc[c] \notin {"idle", "done"} /\ rank(c) \in 0..5
  BY Ranks
<1>2. \A c \in S : \E b \in S : b \in blockers(c) /\
        (rank(c) < rank(b) \/ (rank(c) = 1 /\ rank(b) = 1 /\ nextDocument(c) \in locked(b)))
  <2> SUFFICES ASSUME NEW c \in S
               PROVE  \E b \in S : b \in blockers(c) /\
                        (rank(c) < rank(b) \/ (rank(c) = 1 /\ rank(b) = 1 /\ nextDocument(c) \in locked(b)))
    OBVIOUS
  <2>1. PICK b \in S : b \in blockers(c)
    OBVIOUS
  <2>2. rank(c) < rank(b) \/ (rank(c) = 1 /\ rank(b) = 1 /\ nextDocument(c) \in locked(b))
    BY <1>1, <2>1, Ahead
  <2> QED
    BY <2>1, <2>2
<1>3. \A c \in S : rank(c) = 1 \/ \E b \in S : rank(c) < rank(b)
  BY <1>2
<1>4. ASSUME NEW n \in 2..5, \A c \in S : rank(c) <= n
      PROVE  \A c \in S : rank(c) <= n - 1
  <2> SUFFICES ASSUME NEW c \in S, rank(c) = n PROVE FALSE
    <3>1. \A m \in 0..5 : m <= n /\ m # n => m <= n - 1
      OBVIOUS
    <3> QED
      BY <1>1, <1>4, <3>1
  <2>1. PICK b \in S : rank(c) < rank(b)
    <3>1. n # 1
      OBVIOUS
    <3> QED
      BY <1>3, <3>1
  <2>2. \A m \in 0..5 : ~(n < m /\ m <= n)
    OBVIOUS
  <2> QED
    BY <1>1, <1>4, <2>1, <2>2
<1>5. \A c \in S : rank(c) <= 5
  <2>1. \A m \in 0..5 : m <= 5
    OBVIOUS
  <2> QED
    BY <1>1, <2>1
<1>6. \A c \in S : rank(c) <= 4
  BY <1>4, <1>5
<1>7. \A c \in S : rank(c) <= 2
  <2>1. \A c \in S : rank(c) <= 3
    BY <1>4, <1>6
  <2> QED
    BY <1>4, <2>1
<1>8. \A c \in S : rank(c) \in {0, 1}
  <2>1. \A c \in S : rank(c) <= 1
    BY <1>4, <1>7
  <2>2. \A m \in 0..5 : m <= 1 => m \in {0, 1}
    OBVIOUS
  <2> QED
    BY <1>1, <2>1, <2>2
<1> DEFINE T == {c \in S : rank(c) = 1}
           W == {DocId[nextDocument(c)] : c \in T}
<1>9. T # {}
  <2>1. PICK c \in S : TRUE
    OBVIOUS
  <2>2. PICK b \in S : rank(c) < rank(b) \/ rank(b) = 1
    BY <1>2
  <2> QED
    BY <1>8, <2>2
<1>10. \A c \in T : \E b \in T : nextDocument(c) \in locked(b)
  <2> SUFFICES ASSUME NEW c \in S, rank(c) = 1
               PROVE  \E b \in S : rank(b) = 1 /\ nextDocument(c) \in locked(b)
    OBVIOUS
  <2>1. PICK b \in S : rank(c) < rank(b) \/ (rank(b) = 1 /\ nextDocument(c) \in locked(b))
    BY <1>2
  <2>2. \A m \in {0, 1} : ~(1 < m)
    OBVIOUS
  <2> QED
    BY <1>8, <2>1, <2>2
<1>11. \A c \in T : /\ c \in Calls /\ nextDocument(c) \in Docs /\ nextDocument(c) \in unlocked(c)
                    /\ DocId[nextDocument(c)] \in Nat
  <2> SUFFICES ASSUME NEW c \in T
               PROVE  /\ c \in Calls /\ nextDocument(c) \in Docs /\ nextDocument(c) \in unlocked(c)
                      /\ DocId[nextDocument(c)] \in Nat
    OBVIOUS
  <2>1. c \in Calls /\ waiting(c)
    BY <1>1, Ranks
  <2>2. nextDocument(c) \in unlocked(c) /\ nextDocument(c) \in Docs
    BY <2>1, NextDocument DEF waiting, LInv, IInv
  <2> QED
    BY <2>1, <2>2, DocumentsAssumption
<1>12. PICK n \in Nat : \A l \in locks : \A d \in Docs : l.row = documentRow(d) => DocId[d] <= n
  BY DEF LInv, Bounded
<1>13. \A x \in W : x <= n
  <2> SUFFICES ASSUME NEW c \in T PROVE DocId[nextDocument(c)] <= n
    OBVIOUS
  <2>1. \E l \in locks : l.row = documentRow(nextDocument(c))
    BY <1>10 DEF locked
  <2> QED
    BY <1>11, <1>12, <2>1
<1>14. W \subseteq Nat /\ W # {}
  BY <1>9, <1>11
<1>15. PICK x \in W : \A y \in W : y <= x
  <2> HIDE DEF W
  <2> QED
    BY <1>13, <1>14, Largest
<1>16. PICK c \in T : x = DocId[nextDocument(c)]
  OBVIOUS
<1>17. PICK b \in T : nextDocument(c) \in locked(b)
  BY <1>10
<1>18. inOrder(b, nextDocument(c), nextDocument(b))
  BY <1>11, <1>17 DEF unlocked
<1>19. DocId[nextDocument(b)] <= x /\ x < DocId[nextDocument(b)]
  BY <1>15, <1>16, <1>18 DEF inOrder
<1> HIDE DEF T, W
<1>20. x \in Nat /\ DocId[nextDocument(b)] \in Nat
  BY <1>11, <1>16, <1>17
<1> QED
  BY <1>19, <1>20

(* Calls that name their documents in an orderly way never wait for each   *)
(* other in a circle: parents are locked before documents, documents in    *)
(* the order of their ids by one statement (documents.repository.ts:60),   *)
(* then White Books, policies and the photos of a request sent again.      *)
THEOREM Orderliness == Spec => [](Orderly => NoDeadlock)
<1>1. LInv => (Orderly => NoDeadlock)
  BY NeverStuck
<1> QED
  BY <1>1, Lockings, PTL

-----------------------------------------------------------------------------
(* THE PHOTO HAND-OFF: its invariant.                                      *)

(* All that dialog d asks for is among the photos.                         *)
Whole(d, photos) == box[d].asked \subseteq Having(photos)

(* A dialog without a link has a session nobody knows.                     *)
Unlinked(d) ==
  box[d].phase # "linked" =>
    /\ session[d].status = "open" /\ \A k \in Gets : get[d][k] = Idle
    /\ stream[d].phase \in {"off", "closed"} /\ ~box[d].finished

(* A complete session has every photo, and so have its answers; who is     *)
(* told of a completion, or asks because of it, is told the truth.         *)
Told(d) ==
  \A i \in 1..Len(stream[d].frames) :
    stream[d].frames[i].type = "complete" => session[d].status = "complete"

Complete(d) == session[d].status = "complete" => Whole(d, session[d].photos)

Answered(d) ==
  /\ \A k \in Gets : get[d][k].phase = "answered" /\ get[d][k].status = "complete" =>
       Whole(d, get[d][k].photos)
  /\ get[d][Final].phase = "asked" => session[d].status = "complete"
  /\ get[d][Final].phase = "answered" => get[d][Final].status = "complete"

Handed(d) == box[d].finished => box[d].asked \subseteq box[d].received

DialogOK(d) == Unlinked(d) /\ Told(d) /\ Complete(d) /\ Answered(d) /\ Handed(d)

(* What the page of phone p knows of its session is so, and stays so.      *)
CallOK(p) ==
  /\ phone[p].call # "none" => phone[p].step \in {"loading", "saving", "finishing", "restoring"}
  /\ phone[p].call = "held" => At(p, "saving")
  /\ At(p, "saving") => phone[p].shot \in Shots /\ phone[p].take \in Takes

Full == {"finishing", "stopped", "sent", "restoring", "restored"}

Knows(p) ==
  ~At(p, "off") =>
    /\ phone[p].of \in Dialogs /\ box[phone[p].of].phase = "linked"
    /\ phone[p].call = "ok" => phone[p].seen \subseteq Having(session[phone[p].of].photos)
    /\ phone[p].step \in Full => Whole(phone[p].of, session[phone[p].of].photos)
    /\ phone[p].call = "ok" /\ (phone[p].step \in Full \/ phone[p].status = "complete") =>
         hasEveryPhoto(p)

Shown(p) ==
  /\ phone[p].step \in Full \ {"restoring"} => Asked(p) \subseteq phone[p].photos
  /\ phone[p].step \in {"capturing", "saving"} => ~(Asked(p) \subseteq phone[p].photos)

PhoneOK(p) == CallOK(p) /\ Knows(p) /\ Shown(p)

HandoffInv == HandoffTypeOK /\ (\A d \in Dialogs : DialogOK(d)) /\ \A p \in Phones : PhoneOK(p)

-----------------------------------------------------------------------------
(* TYPES, field by field.                                                  *)

PhonesType   == [Phones -> PhoneType]
BoxesType    == [Dialogs -> BoxType]
SessionsType == [Dialogs -> SessionType]
StreamsType  == [Dialogs -> [phase : StreamPhases, frames : Seq(Frames)]]

LEMMA PhoneFields ==
  ASSUME NEW f \in PhonesType, NEW p \in Phones
  PROVE  /\ \A x \in PhoneSteps : [f EXCEPT ![p].step = x] \in PhonesType
         /\ \A x \in 0..MaxDialogs : [f EXCEPT ![p].of = x] \in PhonesType
         /\ \A x \in SUBSET Shots : /\ [f EXCEPT ![p].photos = x] \in PhonesType
                                    /\ [f EXCEPT ![p].seen = x] \in PhonesType
         /\ \A x \in {"none", "asked", "held", "ok", "failed"} : [f EXCEPT ![p].call = x] \in PhonesType
         /\ \A x \in StatusType : [f EXCEPT ![p].status = x] \in PhonesType
         /\ \A x \in Shots \cup {0} : [f EXCEPT ![p].shot = x] \in PhonesType
         /\ \A x \in 0..MaxTakes : [f EXCEPT ![p].take = x] \in PhonesType
<1> USE DEF PhonesType, PhoneType
<1>1. \A x \in PhoneSteps : [f EXCEPT ![p].step = x] \in PhonesType
  OBVIOUS
<1>2. \A x \in 0..MaxDialogs : [f EXCEPT ![p].of = x] \in PhonesType
  OBVIOUS
<1>3. \A x \in SUBSET Shots : /\ [f EXCEPT ![p].photos = x] \in PhonesType
                              /\ [f EXCEPT ![p].seen = x] \in PhonesType
  OBVIOUS
<1>4. \A x \in {"none", "asked", "held", "ok", "failed"} : [f EXCEPT ![p].call = x] \in PhonesType
  OBVIOUS
<1>5. \A x \in StatusType : [f EXCEPT ![p].status = x] \in PhonesType
  OBVIOUS
<1>6. \A x \in Shots \cup {0} : [f EXCEPT ![p].shot = x] \in PhonesType
  OBVIOUS
<1>7. \A x \in 0..MaxTakes : [f EXCEPT ![p].take = x] \in PhonesType
  OBVIOUS
<1> HIDE DEF PhonesType, PhoneType
<1> QED
  BY <1>1, <1>2, <1>3, <1>4, <1>5, <1>6, <1>7

LEMMA BoxFields ==
  ASSUME NEW f \in BoxesType, NEW d \in Dialogs
  PROVE  /\ \A x \in {"unopened", "opening", "linked", "failed"} : [f EXCEPT ![d].phase = x] \in BoxesType
         /\ \A x \in SUBSET Shots : /\ [f EXCEPT ![d].asked = x] \in BoxesType
                                    /\ [f EXCEPT ![d].received = x] \in BoxesType
         /\ \A x \in BOOLEAN : /\ [f EXCEPT ![d].closing = x] \in BoxesType
                               /\ [f EXCEPT ![d].finished = x] \in BoxesType
<1> USE DEF BoxesType, BoxType
<1>1. \A x \in {"unopened", "opening", "linked", "failed"} : [f EXCEPT ![d].phase = x] \in BoxesType
  OBVIOUS
<1>2. \A x \in SUBSET Shots : /\ [f EXCEPT ![d].asked = x] \in BoxesType
                              /\ [f EXCEPT ![d].received = x] \in BoxesType
  OBVIOUS
<1>3. \A x \in BOOLEAN : /\ [f EXCEPT ![d].closing = x] \in BoxesType
                         /\ [f EXCEPT ![d].finished = x] \in BoxesType
  OBVIOUS
<1> QED
  BY <1>1, <1>2, <1>3

LEMMA SessionFields ==
  ASSUME NEW f \in SessionsType, NEW d \in Dialogs
  PROVE  /\ \A x \in {"none", "live", "aged", "gone"} : [f EXCEPT ![d].phase = x] \in SessionsType
         /\ \A x \in StatusType : [f EXCEPT ![d].status = x] \in SessionsType
         /\ \A x \in PhotosType : [f EXCEPT ![d].photos = x] \in SessionsType
BY DEF SessionsType, SessionType

(* What the type invariant says of the stream.                             *)
Streams ==
  /\ stream \in StreamsType
  /\ \A d \in Dialogs :
       /\ stream[d].phase # "on" => stream[d].frames = <<>>
       /\ stream[d].phase \in {"connecting", "on", "stalled"} => shown = d

LEMMA Parts ==
  HandoffTypeOK <=>
    /\ form \in [Shots -> {Own, Blank} \cup (Dialogs \X Takes)]
    /\ shown \in 0..MaxDialogs
    /\ box \in BoxesType /\ Streams
    /\ get \in [Dialogs -> [Gets -> GetType]]
    /\ session \in SessionsType /\ phone \in PhonesType
    /\ takes \in 0..MaxTakes /\ edits \in 0..MaxEdits /\ mishaps \in 0..MaxMishaps
BY DEF HandoffTypeOK, BoxesType, Streams, StreamsType, SessionsType, PhonesType

LEMMA PartsNext ==
  ASSUME (form \in [Shots -> {Own, Blank} \cup (Dialogs \X Takes)])',
         (shown \in 0..MaxDialogs)', (box \in BoxesType)', Streams',
         (get \in [Dialogs -> [Gets -> GetType]])',
         (session \in SessionsType)', (phone \in PhonesType)',
         (takes \in 0..MaxTakes /\ edits \in 0..MaxEdits /\ mishaps \in 0..MaxMishaps)'
  PROVE  HandoffTypeOK'
BY DEF HandoffTypeOK, BoxesType, Streams, StreamsType, SessionsType, PhonesType

LEMMA Numbers ==
  /\ 0 \in 0..MaxDialogs /\ 0 \in 0..MaxTakes /\ 0 \in 0..MaxEdits /\ 0 \in 0..MaxMishaps
  /\ Dialogs \subseteq 1..MaxDialogs /\ Dialogs \subseteq 0..MaxDialogs /\ Takes \subseteq 0..MaxTakes
  /\ 0 \notin Takes /\ 0 \notin Dialogs /\ 0..MaxTakes \subseteq Takes \cup {0}
  /\ 0..MaxDialogs \subseteq Dialogs \cup {0}
  /\ NoPhotos \in PhotosType /\ Having(NoPhotos) = {}
  /\ \A photos \in PhotosType : \A s \in Having(photos) : s \in Shots /\ photos[s] \in Takes
BY HandoffAssumption DEF Dialogs, Takes, NoPhotos, PhotosType, Having

-----------------------------------------------------------------------------
(* FRAMES.                                                                 *)

(* The frames of a stream are old ones, and perhaps this one.              *)
Says(d, f) ==
  \A i \in 1..Len(stream'[d].frames) :
    \/ \E j \in 1..Len(stream[d].frames) : stream'[d].frames[i] = stream[d].frames[j]
    \/ stream'[d].frames[i] = f

SaysNothing(d) ==
  \A i \in 1..Len(stream'[d].frames) :
    \E j \in 1..Len(stream[d].frames) : stream'[d].frames[i] = stream[d].frames[j]

(* A completion that is under way afterwards was under way before.         *)
Quiet(d) ==
  \A i \in 1..Len(stream'[d].frames) : stream'[d].frames[i].type = "complete" =>
    \E j \in 1..Len(stream[d].frames) : stream[d].frames[j].type = "complete"

LEMMA Hush ==
  ASSUME NEW d,
         SaysNothing(d) \/ \E f \in Frames : Says(d, f) /\ f.type # "complete"
  PROVE  Quiet(d)
BY DEF Says, SaysNothing, Quiet

LEMMA StreamAt ==
  ASSUME stream \in StreamsType, NEW d \in Dialogs
  PROVE  /\ stream[d] \in [phase : StreamPhases, frames : Seq(Frames)]
         /\ stream[d].phase \in StreamPhases /\ stream[d].frames \in Seq(Frames)
BY DEF StreamsType

LEMMA Silent ==
  ASSUME NEW d, stream'[d] = stream[d] \/ stream'[d].frames = <<>>
  PROVE  SaysNothing(d)
BY DEF SaysNothing

LEMMA Broadcasts ==
  ASSUME Streams, NEW d \in Dialogs, NEW f \in Frames, stream' = broadcast(d, f), shown' = shown
  PROVE  /\ Streams' /\ Says(d, f)
         /\ \A e \in Dialogs : stream'[e].phase = stream[e].phase /\ (e # d => SaysNothing(e))
<1>1. CASE stream[d].phase = "on"
  <2>1. stream' = [stream EXCEPT ![d].frames = Append(@, f)]
    BY <1>1 DEF broadcast
  <2> DEFINE old == stream[d].frames
  <2>2. old \in Seq(Frames) /\ stream \in StreamsType
    BY StreamAt DEF Streams
  <2>3. Append(old, f) \in Seq(Frames) /\ Len(Append(old, f)) = Len(old) + 1
        /\ \A i \in 1..Len(old) + 1 : \/ i \in 1..Len(old) /\ Append(old, f)[i] = old[i]
                                      \/ Append(old, f)[i] = f
    BY <2>2
  <2>4. /\ stream'[d].frames = Append(old, f) /\ stream'[d].phase = stream[d].phase
        /\ \A e \in Dialogs : e # d => stream'[e] = stream[e]
    BY <2>1, <2>2 DEF StreamsType
  <2> HIDE DEF old
  <2>5. stream' \in StreamsType
    BY <2>1, <2>2, <2>3 DEF StreamsType, old
  <2>6. Says(d, f)
    BY <2>3, <2>4 DEF Says, old
  <2>7. \A e \in Dialogs : e # d => SaysNothing(e)
    BY <2>4, Silent
  <2> QED
    BY <1>1, <2>4, <2>5, <2>6, <2>7 DEF Streams
<1>2. CASE stream[d].phase # "on"
  <2>1. stream' = [stream EXCEPT ![d].frames = @]
    BY <1>2 DEF broadcast
  <2>2. stream' = stream
    BY <2>1 DEF Streams, StreamsType
  <2>3. \A e : SaysNothing(e) /\ (SaysNothing(e) => Says(e, f))
    BY <2>2, Silent DEF SaysNothing, Says
  <2> QED
    BY <2>2, <2>3 DEF Streams
<1> QED
  BY <1>1, <1>2

LEMMA Popping ==
  ASSUME Streams, NEW d \in Dialogs, stream[d].frames # <<>>, Pops(d), shown' = shown
  PROVE  /\ Streams' /\ frame(d) \in Frames
         /\ frame(d) = stream[d].frames[1] /\ 1 \in 1..Len(stream[d].frames)
         /\ \A e \in Dialogs : stream'[e].phase = stream[e].phase /\ SaysNothing(e)
<1> DEFINE old == stream[d].frames
<1>1. old \in Seq(Frames) /\ old # <<>> /\ stream \in StreamsType
  BY StreamAt DEF Streams
<1>2. /\ Tail(old) \in Seq(Frames) /\ Len(Tail(old)) = Len(old) - 1 /\ Len(old) \in Nat \ {0}
      /\ \A i \in 1..Len(old) - 1 : Tail(old)[i] = old[i + 1] /\ i + 1 \in 1..Len(old)
      /\ Head(old) = old[1] /\ Head(old) \in Frames
  BY <1>1
<1>3. /\ stream'[d].frames = Tail(old) /\ stream'[d].phase = stream[d].phase
      /\ \A e \in Dialogs : e # d => stream'[e] = stream[e]
  BY <1>1 DEF Pops, StreamsType
<1>4. stream' \in StreamsType
  <2>1. stream' = [stream EXCEPT ![d].frames = Tail(old)]
    BY DEF Pops
  <2> HIDE DEF old
  <2> QED
    BY <1>1, <1>2, <2>1 DEF StreamsType
<1> HIDE DEF old
<1>5. SaysNothing(d)
  BY <1>2, <1>3 DEF SaysNothing, old
<1>6. \A e \in Dialogs : e # d => SaysNothing(e)
  BY <1>3, Silent
<1>7. stream[d].phase = "on"
  BY <1>1 DEF Streams, old
<1>8. Streams'
  BY <1>3, <1>4, <1>7 DEF Streams
<1>9. frame(d) = old[1] /\ frame(d) \in Frames
  BY <1>2 DEF frame, old
<1> QED
  BY <1>2, <1>3, <1>5, <1>6, <1>8, <1>9 DEF old

-----------------------------------------------------------------------------
(* WHAT A STEP LEAVES AS IT IS.                                            *)

(* Photos stay in a session, a completion is not taken back, and what a    *)
(* linked dialog asks for is settled.                                      *)
Onward(d) ==
  /\ Having(session[d].photos) \subseteq Having(session[d].photos)'
  /\ session[d].status = "complete" => session'[d].status = "complete"
  /\ box[d].phase = "linked" => box'[d].phase = "linked" /\ box'[d].asked = box[d].asked

(* What a dialog keeps of itself when its photos are handed up.            *)
SameBox(d) ==
  /\ box'[d].phase = box[d].phase /\ box'[d].asked = box[d].asked
  /\ box'[d].finished = box[d].finished /\ box[d].received \subseteq box'[d].received

SameSession(d) ==
  session'[d].status = session[d].status /\ session'[d].photos = session[d].photos

Idling(d) == stream[d].phase \in {"off", "closed"} => stream'[d].phase \in {"off", "closed"}

LEMMA Moving ==
  ASSUME NEW d, SameBox(d), SameSession(d)
  PROVE  Onward(d)
BY DEF SameBox, SameSession, Onward, Having

LEMMA DialogKept ==
  ASSUME NEW d, DialogOK(d), SameBox(d), SameSession(d), Idling(d), get'[d] = get[d], Quiet(d)
  PROVE  DialogOK(d)'
<1>1. Unlinked(d)'
  BY DEF DialogOK, Unlinked, SameBox, SameSession, Idling
<1>2. Told(d)'
  BY DEF DialogOK, Told, Quiet, SameSession
<1>3. Complete(d)' /\ Answered(d)' /\ Handed(d)'
  BY DEF DialogOK, Complete, Answered, Handed, Whole, Having, SameBox, SameSession
<1> QED
  BY <1>1, <1>2, <1>3 DEF DialogOK

LEMMA DialogSame ==
  ASSUME NEW d, DialogOK(d), box'[d] = box[d], session'[d] = session[d], stream'[d] = stream[d],
         get'[d] = get[d]
  PROVE  DialogOK(d)' /\ Onward(d)
<1>1. SameBox(d) /\ SameSession(d) /\ Idling(d) /\ Quiet(d)
  BY Silent, Hush DEF SameBox, SameSession, Idling
<1> QED
  BY <1>1, DialogKept, Moving

LEMMA PhoneKept ==
  ASSUME NEW p, PhoneOK(p), phone'[p] = phone[p], \A d \in Dialogs : Onward(d)
  PROVE  PhoneOK(p)'
<1>1. CallOK(p)'
  BY DEF PhoneOK, CallOK, At
<1>2. CASE At(p, "off")
  BY <1>1, <1>2 DEF PhoneOK, Knows, Shown, At, Full
<1>3. CASE ~At(p, "off")
  <2> DEFINE d == phone[p].of
  <2>1. d \in Dialogs /\ box[d].phase = "linked" /\ phone'[p].of = d
    BY <1>3 DEF PhoneOK, Knows
  <2>2. /\ box'[d].phase = "linked" /\ box'[d].asked = box[d].asked
        /\ Having(session[d].photos) \subseteq Having(session[d].photos)'
    BY <2>1 DEF Onward
  <2>3. Asked(p)' = Asked(p)
    BY <2>1, <2>2 DEF Asked
  <2>4. phone'[p].seen = phone[p].seen /\ (hasEveryPhoto(p) => hasEveryPhoto(p)')
    BY <2>3 DEF hasEveryPhoto
  <2>5. Whole(d, session[d].photos) => Whole(d, session[d].photos)'
    BY <2>2 DEF Whole
  <2>6. Whole(phone[p].of, session[phone[p].of].photos)' <=> Whole(d, session[d].photos)'
    BY <2>1 DEF Whole
  <2>7. Having(session[phone[p].of].photos)' = Having(session[d].photos)'
    BY <2>1 DEF Having
  <2> HIDE DEF d
  <2>8. Knows(p)'
    <3>1. /\ phone[p].call = "ok" => phone[p].seen \subseteq Having(session[d].photos)
          /\ phone[p].step \in Full => Whole(d, session[d].photos)
          /\ phone[p].call = "ok" /\ (phone[p].step \in Full \/ phone[p].status = "complete") =>
               hasEveryPhoto(p)
      BY <1>3 DEF PhoneOK, Knows, d
    <3> QED
      BY <2>1, <2>2, <2>4, <2>5, <2>6, <2>7, <3>1 DEF Knows, At, Full
  <2>9. Shown(p)'
    BY <2>3 DEF PhoneOK, Shown, Full
  <2> QED
    BY <1>1, <2>8, <2>9 DEF PhoneOK
<1> QED
  BY <1>2, <1>3

(* A step that leaves the dialogs as they are, and other phones.           *)
LEMMA Elsewhere ==
  ASSUME HandoffInv, HandoffTypeOK', \A d \in Dialogs : DialogOK(d)' /\ Onward(d),
         \A p \in Phones : phone'[p] = phone[p] \/ PhoneOK(p)'
  PROVE  HandoffInv'
BY PhoneKept DEF HandoffInv

(* A step that tells nobody anything, and moves no read.                   *)
LEMMA Aside ==
  ASSUME HandoffInv, HandoffTypeOK',
         \A d \in Dialogs : SameBox(d) /\ SameSession(d) /\ Idling(d) /\ get'[d] = get[d] /\ Quiet(d),
         \A p \in Phones : phone'[p] = phone[p] \/ PhoneOK(p)'
  PROVE  HandoffInv'
BY DialogKept, Moving, Elsewhere DEF HandoffInv

LEMMA Counts ==
  ASSUME HandoffTypeOK, Mishap
  PROVE  mishaps' \in 0..MaxMishaps
BY HandoffAssumption DEF HandoffTypeOK, Mishap

-----------------------------------------------------------------------------
(* THE LAPTOP: the form and the dialog.                                    *)

LEMMA HandoffStart == HandoffInit => HandoffInv
<1> SUFFICES ASSUME HandoffInit PROVE HandoffInv
  OBVIOUS
<1> USE DEF HandoffInit
<1>1. HandoffTypeOK
  <2>1. /\ form \in [Shots -> {Own, Blank} \cup (Dialogs \X Takes)] /\ shown \in 0..MaxDialogs
        /\ takes \in 0..MaxTakes /\ edits \in 0..MaxEdits /\ mishaps \in 0..MaxMishaps
    BY Numbers
  <2>2. box \in BoxesType
    BY DEF BoxesType, BoxType
  <2>3. Streams
    <3>1. <<>> \in Seq(Frames)
      OBVIOUS
    <3> QED
      BY <3>1 DEF Streams, StreamsType, StreamPhases
  <2>4. session \in SessionsType /\ get \in [Dialogs -> [Gets -> GetType]]
    BY Numbers DEF SessionsType, SessionType, StatusType, Idle, GetType
  <2>5. phone \in PhonesType
    BY Numbers DEF PhonesType, PhoneType, PhoneSteps, StatusType
  <2> QED
    BY <2>1, <2>2, <2>3, <2>4, <2>5, Parts
<1>2. ASSUME NEW d \in Dialogs PROVE DialogOK(d)
  <2>1. Final \in Gets
    BY DEF Gets
  <2>2. Len(stream[d].frames) = 0
    OBVIOUS
  <2> QED
    BY <2>1, <2>2 DEF DialogOK, Unlinked, Told, Complete, Answered, Handed, Idle
<1>3. ASSUME NEW p \in Phones PROVE PhoneOK(p)
  BY DEF PhoneOK, CallOK, Knows, Shown, At, Full
<1> QED
  BY <1>1, <1>2, <1>3 DEF HandoffInv

LEMMA OpensStep ==
  ASSUME HandoffInv, Opens
  PROVE  HandoffInv'
<1> USE DEF HandoffInv
<1>1. PICK d \in Dialogs :
        /\ shown = 0 /\ box[d].phase = "unopened" /\ shown' = d
        /\ box' = [box EXCEPT ![d].phase = "opening", ![d].asked = requestedShotKeys]
        /\ UNCHANGED <<form, stream, get, session, phone, takes, edits, mishaps>>
  BY DEF Opens
<1>2. requestedShotKeys \in SUBSET Shots
  BY DEF requestedShotKeys
<1>3. box' \in BoxesType
  BY <1>1, <1>2, BoxFields, Parts, Zenon
<1>4. Streams'
  BY <1>1, Numbers, Parts DEF Streams
<1>5. HandoffTypeOK'
  BY <1>1, <1>3, <1>4, Numbers, Parts, PartsNext
<1>6. /\ box'[d].phase = "opening" /\ box'[d].finished = box[d].finished
      /\ \A e \in Dialogs : e # d => box'[e] = box[e]
  BY <1>1, Parts DEF BoxesType, BoxType
<1>7. DialogOK(d)' /\ Onward(d)
  <2>1. Unlinked(d)
    BY DEF DialogOK
  <2>2. /\ session[d].status = "open" /\ \A k \in Gets : get[d][k] = Idle
        /\ stream[d].phase \in {"off", "closed"} /\ ~box[d].finished
    BY <1>1, <2>1 DEF Unlinked
  <2>3. Len(stream[d].frames) = 0
    BY <2>2, Parts DEF Streams
  <2>4. Final \in Gets
    BY DEF Gets
  <2>5. Unlinked(d)' /\ Told(d)' /\ Complete(d)' /\ Answered(d)' /\ Handed(d)'
    BY <1>1, <1>6, <2>2, <2>3, <2>4 DEF Unlinked, Told, Complete, Answered, Handed, Idle
  <2>6. Onward(d)
    BY <1>1, <2>2 DEF Onward, Having
  <2> QED
    BY <2>5, <2>6 DEF DialogOK
<1>8. \A e \in Dialogs : e # d => DialogOK(e)' /\ Onward(e)
  BY <1>1, <1>6, DialogSame
<1> QED
  BY <1>1, <1>5, <1>7, <1>8, Elsewhere

LEMMA CreateStep ==
  ASSUME HandoffInv, NEW d \in Dialogs, Created(d) \/ CreateFails(d)
  PROVE  HandoffInv'
<1> USE DEF HandoffInv
<1>0. Unlinked(d) /\ Final \in Gets
  BY DEF DialogOK, Gets
<1>1. CASE Created(d) /\ shown = d
  <2>1. /\ box[d].phase = "opening" /\ box' = [box EXCEPT ![d].phase = "linked"]
        /\ session' = [session EXCEPT ![d].phase = "live"]
        /\ stream' = [stream EXCEPT ![d].phase = "connecting"]
        /\ UNCHANGED <<form, shown, get, phone, takes, edits, mishaps>>
    BY <1>1 DEF Created
  <2>2. /\ session[d].status = "open" /\ \A k \in Gets : get[d][k] = Idle
        /\ stream[d].phase \in {"off", "closed"} /\ ~box[d].finished
    BY <1>0, <2>1 DEF Unlinked
  <2>3. box' \in BoxesType /\ session' \in SessionsType
    BY <2>1, BoxFields, SessionFields, Parts
  <2>4. /\ box'[d].phase = "linked" /\ box'[d].finished = box[d].finished
        /\ session'[d].status = "open" /\ session'[d].photos = session[d].photos
        /\ stream'[d].phase = "connecting" /\ stream'[d].frames = stream[d].frames
        /\ \A e \in Dialogs : e # d => box'[e] = box[e] /\ session'[e] = session[e]
                                       /\ stream'[e] = stream[e]
    BY <2>1, <2>2, Parts DEF BoxesType, BoxType, SessionsType, SessionType, Streams, StreamsType
  <2>5. stream[d].frames = <<>>
    BY <2>2, Parts DEF Streams
  <2>6. stream' \in StreamsType
    BY <2>1, Parts DEF Streams, StreamsType, StreamPhases
  <2>7. Streams'
    BY <1>1, <2>1, <2>4, <2>5, <2>6, Parts DEF Streams
  <2>8. HandoffTypeOK'
    BY <2>1, <2>3, <2>7, Parts, PartsNext
  <2>9. DialogOK(d)' /\ Onward(d)
    <3>1. Len(stream'[d].frames) = 0
      BY <2>4, <2>5
    <3>2. Unlinked(d)' /\ Told(d)' /\ Complete(d)' /\ Answered(d)' /\ Handed(d)'
      BY <1>0, <2>1, <2>2, <2>4, <3>1 DEF Unlinked, Told, Complete, Answered, Handed, Idle
    <3>3. Onward(d)
      BY <2>1, <2>2, <2>4 DEF Onward, Having
    <3> QED
      BY <3>2, <3>3 DEF DialogOK
  <2>10. \A e \in Dialogs : e # d => DialogOK(e)' /\ Onward(e)
    BY <2>1, <2>4, DialogSame
  <2> QED
    BY <2>1, <2>8, <2>9, <2>10, Elsewhere
<1>2. CASE ~(Created(d) /\ shown = d)
  <2>1. /\ box[d].phase = "opening" /\ box' = [box EXCEPT ![d].phase = "failed"]
        /\ UNCHANGED <<form, shown, session, stream, get, phone, takes, edits>>
        /\ mishaps' \in 0..MaxMishaps
    BY <1>2, Parts, HandoffAssumption DEF Created, CreateFails, Mishap
  <2>2. box' \in BoxesType
    BY <2>1, BoxFields, Parts
  <2>3. /\ box'[d].phase = "failed" /\ box'[d].finished = box[d].finished
        /\ box'[d].asked = box[d].asked /\ box'[d].received = box[d].received
        /\ \A e \in Dialogs : e # d => box'[e] = box[e]
    BY <2>1, Parts DEF BoxesType, BoxType
  <2>4. HandoffTypeOK'
    <3>1. Streams'
      BY <2>1, Parts DEF Streams
    <3> QED
      BY <2>1, <2>2, <3>1, Parts, PartsNext
  <2>5. DialogOK(d)' /\ Onward(d)
    <3>1. /\ session[d].status = "open" /\ \A k \in Gets : get[d][k] = Idle
          /\ stream[d].phase \in {"off", "closed"} /\ ~box[d].finished
      BY <1>0, <2>1 DEF Unlinked
    <3>2. Len(stream[d].frames) = 0
      BY <3>1, Parts DEF Streams
    <3>3. Unlinked(d)' /\ Told(d)' /\ Complete(d)' /\ Answered(d)' /\ Handed(d)'
      BY <1>0, <2>1, <2>3, <3>1, <3>2 DEF Unlinked, Told, Complete, Answered, Handed, Idle
    <3>4. Onward(d)
      BY <2>1, <2>3, <3>1 DEF Onward, Having
    <3> QED
      BY <3>3, <3>4 DEF DialogOK
  <2>6. \A e \in Dialogs : e # d => DialogOK(e)' /\ Onward(e)
    BY <2>1, <2>3, DialogSame
  <2> QED
    BY <2>1, <2>4, <2>5, <2>6, Elsewhere
<1> QED
  BY <1>1, <1>2

LEMMA Closing ==
  ASSUME Streams, closeHandoff
  PROVE  /\ Streams' /\ shown' = 0
         /\ \A e \in Dialogs : Idling(e) /\ SaysNothing(e)
<1> USE DEF closeHandoff
<1>1. \A e \in Dialogs : stream'[e] = IF e = shown THEN Closed ELSE stream[e]
  OBVIOUS
<1>2. Closed \in [phase : StreamPhases, frames : Seq(Frames)]
  <2>1. <<>> \in Seq(Frames)
    OBVIOUS
  <2> QED
    BY <2>1 DEF Closed, StreamPhases
<1>3. stream' \in StreamsType
  BY <1>2 DEF Streams, StreamsType
<1>4. Streams'
  BY <1>1, <1>3 DEF Streams, Closed
<1>5. \A e \in Dialogs : Idling(e) /\ SaysNothing(e)
  BY <1>1, Silent DEF Idling, Closed
<1> QED
  BY <1>4, <1>5

LEMMA FormStep ==
  ASSUME HandoffInv, CloseByHand \/ ChoosePhoto \/ Remove
  PROVE  HandoffInv'
<1> USE DEF HandoffInv
<1>1. /\ UNCHANGED <<box, get, session, phone, takes, mishaps>>
      /\ Streams' /\ shown' \in 0..MaxDialogs
      /\ \A e \in Dialogs : Idling(e) /\ SaysNothing(e)
  <2>1. CASE CloseByHand
    BY <2>1, Closing, Numbers, Parts DEF CloseByHand
  <2>2. CASE ChoosePhoto \/ Remove
    <3>1. UNCHANGED <<box, get, session, phone, takes, mishaps, stream, shown>>
      BY <2>2 DEF ChoosePhoto, Remove
    <3> QED
      BY <3>1, Silent, Parts DEF Streams, Idling
  <2> QED
    BY <2>1, <2>2
<1>2. form' \in [Shots -> {Own, Blank} \cup (Dialogs \X Takes)] /\ edits' \in 0..MaxEdits
  BY HandoffAssumption, Parts DEF CloseByHand, ChoosePhoto, Remove
<1>3. HandoffTypeOK'
  BY <1>1, <1>2, Parts, PartsNext
<1> QED
  BY <1>1, <1>3, Aside, Hush DEF SameBox, SameSession

-----------------------------------------------------------------------------
(* THE LAPTOP: the event stream.                                           *)

(* The dialog's own stream has a frame, or none; the others are as before. *)
LEMMA StreamSet ==
  ASSUME Streams, NEW d \in Dialogs, NEW x \in [phase : StreamPhases, frames : Seq(Frames)],
         stream' = [stream EXCEPT ![d] = x], shown' = shown,
         x.phase # "on" => x.frames = <<>>, x.phase \in {"connecting", "on", "stalled"} => shown = d
  PROVE  /\ Streams' /\ stream'[d] = x
         /\ \A e \in Dialogs : e # d => stream'[e] = stream[e] /\ Idling(e) /\ SaysNothing(e)
<1>1. stream' \in StreamsType
  BY DEF Streams, StreamsType
<1>2. stream'[d] = x /\ \A e \in Dialogs : e # d => stream'[e] = stream[e]
  BY DEF Streams, StreamsType
<1>3. Streams'
  BY <1>1, <1>2 DEF Streams
<1> QED
  BY <1>2, <1>3, Silent DEF Idling

LEMMA ConnectStep ==
  ASSUME HandoffInv, NEW d \in Dialogs, Connect(d)
  PROVE  HandoffInv'
<1> USE DEF HandoffInv
<1>1. /\ stream[d].phase = "connecting" /\ shown = d /\ box[d].phase = "linked"
      /\ UNCHANGED <<form, shown, box, get, phone, takes, edits, mishaps>>
  BY Parts DEF Connect, Streams, DialogOK, Unlinked
<1>2. CASE Live(d) /\ stream' # [stream EXCEPT ![d] = Closed]
  <2> DEFINE f == [type |-> "session", photos |-> session[d].photos]
             x == [phase |-> "on", frames |-> <<f>>]
  <2>1. stream' = [stream EXCEPT ![d] = x] /\ session' = session
    BY <1>2 DEF Connect
  <2>2. f \in Frames /\ f.type = "session"
    BY Parts DEF Frames, SessionsType, SessionType
  <2>3. <<f>> \in Seq(Frames) /\ Len(<<f>>) = 1 /\ <<f>>[1] = f
    BY <2>2
  <2> HIDE DEF f
  <2>4. x \in [phase : StreamPhases, frames : Seq(Frames)] /\ x.phase = "on" /\ x.frames = <<f>>
    BY <2>3 DEF StreamPhases
  <2> HIDE DEF x
  <2>5. /\ Streams' /\ stream'[d] = x
        /\ \A e \in Dialogs : e # d => stream'[e] = stream[e] /\ Idling(e) /\ SaysNothing(e)
    BY <1>1, <2>1, <2>4, StreamSet, Parts
  <2>6. Idling(d) /\ Quiet(d)
    BY <1>1, <2>2, <2>3, <2>4, <2>5 DEF Idling, Quiet
  <2>7. HandoffTypeOK'
    BY <1>1, <2>1, <2>5, Parts, PartsNext
  <2> QED
    BY <1>1, <2>1, <2>5, <2>6, <2>7, Aside, Hush DEF SameBox, SameSession
<1>3. CASE ~(Live(d) /\ stream' # [stream EXCEPT ![d] = Closed])
  <2>1. stream' = [stream EXCEPT ![d] = Closed] /\ (session' = session \/ session' = [session EXCEPT ![d].phase = "gone"])
    BY <1>3 DEF Connect
  <2>2. Closed \in [phase : StreamPhases, frames : Seq(Frames)] /\ Closed.phase = "closed" /\ Closed.frames = <<>>
    <3>1. <<>> \in Seq(Frames)
      OBVIOUS
    <3> QED
      BY <3>1 DEF Closed, StreamPhases
  <2>3. /\ Streams' /\ stream'[d] = Closed
        /\ \A e \in Dialogs : e # d => stream'[e] = stream[e] /\ Idling(e) /\ SaysNothing(e)
    BY <1>1, <2>1, <2>2, StreamSet, Parts
  <2>4. Idling(d) /\ SaysNothing(d)
    BY <2>2, <2>3, Silent DEF Idling
  <2>5. session' \in SessionsType /\ \A e \in Dialogs : SameSession(e)
    <3>1. session' \in SessionsType
      BY <2>1, SessionFields, Parts
    <3> QED
      BY <2>1, <3>1, Parts DEF SameSession, SessionsType, SessionType
  <2>6. HandoffTypeOK'
    BY <1>1, <2>3, <2>5, Parts, PartsNext
  <2> QED
    BY <1>1, <2>3, <2>4, <2>5, <2>6, Aside, Hush DEF SameBox
<1> QED
  BY <1>2, <1>3

LEMMA LoseStreamStep ==
  ASSUME HandoffInv, NEW d \in Dialogs, LoseStream(d) \/ OnExpired(d)
  PROVE  HandoffInv'
<1> USE DEF HandoffInv
<1>1. /\ stream[d].phase = "on" /\ shown = d
      /\ UNCHANGED <<form, shown, box, get, session, phone, takes, edits>>
      /\ mishaps' \in 0..MaxMishaps
  BY Counts, Parts DEF LoseStream, OnExpired, Arrives, Streams
<1>2. PICK phase \in {"connecting", "stalled", "closed"} :
        stream' = [stream EXCEPT ![d] = [phase |-> phase, frames |-> <<>>]]
  BY DEF LoseStream, OnExpired, Closed
<1> DEFINE x == [phase |-> phase, frames |-> <<>>]
<1>3. x \in [phase : StreamPhases, frames : Seq(Frames)] /\ x.phase = phase /\ x.frames = <<>>
  <2>1. <<>> \in Seq(Frames)
    OBVIOUS
  <2> QED
    BY <2>1 DEF StreamPhases
<1> HIDE DEF x
<1>4. /\ Streams' /\ stream'[d] = x
      /\ \A e \in Dialogs : e # d => stream'[e] = stream[e] /\ Idling(e) /\ SaysNothing(e)
  BY <1>1, <1>2, <1>3, StreamSet, Parts DEF x
<1>5. Idling(d) /\ SaysNothing(d)
  BY <1>1, <1>3, <1>4, Silent DEF Idling
<1>6. HandoffTypeOK'
  BY <1>1, <1>4, Parts, PartsNext
<1> QED
  BY <1>1, <1>4, <1>5, <1>6, Aside, Hush DEF SameBox, SameSession

(* What absorb makes of the form.                                          *)
LEMMA Absorbs ==
  ASSUME form \in [Shots -> {Own, Blank} \cup (Dialogs \X Takes)], box \in BoxesType,
         NEW d \in Dialogs, NEW photos \in PhotosType, absorb(d, photos)
  PROVE  /\ form' \in [Shots -> {Own, Blank} \cup (Dialogs \X Takes)]
         /\ received(d, photos) \in SUBSET Shots /\ box[d].received \subseteq received(d, photos)
<1>1. \A s \in Having(photos) : <<d, photos[s]>> \in Dialogs \X Takes
  BY Numbers
<1>2. form' \in [Shots -> {Own, Blank} \cup (Dialogs \X Takes)]
  BY <1>1 DEF absorb
<1>3. box[d].received \subseteq Shots /\ Having(photos) \subseteq Shots
  BY DEF BoxesType, BoxType, Having
<1> QED
  BY <1>2, <1>3 DEF received

LEMMA OnPhotosStep ==
  ASSUME HandoffInv, NEW d \in Dialogs, OnPhotos(d)
  PROVE  HandoffInv'
<1> USE DEF HandoffInv
<1> DEFINE photos == IF frame(d).type = "session" THEN frame(d).photos
                     ELSE [NoPhotos EXCEPT ![frame(d).shot] = frame(d).take]
<1>1. /\ stream[d].frames # <<>> /\ Pops(d) /\ frame(d).type \in {"session", "photo"}
      /\ absorb(d, photos) /\ box' = [box EXCEPT ![d].received = received(d, photos)]
      /\ UNCHANGED <<shown, get, session, phone, takes, edits, mishaps>>
  BY DEF OnPhotos, Arrives
<1>2. /\ Streams' /\ frame(d) \in Frames
      /\ \A e \in Dialogs : stream'[e].phase = stream[e].phase /\ SaysNothing(e)
  BY <1>1, Popping, Parts
<1>3. photos \in PhotosType
  <2>1. CASE frame(d).type = "session"
    BY <1>2, <2>1 DEF Frames
  <2>2. CASE frame(d).type # "session"
    <3>1. frame(d).shot \in Shots /\ frame(d).take \in Takes
      BY <1>1, <1>2, <2>2 DEF Frames
    <3>2. photos = [NoPhotos EXCEPT ![frame(d).shot] = frame(d).take]
      BY <2>2
    <3> QED
      BY <3>1, <3>2, Numbers DEF PhotosType
  <2> QED
    BY <2>1, <2>2
<1> HIDE DEF photos
<1>4. /\ form' \in [Shots -> {Own, Blank} \cup (Dialogs \X Takes)]
      /\ received(d, photos) \in SUBSET Shots /\ box[d].received \subseteq received(d, photos)
  BY <1>1, <1>3, Absorbs, Parts
<1>5. box' \in BoxesType
  BY <1>1, <1>4, BoxFields, Parts
<1>6. \A e \in Dialogs : SameBox(e)
  BY <1>1, <1>4, Parts DEF SameBox, BoxesType, BoxType
<1>7. HandoffTypeOK'
  BY <1>1, <1>2, <1>4, <1>5, Parts, PartsNext
<1> QED
  BY <1>1, <1>2, <1>6, <1>7, Aside, Hush DEF SameSession, Idling

-----------------------------------------------------------------------------
(* THE LAPTOP: its reads of the session.                                   *)

LEMMA GetField ==
  ASSUME get \in [Dialogs -> [Gets -> GetType]], NEW d \in Dialogs, NEW k \in Gets,
         NEW x \in {"idle", "asked", "answered", "failed"},
         get' = [get EXCEPT ![d][k].phase = x]
  PROVE  /\ get' \in [Dialogs -> [Gets -> GetType]]
         /\ get'[d][k].phase = x
         /\ \A e \in Dialogs : e # d => get'[e] = get[e]
         /\ \A j \in Gets : j # k => get'[d][j] = get[d][j]
BY DEF GetType

LEMMA GetSet ==
  ASSUME get \in [Dialogs -> [Gets -> GetType]], NEW d \in Dialogs, NEW k \in Gets,
         NEW x \in GetType, get' = [get EXCEPT ![d][k] = x]
  PROVE  /\ get' \in [Dialogs -> [Gets -> GetType]]
         /\ get'[d][k] = x
         /\ \A e \in Dialogs : e # d => get'[e] = get[e]
         /\ \A j \in Gets : j # k => get'[d][j] = get[d][j]
OBVIOUS

(* A read moves and tells nobody: an answer is what the session is, and    *)
(* the last read is not asked before the session is complete.              *)
LEMMA ReadKept ==
  ASSUME HandoffInv, HandoffTypeOK', phone' = phone,
         NEW d \in Dialogs, NEW k \in Gets, box[d].phase = "linked",
         \A e \in Dialogs : SameBox(e) /\ SameSession(e) /\ Idling(e) /\ Quiet(e),
         \A e \in Dialogs : e # d => get'[e] = get[e],
         \A j \in Gets : j # k => get'[d][j] = get[d][j],
         get'[d][k].phase = "answered" => /\ get'[d][k].status = session[d].status
                                          /\ get'[d][k].photos = session[d].photos
                                          /\ get[d][k].phase = "asked",
         get'[d][k].phase = "asked" => k # Final \/ session[d].status = "complete"
  PROVE  HandoffInv'
<1> USE DEF HandoffInv
<1>1. DialogOK(d)'
  <2>1. Unlinked(d)' /\ Told(d)' /\ Complete(d)' /\ Handed(d)'
    BY DEF DialogOK, Unlinked, Told, Complete, Handed, SameBox, SameSession, Quiet, Whole, Having
  <2>2. \A photos : Whole(d, photos)' <=> box[d].asked \subseteq Having(photos)'
    BY DEF SameBox, Whole
  <2>3. \A j \in Gets : get'[d][j].phase = "answered" /\ get'[d][j].status = "complete" =>
          box[d].asked \subseteq Having(get[d][j].photos)'
    <3> SUFFICES ASSUME NEW j \in Gets, get'[d][j].phase = "answered", get'[d][j].status = "complete"
                 PROVE  box[d].asked \subseteq Having(get[d][j].photos)'
      OBVIOUS
    <3>1. CASE j = k
      BY <3>1 DEF DialogOK, Complete, Whole, Having
    <3>2. CASE j # k
      BY <3>2 DEF DialogOK, Answered, Whole, Having
    <3> QED
      BY <3>1, <3>2
  <2>4. Final \in Gets
    BY DEF Gets
  <2>5. Answered(d)'
    <3>1. get'[d][Final].phase = "asked" => session'[d].status = "complete"
      BY <2>4 DEF DialogOK, Answered, SameSession
    <3>2. get'[d][Final].phase = "answered" => get'[d][Final].status = "complete"
      BY <2>4 DEF DialogOK, Answered
    <3>3. \A j \in Gets : get'[d][j].phase = "answered" /\ get'[d][j].status = "complete" =>
            Whole(d, get[d][j].photos)'
      BY <2>3 DEF Whole, SameBox
    <3> QED
      BY <3>1, <3>2, <3>3 DEF Answered
  <2> QED
    BY <2>1, <2>5 DEF DialogOK
<1>2. \A e \in Dialogs : e # d => DialogOK(e)'
  BY DialogKept
<1> QED
  BY <1>1, <1>2, Moving, Elsewhere

(* Whoever has asked or has an answer is linked.                           *)
LEMMA Linking ==
  ASSUME NEW d, NEW k \in Gets, DialogOK(d), get[d][k].phase # "idle"
  PROVE  box[d].phase = "linked"
BY DEF DialogOK, Unlinked, Idle

LEMMA TurnsAway ==
  ASSUME HandoffTypeOK, NEW d \in Dialogs, turnAway(d), shown' = shown
  PROVE  /\ Streams' /\ session' \in SessionsType
         /\ \A e \in Dialogs : SameSession(e) /\ Idling(e) /\ Quiet(e)
<1>1. CASE session[d].phase = "aged"
  <2> DEFINE f == [type |-> "expired"]
  <2>1. session' = [session EXCEPT ![d].phase = "gone"] /\ stream' = broadcast(d, f)
    BY <1>1 DEF turnAway
  <2>2. f \in Frames /\ f.type # "complete"
    BY DEF Frames
  <2> HIDE DEF f
  <2>3. /\ Streams' /\ Says(d, f)
        /\ \A e \in Dialogs : stream'[e].phase = stream[e].phase /\ (e # d => SaysNothing(e))
    BY <2>1, <2>2, Broadcasts, Parts
  <2>4. session' \in SessionsType
    BY <2>1, SessionFields, Parts
  <2>5. \A e \in Dialogs : SameSession(e)
    BY <2>1, Parts DEF SameSession, SessionsType, SessionType
  <2> QED
    BY <2>2, <2>3, <2>4, <2>5, Hush DEF Idling
<1>2. CASE session[d].phase # "aged"
  <2>1. UNCHANGED <<session, stream>>
    BY <1>2 DEF turnAway
  <2> QED
    BY <2>1, Silent, Hush, Parts DEF SameSession, Idling, Streams
<1> QED
  BY <1>1, <1>2

LEMMA Alike ==
  ASSUME HandoffTypeOK, UNCHANGED <<shown, stream, session>>
  PROVE  /\ Streams' /\ session' \in SessionsType
         /\ \A e \in Dialogs : SameSession(e) /\ Idling(e) /\ Quiet(e)
BY Silent, Hush, Parts DEF SameSession, Idling, Streams

LEMMA OnCompleteStep ==
  ASSUME HandoffInv, NEW d \in Dialogs, OnComplete(d)
  PROVE  HandoffInv'
<1> USE DEF HandoffInv
<1>0. Final \in Gets
  BY DEF Gets
<1>1. /\ stream[d].frames # <<>> /\ stream[d].phase = "on" /\ Pops(d) /\ frame(d).type = "complete"
      /\ UNCHANGED <<form, shown, session, phone, takes, edits, mishaps>>
  BY DEF OnComplete, Arrives
<1>2. /\ Streams' /\ frame(d) = stream[d].frames[1] /\ 1 \in 1..Len(stream[d].frames)
      /\ \A e \in Dialogs : stream'[e].phase = stream[e].phase /\ SaysNothing(e)
  BY <1>1, Popping, Parts
<1>3. session[d].status = "complete"
  BY <1>1, <1>2 DEF DialogOK, Told
<1>4. box[d].phase = "linked"
  BY <1>1 DEF DialogOK, Unlinked
<1>5. \A e \in Dialogs : SameSession(e) /\ Idling(e) /\ Quiet(e)
  BY <1>1, <1>2, Hush DEF SameSession, Idling
<1>6. CASE box[d].closing
  <2>1. box' = box /\ get' = get
    BY <1>6 DEF OnComplete
  <2>2. HandoffTypeOK'
    BY <1>1, <1>2, <2>1, Parts, PartsNext
  <2> QED
    BY <1>1, <1>5, <2>1, <2>2, Aside DEF SameBox
<1>7. CASE ~box[d].closing
  <2>1. box' = [box EXCEPT ![d].closing = TRUE] /\ get' = [get EXCEPT ![d][Final].phase = "asked"]
    BY <1>7 DEF OnComplete
  <2>2. box' \in BoxesType /\ \A e \in Dialogs : SameBox(e)
    <3>1. box' \in BoxesType
      BY <2>1, BoxFields, Parts
    <3> QED
      BY <2>1, <3>1, Parts DEF SameBox, BoxesType, BoxType
  <2>3. /\ get' \in [Dialogs -> [Gets -> GetType]]
        /\ get'[d][Final].phase = "asked"
        /\ \A e \in Dialogs : e # d => get'[e] = get[e]
        /\ \A j \in Gets : j # Final => get'[d][j] = get[d][j]
    BY <1>0, <2>1, GetField, Parts
  <2>4. HandoffTypeOK'
    BY <1>1, <1>2, <2>2, <2>3, Parts, PartsNext
  <2> QED
    BY <1>0, <1>1, <1>3, <1>4, <1>5, <2>2, <2>3, <2>4, ReadKept
<1> QED
  BY <1>6, <1>7

LEMMA TickStep ==
  ASSUME HandoffInv, NEW d \in Dialogs, NEW k \in Polls, Tick(d, k)
  PROVE  HandoffInv'
<1> USE DEF HandoffInv
<1>1. /\ box[d].phase = "linked" /\ get' = [get EXCEPT ![d][k].phase = "asked"]
      /\ UNCHANGED <<form, shown, box, stream, session, phone, takes, edits, mishaps>>
  BY DEF Tick, ticking, Linked
<1>2. k \in Gets /\ k # Final
  BY HandoffAssumption DEF Gets
<1>3. /\ get' \in [Dialogs -> [Gets -> GetType]]
      /\ get'[d][k].phase = "asked"
      /\ \A e \in Dialogs : e # d => get'[e] = get[e]
      /\ \A j \in Gets : j # k => get'[d][j] = get[d][j]
  BY <1>1, <1>2, GetField, Parts
<1>4. Streams' /\ \A e \in Dialogs : SameSession(e) /\ Idling(e) /\ Quiet(e)
  BY <1>1, Alike
<1>5. HandoffTypeOK'
  BY <1>1, <1>3, <1>4, Parts, PartsNext
<1> QED
  BY <1>1, <1>2, <1>3, <1>4, <1>5, ReadKept DEF SameBox

LEMMA ServeGetStep ==
  ASSUME HandoffInv, NEW d \in Dialogs, NEW k \in Gets, ServeGet(d, k) \/ LoseGet(d, k)
  PROVE  HandoffInv'
<1> USE DEF HandoffInv
<1>1. /\ get[d][k].phase = "asked" /\ UNCHANGED <<form, shown, box, phone, takes, edits>>
      /\ mishaps' \in 0..MaxMishaps
  BY Counts, Parts DEF ServeGet, LoseGet
<1>2. box[d].phase = "linked"
  BY <1>1, Linking
<1>3. /\ Streams' /\ session' \in SessionsType
      /\ \A e \in Dialogs : SameSession(e) /\ Idling(e) /\ Quiet(e)
  BY <1>1, Alike, TurnsAway DEF ServeGet, LoseGet
<1> DEFINE x == [phase |-> "answered", status |-> session[d].status, photos |-> session[d].photos]
<1>4. CASE get' = [get EXCEPT ![d][k] = x]
  <2>1. /\ x \in GetType /\ x.phase = "answered" /\ x.status = session[d].status
        /\ x.photos = session[d].photos
    BY Parts DEF GetType, SessionsType, SessionType
  <2> HIDE DEF x
  <2>2. /\ get' \in [Dialogs -> [Gets -> GetType]]
        /\ get'[d][k] = x
        /\ \A e \in Dialogs : e # d => get'[e] = get[e]
        /\ \A j \in Gets : j # k => get'[d][j] = get[d][j]
    BY <1>4, <2>1, GetSet, Parts
  <2>3. HandoffTypeOK'
    BY <1>1, <1>3, <2>2, Parts, PartsNext
  <2> QED
    BY <1>1, <1>2, <1>3, <2>1, <2>2, <2>3, ReadKept DEF SameBox
<1>5. CASE get' = [get EXCEPT ![d][k].phase = "failed"]
  <2> HIDE DEF x
  <2>0. get \in [Dialogs -> [Gets -> GetType]]
    BY Parts
  <2>1. /\ get' \in [Dialogs -> [Gets -> GetType]]
        /\ get'[d][k].phase = "failed"
        /\ \A e \in Dialogs : e # d => get'[e] = get[e]
        /\ \A j \in Gets : j # k => get'[d][j] = get[d][j]
    BY <1>5, <2>0, GetField
  <2>2. HandoffTypeOK'
    BY <1>1, <1>3, <2>1, Parts, PartsNext
  <2> QED
    BY <1>1, <1>2, <1>3, <2>1, <2>2, ReadKept DEF SameBox
<1> QED
  BY <1>4, <1>5 DEF ServeGet, LoseGet

LEMMA GetFailedStep ==
  ASSUME HandoffInv, NEW d \in Dialogs, NEW k \in Gets, GetFailed(d, k)
  PROVE  HandoffInv'
<1> USE DEF HandoffInv
<1>1. /\ get[d][k].phase = "failed" /\ get' = [get EXCEPT ![d][k] = Idle]
      /\ UNCHANGED <<form, shown, stream, session, phone, takes, edits, mishaps>>
  BY DEF GetFailed
<1>2. box[d].phase = "linked"
  BY <1>1, Linking
<1>3. Streams' /\ \A e \in Dialogs : SameSession(e) /\ Idling(e) /\ Quiet(e)
  BY <1>1, Alike
<1>4. Idle \in GetType /\ Idle.phase = "idle"
  BY Numbers DEF Idle, GetType, StatusType
<1>5. /\ get' \in [Dialogs -> [Gets -> GetType]]
      /\ get'[d][k] = Idle
      /\ \A e \in Dialogs : e # d => get'[e] = get[e]
      /\ \A j \in Gets : j # k => get'[d][j] = get[d][j]
  BY <1>1, <1>4, GetSet, Parts
<1>6. box' \in BoxesType /\ \A e \in Dialogs : SameBox(e)
  <2>1. box' = box \/ box' = [box EXCEPT ![d].closing = FALSE]
    BY DEF GetFailed
  <2>2. box' \in BoxesType
    BY <2>1, BoxFields, Parts
  <2>3. \A e \in Dialogs : SameBox(e)
    <3>1. CASE box' = box
      BY <3>1 DEF SameBox
    <3>2. CASE box' = [box EXCEPT ![d].closing = FALSE]
      BY <3>2, Parts DEF SameBox, BoxesType, BoxType
    <3> QED
      BY <2>1, <3>1, <3>2
  <2> QED
    BY <2>2, <2>3
<1>7. HandoffTypeOK'
  BY <1>1, <1>3, <1>5, <1>6, Parts, PartsNext
<1> QED
  BY <1>1, <1>2, <1>3, <1>4, <1>5, <1>6, <1>7, ReadKept

LEMMA GetAnsweredStep ==
  ASSUME HandoffInv, NEW d \in Dialogs, NEW k \in Gets, GetAnswered(d, k)
  PROVE  HandoffInv'
<1> USE DEF HandoffInv
<1> DEFINE photos == get[d][k].photos
           ends == k = Final \/ get[d][k].status = "complete"
<1>1. /\ get[d][k].phase = "answered" /\ absorb(d, photos)
      /\ box' = [box EXCEPT ![d].received = received(d, photos), ![d].finished = @ \/ ends]
      /\ IF ends THEN closeHandoff ELSE UNCHANGED <<shown, stream>>
      /\ get' = [get EXCEPT ![d][k] = Idle]
      /\ UNCHANGED <<session, phone, takes, edits, mishaps>>
  BY DEF GetAnswered
<1>2. box[d].phase = "linked"
  BY <1>1, Linking
<1>3. photos \in PhotosType
  BY Parts DEF GetType
<1>4. ends => box[d].asked \subseteq Having(photos)
  BY <1>1 DEF DialogOK, Answered, Whole, Gets
<1>5. /\ Streams' /\ shown' \in 0..MaxDialogs
      /\ \A e \in Dialogs : Idling(e) /\ Quiet(e)
  BY <1>1, Closing, Silent, Hush, Numbers, Parts DEF Streams, Idling
<1>6. Idle \in GetType /\ Idle.phase = "idle"
  BY Numbers DEF Idle, GetType, StatusType
<1>7. /\ get' \in [Dialogs -> [Gets -> GetType]]
      /\ get'[d][k] = Idle
      /\ \A e \in Dialogs : e # d => get'[e] = get[e]
      /\ \A j \in Gets : j # k => get'[d][j] = get[d][j]
  BY <1>1, <1>6, GetSet, Parts
<1> HIDE DEF photos, ends
<1>8. /\ form' \in [Shots -> {Own, Blank} \cup (Dialogs \X Takes)]
      /\ received(d, photos) \in SUBSET Shots /\ box[d].received \subseteq received(d, photos)
  BY <1>1, <1>3, Absorbs, Parts
<1>9. /\ box' \in BoxesType /\ \A e \in Dialogs : e # d => box'[e] = box[e]
      /\ box'[d].phase = box[d].phase /\ box'[d].asked = box[d].asked
      /\ box'[d].received = received(d, photos) /\ box'[d].finished = (box[d].finished \/ ends)
  <2>1. (box[d].finished \/ ends) \in BOOLEAN
    BY Zenon
  <2>2. [box EXCEPT ![d].received = received(d, photos)] \in BoxesType
    BY <1>8, BoxFields, Parts
  <2> DEFINE f == [box EXCEPT ![d].received = received(d, photos)]
  <2>3. f[d].finished = box[d].finished /\ f[d].phase = box[d].phase /\ f[d].asked = box[d].asked
        /\ f[d].received = received(d, photos) /\ \A e \in Dialogs : e # d => f[e] = box[e]
    BY Parts DEF BoxesType, BoxType
  <2>4. box' = [f EXCEPT ![d].finished = @ \/ ends]
    BY <1>1, Zenon
  <2> HIDE DEF f
  <2>5. box' = [f EXCEPT ![d].finished = (box[d].finished \/ ends)]
    BY <2>3, <2>4
  <2>6. f \in BoxesType
    BY <2>2 DEF f
  <2>7. box' \in BoxesType
    BY <2>1, <2>5, <2>6, BoxFields
  <2>8. /\ box'[d].phase = f[d].phase /\ box'[d].asked = f[d].asked /\ box'[d].received = f[d].received
        /\ \A e \in Dialogs : e # d => box'[e] = f[e]
    BY <2>5, <2>6 DEF BoxesType, BoxType
  <2>9. box'[d].finished = (box[d].finished \/ ends)
    BY <2>5, <2>6 DEF BoxesType, BoxType
  <2> QED
    BY <2>3, <2>7, <2>8, <2>9
<1>10. HandoffTypeOK'
  BY <1>1, <1>5, <1>7, <1>8, <1>9, Parts, PartsNext
<1>11. DialogOK(d)'
  <2>1. Unlinked(d)' /\ Told(d)'
    BY <1>1, <1>2, <1>5, <1>9 DEF DialogOK, Unlinked, Told, Quiet
  <2>2. Complete(d)'
    BY <1>1, <1>9 DEF DialogOK, Complete, Whole, Having
  <2>3. Answered(d)'
    <3>1. Final \in Gets
      BY DEF Gets
    <3>2. get'[d][Final].phase = "asked" => session'[d].status = "complete"
      BY <1>1, <1>6, <1>7, <3>1 DEF DialogOK, Answered
    <3>3. get'[d][Final].phase = "answered" => get'[d][Final].status = "complete"
      BY <1>6, <1>7, <3>1 DEF DialogOK, Answered
    <3>4. \A j \in Gets : get'[d][j].phase = "answered" /\ get'[d][j].status = "complete" =>
            Whole(d, get[d][j].photos)'
      BY <1>6, <1>7, <1>9 DEF DialogOK, Answered, Whole, Having
    <3> QED
      BY <3>2, <3>3, <3>4 DEF Answered
  <2>4. Handed(d)'
    BY <1>4, <1>8, <1>9 DEF DialogOK, Handed, received
  <2> QED
    BY <2>1, <2>2, <2>3, <2>4 DEF DialogOK
<1>12. Onward(d)
  BY <1>1, <1>9 DEF Onward, Having
<1>13. \A e \in Dialogs : e # d => DialogOK(e)' /\ Onward(e)
  <2>1. \A e \in Dialogs : e # d => SameBox(e) /\ SameSession(e)
    BY <1>1, <1>9 DEF SameBox, SameSession
  <2> QED
    BY <1>5, <1>7, <2>1, DialogKept, Moving
<1> QED
  BY <1>1, <1>10, <1>11, <1>12, <1>13, Elsewhere

-----------------------------------------------------------------------------
(* THE RELAY.                                                              *)

LEMMA AgeStep ==
  ASSUME HandoffInv, NEW d \in Dialogs, Age(d)
  PROVE  HandoffInv'
<1> USE DEF HandoffInv
<1>1. /\ session' = [session EXCEPT ![d].phase = "aged"] /\ mishaps' \in 0..MaxMishaps
      /\ UNCHANGED <<form, shown, box, stream, get, phone, takes, edits>>
  BY Counts DEF Age
<1>2. session' \in SessionsType
  BY <1>1, SessionFields, Parts
<1>3. \A e \in Dialogs : SameSession(e)
  BY <1>1, <1>2, Parts DEF SameSession, SessionsType, SessionType
<1>4. Streams' /\ \A e \in Dialogs : Idling(e) /\ Quiet(e)
  BY <1>1, Silent, Hush, Parts DEF Streams, Idling
<1>5. HandoffTypeOK'
  BY <1>1, <1>2, <1>4, Parts, PartsNext
<1> QED
  BY <1>1, <1>3, <1>4, <1>5, Aside DEF SameBox

LEMMA RestartStep ==
  ASSUME HandoffInv, Restart
  PROVE  HandoffInv'
<1> USE DEF HandoffInv
<1>1. UNCHANGED <<form, shown, box, get, takes, edits>> /\ mishaps' \in 0..MaxMishaps
  BY Counts DEF Restart
<1>2. session' \in SessionsType /\ \A d \in Dialogs : SameSession(d)
  <2> DEFINE to(d) == IF session[d].phase = "none" THEN session[d]
                      ELSE [session[d] EXCEPT !.phase = "gone"]
  <2>1. session' = [d \in Dialogs |-> to(d)]
    BY DEF Restart
  <2>2. ASSUME NEW d \in Dialogs
        PROVE  to(d) \in SessionType /\ to(d).status = session[d].status /\ to(d).photos = session[d].photos
    <3>1. session[d] \in SessionType
      BY Parts DEF SessionsType
    <3> QED
      BY <3>1 DEF SessionType
  <2> HIDE DEF to
  <2> QED
    BY <2>1, <2>2 DEF SessionsType, SameSession
<1>3. Streams' /\ \A d \in Dialogs : Idling(d) /\ Quiet(d)
  <2> DEFINE x == [phase |-> "connecting", frames |-> <<>>]
  <2>1. stream' = [d \in Dialogs |-> IF stream[d].phase = "on" THEN x ELSE stream[d]]
    BY DEF Restart
  <2>2. x \in [phase : StreamPhases, frames : Seq(Frames)] /\ x.phase = "connecting" /\ x.frames = <<>>
    <3>1. <<>> \in Seq(Frames)
      OBVIOUS
    <3> QED
      BY <3>1 DEF StreamPhases
  <2> HIDE DEF x
  <2>3. stream' \in StreamsType
    BY <2>1, <2>2, Parts DEF Streams, StreamsType
  <2>4. \A d \in Dialogs : stream'[d] = stream[d] \/ (stream'[d] = x /\ stream[d].phase = "on")
    BY <2>1 DEF Restart
  <2>5. Streams'
    BY <1>1, <2>2, <2>3, <2>4, Parts DEF Streams
  <2>6. \A d \in Dialogs : Idling(d) /\ SaysNothing(d)
    BY <2>2, <2>4, Silent DEF Idling
  <2> QED
    BY <2>5, <2>6, Hush
<1>4. ASSUME NEW p \in Phones
      PROVE  phone'[p] \in PhoneType /\ (phone'[p] = phone[p] \/ PhoneOK(p)')
  <2>1. phone'[p] = IF phone[p].call = "held" THEN [phone[p] EXCEPT !.call = "asked"] ELSE phone[p]
    BY DEF Restart
  <2>2. phone[p] \in PhoneType
    BY Parts DEF PhonesType
  <2>3. CASE phone[p].call # "held"
    BY <2>1, <2>2, <2>3
  <2>4. CASE phone[p].call = "held"
    <3>1. /\ phone'[p] \in PhoneType /\ phone'[p].call = "asked"
          /\ phone'[p].step = phone[p].step /\ phone'[p].of = phone[p].of
          /\ phone'[p].photos = phone[p].photos /\ phone'[p].shot = phone[p].shot
          /\ phone'[p].take = phone[p].take
      BY <2>1, <2>2, <2>4 DEF PhoneType
    <3>2. phone[p].step = "saving"
      BY <2>4 DEF PhoneOK, CallOK, At
    <3>3. Asked(p)' = Asked(p)
      BY <1>1, <3>1 DEF Asked
    <3>4. CallOK(p)'
      BY <3>1, <3>2 DEF PhoneOK, CallOK, At
    <3>5. Knows(p)'
      BY <1>1, <3>1, <3>2 DEF PhoneOK, Knows, At, Full
    <3>6. Shown(p)'
      BY <3>1, <3>2, <3>3 DEF PhoneOK, Shown, Full
    <3> QED
      BY <3>1, <3>4, <3>5, <3>6 DEF PhoneOK
  <2> QED
    BY <2>3, <2>4
<1>5. phone' \in PhonesType
  <2>1. phone' = [p \in Phones |-> phone'[p]]
    BY DEF Restart
  <2> QED
    BY <1>4, <2>1 DEF PhonesType
<1>6. HandoffTypeOK'
  BY <1>1, <1>2, <1>3, <1>5, Parts, PartsNext
<1> QED
  BY <1>1, <1>2, <1>3, <1>4, <1>6, Aside DEF SameBox

-----------------------------------------------------------------------------
(* THE PHONE.                                                              *)

(* A step of phone p alone.                                                *)
LEMMA OnPhone ==
  ASSUME HandoffInv, NEW p \in Phones, phone' \in PhonesType,
         \A q \in Phones : q # p => phone'[q] = phone[q],
         UNCHANGED <<form, shown, box, stream, get, session, edits>>,
         takes' \in 0..MaxTakes, mishaps' \in 0..MaxMishaps,
         PhoneOK(p)'
  PROVE  HandoffInv'
<1> USE DEF HandoffInv
<1>1. HandoffTypeOK'
  BY Alike, Parts, PartsNext
<1>2. \A d \in Dialogs : DialogOK(d)' /\ Onward(d)
  BY DialogSame
<1> QED
  BY <1>1, <1>2, Elsewhere

LEMMA SamePlace ==
  ASSUME NEW p, UNCHANGED <<box, session>>, phone'[p].of = phone[p].of
  PROVE  /\ Asked(p)' = Asked(p)
         /\ Whole(phone[p].of, session[phone[p].of].photos)'
              <=> Whole(phone[p].of, session[phone[p].of].photos)
         /\ Having(session[phone[p].of].photos)' = Having(session[phone[p].of].photos)
BY DEF Asked, Whole, Having

(* A call moves, and the page shows what it did; an answer only goes.      *)
LEMMA Recalls ==
  ASSUME NEW p, PhoneOK(p), ~At(p, "off"), UNCHANGED <<box, session>>,
         phone'[p].of = phone[p].of, CallOK(p)', phone'[p].call # "ok",
         phone'[p].step \in Full => phone[p].step \in Full,
         Shown(p)'
  PROVE  PhoneOK(p)'
<1>1. /\ phone[p].of \in Dialogs /\ box[phone[p].of].phase = "linked"
      /\ phone[p].step \in Full => Whole(phone[p].of, session[phone[p].of].photos)
  BY DEF PhoneOK, Knows
<1>2. Knows(p)'
  BY <1>1, SamePlace DEF Knows
<1> QED
  BY <1>2 DEF PhoneOK

LEMMA Words ==
  /\ PhoneSteps = {"off", "loading", "capturing", "saving", "finishing", "stopped",
                   "sent", "unavailable", "restoring", "restored"}
  /\ "open" \in StatusType /\ 0 \in Shots \cup {0} /\ {} \in SUBSET Shots
BY DEF PhoneSteps, StatusType

LEMMA ScanStep ==
  ASSUME HandoffInv, NEW p \in Phones, Scan(p)
  PROVE  HandoffInv'
<1> USE DEF HandoffInv
<1>1. /\ phone[p].step = "off" /\ shown # 0 /\ box[shown].phase = "linked"
      /\ phone' = [phone EXCEPT ![p].step = "loading", ![p].of = shown, ![p].call = "asked"]
      /\ UNCHANGED <<form, shown, box, stream, get, session, takes, edits, mishaps>>
  BY DEF Scan, At
<1>2. phone' \in PhonesType
  <2>1. shown \in 0..MaxDialogs /\ "loading" \in PhoneSteps /\ phone \in PhonesType
    BY Parts, Words
  <2> QED
    BY <1>1, <2>1, PhoneFields, Zenon
<1>3. /\ \A q \in Phones : q # p => phone'[q] = phone[q]
      /\ phone'[p].step = "loading" /\ phone'[p].of = shown /\ phone'[p].call = "asked"
  BY <1>1, Parts DEF PhonesType, PhoneType
<1>4. shown \in Dialogs
  BY <1>1, Parts, Numbers
<1>5. PhoneOK(p)'
  BY <1>1, <1>3, <1>4 DEF PhoneOK, CallOK, Knows, Shown, At, Full
<1> QED
  BY <1>1, <1>2, <1>3, <1>5, OnPhone, Parts

LEMMA ReloadStep ==
  ASSUME HandoffInv, NEW p \in Phones, Reload(p)
  PROVE  HandoffInv'
<1> USE DEF HandoffInv
<1>1. /\ phone[p].step # "off"
      /\ phone' = [phone EXCEPT ![p].step = "loading", ![p].photos = {}, ![p].call = "asked",
                                ![p].status = "open", ![p].seen = {},
                                ![p].shot = 0, ![p].take = 0]
      /\ UNCHANGED <<form, shown, box, stream, get, session, takes, edits>>
      /\ mishaps' \in 0..MaxMishaps
  BY Counts DEF Reload
<1>2. phone' \in PhonesType
  <2>1. "loading" \in PhoneSteps /\ phone \in PhonesType
    BY Parts, Words
  <2> QED
    BY <1>1, <2>1, Words, Numbers, PhoneFields, Zenon
<1>3. /\ \A q \in Phones : q # p => phone'[q] = phone[q]
      /\ phone'[p].step = "loading" /\ phone'[p].of = phone[p].of /\ phone'[p].call = "asked"
  BY <1>1, Parts DEF PhonesType, PhoneType
<1>4. CallOK(p)' /\ Shown(p)' /\ ~At(p, "off")
  BY <1>1, <1>3 DEF CallOK, Shown, At, Full
<1>5. PhoneOK(p)'
  BY <1>1, <1>3, <1>4, Recalls DEF Full
<1> QED
  BY <1>1, <1>2, <1>3, <1>5, OnPhone, Parts

LEMMA LoseAnswerStep ==
  ASSUME HandoffInv, NEW p \in Phones, LoseAnswer(p)
  PROVE  HandoffInv'
<1> USE DEF HandoffInv
<1>1. PICK call \in {"asked", "failed"} :
        /\ phone[p].call \in {"asked", "ok"}
        /\ phone' = [phone EXCEPT ![p].call = call, ![p].seen = {}]
        /\ UNCHANGED <<form, shown, box, stream, get, session, takes, edits>>
        /\ mishaps' \in 0..MaxMishaps
  BY Counts DEF LoseAnswer
<1>2. phone' \in PhonesType
  <2>1. phone \in PhonesType /\ call \in {"none", "asked", "held", "ok", "failed"}
    BY Parts
  <2> QED
    BY <1>1, <2>1, Words, PhoneFields, Zenon
<1>3. /\ \A q \in Phones : q # p => phone'[q] = phone[q]
      /\ phone'[p].step = phone[p].step /\ phone'[p].of = phone[p].of /\ phone'[p].call = call
      /\ phone'[p].photos = phone[p].photos /\ phone'[p].shot = phone[p].shot
      /\ phone'[p].take = phone[p].take
  BY <1>1, Parts DEF PhonesType, PhoneType
<1>4. Asked(p)' = Asked(p)
  BY <1>1, <1>3, SamePlace
<1>5. CallOK(p)' /\ Shown(p)' /\ ~At(p, "off")
  BY <1>1, <1>3, <1>4 DEF PhoneOK, CallOK, Shown, At, Full
<1>6. PhoneOK(p)'
  BY <1>1, <1>3, <1>5, Recalls
<1> QED
  BY <1>1, <1>2, <1>3, <1>6, OnPhone, Parts

LEMMA CallFailsStep ==
  ASSUME HandoffInv, NEW p \in Phones, CallFails(p)
  PROVE  HandoffInv'
<1> USE DEF HandoffInv
<1>1. /\ phone[p].call = "failed"
      /\ phone' = [phone EXCEPT ![p].step = afterFailure(p), ![p].call = "none",
                                ![p].shot = 0, ![p].take = 0]
      /\ UNCHANGED <<form, shown, box, stream, get, session, takes, edits, mishaps>>
  BY DEF CallFails
<1>2. /\ phone[p].step \in {"loading", "saving", "finishing", "restoring"}
      /\ \/ phone[p].step \in {"loading", "restoring"} /\ afterFailure(p) = "unavailable"
         \/ phone[p].step = "saving" /\ afterFailure(p) = "capturing"
         \/ phone[p].step = "finishing" /\ afterFailure(p) \in {"sent", "stopped"}
  BY <1>1 DEF PhoneOK, CallOK, afterFailure, At
<1>3. phone' \in PhonesType
  <2>1. phone \in PhonesType /\ afterFailure(p) \in PhoneSteps
    BY <1>2, Parts, Words
  <2> QED
    BY <1>1, <2>1, Words, Numbers, PhoneFields, Zenon
<1>4. /\ \A q \in Phones : q # p => phone'[q] = phone[q]
      /\ phone'[p].step = afterFailure(p) /\ phone'[p].of = phone[p].of /\ phone'[p].call = "none"
      /\ phone'[p].photos = phone[p].photos
  BY <1>1, Parts DEF PhonesType, PhoneType
<1>5. Asked(p)' = Asked(p)
  BY <1>1, <1>4, SamePlace
<1>6. CallOK(p)' /\ Shown(p)' /\ ~At(p, "off")
  BY <1>2, <1>4, <1>5 DEF PhoneOK, CallOK, Shown, At, Full
<1>7. PhoneOK(p)'
  BY <1>1, <1>2, <1>4, <1>6, Recalls DEF Full
<1> QED
  BY <1>1, <1>3, <1>4, <1>7, OnPhone, Parts

LEMMA TakePhotoStep ==
  ASSUME HandoffInv, NEW p \in Phones, TakePhoto(p)
  PROVE  HandoffInv'
<1> USE DEF HandoffInv
<1> DEFINE queue == Asked(p) \ phone[p].photos
<1>1. /\ phone[p].step = "capturing" /\ queue # {} /\ takes < MaxTakes /\ takes' = takes + 1
      /\ phone' = [phone EXCEPT ![p].step = "saving", ![p].call = "asked",
                                ![p].shot = Min(queue), ![p].take = takes + 1]
      /\ UNCHANGED <<form, shown, box, stream, get, session, edits, mishaps>>
  BY DEF TakePhoto, At
<1>2. queue \subseteq Shots
  <2>1. phone[p].of \in Dialogs
    BY <1>1 DEF PhoneOK, Knows, At
  <2> QED
    BY <2>1, Parts DEF Asked, BoxesType, BoxType
<1>3. Min(queue) \in Shots
  <2> HIDE DEF queue
  <2>1. \E x \in queue : \A y \in queue : x <= y
    BY <1>1, <1>2, HandoffAssumption, Smallest
  <2>2. Min(queue) \in queue
    BY <2>1 DEF Min
  <2> QED
    BY <1>2, <2>2
<1>4. takes + 1 \in Takes /\ takes + 1 \in 0..MaxTakes
  BY <1>1, Parts, HandoffAssumption DEF Takes
<1> HIDE DEF queue
<1>5. phone' \in PhonesType
  <2>1. phone \in PhonesType /\ "saving" \in PhoneSteps /\ Min(queue) \in Shots \cup {0}
    BY <1>3, Parts, Words
  <2> QED
    BY <1>1, <1>4, <2>1, PhoneFields, Zenon
<1>6. /\ \A q \in Phones : q # p => phone'[q] = phone[q]
      /\ phone'[p].step = "saving" /\ phone'[p].of = phone[p].of /\ phone'[p].call = "asked"
      /\ phone'[p].photos = phone[p].photos /\ phone'[p].shot = Min(queue)
      /\ phone'[p].take = takes + 1
  BY <1>1, Parts DEF PhonesType, PhoneType
<1>7. Asked(p)' = Asked(p)
  BY <1>1, <1>6, SamePlace
<1>8. CallOK(p)' /\ Shown(p)' /\ ~At(p, "off")
  BY <1>1, <1>3, <1>4, <1>6, <1>7 DEF PhoneOK, CallOK, Shown, At, Full
<1>9. PhoneOK(p)'
  BY <1>1, <1>6, <1>8, Recalls DEF Full
<1> QED
  BY <1>1, <1>4, <1>5, <1>6, <1>9, OnPhone, Parts

LEMMA AgainStep ==
  ASSUME HandoffInv, NEW p \in Phones, TryAgain(p) \/ Continue(p)
  PROVE  HandoffInv'
<1> USE DEF HandoffInv
<1>1. UNCHANGED <<form, shown, box, stream, get, session, takes, edits, mishaps>>
  BY DEF TryAgain, Continue
<1>2. phone' \in PhonesType
  <2>1. phone \in PhonesType /\ "finishing" \in PhoneSteps /\ "restoring" \in PhoneSteps
    BY Parts, Words
  <2>2. CASE TryAgain(p)
    BY <2>1, <2>2, PhoneFields, Zenon DEF TryAgain
  <2>3. CASE Continue(p)
    BY <2>1, <2>3, Words, PhoneFields, Zenon DEF Continue
  <2> QED
    BY <2>2, <2>3
<1>3. /\ phone[p].step \in {"stopped", "sent"}
      /\ \A q \in Phones : q # p => phone'[q] = phone[q]
      /\ phone'[p].of = phone[p].of /\ phone'[p].call = "asked"
      /\ \/ phone'[p].step = "finishing" /\ phone[p].step = "stopped" /\ phone'[p].photos = phone[p].photos
         \/ phone'[p].step = "restoring"
  BY Parts DEF PhonesType, PhoneType, TryAgain, Continue, At
<1>4. Asked(p)' = Asked(p)
  BY <1>1, <1>3, SamePlace
<1>5. CallOK(p)' /\ Shown(p)' /\ ~At(p, "off")
  BY <1>3, <1>4 DEF PhoneOK, CallOK, Shown, At, Full
<1>6. PhoneOK(p)'
  BY <1>1, <1>3, <1>5, Recalls DEF Full
<1> QED
  BY <1>1, <1>2, <1>3, <1>6, OnPhone, Parts

(* The page shows what an answer brought.                                  *)
LEMMA ShowsStep ==
  ASSUME HandoffInv, NEW p \in Phones, Loaded(p) \/ Saved(p) \/ Finished(p) \/ Restored(p)
  PROVE  HandoffInv'
<1> USE DEF HandoffInv
<1>1. UNCHANGED <<form, shown, box, stream, get, session, takes, edits, mishaps>>
  BY DEF Loaded, Saved, Finished, Restored
<1>2. phone[p].call = "ok" /\ phone[p].step \in {"loading", "saving", "finishing", "restoring"}
  BY DEF Loaded, Saved, Finished, Restored, At
<1>3. /\ phone[p].of \in Dialogs /\ box[phone[p].of].phase = "linked"
      /\ phone[p].seen \subseteq Having(session[phone[p].of].photos)
      /\ phone[p].step \in {"finishing", "restoring"} \/ phone[p].status = "complete" => hasEveryPhoto(p)
  BY <1>2 DEF PhoneOK, Knows, At, Full
<1>4. PICK step \in {"sent", "finishing", "capturing", "restored"},
           call \in {"none", "asked"} :
        /\ Shows(p, step, call)
        /\ call = "asked" <=> step = "finishing"
        /\ step = "capturing" => ~hasEveryPhoto(p)
        /\ step # "capturing" => hasEveryPhoto(p)
  BY <1>2, <1>3 DEF Loaded, Saved, Finished, Restored, At
<1>5. phone' = [phone EXCEPT ![p].step = step, ![p].photos = phone[p].seen, ![p].call = call,
                             ![p].status = IF step = "finishing" THEN phone[p].status ELSE "open",
                             ![p].seen = {}, ![p].shot = 0, ![p].take = 0]
  BY <1>4, Zenon DEF Shows
<1>6. phone' \in PhonesType
  <2>1. /\ phone \in PhonesType /\ step \in PhoneSteps /\ phone[p].seen \in SUBSET Shots
        /\ call \in {"none", "asked", "held", "ok", "failed"}
        /\ (IF step = "finishing" THEN phone[p].status ELSE "open") \in StatusType
    BY Parts, Words DEF PhonesType, PhoneType
  <2> QED
    BY <1>5, <2>1, Words, Numbers, PhoneFields, Zenon
<1>7. /\ \A q \in Phones : q # p => phone'[q] = phone[q]
      /\ phone'[p].step = step /\ phone'[p].of = phone[p].of /\ phone'[p].call = call
      /\ phone'[p].photos = phone[p].seen
  BY <1>5, Parts DEF PhonesType, PhoneType
<1>8. Asked(p)' = Asked(p)
  BY <1>1, <1>7, SamePlace
<1>9. CallOK(p)' /\ Shown(p)'
  BY <1>4, <1>7, <1>8 DEF CallOK, Shown, At, Full, hasEveryPhoto
<1>10. Knows(p)'
  <2>1. hasEveryPhoto(p) => Whole(phone[p].of, session[phone[p].of].photos)
    BY <1>3 DEF hasEveryPhoto, Asked, Whole
  <2>2. step \in Full => Whole(phone[p].of, session[phone[p].of].photos)'
    BY <1>1, <1>4, <1>7, <2>1, SamePlace DEF Full
  <2> QED
    BY <1>1, <1>3, <1>4, <1>7, <2>2 DEF Knows, At
<1> QED
  BY <1>1, <1>6, <1>7, <1>9, <1>10, OnPhone, Parts DEF PhoneOK

(* A session that moves on keeps the dialog's word.                        *)
LEMMA Furthers ==
  ASSUME NEW d, DialogOK(d), box[d].phase = "linked", box'[d] = box[d], get'[d] = get[d],
         Onward(d), Told(d)', Complete(d)'
  PROVE  DialogOK(d)'
<1>1. Unlinked(d)' /\ Handed(d)'
  BY DEF DialogOK, Unlinked, Handed
<1>2. Answered(d)'
  BY DEF DialogOK, Answered, Whole, Having, Onward
<1> QED
  BY <1>1, <1>2 DEF DialogOK

LEMMA AnswerFields ==
  ASSUME phone \in PhonesType, NEW p \in Phones, NEW photos \in PhotosType,
         NEW status \in StatusType, Answer(p, photos, status)
  PROVE  /\ phone' \in PhonesType
         /\ \A q \in Phones : q # p => phone'[q] = phone[q]
         /\ phone'[p].step = phone[p].step /\ phone'[p].of = phone[p].of /\ phone'[p].call = "ok"
         /\ phone'[p].photos = phone[p].photos /\ phone'[p].seen = Having(photos)
         /\ phone'[p].status = status /\ phone'[p].shot = phone[p].shot
         /\ phone'[p].take = phone[p].take
<1>1. Having(photos) \in SUBSET Shots
  BY DEF Having
<1> DEFINE seen == Having(photos)
<1>2. phone' = [phone EXCEPT ![p].call = "ok", ![p].seen = seen, ![p].status = status]
  BY DEF Answer
<1> HIDE DEF seen
<1>3. phone' \in PhonesType
  BY <1>1, <1>2, PhoneFields, Zenon DEF seen
<1> QED
  BY <1>2, <1>3 DEF PhonesType, PhoneType, seen

(* The relay answers phone p out of a session that has moved on.           *)
LEMMA Serves ==
  ASSUME HandoffInv, NEW p \in Phones, NEW d \in Dialogs, d = phone[p].of,
         box[d].phase = "linked", ~At(p, "off"),
         UNCHANGED <<form, shown, box, get, takes, edits, mishaps>>,
         Streams', session' \in SessionsType,
         \A e \in Dialogs : Onward(e) /\ Told(e)' /\ Complete(e)',
         \A e \in Dialogs : e # d => SameSession(e) /\ Idling(e) /\ Quiet(e),
         Answer(p, session'[d].photos, session'[d].status),
         phone[p].step \in {"loading", "saving", "finishing", "restoring"}
  PROVE  HandoffInv'
<1> USE DEF HandoffInv
<1>1. session'[d].photos \in PhotosType /\ session'[d].status \in StatusType
  BY DEF SessionsType, SessionType
<1>2. /\ phone' \in PhonesType
      /\ \A q \in Phones : q # p => phone'[q] = phone[q]
      /\ phone'[p].step = phone[p].step /\ phone'[p].of = d /\ phone'[p].call = "ok"
      /\ phone'[p].photos = phone[p].photos /\ phone'[p].seen = Having(session'[d].photos)
      /\ phone'[p].status = session'[d].status /\ phone'[p].shot = phone[p].shot
      /\ phone'[p].take = phone[p].take
  BY <1>1, AnswerFields, Parts
<1>3. HandoffTypeOK'
  BY <1>2, Parts, PartsNext
<1>4. DialogOK(d)'
  BY Furthers
<1>5. \A e \in Dialogs : e # d => DialogOK(e)'
  <2>1. \A e \in Dialogs : SameBox(e)
    BY DEF SameBox
  <2> QED
    BY <2>1, DialogKept
<1>6. Asked(p)' = box[d].asked /\ Asked(p) = box[d].asked
  BY <1>2 DEF Asked
<1>7. CallOK(p)' /\ Shown(p)'
  BY <1>2, <1>6 DEF PhoneOK, CallOK, Shown, At, Full
<1>8. Knows(p)'
  <2>1. Having(session[d].photos)' = Having(session'[d].photos)
    BY DEF Having
  <2>2. phone[p].step \in Full => box[d].asked \subseteq Having(session'[d].photos)
    BY <2>1 DEF PhoneOK, Knows, Whole, Onward
  <2>3. session'[d].status = "complete" => box[d].asked \subseteq Having(session'[d].photos)
    BY <2>1 DEF Complete, Whole
  <2>4. Whole(phone[p].of, session[phone[p].of].photos)' <=> box[d].asked \subseteq Having(session'[d].photos)
    BY <1>2 DEF Whole, Having
  <2>5. hasEveryPhoto(p)' <=> box[d].asked \subseteq Having(session'[d].photos)
    BY <1>2, <1>6 DEF hasEveryPhoto
  <2>6. Having(session[phone[p].of].photos)' = Having(session'[d].photos)
    BY <1>2 DEF Having
  <2> QED
    BY <1>2, <2>2, <2>3, <2>4, <2>5, <2>6 DEF Knows
<1>9. \A q \in Phones : phone'[q] = phone[q] \/ PhoneOK(q)'
  BY <1>2, <1>7, <1>8 DEF PhoneOK
<1> QED
  BY <1>3, <1>4, <1>5, <1>9, Elsewhere

LEMMA ServePhoneStep ==
  ASSUME HandoffInv, NEW p \in Phones, ServePhone(p)
  PROVE  HandoffInv'
<1> USE DEF HandoffInv
<1>1. phone[p].call = "asked" /\ UNCHANGED <<form, shown, box, get, takes, edits, mishaps>>
  BY DEF ServePhone
<1>0. PICK d \in Dialogs : d = phone[p].of
  BY <1>1 DEF PhoneOK, CallOK, Knows, At
<1>2. /\ phone[p].step \in {"loading", "saving", "finishing", "restoring"} /\ ~At(p, "off")
      /\ d \in Dialogs /\ d = phone[p].of /\ box[d].phase = "linked"
  BY <1>0, <1>1 DEF PhoneOK, CallOK, Knows, At
<1> DEFINE status == IF At(p, "finishing") THEN "complete" ELSE session[d].status
<1>3. CASE phone' = [phone EXCEPT ![p].call = "held"] /\ UNCHANGED <<session, stream>> /\ At(p, "saving")
  <2>1. phone' \in PhonesType
    BY <1>3, PhoneFields, Parts
  <2>2. /\ \A q \in Phones : q # p => phone'[q] = phone[q]
        /\ phone'[p].step = "saving" /\ phone'[p].of = phone[p].of /\ phone'[p].call = "held"
        /\ phone'[p].photos = phone[p].photos /\ phone'[p].shot = phone[p].shot
        /\ phone'[p].take = phone[p].take
    BY <1>3, Parts DEF PhonesType, PhoneType, At
  <2>3. Asked(p)' = Asked(p)
    BY <1>1, <1>3, <2>2, SamePlace
  <2>4. CallOK(p)' /\ Shown(p)'
    BY <1>3, <2>2, <2>3 DEF PhoneOK, CallOK, Shown, At, Full
  <2>5. PhoneOK(p)'
    BY <1>1, <1>2, <1>3, <2>2, <2>4, Recalls DEF Full
  <2> QED
    BY <1>1, <1>3, <2>1, <2>2, <2>5, OnPhone, Parts
<1>4. CASE turnAway(d) /\ phone' = [phone EXCEPT ![p].call = "failed"]
  <2>1. /\ Streams' /\ session' \in SessionsType
        /\ \A e \in Dialogs : SameSession(e) /\ Idling(e) /\ Quiet(e)
    BY <1>1, <1>2, <1>4, TurnsAway
  <2>2. phone' \in PhonesType
    BY <1>4, PhoneFields, Parts
  <2>3. /\ \A q \in Phones : q # p => phone'[q] = phone[q]
        /\ phone'[p].step = phone[p].step /\ phone'[p].of = d /\ phone'[p].call = "failed"
        /\ phone'[p].photos = phone[p].photos /\ phone'[p].shot = phone[p].shot
        /\ phone'[p].take = phone[p].take
    BY <1>2, <1>4, Parts DEF PhonesType, PhoneType
  <2>4. HandoffTypeOK'
    BY <1>1, <2>1, <2>2, Parts, PartsNext
  <2>5. Asked(p)' = Asked(p)
    BY <1>1, <1>2, <2>3 DEF Asked
  <2>6. CallOK(p)' /\ Shown(p)'
    BY <1>2, <2>3, <2>5 DEF PhoneOK, CallOK, Shown, At, Full
  <2>7. Whole(d, session[d].photos) => Whole(phone[p].of, session[phone[p].of].photos)'
    BY <1>1, <1>2, <2>1, <2>3 DEF Whole, Having, SameSession
  <2>8. Knows(p)'
    BY <1>1, <1>2, <2>3, <2>7 DEF PhoneOK, Knows, At
  <2>9. PhoneOK(p)'
    BY <2>6, <2>8 DEF PhoneOK
  <2> QED
    BY <1>1, <2>1, <2>3, <2>4, <2>9, Aside DEF SameBox
<1>5. CASE /\ session' = [session EXCEPT ![d].status = status]
           /\ stream' = IF At(p, "finishing") THEN broadcast(d, [type |-> "complete"]) ELSE stream
           /\ Answer(p, session[d].photos, status)
  <2>1. session[d] \in SessionType /\ status \in StatusType
    BY <1>2, Parts DEF SessionsType, SessionType, StatusType
  <2>2. At(p, "finishing") => Whole(d, session[d].photos)
    BY <1>2 DEF PhoneOK, Knows, At, Full
  <2>3. /\ session[d].status = "complete" => status = "complete"
        /\ status = "complete" => Whole(d, session[d].photos)
    BY <1>2, <2>2 DEF DialogOK, Complete
  <2>4. At(p, "finishing") => status = "complete"
    OBVIOUS
  <2> HIDE DEF status
  <2>5. session' \in SessionsType
    BY <1>2, <1>5, <2>1, SessionFields, Parts
  <2>6. /\ session'[d].status = status /\ session'[d].photos = session[d].photos
        /\ \A e \in Dialogs : e # d => session'[e] = session[e]
    BY <1>2, <1>5, Parts DEF SessionsType, SessionType
  <2>7. /\ Streams'
        /\ \A e \in Dialogs : stream'[e].phase = stream[e].phase /\ (e # d => SaysNothing(e))
        /\ SaysNothing(d) \/ (At(p, "finishing") /\ \E f \in Frames : f.type = "complete" /\ Says(d, f))
    <3>1. CASE At(p, "finishing")
      <4> DEFINE f == [type |-> "complete"]
      <4>1. f \in Frames /\ f.type = "complete"
        BY DEF Frames
      <4>2. stream' = broadcast(d, f)
        BY <1>5, <3>1
      <4> HIDE DEF f
      <4> QED
        BY <1>1, <1>2, <3>1, <4>1, <4>2, Broadcasts, Parts
    <3>2. CASE ~At(p, "finishing")
      <4>1. stream' = stream
        BY <1>5, <3>2
      <4> QED
        BY <1>1, <4>1, Silent, Parts DEF Streams
    <3> QED
      BY <3>1, <3>2
  <2>8. Onward(d) /\ Told(d)' /\ Complete(d)'
    <3>1. Onward(d)
      BY <1>1, <2>3, <2>6 DEF Onward, Having
    <3>2. Told(d)'
      <4>1. CASE SaysNothing(d)
        BY <2>3, <2>6, <4>1 DEF DialogOK, Told, SaysNothing
      <4>2. CASE At(p, "finishing")
        BY <2>4, <2>6, <4>2 DEF Told
      <4> QED
        BY <2>7, <4>1, <4>2
    <3>3. Complete(d)'
      BY <1>1, <2>3, <2>6 DEF Complete, Whole, Having
    <3> QED
      BY <3>1, <3>2, <3>3
  <2>9. \A e \in Dialogs : e # d =>
          SameSession(e) /\ Idling(e) /\ Quiet(e) /\ Onward(e) /\ Told(e)' /\ Complete(e)'
    <3> SUFFICES ASSUME NEW e \in Dialogs, e # d
                 PROVE  SameSession(e) /\ Idling(e) /\ Quiet(e) /\ Onward(e) /\ Told(e)' /\ Complete(e)'
      OBVIOUS
    <3>1. SameSession(e) /\ Idling(e) /\ Quiet(e) /\ SameBox(e)
      BY <1>1, <2>6, <2>7, Hush DEF SameSession, Idling, SameBox
    <3>2. DialogOK(e)'
      BY <1>1, <3>1, DialogKept
    <3> QED
      BY <3>1, <3>2, Moving DEF DialogOK
  <2>10. Answer(p, session'[d].photos, session'[d].status)
    BY <1>5, <2>6
  <2> QED
    BY <1>1, <1>2, <2>5, <2>7, <2>8, <2>9, <2>10, Serves
<1> QED
  BY <1>0, <1>3, <1>4, <1>5 DEF ServePhone

LEMMA StorePhotoStep ==
  ASSUME HandoffInv, NEW p \in Phones, StorePhoto(p)
  PROVE  HandoffInv'
<1> USE DEF HandoffInv
<1>0. PICK d \in Dialogs : d = phone[p].of
  BY DEF PhoneOK, CallOK, Knows, At, StorePhoto
<1> DEFINE photos == [session[d].photos EXCEPT ![phone[p].shot] = phone[p].take]
           f == [type |-> "photo", shot |-> phone[p].shot, take |-> phone[p].take]
<1>1. /\ phone[p].call = "held"
      /\ session' = [session EXCEPT ![d].photos = photos]
      /\ stream' = IF session[d].phase = "gone" THEN stream ELSE broadcast(d, f)
      /\ Answer(p, photos, session[d].status)
      /\ UNCHANGED <<form, shown, box, get, takes, edits, mishaps>>
  BY <1>0 DEF StorePhoto
<1>2. /\ phone[p].step = "saving" /\ ~At(p, "off") /\ d = phone[p].of /\ box[d].phase = "linked"
      /\ phone[p].shot \in Shots /\ phone[p].take \in Takes
  BY <1>0, <1>1 DEF PhoneOK, CallOK, Knows, At
<1>3. f \in Frames /\ f.type # "complete"
  BY <1>2 DEF Frames
<1>4. session[d] \in SessionType /\ session[d].photos \in PhotosType
  BY <1>2, Parts DEF SessionsType, SessionType
<1>5. photos \in PhotosType /\ Having(session[d].photos) \subseteq Having(photos)
  <2>1. phone[p].take \in 0..MaxTakes /\ phone[p].take # 0
    BY <1>2, Numbers
  <2> QED
    BY <1>2, <1>4, <2>1 DEF PhotosType, Having
<1> HIDE DEF photos, f
<1>6. session' \in SessionsType
  BY <1>1, <1>2, <1>5, SessionFields, Parts
<1>7. /\ session'[d].status = session[d].status /\ session'[d].photos = photos
      /\ \A e \in Dialogs : e # d => session'[e] = session[e]
  BY <1>1, <1>2, Parts DEF SessionsType, SessionType
<1>8. /\ Streams'
      /\ \A e \in Dialogs : stream'[e].phase = stream[e].phase /\ Quiet(e)
  <2>1. CASE stream' = broadcast(d, f)
    BY <1>1, <1>2, <1>3, <2>1, Broadcasts, Hush, Parts
  <2>2. CASE stream' = stream
    BY <1>1, <2>2, Silent, Hush, Parts DEF Streams
  <2> QED
    BY <1>1, <2>1, <2>2
<1>9. Onward(d) /\ Told(d)' /\ Complete(d)'
  <2>1. Having(session[d].photos)' = Having(photos)
    BY <1>7 DEF Having
  <2>2. Onward(d)
    BY <1>1, <1>5, <1>7, <2>1 DEF Onward
  <2>3. Told(d)'
    BY <1>2, <1>7, <1>8 DEF DialogOK, Told, Quiet
  <2>4. Complete(d)'
    BY <1>1, <1>2, <1>5, <1>7, <2>1 DEF DialogOK, Complete, Whole
  <2> QED
    BY <2>2, <2>3, <2>4
<1>10. \A e \in Dialogs : e # d =>
         SameSession(e) /\ Idling(e) /\ Quiet(e) /\ Onward(e) /\ Told(e)' /\ Complete(e)'
  <2> SUFFICES ASSUME NEW e \in Dialogs, e # d
               PROVE  SameSession(e) /\ Idling(e) /\ Quiet(e) /\ Onward(e) /\ Told(e)' /\ Complete(e)'
    OBVIOUS
  <2>1. SameSession(e) /\ Idling(e) /\ Quiet(e) /\ SameBox(e)
    BY <1>1, <1>7, <1>8 DEF SameSession, Idling, SameBox
  <2>2. DialogOK(e)'
    BY <1>1, <2>1, DialogKept
  <2> QED
    BY <2>1, <2>2, Moving DEF DialogOK
<1>11. Answer(p, session'[d].photos, session'[d].status)
  BY <1>1, <1>7
<1> QED
  BY <1>1, <1>2, <1>6, <1>8, <1>9, <1>10, <1>11, Serves

-----------------------------------------------------------------------------
(* WHAT HOLDS OF A HAND-OFF.                                               *)

LEMMA HandoffStep == HandoffInv /\ [HandoffNext]_handoffVars => HandoffInv'
<1> SUFFICES ASSUME HandoffInv, [HandoffNext]_handoffVars PROVE HandoffInv'
  OBVIOUS
<1>1. CASE Laptop
  <2>1. CASE Opens \/ CloseByHand \/ ChoosePhoto \/ Remove
    BY <2>1, OpensStep, FormStep
  <2>2. ASSUME NEW d \in Dialogs,
               \/ Created(d) \/ CreateFails(d) \/ Connect(d) \/ LoseStream(d)
               \/ OnPhotos(d) \/ OnComplete(d) \/ OnExpired(d)
        PROVE  HandoffInv'
    BY <2>2, CreateStep, ConnectStep, LoseStreamStep, OnPhotosStep, OnCompleteStep
  <2>3. ASSUME NEW d \in Dialogs, NEW k \in Gets, Read(d, k) \/ LoseGet(d, k)
        PROVE  HandoffInv'
    BY <2>3, ServeGetStep, GetAnsweredStep, GetFailedStep DEF Read
  <2>4. ASSUME NEW d \in Dialogs, NEW k \in Polls, Poll(d, k)
        PROVE  HandoffInv'
    BY <2>3, <2>4, TickStep DEF Poll, Gets
  <2>5. Final \in Gets
    BY DEF Gets
  <2> QED
    BY <1>1, <2>1, <2>2, <2>3, <2>4, <2>5 DEF Laptop
<1>2. ASSUME NEW p \in Phones, Phone(p)
      PROVE  HandoffInv'
  <2>1. CASE Scan(p) \/ Reload(p) \/ LoseAnswer(p) \/ CallFails(p) \/ TakePhoto(p)
    BY <2>1, ScanStep, ReloadStep, LoseAnswerStep, CallFailsStep, TakePhotoStep
  <2>2. CASE ServePhone(p) \/ StorePhoto(p)
    BY <2>2, ServePhoneStep, StorePhotoStep
  <2>3. CASE Loaded(p) \/ Saved(p) \/ Finished(p) \/ Restored(p)
    BY <2>3, ShowsStep
  <2>4. CASE TryAgain(p) \/ Continue(p)
    BY <2>4, AgainStep
  <2> QED
    BY <1>2, <2>1, <2>2, <2>3, <2>4 DEF Phone
<1>3. ASSUME NEW d \in Dialogs, Age(d)
      PROVE  HandoffInv'
  BY <1>3, AgeStep
<1>4. CASE Restart
  BY <1>4, RestartStep
<1>5. CASE UNCHANGED handoffVars
  <2>1. UNCHANGED <<form, shown, box, stream, get, session, phone, takes, edits, mishaps>>
    BY <1>5 DEF handoffVars
  <2>2. HandoffTypeOK'
    BY <2>1, Alike, Parts, PartsNext DEF HandoffInv
  <2> QED
    BY <2>1, <2>2, Aside, Alike DEF SameBox, HandoffInv
<1> QED
  BY <1>1, <1>2, <1>3, <1>4, <1>5 DEF HandoffNext

LEMMA Handoffs == HandoffSpec => []HandoffInv
<1>1. HandoffInit => HandoffInv
  BY HandoffStart
<1>2. HandoffInv /\ [HandoffNext]_handoffVars => HandoffInv'
  BY HandoffStep
<1> QED
  BY <1>1, <1>2, PTL DEF HandoffSpec

(* Dialogs, their streams and reads, the sessions at the relay and the     *)
(* pages of phones are in states the code knows (capture-relay.js,         *)
(* PhoneHandoff.jsx, CapturePage.jsx).                                     *)
THEOREM HandoffTyping == HandoffSpec => []HandoffTypeOK
<1>1. HandoffInv => HandoffTypeOK
  BY DEF HandoffInv
<1> QED
  BY <1>1, Handoffs, PTL

(* A dialog that says it has finished (PhoneHandoff.jsx:111) has handed up *)
(* every photo it asked for, a phone that says they are sent               *)
(* (CapturePage.jsx:71) has every one, and it asks for a photo only while  *)
(* one is missing (:60).                                                   *)
THEOREM WholeHandoffs == HandoffSpec => []HandoffWhole
<1>1. HandoffInv => HandoffWhole
  <2> SUFFICES ASSUME HandoffInv PROVE HandoffWhole
    OBVIOUS
  <2>1. \A d \in Dialogs : box[d].finished => box[d].asked \subseteq box[d].received
    BY DEF HandoffInv, DialogOK, Handed
  <2>2. \A p \in Phones :
          /\ phone[p].step \in {"sent", "restored"} => Asked(p) \subseteq phone[p].photos
          /\ At(p, "capturing") => ~(Asked(p) \subseteq phone[p].photos)
    BY DEF HandoffInv, PhoneOK, Shown, At, Full
  <2> QED
    BY <2>1, <2>2 DEF HandoffWhole
<1> QED
  BY <1>1, Handoffs, PTL

LEMMA AbsorbLeaves ==
  ASSUME HandoffTypeOK, NEW e \in Dialogs, NEW photos \in PhotosType, absorb(e, photos),
         NEW d \in Dialogs, NEW s \in box[d].received, form'[s] \in {d} \X Takes
  PROVE  form[s] = form'[s]
<1>1. s \in Shots
  BY DEF HandoffTypeOK, BoxType
<1>2. CASE s \in Having(photos) \ box[e].received
  <2>1. form'[s] = <<e, photos[s]>>
    BY <1>1, <1>2 DEF absorb
  <2>2. e = d
    BY <2>1
  <2> QED
    BY <1>2, <2>2
<1>3. CASE s \notin Having(photos) \ box[e].received
  BY <1>1, <1>3 DEF absorb
<1> QED
  BY <1>2, <1>3

(* No answer of the relay, frame or read, however old, puts a photo into   *)
(* the form that the same dialog has handed up before, so a photo that the *)
(* customer removed stays removed (PhoneHandoff.jsx:54).                   *)
THEOREM NothingPutBack == HandoffSpec => RemovedStaysRemoved
<1> DEFINE Keeps == \A d \in Dialogs : \A s \in box[d].received :
                      form'[s] \in {d} \X Takes => form[s] = form'[s]
<1>1. ASSUME HandoffTypeOK, [HandoffNext]_handoffVars
      PROVE  [Keeps]_handoffVars
  <2> SUFFICES ASSUME NEW d \in Dialogs, NEW s \in box[d].received, form'[s] \in {d} \X Takes
               PROVE  form[s] = form'[s]
    OBVIOUS
  <2>1. s \in Shots
    BY <1>1 DEF HandoffTypeOK, BoxType
  <2>2. CASE form' = form
    BY <2>2
  <2>3. CASE ChoosePhoto \/ Remove
    <3>1. form'[s] = form[s] \/ form'[s] \in {Own, Blank}
      BY <1>1, <2>1, <2>3 DEF ChoosePhoto, Remove, HandoffTypeOK
    <3>2. form'[s] \in Dialogs \X Takes
      OBVIOUS
    <3> QED
      BY <3>1, <3>2, HandoffAssumption
  <2>4. ASSUME NEW e \in Dialogs, OnPhotos(e)
        PROVE  form[s] = form'[s]
    <3> DEFINE photos == IF frame(e).type = "session" THEN frame(e).photos
                         ELSE [NoPhotos EXCEPT ![frame(e).shot] = frame(e).take]
    <3>1. absorb(e, photos) /\ stream[e].frames # <<>> /\ frame(e).type \in {"session", "photo"}
          /\ Pops(e) /\ shown' = shown
      BY <2>4 DEF OnPhotos, Arrives
    <3>2. frame(e) \in Frames
      BY <1>1, <3>1, Popping, Parts
    <3>3. photos \in PhotosType
      <4>1. CASE frame(e).type = "session"
        BY <3>2, <4>1 DEF Frames
      <4>2. CASE frame(e).type # "session"
        <5>1. frame(e).shot \in Shots /\ frame(e).take \in Takes
          BY <3>1, <3>2, <4>2 DEF Frames
        <5>2. photos = [NoPhotos EXCEPT ![frame(e).shot] = frame(e).take]
          BY <4>2
        <5> QED
          BY <5>1, <5>2, Numbers DEF PhotosType
      <4> QED
        BY <4>1, <4>2
    <3> HIDE DEF photos
    <3> QED
      BY <1>1, <3>1, <3>3, AbsorbLeaves
  <2>5. ASSUME NEW e \in Dialogs, NEW k \in Gets, GetAnswered(e, k)
        PROVE  form[s] = form'[s]
    <3>1. absorb(e, get[e][k].photos)
      BY <2>5 DEF GetAnswered
    <3>2. get[e][k].photos \in PhotosType
      BY <1>1 DEF HandoffTypeOK, GetType
    <3> QED
      BY <1>1, <3>1, <3>2, AbsorbLeaves
  <2>6. CASE Laptop
    <3>1. Final \in Gets /\ Polls \subseteq Gets
      BY DEF Gets
    <3>2. \A e \in Dialogs : \A k \in Gets :
            Read(e, k) => GetAnswered(e, k) \/ form' = form
      BY DEF Read, ServeGet, GetFailed
    <3>3. \A e \in Dialogs : \A k \in Gets :
            Poll(e, k) => GetAnswered(e, k) \/ form' = form
      BY <3>2 DEF Poll, Tick
    <3>4. \A e \in Dialogs : \A k \in Gets : LoseGet(e, k) => form' = form
      BY DEF LoseGet
    <3>5. \A e \in Dialogs :
            (Created(e) \/ CreateFails(e) \/ Connect(e) \/ LoseStream(e)
               \/ OnComplete(e) \/ OnExpired(e)) => form' = form
      BY DEF Created, CreateFails, Connect, LoseStream, OnComplete, OnExpired
    <3>6. Opens \/ CloseByHand => form' = form
      BY DEF Opens, CloseByHand
    <3>7. CASE Opens \/ CloseByHand \/ ChoosePhoto \/ Remove
      BY <2>2, <2>3, <3>6, <3>7
    <3>8. ASSUME NEW e \in Dialogs,
                 \/ Created(e) \/ CreateFails(e) \/ Connect(e) \/ LoseStream(e)
                 \/ OnPhotos(e) \/ OnComplete(e) \/ OnExpired(e)
          PROVE  form[s] = form'[s]
      BY <2>2, <2>4, <3>5, <3>8
    <3>9. ASSUME NEW e \in Dialogs, NEW k \in Gets, Poll(e, k) \/ Read(e, k) \/ LoseGet(e, k)
          PROVE  form[s] = form'[s]
      BY <2>2, <2>5, <3>2, <3>3, <3>4, <3>9
    <3> QED
      BY <2>6, <3>1, <3>7, <3>8, <3>9 DEF Laptop
  <2>7. ASSUME NEW p \in Phones, Phone(p)
        PROVE  form' = form
    BY <2>7 DEF Phone, Scan, Reload, ServePhone, StorePhoto, LoseAnswer, CallFails, Loaded,
                TakePhoto, Saved, Finished, TryAgain, Continue, Restored
  <2>8. ASSUME NEW e \in Dialogs, Age(e) \/ Restart
        PROVE  form' = form
    BY <2>8 DEF Age, Restart
  <2>9. CASE UNCHANGED handoffVars
    BY <2>2, <2>9 DEF handoffVars
  <2> QED
    BY <1>1, <2>2, <2>6, <2>7, <2>8, <2>9 DEF HandoffNext
<1>2. HandoffInv => HandoffTypeOK
  BY DEF HandoffInv
<1> QED
  BY <1>1, <1>2, Handoffs, PTL DEF HandoffSpec, RemovedStaysRemoved

=============================================================================
