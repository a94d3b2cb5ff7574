--------------------------- MODULE MigratorProofs ---------------------------
(***************************************************************************)
(* Proofs about Migrator, for any number of runs, releases, migrations,    *)
(* statements, and any database it may find.                               *)
(***************************************************************************)
EXTENDS Migrator, TLAPS

-----------------------------------------------------------------------------
(* FACTS ABOUT DATABASES.                                                  *)

(* The history of n migrations.                                            *)
LEMMA Histories ==
  ASSUME NEW n \in Nat
  PROVE  /\ Recorded(n) \in Seq(Nat) /\ Len(Recorded(n)) = n
         /\ Recorded(n) = <<>> <=> n = 0
         /\ Append(Recorded(n), n + 1) = Recorded(n + 1)
         /\ Len(Recorded(n + 1)) = n + 1
<1>1. Recorded(n) \in [1..n -> Nat] /\ Recorded(n) \in Seq(Nat) /\ Len(Recorded(n)) = n
  BY DEF Recorded
<1>2. Recorded(n) = <<>> <=> n = 0
  BY <1>1
<1>3. Append(Recorded(n), n + 1) = Recorded(n + 1)
  <2>1. Recorded(n + 1) \in Seq(Nat) /\ Len(Recorded(n + 1)) = n + 1
    BY DEF Recorded
  <2>2. /\ Append(Recorded(n), n + 1) \in Seq(Nat)
        /\ Len(Append(Recorded(n), n + 1)) = n + 1
    BY <1>1
  <2>3. \A i \in 1..n + 1 : Append(Recorded(n), n + 1)[i] = Recorded(n + 1)[i]
    BY <1>1 DEF Recorded
  <2> QED
    BY <2>1, <2>2, <2>3
<1>4. Len(Recorded(n + 1)) = n + 1
  BY DEF Recorded
<1> QED
  BY <1>1, <1>2, <1>3, <1>4

LEMMA OneMigration == Recorded(1) = <<1>>
<1>1. Recorded(0) = <<>> /\ Append(Recorded(0), 0 + 1) = Recorded(0 + 1)
  BY Histories
<1>2. Append(<<>>, 1) = <<1>>
  OBVIOUS
<1>3. 0 + 1 = 1
  OBVIOUS
<1> QED
  BY <1>1, <1>2, <1>3

(* The releases.                                                           *)
LEMMA Releases ==
  /\ \A r \in Runners : Plan[r] \in Nat \ {0}
  /\ Statements \in Nat \ {0} /\ CONVERSION \in Nat \ {0}
  /\ MaxRuns \in Nat \ {0} /\ None \notin Runners
BY MigratorAssumption

(* The databases the code names.                                           *)
LEMMA Named ==
  /\ EmptyDatabase \in Database /\ PrismaDatabase \in Database
  /\ EmptyDatabase # PrismaDatabase
BY DEF EmptyDatabase, PrismaDatabase, Database, After

Fresh(d) == d = EmptyDatabase

PrismaEra(d) == d = PrismaDatabase

Managed(d, n) ==
  /\ d.prisma = "absent" /\ d.history # <<>> /\ Len(d.history) \in 1..n
  /\ d.history = Recorded(Len(d.history))
  /\ d.catalog = After(Len(d.history))

Accepted(d, n) == decide(d, n).state # "refuse"

(* What decide tells apart.                                                *)
LEMMA Recognised ==
  ASSUME NEW d \in Database, NEW n \in Nat
  PROVE  /\ Accepted(d, n) <=> Fresh(d) \/ Managed(d, n) \/ PrismaEra(d)
         /\ decide(d, n).state = "prisma-era" => PrismaEra(d)
         /\ Accepted(d, n) /\ decide(d, n).state # "prisma-era" => Fresh(d) \/ Managed(d, n)
<1>1. d.history \in Seq(Nat) /\ Len(d.history) \in Nat
  BY DEF Database
<1>2. prefix(d.history, n) <=> Len(d.history) \in 1..n /\ d.history = Recorded(Len(d.history))
  BY DEF prefix
<1>3. d.history = Recorded(Len(d.history)) /\ Len(d.history) \in 1..n => d.history # <<>>
  BY <1>1, Histories
<1> QED
  BY <1>2, <1>3 DEF Accepted, decide, Fresh, Managed, PrismaEra

(* A database with its whole release applied.                              *)
LEMMA Applied ==
  ASSUME NEW d \in Database, NEW n \in Nat \ {0}, final(d, n)
  PROVE  /\ Len(d.history) = n /\ final(d, Len(d.history))
         /\ d.history # <<>> /\ d.catalog.level = n
         /\ \A m \in Nat : n <= m => Accepted(d, m)
<1>1. Len(d.history) = n /\ d.history # <<>>
  BY Histories DEF final
<1>2. ASSUME NEW m \in Nat, n <= m PROVE Managed(d, m)
  BY <1>1, <1>2 DEF Managed, final
<1> QED
  BY <1>1, <1>2, Recognised DEF final, After

(* The parts of the database the transaction of a run has in hand.         *)
LEMMA Steppings ==
  ASSUME NEW d \in Database
  PROVE  /\ adopted(d) \in Database
         /\ adopted(d).history = <<1>> /\ adopted(d).catalog = d.catalog
         /\ adopted(d).prisma = "absent"
         /\ recorded(d) \in Database
         /\ recorded(d).history = Append(d.history, Len(d.history) + 1)
         /\ recorded(d).prisma = d.prisma
         /\ recorded(d).catalog = IF d.catalog.level = Len(d.history)
                                  THEN After(Len(d.history) + 1) ELSE NoCatalog
<1>1. PICK p \in {"absent", "valid", "invalid"}, a \in BOOLEAN, h \in Seq(Nat),
           c \in [level : {-1} \cup Nat, part : Nat] :
        d = [prisma |-> p, archived |-> a, history |-> h, catalog |-> c]
  BY DEF Database
<1>2. PICK one : one = <<1>>
  OBVIOUS
<1>3. adopted(d) = [d EXCEPT !.prisma = "absent", !.archived = TRUE, !.history = one]
  BY <1>2 DEF adopted
<1>4. adopted(d) = [prisma |-> "absent", archived |-> TRUE, history |-> one, catalog |-> c]
  BY <1>1, <1>3
<1>5. PICK n \in Nat : n = Len(h)
  BY <1>1
<1>6. PICK longer : longer = Append(h, n + 1)
  OBVIOUS
<1>7. PICK k : k = IF c.level = n THEN After(n + 1) ELSE NoCatalog
  OBVIOUS
<1>8. (n + 1) - 1 = n /\ d.history = h /\ d.catalog = c
  BY <1>1, <1>5
<1>9. recorded(d) = [d EXCEPT !.history = longer, !.catalog = k]
  BY <1>5, <1>6, <1>7, <1>8 DEF recorded
<1>10. recorded(d) = [prisma |-> p, archived |-> a, history |-> longer, catalog |-> k]
  BY <1>1, <1>9
<1>11. one \in Seq(Nat) /\ longer \in Seq(Nat)
  BY <1>1, <1>2, <1>5, <1>6
<1>12. k \in [level : {-1} \cup Nat, part : Nat]
  BY <1>5, <1>7 DEF After, NoCatalog
<1>13. adopted(d) \in Database /\ recorded(d) \in Database
  BY <1>4, <1>10, <1>11, <1>12 DEF Database
<1>14. /\ adopted(d).history = one /\ adopted(d).catalog = c /\ adopted(d).prisma = "absent"
       /\ recorded(d).history = longer /\ recorded(d).catalog = k /\ recorded(d).prisma = p
  BY <1>4, <1>10
<1> QED
  BY <1>1, <1>2, <1>5, <1>6, <1>7, <1>8, <1>13, <1>14

LEMMA Executed ==
  ASSUME NEW r \in Runners, work[r] \in Database
  PROVE  /\ executed(r) \in Database
         /\ executed(r).history = work[r].history /\ executed(r).prisma = work[r].prisma
         /\ executed(r).catalog.part = work[r].catalog.part + 1
         /\ executed(r).catalog.level \in {work[r].catalog.level, -1}
<1>1. PICK p \in {"absent", "valid", "invalid"}, a \in BOOLEAN, h \in Seq(Nat),
           l \in {-1} \cup Nat, n \in Nat :
        work[r] = [prisma |-> p, archived |-> a, history |-> h,
                   catalog |-> [level |-> l, part |-> n]]
  BY DEF Database
<1>2. PICK m : m = IF applied(r) + 1 \in drifting THEN -1 ELSE l
  OBVIOUS
<1>3. executed(r) = [prisma |-> p, archived |-> a, history |-> h,
                     catalog |-> [level |-> m, part |-> n + 1]]
  <2>1. CASE applied(r) + 1 \in drifting
    BY <1>1, <1>2, <2>1 DEF executed
  <2>2. CASE applied(r) + 1 \notin drifting
    BY <1>1, <1>2, <2>2 DEF executed
  <2> QED
    BY <2>1, <2>2
<1> QED
  BY <1>1, <1>2, <1>3 DEF Database

-----------------------------------------------------------------------------
(* TYPES.                                                                  *)

(* A transaction ends.                                                     *)
LEMMA Ending ==
  ASSUME TypeOK, NEW r \in Runners, NEW o \in {"none", "done", "refused", "failed"}, end(r, o)
  PROVE  /\ pc' \in [Runners -> Steps] /\ pc'[r] = "ended"
         /\ \A s \in Runners \ {r} : pc'[s] = pc[s] /\ work'[s] = work[s]
         /\ result' \in [Runners -> {"none", "done", "refused", "failed"}]
         /\ result'[r] = o /\ \A s \in Runners \ {r} : result'[s] = result[s]
         /\ lock' \in Runners \cup {None}
         /\ work' \in [Runners -> Database]
         /\ \A s \in Runners : pc'[s] \in InTransaction <=> lock' = s
<1> USE DEF TypeOK
<1>1. /\ pc' \in [Runners -> Steps] /\ pc'[r] = "ended"
      /\ \A s \in Runners \ {r} : pc'[s] = pc[s] /\ work'[s] = work[s]
      /\ result' \in [Runners -> {"none", "done", "refused", "failed"}]
      /\ result'[r] = o /\ \A s \in Runners \ {r} : result'[s] = result[s]
      /\ lock' = IF lock = r THEN None ELSE lock
      /\ work' \in [Runners -> Database]
  BY Named DEF end, goto, Steps
<1> QED
  BY <1>1, Releases DEF InTransaction

LEMMA Types == TypeOK /\ [Next]_vars => TypeOK'
<1> SUFFICES ASSUME TypeOK, [Next]_vars PROVE TypeOK'
  OBVIOUS
<1> USE Releases DEF TypeOK, application, given
<1>1. ASSUME NEW r \in Runners, Start(r) PROVE TypeOK'
  BY <1>1 DEF Start, goto, Steps, InTransaction
<1>2. ASSUME NEW r \in Runners, Begin(r) PROVE TypeOK'
  BY <1>2 DEF Begin, goto, Steps, InTransaction
<1>3. ASSUME NEW r \in Runners, Decide(r) PROVE TypeOK'
  <2>1. CASE end(r, "refused")
    BY <1>3, <2>1, Ending DEF Decide
  <2>2. CASE UNCHANGED <<lock, work, result>> /\ \E l \in {"adopting", "migration"} : goto(r, l)
    BY <1>3, <2>2 DEF Decide, goto, Steps, InTransaction
  <2> QED
    BY <1>3, <2>1, <2>2 DEF Decide
<1>4. ASSUME NEW r \in Runners, Adopt(r) PROVE TypeOK'
  <2>1. adopted(work[r]) \in Database
    BY Steppings
  <2> QED
    BY <1>4, <2>1 DEF Adopt, goto, Steps, InTransaction
<1>5. ASSUME NEW r \in Runners, NextMigration(r) PROVE TypeOK'
  <2>1. CASE end(r, "refused")
    BY <1>5, <2>1, Ending DEF NextMigration
  <2>2. CASE UNCHANGED <<lock, work, result>> /\ \E l \in {"final", "statements"} : goto(r, l)
    BY <1>5, <2>2 DEF NextMigration, goto, Steps, InTransaction
  <2> QED
    BY <1>5, <2>1, <2>2 DEF NextMigration
<1>6. ASSUME NEW r \in Runners, Statement(r) PROVE TypeOK'
  <2>1. CASE end(r, "failed")
    BY <1>6, <2>1, Ending DEF Statement
  <2>2. CASE UNCHANGED <<lock, pc, result>> /\ work' = [work EXCEPT ![r] = executed(r)]
    BY <1>6, <2>2, Executed DEF Statement
  <2> QED
    BY <1>6, <2>1, <2>2 DEF Statement
<1>7. ASSUME NEW r \in Runners, LockTimeout(r) PROVE TypeOK'
  BY <1>7, Ending DEF LockTimeout
<1>8. ASSUME NEW r \in Runners, Record(r) PROVE TypeOK'
  <2>1. recorded(work[r]) \in Database
    BY Steppings
  <2> QED
    BY <1>8, <2>1 DEF Record, goto, Steps, InTransaction
<1>9. ASSUME NEW r \in Runners, FinalCheck(r) PROVE TypeOK'
  <2>1. CASE end(r, "refused")
    BY <1>9, <2>1, Ending DEF FinalCheck
  <2>2. CASE UNCHANGED <<lock, work, result>> /\ goto(r, "committing")
    BY <1>9, <2>2 DEF FinalCheck, goto, Steps, InTransaction
  <2> QED
    BY <1>9, <2>1, <2>2 DEF FinalCheck
<1>10. ASSUME NEW r \in Runners, Commit(r) PROVE TypeOK'
  BY <1>10, Ending DEF Commit
<1>11. ASSUME NEW r \in Runners, Lose(r) PROVE TypeOK'
  BY <1>11, Ending DEF Lose
<1>12. CASE AppBegin \/ AppCommit
  BY <1>12 DEF AppBegin, AppCommit
<1>13. CASE UNCHANGED vars
  BY <1>13 DEF vars
<1> QED
  BY <1>1, <1>2, <1>3, <1>4, <1>5, <1>6, <1>7, <1>8, <1>9, <1>10, <1>11, <1>12, <1>13
  DEF Next, Run

LEMMA InitTypes == Init => TypeOK
<1> SUFFICES ASSUME Init PROVE TypeOK
  OBVIOUS
<1>1. db \in Database /\ found \in Database /\ EmptyDatabase \in Database
  BY DatabasesAssumption, Named DEF Init
<1>2. 0 \in 0..MaxRuns
  BY Releases
<1>3. \A r \in Runners : pc[r] = "start" /\ lock # r
  BY Releases DEF Init
<1> QED
  BY <1>1, <1>2, <1>3 DEF Init, TypeOK, Steps, InTransaction

(* One run at a time has a transaction.                                    *)
THEOREM Typing == Spec => []TypeOK
  BY InitTypes, Types, PTL DEF Spec

-----------------------------------------------------------------------------
(* THE INVARIANT.                                                          *)

InLoop == {"migration", "statements", "final", "committing"}

(* Only the holder of the lock commits, so the database a run has read is  *)
(* the one that is committed, and it accepted it.                          *)
ReadsHold(r) ==
  /\ pc[r] = "deciding" => work[r] = db
  /\ pc[r] = "adopting" => work[r] = db /\ PrismaEra(db)
  /\ pc[r] \in InLoop => Fresh(db) \/ Managed(db, Plan[r]) \/ PrismaEra(db)

(* What a run has applied of its release: a history without gaps, as long  *)
(* as the one it found or longer, and a catalog that follows it unless its *)
(* statements did not give it.                                             *)
Progress(r) ==
  pc[r] \in InLoop =>
    /\ work[r].prisma = "absent"
    /\ work[r].history = Recorded(applied(r)) /\ applied(r) <= Plan[r]
    /\ Len(db.history) <= applied(r) /\ (PrismaEra(db) => 1 <= applied(r))
    /\ pc[r] = "migration" => work[r].catalog.part = 0
    /\ pc[r] = "statements" => applied(r) < Plan[r] /\ work[r].catalog.part <= Statements
    /\ pc[r] = "committing" => final(work[r], Plan[r])

(* From the statement that converts the rows on, the table is locked: the  *)
(* application has no transaction on it, and no row breaks a CHECK.        *)
Converted(r) ==
  /\ pc[r] \in InLoop
  /\ \/ applied(r) >= CONVERSION
     \/ applied(r) + 1 = CONVERSION /\ work[r].catalog.part = Statements

RowsConverted ==
  db.catalog.level >= CONVERSION \/ (\E r \in Runners : Converted(r)) => ~busy /\ ~breaking

IInv ==
  /\ TypeOK
  /\ \A r \in Runners : ReadsHold(r) /\ Progress(r)
  /\ RowsConverted
  /\ DoneIsApplied
  /\ NeverStranded

(* A run that is not the one that moves keeps what it has read.            *)
LEMMA OthersKeep ==
  ASSUME TypeOK, NEW r \in Runners, NEW s \in Runners \ {r}, ReadsHold(s), Progress(s),
         pc'[s] = pc[s], work'[s] = work[s], db' = db \/ pc[r] = "committing"
  PROVE  ReadsHold(s)' /\ Progress(s)'
<1>1. CASE db' = db
  BY <1>1 DEF ReadsHold, Progress, applied
<1>2. CASE pc[r] = "committing"
  <2>1. pc[s] \notin InTransaction
    BY <1>2 DEF TypeOK, InTransaction
  <2> QED
    BY <2>1 DEF ReadsHold, Progress, InLoop, InTransaction
<1> QED
  BY <1>1, <1>2

(* A run that is over, or waits, has read nothing.                         *)
LEMMA NothingRead ==
  ASSUME NEW r \in Runners, pc'[r] \notin InTransaction
  PROVE  ReadsHold(r)' /\ Progress(r)' /\ ~Converted(r)'
BY DEF ReadsHold, Progress, Converted, InLoop, InTransaction

(* What the found database gives a run to begin with.                      *)
LEMMA Beginnings ==
  ASSUME NEW d \in Database, NEW n \in Nat \ {0}
  PROVE  /\ Fresh(d) => /\ d.prisma = "absent" /\ d.history = <<>> /\ Len(d.history) = 0
                        /\ d.catalog = After(0) /\ ~PrismaEra(d)
         /\ PrismaEra(d) => /\ d.history = <<>> /\ Len(d.history) = 0
                            /\ d.catalog = After(1)
         /\ Managed(d, n) => ~PrismaEra(d) /\ ~Fresh(d)
BY DEF Fresh, PrismaEra, Managed, EmptyDatabase, PrismaDatabase, After

LEMMA RunKeepsReads ==
  ASSUME IInv, NEW r \in Runners, Start(r) \/ Run(r) \/ Lose(r)
  PROVE  ReadsHold(r)' /\ Progress(r)'
<1> USE Releases DEF IInv, TypeOK
<1>0. /\ db \in Database /\ work[r] \in Database /\ ReadsHold(r) /\ Progress(r)
      /\ Len(db.history) \in Nat /\ applied(r) \in Nat /\ Plan[r] \in Nat \ {0}
      /\ work[r].catalog.part \in Nat
  BY DEF Database, applied
<1>1. CASE Start(r)
  BY <1>1, NothingRead DEF Start, goto, InTransaction
<1>2. CASE Begin(r)
  BY <1>2 DEF Begin, goto, ReadsHold, Progress, InLoop
<1>3. CASE Decide(r)
  <2>1. CASE end(r, "refused")
    BY <2>1, Ending, NothingRead DEF InTransaction
  <2>2. CASE /\ Accepted(work[r], Plan[r]) /\ UNCHANGED <<db, work>>
             /\ decide(work[r], Plan[r]).state = "prisma-era" /\ goto(r, "adopting")
    BY <1>0, <1>3, <2>2, Recognised DEF Decide, goto, ReadsHold, Progress, InLoop
  <2>3. CASE /\ Accepted(work[r], Plan[r]) /\ UNCHANGED <<db, work>>
             /\ decide(work[r], Plan[r]).state # "prisma-era" /\ goto(r, "migration")
    <3>1. work[r] = db /\ pc'[r] = "migration"
      BY <1>3, <2>3 DEF Decide, goto, ReadsHold
    <3>2. Fresh(db) \/ Managed(db, Plan[r])
      BY <1>0, <2>3, <3>1, Recognised
    <3>3. ReadsHold(r)'
      BY <2>3, <3>1, <3>2 DEF ReadsHold, Fresh, Managed, PrismaEra
    <3>4. /\ db.prisma = "absent" /\ db.history = Recorded(applied(r)) /\ applied(r) <= Plan[r]
          /\ Len(db.history) = applied(r) /\ ~PrismaEra(db) /\ db.catalog.part = 0
      <4>0. applied(r) = Len(db.history) /\ \A n : After(n).part = 0
        BY <3>1 DEF applied, After
      <4>1. CASE Fresh(db)
        <5>1. /\ db.prisma = "absent" /\ db.history = <<>> /\ Len(db.history) = 0
              /\ db.catalog = After(0) /\ ~PrismaEra(db)
          BY <1>0, <4>1, Beginnings
        <5>2. Recorded(0) = <<>>
          BY Histories
        <5> QED
          BY <1>0, <4>0, <5>1, <5>2
      <4>2. CASE Managed(db, Plan[r])
        <5>1. ~PrismaEra(db)
          BY <1>0, <4>2, Beginnings
        <5> QED
          BY <1>0, <4>0, <4>2, <5>1 DEF Managed
      <4> QED
        BY <3>2, <4>1, <4>2
    <3>5. Progress(r)'
      BY <1>0, <2>3, <3>1, <3>4 DEF Progress, InLoop, applied, PrismaEra
    <3> QED
      BY <3>3, <3>5
  <2> QED
    BY <1>3, <2>1, <2>2, <2>3 DEF Decide, Accepted, application, given
<1>4. CASE Adopt(r)
  <2>1. /\ work[r] = db /\ PrismaEra(db) /\ db' = db /\ pc'[r] = "migration"
        /\ work'[r] = adopted(db)
    BY <1>4 DEF Adopt, goto, ReadsHold
  <2>2. /\ work'[r].history = <<1>> /\ work'[r].catalog = After(1)
        /\ work'[r].prisma = "absent" /\ Len(db.history) = 0
    BY <1>0, <2>1, Steppings, Beginnings
  <2>3. applied(r)' = 1 /\ work'[r].history = Recorded(1)
    <3>1. applied(r)' = Len(work'[r].history) /\ Len(Recorded(1)) = 1
      BY Histories DEF applied
    <3> QED
      BY <2>2, <3>1, OneMigration
  <2>4. work'[r].catalog.part = 0
    BY <2>2 DEF After
  <2>5. ReadsHold(r)'
    BY <2>1 DEF ReadsHold, PrismaEra
  <2>6. applied(r)' <= Plan[r] /\ 1 <= applied(r)' /\ Len(db.history)' <= applied(r)'
    <3>1. Plan[r] \in Nat /\ 1 <= Plan[r] /\ Len(db.history)' = 0
      BY <1>0, <2>1, <2>2
    <3> QED
      BY <2>3, <3>1
  <2>7. work'[r].history = Recorded(applied(r)')
    BY <2>3
  <2> QED
    BY <2>1, <2>2, <2>4, <2>5, <2>6, <2>7 DEF Progress, InLoop, applied, PrismaEra
<1>5. CASE NextMigration(r)
  <2>1. CASE end(r, "refused")
    BY <2>1, Ending, NothingRead DEF InTransaction
  <2>2. CASE /\ UNCHANGED <<db, work>>
             /\ \/ goto(r, "final")
                \/ applied(r) + 1 <= Plan[r] /\ goto(r, "statements")
    BY <1>0, <1>5, <2>2 DEF NextMigration, goto, ReadsHold, Progress, InLoop, applied,
       Fresh, Managed, PrismaEra
  <2> QED
    BY <1>5, <2>1, <2>2 DEF NextMigration
<1>6. CASE Statement(r)
  <2>1. CASE end(r, "failed")
    BY <2>1, Ending, NothingRead DEF InTransaction
  <2>2. CASE UNCHANGED <<db, pc>> /\ work' = [work EXCEPT ![r] = executed(r)]
    <3>1. /\ work'[r].history = work[r].history /\ work'[r].prisma = work[r].prisma
          /\ work'[r].catalog.part = work[r].catalog.part + 1
      BY <1>0, <2>2, Executed
    <3> QED
      BY <1>0, <1>6, <2>2, <3>1 DEF Statement, ReadsHold, Progress, InLoop, applied,
         Fresh, Managed, PrismaEra
  <2> QED
    BY <1>6, <2>1, <2>2 DEF Statement
<1>7. CASE LockTimeout(r)
  BY <1>7, Ending, NothingRead DEF LockTimeout, InTransaction
<1>8. CASE Record(r)
  <2>1. /\ db' = db /\ pc'[r] = "migration" /\ work'[r] = recorded(work[r])
        /\ applied(r) < Plan[r] /\ pc[r] \in InLoop
    BY <1>8 DEF Record, goto, Progress, InLoop
  <2>2. PICK n \in Nat : n = applied(r) /\ n = Len(work[r].history)
    BY <1>0 DEF applied
  <2>3. work[r].history = Recorded(n) /\ work[r].prisma = "absent"
    BY <2>1, <2>2 DEF Progress
  <2>4. /\ work'[r].history = Append(work[r].history, n + 1)
        /\ work'[r].prisma = "absent" /\ work'[r].catalog \in {After(n + 1), NoCatalog}
    BY <1>0, <2>1, <2>2, <2>3, Steppings
  <2>5. work'[r].history = Recorded(n + 1) /\ Len(Recorded(n + 1)) = n + 1
    <3>1. Append(Recorded(n), n + 1) = Recorded(n + 1)
      BY Histories
    <3> QED
      BY <2>3, <2>4, <3>1, Histories
  <2>6. applied(r)' = n + 1 /\ work'[r].catalog.part = 0
    BY <2>4, <2>5 DEF applied, After, NoCatalog
  <2> QED
    BY <1>0, <2>1, <2>2, <2>4, <2>5, <2>6 DEF ReadsHold, Progress, InLoop, Fresh, Managed, PrismaEra
<1>9. CASE FinalCheck(r)
  <2>1. CASE end(r, "refused")
    BY <2>1, Ending, NothingRead DEF InTransaction
  <2>2. CASE UNCHANGED <<db, work>> /\ final(work[r], Plan[r]) /\ goto(r, "committing")
    BY <1>9, <2>2 DEF FinalCheck, goto, ReadsHold, Progress, InLoop, applied,
       Fresh, Managed, PrismaEra
  <2> QED
    BY <1>9, <2>1, <2>2 DEF FinalCheck
<1>10. CASE Commit(r) \/ Lose(r)
  BY <1>10, Ending, NothingRead DEF Commit, Lose, InTransaction
<1> QED
  BY <1>1, <1>2, <1>3, <1>4, <1>5, <1>6, <1>7, <1>8, <1>9, <1>10 DEF Run

(* What a database that was accepted says of its version.                  *)
LEMMA Levels ==
  ASSUME NEW d \in Database, NEW n \in Nat \ {0}, Fresh(d) \/ Managed(d, n) \/ PrismaEra(d)
  PROVE  /\ d.catalog.level \in Nat /\ Len(d.history) \in Nat
         /\ Len(d.history) <= d.catalog.level
BY DEF Database, Fresh, Managed, PrismaEra, EmptyDatabase, PrismaDatabase, After

(* A run that has converted the rows keeps the application out.            *)
LEMMA KeepsOut ==
  ASSUME IInv, NEW r \in Runners, Converted(r), db.catalog.level \in 1..CONVERSION - 1
  PROVE  rowsLocked
<1>1. /\ db \in Database /\ Plan[r] \in Nat \ {0} /\ CONVERSION \in Nat
      /\ Fresh(db) \/ Managed(db, Plan[r]) \/ PrismaEra(db)
  BY Releases DEF IInv, TypeOK, ReadsHold, Converted
<1>2. Len(db.history) < CONVERSION
  BY <1>1, Levels
<1>3. pc[r] \in InTransaction
  BY DEF Converted, InLoop, InTransaction
<1> QED
  BY <1>2, <1>3 DEF rowsLocked, Converted

LEMMA RowsStayConverted ==
  ASSUME IInv, TypeOK', [Next]_vars
  PROVE  RowsConverted'
<1> USE Releases DEF IInv, TypeOK
<1>1. ASSUME NEW r \in Runners, Start(r) \/ Run(r) \/ Lose(r), db' = db,
             /\ Converted(r)' => Converted(r) \/ db.catalog.level >= CONVERSION
                                  \/ (~busy /\ ~breaking)
      PROVE  RowsConverted'
  <2>1. UNCHANGED <<busy, breaking>>
    BY <1>1 DEF Start, Run, Lose, Begin, Decide, Adopt, NextMigration, Statement,
       LockTimeout, Record, FinalCheck, Commit, application
  <2>2. \A s \in Runners \ {r} : pc'[s] = pc[s] /\ work'[s] = work[s]
    BY <1>1 DEF Start, Run, Lose, Begin, Decide, Adopt, NextMigration, Statement,
       LockTimeout, Record, FinalCheck, Commit, end, goto
  <2>3. \A s \in Runners \ {r} : Converted(s)' => Converted(s)
    BY <2>2 DEF Converted, applied
  <2> QED
    BY <1>1, <2>1, <2>3 DEF RowsConverted
<1>2. ASSUME NEW r \in Runners, Commit(r) \/ Lose(r), db' = work[r], pc[r] = "committing"
      PROVE  RowsConverted'
  <2>1. UNCHANGED <<busy, breaking>> /\ \A s \in Runners : pc'[s] \notin InTransaction
    <3>1. \A s \in Runners : lock' # s
      BY <1>2 DEF Commit, Lose, end, InTransaction
    <3> QED
      BY <1>2, <3>1 DEF Commit, Lose, application
  <2>2. \A s \in Runners : ~Converted(s)'
    BY <2>1, NothingRead
  <2>3. Progress(r) /\ final(work[r], Plan[r]) /\ work[r] \in Database
    BY <1>2 DEF Progress, InLoop
  <2>4. applied(r) = Plan[r] /\ work[r].catalog.level = Plan[r]
    BY <2>3, Applied DEF applied
  <2>5. db'.catalog.level >= CONVERSION => Converted(r)
    BY <1>2, <2>4 DEF Converted, InLoop
  <2> QED
    BY <2>1, <2>2, <2>5 DEF RowsConverted
<1>3. ASSUME NEW r \in Runners, pc'[r] \notin InTransaction PROVE ~Converted(r)'
  BY <1>3, NothingRead
<1>4. ASSUME NEW r \in Runners, Start(r) PROVE RowsConverted'
  BY <1>1, <1>3, <1>4 DEF Start, goto, InTransaction
<1>5. ASSUME NEW r \in Runners, Begin(r) PROVE RowsConverted'
  <2>1. ~Converted(r)' /\ db' = db
    BY <1>5 DEF Begin, goto, Converted, InLoop
  <2> QED
    BY <1>1, <1>5, <2>1 DEF Run
<1>6. ASSUME NEW r \in Runners, Decide(r) PROVE RowsConverted'
  <2>0. db' = db
    BY <1>6 DEF Decide
  <2>1. CASE end(r, "refused")
    BY <1>1, <1>3, <1>6, <2>0, <2>1, Ending DEF Run, InTransaction
  <2>2. CASE goto(r, "adopting")
    <3>1. ~Converted(r)'
      BY <2>2 DEF Converted, InLoop, goto
    <3> QED
      BY <1>1, <1>6, <2>0, <3>1 DEF Run
  <2>3. CASE goto(r, "migration") /\ work' = work
    <3>1. Progress(r)' /\ pc'[r] = "migration" /\ work'[r] = db
      BY <1>6, <2>3, RunKeepsReads DEF Run, Decide, ReadsHold, goto
    <3>2. work'[r].catalog.part = 0 /\ applied(r)' = Len(db.history)
      BY <3>1 DEF Progress, InLoop, applied
    <3>3. Fresh(db) \/ Managed(db, Plan[r]) \/ PrismaEra(db)
      BY <1>6, <2>0, <3>1, RunKeepsReads DEF Run, ReadsHold, InLoop, Fresh, Managed, PrismaEra
    <3>4. Converted(r)' => db.catalog.level >= CONVERSION
      BY <3>2, <3>3, Levels DEF Converted
    <3> QED
      BY <1>1, <1>6, <2>0, <3>4 DEF Run
  <2> QED
    BY <1>6, <2>1, <2>2, <2>3 DEF Decide
<1>7. ASSUME NEW r \in Runners, Adopt(r) PROVE RowsConverted'
  <2>1. /\ db' = db /\ PrismaEra(db) /\ pc'[r] = "migration" /\ work'[r] = adopted(db)
    BY <1>7 DEF Adopt, goto, ReadsHold
  <2>2. db.catalog = After(1) /\ work'[r].catalog = After(1) /\ work'[r].history = <<1>>
    BY <2>1, Steppings, Beginnings
  <2>3. db.catalog.level = 1 /\ work'[r].catalog.part = 0 /\ applied(r)' = 1
    BY <2>2 DEF applied, After
  <2>4. Converted(r)' => db.catalog.level >= CONVERSION
    BY <2>3 DEF Converted
  <2> QED
    BY <1>1, <1>7, <2>1, <2>4 DEF Run
<1>8. ASSUME NEW r \in Runners, NextMigration(r) PROVE RowsConverted'
  <2>0. db' = db
    BY <1>8 DEF NextMigration
  <2>1. CASE end(r, "refused")
    BY <1>1, <1>3, <1>8, <2>0, <2>1, Ending DEF Run, InTransaction
  <2>2. CASE work' = work
    <3>1. Converted(r)' => Converted(r)
      BY <1>8, <2>2 DEF NextMigration, Converted, InLoop, applied
    <3> QED
      BY <1>1, <1>8, <2>0, <3>1 DEF Run
  <2> QED
    BY <1>8, <2>1, <2>2 DEF NextMigration
<1>9. ASSUME NEW r \in Runners, Statement(r) PROVE RowsConverted'
  <2>0. db' = db
    BY <1>9 DEF Statement
  <2>1. CASE end(r, "failed")
    BY <1>1, <1>3, <1>9, <2>0, <2>1, Ending DEF Run, InTransaction
  <2>2. CASE /\ ~(converting(r) /\ breaking) /\ pc' = pc
             /\ work' = [work EXCEPT ![r] = executed(r)]
    <3>1. /\ work'[r].history = work[r].history
          /\ work'[r].catalog.part = work[r].catalog.part + 1
      BY <2>2, Executed
    <3>2. Converted(r)' => Converted(r) \/ converting(r)
      BY <2>2, <3>1 DEF Converted, converting, applied
    <3>3. converting(r) => ~busy /\ ~breaking
      BY <1>9, <2>2 DEF Statement
    <3> QED
      BY <1>1, <1>9, <2>0, <3>2, <3>3 DEF Run
  <2> QED
    BY <1>9, <2>1, <2>2 DEF Statement
<1>10. ASSUME NEW r \in Runners, LockTimeout(r) PROVE RowsConverted'
  BY <1>1, <1>3, <1>10, Ending DEF LockTimeout, Run, InTransaction
<1>11. ASSUME NEW r \in Runners, Record(r) PROVE RowsConverted'
  <2>1. /\ db' = db /\ pc[r] = "statements" /\ work[r].catalog.part = Statements
        /\ work'[r] = recorded(work[r]) /\ work[r] \in Database
    BY <1>11 DEF Record
  <2>2. PICK n \in Nat : n = applied(r) /\ n = Len(work[r].history)
    BY <2>1 DEF applied, Database
  <2>3. /\ work'[r].history = Append(work[r].history, n + 1)
        /\ work'[r].catalog \in {After(n + 1), NoCatalog} /\ work[r].history \in Seq(Nat)
    BY <2>1, <2>2, Steppings DEF Database
  <2>4. applied(r)' = n + 1 /\ work'[r].catalog.part = 0
    BY <2>2, <2>3 DEF applied, After, NoCatalog
  <2>5. Converted(r)' => n + 1 >= CONVERSION
    BY <2>4 DEF Converted
  <2>6. n + 1 >= CONVERSION => Converted(r)
    BY <2>1, <2>2 DEF Converted, InLoop
  <2> QED
    BY <1>1, <1>11, <2>1, <2>5, <2>6 DEF Run
<1>12. ASSUME NEW r \in Runners, FinalCheck(r) PROVE RowsConverted'
  <2>0. db' = db
    BY <1>12 DEF FinalCheck
  <2>1. CASE end(r, "refused")
    BY <1>1, <1>3, <1>12, <2>0, <2>1, Ending DEF Run, InTransaction
  <2>2. CASE work' = work
    <3>1. Converted(r)' => Converted(r)
      BY <1>12, <2>2 DEF FinalCheck, Converted, InLoop, applied
    <3> QED
      BY <1>1, <1>12, <2>0, <3>1 DEF Run
  <2> QED
    BY <1>12, <2>1, <2>2 DEF FinalCheck
<1>13. ASSUME NEW r \in Runners, Commit(r) PROVE RowsConverted'
  BY <1>2, <1>13 DEF Commit
<1>14. ASSUME NEW r \in Runners, Lose(r) PROVE RowsConverted'
  <2>1. CASE db' = db
    BY <1>1, <1>3, <1>14, <2>1, Ending DEF Lose, InTransaction
  <2>2. CASE pc[r] = "committing" /\ db' = work[r]
    BY <1>2, <1>14, <2>2
  <2> QED
    BY <1>14, <2>1, <2>2 DEF Lose
<1>15. CASE AppBegin
  <2>1. \A s \in Runners : ~Converted(s)
    BY <1>15, KeepsOut DEF AppBegin
  <2>2. \A s \in Runners : Converted(s)' => Converted(s)
    BY <1>15 DEF AppBegin, Converted, applied
  <2>3. db' = db /\ ~(db.catalog.level >= CONVERSION)
    BY <1>15 DEF AppBegin
  <2> QED
    BY <2>1, <2>2, <2>3 DEF RowsConverted
<1>16. CASE AppCommit
  <2>1. UNCHANGED <<db, pc, work>> /\ busy
    BY <1>16 DEF AppCommit
  <2>2. \A s \in Runners : Converted(s)' => Converted(s)
    BY <2>1 DEF Converted, applied
  <2> QED
    BY <2>1, <2>2 DEF RowsConverted
<1>17. CASE UNCHANGED vars
  <2>1. \A s \in Runners : Converted(s)' => Converted(s)
    BY <1>17 DEF vars, Converted, applied
  <2> QED
    BY <1>17, <2>1 DEF vars, RowsConverted
<1> QED
  BY <1>4, <1>5, <1>6, <1>7, <1>8, <1>9, <1>10, <1>11, <1>12, <1>13, <1>14, <1>15, <1>16,
     <1>17 DEF Next, Run

(* The database changes only when a run commits, in one step, what it has  *)
(* brought to the end of its release.                                      *)
Commits(r) ==
  /\ pc[r] = "committing" /\ db' = work[r] /\ work[r] \in Database
  /\ final(work[r], Plan[r]) /\ Len(db.history) <= Plan[r]
  /\ Fresh(db) \/ Managed(db, Plan[r]) \/ PrismaEra(db)

LEMMA WholeOrNothing ==
  ASSUME IInv, [Next]_vars
  PROVE  found' = found /\ (db' = db \/ \E r \in Runners : Commits(r))
<1>1. ASSUME NEW r \in Runners, pc[r] = "committing", db' = work[r] PROVE Commits(r)
  <2>1. ReadsHold(r) /\ Progress(r) /\ work[r] \in Database
    BY DEF IInv, TypeOK
  <2>2. final(work[r], Plan[r]) /\ Len(db.history) <= applied(r)
    BY <1>1, <2>1 DEF Progress, InLoop
  <2>3. applied(r) = Plan[r]
    BY <2>1, <2>2, Applied, Releases DEF applied
  <2> QED
    BY <1>1, <2>1, <2>2, <2>3 DEF Commits, ReadsHold, InLoop
<1>2. ASSUME NEW r \in Runners, Start(r) \/ Run(r) \/ Lose(r)
      PROVE  found' = found /\ (db' = db \/ (pc[r] = "committing" /\ db' = work[r]))
  BY <1>2 DEF Start, Run, Lose, Begin, Decide, Adopt, NextMigration, Statement, LockTimeout,
     Record, FinalCheck, Commit, given
<1>3. CASE AppBegin \/ AppCommit \/ UNCHANGED vars
  BY <1>3 DEF AppBegin, AppCommit, given, vars
<1> QED
  BY <1>1, <1>2, <1>3 DEF Next

(* A run reports success only when it commits.                             *)
LEMMA Successes ==
  ASSUME IInv, [Next]_vars, NEW s \in Runners, result'[s] = "done"
  PROVE  result[s] = "done" \/ (pc[s] = "committing" /\ db' = work[s])
<1>1. TypeOK
  BY DEF IInv
<1>2. ASSUME NEW r \in Runners, Start(r) PROVE result'[s] = "done" => result[s] = "done"
  BY <1>1, <1>2 DEF Start, TypeOK
<1>3. ASSUME NEW r \in Runners, \E o \in {"refused", "failed"} : end(r, o)
      PROVE  result'[s] = "done" => result[s] = "done"
  BY <1>1, <1>3 DEF end, TypeOK
<1>4. ASSUME NEW r \in Runners, Commit(r)
      PROVE  result[s] = "done" \/ (pc[s] = "committing" /\ db' = work[s])
  BY <1>1, <1>4 DEF Commit, end, TypeOK
<1>5. ASSUME NEW r \in Runners, Run(r) \/ Lose(r), ~Commit(r)
      PROVE  result' = result \/ \E o \in {"refused", "failed"} : end(r, o)
  BY <1>5 DEF Run, Lose, Begin, Decide, Adopt, NextMigration, Statement, LockTimeout, Record,
     FinalCheck
<1>6. CASE AppBegin \/ AppCommit \/ UNCHANGED vars
  BY <1>6 DEF AppBegin, AppCommit, vars
<1> QED
  BY <1>2, <1>3, <1>4, <1>5, <1>6 DEF Next

LEMMA DoneStaysApplied ==
  ASSUME IInv, [Next]_vars
  PROVE  DoneIsApplied'
<1> SUFFICES ASSUME NEW s \in Runners, result'[s] = "done"
             PROVE  Len(db'.history) >= Plan[s] /\ final(db', Len(db'.history))
  BY DEF DoneIsApplied
<1>1. /\ db \in Database /\ Len(db.history) \in Nat /\ Plan[s] \in Nat
      /\ \A r \in Runners : Plan[r] \in Nat \ {0}
  BY Releases DEF IInv, TypeOK, Database
<1>2. result[s] = "done" => Len(db.history) >= Plan[s] /\ final(db, Len(db.history))
  BY DEF IInv, DoneIsApplied
<1>3. CASE db' = db /\ result[s] = "done"
  BY <1>2, <1>3
<1>4. ASSUME NEW r \in Runners, Commits(r), result[s] = "done" \/ s = r
      PROVE  Len(db'.history) >= Plan[s] /\ final(db', Len(db'.history))
  <2>1. Len(db'.history) = Plan[r] /\ final(db', Len(db'.history))
    BY <1>1, <1>4, Applied DEF Commits
  <2>2. result[s] = "done" => Plan[s] <= Plan[r]
    BY <1>1, <1>2, <1>4 DEF Commits
  <2> QED
    BY <1>1, <1>4, <2>1, <2>2
<1>5. CASE pc[s] = "committing" /\ db' = work[s]
  <2>1. Commits(s)
    <3>1. ReadsHold(s) /\ Progress(s) /\ work[s] \in Database
      BY DEF IInv, TypeOK
    <3>2. final(work[s], Plan[s]) /\ Len(db.history) <= applied(s)
      BY <1>5, <3>1 DEF Progress, InLoop
    <3>3. applied(s) = Plan[s]
      BY <1>1, <3>1, <3>2, Applied DEF applied
    <3> QED
      BY <1>5, <3>1, <3>2, <3>3 DEF Commits, ReadsHold, InLoop
  <2> QED
    BY <1>4, <2>1
<1> QED
  BY <1>3, <1>4, <1>5, Successes, WholeOrNothing

(* The newest release, as NeverStranded names it.                          *)
newest == CHOOSE n \in {Plan[r] : r \in Runners} : \A r \in Runners : Plan[r] <= n

LEMMA Newest == newest \in Nat \ {0} /\ \A r \in Runners : Plan[r] <= newest
<1>1. \E n \in {Plan[r] : r \in Runners} : \A r \in Runners : Plan[r] <= n
  BY MigratorAssumption
<1>2. newest \in {Plan[r] : r \in Runners} /\ \A r \in Runners : Plan[r] <= newest
  BY <1>1 DEF newest
<1> QED
  BY <1>2, Releases

LEMMA NeverStrands ==
  ASSUME IInv, [Next]_vars
  PROVE  NeverStranded'
<1>1. NeverStranded <=> (Accepted(found, newest) => Accepted(db, newest))
  BY DEF NeverStranded, Accepted, newest
<1>2. NeverStranded' <=> (Accepted(found', newest) => Accepted(db', newest))
  BY DEF NeverStranded, Accepted, newest
<1>3. ASSUME NEW r \in Runners, Commits(r) PROVE Accepted(db', newest)
  BY <1>3, Newest, Releases, Applied DEF Commits
<1> QED
  BY <1>1, <1>2, <1>3, WholeOrNothing DEF IInv

LEMMA InitIInv == Init => IInv
<1> SUFFICES ASSUME Init PROVE IInv
  OBVIOUS
<1>1. TypeOK
  BY InitTypes
<1>2. \A r \in Runners : pc[r] = "start" /\ result[r] = "none"
  BY DEF Init
<1>3. \A r \in Runners : ReadsHold(r) /\ Progress(r) /\ ~Converted(r)
  BY <1>2 DEF ReadsHold, Progress, Converted, InLoop
<1>4. RowsConverted
  <2>1. db.catalog.level \in {-1} \cup Nat /\ CONVERSION \in Nat
    BY <1>1, Releases DEF TypeOK, Database
  <2>2. ~busy /\ (breaking => ~(db.catalog.level >= CONVERSION))
    BY <2>1 DEF Init
  <2> QED
    BY <1>3, <2>2 DEF RowsConverted
<1>5. DoneIsApplied /\ NeverStranded
  BY <1>2 DEF Init, DoneIsApplied, NeverStranded
<1> QED
  BY <1>1, <1>3, <1>4, <1>5 DEF IInv

LEMMA NextIInv == IInv /\ [Next]_vars => IInv'
<1> SUFFICES ASSUME IInv, [Next]_vars PROVE IInv'
  OBVIOUS
<1>1. TypeOK /\ TypeOK'
  BY Types DEF IInv
<1>2. \A r \in Runners : (ReadsHold(r) /\ Progress(r))'
  <2>1. ASSUME NEW r \in Runners, Start(r) \/ Run(r) \/ Lose(r)
        PROVE  \A s \in Runners : (ReadsHold(s) /\ Progress(s))'
    <3>1. db' = db \/ pc[r] = "committing"
      BY <2>1 DEF Start, Run, Lose, Begin, Decide, Adopt, NextMigration, Statement, LockTimeout,
         Record, FinalCheck, Commit
    <3>2. \A s \in Runners \ {r} : pc'[s] = pc[s] /\ work'[s] = work[s]
      BY <1>1, <2>1 DEF Start, Run, Lose, Begin, Decide, Adopt, NextMigration, Statement,
         LockTimeout, Record, FinalCheck, Commit, end, goto, TypeOK
    <3> QED
      BY <1>1, <2>1, <3>1, <3>2, OthersKeep, RunKeepsReads DEF IInv
  <2>2. CASE AppBegin \/ AppCommit \/ UNCHANGED vars
    BY <2>2 DEF AppBegin, AppCommit, vars, IInv, ReadsHold, Progress, applied, Fresh, Managed,
       PrismaEra
  <2> QED
    BY <2>1, <2>2 DEF Next
<1>3. RowsConverted'
  BY <1>1, RowsStayConverted
<1>4. DoneIsApplied' /\ NeverStranded'
  BY DoneStaysApplied, NeverStrands
<1> QED
  BY <1>1, <1>2, <1>3, <1>4 DEF IInv

LEMMA Invariance == Spec => []IInv
  BY InitIInv, NextIInv, PTL DEF Spec

(* A database a release accepts stays deployable, and a deployment that    *)
(* said it succeeded is never taken back: one transaction for decision,    *)
(* migrations, final check and history, under the advisory lock            *)
(* (db/migrator.ts, migrate and apply).                                    *)
THEOREM StaysRecoverable == Spec => []Recoverable
<1>1. IInv => Recoverable
  BY DEF IInv, Recoverable
<1> QED
  BY <1>1, Invariance, PTL

(* No row escapes the CHECKs of the conversion, whatever the application   *)
(* writes between the count and the lock (db/migrator.ts,                  *)
(* refuseBreakingRows).                                                    *)
THEOREM NoRowEscapes == Spec => []NoBreakingRowConverted
<1>1. IInv => NoBreakingRowConverted
  BY Releases DEF IInv, TypeOK, Database, RowsConverted, NoBreakingRowConverted
<1> QED
  BY <1>1, Invariance, PTL

-----------------------------------------------------------------------------
(* REFINEMENT.                                                             *)

LEMMA Versions ==
  ASSUME NEW d \in Database
  PROVE  /\ versionOf(d) \in Nat \cup {Unknown}
         /\ \A n \in Nat \ {0} : final(d, n) => versionOf(d) = n
         /\ \A n \in Nat \ {0} : Fresh(d) \/ Managed(d, n) \/ PrismaEra(d) =>
              versionOf(d) # Unknown /\ versionOf(d) <= n
<1>1. Len(d.history) \in Nat
  BY DEF Database
<1>2. versionOf(d) \in Nat \cup {Unknown}
  BY <1>1 DEF versionOf
<1>3. ASSUME NEW n \in Nat \ {0}, final(d, n) PROVE versionOf(d) = n
  <2>1. Len(d.history) = n /\ final(d, Len(d.history)) /\ d.history # <<>>
    BY <1>3, Applied
  <2>2. d # EmptyDatabase /\ d # PrismaDatabase
    BY <2>1 DEF EmptyDatabase, PrismaDatabase
  <2> QED
    BY <2>1, <2>2 DEF versionOf
<1>4. ASSUME NEW n \in Nat \ {0}, Fresh(d) \/ Managed(d, n) \/ PrismaEra(d)
      PROVE  versionOf(d) # Unknown /\ versionOf(d) <= n
  <2>1. CASE Fresh(d)
    BY <2>1 DEF Fresh, versionOf, Unknown
  <2>2. CASE PrismaEra(d)
    BY <2>2, Named DEF PrismaEra, versionOf, Unknown
  <2>3. CASE Managed(d, n)
    <3>1. final(d, Len(d.history)) /\ Len(d.history) \in Nat \ {0} /\ Len(d.history) <= n
      BY <2>3 DEF Managed, final
    <3> QED
      BY <1>3, <3>1 DEF Unknown
  <2> QED
    BY <1>4, <2>1, <2>2, <2>3
<1> QED
  BY <1>2, <1>3, <1>4

LEMMA InitRefines == Init => Upgrade!Init
<1> SUFFICES ASSUME Init PROVE Upgrade!Init
  OBVIOUS
<1>1. db \in Database
  BY DatabasesAssumption DEF Init
<1> QED
  BY <1>1, Versions DEF Upgrade!Init

LEMMA StepRefines == IInv /\ [Next]_vars => [Upgrade!Next]_(versionOf(db))
<1> SUFFICES ASSUME IInv, [Next]_vars PROVE Upgrade!Next \/ versionOf(db)' = versionOf(db)
  OBVIOUS
<1>1. CASE db' = db
  BY <1>1
<1>2. ASSUME NEW r \in Runners, Commits(r) PROVE Upgrade!Next
  <2>1. db \in Database /\ db' \in Database /\ Plan[r] \in Nat \ {0} /\ final(db', Plan[r])
    BY <1>2, Releases DEF IInv, TypeOK, Commits
  <2>2. versionOf(db)' = Plan[r]
    BY <2>1, Versions
  <2>3. versionOf(db) # Unknown /\ versionOf(db) <= Plan[r]
    BY <1>2, <2>1, Versions DEF Commits
  <2>4. Upgrade!Upgrade(Plan[r])
    BY <2>2, <2>3 DEF Upgrade!Upgrade
  <2> QED
    BY <2>4 DEF Upgrade!Next
<1> QED
  BY <1>1, <1>2, WholeOrNothing

(* Runs of any releases, cut off anywhere, move the database from a        *)
(* version it knows to the last of a release in one step, never back.      *)
THEOREM Upgrading == Spec => ImplementsUpgrade
<1>1. IInv /\ [Next]_vars => [Upgrade!Next]_(versionOf(db))
  BY StepRefines
<1> QED
  BY <1>1, InitRefines, Invariance, PTL DEF Spec, ImplementsUpgrade, Upgrade!Spec
=============================================================================
