------------------------- MODULE AttemptLimitsProofs -------------------------
(***************************************************************************)
(* No lock ends early, neither limit lets more through than it says, and   *)
(* whoever is refused for the rate has called that often, for any number   *)
(* of concurrent calls, any limits and any wait between reading the clock  *)
(* and the statement.                                                      *)
(***************************************************************************)
EXTENDS AttemptLimits, SequenceTheorems, FiniteSetTheorems, TLAPS

(* A statement is given a time that has come, so a lock seen as over by it *)
(* is over.                                                                *)
ClockRead ==
  /\ now \in Nat
  /\ failures \in Row \cup {None}
  /\ call \in [Calls -> Call]
  /\ \A c \in Calls : call[c].at <= now

(* What LockHolds says of one step.                                        *)
LockKept ==
  (failures # None /\ failures.lockedUntil # None /\ now < failures.lockedUntil)
    => failures' # None /\ failures'.lockedUntil = failures.lockedUntil

(* The limits are numbers, and no row is a number.                         *)
LEMMA Limits ==
  /\ SIGN_IN_ADMISSIONS \in Nat /\ SIGN_IN_WINDOW \in Nat /\ SIGN_IN_LOCK \in Nat
  /\ SIGN_IN_CLEANUP_EVERY \in Nat
  /\ None \notin Row /\ None \notin Int
BY LimitsAssumption, NoRowAssumption

(* The row an upsert leaves: it is a row, and it keeps a lock that the     *)
(* statement's time has not passed.                                        *)
LEMMA Counting ==
  ASSUME NEW row \in Row \cup {None}, NEW at \in Nat
  PROVE  /\ counted(row, at) \in Row
         /\ (row # None /\ row.lockedUntil # None /\ at < row.lockedUntil)
              => counted(row, at).lockedUntil = row.lockedUntil
<1>1. CASE row = None \/ fresh(row, at)
  <2>1. counted(row, at) = [attempts |-> 1, windowStartedAt |-> at, lockedUntil |-> None]
    BY <1>1 DEF counted
  <2>2. counted(row, at) \in Row
    BY <2>1 DEF Row
  <2>3. row # None /\ row.lockedUntil # None => row.lockedUntil <= at
    BY <1>1 DEF fresh
  <2>4. row # None /\ row.lockedUntil # None => row.lockedUntil \in Nat
    BY DEF Row
  <2> QED
    BY <2>2, <2>3, <2>4
<1>2. CASE row # None /\ ~fresh(row, at)
  <2>1. PICK a \in Nat \ {0}, w \in Nat, u \in Nat \cup {None} :
          row = [attempts |-> a, windowStartedAt |-> w, lockedUntil |-> u]
    BY <1>2 DEF Row
  <2>2. PICK v : v = IF u = None /\ a + 1 >= SIGN_IN_ADMISSIONS
                     THEN at + SIGN_IN_LOCK ELSE u
    OBVIOUS
  <2>3. counted(row, at) = [attempts |-> a + 1, windowStartedAt |-> w, lockedUntil |-> v]
    BY <1>2, <2>1, <2>2 DEF counted
  <2>4. v \in Nat \cup {None} /\ a + 1 \in Nat \ {0}
    BY <2>2, Limits
  <2>5. counted(row, at) \in Row
    BY <2>3, <2>4 DEF Row
  <2> QED
    BY <2>1, <2>2, <2>3, <2>5
<1> QED
  BY <1>1, <1>2

(* No call is under way at first.                                         *)
LEMMA Start == Init => ClockRead
<1>1. Idle \in Call /\ Idle.at = 0
  BY DEF Idle, Call, Steps
<1> QED
  BY <1>1 DEF Init, ClockRead

(* One call moves to a step with a time that has come.                     *)
LEMMA Moved ==
  ASSUME ClockRead, now' = now, failures' \in Row \cup {None},
         NEW c \in Calls, NEW next \in Call, next.at <= now,
         call' = [call EXCEPT ![c] = next]
  PROVE  ClockRead'
<1>1. call' \in [Calls -> Call]
  BY DEF ClockRead
<1>2. \A d \in Calls : call'[d].at <= now'
  <2> TAKE d \in Calls
  <2>1. CASE d = c
    BY <2>1 DEF ClockRead
  <2>2. CASE d # c
    BY <2>2 DEF ClockRead
  <2> QED
    BY <2>1, <2>2
<1> QED
  BY <1>1, <1>2 DEF ClockRead

(* An idle call's record.                                                  *)
LEMMA IdleCall == Idle \in Call /\ Idle.at = 0 /\ [Idle EXCEPT !.step = "check"] \in Call
                  /\ [Idle EXCEPT !.step = "check"].at = 0
BY DEF Idle, Call, Steps

(* Every step of the specification keeps the invariant, and every lock     *)
(* that is active.                                                         *)
LEMMA Step ==
  ASSUME ClockRead, Next
  PROVE  ClockRead' /\ LockKept
<1>0. /\ now \in Nat /\ failures \in Row \cup {None} /\ 0 <= now
      /\ \A c \in Calls : call[c] \in Call /\ call[c].at \in Nat /\ call[c].at <= now
  BY DEF ClockRead, Call
<1>1. ASSUME NEW c \in Calls, SignIn(c) \/ Arrive(c)
      PROVE  ClockRead' /\ LockKept
  <2>1. PICK next \in Call : next.at = now /\ call' = [call EXCEPT ![c] = next]
    BY <1>0, <1>1 DEF SignIn, Arrive, Goto, Steps, Call
  <2>2. now' = now /\ failures' = failures /\ next.at <= now
    BY <1>0, <1>1, <2>1 DEF SignIn, Arrive
  <2>3. ClockRead'
    BY <1>0, <2>1, <2>2, Moved
  <2>4. LockKept
    BY <2>2 DEF LockKept
  <2> QED
    BY <2>3, <2>4
<1>2. ASSUME NEW c \in Calls, Admit(c)
      PROVE  ClockRead' /\ LockKept
  <2> DEFINE row == counted(failures, call[c].at)
             next == IF (admissions + 1) % SIGN_IN_CLEANUP_EVERY = 0
                     THEN [step |-> "sweep", at |-> now, attempts |-> row.attempts]
                     ELSE IF admitted(row.attempts)
                     THEN [Idle EXCEPT !.step = "check"] ELSE Idle
  <2>1. /\ row \in Row
        /\ (failures # None /\ failures.lockedUntil # None /\ call[c].at < failures.lockedUntil)
             => row.lockedUntil = failures.lockedUntil
    BY <1>0, Counting
  <2>2. now' = now /\ failures' = row /\ call' = [call EXCEPT ![c] = next]
    BY <1>2 DEF Admit
  <2> HIDE DEF row
  <2>3. row.attempts \in Nat
    BY <2>1 DEF Row
  <2>4. next \in Call /\ next.at <= now
    BY <1>0, <2>3, IdleCall DEF Call, Steps
  <2> HIDE DEF next
  <2>5. ClockRead'
    BY <2>1, <2>2, <2>4, Moved
  <2>6. failures # None /\ failures.lockedUntil # None => failures.lockedUntil \in Nat
    BY <1>0 DEF Row
  <2>7. LockKept
    BY <1>0, <2>1, <2>2, <2>6, Limits DEF LockKept
  <2> QED
    BY <2>5, <2>7
<1>3. ASSUME NEW c \in Calls, AdmitFails(c)
      PROVE  ClockRead' /\ LockKept
  <2> DEFINE row == counted(failures, call[c].at)
  <2>1. /\ row \in Row
        /\ (failures # None /\ failures.lockedUntil # None /\ call[c].at < failures.lockedUntil)
             => row.lockedUntil = failures.lockedUntil
    BY <1>0, Counting
  <2>2. now' = now /\ failures' \in {failures, row} /\ call' = [call EXCEPT ![c] = Idle]
    BY <1>3 DEF AdmitFails, Over
  <2> HIDE DEF row
  <2>3. ClockRead'
    BY <1>0, <2>1, <2>2, IdleCall, Moved
  <2>4. failures # None /\ failures.lockedUntil # None => failures.lockedUntil \in Nat
    BY <1>0 DEF Row
  <2>5. LockKept
    BY <1>0, <2>1, <2>2, <2>4, Limits DEF LockKept
  <2> QED
    BY <2>3, <2>5
<1>4. ASSUME NEW c \in Calls, CleanUp(c)
      PROVE  ClockRead' /\ LockKept
  <2> DEFINE next == IF admitted(call[c].attempts)
                     THEN [Idle EXCEPT !.step = "check"] ELSE Idle
  <2>1. now' = now /\ call' = [call EXCEPT ![c] = next]
    BY <1>4 DEF CleanUp, ClockRead
  <2>2. failures' = failures \/ (failures # None /\ swept(failures, call[c].at) /\ failures' = None)
    BY <1>4 DEF CleanUp
  <2>3. next \in Call /\ next.at <= now
    BY <1>0, IdleCall
  <2> HIDE DEF next
  <2>4. ClockRead'
    BY <1>0, <2>1, <2>2, <2>3, Moved
  <2>5. LockKept
    <3>1. failures # None /\ failures.lockedUntil # None => failures.lockedUntil \in Nat
      BY <1>0 DEF Row
    <3> QED
      BY <1>0, <2>2, <3>1 DEF LockKept, swept
  <2> QED
    BY <2>4, <2>5
<1>5. ASSUME NEW c \in Calls, NEW right \in BOOLEAN, Check(c, right)
      PROVE  ClockRead' /\ LockKept
  <2>1. PICK next \in Call : next.at <= now /\ call' = [call EXCEPT ![c] = next]
    <3>1. CASE right
      <4>1. call' = [call EXCEPT ![c] = [step |-> "succeeded", at |-> call[c].at,
                                         attempts |-> call[c].attempts]]
        BY <1>0, <1>5, <3>1 DEF Check, Call, ClockRead
      <4> QED
        BY <1>0, <4>1 DEF Call, Steps
    <3>2. CASE ~right
      BY <1>0, <1>5, <3>2, IdleCall DEF Check, Over
    <3> QED
      BY <3>1, <3>2
  <2>2. now' = now /\ failures' = failures
    BY <1>5 DEF Check
  <2> QED
    BY <1>0, <2>1, <2>2, Moved DEF LockKept
<1>6. ASSUME NEW c \in Calls, Reset(c)
      PROVE  ClockRead' /\ LockKept
  <2>1. /\ now' = now /\ call' = [call EXCEPT ![c] = Idle]
        /\ failures' = failures \/ (failures.lockedUntil = None /\ failures' = None)
    BY <1>6 DEF Reset, Over
  <2> QED
    BY <1>0, <2>1, IdleCall, Moved DEF LockKept
<1>7. ASSUME NEW c \in Calls, Guard(c) \/ GuardFails(c)
      PROVE  ClockRead' /\ LockKept
  <2>1. now' = now /\ failures' = failures /\ call' = [call EXCEPT ![c] = Idle]
    BY <1>7 DEF Guard, GuardFails, Over
  <2> QED
    BY <1>0, <2>1, IdleCall, Moved DEF LockKept
<1>8. CASE Prune
  BY <1>8 DEF Prune, ClockRead, LockKept
<1>9. CASE Tick
  BY <1>0, <1>9 DEF Tick, ClockRead, LockKept
<1> QED
  BY <1>1, <1>2, <1>3, <1>4, <1>5, <1>6, <1>7, <1>8, <1>9 DEF Next

(* A call is counted, swept or reset with a time that has come.            *)
THEOREM ClocksAreRead == Spec => []ClockRead
<1>1. ASSUME ClockRead, [Next]_vars
      PROVE  ClockRead'
  <2>1. CASE Next
    BY <1>1, <2>1, Step
  <2>2. CASE UNCHANGED vars
    BY <1>1, <2>2 DEF vars, ClockRead
  <2> QED
    BY <1>1, <2>1, <2>2
<1> QED
  BY <1>1, Start, PTL DEF Spec

(* No lock ends early, however many sign-ins interleave with sweeps, late  *)
(* statements and successes admitted before the lock.                      *)
THEOREM LocksHold == Spec => LockHolds
<1>1. ASSUME ClockRead, [Next]_vars
      PROVE  [LockKept]_failures
  <2>1. CASE Next
    BY <1>1, <2>1, Step
  <2>2. CASE UNCHANGED vars
    BY <2>2 DEF vars
  <2> QED
    BY <1>1, <2>1, <2>2
<1>2. LockHolds <=> [][LockKept]_failures
  BY DEF LockHolds, LockKept
<1> QED
  BY <1>1, <1>2, ClocksAreRead, PTL DEF Spec

-----------------------------------------------------------------------------
(* THE INVARIANT.                                                          *)

(* A statement has not waited longer than the bound.                       *)
Waits == \A c \in Calls : waiting(c) => now <= call[c].at + Lag

(* Of n + 1 times the last comes a window w, but for a wait, after the     *)
(* first.                                                                  *)
Spread(times, n, w) ==
  \A i, j \in 1..Len(times) : j - i >= n => times[i] + w <= times[j] + Lag

(* The first k times are a window w before at, but for a wait.             *)
Old(times, k, w, at) == \A i \in 1..Len(times) : i <= k => times[i] + w <= at + Lag

Past(times, at) == \A i \in 1..Len(times) : times[i] <= at

(* A bucket has served at most its count since a window began.             *)
Served ==
  /\ Spread(served, LIMIT, WINDOW)
  /\ bucket = None => Old(served, Len(served), WINDOW, now)
  /\ bucket # None =>
       /\ \E k \in 0..LIMIT : k <= bucket.count /\ Old(served, Len(served) - k, WINDOW, now)
       /\ \A i \in 1..Len(served) : served[i] <= bucket.lastRequest + Lag

(* A window has admitted at most its attempts; of the window before it,    *)
(* one less than the limit may be recent, because a full window is locked. *)
Guessed ==
  /\ Spread(guesses, 2 * SIGN_IN_ADMISSIONS - 1, SIGN_IN_WINDOW)
  /\ failures = None =>
       \E b \in 0..SIGN_IN_ADMISSIONS - 1 : Old(guesses, Len(guesses) - b, SIGN_IN_WINDOW, now)
  /\ failures # None =>
       /\ \E a \in 0..SIGN_IN_ADMISSIONS : \E b \in 0..SIGN_IN_ADMISSIONS - 1 :
            /\ a <= failures.attempts
            /\ Old(guesses, Len(guesses) - a - b, SIGN_IN_WINDOW, now)
            /\ \A i \in 1..Len(guesses) :
                 i <= Len(guesses) - a => guesses[i] <= failures.windowStartedAt + Lag
       /\ failures.lockedUntil # None =>
            \A i \in 1..Len(guesses) : guesses[i] + SIGN_IN_LOCK <= failures.lockedUntil + Lag

(* What the invariant says of the bucket, and of the failures.             *)
ServedOK == Past(served, now) /\ Served

GuessedOK == Past(guesses, now) /\ Guessed

IInv == TypeOK /\ ClockRead /\ Waits /\ GuessedOK /\ ServedOK

-----------------------------------------------------------------------------
(* REMEMBERED TIMES.                                                       *)

(* r is times with the time at after it and perhaps some dropped before.   *)
Appended(r, times, at) ==
  /\ r \in Seq(Nat)
  /\ \E d \in 0..Len(times) :
       /\ Len(r) = Len(times) - d + 1
       /\ \A i \in 1..Len(times) - d : r[i] = times[i + d]
       /\ r[Len(r)] = at

LEMMA Remembering ==
  ASSUME now \in Nat, NEW times \in Seq(Nat), NEW w \in Nat
  PROVE  Appended(remembered(times, w), times, now)
<1> DEFINE S == {i \in DOMAIN times : times[i] <= now - w}
           d == Cardinality(S)
           kept == SubSeq(times, d + 1, Len(times))
<1>1. Len(times) \in Nat /\ DOMAIN times = 1..Len(times) /\ \A i \in 1..Len(times) : times[i] \in Nat
  BY LenProperties
<1>2. d \in 0..Len(times)
  <2>1. IsFiniteSet(1..Len(times)) /\ Cardinality(1..Len(times)) = Len(times)
    BY <1>1, FS_Interval
  <2>2. S \in SUBSET (1..Len(times))
    BY <1>1
  <2>3. IsFiniteSet(S) /\ d <= Len(times)
    BY <2>1, <2>2, FS_Subset
  <2>4. d \in Nat
    BY <2>3, FS_CardinalityType
  <2> QED
    BY <1>1, <2>3, <2>4
<1> HIDE DEF d
<1>3. /\ kept \in Seq(Nat)
      /\ Len(kept) = IF d + 1 <= Len(times) THEN Len(times) - (d + 1) + 1 ELSE 0
      /\ \A i \in 1..(Len(times) - (d + 1) + 1) : kept[i] = times[(d + 1) + i - 1]
  <2>1. d + 1 \in Int /\ Len(times) \in Int /\ \A i \in (d + 1)..Len(times) : times[i] \in Nat
    BY <1>1, <1>2
  <2> QED
    BY <2>1, SubSeqProperties
<1> HIDE DEF kept
<1>4. Len(kept) = Len(times) - d /\ \A i \in 1..Len(times) - d : kept[i] = times[i + d]
  <2>1. Len(times) - (d + 1) + 1 = Len(times) - d
    BY <1>1, <1>2
  <2>2. Len(kept) = Len(times) - d
    <3>1. CASE d + 1 <= Len(times)
      BY <1>3, <2>1, <3>1
    <3>2. CASE d = Len(times)
      <4>1. ~(d + 1 <= Len(times)) /\ Len(times) - d = 0
        BY <1>1, <3>2
      <4> QED
        BY <1>3, <4>1
    <3>3. d + 1 <= Len(times) \/ d = Len(times)
      <4>1. Len(times) \in Nat /\ d \in Int /\ d <= Len(times)
        BY <1>1, <1>2
      <4>2. \A l, x \in Int : x <= l => x + 1 <= l \/ x = l
        OBVIOUS
      <4> QED
        BY <4>1, <4>2
    <3> QED
      BY <3>1, <3>2, <3>3
  <2>3. ASSUME NEW i \in 1..Len(times) - d
        PROVE  kept[i] = times[i + d]
    <3>1. (d + 1) + i - 1 = i + d
      BY <1>2
    <3> QED
      BY <1>3, <2>1, <3>1
  <2> QED
    BY <2>2, <2>3
<1>5. remembered(times, w) = Append(kept, now)
  BY DEF remembered, d, kept
<1>6. /\ Append(kept, now) \in Seq(Nat) /\ Len(Append(kept, now)) = Len(kept) + 1
      /\ \A i \in 1..Len(kept) : Append(kept, now)[i] = kept[i]
      /\ Append(kept, now)[Len(kept) + 1] = now
  BY <1>3, AppendProperties
<1> QED
  BY <1>1, <1>2, <1>4, <1>5, <1>6 DEF Appended

LEMMA Continued ==
  ASSUME NEW at \in Nat, Lag \in Nat, NEW times \in Seq(Nat), NEW t, Appended(t, times, at),
         NEW w \in Nat
  PROVE  /\ Len(t) \in Nat /\ Len(times) \in Nat
         /\ Past(times, at) => Past(t, at)
         /\ \A n \in Nat \ {0} : Spread(times, n, w) /\ Old(times, Len(times) + 1 - n, w, at) => Spread(t, n, w)
         /\ \A k \in Nat : Old(times, Len(times) - k, w, at) => Old(t, Len(t) - (k + 1), w, at)
         /\ \A k \in Nat : \A m \in Int :
              (\A i \in 1..Len(times) : i <= Len(times) - k => times[i] <= m)
                => \A i \in 1..Len(t) : i <= Len(t) - (k + 1) => t[i] <= m
         /\ \A m \in Int : at <= m /\ (\A i \in 1..Len(times) : times[i] <= m)
                             => \A i \in 1..Len(t) : t[i] <= m
<1>1. PICK d \in 0..Len(times) :
        /\ Len(t) = Len(times) - d + 1
        /\ \A i \in 1..Len(times) - d : t[i] = times[i + d]
        /\ t[Len(t)] = at
  BY DEF Appended
<1>2. Len(times) \in Nat /\ d \in Nat /\ \A i \in 1..Len(times) : times[i] \in Nat
  BY LenProperties
<1>3. ASSUME NEW i \in 1..Len(t)
      PROVE  \/ i = Len(t) /\ t[i] = at
             \/ i < Len(t) /\ i + d \in 1..Len(times) /\ t[i] = times[i + d]
  <2>1. CASE i = Len(t)
    BY <1>1, <2>1
  <2>2. CASE i # Len(t)
    <3>1. i < Len(t) /\ i \in 1..Len(times) - d
      <4>1. Len(t) = Len(times) - d + 1 /\ Len(times) \in Nat /\ d \in Nat
        BY <1>1, <1>2
      <4>2. i \in 1..(Len(times) - d + 1) /\ i # Len(times) - d + 1
        BY <4>1, <2>2
      <4>3. \A l, e \in Int : i \in 1..(l - e + 1) /\ i # l - e + 1
                             => i < l - e + 1 /\ i \in 1..l - e
        OBVIOUS
      <4> QED
        BY <4>1, <4>2, <4>3
    <3>2. i + d \in 1..Len(times)
      BY <1>2, <3>1
    <3> QED
      BY <1>1, <3>1, <3>2
  <2> QED
    BY <2>1, <2>2
<1>4. Past(times, at) => Past(t, at)
  <2> SUFFICES ASSUME Past(times, at), NEW i \in 1..Len(t)
               PROVE  t[i] <= at
    BY DEF Past
  <2>1. \A j \in 1..Len(times) : times[j] <= at
    BY DEF Past
  <2>2. at <= at
    OBVIOUS
  <2>3. CASE t[i] = at
    BY <2>2, <2>3
  <2>4. CASE i + d \in 1..Len(times) /\ t[i] = times[i + d]
    BY <2>1, <2>4
  <2> QED
    BY <1>3, <2>3, <2>4
<1>5. ASSUME NEW n \in Nat \ {0}, Spread(times, n, w), Old(times, Len(times) + 1 - n, w, at)
      PROVE  Spread(t, n, w)
  <2> SUFFICES ASSUME NEW i \in 1..Len(t), NEW j \in 1..Len(t), j - i >= n
               PROVE  t[i] + w <= t[j] + Lag
    BY DEF Spread
  <2>1. i < Len(t) /\ i + d \in 1..Len(times) /\ t[i] = times[i + d]
    BY <1>1, <1>2, <1>3
  <2>2. CASE j = Len(t)
    <3>1. i + d <= Len(times) + 1 - n
      BY <1>1, <1>2, <2>2
    <3>2. times[i + d] + w <= at + Lag
      BY <1>5, <2>1, <3>1 DEF Old
    <3> QED
      BY <1>1, <2>1, <2>2, <3>2
  <2>3. CASE j # Len(t)
    <3>1. j + d \in 1..Len(times) /\ t[j] = times[j + d]
      BY <1>3, <2>3
    <3>2. (j + d) - (i + d) >= n
      BY <1>2
    <3> QED
      BY <1>5, <2>1, <3>1, <3>2 DEF Spread
  <2> QED
    BY <2>2, <2>3
<1>6. ASSUME NEW k \in Nat, NEW i \in 1..Len(t), i <= Len(t) - (k + 1)
      PROVE  i + d \in 1..Len(times) /\ i + d <= Len(times) - k /\ t[i] = times[i + d]
  <2>1. i # Len(t)
    BY <1>1, <1>2, <1>6
  <2>2. i + d <= Len(times) - k
    BY <1>1, <1>2, <1>6
  <2> QED
    BY <1>3, <2>1, <2>2
<1>7. \A k \in Nat : Old(times, Len(times) - k, w, at) => Old(t, Len(t) - (k + 1), w, at)
  BY <1>6 DEF Old
<1>8. \A k \in Nat : \A m \in Int :
        (\A i \in 1..Len(times) : i <= Len(times) - k => times[i] <= m)
          => \A i \in 1..Len(t) : i <= Len(t) - (k + 1) => t[i] <= m
  BY <1>6
<1>9. \A m \in Int : at <= m /\ (\A i \in 1..Len(times) : times[i] <= m)
                       => \A i \in 1..Len(t) : t[i] <= m
  BY <1>3
<1> QED
  BY <1>1, <1>2, <1>4, <1>5, <1>7, <1>8, <1>9

(* i < j with the same remainder by n are at least n apart.                *)
LEMMA Remainders ==
  ASSUME NEW n \in Nat \ {0}, NEW i \in Nat, NEW j \in Nat, i < j, i % n = j % n
  PROVE  j - i >= n
<1>1. PICK p \in Int, x \in Int : p = i \div n /\ x = i % n /\ i = n * p + x
  OBVIOUS
<1>2. PICK q \in Int, y \in Int : q = j \div n /\ y = j % n /\ j = n * q + y
  OBVIOUS
<1>3. x = y /\ n * p < n * q
  BY <1>1, <1>2
<1>4. p + 1 <= q
  BY <1>3
<1>5. n * (p + 1) <= n * q
  BY <1>4
<1>6. n * (p + 1) = n * p + n
  BY <1>1
<1> QED
  BY <1>1, <1>2, <1>3, <1>5, <1>6

(* Times of which any n + 1 span a window have at most n in a window.      *)
LEMMA Bounding ==
  ASSUME NEW times \in Seq(Nat), NEW n \in Nat \ {0}, NEW w \in Nat, Lag \in Nat,
         Spread(times, n, w), NEW t \in Nat
  PROVE  within(times, t, w - Lag) <= n
<1> DEFINE S == {i \in DOMAIN times : times[i] \in t..t + (w - Lag) - 1}
           f == [i \in S |-> i % n]
<1>1. Len(times) \in Nat /\ DOMAIN times = 1..Len(times) /\ \A i \in 1..Len(times) : times[i] \in Nat
  BY LenProperties
<1>2. IsFiniteSet(0..n - 1) /\ Cardinality(0..n - 1) = n
  BY FS_Interval
<1>3. f \in [S -> 0..n - 1]
  <2>1. \A i \in Nat : i % n \in 0..n - 1
    OBVIOUS
  <2>2. S \subseteq Nat
    BY <1>1
  <2> HIDE DEF S
  <2> QED
    BY <2>1, <2>2
<1>4. ASSUME NEW i \in S, NEW j \in S, f[i] = f[j], i < j
      PROVE  FALSE
  <2>1. i \in 1..Len(times) /\ j \in 1..Len(times) /\ i % n = j % n
    BY <1>1, <1>4
  <2>2. j - i >= n
    BY <1>4, <2>1, Remainders
  <2>3. times[i] + w <= times[j] + Lag
    BY <2>1, <2>2 DEF Spread
  <2>4. times[i] >= t /\ times[j] <= t + (w - Lag) - 1 /\ times[i] \in Nat /\ times[j] \in Nat
    BY <1>1
  <2> QED
    BY <2>3, <2>4
<1>5. f \in Injection(S, 0..n - 1)
  <2>1. ASSUME NEW i \in S, NEW j \in S, f[i] = f[j]
        PROVE  i = j
    <3>1. i \in Nat /\ j \in Nat
      BY <1>1
    <3>2. ~(i < j) /\ ~(j < i)
      BY <1>4, <2>1
    <3> QED
      BY <3>1, <3>2
  <2> HIDE DEF f, S
  <2> QED
    BY <1>3, <2>1 DEF Injection, IsInjective
<1>6. Cardinality(S) <= n
  BY <1>2, <1>5, FS_Injection
<1> QED
  BY <1>6 DEF within

-----------------------------------------------------------------------------
(* THE COUNT OF A BUCKET.                                                  *)

(* The constants as numbers.                                               *)
LEMMA Policies ==
  /\ LIMIT \in Nat \ {0} /\ WINDOW \in Nat \ {0} /\ PRUNE \in Nat /\ Lag \in Nat /\ PRUNE >= WINDOW
  /\ SIGN_IN_ADMISSIONS \in Nat \ {0} /\ SIGN_IN_ADMISSIONS >= 2
  /\ SIGN_IN_WINDOW \in Nat \ {0} /\ SIGN_IN_LOCK \in Nat \ {0} /\ SIGN_IN_LOCK >= SIGN_IN_WINDOW
  /\ SIGN_IN_CLEANUP_EVERY \in Nat \ {0}
  /\ None \notin Row /\ None \notin Bucket /\ None \notin Int
BY LimitsAssumption, NoRowAssumption

(* A time that is old stays so.                                            *)
LEMMA Later ==
  ASSUME NEW m \in Nat, NEW at \in Nat, m <= at, Lag \in Nat,
         NEW times \in Seq(Nat), NEW w \in Nat
  PROVE  /\ Past(times, m) => Past(times, at)
         /\ \A k, l \in Int : l <= k /\ Old(times, k, w, m) => Old(times, l, w, at)
<1>1. \A i \in 1..Len(times) : times[i] \in Nat /\ i \in Int
  BY LenProperties
<1>2. Past(times, m) => Past(times, at)
  BY <1>1 DEF Past
<1>3. ASSUME NEW k \in Int, NEW l \in Int, l <= k, Old(times, k, w, m),
             NEW i \in 1..Len(times), i <= l
      PROVE  times[i] + w <= at + Lag
  <2>1. i <= k /\ times[i] \in Nat
    BY <1>1, <1>3
  <2>2. times[i] + w <= m + Lag
    BY <1>3, <2>1 DEF Old
  <2> QED
    BY <2>1, <2>2
<1>4. \A k, l \in Int : l <= k /\ Old(times, k, w, m) => Old(times, l, w, at)
  BY <1>3 DEF Old
<1> QED
  BY <1>2, <1>4

(* The row an upsert of the guard leaves.                                  *)
LEMMA Hitting ==
  ASSUME NEW row \in Bucket \cup {None}, NEW at \in Nat
  PROVE  /\ hit(row, at) \in Bucket /\ hit(row, at).lastRequest = at
         /\ row = None \/ row.lastRequest <= at - WINDOW => hit(row, at).count = 1
         /\ row # None => row.count \in Nat /\ row.lastRequest \in Nat
         /\ ~(row = None \/ row.lastRequest <= at - WINDOW) => hit(row, at).count = row.count + 1
BY DEF hit, Bucket

(* Nothing but time passes, and perhaps the row of a bucket out of use.    *)
LEMMA ServedStays ==
  ASSUME TypeOK, ServedOK, now' \in Nat, now <= now', served' = served,
         \/ bucket' = bucket
         \/ bucket # None /\ bucket.lastRequest < now - PRUNE /\ bucket' = None
  PROVE  ServedOK'
<1>1. /\ now \in Nat /\ served \in Seq(Nat) /\ Len(served) \in Nat
      /\ \A i \in 1..Len(served) : served[i] \in Nat
  <2>1. now \in Nat /\ served \in Seq(Nat)
    BY LimitsAssumption DEF TypeOK
  <2> QED
    BY <2>1, LenProperties
<1>2. /\ Past(served, now')
      /\ \A k \in Int : Old(served, k, WINDOW, now) => Old(served, k, WINDOW, now')
  BY <1>1, Later, Policies DEF ServedOK
<1>3. CASE bucket' = bucket
  BY <1>1, <1>2, <1>3, Policies DEF ServedOK, Served
<1>4. CASE bucket # None /\ bucket.lastRequest < now - PRUNE /\ bucket' = None
  <2>1. bucket.lastRequest \in Nat
    BY <1>4 DEF TypeOK, Bucket
  <2>2. ASSUME NEW i \in 1..Len(served)
        PROVE  served[i] + WINDOW <= now + Lag
    <3>1. served[i] <= bucket.lastRequest + Lag
      BY <1>4 DEF ServedOK, Served
    <3>2. served[i] \in Nat /\ now \in Nat /\ bucket.lastRequest < now - PRUNE
      BY <1>1, <1>4
    <3>3. \A x, l, p, v, g, m \in Int : x <= l + g /\ l < m - p /\ p >= v => x + v <= m + g
      OBVIOUS
    <3>4. PRUNE \in Int /\ WINDOW \in Int /\ Lag \in Int /\ PRUNE >= WINDOW
      BY Policies
    <3> QED
      BY <2>1, <3>1, <3>2, <3>3, <3>4
  <2>3. Old(served, Len(served), WINDOW, now)
    BY <2>2 DEF Old
  <2> QED
    BY <1>1, <1>2, <1>4, <2>3 DEF ServedOK, Served
<1> QED
  BY <1>3, <1>4

(* An upsert of the guard, whose statement may have waited; the call is    *)
(* served only within the limit.                                           *)
LEMMA ServedHit ==
  ASSUME TypeOK, ServedOK, NEW at \in Nat, at <= now, now <= at + Lag, now' = now,
         bucket' = hit(bucket, at),
         \/ served' = served
         \/ bucket'.count <= LIMIT /\ Appended(served', served, now)
  PROVE  ServedOK'
<1>1. /\ now \in Nat /\ served \in Seq(Nat) /\ Len(served) \in Nat
      /\ \A i \in 1..Len(served) : served[i] \in Nat /\ served[i] <= now
  <2>1. now \in Nat /\ served \in Seq(Nat)
    BY LimitsAssumption DEF TypeOK
  <2> QED
    BY <2>1, LenProperties DEF ServedOK, Past
<1>2. /\ bucket' # None /\ bucket' \in Bucket /\ bucket'.count \in Nat \ {0}
      /\ bucket'.lastRequest = at /\ bucket \in Bucket \cup {None}
  <2>1. bucket \in Bucket \cup {None}
    BY DEF TypeOK
  <2>2. bucket' \in Bucket /\ bucket'.lastRequest = at
    BY <2>1, Hitting
  <2> QED
    BY <2>1, <2>2, Policies DEF Bucket
<1>3. PICK k \in 0..LIMIT : k + 1 <= bucket'.count /\ Old(served, Len(served) - k, WINDOW, now)
  <2>1. CASE bucket = None
    <3>1. Old(served, Len(served), WINDOW, now) /\ Len(served) - 0 = Len(served) /\ 0 \in 0..LIMIT
      BY <1>1, <2>1, Policies DEF ServedOK, Served
    <3> QED
      BY <1>2, <3>1
  <2>2. CASE bucket # None /\ bucket.lastRequest <= at - WINDOW
    <3>1. bucket.lastRequest \in Nat
      BY <1>2, <2>2 DEF Bucket
    <3>2. ASSUME NEW i \in 1..Len(served)
          PROVE  served[i] + WINDOW <= now + Lag
      <4>1. served[i] <= bucket.lastRequest + Lag
        BY <2>2 DEF ServedOK, Served
      <4>2. \A x, l, v, g, m \in Int : x <= l + g /\ l <= at - v /\ at <= m => x + v <= m + g
        OBVIOUS
      <4>3. served[i] \in Int /\ now \in Int /\ WINDOW \in Int /\ Lag \in Int
        BY <1>1, Policies
      <4> QED
        BY <2>2, <3>1, <4>1, <4>2, <4>3
    <3>3. Old(served, Len(served) - 0, WINDOW, now) /\ 0 \in 0..LIMIT
      BY <3>2, Policies DEF Old
    <3> QED
      BY <1>2, <3>3
  <2>3. CASE ~(bucket = None \/ bucket.lastRequest <= at - WINDOW)
    <3>1. PICK k \in 0..LIMIT : k <= bucket.count /\ Old(served, Len(served) - k, WINDOW, now)
      BY <2>3 DEF ServedOK, Served
    <3>2. bucket.count \in Nat /\ bucket'.count = bucket.count + 1
      BY <1>2, <2>3, Hitting
    <3> QED
      BY <3>1, <3>2
  <2> QED
    BY <2>1, <2>2, <2>3
<1>4. \A i \in 1..Len(served) : served[i] <= at + Lag
  BY <1>1, Policies
<1>5. CASE served' = served
  <2>1. k <= bucket'.count
    BY <1>2, <1>3
  <2> QED
    BY <1>2, <1>3, <1>4, <1>5, <2>1 DEF ServedOK, Served
<1>6. CASE bucket'.count <= LIMIT /\ Appended(served', served, now)
  <2>1. k + 1 \in 0..LIMIT /\ k \in Nat /\ LIMIT \in Nat \ {0} /\ WINDOW \in Nat /\ Lag \in Nat
    BY <1>2, <1>3, <1>6, Policies
  <2>2. Old(served, Len(served) + 1 - LIMIT, WINDOW, now)
    <3>1. Len(served) + 1 - LIMIT <= Len(served) - k /\ Len(served) + 1 - LIMIT \in Int
          /\ Len(served) - k \in Int
      BY <1>1, <2>1
    <3> QED
      BY <1>1, <1>3, <2>1, <3>1, Later
  <2> HIDE DEF ServedOK
  <2>3. /\ Past(served', now) /\ Spread(served', LIMIT, WINDOW)
        /\ Old(served', Len(served') - (k + 1), WINDOW, now)
        /\ \A i \in 1..Len(served') : served'[i] <= at + Lag
    <3>1. Past(served, now) /\ Spread(served, LIMIT, WINDOW)
      BY DEF ServedOK, Served
    <3>2. at + Lag \in Int /\ now <= at + Lag
      BY <2>1
    <3> QED
      BY <1>1, <1>3, <1>4, <1>6, <2>1, <2>2, <3>1, <3>2, Continued
  <2> QED
    BY <1>2, <1>3, <2>1, <2>3 DEF ServedOK, Served
<1> QED
  BY <1>5, <1>6

-----------------------------------------------------------------------------
(* THE ATTEMPTS OF A KEY.                                                  *)

(* A row is locked from the attempt that reaches the limit.                *)
Limited(row, at) ==
  /\ row.attempts >= SIGN_IN_ADMISSIONS <=> row.lockedUntil # None
  /\ row.lockedUntil # None => row.lockedUntil <= at + SIGN_IN_LOCK

LEMMA CountedFresh ==
  ASSUME NEW row \in Row \cup {None}, NEW at \in Nat, row = None \/ fresh(row, at)
  PROVE  /\ counted(row, at).attempts = 1 /\ counted(row, at).windowStartedAt = at
         /\ counted(row, at).lockedUntil = None
BY DEF counted

LEMMA CountedAgain ==
  ASSUME NEW row \in Row, NEW at \in Nat, ~fresh(row, at)
  PROVE  /\ counted(row, at).attempts = row.attempts + 1
         /\ counted(row, at).windowStartedAt = row.windowStartedAt
         /\ row.lockedUntil # None => counted(row, at).lockedUntil = row.lockedUntil
         /\ row.lockedUntil = None /\ row.attempts + 1 >= SIGN_IN_ADMISSIONS
              => counted(row, at).lockedUntil = at + SIGN_IN_LOCK
         /\ row.lockedUntil = None /\ ~(row.attempts + 1 >= SIGN_IN_ADMISSIONS)
              => counted(row, at).lockedUntil = None
<1>1. PICK a \in Nat \ {0}, w \in Nat, u \in Nat \cup {None} :
        row = [attempts |-> a, windowStartedAt |-> w, lockedUntil |-> u]
  BY DEF Row
<1>2. PICK v : v = IF u = None /\ a + 1 >= SIGN_IN_ADMISSIONS THEN at + SIGN_IN_LOCK ELSE u
  OBVIOUS
<1>3. row # None
  BY Policies
<1>4. counted(row, at) = [attempts |-> a + 1, windowStartedAt |-> w, lockedUntil |-> v]
  BY <1>1, <1>2, <1>3 DEF counted
<1> QED
  BY <1>1, <1>2, <1>4

(* The upsert leaves a row locked exactly when its attempts are used.      *)
LEMMA CountedLimited ==
  ASSUME NEW row \in Row \cup {None}, NEW at \in Nat, NEW m \in Nat, at <= m,
         row # None => Limited(row, m)
  PROVE  Limited(counted(row, at), m)
<1>0. SIGN_IN_ADMISSIONS \in Nat /\ SIGN_IN_ADMISSIONS >= 2 /\ SIGN_IN_LOCK \in Nat /\ None \notin Int
  BY Policies
<1>1. CASE row = None \/ fresh(row, at)
  BY <1>0, <1>1, CountedFresh DEF Limited
<1>2. CASE row # None /\ ~fresh(row, at)
  <2>1. /\ row \in Row /\ row.attempts \in Nat /\ Limited(row, m)
        /\ row.lockedUntil # None => row.lockedUntil \in Nat
    BY <1>2 DEF Row
  <2>2. at + SIGN_IN_LOCK # None /\ at + SIGN_IN_LOCK <= m + SIGN_IN_LOCK
    BY <1>0
  <2>3. CASE row.lockedUntil # None
    BY <1>0, <1>2, <2>1, <2>3, CountedAgain DEF Limited
  <2>4. CASE row.lockedUntil = None
    BY <1>0, <1>2, <2>1, <2>2, <2>4, CountedAgain DEF Limited
  <2> QED
    BY <2>3, <2>4
<1> QED
  BY <1>1, <1>2

(* What TypeOK and the invariant say of the times of guesses.              *)
LEMMA GuessTimes ==
  ASSUME TypeOK, GuessedOK
  PROVE  /\ now \in Nat /\ guesses \in Seq(Nat) /\ Len(guesses) \in Nat
         /\ \A i \in 1..Len(guesses) : guesses[i] \in Nat /\ guesses[i] <= now
         /\ failures \in Row \cup {None}
         /\ failures # None =>
              /\ failures.attempts \in Nat /\ failures.windowStartedAt \in Nat
              /\ failures.lockedUntil # None => failures.lockedUntil \in Nat
              /\ Limited(failures, now)
<1>1. now \in Nat /\ guesses \in Seq(Nat) /\ failures \in Row \cup {None}
  BY LimitsAssumption DEF TypeOK
<1>2. \A i \in 1..Len(guesses) : guesses[i] <= now
  BY DEF GuessedOK, Past
<1>3. failures # None => Limited(failures, now)
  BY DEF TypeOK, Limited
<1> QED
  BY <1>1, <1>2, <1>3, LenProperties DEF Row

(* Numbers that are a window behind one that is at most a wait behind.     *)
LEMMA Behind ==
  ASSUME NEW x \in Int, NEW l \in Int, NEW v \in Int, NEW g \in Int, NEW m \in Int, NEW at \in Int,
         x <= l + g, l <= at - v, at <= m
  PROVE  x + v <= m + g
OBVIOUS

(* When a window is over, fewer sign-ins are recent than a window admits:  *)
(* a full one was locked, and its lock is over too.                        *)
LEMMA Expired ==
  ASSUME TypeOK, GuessedOK, failures # None, NEW at \in Nat, at <= now, fresh(failures, at)
  PROVE  \E b \in 0..SIGN_IN_ADMISSIONS - 1 :
           Old(guesses, Len(guesses) - b, SIGN_IN_WINDOW, now)
<1>1. /\ now \in Nat /\ guesses \in Seq(Nat) /\ Len(guesses) \in Nat
      /\ \A i \in 1..Len(guesses) : guesses[i] \in Nat /\ guesses[i] <= now
      /\ failures.attempts \in Nat /\ failures.windowStartedAt \in Nat
      /\ failures.lockedUntil # None => failures.lockedUntil \in Nat
      /\ Limited(failures, now)
  BY GuessTimes
<1>2. /\ SIGN_IN_ADMISSIONS \in Nat \ {0} /\ SIGN_IN_WINDOW \in Nat /\ SIGN_IN_LOCK \in Nat
      /\ SIGN_IN_LOCK >= SIGN_IN_WINDOW /\ Lag \in Nat
  BY Policies
<1>3. PICK a \in 0..SIGN_IN_ADMISSIONS :
        /\ a <= failures.attempts
        /\ \A i \in 1..Len(guesses) :
             i <= Len(guesses) - a => guesses[i] <= failures.windowStartedAt + Lag
  BY DEF GuessedOK, Guessed
<1>4. failures.windowStartedAt <= at - SIGN_IN_WINDOW
  BY DEF fresh
<1>5. CASE a <= SIGN_IN_ADMISSIONS - 1
  <2>1. ASSUME NEW i \in 1..Len(guesses), i <= Len(guesses) - a
        PROVE  guesses[i] + SIGN_IN_WINDOW <= now + Lag
    <3>1. guesses[i] <= failures.windowStartedAt + Lag
      BY <1>3, <2>1
    <3>2. guesses[i] \in Nat
      BY <1>1
    <3> QED
      BY <1>1, <1>2, <1>4, <3>1, <3>2, Behind
  <2>2. Old(guesses, Len(guesses) - a, SIGN_IN_WINDOW, now)
    BY <2>1 DEF Old
  <2>3. a \in 0..SIGN_IN_ADMISSIONS - 1
    BY <1>2, <1>3, <1>5
  <2> QED
    BY <2>2, <2>3
<1>6. CASE a = SIGN_IN_ADMISSIONS
  <2>1. failures.attempts >= SIGN_IN_ADMISSIONS
    BY <1>3, <1>6
  <2>2. failures.lockedUntil \in Nat /\ failures.lockedUntil # None /\ failures.lockedUntil <= at
    BY <1>1, <2>1 DEF fresh, Limited
  <2>3. ASSUME NEW i \in 1..Len(guesses)
        PROVE  guesses[i] + SIGN_IN_WINDOW <= now + Lag
    <3>1. guesses[i] + SIGN_IN_LOCK <= failures.lockedUntil + Lag
      BY <2>2 DEF GuessedOK, Guessed
    <3>2. guesses[i] \in Nat
      BY <1>1
    <3>3. \A x, l, v, u, g, m \in Int :
            x + u <= l + g /\ l <= at /\ at <= m /\ u >= v => x + v <= m + g
      OBVIOUS
    <3>4. /\ now \in Int /\ Lag \in Int /\ SIGN_IN_LOCK \in Int /\ SIGN_IN_WINDOW \in Int
          /\ SIGN_IN_LOCK >= SIGN_IN_WINDOW /\ failures.lockedUntil \in Int
          /\ guesses[i] \in Int /\ at \in Int /\ at <= now
      BY <1>1, <1>2, <2>2, <3>2
    <3> QED
      BY <2>2, <3>1, <3>3, <3>4
  <2>4. Old(guesses, Len(guesses) - 0, SIGN_IN_WINDOW, now)
    BY <2>3 DEF Old
  <2>5. 0 \in 0..SIGN_IN_ADMISSIONS - 1
    BY <1>2
  <2> QED
    BY <2>4, <2>5
<1> QED
  BY <1>2, <1>3, <1>5, <1>6

(* Nothing but time passes, and perhaps the row of a window that is over.  *)
LEMMA GuessedStays ==
  ASSUME TypeOK, GuessedOK, now' \in Nat, now <= now', guesses' = guesses,
         \/ failures' = failures
         \/ /\ failures # None /\ failures' = None
            /\ \E at \in Nat : at <= now /\ fresh(failures, at)
  PROVE  GuessedOK'
<1>1. now \in Nat /\ guesses \in Seq(Nat) /\ Len(guesses) \in Nat
  BY GuessTimes
<1>2. /\ Past(guesses, now')
      /\ \A k \in Int : Old(guesses, k, SIGN_IN_WINDOW, now) => Old(guesses, k, SIGN_IN_WINDOW, now')
  BY <1>1, Later, Policies DEF GuessedOK
<1>3. SIGN_IN_ADMISSIONS \in Nat
  BY Policies
<1>4. CASE failures' = failures
  <2>1. CASE failures = None
    BY <1>1, <1>2, <1>3, <1>4, <2>1 DEF GuessedOK, Guessed
  <2>2. CASE failures # None
    <3>1. PICK a \in 0..SIGN_IN_ADMISSIONS, b \in 0..SIGN_IN_ADMISSIONS - 1 :
            /\ a <= failures.attempts
            /\ Old(guesses, Len(guesses) - a - b, SIGN_IN_WINDOW, now)
            /\ \A i \in 1..Len(guesses) :
                 i <= Len(guesses) - a => guesses[i] <= failures.windowStartedAt + Lag
      BY <2>2 DEF GuessedOK, Guessed
    <3>2. Len(guesses) - a - b \in Int
      BY <1>1, <1>3
    <3>3. Old(guesses, Len(guesses) - a - b, SIGN_IN_WINDOW, now')
      BY <1>2, <3>1, <3>2
    <3> QED
      BY <1>2, <1>4, <2>2, <3>1, <3>3 DEF GuessedOK, Guessed
  <2> QED
    BY <2>1, <2>2
<1>5. CASE failures # None /\ failures' = None /\ \E at \in Nat : at <= now /\ fresh(failures, at)
  <2>1. PICK b \in 0..SIGN_IN_ADMISSIONS - 1 : Old(guesses, Len(guesses) - b, SIGN_IN_WINDOW, now)
    BY <1>5, Expired
  <2>2. Len(guesses) - b \in Int
    BY <1>1, <1>3
  <2>3. Old(guesses, Len(guesses) - b, SIGN_IN_WINDOW, now')
    BY <1>2, <2>1, <2>2
  <2> QED
    BY <1>2, <1>5, <2>3 DEF GuessedOK, Guessed
<1> QED
  BY <1>4, <1>5

(* An upsert of admit, whose statement may have waited; the sign-in is     *)
(* admitted only within the limit.                                         *)
LEMMA GuessedCount ==
  ASSUME TypeOK, GuessedOK, NEW at \in Nat, at <= now, now <= at + Lag, now' = now,
         failures' = counted(failures, at),
         \/ guesses' = guesses
         \/ admitted(failures'.attempts) /\ Appended(guesses', guesses, now)
  PROVE  GuessedOK'
<1>1. /\ now \in Nat /\ guesses \in Seq(Nat) /\ Len(guesses) \in Nat
      /\ \A i \in 1..Len(guesses) : guesses[i] \in Nat /\ guesses[i] <= now
  BY GuessTimes
<1>2. /\ failures \in Row \cup {None}
      /\ failures # None => /\ failures.attempts \in Nat
                            /\ failures.lockedUntil # None => failures.lockedUntil \in Nat
                            /\ Limited(failures, now)
  BY GuessTimes
<1>3. /\ SIGN_IN_ADMISSIONS \in Nat \ {0} /\ SIGN_IN_ADMISSIONS >= 2 /\ SIGN_IN_WINDOW \in Nat
      /\ SIGN_IN_LOCK \in Nat /\ Lag \in Nat
  BY Policies
<1>4. /\ failures' \in Row /\ failures' # None /\ failures'.attempts \in Nat
      /\ failures'.windowStartedAt \in Nat
  <2>1. failures' \in Row
    BY <1>2, Counting
  <2> QED
    BY <2>1, Policies DEF Row
(* One more attempt is left for the sign-in than guesses are counted for.  *)
<1>5. PICK a \in 0..SIGN_IN_ADMISSIONS, b \in 0..SIGN_IN_ADMISSIONS - 1 :
        /\ a + 1 <= failures'.attempts
        /\ Old(guesses, Len(guesses) - a - b, SIGN_IN_WINDOW, now)
        /\ \A i \in 1..Len(guesses) :
             i <= Len(guesses) - a => guesses[i] <= failures'.windowStartedAt + Lag
  <2>1. CASE failures = None \/ fresh(failures, at)
    <3>1. PICK b \in 0..SIGN_IN_ADMISSIONS - 1 : Old(guesses, Len(guesses) - b, SIGN_IN_WINDOW, now)
      <4>1. CASE failures = None
        BY <4>1 DEF GuessedOK, Guessed
      <4>2. CASE failures # None
        BY <2>1, <4>2, Expired
      <4> QED
        BY <4>1, <4>2
    <3>2. failures'.attempts = 1 /\ failures'.windowStartedAt = at
      BY <1>2, <2>1, CountedFresh
    <3>3. Len(guesses) - 0 - b = Len(guesses) - b /\ 0 \in 0..SIGN_IN_ADMISSIONS /\ 0 + 1 <= 1
      BY <1>1, <1>3
    <3>4. \A i \in 1..Len(guesses) : guesses[i] <= at + Lag
      BY <1>1, <1>3
    <3> QED
      BY <3>1, <3>2, <3>3, <3>4
  <2>2. CASE failures # None /\ ~fresh(failures, at)
    <3>1. PICK a \in 0..SIGN_IN_ADMISSIONS, b \in 0..SIGN_IN_ADMISSIONS - 1 :
            /\ a <= failures.attempts
            /\ Old(guesses, Len(guesses) - a - b, SIGN_IN_WINDOW, now)
            /\ \A i \in 1..Len(guesses) :
                 i <= Len(guesses) - a => guesses[i] <= failures.windowStartedAt + Lag
      BY <2>2 DEF GuessedOK, Guessed
    <3>2. /\ failures'.attempts = failures.attempts + 1
          /\ failures'.windowStartedAt = failures.windowStartedAt
      BY <1>2, <2>2, CountedAgain
    <3>3. a + 1 <= failures'.attempts
      BY <1>2, <2>2, <3>1, <3>2
    <3> QED
      BY <3>1, <3>2, <3>3
  <2> QED
    BY <2>1, <2>2
(* A lock outlasts what was admitted before it; one the last admission     *)
(* sets outlasts that one too.                                             *)
<1>6. failures'.lockedUntil # None =>
        /\ \A i \in 1..Len(guesses) : guesses[i] + SIGN_IN_LOCK <= failures'.lockedUntil + Lag
        /\ admitted(failures'.attempts) => failures'.lockedUntil \in Int
             /\ now + SIGN_IN_LOCK <= failures'.lockedUntil + Lag
  <2> SUFFICES ASSUME failures'.lockedUntil # None
               PROVE  /\ \A i \in 1..Len(guesses) :
                           guesses[i] + SIGN_IN_LOCK <= failures'.lockedUntil + Lag
                      /\ admitted(failures'.attempts) => failures'.lockedUntil \in Int
                           /\ now + SIGN_IN_LOCK <= failures'.lockedUntil + Lag
    OBVIOUS
  <2>1. failures # None /\ ~fresh(failures, at)
    BY <1>2, CountedFresh
  <2>2. failures'.attempts = failures.attempts + 1
    BY <1>2, <2>1, CountedAgain
  <2>3. CASE failures.lockedUntil # None
    <3>1. failures'.lockedUntil = failures.lockedUntil
      BY <1>2, <2>1, <2>3, CountedAgain
    <3>2. \A i \in 1..Len(guesses) : guesses[i] + SIGN_IN_LOCK <= failures.lockedUntil + Lag
      BY <2>1, <2>3 DEF GuessedOK, Guessed
    <3>3. ~admitted(failures'.attempts)
      BY <1>2, <1>3, <2>1, <2>2, <2>3 DEF Limited, admitted
    <3> QED
      BY <3>1, <3>2, <3>3
  <2>4. CASE failures.lockedUntil = None
    <3>1. failures'.lockedUntil = at + SIGN_IN_LOCK
      BY <1>2, <2>1, <2>4, CountedAgain
    <3>2. \A x \in Int : x <= now => x + SIGN_IN_LOCK <= at + SIGN_IN_LOCK + Lag
      BY <1>1, <1>3
    <3>3. at + SIGN_IN_LOCK \in Int /\ now <= now
      BY <1>1, <1>3
    <3> QED
      BY <1>1, <3>1, <3>2, <3>3
  <2> QED
    BY <2>3, <2>4
<1>7. a \in Nat /\ b \in Nat /\ Len(guesses) - a - b \in Int
  BY <1>1, <1>3, <1>5
<1>8. CASE guesses' = guesses
  <2>1. a <= failures'.attempts
    BY <1>4, <1>5, <1>7
  <2>2. Past(guesses', now) /\ Spread(guesses', 2 * SIGN_IN_ADMISSIONS - 1, SIGN_IN_WINDOW)
    BY <1>8 DEF GuessedOK, Guessed
  <2> QED
    BY <1>4, <1>5, <1>6, <1>8, <2>1, <2>2 DEF GuessedOK, Guessed
<1>9. CASE admitted(failures'.attempts) /\ Appended(guesses', guesses, now)
  <2>1. a + 1 \in 0..SIGN_IN_ADMISSIONS /\ a + 1 <= SIGN_IN_ADMISSIONS
    BY <1>3, <1>4, <1>5, <1>7, <1>9 DEF admitted
  <2>2. Past(guesses, now) /\ Spread(guesses, 2 * SIGN_IN_ADMISSIONS - 1, SIGN_IN_WINDOW)
    BY DEF GuessedOK, Guessed
  <2>3. /\ 2 * SIGN_IN_ADMISSIONS - 1 \in Nat \ {0}
        /\ Len(guesses) + 1 - (2 * SIGN_IN_ADMISSIONS - 1) \in Int
        /\ Len(guesses) + 1 - (2 * SIGN_IN_ADMISSIONS - 1) <= Len(guesses) - a - b
    BY <1>1, <1>3, <1>5, <1>7, <2>1
  <2>4. Old(guesses, Len(guesses) + 1 - (2 * SIGN_IN_ADMISSIONS - 1), SIGN_IN_WINDOW, now)
    BY <1>1, <1>3, <1>5, <1>7, <2>3, Later
  <2>5. Spread(guesses', 2 * SIGN_IN_ADMISSIONS - 1, SIGN_IN_WINDOW) /\ Past(guesses', now)
    BY <1>1, <1>3, <1>9, <2>2, <2>3, <2>4, Continued
  <2>6. Len(guesses') \in Nat /\ Old(guesses', Len(guesses') - (a + 1) - b, SIGN_IN_WINDOW, now)
    <3>1. Len(guesses) - a - b = Len(guesses) - (a + b) /\ a + b \in Nat
      BY <1>1, <1>7
    <3>2. Len(guesses') \in Nat
          /\ Old(guesses', Len(guesses') - ((a + b) + 1), SIGN_IN_WINDOW, now)
      BY <1>1, <1>3, <1>5, <1>9, <3>1, Continued
    <3>3. Len(guesses') - (a + 1) - b = Len(guesses') - ((a + b) + 1)
      BY <1>7, <3>2
    <3> QED
      BY <3>2, <3>3
  <2>7. \A i \in 1..Len(guesses') :
          i <= Len(guesses') - (a + 1) => guesses'[i] <= failures'.windowStartedAt + Lag
    <3>1. failures'.windowStartedAt + Lag \in Int
      BY <1>3, <1>4
    <3> QED
      BY <1>1, <1>3, <1>5, <1>7, <1>9, <3>1, Continued
  <2>8. ASSUME failures'.lockedUntil # None
        PROVE  \A i \in 1..Len(guesses') : guesses'[i] + SIGN_IN_LOCK <= failures'.lockedUntil + Lag
    <3> DEFINE m == failures'.lockedUntil + Lag - SIGN_IN_LOCK
    <3>1. failures'.lockedUntil \in Int /\ now + SIGN_IN_LOCK <= failures'.lockedUntil + Lag
      BY <1>6, <1>9, <2>8
    <3>2. m \in Int /\ now <= m
      BY <1>1, <1>3, <3>1
    <3> DEFINE lasts(x) == x + SIGN_IN_LOCK <= failures'.lockedUntil + Lag <=> x <= m
    <3>3. \A x \in Int : lasts(x)
      BY <1>3, <3>1
    <3>4. (\A i \in 1..Len(guesses) : guesses[i] + SIGN_IN_LOCK <= failures'.lockedUntil + Lag)
          /\ \A i \in 1..Len(guesses) : guesses[i] \in Int
      BY <1>1, <1>6, <2>8
    <3>5. \A i \in 1..Len(guesses) : guesses[i] <= m
      <4> HIDE DEF m
      <4> QED
        BY <3>3, <3>4
    <3>6. \A i \in 1..Len(guesses') : guesses'[i] <= m
      <4> HIDE DEF m
      <4> QED
        BY <1>1, <1>3, <1>9, <3>2, <3>5, Continued
    <3>7. \A i \in 1..Len(guesses') : guesses'[i] \in Nat
      BY <1>9, LenProperties DEF Appended
    <3> HIDE DEF m
    <3> QED
      BY <3>6, <3>7, <3>3
  <2> QED
    BY <1>4, <2>1, <1>5, <2>5, <2>6, <2>7, <2>8 DEF GuessedOK, Guessed
<1> QED
  BY <1>8, <1>9

-----------------------------------------------------------------------------
(* THE STEPS.                                                              *)

(* What the steps give of the types.                                       *)
LEMMA Typed ==
  ASSUME ClockRead', now' \in 0..MaxTime, bucket' \in Bucket \cup {None},
         admissions' \in 0..SIGN_IN_CLEANUP_EVERY - 1,
         guesses' \in Seq(Nat), served' \in Seq(Nat), counts' \in Seq(Count),
         failures' # None => Limited(failures', now')
  PROVE  TypeOK'
BY DEF TypeOK, Limited, ClockRead

(* A call whose step is given the time does not wait yet.                  *)
LEMMA WaitsMoved ==
  ASSUME TypeOK, Waits, now' = now, NEW c \in Calls, NEW next \in Call,
         next.step \notin {"admit", "sweep", "guard"} \/ next.at = now,
         call' = [call EXCEPT ![c] = next]
  PROVE  Waits'
<1>1. call \in [Calls -> Call] /\ now \in Nat /\ Lag \in Nat
  BY LimitsAssumption DEF TypeOK
<1> SUFFICES ASSUME NEW d \in Calls, waiting(d)'
             PROVE  now' <= call'[d].at + Lag
  BY DEF Waits
<1>2. CASE d = c
  <2>1. call'[d] = next
    BY <1>1, <1>2
  <2>2. next.at = now
    BY <2>1 DEF waiting
  <2> QED
    BY <1>1, <2>1, <2>2
<1>3. CASE d # c
  <2>1. call'[d] = call[d]
    BY <1>1, <1>3
  <2> QED
    BY <2>1 DEF Waits, waiting
<1> QED
  BY <1>2, <1>3

LEMMA Beginning ==
  ASSUME Init
  PROVE  IInv
<1>1. ClockRead
  BY Start
<1>2. TypeOK
  <2>1. /\ guesses \in Seq(Nat) /\ served \in Seq(Nat) /\ counts \in Seq(Count)
        /\ failures = None /\ bucket = None
        /\ now \in 0..MaxTime /\ admissions \in 0..SIGN_IN_CLEANUP_EVERY - 1
    BY LimitsAssumption, EmptySeq DEF Init
  <2> QED
    BY <1>1, <2>1 DEF TypeOK, ClockRead
<1>3. Waits
  BY DEF Init, Waits, waiting, Idle
<1>4. GuessedOK /\ ServedOK
  <2>1. guesses = <<>> /\ served = <<>> /\ failures = None /\ bucket = None
    BY DEF Init
  <2>2. \A k, w, n \in Int : Past(<<>>, now) /\ Old(<<>>, k, w, now) /\ Spread(<<>>, n, w)
    BY DEF Past, Old, Spread
  <2>3. /\ LIMIT \in Int /\ WINDOW \in Int /\ 2 * SIGN_IN_ADMISSIONS - 1 \in Int
        /\ SIGN_IN_WINDOW \in Int /\ 0 \in 0..SIGN_IN_ADMISSIONS - 1 /\ Len(<<>>) - 0 \in Int
        /\ Len(<<>>) \in Int
    BY Policies
  <2> QED
    BY <2>1, <2>2, <2>3 DEF GuessedOK, Guessed, ServedOK, Served
<1> QED
  BY <1>1, <1>2, <1>3, <1>4 DEF IInv

(* What an upsert of the guard leaves of the counts.                       *)
LEMMA Counted ==
  ASSUME counts \in Seq(Count), NEW c \in Calls, call[c].at \in Nat, Guard(c) \/ GuardFails(c)
  PROVE  /\ counts' \in Seq(Count)
         /\ \/ UNCHANGED <<bucket, counts>>
            \/ /\ bucket' = hit(bucket, call[c].at)
               /\ Len(counts') = Len(counts) + 1
               /\ \A k \in 1..Len(counts) : counts'[k] = counts[k]
               /\ counts'[Len(counts')].at = call[c].at
               /\ counts'[Len(counts')].refused => bucket'.count > LIMIT
<1>1. ASSUME NEW b \in BOOLEAN, counting(c, b), b => bucket'.count > LIMIT
      PROVE  /\ counts' \in Seq(Count)
             /\ bucket' = hit(bucket, call[c].at)
             /\ Len(counts') = Len(counts) + 1
             /\ \A k \in 1..Len(counts) : counts'[k] = counts[k]
             /\ counts'[Len(counts')].at = call[c].at
             /\ counts'[Len(counts')].refused => bucket'.count > LIMIT
  <2>1. PICK e : e = [at |-> call[c].at, refused |-> b]
    OBVIOUS
  <2>2. e \in Count /\ e.at = call[c].at /\ e.refused = b
    BY <2>1 DEF Count
  <2>3. counts' = Append(counts, e) /\ bucket' = hit(bucket, call[c].at)
    BY <1>1, <2>1 DEF counting
  <2>4. /\ Append(counts, e) \in Seq(Count) /\ Len(Append(counts, e)) = Len(counts) + 1
        /\ \A k \in 1..Len(counts) : Append(counts, e)[k] = counts[k]
        /\ Append(counts, e)[Len(counts) + 1] = e
    BY <2>2, AppendProperties
  <2> QED
    BY <1>1, <2>2, <2>3, <2>4
<1>2. \/ UNCHANGED <<bucket, counts>>
      \/ \E b \in BOOLEAN : counting(c, b) /\ (b => bucket'.count > LIMIT)
  BY DEF Guard, GuardFails
<1> QED
  BY <1>1, <1>2

(* Every step of the specification keeps the invariant.                    *)
LEMMA Keeping ==
  ASSUME IInv, Next
  PROVE  IInv'
<1>0. /\ TypeOK /\ ClockRead /\ Waits /\ GuessedOK /\ ServedOK
      /\ now \in Nat /\ now \in 0..MaxTime /\ now <= now
      /\ guesses \in Seq(Nat) /\ served \in Seq(Nat) /\ Lag \in Nat /\ MaxTime \in Nat
      /\ SIGN_IN_WINDOW \in Nat /\ WINDOW \in Nat
  BY LimitsAssumption DEF IInv, TypeOK
<1>1. /\ failures \in Row \cup {None} /\ bucket \in Bucket \cup {None}
      /\ admissions \in 0..SIGN_IN_CLEANUP_EVERY - 1 /\ counts \in Seq(Count)
      /\ failures # None => Limited(failures, now)
  BY <1>0 DEF TypeOK, Limited
<1>2. \A c \in Calls : /\ call[c] \in Call /\ call[c].at \in Nat /\ call[c].at <= now
                       /\ call[c].step \in {"admit", "sweep", "guard"} => now <= call[c].at + Lag
  BY <1>0 DEF ClockRead, Call, Waits, waiting
<1>3. ClockRead'
  BY <1>0, Step
<1>4. Idle \in Call /\ Idle.step = "idle" /\ [Idle EXCEPT !.step = "check"] \in Call
      /\ [Idle EXCEPT !.step = "check"].step = "check"
  BY DEF Idle, Call, Steps
<1>5. ASSUME now' = now, bucket' = bucket, served' = served
      PROVE  ServedOK'
  BY <1>0, <1>5, ServedStays
<1>6. ASSUME now' = now, failures' = failures, guesses' = guesses
      PROVE  GuessedOK'
  BY <1>0, <1>6, GuessedStays
<1>7. ASSUME NEW c \in Calls, SignIn(c) \/ Arrive(c)
      PROVE  IInv'
  <2>1. PICK next \in Call : next.at = now /\ call' = [call EXCEPT ![c] = next]
    BY <1>0, <1>7 DEF SignIn, Arrive, Goto, Steps, Call
  <2>2. now' = now /\ UNCHANGED <<failures, bucket, admissions, guesses, served, counts>>
    BY <1>7 DEF SignIn, Arrive
  <2>3. Waits'
    BY <1>0, <2>1, <2>2, WaitsMoved
  <2>4. TypeOK'
    BY <1>0, <1>1, <1>3, <2>2, Typed
  <2> QED
    BY <1>3, <1>5, <1>6, <2>2, <2>3, <2>4 DEF IInv
<1>8. ASSUME NEW c \in Calls, Admit(c)
      PROVE  IInv'
  <2> DEFINE row == counted(failures, call[c].at)
             next == IF (admissions + 1) % SIGN_IN_CLEANUP_EVERY = 0
                     THEN [step |-> "sweep", at |-> now, attempts |-> row.attempts]
                     ELSE IF admitted(row.attempts)
                     THEN [Idle EXCEPT !.step = "check"] ELSE Idle
  <2>1. /\ call[c].step = "admit" /\ now' = now /\ failures' = row /\ bucket' = bucket
        /\ served' = served /\ counts' = counts /\ call' = [call EXCEPT ![c] = next]
        /\ admissions' = (admissions + 1) % SIGN_IN_CLEANUP_EVERY
        /\ guesses' = IF admitted(row.attempts) THEN remembered(guesses, SIGN_IN_WINDOW) ELSE guesses
    BY <1>8 DEF Admit
  <2>2. row \in Row /\ Limited(row, now) /\ row.attempts \in Nat
    <3>1. row \in Row
      BY <1>1, <1>2, Counting
    <3>2. Limited(row, now)
      BY <1>0, <1>1, <1>2, CountedLimited
    <3> QED
      BY <3>1, <3>2 DEF Row
  <2> HIDE DEF row
  <2>3. next \in Call /\ (next.step \notin {"admit", "sweep", "guard"} \/ next.at = now)
    BY <1>0, <1>4, <2>2 DEF Call, Steps
  <2> HIDE DEF next
  <2>4. Waits'
    BY <1>0, <2>1, <2>3, WaitsMoved
  <2>5. guesses' = guesses \/ (admitted(row.attempts) /\ Appended(guesses', guesses, now))
    BY <1>0, <2>1, Remembering
  <2>6. guesses' \in Seq(Nat)
    BY <1>0, <2>5 DEF Appended
  <2>7. admissions' \in 0..SIGN_IN_CLEANUP_EVERY - 1
    BY <1>1, <2>1, Policies
  <2>8. TypeOK'
    BY <1>0, <1>1, <1>3, <2>1, <2>2, <2>6, <2>7, Typed
  <2>9. GuessedOK'
    BY <1>0, <1>2, <2>1, <2>5, GuessedCount DEF row
  <2> QED
    BY <1>3, <1>5, <2>1, <2>4, <2>8, <2>9 DEF IInv
<1>9. ASSUME NEW c \in Calls, AdmitFails(c)
      PROVE  IInv'
  <2> DEFINE row == counted(failures, call[c].at)
  <2>1. /\ call[c].step = "admit" /\ now' = now /\ failures' \in {failures, row}
        /\ call' = [call EXCEPT ![c] = Idle]
        /\ UNCHANGED <<bucket, admissions, guesses, served, counts>>
    BY <1>9 DEF AdmitFails, Over
  <2>2. row \in Row /\ Limited(row, now)
    BY <1>0, <1>1, <1>2, Counting, CountedLimited
  <2>3. Waits'
    BY <1>0, <1>4, <2>1, WaitsMoved
  <2>4. TypeOK'
    <3> HIDE DEF row
    <3> QED
      BY <1>0, <1>1, <1>3, <2>1, <2>2, Typed
  <2>5. GuessedOK'
    BY <1>0, <1>2, <1>6, <2>1, GuessedCount
  <2> QED
    BY <1>3, <1>5, <2>1, <2>3, <2>4, <2>5 DEF IInv
<1>10. ASSUME NEW c \in Calls, CleanUp(c)
       PROVE  IInv'
  <2> DEFINE next == IF admitted(call[c].attempts) THEN [Idle EXCEPT !.step = "check"] ELSE Idle
  <2>1. /\ now' = now /\ call' = [call EXCEPT ![c] = next]
        /\ UNCHANGED <<bucket, admissions, guesses, served, counts>>
        /\ \/ failures' = failures
           \/ failures # None /\ swept(failures, call[c].at) /\ failures' = None
    BY <1>0, <1>10 DEF CleanUp, ClockRead
  <2>2. Waits'
    <3>1. next \in Call /\ next.step \notin {"admit", "sweep", "guard"}
      BY <1>4
    <3> HIDE DEF next
    <3> QED
      BY <1>0, <2>1, <3>1, WaitsMoved
  <2>3. TypeOK'
    BY <1>0, <1>1, <1>3, <2>1, Typed
  <2>4. swept(failures, call[c].at) /\ failures # None => fresh(failures, call[c].at)
    BY <1>1, <1>2, Policies DEF swept, fresh, Row
  <2>5. GuessedOK'
    BY <1>0, <1>2, <2>1, <2>4, GuessedStays
  <2> QED
    BY <1>3, <1>5, <2>1, <2>2, <2>3, <2>5 DEF IInv
<1>11. ASSUME NEW c \in Calls, NEW right \in BOOLEAN, Check(c, right)
       PROVE  IInv'
  <2>1. UNCHANGED <<now, failures, bucket, admissions, guesses, served, counts>>
    BY <1>11 DEF Check
  <2>2. PICK next \in Call : next.step \notin {"admit", "sweep", "guard"}
                             /\ call' = [call EXCEPT ![c] = next]
    <3>1. CASE right
      <4>1. call' = [call EXCEPT ![c] = [step |-> "succeeded", at |-> call[c].at,
                                         attempts |-> call[c].attempts]]
        BY <1>0, <1>11, <3>1 DEF Check, Call, ClockRead
      <4> QED
        BY <1>2, <4>1 DEF Call, Steps
    <3>2. CASE ~right
      BY <1>4, <1>11, <3>2 DEF Check, Over
    <3> QED
      BY <3>1, <3>2
  <2>3. Waits'
    BY <1>0, <2>1, <2>2, WaitsMoved
  <2>4. TypeOK'
    BY <1>0, <1>1, <1>3, <2>1, Typed
  <2> QED
    BY <1>3, <1>5, <1>6, <2>1, <2>3, <2>4 DEF IInv
<1>12. ASSUME NEW c \in Calls, Reset(c)
       PROVE  IInv'
  <2>1. /\ UNCHANGED <<now, bucket, admissions, served, counts>> /\ call' = [call EXCEPT ![c] = Idle]
        /\ \/ failures' = None /\ guesses' = <<>>
           \/ UNCHANGED <<failures, guesses>>
    BY <1>12 DEF Reset, Over
  <2>2. Waits'
    BY <1>0, <1>4, <2>1, WaitsMoved
  <2>3. <<>> \in Seq(Nat) /\ Len(<<>>) = 0
    BY EmptySeq
  <2>4. TypeOK'
    BY <1>0, <1>1, <1>3, <2>1, <2>3, Typed
  <2>5. CASE failures' = None /\ guesses' = <<>>
    <3>1. 0 \in 0..SIGN_IN_ADMISSIONS - 1
      BY Policies
    <3>2. GuessedOK'
      BY <2>3, <2>5, <3>1 DEF GuessedOK, Guessed, Past, Old, Spread
    <3> QED
      BY <1>3, <1>5, <2>1, <2>2, <2>4, <3>2 DEF IInv
  <2>6. CASE UNCHANGED <<failures, guesses>>
    BY <1>3, <1>5, <1>6, <2>1, <2>2, <2>4, <2>6 DEF IInv
  <2> QED
    BY <2>1, <2>5, <2>6
<1>13. ASSUME NEW c \in Calls, Guard(c) \/ GuardFails(c)
       PROVE  IInv'
  <2> DEFINE row == hit(bucket, call[c].at)
  <2>1. /\ call[c].step = "guard" /\ call' = [call EXCEPT ![c] = Idle]
        /\ UNCHANGED <<now, failures, admissions, guesses>>
        /\ bucket' \in {bucket, row}
        /\ \/ served' = served
           \/ bucket' = row /\ row.count <= LIMIT /\ served' = remembered(served, WINDOW)
    BY <1>13 DEF Guard, GuardFails, counting, Over
  <2>2. served' = served \/ (bucket' = row /\ row.count <= LIMIT /\ Appended(served', served, now))
    BY <1>0, <2>1, Remembering
  <2>3. served' \in Seq(Nat) /\ counts' \in Seq(Count)
    <3>1. served' \in Seq(Nat)
      BY <1>0, <2>2 DEF Appended
    <3>2. call[c].at \in Nat
      BY <1>2
    <3>3. counts' \in Seq(Count)
      BY <1>1, <1>13, <3>2, Counted
    <3> QED
      BY <3>1, <3>3
  <2>4. bucket' \in Bucket \cup {None}
    BY <1>1, <1>2, <2>1, Hitting
  <2>5. Waits'
    BY <1>0, <1>4, <2>1, WaitsMoved
  <2>6. TypeOK'
    BY <1>0, <1>1, <1>3, <2>1, <2>3, <2>4, Typed
  <2>7. ServedOK'
    <3>1. CASE bucket' = row
      BY <1>0, <1>2, <2>1, <2>2, <3>1, ServedHit
    <3>2. CASE bucket' # row
      BY <1>5, <2>1, <3>2
    <3> QED
      BY <3>1, <3>2
  <2> QED
    BY <1>3, <1>6, <2>1, <2>5, <2>6, <2>7 DEF IInv
<1>14. CASE Prune
  <2>1. /\ bucket # None /\ bucket.lastRequest < now - PRUNE /\ bucket' = None
        /\ UNCHANGED <<now, failures, call, admissions, guesses, served, counts>>
    BY <1>14 DEF Prune
  <2>2. Waits'
    BY <1>0, <2>1 DEF Waits, waiting
  <2>3. TypeOK'
    BY <1>0, <1>1, <1>3, <2>1, Typed
  <2>4. ServedOK'
    BY <1>0, <2>1, ServedStays
  <2> QED
    BY <1>3, <1>6, <2>1, <2>2, <2>3, <2>4 DEF IInv
<1>15. CASE Tick
  <2>1. /\ now' = now + 1 /\ now' \in 0..MaxTime /\ now' \in Nat /\ now <= now'
        /\ UNCHANGED <<failures, bucket, call, admissions, guesses, served, counts>>
    BY <1>0, <1>15 DEF Tick
  <2>2. Waits'
    <3> SUFFICES ASSUME NEW c \in Calls, waiting(c)'
                 PROVE  now' <= call'[c].at + Lag
      BY DEF Waits
    <3>1. waiting(c) /\ call'[c] = call[c]
      BY <2>1 DEF waiting
    <3>2. now - call[c].at < Lag
      BY <1>15, <3>1 DEF Tick
    <3>3. call[c].at \in Nat
      BY <1>2
    <3>4. \A n, a, l \in Int : n - a < l => n + 1 <= a + l
      OBVIOUS
    <3>5. now + 1 <= call[c].at + Lag
      BY <1>0, <3>2, <3>3, <3>4
    <3> QED
      BY <2>1, <3>1, <3>5
  <2>3. failures # None => Limited(failures, now')
    <3>1. failures # None /\ failures.lockedUntil # None => failures.lockedUntil \in Nat
      BY <1>1 DEF Row
    <3> QED
      BY <1>0, <1>1, <2>1, <3>1, Policies DEF Limited
  <2>4. TypeOK'
    BY <1>0, <1>1, <1>3, <2>1, <2>3, Typed
  <2>5. GuessedOK' /\ ServedOK'
    BY <1>0, <2>1, GuessedStays, ServedStays
  <2> QED
    BY <1>3, <2>2, <2>4, <2>5 DEF IInv
<1> QED
  BY <1>7, <1>8, <1>9, <1>10, <1>11, <1>12, <1>13, <1>14, <1>15 DEF Next

(* The invariant holds in every state.                                     *)
LEMMA Invariance == Spec => []IInv
<1>1. ASSUME IInv, [Next]_vars
      PROVE  IInv'
  <2>1. CASE Next
    BY <1>1, <2>1, Keeping
  <2>2. CASE UNCHANGED vars
    BY <1>1, <2>2 DEF vars, IInv, TypeOK, ClockRead, Waits, waiting, GuessedOK, Guessed,
                      ServedOK, Served, Old, Past, Spread
  <2> QED
    BY <1>1, <2>1, <2>2
<1> QED
  BY <1>1, Beginning, PTL DEF Spec

(* Types; a key whose admissions are used is locked, and no lock lasts     *)
(* longer than its time.                                                   *)
THEOREM Typing == Spec => []TypeOK
<1>1. IInv => TypeOK
  BY DEF IInv
<1> QED
  BY <1>1, Invariance, PTL

(* No stretch of time a window long, but for a wait, lets through more     *)
(* guesses than one window after the remains of another, or more calls of  *)
(* a bucket than its limit.                                                *)
THEOREM LimitsHold == Spec => []AttemptsBounded
<1>1. ASSUME IInv
      PROVE  AttemptsBounded
  <2>1. /\ guesses \in Seq(Nat) /\ served \in Seq(Nat) /\ 0..now \subseteq Nat
        /\ Spread(guesses, 2 * SIGN_IN_ADMISSIONS - 1, SIGN_IN_WINDOW)
        /\ Spread(served, LIMIT, WINDOW)
    BY <1>1 DEF IInv, TypeOK, GuessedOK, Guessed, ServedOK, Served
  <2>2. /\ 2 * SIGN_IN_ADMISSIONS - 1 \in Nat \ {0} /\ LIMIT \in Nat \ {0}
        /\ SIGN_IN_WINDOW \in Nat /\ WINDOW \in Nat /\ Lag \in Nat
    BY Policies
  <2>3. GuessesBounded
    BY <2>1, <2>2, Bounding DEF GuessesBounded
  <2>4. ServedBounded
    BY <2>1, <2>2, Bounding DEF ServedBounded
  <2> QED
    BY <2>3, <2>4 DEF AttemptsBounded
<1> QED
  BY <1>1, Invariance, PTL

-----------------------------------------------------------------------------
(* REFUSALS.                                                               *)

(* The count of a bucket is of calls less than a window apart, the last of *)
(* which was given lastRequest.                                            *)
Running ==
  bucket # None =>
    /\ bucket.count <= Len(counts)
    /\ bucket.lastRequest = counts[Len(counts)].at
    /\ run(Len(counts) - bucket.count + 1, Len(counts))

RefusalInv == Running /\ RefusalsEarned

LEMMA Refusing ==
  ASSUME IInv, RefusalInv, NEW c \in Calls, Guard(c) \/ GuardFails(c)
  PROVE  RefusalInv'
<1>1. /\ counts \in Seq(Count) /\ bucket \in Bucket \cup {None} /\ call[c].at \in Nat
      /\ LIMIT \in Nat \ {0} /\ WINDOW \in Nat \ {0} /\ None \notin Bucket
  BY Policies DEF IInv, TypeOK, Call
<1>2. Len(counts) \in Nat /\ DOMAIN counts = 1..Len(counts) /\ \A k \in 1..Len(counts) : counts[k].at \in Nat
  <2>1. /\ Len(counts) \in Nat /\ DOMAIN counts = 1..Len(counts)
        /\ \A k \in 1..Len(counts) : counts[k] \in Count
    BY <1>1, LenProperties
  <2>2. \A x \in Count : x.at \in Nat
    BY DEF Count
  <2> QED
    BY <2>1, <2>2
<1>3. CASE UNCHANGED <<bucket, counts>>
  BY <1>3 DEF RefusalInv, Running, RefusalsEarned, run
<1>4. CASE ~UNCHANGED <<bucket, counts>>
  <2>1. /\ counts' \in Seq(Count)
        /\ bucket' = hit(bucket, call[c].at)
        /\ Len(counts') = Len(counts) + 1
        /\ \A k \in 1..Len(counts) : counts'[k] = counts[k]
        /\ counts'[Len(counts')].at = call[c].at
        /\ counts'[Len(counts')].refused => bucket'.count > LIMIT
    BY <1>1, <1>4, Counted
  <2>2. DOMAIN counts' = 1..(Len(counts) + 1)
    BY <2>1, LenProperties
  <2>3. /\ bucket' \in Bucket /\ bucket' # None /\ bucket'.lastRequest = call[c].at
        /\ bucket'.count \in Nat \ {0}
    <3>1. bucket' \in Bucket /\ bucket'.lastRequest = call[c].at
      BY <1>1, <2>1, Hitting
    <3>2. \A b \in Bucket : b.count \in Nat \ {0}
      BY DEF Bucket
    <3> QED
      BY <1>1, <3>1, <3>2
  <2>4. bucket'.count <= Len(counts) + 1
        /\ \A k \in Len(counts) + 1 - bucket'.count + 2..Len(counts) + 1 :
             counts'[k].at < counts'[k - 1].at + WINDOW
    <3>1. CASE bucket = None \/ bucket.lastRequest <= call[c].at - WINDOW
      <4>1. bucket'.count = 1
        BY <1>1, <2>1, <3>1, Hitting
      <4> QED
        BY <1>2, <4>1
    <3>2. CASE ~(bucket = None \/ bucket.lastRequest <= call[c].at - WINDOW)
      <4>1. /\ bucket'.count = bucket.count + 1 /\ bucket.count \in Nat \ {0}
            /\ bucket.lastRequest \in Nat /\ bucket # None
        BY <1>1, <2>1, <3>2, Hitting DEF Bucket
      <4>2. /\ bucket.count <= Len(counts) /\ bucket.lastRequest = counts[Len(counts)].at
            /\ \A k \in Len(counts) - bucket.count + 1 + 1..Len(counts) :
                 counts[k].at < counts[k - 1].at + WINDOW
        BY <4>1 DEF RefusalInv, Running, run
      <4>3. ASSUME NEW k \in Len(counts) + 1 - bucket'.count + 2..Len(counts) + 1
            PROVE  counts'[k].at < counts'[k - 1].at + WINDOW
        <5>1. CASE k = Len(counts) + 1
          <6>1. Len(counts) \in 1..Len(counts) /\ k - 1 = Len(counts)
            BY <1>2, <4>1, <4>2, <5>1
          <6>2. counts'[k].at = call[c].at /\ counts'[k - 1].at = bucket.lastRequest
            BY <2>1, <4>2, <5>1, <6>1
          <6>3. \A a, l, w \in Int : ~(l <= a - w) => a < l + w
            OBVIOUS
          <6> QED
            BY <1>1, <3>2, <4>1, <6>2, <6>3
        <5>2. CASE k # Len(counts) + 1
          <6>1. k \in Len(counts) - bucket.count + 1 + 1..Len(counts)
            BY <1>2, <4>1, <4>3, <5>2
          <6>2. k \in 1..Len(counts) /\ k - 1 \in 1..Len(counts)
            BY <1>2, <4>1, <4>2, <6>1
          <6> QED
            BY <2>1, <4>2, <6>1, <6>2
        <5> QED
          BY <5>1, <5>2
      <4> QED
        BY <1>2, <4>1, <4>2, <4>3
    <3> QED
      BY <3>1, <3>2
  <2>5. Running'
    <3>1. \A n, m \in Int : n + 1 - m + 2 = n + 1 - m + 1 + 1
      OBVIOUS
    <3> QED
      BY <1>2, <2>1, <2>3, <2>4, <3>1 DEF Running, run
  <2>6. RefusalsEarned'
    <3> SUFFICES ASSUME NEW j \in 1..(Len(counts) + 1), counts'[j].refused
                 PROVE  /\ j > LIMIT
                        /\ \A k \in j - LIMIT + 1..j : counts'[k].at < counts'[k - 1].at + WINDOW
      BY <2>2 DEF RefusalsEarned, run
    <3>1. CASE j = Len(counts) + 1
      <4>1. bucket'.count > LIMIT
        BY <2>1, <3>1
      <4>2. j > LIMIT
        BY <1>1, <1>2, <2>3, <2>4, <3>1, <4>1
      <4>3. \A k \in j - LIMIT + 1..j : k \in Len(counts) + 1 - bucket'.count + 2..Len(counts) + 1
        BY <1>1, <1>2, <2>3, <3>1, <4>1
      <4> QED
        BY <2>4, <4>2, <4>3
    <3>2. CASE j # Len(counts) + 1
      <4>1. j \in 1..Len(counts) /\ counts[j].refused
        BY <1>2, <2>1, <3>2
      <4>2. /\ j > LIMIT
            /\ \A k \in j - LIMIT + 1..j : counts[k].at < counts[k - 1].at + WINDOW
        BY <1>2, <4>1 DEF RefusalInv, RefusalsEarned, run
      <4>3. \A k \in j - LIMIT + 1..j : k \in 1..Len(counts) /\ k - 1 \in 1..Len(counts)
        BY <1>1, <1>2, <4>1, <4>2
      <4> QED
        BY <2>1, <4>2, <4>3
    <3> QED
      BY <3>1, <3>2
  <2> QED
    BY <2>5, <2>6 DEF RefusalInv
<1> QED
  BY <1>3, <1>4

(* Whoever is refused comes after LIMIT calls of the bucket, all of them   *)
(* and this one less than a window apart, whatever is late, fails or is    *)
(* pruned (api-rate-limit.guard.ts).                                       *)
THEOREM RefusalsAreEarned == Spec => []RefusalsEarned
<1>1. Init => RefusalInv
  BY DEF Init, RefusalInv, Running, RefusalsEarned
<1>2. ASSUME IInv, RefusalInv, [Next]_vars
      PROVE  RefusalInv'
  <2>1. CASE \E c \in Calls : Guard(c) \/ GuardFails(c)
    BY <1>2, <2>1, Refusing
  <2>2. CASE Prune
    BY <1>2, <2>2 DEF Prune, RefusalInv, Running, RefusalsEarned, run
  <2>3. CASE UNCHANGED <<bucket, counts>>
    BY <1>2, <2>3 DEF RefusalInv, Running, RefusalsEarned, run
  <2>4. \/ \E c \in Calls : Guard(c) \/ GuardFails(c)
        \/ Prune \/ UNCHANGED <<bucket, counts>>
    BY <1>2 DEF Next, SignIn, Admit, AdmitFails, CleanUp, Check, Reset, Arrive, Tick, vars
  <2> QED
    BY <2>1, <2>2, <2>3, <2>4
<1>3. RefusalInv => RefusalsEarned
  BY DEF RefusalInv
<1> QED
  BY <1>1, <1>2, <1>3, Invariance, PTL DEF Spec

=============================================================================
