---------------------------- MODULE AttemptLimits ----------------------------
(***************************************************************************)
(* The two counters the API keeps in PostgreSQL against repeated calls:    *)
(* sign-ins and password changes per account key (auth_sign_in_failures),  *)
(* and guarded endpoints per bucket and address (auth_rate_limits).  Each  *)
(* counts in one upsert, with a time the API read before the statement     *)
(* waited for the row; successes, sweeps and another component's pruning   *)
(* delete rows in between.                                                 *)
(***************************************************************************)
EXTENDS Integers, Sequences, FiniteSets

CONSTANTS
  Calls,            \* calls that may be under way at once
  Workloads,        \* [signIn |-> n, api |-> m]: how many calls of each kind
  SIGN_IN_ADMISSIONS, SIGN_IN_WINDOW, SIGN_IN_LOCK, SIGN_IN_CLEANUP_EVERY,
  LIMIT, WINDOW,    \* the policy of one bucket
  PRUNE,            \* age at which the identity library prunes auth_rate_limits
  Lag,              \* bound on the wait between reading the clock and the statement
  MaxTime,          \* bound on the clock
  None

ASSUME LimitsAssumption ==
  /\ {SIGN_IN_ADMISSIONS, SIGN_IN_WINDOW, SIGN_IN_LOCK, SIGN_IN_CLEANUP_EVERY,
      LIMIT, WINDOW, PRUNE} \subseteq Nat \ {0}
  /\ SIGN_IN_ADMISSIONS >= 2
  /\ SIGN_IN_LOCK >= SIGN_IN_WINDOW
  /\ PRUNE >= WINDOW
  /\ Lag \in Nat /\ MaxTime \in Nat
  /\ None \notin Int

VARIABLES
  now,
  failures,    \* the row of one key of auth_sign_in_failures, or None
  bucket,      \* the row of one api| key of auth_rate_limits, or None
  call,        \* call[c]
  admissions,  \* the admissions this process has made, modulo the sweep
  left,        \* calls yet to arrive, of each kind
  guesses,     \* when sign-ins were admitted since a success reset the count
  served,      \* when calls of the bucket were admitted; both forget what is
               \* older than a window
  counts       \* the calls the bucket counted, in that order: the time each was
               \* given, and whether it was refused

vars == <<now, failures, bucket, call, admissions, left, guesses, served, counts>>

Row == [attempts : Nat \ {0}, windowStartedAt : Nat, lockedUntil : Nat \cup {None}]

Bucket == [count : Nat \ {0}, lastRequest : Nat]

Count == [at : Nat, refused : BOOLEAN]

ASSUME NoRowAssumption == None \notin Row \cup Bucket

Steps == {"idle", "admit", "sweep", "check", "succeeded", "guard"}

(* at: the clock the pending statement was given; attempts: what admit     *)
(* returned.                                                               *)
Call == [step : Steps, at : Nat, attempts : Nat]

Idle == [step |-> "idle", at |-> 0, attempts |-> 0]

Init ==
  /\ now = 0 /\ failures = None /\ bucket = None
  /\ call = [c \in Calls |-> Idle]
  /\ admissions = 0
  /\ left \in Workloads
  /\ guesses = <<>> /\ served = <<>> /\ counts = <<>>

Goto(c, step) ==
  call' = [call EXCEPT ![c] = [step |-> step, at |-> now, attempts |-> 0]]

(* One more at this moment; what is older than w is forgotten.             *)
remembered(times, w) ==
  LET gone == Cardinality({i \in DOMAIN times : times[i] <= now - w})
  IN Append(SubSeq(times, gone + 1, Len(times)), now)

Over(c) == call' = [call EXCEPT ![c] = Idle]

-----------------------------------------------------------------------------
(* SIGN-IN: the before hook, the password, the after hook.                 *)

SignIn(c) ==
  /\ call[c] = Idle /\ left.signIn > 0
  /\ left' = [left EXCEPT !.signIn = @ - 1]
  /\ Goto(c, "admit")
  /\ UNCHANGED <<now, failures, bucket, admissions, guesses, served, counts>>

(* A new window starts when the old one has ended and no lock is active.   *)
fresh(row, at) ==
  /\ row.windowStartedAt <= at - SIGN_IN_WINDOW
  /\ row.lockedUntil = None \/ row.lockedUntil <= at

(* Mutant: the attempt that reaches the limit is counted and not locked.   *)
countedLate(row, at) ==
  IF row = None \/ fresh(row, at)
  THEN [attempts |-> 1, windowStartedAt |-> at, lockedUntil |-> None]
  ELSE [row EXCEPT !.attempts = @ + 1]

counted(row, at) ==
  IF row = None \/ fresh(row, at)
  THEN [attempts |-> 1, windowStartedAt |-> at, lockedUntil |-> None]
  ELSE [row EXCEPT
          !.attempts = @ + 1,
          !.lockedUntil = IF @ = None /\ row.attempts + 1 >= SIGN_IN_ADMISSIONS
                          THEN at + SIGN_IN_LOCK ELSE @]

admitted(attempts) == attempts <= SIGN_IN_ADMISSIONS

(* admit's upsert, and the hook up to its sweep.                           *)
Admit(c) ==
  LET row == counted(failures, call[c].at)
      sweep == (admissions + 1) % SIGN_IN_CLEANUP_EVERY = 0
  IN
  /\ call[c].step = "admit"
  /\ failures' = row
  /\ admissions' = (admissions + 1) % SIGN_IN_CLEANUP_EVERY
  /\ call' = [call EXCEPT ![c] =
       IF sweep THEN [step |-> "sweep", at |-> now, attempts |-> row.attempts]
       ELSE IF admitted(row.attempts)
       THEN [Idle EXCEPT !.step = "check"] ELSE Idle]
  /\ guesses' = IF admitted(row.attempts) THEN remembered(guesses, SIGN_IN_WINDOW) ELSE guesses
  /\ UNCHANGED <<now, bucket, left, served, counts>>

(* The statement fails, before or after it took effect: 503, not admitted. *)
AdmitFails(c) ==
  /\ call[c].step = "admit"
  /\ failures' \in {failures, counted(failures, call[c].at)}
  /\ Over(c)
  /\ UNCHANGED <<now, bucket, admissions, left, guesses, served, counts>>

(* Mutant: the sweep takes the row of a window that is not over.           *)
sweptAtOnce(row, at) == row.windowStartedAt <= at

swept(row, at) ==
  /\ row.windowStartedAt < at - SIGN_IN_WINDOW
  /\ row.lockedUntil = None \/ row.lockedUntil < at

(* cleanUp skips a row another statement holds, and its failure is logged. *)
CleanUp(c) ==
  /\ call[c].step = "sweep"
  /\ \/ failures' = failures
     \/ failures # None /\ swept(failures, call[c].at) /\ failures' = None
  /\ call' = [call EXCEPT ![c] =
       IF admitted(@.attempts) THEN [Idle EXCEPT !.step = "check"] ELSE Idle]
  /\ UNCHANGED <<now, bucket, admissions, left, guesses, served, counts>>

(* The password is checked.                                                *)
Check(c, right) ==
  /\ call[c].step = "check"
  /\ IF right THEN call' = [call EXCEPT ![c].step = "succeeded"] ELSE Over(c)
  /\ UNCHANGED <<now, failures, bucket, admissions, left, guesses, served, counts>>

(* Mutant: a success deletes the row whatever it holds.                    *)
ResetRegardless(c) ==
  /\ call[c].step = "succeeded"
  /\ failures' = None /\ guesses' = <<>>
  /\ Over(c)
  /\ UNCHANGED <<now, bucket, admissions, left, served, counts>>

(* The after hook; its failure is logged.                                  *)
Reset(c) ==
  /\ call[c].step = "succeeded"
  /\ \/ failures # None /\ failures.lockedUntil = None
        /\ failures' = None /\ guesses' = <<>>
     \/ UNCHANGED <<failures, guesses>>
  /\ Over(c)
  /\ UNCHANGED <<now, bucket, admissions, left, served, counts>>

-----------------------------------------------------------------------------
(* GUARD of an endpoint with a policy.                                     *)

Arrive(c) ==
  /\ call[c] = Idle /\ left.api > 0
  /\ left' = [left EXCEPT !.api = @ - 1]
  /\ Goto(c, "guard")
  /\ UNCHANGED <<now, failures, bucket, admissions, guesses, served, counts>>

(* Mutant: the count is never started again.                               *)
hitForever(row, at) ==
  IF row = None THEN [count |-> 1, lastRequest |-> at]
  ELSE [count |-> row.count + 1, lastRequest |-> at]

hit(row, at) ==
  IF row = None \/ row.lastRequest <= at - WINDOW
  THEN [count |-> 1, lastRequest |-> at]
  ELSE [count |-> row.count + 1, lastRequest |-> at]

(* The upsert takes effect, and the call is refused or not.                *)
counting(c, refused) ==
  /\ bucket' = hit(bucket, call[c].at)
  /\ counts' = Append(counts, [at |-> call[c].at, refused |-> refused])

Guard(c) ==
  /\ call[c].step = "guard"
  /\ \/ counting(c, FALSE) /\ bucket'.count <= LIMIT
        /\ served' = remembered(served, WINDOW)
     \/ counting(c, TRUE) /\ bucket'.count > LIMIT
        /\ UNCHANGED served
  /\ Over(c)
  /\ UNCHANGED <<now, failures, admissions, left, guesses>>

(* The statement fails, before or after it took effect: 503, not refused   *)
(* for the rate.                                                           *)
GuardFails(c) ==
  /\ call[c].step = "guard"
  /\ counting(c, FALSE) \/ UNCHANGED <<bucket, counts>>
  /\ Over(c)
  /\ UNCHANGED <<now, failures, admissions, left, guesses, served>>

(* The identity library deletes rows older than its own longest window,    *)
(* whatever their key.                                                     *)
Prune ==
  /\ bucket # None /\ bucket.lastRequest < now - PRUNE
  /\ bucket' = None
  /\ UNCHANGED <<now, failures, call, admissions, left, guesses, served, counts>>

-----------------------------------------------------------------------------
waiting(c) == call[c].step \in {"admit", "sweep", "guard"}

Tick ==
  /\ now < MaxTime
  /\ \A c \in Calls : waiting(c) => now - call[c].at < Lag
  /\ now' = now + 1
  /\ UNCHANGED <<failures, bucket, call, admissions, left, guesses, served, counts>>

Next ==
  \/ \E c \in Calls :
       \/ SignIn(c) \/ Admit(c) \/ AdmitFails(c) \/ CleanUp(c)
       \/ \E right \in BOOLEAN : Check(c, right)
       \/ Reset(c)
       \/ Arrive(c) \/ Guard(c) \/ GuardFails(c)
  \/ Prune
  \/ Tick

Spec == Init /\ [][Next]_vars

-----------------------------------------------------------------------------
(* Types; an account key that has used its admissions is locked, and a     *)
(* lock never outlasts its time.                                           *)
TypeOK ==
  /\ now \in 0..MaxTime
  /\ failures \in Row \cup {None} /\ bucket \in Bucket \cup {None}
  /\ call \in [Calls -> Call]
  /\ admissions \in 0..SIGN_IN_CLEANUP_EVERY - 1
  /\ guesses \in Seq(Nat) /\ served \in Seq(Nat) /\ counts \in Seq(Count)
  /\ failures # None =>
       /\ failures.attempts >= SIGN_IN_ADMISSIONS <=> failures.lockedUntil # None
       /\ failures.lockedUntil # None => failures.lockedUntil <= now + SIGN_IN_LOCK

(* The times of a sequence within a window of length w that starts at t.   *)
within(times, t, w) == Cardinality({i \in DOMAIN times : times[i] \in t..t + w - 1})

(* No lock ends early: neither a success that was admitted before it, nor  *)
(* a sweep, nor the end of the window, nor a statement given an old time   *)
(* shortens it.                                                            *)
LockHolds ==
  [][(failures # None /\ failures.lockedUntil # None /\ now < failures.lockedUntil)
       => failures' # None /\ failures'.lockedUntil = failures.lockedUntil]_failures

(* However sign-ins, sweeps and failed statements interleave, no stretch   *)
(* as long as the window, but for the time a statement may have waited,    *)
(* admits more than the end of one window and the whole of another, as     *)
(* long as no success resets the count.                                    *)
GuessesBounded ==
  \A t \in 0..now :
    within(guesses, t, SIGN_IN_WINDOW - Lag) <= 2 * SIGN_IN_ADMISSIONS - 1

(* A bucket serves no more than its limit in a window, but for the time a  *)
(* statement may have waited for the row: a late one moves lastRequest     *)
(* back, and the pruning of a row must not help either.                    *)
ServedBounded ==
  \A t \in 0..now : within(served, t, WINDOW - Lag) <= LIMIT

(* Neither limit lets more through than it says.                           *)
AttemptsBounded == GuessesBounded /\ ServedBounded

(* Each of the calls i + 1..j came less than a window after the one        *)
(* counted before it.                                                      *)
run(i, j) == \A k \in i + 1..j : counts[k].at < counts[k - 1].at + WINDOW

(* A refusal is earned: more than LIMIT calls of the bucket, the refused   *)
(* one the last, came less than a window apart.  So retryAfterSeconds is   *)
(* honest, whichever statements are late, lost or pruned away: nobody is   *)
(* refused who came a window after the call counted before.                *)
RefusalsEarned ==
  \A j \in DOMAIN counts : counts[j].refused => j > LIMIT /\ run(j - LIMIT, j)

=============================================================================
