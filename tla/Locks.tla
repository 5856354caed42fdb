------------------------------- MODULE Locks -------------------------------
(***************************************************************************)
(* The locks of turf under the programs that test them.  An adapter is     *)
(* described by what its constructor asks of the system: whether the lock  *)
(* may be taken again by its owner, whether it can be shared, whether it   *)
(* blocks at all (turf::RaceDetectGuard only reports).  The programs are   *)
(* the four testers of samples/SynchroTests; the last program guards the   *)
(* MutexTester's counter by a race detector instead of a mutex.            *)
(***************************************************************************)
EXTENDS Integers, FiniteSetsExt

CONSTANTS
    Workers,           \* the testers' threads: their threadNum, 0 .. n - 1
    NoWorker,          \* nobody holds the lock
    Iterations,        \* m_iterationCount
    SharedArraySize,   \* 8 in RWLockTester
    MaxLocks           \* RecursiveMutexTester locks 0 .. MaxLocks times: 3 there

LocksAssumption ==
    /\ Workers \subseteq Nat /\ IsFiniteSet(Workers) /\ NoWorker \notin Workers
    /\ Iterations \in Nat /\ MaxLocks \in Nat /\ SharedArraySize \in Nat \ {0}

VARIABLES
    tester,   \* which test runs
    kind,     \* the adapter it tests
    lock,     \* the lock: owner, depth and readers
    shared,   \* m_value, m_sharedInt or m_shared, indexed from 0
    worker,   \* the threads' program counters and locals
    race      \* what the race detector saw, and what happened

vars == <<tester, kind, lock, shared, worker, race>>

Adapter(reentrant, shareable, blocking) ==
    [reentrant |-> reentrant, shareable |-> shareable, blocking |-> blocking]

Mutex_POSIX == Adapter(TRUE, FALSE, TRUE)
Mutex_Win32 == Adapter(TRUE, FALSE, TRUE)
Mutex_CPP11 == Adapter(FALSE, FALSE, TRUE)
Mutex_Boost == Adapter(FALSE, FALSE, TRUE)
Mutex_SpinLock == Adapter(FALSE, FALSE, TRUE)
RWLock_POSIX == Adapter(FALSE, TRUE, TRUE)
RWLock_Win32 == Adapter(FALSE, TRUE, TRUE)
RaceDetector == Adapter(FALSE, FALSE, FALSE)

\* The adapters a test can run with: RecursiveMutexTester needs one that its
\* owner may lock again.
Subjects ==
    {<<"MutexTester", k>> :
        k \in {Mutex_POSIX, Mutex_Win32, Mutex_CPP11, Mutex_Boost, Mutex_SpinLock, RaceDetector}}
    \cup {<<"RecursiveMutexTester", k>> : k \in {Mutex_POSIX, Mutex_Win32}}
    \cup ({"RWLockTester", "SimpleRWLockTester"} \X {RWLock_POSIX, RWLock_Win32})

Size == IF tester = "RWLockTester" THEN SharedArraySize ELSE 1

Fresh ==
    [at |-> "top", left |-> Iterations, locks |-> 0, desired |-> 0, tries |-> FALSE,
     index |-> 0, local |-> 0, last |-> 0, tally |-> 0, ok |-> TRUE]

Start(test, adapter) ==
    /\ tester = test /\ kind = adapter
    /\ lock = [owner |-> NoWorker, depth |-> 0, readers |-> {}]
    /\ shared = [j \in 0 .. Size - 1 |-> j]
    /\ worker = [w \in Workers |-> Fresh]
    /\ race = [entered |-> FALSE, reported |-> FALSE, happened |-> FALSE]

Init == \E s \in Subjects : Start(s[1], s[2])

(***************************************************************************)
(* The operations of the locks.                                            *)
(***************************************************************************)
Free(w) ==
    /\ lock.owner = NoWorker \/ (kind.reentrant /\ lock.owner = w)
    /\ lock.readers = {}

Take(w) ==
    IF kind.blocking
    THEN /\ Free(w)
         /\ lock' = [lock EXCEPT !.owner = w, !.depth = @ + 1]
         /\ UNCHANGED race
    ELSE /\ race' = [entered |-> TRUE,
                     reported |-> race.reported \/ race.entered,
                     happened |-> race.happened \/
                         \E v \in Workers \ {w} : worker[v].at \in {"load", "store", "unlock"}]
         /\ UNCHANGED lock

\* Mutant: unlock frees the lock whatever its depth.
ReleaseAll(w) ==
    IF kind.blocking
    THEN /\ lock' = [lock EXCEPT !.owner = NoWorker, !.depth = 0]
         /\ UNCHANGED race
    ELSE /\ race' = [race EXCEPT !.entered = FALSE]
         /\ UNCHANGED lock

\* Mutant: the detector's guard does not reset the flag when it leaves.
ReleaseKeepsEntered(w) ==
    /\ lock' = IF kind.blocking
               THEN [lock EXCEPT !.owner = IF lock.depth = 1 THEN NoWorker ELSE w, !.depth = @ - 1]
               ELSE lock
    /\ UNCHANGED race

Release(w) ==
    IF kind.blocking
    THEN /\ lock.owner = w
         /\ lock' = [lock EXCEPT !.owner = IF lock.depth = 1 THEN NoWorker ELSE w, !.depth = @ - 1]
         /\ UNCHANGED race
    ELSE /\ race' = [race EXCEPT !.entered = FALSE]
         /\ UNCHANGED lock

SharedLockGuard(w) ==
    /\ lock.owner = NoWorker
    /\ lock' = [lock EXCEPT !.readers = @ \cup {w}]
    /\ UNCHANGED race

EndSharedLockGuard(w) ==
    /\ lock' = [lock EXCEPT !.readers = @ \ {w}]
    /\ UNCHANGED race

(***************************************************************************)
(* The threads' steps.  An access to the shared memory is a step of its    *)
(* own: m_value++ loads and stores.                                        *)
(***************************************************************************)
At(w, place) == worker[w].at = place

Go(w, local) == worker' = [worker EXCEPT ![w] = local]

Same == UNCHANGED <<tester, kind>>

\* One more iteration of an exclusive section: MutexTester always, the
\* RWLock testers when the dice say so.
EnterExclusive(w) ==
    /\ At(w, "top") /\ worker[w].left > 0 /\ tester # "RecursiveMutexTester"
    /\ Take(w)
    /\ IF tester = "RWLockTester"
       THEN \E value \in {0, Size} :
                Go(w, [worker[w] EXCEPT !.at = "fill", !.index = Size - 1, !.local = value])
       ELSE Go(w, [worker[w] EXCEPT !.at = "load"])
    /\ Same /\ UNCHANGED shared

Load(w) ==
    /\ At(w, "load")
    /\ Go(w, [worker[w] EXCEPT !.at = "store", !.local = shared[0]])
    /\ Same /\ UNCHANGED <<lock, shared, race>>

\* RecursiveMutexTester adds threadNum + 1 and remembers the sum, the others
\* add one.
Amount(w) == IF tester = "RecursiveMutexTester" THEN w + 1 ELSE 1

Store(w) ==
    /\ At(w, "store")
    /\ LET sum == worker[w].local + Amount(w) IN
       /\ shared' = [shared EXCEPT ![0] = sum]
       /\ Go(w, [worker[w] EXCEPT !.last = sum, !.tally = @ + Amount(w),
                     !.at = IF tester = "RecursiveMutexTester" THEN "top" ELSE "unlock",
                     !.left = IF tester = "RecursiveMutexTester" THEN @ - 1 ELSE @])
    /\ Same /\ UNCHANGED <<lock, race>>

\* RWLockTester's writer fills the array from its end with falling numbers.
Fill(w) ==
    /\ At(w, "fill")
    /\ LET j == worker[w].index IN
       /\ shared' = [shared EXCEPT ![j] = worker[w].local]
       /\ Go(w, [worker[w] EXCEPT !.local = @ - 1, !.index = j - 1,
                                  !.at = IF j = 0 THEN "unlock" ELSE "fill"])
    /\ Same /\ UNCHANGED <<lock, race>>

LeaveExclusive(w) ==
    /\ At(w, "unlock")
    /\ Release(w)
    /\ Go(w, [worker[w] EXCEPT !.at = "top", !.left = @ - 1, !.local = 0, !.last = 0])
    /\ Same /\ UNCHANGED shared

EnterShared(w) ==
    /\ At(w, "top") /\ worker[w].left > 0 /\ kind.shareable
    /\ SharedLockGuard(w)
    /\ Go(w, [worker[w] EXCEPT !.at = "read", !.index = 0])
    /\ Same /\ UNCHANGED shared

\* The reader checks that each number is its predecessor's successor.
Check(w) ==
    /\ At(w, "read")
    /\ LET j == worker[w].index IN
       Go(w, [worker[w] EXCEPT
                  !.ok = @ /\ (j > 0 => shared[j] = worker[w].local + 1),
                  !.local = IF j = 0 THEN shared[0] ELSE @ + 1,
                  !.index = j + 1,
                  !.at = IF j = Size - 1 THEN "unlockShared" ELSE "read"])
    /\ Same /\ UNCHANGED <<lock, shared, race>>

LeaveShared(w) ==
    /\ At(w, "unlockShared")
    /\ EndSharedLockGuard(w)
    /\ Go(w, [worker[w] EXCEPT !.at = "top", !.left = @ - 1, !.local = 0, !.index = 0])
    /\ Same /\ UNCHANGED shared

(***************************************************************************)
(* RecursiveMutexTester: each iteration asserts that nobody wrote while    *)
(* the lock was held, draws how many locks to hold and gets there.         *)
(***************************************************************************)
Draw(w) ==
    /\ At(w, "top") /\ worker[w].left > 0 /\ tester = "RecursiveMutexTester"
    /\ \E desired \in 0 .. MaxLocks, tries \in BOOLEAN :
           Go(w, [worker[w] EXCEPT !.at = "adjust", !.desired = desired, !.tries = tries,
                      !.ok = @ /\ (worker[w].locks > 0 => shared[0] = worker[w].last)])
    /\ Same /\ UNCHANGED <<lock, shared, race>>

\* Out of the loops: count if the lock is held, or begin the next iteration.
Adjusted(local) ==
    IF local.locks > 0 THEN [local EXCEPT !.at = "load"]
    ELSE [local EXCEPT !.at = "top", !.left = @ - 1]

UnlockOne(w) ==
    /\ At(w, "adjust") /\ worker[w].locks > worker[w].desired
    /\ Release(w)
    /\ Go(w, [worker[w] EXCEPT !.locks = @ - 1])
    /\ Same /\ UNCHANGED shared

LockOne(w) ==
    /\ At(w, "adjust") /\ worker[w].locks < worker[w].desired
    /\ Take(w)
    /\ Go(w, [worker[w] EXCEPT !.locks = @ + 1])
    /\ Same /\ UNCHANGED shared

TryLockFails(w) ==
    /\ At(w, "adjust") /\ worker[w].locks < worker[w].desired
    /\ worker[w].tries /\ ~Free(w)
    /\ Go(w, Adjusted(worker[w]))
    /\ Same /\ UNCHANGED <<lock, shared, race>>

Reached(w) ==
    /\ At(w, "adjust") /\ worker[w].locks = worker[w].desired
    /\ Go(w, Adjusted(worker[w]))
    /\ Same /\ UNCHANGED <<lock, shared, race>>

\* After the last iteration the thread gives back the locks it still holds.
Unwind(w) ==
    /\ At(w, "top") /\ worker[w].left = 0 /\ worker[w].locks > 0 /\ tester = "RecursiveMutexTester"
    /\ Release(w)
    /\ Go(w, [worker[w] EXCEPT !.locks = @ - 1])
    /\ Same /\ UNCHANGED shared

Exit(w) ==
    /\ At(w, "top") /\ worker[w].left = 0 /\ worker[w].locks = 0
    /\ Go(w, [worker[w] EXCEPT !.at = "exited"])
    /\ Same /\ UNCHANGED <<lock, shared, race>>

Section(w) ==
    \/ EnterExclusive(w) \/ Load(w) \/ Store(w) \/ Fill(w) \/ LeaveExclusive(w)
    \/ EnterShared(w) \/ Check(w) \/ LeaveShared(w)

Recursive(w) ==
    Draw(w) \/ UnlockOne(w) \/ LockOne(w) \/ TryLockFails(w) \/ Reached(w) \/ Unwind(w)

Next == \E w \in Workers : Section(w) \/ Recursive(w) \/ Exit(w)

Spec == Init /\ [][Next]_vars

(***************************************************************************)
(* What the testers check.                                                 *)
(***************************************************************************)
\* The threads have been joined.
Joined == \A w \in Workers : worker[w].at = "exited"

Total == MapThenSumSet(LAMBDA w : worker[w].tally, Workers)

\* What test() returns.
Passed ==
    /\ \A w \in Workers : worker[w].ok
    /\ tester \in {"MutexTester", "SimpleRWLockTester", "RecursiveMutexTester"} => shared[0] = Total

\* Every test of SynchroTests passes with every adapter it can run with: no
\* update is lost, no reader sees half a write, and a thread that keeps the
\* recursive mutex across iterations finds the value it left
\* (RecursiveMutexTester.cpp:72).
TestsPass ==
    /\ \A w \in Workers : worker[w].ok
    /\ (Joined /\ ~race.reported) => (Passed /\ lock.owner = NoWorker /\ lock.readers = {})

\* The race detector stops the program exactly if two threads were ever
\* between its guard's constructor and its destructor at once, whatever the
\* guards that came and went before.
RacesReported == race.reported <=> race.happened
=============================================================================
