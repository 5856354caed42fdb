------------------------------ MODULE Adapters ------------------------------
(***************************************************************************)
(* The small classes of turf, most of them adapters of what the system     *)
(* has, side by side: they share no state, so a behaviour exercises one of *)
(* them, the subject.                                                      *)
(***************************************************************************)
EXTENDS Integers, Sequences

CONSTANTS
    Workers, NoWorker, Iterations, SharedArraySize, MaxLocks,
    MillisPerSecond, NanosPerMilli, Callers, EventCalls, CondVarCalls, TimedWaits, WaitMillis, NoCaller, MaxTime,
    Users, Counts, MaxUnits, Interrupts,
    Pinners, Constructor, Machines, MaxHWThreads, HWThreadIds, CoreIds,
    Main, Children, Stores, NoValue,
    Groups, Dumper, Loader, NoGroup,
    Lockers, NoLocker, MaxDepth,
    Width, Layouts, Prime, Seeds, Slots

VARIABLES
    subject,
    tester, kind, lock, shared, worker, race,
    object, state, holder, now, caller,
    semaphore, units, lost, interrupted, user,
    platform, machine, phase, input, collector, cores, accurate, pinned,
    tls, key, slot, objects, leaked, bad, place, attached, results,
    owner, first, next, stale, adding, expected, used, walk, joined,
    pc, seen, m_initFlag, flagCarries, m_spinLock, spinCarries, built, lockedBy, depth,
    class, value, told

L == INSTANCE Locks
W == INSTANCE Waits
S == INSTANCE Semaphore WITH system <- semaphore
A == INSTANCE Affinity
T == INSTANCE ThreadLocal WITH system <- tls
C == INSTANCE Counters WITH place <- adding
Lazy == INSTANCE MutexLazyInit WITH Threads <- Lockers, NoThread <- NoLocker, owner <- lockedBy
N == INSTANCE Numbers

\* What each of them assumes of its constants.
ASSUME SubjectsAssumption ==
    /\ L!LocksAssumption /\ W!WaitsAssumption /\ S!SemaphoreAssumption /\ A!AffinityAssumption
    /\ T!ThreadLocalAssumption /\ C!CountersAssumption /\ Lazy!LazyAssumption
    /\ N!NumbersAssumption

locks == <<tester, kind, lock, shared, worker, race>>
waits == <<object, state, holder, now, caller>>
semaphores == <<semaphore, units, lost, interrupted, user>>
affinity == <<platform, machine, phase, input, collector, cores, accurate, pinned>>
locals == <<tls, key, slot, objects, leaked, bad, place, attached, results>>
counters == <<owner, first, next, stale, adding, expected, used, walk, joined>>
lazy == <<pc, seen, m_initFlag, flagCarries, m_spinLock, spinCarries, built, lockedBy, depth>>
numbers == <<class, value, told>>

vars == <<subject, locks, waits, semaphores, affinity, locals, counters, lazy, numbers>>

\* One subject is in any of its initial states, the others in a fixed one.
LocksInit ==
    IF subject = "locks" THEN L!Init ELSE L!Start("MutexTester", L!Mutex_POSIX)
WaitsInit ==
    IF subject = "waits" THEN W!Init ELSE W!Start("ManualResetEvent_CondVar", FALSE, W!Zero)
SemaphoresInit ==
    IF subject = "semaphores" THEN S!Init ELSE S!Start("POSIX", [u \in Users |-> S!Waiter])
AffinityInit ==
    IF subject = "affinity" THEN A!Init
    ELSE A!Start("Null", [cpus |-> <<[package |-> 0, core |-> 0]>>, reports |-> "core", allowed |-> {0}])
LocalsInit ==
    IF subject = "locals" THEN T!Init ELSE T!Start("POSIX")
CountersInit ==
    IF subject = "counters" THEN C!Init ELSE C!Start([g \in Groups |-> Dumper])
NumbersInit ==
    IF subject = "numbers" THEN N!Init ELSE N!Begin("Util", 0, [call |-> "align", v |-> 0, a |-> 1])

Init ==
    /\ subject \in {"locks", "waits", "semaphores", "affinity", "locals", "counters", "lazy", "numbers"}
    /\ LocksInit /\ WaitsInit /\ SemaphoresInit /\ AffinityInit
    /\ LocalsInit /\ CountersInit /\ Lazy!Init /\ NumbersInit

LocksNext ==
    /\ subject = "locks" /\ L!Next
    /\ UNCHANGED <<subject, waits, semaphores, affinity, locals, counters, lazy, numbers>>

WaitsNext ==
    /\ subject = "waits" /\ W!Next
    /\ UNCHANGED <<subject, locks, semaphores, affinity, locals, counters, lazy, numbers>>

SemaphoresNext ==
    /\ subject = "semaphores" /\ S!Next
    /\ UNCHANGED <<subject, locks, waits, affinity, locals, counters, lazy, numbers>>

AffinityNext ==
    /\ subject = "affinity" /\ A!Next
    /\ UNCHANGED <<subject, locks, waits, semaphores, locals, counters, lazy, numbers>>

LocalsNext ==
    /\ subject = "locals" /\ T!Next
    /\ UNCHANGED <<subject, locks, waits, semaphores, affinity, counters, lazy, numbers>>

CountersNext ==
    /\ subject = "counters" /\ C!Next
    /\ UNCHANGED <<subject, locks, waits, semaphores, affinity, locals, lazy, numbers>>

LazyNext ==
    /\ subject = "lazy" /\ Lazy!Next
    /\ UNCHANGED <<subject, locks, waits, semaphores, affinity, locals, counters, numbers>>

NumbersNext ==
    /\ subject = "numbers" /\ N!Next
    /\ UNCHANGED <<subject, locks, waits, semaphores, affinity, locals, counters, lazy>>

\* Where a subject may stop: its program has ended, or whoever waits has
\* nothing to wait for.
Quiet ==
    CASE subject = "locks" -> L!Joined
      [] subject = "waits" -> W!Quiet
      [] subject = "semaphores" -> S!Quiet
      [] subject = "locals" -> place[Main] = "done"
      [] subject = "numbers" -> class # "BitField" /\ class # "TimeWaster"
      [] OTHER -> FALSE

Rest == Quiet /\ UNCHANGED vars

Next ==
    \/ LocksNext \/ WaitsNext \/ SemaphoresNext
    \/ AffinityNext \/ LocalsNext \/ CountersNext \/ LazyNext
    \/ NumbersNext \/ Rest

\* The system lets time pass, runs every thread that can run, and gives the
\* mutex of a wait or a unit to whoever keeps asking for it.  As long as some
\* thread inside lazyInit can go on, one does.
Fairness ==
    /\ WF_waits(subject = "waits" /\ W!Tick)
    /\ \A c \in Callers : SF_waits(subject = "waits" /\ W!Step(c))
    /\ \A u \in Users : SF_semaphores(subject = "semaphores" /\ S!Step(u))
    /\ WF_lazy(\E t \in Lockers : Lazy!LazyInit(t))

Spec == Init /\ [][Next]_vars /\ Fairness

\* Every test of SynchroTests passes with every adapter (Locks).
TestsPass == subject = "locks" => L!TestsPass

\* The race detector stops the program exactly if guarded sections have ever
\* overlapped (Locks).
RacesReported == subject = "locks" => L!RacesReported

\* No wait returns because of a spurious wake-up or before its time (Waits).
WaitsReturnForAReason == subject = "waits" => W!WaitsReturnForAReason

\* Signalled units are taken, there or lost at the semaphore's maximum
\* (Semaphore).
UnitsConserved == subject = "semaphores" => S!UnitsConserved

\* Every wait for an event that stays set, for a time or for units that are
\* signalled ends (Waits, Semaphore).
EveryWaitEnds ==
    /\ subject = "waits" => W!WaitsEnd
    /\ subject = "semaphores" => S!WaitsServed

\* An accurate list of cores has every processor its constructor could reach,
\* once, and threads pinned to different cores run on different cores (Affinity).
PinnedApart == subject = "affinity" => A!PinnedApart

\* Thread-local values are deleted once, if they can be (ThreadLocal).
ValuesDisposedOf == subject = "locals" => T!ValuesDisposedOf

\* No group of counters is lost from the list or from a dump (Counters).
EveryGroupListed == subject = "counters" => C!EveryGroupListed

\* Racing first locks construct the mutex once between two zeroings
\* (MutexLazyInit).
BuiltOnce == subject = "lazy" => Lazy!BuiltOnce

\* Whoever locks or holds the mutex has seen its construction (MutexLazyInit).
LockSeesConstruction == subject = "lazy" => Lazy!LockSeesConstruction

\* Lazy construction, destruction and reuse do not show (MutexLazyInit).
ImplementsMutex == Lazy!ImplementsMutex

\* Nobody is stuck in lazyInit (MutexLazyInit).
LazyInitEnds == Lazy!LazyInitEnds

\* Bit fields, points in time, rounded sizes and unique numbers are what they
\* should be although the words they are calculated in wrap (Numbers).
ArithmeticExact == subject = "numbers" => N!ArithmeticExact
=============================================================================
