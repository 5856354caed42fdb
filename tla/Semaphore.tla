----------------------------- MODULE Semaphore -----------------------------
(***************************************************************************)
(* turf::Semaphore on the three systems.  signal(count) is a loop of       *)
(* single posts on POSIX and Mach, and one call on Windows; a post that    *)
(* would exceed the maximum fails, and nobody looks at its result.  A      *)
(* POSIX wait is interrupted by signal handlers and tries again.  The      *)
(* other two do not look at what their wait returns: that semaphore_wait   *)
(* (Mach) and WaitForSingleObject return only with a unit is an assumption *)
(* about the system.                                                       *)
(***************************************************************************)
EXTENDS Integers, FiniteSetsExt

CONSTANTS
    Users,        \* the threads
    Counts,       \* the arguments of signal
    MaxUnits,     \* SEM_VALUE_MAX, INT32_MAX
    Interrupts    \* bound: how often signal handlers interrupt waits

SemaphoreAssumption ==
    /\ IsFiniteSet(Users) /\ Counts \subseteq Nat
    /\ MaxUnits \in Nat /\ Interrupts \in Nat

VARIABLES
    system,      \* the adapter
    units,       \* the value of the system's semaphore
    lost,        \* units that failed posts did not add
    interrupted, \* interruptions so far
    user         \* the threads: their calls and where they are in them

vars == <<system, units, lost, interrupted, user>>

Systems == {"POSIX", "Mach", "Win32"}

\* Each thread makes one call: it waits, or signals a number of units.
Waiter == [call |-> "wait", count |-> 0, left |-> 0, at |-> "idle"]

Signaller(count) == [call |-> "signal", count |-> count, left |-> 0, at |-> "idle"]

Programs == {Waiter} \cup {Signaller(count) : count \in Counts}

Start(kind, programs) ==
    /\ system = kind
    /\ units = 0 /\ lost = 0 /\ interrupted = 0
    /\ user = programs

Init == \E kind \in Systems, programs \in [Users -> Programs] : Start(kind, programs)

At(u, place) == user[u].at = place

Go(u, place) == user' = [user EXCEPT ![u].at = place]

CallWait(u) ==
    /\ At(u, "idle") /\ user[u].call = "wait"
    /\ Go(u, "waiting")
    /\ UNCHANGED <<system, units, lost, interrupted>>

\* sem_wait, semaphore_wait, WaitForSingleObject take one unit.
TakeUnit(u) ==
    /\ At(u, "waiting") /\ units > 0
    /\ units' = units - 1
    /\ Go(u, "done")
    /\ UNCHANGED <<system, lost, interrupted>>

\* sem_wait returns -1 and EINTR.
Interrupt(u) ==
    /\ At(u, "waiting") /\ system = "POSIX" /\ interrupted < Interrupts
    /\ interrupted' = interrupted + 1
    /\ Go(u, "interrupted")
    /\ UNCHANGED <<system, units, lost>>

\* Mutant: an interrupted wait returns.
RetryReturns(u) ==
    /\ At(u, "interrupted")
    /\ Go(u, "done")
    /\ UNCHANGED <<system, units, lost, interrupted>>

Retry(u) ==
    /\ At(u, "interrupted")
    /\ Go(u, "waiting")
    /\ UNCHANGED <<system, units, lost, interrupted>>

\* Mutant: while (--count > 0).
CallSignalOneLess(u) ==
    /\ At(u, "idle") /\ user[u].call = "signal" /\ system # "Win32"
    /\ user' = [user EXCEPT ![u].left = IF user[u].count > 0 THEN user[u].count - 1 ELSE 0,
                            ![u].at = "posting"]
    /\ UNCHANGED <<system, units, lost, interrupted>>

CallSignal(u) ==
    /\ At(u, "idle") /\ user[u].call = "signal" /\ system # "Win32"
    /\ user' = [user EXCEPT ![u].left = user[u].count, ![u].at = "posting"]
    /\ UNCHANGED <<system, units, lost, interrupted>>

\* One round of while (count-- > 0) sem_post: the thread may be preempted
\* between two of them.
Post(u) ==
    /\ At(u, "posting") /\ user[u].left > 0
    /\ user' = [user EXCEPT ![u].left = @ - 1]
    /\ IF units < MaxUnits THEN units' = units + 1 /\ UNCHANGED lost
       ELSE lost' = lost + 1 /\ UNCHANGED units
    /\ UNCHANGED <<system, interrupted>>

Posted(u) ==
    /\ At(u, "posting") /\ user[u].left = 0
    /\ Go(u, "done")
    /\ UNCHANGED <<system, units, lost, interrupted>>

\* All units or none.
ReleaseSemaphore(u) ==
    /\ At(u, "idle") /\ user[u].call = "signal" /\ system = "Win32"
    /\ Go(u, "done")
    /\ IF units + user[u].count <= MaxUnits
       THEN units' = units + user[u].count /\ UNCHANGED lost
       ELSE lost' = lost + user[u].count /\ UNCHANGED units
    /\ UNCHANGED <<system, interrupted>>

Step(u) ==
    \/ CallWait(u) \/ TakeUnit(u) \/ Retry(u)
    \/ CallSignal(u) \/ Post(u) \/ Posted(u) \/ ReleaseSemaphore(u)

Next == \E u \in Users : Step(u) \/ Interrupt(u)

Spec == Init /\ [][Next]_vars

\* Nobody is in a call but for waits without a unit.
Quiet == \A u \in Users : At(u, "done") \/ (At(u, "waiting") /\ units = 0)

(***************************************************************************)
(* What the semaphore promises.                                            *)
(***************************************************************************)
Waiting == {u \in Users : user[u].call = "wait"}

Returned == {u \in Waiting : At(u, "done")}

Signalled(u) == IF At(u, "idle") THEN 0 ELSE user[u].count - user[u].left

\* Whatever the order of posts, interruptions and waits, the units signalled
\* so far are those that waits have taken, those there are and those failed
\* posts lost: no wait returns without one, none is handed out twice, and a
\* signal that has returned has added all it was asked to.
UnitsConserved ==
    MapThenSumSet(Signalled, Users) = Cardinality(Returned) + units + lost

\* If the semaphore's maximum cannot be exceeded and there are units for all
\* waits, all of them end.
Requested(u) == user[u].count

WaitsServed ==
    (MapThenSumSet(Requested, Users) \in Cardinality(Waiting) .. MaxUnits)
        => <>(\A u \in Users : At(u, "done"))
=============================================================================
