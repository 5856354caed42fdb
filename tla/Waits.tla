------------------------------- MODULE Waits -------------------------------
(***************************************************************************)
(* Condition variables, and the manual-reset event built on one            *)
(* (turf::ManualResetEvent_CondVar) or on the system's own event           *)
(* (turf::ManualResetEvent_Win32).  Every thread may call every operation: *)
(* of the event, or of a bare condition variable and the mutex it is used  *)
(* with.  A blocked thread may wake up for nothing, and has to get the     *)
(* mutex back before it goes on.                                           *)
(***************************************************************************)
EXTENDS Deadline, FiniteSets

CONSTANTS
    Callers,     \* the threads
    EventCalls,  \* bound: the calls each of them makes of an event
    CondVarCalls,\* bound: the same, of a condition variable
    TimedWaits,  \* bound: the timedWaits that run at once
    WaitMillis,  \* the arguments timedWait is called with
    NoCaller,    \* nobody holds the mutex
    MaxTime      \* bound: the clock stops here, but for a wait that is not over

WaitsAssumption ==
    /\ UnitsAssumption
    /\ NoCaller \notin Callers
    /\ EventCalls \in Nat /\ CondVarCalls \in Nat
    /\ WaitMillis \subseteq Nat

VARIABLES
    object,    \* which of the classes is used
    state,     \* m_state, or the state of the Win32 event
    holder,    \* the thread that holds the mutex
    now,       \* the time of day
    caller     \* the threads' program counters and locals

vars == <<object, state, holder, now, caller>>

\* ConditionVariable_Win32 is used and behaves as the C++11 one does: both
\* hand the milliseconds to the system.
CondVars == {"ConditionVariable_POSIX", "ConditionVariable_CPP11"}

Events == {"ManualResetEvent_CondVar", "ManualResetEvent_Win32"}

Zero == [sec |-> 0, nsec |-> 0]

\* sawSet and began describe the call: whether the event has been set at an
\* instant of it, and when timedWait was entered, with the mutex held.
Resting(left) ==
    [at |-> "idle", call |-> "none", left |-> left, millis |-> 0, deadline |-> Zero,
     outcome |-> "none", sawSet |-> FALSE, began |-> Zero]

Start(kind, initialState, time) ==
    /\ object = kind /\ state = initialState /\ now = time
    /\ holder = NoCaller
    /\ caller = [c \in Callers |-> Resting(IF kind \in Events THEN EventCalls ELSE CondVarCalls)]

Init ==
    \/ \E kind \in Events, initialState \in BOOLEAN : Start(kind, initialState, Zero)
    \/ \E kind \in CondVars, nsec \in 0 .. NanosPerSecond - 1 :
           Start(kind, FALSE, [sec |-> 0, nsec |-> nsec])

At(c, place) == caller[c].at = place

Calling(c, call) == caller[c].call = call

Go(c, local) == caller' = [caller EXCEPT ![c] = local]

Same == UNCHANGED <<object, now>>

Operations ==
    IF object \in Events THEN {"signal", "reset", "wait"}
    ELSE {"timedWait", "wakeOne", "wakeAll"}

\* The time of day, waitMillis later.
Later(ts, waitMillis) == Nanos(ts) + waitMillis * NanosPerMilli

Timing == {c \in Callers : Calling(c, "timedWait")}

\* A call begins; with a mutex it begins with LockGuard.
Call(c) ==
    /\ At(c, "idle") /\ caller[c].left > 0
    /\ \E call \in Operations, millis \in WaitMillis :
           /\ IF call = "timedWait" THEN Cardinality(Timing) < TimedWaits ELSE millis = 0
           /\ Go(c, [Resting(caller[c].left) EXCEPT
                         !.at = IF object = "ManualResetEvent_Win32" THEN "body" ELSE "lock",
                         !.call = call, !.millis = millis, !.sawSet = (call = "wait" /\ state)])
    /\ Same /\ UNCHANGED <<state, holder>>

LockGuard(c) ==
    /\ At(c, "lock") /\ holder = NoCaller
    /\ holder' = c
    /\ Go(c, [caller[c] EXCEPT !.at = "body"])
    /\ Same /\ UNCHANGED state

\* The destructor of the guard, and the end of the call.
Return(c) ==
    /\ At(c, "unlock")
    /\ holder' = NoCaller
    /\ Go(c, Resting(caller[c].left - 1))
    /\ Same /\ UNCHANGED state

(***************************************************************************)
(* The condition variable.                                                 *)
(***************************************************************************)
Blocked == {c \in Callers : At(c, "blocked")}

Unblocked(local) == [local EXCEPT !.at = "relock", !.outcome = "woken"]

\* Waiting gives the mutex up and blocks in one step.
Block(c) ==
    /\ holder' = NoCaller
    /\ Go(c, [caller[c] EXCEPT !.at = "blocked"])

\* Mutant: wakeAll wakes one of the blocked threads.
WakeOneOfAll(c) ==
    IF Blocked = {} THEN Go(c, [caller[c] EXCEPT !.at = "unlock"])
    ELSE \E b \in Blocked :
             caller' = [caller EXCEPT ![c].at = "unlock", ![b] = Unblocked(@)]

WakeAll(c) ==
    caller' = [b \in Callers |->
                   IF b = c THEN [caller[c] EXCEPT !.at = "unlock"]
                   ELSE IF At(b, "blocked") THEN Unblocked(caller[b])
                   ELSE caller[b]]

WakeOne(c) ==
    IF Blocked = {} THEN Go(c, [caller[c] EXCEPT !.at = "unlock"])
    ELSE \E b \in Blocked :
             caller' = [caller EXCEPT ![c].at = "unlock", ![b] = Unblocked(@)]

\* A spurious wake-up.
WakeUp(c) ==
    /\ At(c, "blocked") /\ object # "ManualResetEvent_Win32"
    /\ Go(c, Unblocked(caller[c]))
    /\ Same /\ UNCHANGED <<state, holder>>

\* The mutex is taken again: wait() goes back to its loop, timedWait returns.
Relock(c) ==
    /\ At(c, "relock") /\ holder = NoCaller
    /\ holder' = c
    /\ Go(c, [caller[c] EXCEPT !.at = IF Calling(c, "timedWait") THEN "unlock" ELSE "test"])
    /\ Same /\ UNCHANGED state

(***************************************************************************)
(* ManualResetEvent_CondVar.                                               *)
(***************************************************************************)
\* Setting the event ends the wish of everybody who waits for it.
Seen(local) == [local EXCEPT !.sawSet = @ \/ local.call = "wait"]

Signal(c) ==
    /\ At(c, "body") /\ Calling(c, "signal") /\ object = "ManualResetEvent_CondVar"
    /\ state' = TRUE
    /\ caller' = [b \in Callers |->
                      IF b = c THEN [caller[c] EXCEPT !.at = "wake"] ELSE Seen(caller[b])]
    /\ Same /\ UNCHANGED holder

SignalWakes(c) ==
    /\ At(c, "wake")
    /\ WakeAll(c)
    /\ Same /\ UNCHANGED <<state, holder>>

Reset(c) ==
    /\ At(c, "body") /\ Calling(c, "reset") /\ object = "ManualResetEvent_CondVar"
    /\ state' = FALSE
    /\ Go(c, [caller[c] EXCEPT !.at = "unlock"])
    /\ Same /\ UNCHANGED holder

Enter(c) ==
    /\ At(c, "body") /\ Calling(c, "wait") /\ object = "ManualResetEvent_CondVar"
    /\ Go(c, [caller[c] EXCEPT !.at = "test"])
    /\ Same /\ UNCHANGED <<state, holder>>

\* Mutant: if instead of while.
TestOnce(c) ==
    /\ At(c, "test")
    /\ IF state \/ caller[c].outcome = "woken"
       THEN Go(c, [caller[c] EXCEPT !.at = "unlock"]) /\ UNCHANGED holder
       ELSE Block(c)
    /\ Same /\ UNCHANGED state

Test(c) ==
    /\ At(c, "test")
    /\ IF state
       THEN Go(c, [caller[c] EXCEPT !.at = "unlock"]) /\ UNCHANGED holder
       ELSE Block(c)
    /\ Same /\ UNCHANGED state

(***************************************************************************)
(* ManualResetEvent_Win32: SetEvent releases every thread that waits, even *)
(* if the event is reset at once.                                          *)
(***************************************************************************)
SetEvent(c) ==
    /\ At(c, "body") /\ Calling(c, "signal") /\ object = "ManualResetEvent_Win32"
    /\ state' = TRUE
    /\ caller' = [b \in Callers |->
                      IF b = c THEN [caller[c] EXCEPT !.at = "unlock"]
                      ELSE IF At(b, "blocked") THEN [Seen(caller[b]) EXCEPT !.at = "unlock"]
                      ELSE Seen(caller[b])]
    /\ Same /\ UNCHANGED holder

ResetEvent(c) ==
    /\ At(c, "body") /\ Calling(c, "reset") /\ object = "ManualResetEvent_Win32"
    /\ state' = FALSE
    /\ Go(c, [caller[c] EXCEPT !.at = "unlock"])
    /\ Same /\ UNCHANGED holder

WaitForSingleObject(c) ==
    /\ At(c, "body") /\ Calling(c, "wait") /\ object = "ManualResetEvent_Win32"
    /\ Go(c, [caller[c] EXCEPT !.at = IF state THEN "unlock" ELSE "blocked"])
    /\ Same /\ UNCHANGED <<state, holder>>

(***************************************************************************)
(* A bare condition variable, called with the guard held.                  *)
(***************************************************************************)
Wake(c) ==
    /\ At(c, "body")
    /\ \/ Calling(c, "wakeOne") /\ WakeOne(c)
       \/ Calling(c, "wakeAll") /\ WakeAll(c)
    /\ Same /\ UNCHANGED <<state, holder>>

\* timedWait does nothing for zero milliseconds; the POSIX one reads the
\* clock and computes its deadline before it blocks.  (Not on Apple, where the
\* code adds the milliseconds to a timespec it has not set.)
TimedWait(c) ==
    /\ At(c, "body") /\ Calling(c, "timedWait")
    /\ Go(c, [caller[c] EXCEPT
                  !.at = IF caller[c].millis > 0 THEN "timed" ELSE "unlock",
                  !.began = now,
                  !.deadline = IF object = "ConditionVariable_POSIX"
                               THEN DeadlineOf(now, caller[c].millis) ELSE Zero])
    /\ Same /\ UNCHANGED <<state, holder>>

\* pthread_cond_timedwait refuses a deadline that is no timespec, and
\* returns at once; the other systems are given the milliseconds.
BlockTimed(c) ==
    /\ At(c, "timed")
    /\ IF object = "ConditionVariable_POSIX" /\ ~Valid(caller[c].deadline)
       THEN Go(c, [caller[c] EXCEPT !.at = "unlock", !.outcome = "expired"]) /\ UNCHANGED holder
       ELSE /\ holder' = NoCaller
            /\ Go(c, [caller[c] EXCEPT
                          !.at = "blocked",
                          !.deadline =
                              IF object = "ConditionVariable_POSIX" THEN @
                              ELSE [sec |-> Later(now, caller[c].millis) \div NanosPerSecond,
                                    nsec |-> Later(now, caller[c].millis) % NanosPerSecond]])
    /\ Same /\ UNCHANGED state

Expire(c) ==
    /\ At(c, "blocked") /\ Calling(c, "timedWait") /\ Nanos(now) >= Nanos(caller[c].deadline)
    /\ Go(c, [caller[c] EXCEPT !.at = "relock", !.outcome = "expired"])
    /\ Same /\ UNCHANGED <<state, holder>>

\* Time passes, as long as it matters to somebody.
Tick ==
    /\ \E c \in Timing :
           /\ caller[c].millis > 0
           /\ Nanos(now) < MaxTime \/ (At(c, "blocked") /\ Nanos(now) < Nanos(caller[c].deadline))
    /\ now' = IF now.nsec = NanosPerSecond - 1 THEN [sec |-> now.sec + 1, nsec |-> 0]
              ELSE [now EXCEPT !.nsec = @ + 1]
    /\ UNCHANGED <<object, state, holder, caller>>

Event(c) ==
    \/ Signal(c) \/ SignalWakes(c) \/ Reset(c) \/ Enter(c) \/ Test(c)
    \/ SetEvent(c) \/ ResetEvent(c) \/ WaitForSingleObject(c)

\* What a thread does by itself once it has called.
Step(c) ==
    \/ LockGuard(c) \/ Return(c) \/ Relock(c) \/ Event(c)
    \/ Wake(c) \/ TimedWait(c) \/ BlockTimed(c) \/ Expire(c)

Next == Tick \/ \E c \in Callers : Call(c) \/ Step(c) \/ WakeUp(c)

Spec == Init /\ [][Next]_vars

\* Nobody is in a call but for waits on an event that is not set.
Quiet ==
    \A c \in Callers :
        At(c, "idle") \/ (At(c, "blocked") /\ Calling(c, "wait") /\ ~state)

(***************************************************************************)
(* What the waits promise.                                                 *)
(***************************************************************************)
\* wait() returns only if the event was set at some instant of the call, and
\* a timedWait that nothing woke returns no earlier than the milliseconds it was
\* given after it was entered.
WaitsReturnForAReason ==
    \A c \in Callers : At(c, "unlock") =>
        /\ Calling(c, "wait") => caller[c].sawSet
        /\ caller[c].outcome = "expired" =>
               Nanos(now) >= Later(caller[c].began, caller[c].millis)

\* Once the event stays set everybody who waits for it goes on, and a
\* timedWait ends even if nothing ever wakes it.
WaitsEnd ==
    \A c \in Callers :
        /\ <>[]state => []<>(~Calling(c, "wait"))
        /\ []<>(~Calling(c, "timedWait"))
=============================================================================
