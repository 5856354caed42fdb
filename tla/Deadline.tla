------------------------------ MODULE Deadline ------------------------------
(***************************************************************************)
(* The absolute deadline of ConditionVariable_POSIX::timedWait: the time   *)
(* of day, a timespec, advanced by a number of milliseconds.               *)
(***************************************************************************)
EXTENDS Integers

CONSTANTS
    MillisPerSecond,   \* 1000
    NanosPerMilli      \* 1000000

UnitsAssumption ==
    MillisPerSecond \in Nat \ {0} /\ NanosPerMilli \in Nat \ {0}

NanosPerSecond == MillisPerSecond * NanosPerMilli

\* What clock_gettime returns, and what pthread_cond_timedwait accepts.
Valid(ts) == ts.nsec \in 0 .. NanosPerSecond - 1

Timespecs == [sec : Nat, nsec : 0 .. NanosPerSecond - 1]

Nanos(ts) == ts.sec * NanosPerSecond + ts.nsec

\* Mutant: no carry.
Uncarried(now, waitMillis) ==
    [sec |-> now.sec + waitMillis \div MillisPerSecond,
     nsec |-> now.nsec + (waitMillis % MillisPerSecond) * NanosPerMilli]

DeadlineOf(now, waitMillis) ==
    LET sec == now.sec + waitMillis \div MillisPerSecond
        nsec == now.nsec + (waitMillis % MillisPerSecond) * NanosPerMilli
    IN  IF nsec >= NanosPerSecond
        THEN [sec |-> sec + 1, nsec |-> nsec - NanosPerSecond]
        ELSE [sec |-> sec, nsec |-> nsec]
=============================================================================
