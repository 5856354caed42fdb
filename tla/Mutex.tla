------------------------------- MODULE Mutex -------------------------------
(***************************************************************************)
(* The recursive mutex every platform's turf::Mutex provides, after the    *)
(* POSIX implementation (src/turf/impl/Mutex_POSIX.h): its state is the    *)
(* owner and how often the owner has locked it.                            *)
(***************************************************************************)
EXTENDS Naturals

CONSTANTS
    Threads,
    NoThread,   \* the owner of an unlocked mutex
    MaxDepth    \* bound on the recursion depth

VARIABLES owner, depth

vars == <<owner, depth>>

TypeOK == owner \in Threads \cup {NoThread} /\ depth \in 0 .. MaxDepth

\* A freshly constructed mutex.
Constructed == owner = NoThread /\ depth = 0

Lock(t) ==
    /\ owner \in {NoThread, t} /\ depth < MaxDepth
    /\ owner' = t /\ depth' = depth + 1

Unlock(t) ==
    /\ owner = t
    /\ depth' = depth - 1
    /\ owner' = IF depth = 1 THEN NoThread ELSE t

Next == \E t \in Threads : Lock(t) \/ Unlock(t)

Spec == Constructed /\ [][Next]_vars
=============================================================================
