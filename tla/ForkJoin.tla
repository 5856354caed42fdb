------------------------------ MODULE ForkJoin ------------------------------
(***************************************************************************)
(* What the public operations of the dispatcher promise, with no threads   *)
(* and no gates: a call runs every index of the set it requests exactly    *)
(* once, the runs overlap freely, and the call returns only when all of    *)
(* them are over.  JobDispatcher implements this specification.            *)
(***************************************************************************)
CONSTANT Index

VARIABLES
    open,       \* is a call in progress?
    pending,    \* requested indices that have not begun
    active      \* indices that are running

vars == <<open, pending, active>>

TypeOK == open \in BOOLEAN /\ pending \subseteq Index /\ active \subseteq Index

Init == open = FALSE /\ pending = {} /\ active = {}

Call(S) ==
    /\ ~open
    /\ open' = TRUE /\ pending' = S
    /\ UNCHANGED active

Begin(i) ==
    /\ i \in pending
    /\ pending' = pending \ {i} /\ active' = active \cup {i}
    /\ UNCHANGED open

End(i) ==
    /\ i \in active
    /\ active' = active \ {i}
    /\ UNCHANGED <<open, pending>>

Return ==
    /\ open /\ pending = {} /\ active = {}
    /\ open' = FALSE
    /\ UNCHANGED <<pending, active>>

Next ==
    \/ \E S \in (SUBSET Index) \ {{}} : Call(S)
    \/ \E i \in Index : Begin(i) \/ End(i)
    \/ Return

Spec == Init /\ [][Next]_vars

\* A call that is made is also answered.
FairSpec == Spec /\ WF_vars(Return \/ \E i \in Index : Begin(i) \/ End(i))
=============================================================================
