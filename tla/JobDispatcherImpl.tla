------------------------- MODULE JobDispatcherImpl -------------------------
(***************************************************************************)
(* The dispatcher implements ForkJoin: the refinement mapping and the      *)
(* abstract specification as properties of JobDispatcher.  It needs the    *)
(* assumption that kickMulti is never given fewer targets than there are   *)
(* threads (KickMultiMayShrink = FALSE).                                   *)
(***************************************************************************)
EXTENDS JobDispatcher

\* A kick counts as made when main has set the job and as returned when
\* resetAction has cleared it; growing the pool happens inside the call.
kicking == op \in KickOps

AbsPending == {i \in Requested : runs[i] = 0}

\* While the pool shrinks the workers run noAction, which is no abstract step.
AbsActive ==
    {w \in Workers : kicking /\ wpc[w] = "run"} \cup {i \in {0} : pc = "selfRun"}

Abstract == INSTANCE ForkJoin WITH
    Index <- Indices, open <- kicking, pending <- AbsPending, active <- AbsActive

\* Every behaviour of the gates and workers is a behaviour of the abstract
\* fork/join call: kickOne, kickMulti and kick.
ImplementsForkJoin == Abstract!Spec

\* With fair scheduling every abstract call also completes.
ImplementsFairForkJoin == Abstract!FairSpec
=============================================================================
