------------------------ MODULE JobDispatcherProofs ------------------------
(***************************************************************************)
(* Theorems about JobDispatcher for any number of threads: what the gates  *)
(* promise, and that it implements ForkJoin when kickMulti is never given  *)
(* fewer targets than there are threads.                                   *)
(***************************************************************************)
EXTENDS JobDispatcherImpl, FiniteSetTheorems, TLAPS

----------------------------------------------------------------------------
(* The inductive invariant.  Between two kicks the live workers are on     *)
(* their way to the start gate; between the two gates of a kick they are   *)
(* on their way to the end gate.                                           *)

RestPcs == {"idle", "grow", "kickStart", "kickStartStore", "shrinkStart",
            "shrinkStartStore", "reset"}
WorkPcs == {"self", "selfRun", "kickEnd", "kickEndStore", "join", "shrinkEnd",
            "shrinkEndStore"}
ShrinkPcs == {"shrinkStart", "shrinkStartStore", "join"}

At(place) == {w \in Workers : wpc[w] = place}

\* Each gate counts the workers that spin on it, in the phase it is for.
GateCounts ==
    /\ startKick = IF pc \in RestPcs THEN Cardinality(At("spinStart")) ELSE 0
    /\ endKick = IF pc \in WorkPcs THEN Cardinality(At("spinEnd")) ELSE 0

Gone(w) == w >= size \/ (pc = "join" /\ wanted <= w /\ w < cursor)

\* Where worker w can be, given where main is.
Placed(w) ==
    /\ Gone(w) => wpc[w] = "none"
    /\ ~Gone(w) /\ pc \in {"kickStartStore", "shrinkStartStore"} => wpc[w] = "spinStart"
    /\ ~Gone(w) /\ pc \in {"kickEndStore", "shrinkEndStore"} => wpc[w] = "spinEnd"
    /\ ~Gone(w) /\ pc \in RestPcs => wpc[w] \in {"arriveStart", "spinStart", "spinEnd"}
    /\ ~Gone(w) /\ pc = "join" /\ wanted <= w =>
          wpc[w] \in {"spinStart", "checkExit", "exited"}
    /\ ~Gone(w) /\ pc \in WorkPcs /\ ~(pc = "join" /\ wanted <= w) =>
          wpc[w] \in {"spinStart", "checkExit", "checkFilter", "run", "arriveEnd", "spinEnd"}

Places == \A w \in Workers : Placed(w)

ExitFlags ==
    \A w \in Alive : mustExit[w] <=> (pc \in ShrinkPcs /\ wanted <= w)

Sizes ==
    /\ pc = "unborn" <=> size = 0
    /\ pc = "grow" /\ op = "destroy" => size = 1 /\ wanted = 1
    /\ pc \in ShrinkPcs => wanted < size
    /\ pc = "join" => wanted <= cursor /\ cursor <= size
    /\ pc \in {"shrinkEnd", "shrinkEndStore"} => size = wanted
    /\ pc \in ShrinkPcs \cup {"shrinkEnd", "shrinkEndStore"} /\ op = "destroy" => wanted = 1

IInv == TypeOK /\ GateCounts /\ Places /\ ExitFlags /\ Sizes

\* What the current call has set up, and how far it has come.
KickPcs == {"kickStart", "kickStartStore", "self", "selfRun", "kickEnd",
            "kickEndStore", "reset"}

Done(i) ==
    IF i = 0 THEN pc \in {"selfRun", "kickEnd", "kickEndStore", "reset"}
             ELSE \/ pc = "reset"
                  \/ pc \in WorkPcs /\ wpc[i] \in {"run", "arriveEnd", "spinEnd"}

JobInv ==
    /\ pc \in KickPcs => op \in KickOps
    /\ pc \in ShrinkPcs \cup {"shrinkEnd", "shrinkEndStore"} => op \in {"setNum", "destroy"}
    /\ pc \in {"idle", "unborn"} => op = "none"
    /\ pc = "grow" => op # "kick"
    /\ op \in KickOps => m_action = "thunk"
    /\ op \notin KickOps => m_action = "noAction"
    /\ m_threadFilter = IF op = "kickOne" THEN arg ELSE -1
    /\ op = "kickOne" => IF pc = "grow" THEN wanted = arg + 1 ELSE arg < size
    /\ op = "kickMulti" =>
          IF pc = "grow" THEN wanted = arg /\ size <= wanted ELSE arg = size

RunsInv ==
    \A i \in Indices :
        runs[i] = IF pc \in KickPcs /\ i \in Requested /\ Done(i) THEN 1 ELSE 0

RInv == IInv /\ JobInv /\ RunsInv
----------------------------------------------------------------------------
(* Type correctness.                                                       *)

USE MaxThreadsAssumption, KickMultiAssumption

LEMMA Types == TypeOK /\ [Next]_vars => TypeOK'
<1> SUFFICES ASSUME TypeOK, [Next]_vars PROVE TypeOK'
  OBVIOUS
<1> USE DEF TypeOK, startGate!TypeOK, endGate!TypeOK, gates, job, call
<1>1. ASSUME NEW n \in 0 .. MaxThreads, Construct(n) PROVE TypeOK'
  BY <1>1 DEF Construct, resetAction, SetJob, MainPcs, Ops
<1>2. ASSUME NEW n \in 1 .. MaxThreads, EnterShrink(n) \/ EnterGrow(n)
      PROVE  /\ mustExit' \in [Workers -> BOOLEAN]
             /\ wanted' \in 1 .. MaxThreads /\ pc' \in MainPcs
  BY <1>2 DEF EnterShrink, EnterGrow, MainPcs
<1>3. ASSUME NEW n \in 1 .. MaxThreads, SetNum(n) \/ KickMulti(n) PROVE TypeOK'
  <2>1. EnterShrink(n) \/ EnterGrow(n)
    BY <1>3 DEF SetNum, KickMulti
  <2>2. m_threadFilter' \in Indices \cup {-1} /\ m_action' \in {"noAction", "thunk"}
    BY <1>3 DEF SetNum, KickMulti, EnterShrink, resetAction, SetJob
  <2>3. op' \in Ops /\ arg' \in 0 .. MaxThreads
    BY <1>3 DEF SetNum, KickMulti, Ops, KickOps
  <2> QED BY <1>2, <1>3, <2>1, <2>2, <2>3 DEF SetNum, KickMulti
<1>4. CASE Destroy
  <2>1. 1 \in 1 .. MaxThreads /\ (EnterShrink(1) \/ EnterGrow(1))
    BY <1>4 DEF Destroy
  <2>2. m_threadFilter' \in Indices \cup {-1} /\ m_action' \in {"noAction", "thunk"}
    BY <1>4 DEF Destroy, EnterShrink, resetAction, SetJob
  <2>3. op' \in Ops /\ arg' \in 0 .. MaxThreads
    BY <1>4 DEF Destroy, Ops
  <2> QED BY <1>2, <1>4, <2>1, <2>2, <2>3 DEF Destroy
<1>5. ASSUME NEW i \in Indices, KickOne(i) PROVE TypeOK'
  BY <1>5 DEF KickOne, SetJob, Indices, MainPcs, Ops, KickOps
<1>6. CASE KickAll
  BY <1>6 DEF KickAll, SetJob, MainPcs, Ops, KickOps
<1>7. CASE Spawn
  <2>1. size' \in 0 .. MaxThreads
    BY <1>7 DEF Spawn
  <2>2. mustExit' \in [Workers -> BOOLEAN] /\ wpc' \in [Workers -> WorkerPcs]
    BY <1>7 DEF Spawn, WorkerPcs
  <2> QED BY <1>7, <2>1, <2>2 DEF Spawn
<1>8. ASSUME Continue
      PROVE  pc' \in MainPcs /\ op' \in Ops /\ arg' \in 0 .. MaxThreads /\ size' \in 0 .. MaxThreads
  BY <1>8 DEF Continue, MainPcs, Ops
<1>9. CASE GrowDone \/ ShrinkEndStore
  BY <1>8, <1>9 DEF GrowDone, ShrinkEndStore, endGate!Kick
<1>10. CASE Join
  <2>1. cursor' \in 0 .. MaxThreads
    BY <1>10 DEF Join
  <2>2. wpc' \in [Workers -> WorkerPcs]
    BY <1>10 DEF Join, WorkerPcs
  <2> QED BY <1>10, <2>1, <2>2 DEF Join
<1>11. CASE Resize \/ ShrinkStart \/ ShrinkEnd
  BY <1>11 DEF Resize, ShrinkStart, ShrinkEnd, MainPcs
<1>12. CASE ShrinkStartStore
  BY <1>12 DEF ShrinkStartStore, startGate!Kick, MainPcs
<1>13. CASE KickStart \/ KickStartStore
  BY <1>13 DEF KickStart, KickStartStore, startGate!Kick, MainPcs
<1>14. CASE KickEnd \/ KickEndStore
  BY <1>14 DEF KickEnd, KickEndStore, endGate!Kick, MainPcs
<1>15. CASE SelfBegin
  BY <1>15 DEF SelfBegin, Count, Indices, MainPcs
<1>16. CASE SelfSkip \/ SelfEnd
  BY <1>16 DEF SelfSkip, SelfEnd, MainPcs
<1>17. CASE Return
  BY <1>17 DEF Return, resetAction, SetJob, MainPcs, Ops
<1>18. ASSUME NEW w \in Workers, ArriveStart(w) \/ PassStart(w) \/ CheckExit(w) PROVE TypeOK'
  BY <1>18 DEF ArriveStart, PassStart, CheckExit, startGate!Arrive, WorkerPcs
<1>19. ASSUME NEW w \in Workers, Skip(w) \/ BeginAction(w) PROVE TypeOK'
  <2> w \in Indices
    BY DEF Workers, Indices
  <2>1. runs' \in [Indices -> Nat]
    BY <1>19 DEF Skip, BeginAction, Count
  <2>2. wpc' \in [Workers -> WorkerPcs]
    BY <1>19 DEF Skip, BeginAction, WorkerPcs
  <2> QED BY <1>19, <2>1, <2>2 DEF Skip, BeginAction
<1>20. ASSUME NEW w \in Workers, EndAction(w) \/ ArriveEnd(w) \/ PassEnd(w) PROVE TypeOK'
  BY <1>20 DEF EndAction, ArriveEnd, PassEnd, endGate!Arrive, WorkerPcs
<1>21. CASE UNCHANGED vars
  BY <1>21 DEF vars
<1> QED
  BY <1>1, <1>3, <1>4, <1>5, <1>6, <1>7, <1>9, <1>10, <1>11, <1>12, <1>13, <1>14,
     <1>15, <1>16, <1>17, <1>18, <1>19, <1>20, <1>21 DEF Next, Call, Main, Worker

\* Every variable of the dispatcher keeps its type.
THEOREM TypeCorrect == Spec => []TypeOK
<1>1. Init => TypeOK
  BY DEF Init, TypeOK, startGate!Init, endGate!Init, startGate!TypeOK, endGate!TypeOK,
     Indices, Workers, WorkerPcs, MainPcs, Ops
<1> QED BY <1>1, Types, PTL DEF Spec

----------------------------------------------------------------------------
(* Counting the workers at a place.                                        *)

LEMMA AtFinite ==
  ASSUME NEW x
  PROVE  IsFiniteSet(At(x)) /\ Cardinality(At(x)) \in Nat
<1>1. IsFiniteSet(Workers)
  BY FS_Interval DEF Workers
<1>2. At(x) \in SUBSET Workers
  BY DEF At
<1> QED BY <1>1, <1>2, FS_Subset, FS_CardinalityType

\* Nobody there: the count is zero, and the other way round.
LEMMA AtNone ==
  ASSUME NEW x
  PROVE  Cardinality(At(x)) = 0 <=> \A w \in Workers : wpc[w] # x
<1>1. Cardinality(At(x)) = 0 <=> At(x) = {}
  BY AtFinite, FS_EmptySet
<1> QED BY <1>1 DEF At

\* All live workers counted: everyone is there.
LEMMA AtAll ==
  ASSUME NEW x, size \in 1 .. MaxThreads, Cardinality(At(x)) >= size - 1,
         \A w \in Workers : wpc[w] = x => w < size
  PROVE  Cardinality(At(x)) = size - 1 /\ \A w \in Alive : wpc[w] = x
<1>1. IsFiniteSet(Alive) /\ Cardinality(Alive) = size - 1
  BY FS_Interval DEF Alive
<1>2. At(x) \in SUBSET Alive
  BY DEF At, Alive, Workers
<1>3. Cardinality(At(x)) = Cardinality(Alive) /\ At(x) = Alive
  BY <1>1, <1>2, AtFinite, FS_Subset
<1> QED BY <1>1, <1>3 DEF At

\* One worker moves from p to q.
LEMMA AtMove ==
  ASSUME TypeOK, NEW w \in Workers, NEW q, wpc' = [wpc EXCEPT ![w] = q], wpc[w] # q, NEW x
  PROVE  /\ x # q /\ x # wpc[w] => Cardinality(At(x))' = Cardinality(At(x))
         /\ x = q => Cardinality(At(x))' = Cardinality(At(x)) + 1
<1> USE DEF TypeOK
<1>1. ASSUME x # q, x # wpc[w] PROVE Cardinality(At(x))' = Cardinality(At(x))
  <2> At(x)' = At(x)
    BY <1>1 DEF At
  <2> QED OBVIOUS
<1>2. ASSUME x = q PROVE Cardinality(At(x))' = Cardinality(At(x)) + 1
  <2>1. At(x)' = At(x) \cup {w} /\ w \notin At(x)
    BY <1>2 DEF At
  <2> QED BY <2>1, AtFinite, FS_AddElement
<1> QED BY <1>1, <1>2

----------------------------------------------------------------------------
(* The invariant is inductive: steps of the workers.                       *)

LEMMA WorkerStep ==
  ASSUME IInv, NEW w \in Workers, Worker(w)
  PROVE  GateCounts' /\ Places' /\ ExitFlags' /\ Sizes'
<1> USE DEF IInv
<1>t. TypeOK'
  BY Types DEF Next
<1>m. UNCHANGED <<size, mustExit, pc, op, arg, wanted, cursor>>
  BY DEF Worker, ArriveStart, PassStart, CheckExit, Skip, BeginAction, EndAction,
     ArriveEnd, PassEnd, call
<1>e. ExitFlags' /\ Sizes'
  BY <1>m DEF ExitFlags, Sizes, Alive
<1>g. \A v \in Workers : Gone(v)' = Gone(v)
  BY <1>m DEF Gone
<1>o. \A v \in Workers \ {w} : wpc'[v] = wpc[v]
  BY DEF TypeOK, Worker, ArriveStart, PassStart, CheckExit, Skip, BeginAction,
     EndAction, ArriveEnd, PassEnd
<1>p. Placed(w)' => Places'
  BY <1>m, <1>g, <1>o DEF Places, Placed
<1>n. ~Gone(w) /\ w \in Alive
  BY DEF Places, Placed, Gone, Alive, Workers, TypeOK, Worker, ArriveStart, PassStart,
     CheckExit, Skip, BeginAction, EndAction, ArriveEnd, PassEnd
<1>q. pc \in RestPcs \cup WorkPcs /\ Placed(w)
  BY <1>n DEF Places, Sizes, Gone, TypeOK, MainPcs, RestPcs, WorkPcs, Workers
<1>1. CASE ArriveStart(w)
  <2>1. wpc[w] = "arriveStart" /\ wpc' = [wpc EXCEPT ![w] = "spinStart"]
        /\ startKick' = startKick + 1 /\ endKick' = endKick
    BY <1>1 DEF ArriveStart, startGate!Arrive
  <2>2. pc \in RestPcs \ {"kickStartStore", "shrinkStartStore"} /\ wpc'[w] = "spinStart"
    BY <1>n, <1>q, <2>1 DEF Placed, TypeOK, RestPcs, WorkPcs
  <2>3. Cardinality(At("spinStart"))' = Cardinality(At("spinStart")) + 1
    BY <2>1, AtMove
  <2>4. GateCounts'
    BY <1>m, <2>1, <2>2, <2>3 DEF GateCounts, RestPcs, WorkPcs
  <2>5. Placed(w)'
    BY <1>m, <1>g, <1>n, <2>2 DEF Placed, RestPcs, WorkPcs
  <2> QED BY <1>e, <1>p, <2>4, <2>5
\* Nobody passes the start gate in the rest phase: its counter is not zero.
<1>2. CASE PassStart(w)
  <2>1. wpc[w] = "spinStart" /\ wpc' = [wpc EXCEPT ![w] = "checkExit"]
        /\ startKick = 0 /\ UNCHANGED <<startKick, endKick>>
    BY <1>2 DEF PassStart, startGate!Released, gates, TypeOK, startGate!TypeOK
  <2>2. pc \in WorkPcs \ {"kickEndStore", "shrinkEndStore"} /\ pc \notin RestPcs
        /\ wpc'[w] = "checkExit"
    BY <1>n, <1>q, <2>1, AtNone DEF GateCounts, Placed, TypeOK, RestPcs, WorkPcs
  <2>3. Cardinality(At("spinEnd"))' = Cardinality(At("spinEnd"))
    BY <2>1, AtMove
  <2>4. GateCounts'
    BY <1>m, <2>1, <2>2, <2>3 DEF GateCounts
  <2>5. Placed(w)'
    BY <1>m, <1>g, <1>n, <2>2 DEF Placed, RestPcs, WorkPcs
  <2> QED BY <1>e, <1>p, <2>4, <2>5
<1>3. CASE CheckExit(w)
  <2>1. /\ wpc[w] = "checkExit"
        /\ wpc' = [wpc EXCEPT ![w] = IF mustExit[w] THEN "exited" ELSE "checkFilter"]
        /\ UNCHANGED <<startKick, endKick>>
    BY <1>3 DEF CheckExit, gates
  <2>2. pc \in WorkPcs \ {"kickEndStore", "shrinkEndStore"} /\ pc \notin RestPcs
    BY <1>n, <1>q, <2>1 DEF Placed, TypeOK, RestPcs, WorkPcs
  <2>3. wpc'[w] = IF pc = "join" /\ wanted <= w THEN "exited" ELSE "checkFilter"
    BY <1>n, <2>1, <2>2 DEF ExitFlags, TypeOK, WorkPcs, ShrinkPcs
  <2>4. Cardinality(At("spinEnd"))' = Cardinality(At("spinEnd"))
    <3>1. PICK q \in {"exited", "checkFilter"} : wpc' = [wpc EXCEPT ![w] = q]
      BY <2>1
    <3> QED BY <2>1, <3>1, AtMove
  <2>5. GateCounts'
    BY <1>m, <2>1, <2>2, <2>4 DEF GateCounts
  <2>6. Placed(w)'
    BY <1>m, <1>g, <1>n, <2>2, <2>3 DEF Placed, RestPcs, WorkPcs
  <2> QED BY <1>e, <1>p, <2>5, <2>6
<1>4. CASE Skip(w) \/ BeginAction(w) \/ EndAction(w)
  <2>1. /\ wpc[w] \in {"checkFilter", "run"}
        /\ \E q \in {"run", "arriveEnd"} : q # wpc[w] /\ wpc' = [wpc EXCEPT ![w] = q]
        /\ UNCHANGED <<startKick, endKick>>
    BY <1>4 DEF Skip, BeginAction, EndAction, gates
  <2>2. pc \in WorkPcs \ {"kickEndStore", "shrinkEndStore"} /\ pc \notin RestPcs
        /\ ~(pc = "join" /\ wanted <= w) /\ wpc'[w] \in {"run", "arriveEnd"}
    BY <1>n, <1>q, <2>1 DEF Placed, TypeOK, RestPcs, WorkPcs
  <2>3. Cardinality(At("spinEnd"))' = Cardinality(At("spinEnd"))
    <3>1. PICK q \in {"run", "arriveEnd"} : q # wpc[w] /\ wpc' = [wpc EXCEPT ![w] = q]
      BY <2>1
    <3> QED BY <2>1, <3>1, AtMove
  <2>4. GateCounts'
    BY <1>m, <2>1, <2>2, <2>3 DEF GateCounts
  <2>5. Placed(w)'
    BY <1>m, <1>g, <1>n, <2>2 DEF Placed, RestPcs, WorkPcs
  <2> QED BY <1>e, <1>p, <2>4, <2>5
<1>5. CASE ArriveEnd(w)
  <2>1. wpc[w] = "arriveEnd" /\ wpc' = [wpc EXCEPT ![w] = "spinEnd"]
        /\ startKick' = startKick /\ endKick' = endKick + 1
    BY <1>5 DEF ArriveEnd, endGate!Arrive
  <2>2. pc \in WorkPcs \ {"kickEndStore", "shrinkEndStore"} /\ pc \notin RestPcs
        /\ ~(pc = "join" /\ wanted <= w) /\ wpc'[w] = "spinEnd"
    BY <1>n, <1>q, <2>1 DEF Placed, TypeOK, RestPcs, WorkPcs
  <2>3. Cardinality(At("spinEnd"))' = Cardinality(At("spinEnd")) + 1
    BY <2>1, AtMove
  <2>4. GateCounts'
    BY <1>m, <2>1, <2>2, <2>3 DEF GateCounts
  <2>5. Placed(w)'
    BY <1>m, <1>g, <1>n, <2>2 DEF Placed, RestPcs, WorkPcs
  <2> QED BY <1>e, <1>p, <2>4, <2>5
\* Nobody passes the end gate in the work phase: its counter is not zero.
<1>6. CASE PassEnd(w)
  <2>1. wpc[w] = "spinEnd" /\ wpc' = [wpc EXCEPT ![w] = "arriveStart"]
        /\ endKick = 0 /\ UNCHANGED <<startKick, endKick>>
    BY <1>6 DEF PassEnd, endGate!Released, gates, TypeOK, endGate!TypeOK
  <2>2. pc \in RestPcs \ {"kickStartStore", "shrinkStartStore"} /\ pc \notin WorkPcs
        /\ wpc'[w] = "arriveStart"
    BY <1>n, <1>q, <2>1, AtNone DEF GateCounts, Placed, TypeOK, RestPcs, WorkPcs
  <2>3. Cardinality(At("spinStart"))' = Cardinality(At("spinStart"))
    BY <2>1, AtMove
  <2>4. GateCounts'
    BY <1>m, <2>1, <2>2, <2>3 DEF GateCounts
  <2>5. Placed(w)'
    BY <1>m, <1>g, <1>n, <2>2 DEF Placed, RestPcs, WorkPcs
  <2> QED BY <1>e, <1>p, <2>4, <2>5
<1> QED BY <1>1, <1>2, <1>3, <1>4, <1>5, <1>6 DEF Worker

----------------------------------------------------------------------------
(* Steps of the main thread.                                               *)

\* A step of main that moves no worker, stays in its phase and closes no gate.
LEMMA SamePhase ==
  ASSUME TypeOK, GateCounts, UNCHANGED <<wpc, startKick, endKick>>,
         pc \in RestPcs <=> pc' \in RestPcs, pc \in WorkPcs <=> pc' \in WorkPcs
  PROVE  GateCounts'
BY DEF GateCounts, At

LEMMA CallStep ==
  ASSUME IInv, Call
  PROVE  GateCounts' /\ Places' /\ ExitFlags' /\ Sizes'
<1> USE DEF IInv
<1>t. TypeOK'
  BY Types DEF Next
<1>m. UNCHANGED <<wpc, startKick, endKick>>
  BY DEF Call, Construct, SetNum, KickMulti, KickOne, KickAll, Destroy, gates
<1>1. ASSUME NEW n \in 0 .. MaxThreads, Construct(n) PROVE GateCounts' /\ Places' /\ ExitFlags' /\ Sizes'
  <2>1. pc = "unborn" /\ pc' = "grow" /\ size = 0 /\ size' = 1 /\ op' = "construct"
    BY <1>1 DEF Construct, Sizes
  <2>2. \A w \in Workers : wpc[w] = "none"
    BY <2>1 DEF Places, Placed, Gone, Workers
  <2>3. GateCounts'
    <3>1. startKick = 0 /\ endKick = 0
      BY <2>1 DEF GateCounts, RestPcs, WorkPcs
    <3>2. Cardinality(At("spinStart")) = 0
      BY <2>2, AtNone
    <3>3. At("spinStart")' = At("spinStart")
      BY <1>m DEF At
    <3> QED BY <1>m, <2>1, <3>1, <3>2, <3>3 DEF GateCounts, RestPcs, WorkPcs
  <2>4. Places'
    BY <1>m, <2>1, <2>2 DEF Places, Placed, Gone, Workers, RestPcs, WorkPcs
  <2>5. ExitFlags' /\ Sizes'
    BY <2>1 DEF ExitFlags, Sizes, Alive, ShrinkPcs
  <2> QED BY <2>3, <2>4, <2>5
<1>2. ASSUME pc = "idle", pc' \in {"kickStart", "grow"}, UNCHANGED <<size, mustExit>>,
             pc' = "grow" /\ op' = "destroy" => size = 1 /\ wanted' = 1
      PROVE  GateCounts' /\ Places' /\ ExitFlags' /\ Sizes'
  <2>1. GateCounts'
    BY <1>m, <1>2, SamePhase DEF RestPcs, WorkPcs
  <2>2. Places'
    BY <1>m, <1>2 DEF Places, Placed, Gone, RestPcs, WorkPcs
  <2>3. ExitFlags' /\ Sizes'
    BY <1>2 DEF ExitFlags, Sizes, Alive, ShrinkPcs
  <2> QED BY <2>1, <2>2, <2>3
<1>3. ASSUME NEW n \in 1 .. MaxThreads, pc = "idle", EnterShrink(n), UNCHANGED size,
             op' = "destroy" => n = 1
      PROVE  GateCounts' /\ Places' /\ ExitFlags' /\ Sizes'
  <2>1. n < size /\ wanted' = n /\ pc' = "shrinkStart"
    BY <1>3 DEF EnterShrink
  <2>2. GateCounts'
    BY <1>m, <1>3, <2>1, SamePhase DEF RestPcs, WorkPcs
  <2>3. Places'
    BY <1>m, <1>3, <2>1 DEF Places, Placed, Gone, RestPcs, WorkPcs
  <2>4. ExitFlags'
    <3> SUFFICES ASSUME NEW w \in Alive PROVE mustExit'[w] <=> n <= w
      BY <1>3, <2>1 DEF ExitFlags, ShrinkPcs, Alive
    <3>1. w \in Workers /\ w < size /\ ~mustExit[w]
      BY <1>3 DEF ExitFlags, ShrinkPcs, Alive, Workers, TypeOK
    <3> QED BY <1>3, <3>1 DEF EnterShrink
  <2>5. Sizes'
    BY <1>3, <2>1 DEF Sizes, ShrinkPcs
  <2> QED BY <2>2, <2>3, <2>4, <2>5
<1>4. ASSUME NEW n \in 1 .. MaxThreads, SetNum(n) \/ KickMulti(n)
      PROVE  GateCounts' /\ Places' /\ ExitFlags' /\ Sizes'
  <2>1. pc = "idle" /\ UNCHANGED size /\ op' # "destroy" /\ (EnterShrink(n) \/ EnterGrow(n))
    BY <1>4 DEF SetNum, KickMulti
  <2>2. CASE EnterShrink(n)
    BY <1>3, <2>1, <2>2
  <2>3. CASE EnterGrow(n)
    BY <1>2, <2>1, <2>3 DEF EnterGrow
  <2> QED BY <2>1, <2>2, <2>3
<1>5. CASE Destroy
  <2>1. pc = "idle" /\ UNCHANGED size /\ 1 \in 1 .. MaxThreads /\ (EnterShrink(1) \/ EnterGrow(1))
    BY <1>5 DEF Destroy
  <2>2. CASE EnterShrink(1)
    BY <1>3, <2>1, <2>2
  <2>3. CASE EnterGrow(1)
    <3>1. size = 1
      BY <2>1, <2>3 DEF EnterGrow, Sizes, TypeOK
    <3> QED BY <1>2, <2>1, <2>3, <3>1 DEF EnterGrow
  <2> QED BY <2>1, <2>2, <2>3
<1>6. ASSUME NEW i \in Indices, KickOne(i) PROVE GateCounts' /\ Places' /\ ExitFlags' /\ Sizes'
  BY <1>2, <1>6 DEF KickOne
<1>7. CASE KickAll
  BY <1>2, <1>7 DEF KickAll
<1> QED BY <1>1, <1>4, <1>5, <1>6, <1>7 DEF Call

LEMMA MainStep ==
  ASSUME IInv, Main
  PROVE  GateCounts' /\ Places' /\ ExitFlags' /\ Sizes'
<1> USE DEF IInv
<1>t. TypeOK'
  BY Types DEF Next
<1>f. ASSUME UNCHANGED <<size, mustExit>>, pc' \notin ShrinkPcs, pc \notin ShrinkPcs
      PROVE  ExitFlags'
  BY <1>f DEF ExitFlags, Alive
\* The index handed to a new thread is that of a worker that was not there.
<1>1. CASE Spawn
  <2>1. pc = "grow" /\ pc' = "grow" /\ size' = size + 1 /\ size < wanted /\ wanted' = wanted
        /\ op' = op /\ UNCHANGED <<startKick, endKick>>
    BY <1>1 DEF Spawn, gates, call
  <2>2. size \in Workers /\ wpc[size] = "none"
    BY <2>1 DEF Sizes, TypeOK, Workers, Places, Placed, Gone
  <2>3. wpc' = [wpc EXCEPT ![size] = "arriveStart"]
        /\ mustExit' = [mustExit EXCEPT ![size] = FALSE]
    BY <1>1 DEF Spawn
  <2>4. GateCounts'
    <3>1. Cardinality(At("spinStart"))' = Cardinality(At("spinStart"))
      BY <2>2, <2>3, AtMove
    <3> QED BY <2>1, <3>1 DEF GateCounts, RestPcs, WorkPcs
  <2>5. Places'
    <3> SUFFICES ASSUME NEW v \in Workers PROVE Placed(v)'
      BY DEF Places
    <3>1. CASE v = size
      BY <2>1, <2>2, <2>3, <3>1 DEF Placed, Gone, TypeOK, RestPcs, WorkPcs
    <3>2. CASE v # size
      <4>1. wpc'[v] = wpc[v] /\ (Gone(v)' <=> Gone(v))
        BY <2>1, <2>2, <2>3, <3>2 DEF TypeOK, Gone, Workers
      <4> QED BY <2>1, <4>1 DEF Places, Placed, RestPcs, WorkPcs
    <3> QED BY <3>1, <3>2
  <2>6. ExitFlags'
    <3> SUFFICES ASSUME NEW v \in 1 .. size PROVE ~mustExit'[v]
      BY <2>1, <2>2 DEF ExitFlags, ShrinkPcs, Alive, Workers
    <3>1. CASE v = size
      BY <2>2, <2>3, <3>1 DEF TypeOK
    <3>2. CASE v # size
      <4>1. v \in Alive /\ ~mustExit[v]
        BY <2>1, <2>2, <3>2 DEF ExitFlags, ShrinkPcs, Alive, Workers
      <4> QED BY <2>2, <2>3, <3>2, <4>1 DEF TypeOK
    <3> QED BY <3>1, <3>2
  <2>7. Sizes'
    BY <2>1, <2>2 DEF Sizes, ShrinkPcs, Workers
  <2> QED BY <2>4, <2>5, <2>6, <2>7
<1>2. ASSUME Continue, pc \in {"grow", "shrinkEndStore"}, UNCHANGED <<wpc, mustExit, wanted>>,
             op = "destroy" => size = 1, startKick' = Cardinality(At("spinStart")), endKick' = 0
      PROVE  GateCounts' /\ Places' /\ ExitFlags' /\ Sizes'
  <2>1. \/ pc' \in {"kickStart", "idle"} /\ size' = size
        \/ pc' = "unborn" /\ size' = 0 /\ size = 1
    BY <1>2 DEF Continue, KickOps
  <2>2. \A v \in Workers : ~Gone(v) => wpc[v] \in {"arriveStart", "spinStart", "spinEnd"}
    BY <1>2 DEF Places, Placed, RestPcs
  <2>3. \A v \in Workers : Gone(v) => wpc[v] = "none"
    BY DEF Places, Placed
  <2>4. \A v \in Workers : Gone(v)' <=> Gone(v)
    BY <1>2, <2>1 DEF Gone, Workers
  <2>5. Places'
    BY <1>2, <2>1, <2>2, <2>3, <2>4 DEF Places, Placed, RestPcs, WorkPcs
  <2>6. GateCounts'
    <3>1. At("spinStart")' = At("spinStart")
      BY <1>2 DEF At
    <3>2. pc' = "unborn" => Cardinality(At("spinStart")) = 0
      <4>1. pc' = "unborn" => \A v \in Workers : wpc[v] = "none"
        BY <2>1, <2>3 DEF Gone, Workers
      <4> QED BY <4>1, AtNone
    <3> QED BY <1>2, <2>1, <3>1, <3>2 DEF GateCounts, RestPcs, WorkPcs
  <2>7. ExitFlags'
    BY <1>2, <2>1 DEF ExitFlags, Alive, ShrinkPcs
  <2>8. Sizes'
    BY <1>2, <2>1 DEF Sizes, ShrinkPcs
  <2> QED BY <2>5, <2>6, <2>7, <2>8
<1>3. CASE GrowDone
  <2>1. startKick' = Cardinality(At("spinStart")) /\ endKick' = 0
    BY <1>3 DEF GrowDone, GateCounts, RestPcs, WorkPcs, gates
  <2> QED BY <1>2, <1>3, <2>1 DEF GrowDone, Sizes
<1>4. CASE ShrinkEndStore
  <2>1. \A v \in Workers : wpc[v] # "spinStart"
    BY <1>4 DEF ShrinkEndStore, Places, Placed
  <2>2. startKick' = Cardinality(At("spinStart")) /\ endKick' = 0
    BY <1>4, <2>1, AtNone DEF ShrinkEndStore, endGate!Kick, GateCounts, RestPcs
  <2>3. op = "destroy" => size = 1
    BY <1>4 DEF ShrinkEndStore, Sizes
  <2> QED BY <1>2, <1>4, <2>2, <2>3 DEF ShrinkEndStore
\* The last load of kick() on the start gate: every worker has arrived.
<1>5. CASE ShrinkStart \/ KickStart
  <2>1. /\ UNCHANGED <<size, mustExit, wpc, startKick, endKick, op, wanted, cursor>>
        /\ startKick >= size - 1
        /\ \/ pc = "shrinkStart" /\ pc' = "shrinkStartStore"
           \/ pc = "kickStart" /\ pc' = "kickStartStore"
    BY <1>5 DEF ShrinkStart, KickStart, startGate!Ready, TypeOK, startGate!TypeOK, gates, call
  <2>2. size \in 1 .. MaxThreads
    BY <2>1 DEF Sizes, TypeOK
  <2>3. \A v \in Alive : wpc[v] = "spinStart"
    <3>1. \A v \in Workers : wpc[v] = "spinStart" => v < size
      BY <2>2 DEF Places, Placed, Gone, Workers
    <3>2. Cardinality(At("spinStart")) >= size - 1
      BY <2>1 DEF GateCounts, RestPcs
    <3> QED BY <2>2, <3>1, <3>2, AtAll
  <2>4. GateCounts'
    BY <2>1, SamePhase DEF RestPcs, WorkPcs
  <2>5. Places'
    BY <2>1, <2>3 DEF Places, Placed, Gone, Alive, Workers, TypeOK, RestPcs, WorkPcs
  <2>6. ExitFlags' /\ Sizes'
    BY <2>1 DEF ExitFlags, Sizes, ShrinkPcs, Alive
  <2> QED BY <2>4, <2>5, <2>6
<1>6. CASE ShrinkStartStore \/ KickStartStore
  <2>1. /\ UNCHANGED <<size, mustExit, wpc, endKick, op, wanted>> /\ startKick' = 0
        /\ \/ pc = "shrinkStartStore" /\ pc' = "join" /\ cursor' = wanted
           \/ pc = "kickStartStore" /\ pc' = "self" /\ cursor' = cursor
    BY <1>6 DEF ShrinkStartStore, KickStartStore, startGate!Kick, call
  <2>2. \A v \in Workers : wpc[v] \in {"none", "spinStart"}
    BY <2>1 DEF Places, Placed
  <2>3. GateCounts'
    <3>1. Cardinality(At("spinEnd")) = 0
      BY <2>2, AtNone
    <3>2. At("spinEnd")' = At("spinEnd")
      BY <2>1 DEF At
    <3> QED BY <2>1, <3>1, <3>2 DEF GateCounts, RestPcs, WorkPcs
  <2>4. Places'
    BY <2>1 DEF Places, Placed, Gone, TypeOK, Workers, RestPcs, WorkPcs
  <2>5. ExitFlags' /\ Sizes'
    BY <2>1 DEF ExitFlags, Sizes, ShrinkPcs, Alive, TypeOK
  <2> QED BY <2>3, <2>4, <2>5
<1>7. CASE Join
  <2>1. /\ pc = "join" /\ cursor < size /\ wpc[cursor] = "exited"
        /\ wpc' = [wpc EXCEPT ![cursor] = "none"] /\ cursor' = cursor + 1
        /\ UNCHANGED <<size, mustExit, pc, op, wanted, startKick, endKick>>
    BY <1>7 DEF Join, gates
  <2>2. cursor \in Workers
    BY <2>1 DEF Sizes, TypeOK, Workers
  <2>3. GateCounts'
    <3>1. Cardinality(At("spinEnd"))' = Cardinality(At("spinEnd"))
      BY <2>1, <2>2, AtMove
    <3> QED BY <2>1, <3>1 DEF GateCounts, RestPcs, WorkPcs
  <2>4. Places'
    <3> SUFFICES ASSUME NEW v \in Workers PROVE Placed(v)'
      BY DEF Places
    <3>1. CASE v = cursor
      BY <2>1, <2>2, <3>1 DEF Placed, Gone, Sizes, ShrinkPcs, TypeOK, RestPcs, WorkPcs
    <3>2. CASE v # cursor
      <4>1. wpc'[v] = wpc[v] /\ (Gone(v)' <=> Gone(v))
        BY <2>1, <2>2, <3>2 DEF TypeOK, Gone, Workers
      <4> QED BY <2>1, <4>1 DEF Places, Placed, RestPcs, WorkPcs
    <3> QED BY <3>1, <3>2
  <2>5. ExitFlags' /\ Sizes'
    BY <2>1 DEF ExitFlags, Sizes, ShrinkPcs, Alive, TypeOK
  <2> QED BY <2>3, <2>4, <2>5
<1>8. CASE Resize
  <2>1. /\ pc = "join" /\ pc' = "shrinkEnd" /\ size' = wanted /\ cursor = size
        /\ wanted < size /\ wanted >= 1
        /\ UNCHANGED <<wpc, mustExit, op, wanted, cursor, startKick, endKick>>
    BY <1>8 DEF Resize, Sizes, TypeOK, gates, call, ShrinkPcs
  <2>2. GateCounts'
    BY <2>1, SamePhase DEF RestPcs, WorkPcs
  <2>3. Places'
    BY <2>1 DEF Places, Placed, Gone, TypeOK, Workers, RestPcs, WorkPcs
  <2>4. ExitFlags' /\ Sizes'
    BY <2>1 DEF ExitFlags, Sizes, ShrinkPcs, Alive, TypeOK
  <2> QED BY <2>2, <2>3, <2>4
\* The last load of kick() on the end gate: every worker has arrived.
<1>9. CASE ShrinkEnd \/ KickEnd
  <2>1. /\ UNCHANGED <<size, mustExit, wpc, startKick, endKick, op, wanted, cursor>>
        /\ endKick >= size - 1
        /\ \/ pc = "shrinkEnd" /\ pc' = "shrinkEndStore"
           \/ pc = "kickEnd" /\ pc' = "kickEndStore"
    BY <1>9 DEF ShrinkEnd, KickEnd, endGate!Ready, TypeOK, endGate!TypeOK, Sizes, gates, call
  <2>2. size \in 1 .. MaxThreads
    BY <2>1 DEF Sizes, TypeOK
  <2>3. \A v \in Alive : wpc[v] = "spinEnd"
    <3>1. \A v \in Workers : wpc[v] = "spinEnd" => v < size
      BY <2>2 DEF Places, Placed, Gone, Workers
    <3>2. Cardinality(At("spinEnd")) >= size - 1
      BY <2>1 DEF GateCounts, WorkPcs
    <3> QED BY <2>2, <3>1, <3>2, AtAll
  <2>4. GateCounts'
    BY <2>1, SamePhase DEF RestPcs, WorkPcs
  <2>5. Places'
    BY <2>1, <2>3 DEF Places, Placed, Gone, Alive, Workers, TypeOK, RestPcs, WorkPcs
  <2>6. ExitFlags' /\ Sizes'
    BY <2>1 DEF ExitFlags, Sizes, ShrinkPcs, Alive
  <2> QED BY <2>4, <2>5, <2>6
<1>10. CASE KickEndStore
  <2>1. /\ UNCHANGED <<size, mustExit, wpc, startKick, op, wanted, cursor>> /\ endKick' = 0
        /\ pc = "kickEndStore" /\ pc' = "reset"
    BY <1>10 DEF KickEndStore, endGate!Kick, call
  <2>2. \A v \in Workers : wpc[v] \in {"none", "spinEnd"}
    BY <2>1 DEF Places, Placed
  <2>3. GateCounts'
    <3>1. Cardinality(At("spinStart")) = 0
      BY <2>2, AtNone
    <3>2. At("spinStart")' = At("spinStart")
      BY <2>1 DEF At
    <3> QED BY <2>1, <3>1, <3>2 DEF GateCounts, RestPcs, WorkPcs
  <2>4. Places'
    BY <2>1 DEF Places, Placed, Gone, TypeOK, Workers, RestPcs, WorkPcs
  <2>5. ExitFlags' /\ Sizes'
    BY <2>1 DEF ExitFlags, Sizes, ShrinkPcs, Alive, TypeOK
  <2> QED BY <2>3, <2>4, <2>5
<1>11. CASE SelfBegin \/ SelfSkip \/ SelfEnd \/ Return
  <2>1. /\ UNCHANGED <<size, mustExit, wpc, startKick, endKick, wanted, cursor>>
        /\ \/ pc \in {"self", "selfRun"} /\ pc' \in {"selfRun", "kickEnd"}
           \/ pc = "reset" /\ pc' = "idle"
    BY <1>11 DEF SelfBegin, SelfSkip, SelfEnd, Return, gates, call
  <2>2. GateCounts'
    BY <2>1, SamePhase DEF RestPcs, WorkPcs
  <2>3. Places'
    BY <2>1 DEF Places, Placed, Gone, RestPcs, WorkPcs
  <2>4. ExitFlags' /\ Sizes'
    BY <2>1 DEF ExitFlags, Sizes, ShrinkPcs, Alive
  <2> QED BY <2>2, <2>3, <2>4
<1> QED BY <1>1, <1>3, <1>4, <1>5, <1>6, <1>7, <1>8, <1>9, <1>10, <1>11 DEF Main

LEMMA Inductive == IInv /\ [Next]_vars => IInv'
<1> SUFFICES ASSUME IInv, [Next]_vars PROVE IInv'
  OBVIOUS
<1>1. TypeOK'
  BY Types DEF IInv
<1>2. GateCounts' /\ Places' /\ ExitFlags' /\ Sizes'
  <2>1. CASE Next
    BY <2>1, CallStep, MainStep, WorkerStep DEF Next
  <2>2. CASE UNCHANGED vars
    BY <2>2 DEF IInv, vars, gates, call, GateCounts, At, Places, Placed, Gone, ExitFlags,
       Alive, Sizes
  <2> QED BY <2>1, <2>2
<1> QED BY <1>1, <1>2 DEF IInv

LEMMA Initially == Init => IInv
<1> SUFFICES ASSUME Init PROVE IInv
  OBVIOUS
<1>1. TypeOK
  BY DEF Init, TypeOK, startGate!Init, endGate!Init, startGate!TypeOK, endGate!TypeOK,
     Indices, Workers, WorkerPcs, MainPcs, Ops
<1>2. GateCounts
  BY DEF Init, startGate!Init, endGate!Init, GateCounts, RestPcs, WorkPcs
<1>3. Places
  BY DEF Init, Places, Placed, Gone, Workers, RestPcs, WorkPcs
<1>4. ExitFlags /\ Sizes
  BY DEF Init, ExitFlags, Alive, Sizes, ShrinkPcs
<1> QED BY <1>1, <1>2, <1>3, <1>4 DEF IInv

LEMMA Invariant == Spec => []IInv
BY Initially, Inductive, PTL DEF Spec

----------------------------------------------------------------------------
(* What follows from the invariant alone, whatever the callers do.         *)

\* No arrival falls between the last load of kick() and its store of zero.
THEOREM GatesLoseNoArrival == Spec => []NoArrivalLost
<1>1. IInv => NoArrivalLost
  <2> SUFFICES ASSUME IInv PROVE NoArrivalLost
    OBVIOUS
  <2> USE DEF IInv
  <2>1. ASSUME pc \in {"kickStartStore", "shrinkStartStore"}
        PROVE  startKick = size - 1 /\ \A w \in Alive : wpc[w] = "spinStart"
    <3>1. \A w \in Alive : wpc[w] = "spinStart" /\ w \in Workers
      BY <2>1 DEF Places, Placed, Gone, Alive, Workers, TypeOK
    <3>2. At("spinStart") = Alive
      BY <2>1, <3>1 DEF At, Places, Placed, Gone, Alive, Workers, TypeOK
    <3>3. size \in 1 .. MaxThreads
      BY <2>1 DEF Sizes, TypeOK
    <3>4. Cardinality(Alive) = size - 1
      BY <3>3, FS_Interval DEF Alive
    <3> QED BY <2>1, <3>1, <3>2, <3>4 DEF GateCounts, RestPcs
  <2>2. ASSUME pc \in {"kickEndStore", "shrinkEndStore"}
        PROVE  endKick = size - 1 /\ \A w \in Alive : wpc[w] = "spinEnd"
    <3>1. \A w \in Alive : wpc[w] = "spinEnd" /\ w \in Workers
      BY <2>2 DEF Places, Placed, Gone, Alive, Workers, TypeOK
    <3>2. At("spinEnd") = Alive
      BY <2>2, <3>1 DEF At, Places, Placed, Gone, Alive, Workers, TypeOK
    <3>3. size \in 1 .. MaxThreads
      BY <2>2 DEF Sizes, TypeOK
    <3>4. Cardinality(Alive) = size - 1
      BY <3>3, FS_Interval DEF Alive
    <3> QED BY <2>2, <3>1, <3>2, <3>4 DEF GateCounts, WorkPcs
  <2> QED BY <2>1, <2>2 DEF NoArrivalLost
<1> QED BY <1>1, Invariant, PTL

\* Outside the work phase every worker waits.
LEMMA RestMeansOutside ==
  ASSUME IInv, pc \in RestPcs \cup {"unborn", "kickEndStore"}
  PROVE  \A w \in Workers : ~Inside(w)
<1> USE DEF IInv
<1> TAKE w \in Workers
<1>1. wpc[w] \in {"none", "arriveStart", "spinStart", "spinEnd"}
  BY DEF Places, Placed, Gone, Sizes, RestPcs, Workers
<1>2. wpc[w] = "spinStart" => startKick # 0
  <2>1. wpc[w] = "spinStart" => pc \in RestPcs
    BY DEF Places, Placed, Gone, Sizes, Workers
  <2> QED BY <2>1, AtNone DEF GateCounts
<1> QED BY <1>1, <1>2 DEF Inside, startGate!Released, TypeOK, startGate!TypeOK

\* The closure on the caller's stack is never used after the call returned.
THEOREM NoUseAfterReturn == Spec => []JoinedBeforeReturn
<1>1. IInv => JoinedBeforeReturn
  BY RestMeansOutside DEF JoinedBeforeReturn, RestPcs
<1> QED BY <1>1, Invariant, PTL

\* The destructor has joined every thread it leaves without an owner.
THEOREM DestroyedClean == Spec => []NoThreadOutlivesDispatcher
<1>1. IInv => NoThreadOutlivesDispatcher
  BY DEF IInv, NoThreadOutlivesDispatcher, Places, Placed, Gone, Sizes, Workers
<1> QED BY <1>1, Invariant, PTL

\* The plain fields are free of data races.
THEOREM FieldsRaceFree == Spec => MainWritesOnlyWhileWorkersWait
<1>1. IInv /\ [Next]_vars =>
        [<<job, mustExit>>' # <<job, mustExit>> => \A w \in Workers : ~Inside(w)]_vars
  <2> SUFFICES ASSUME IInv, Next, <<job, mustExit>>' # <<job, mustExit>>
               PROVE  \A w \in Workers : ~Inside(w)
    BY DEF vars
  <2>1. pc \in RestPcs \cup {"unborn"}
    <3>1. CASE Call
      BY <3>1 DEF Call, Construct, SetNum, KickMulti, KickOne, KickAll, Destroy, RestPcs
    <3>2. CASE Main
      BY <3>2 DEF Main, Spawn, GrowDone, ShrinkStart, ShrinkStartStore, Join, Resize,
         ShrinkEnd, ShrinkEndStore, KickStart, KickStartStore, SelfBegin, SelfSkip,
         SelfEnd, KickEnd, KickEndStore, Return, RestPcs
    <3>3. ASSUME NEW w \in Workers, Worker(w) PROVE FALSE
      BY <3>3 DEF Worker, ArriveStart, PassStart, CheckExit, Skip, BeginAction, EndAction,
         ArriveEnd, PassEnd
    <3> QED BY <3>1, <3>2, <3>3 DEF Next
  <2> QED BY <2>1, RestMeansOutside
<1> QED BY <1>1, Invariant, PTL DEF Spec, MainWritesOnlyWhileWorkersWait

----------------------------------------------------------------------------
(* Every kick runs what it was asked to run, once, when kickMulti is never *)
(* given fewer targets than there are threads.                             *)

USE MaxThreadsAssumption, KickMultiAssumption

----------------------------------------------------------------------------
(* The job stays what the call has set up.                                 *)

LEMMA JobCall ==
  ASSUME ~KickMultiMayShrink, IInv, JobInv, Call
  PROVE  JobInv'
<1>0. TypeOK
  BY DEF IInv
<1>1. ASSUME NEW n \in 0 .. MaxThreads, Construct(n) PROVE JobInv'
  BY <1>1 DEF Construct, resetAction, SetJob, JobInv, KickPcs, KickOps, ShrinkPcs
<1>2. ASSUME NEW n \in 1 .. MaxThreads, SetNum(n) PROVE JobInv'
  <2>1. /\ pc = "idle" /\ op' = "setNum" /\ pc' \in {"grow", "shrinkStart"}
        /\ m_action' = "noAction" /\ m_threadFilter' = -1
    BY <1>2 DEF SetNum, EnterShrink, EnterGrow, resetAction, SetJob, job, JobInv, KickOps
  <2> QED BY <2>1 DEF JobInv, KickPcs, KickOps, ShrinkPcs
<1>3. ASSUME NEW n \in 1 .. MaxThreads, KickMulti(n) PROVE JobInv'
  <2>a. n >= size
    BY <1>3 DEF KickMulti
  <2>b. ~EnterShrink(n)
    <3>1. n \in Int /\ size \in Int
      BY <1>0 DEF TypeOK
    <3>2. EnterShrink(n) => n < size
      BY DEF EnterShrink
    <3> QED BY <2>a, <3>1, <3>2
  <2>1. pc = "idle" /\ n >= size /\ EnterGrow(n) /\ SetJob(m_threadFilter, "thunk")
        /\ op' = "kickMulti" /\ arg' = n /\ size' = size
    BY <1>3, <2>a, <2>b DEF KickMulti
  <2> QED BY <1>0, <2>1 DEF EnterGrow, SetJob, JobInv, KickPcs, KickOps, ShrinkPcs, TypeOK
<1>4. CASE Destroy
  <2>1. /\ pc = "idle" /\ op' = "destroy" /\ pc' \in {"grow", "shrinkStart"}
        /\ m_action' = "noAction" /\ m_threadFilter' = -1
    BY <1>4 DEF Destroy, EnterShrink, EnterGrow, resetAction, SetJob, job, JobInv, KickOps
  <2> QED BY <2>1 DEF JobInv, KickPcs, KickOps, ShrinkPcs
<1>5. ASSUME NEW i \in Indices, KickOne(i) PROVE JobInv'
  BY <1>0, <1>5 DEF KickOne, SetJob, JobInv, KickPcs, KickOps, ShrinkPcs, TypeOK, Indices
<1>6. CASE KickAll
  BY <1>6 DEF KickAll, SetJob, JobInv, KickPcs, KickOps, ShrinkPcs
<1> QED BY <1>1, <1>2, <1>3, <1>4, <1>5, <1>6 DEF Call

LEMMA JobMain ==
  ASSUME IInv, JobInv, Main
  PROVE  JobInv'
<1>0. TypeOK /\ Sizes
  BY DEF IInv
<1>1. CASE Spawn
  BY <1>0, <1>1 DEF Spawn, JobInv, KickPcs, ShrinkPcs, job, call, TypeOK
<1>2. CASE GrowDone
  <2>1. CASE op \in KickOps
    BY <1>0, <1>2, <2>1 DEF GrowDone, Continue, JobInv, KickPcs, KickOps, ShrinkPcs, job, TypeOK
  <2>2. CASE op \notin KickOps
    BY <1>2, <2>2 DEF GrowDone, Continue, JobInv, KickPcs, KickOps, ShrinkPcs, job
  <2> QED BY <2>1, <2>2
<1>3. CASE ShrinkEndStore
  BY <1>3 DEF ShrinkEndStore, Continue, JobInv, KickPcs, KickOps, ShrinkPcs, job
<1>4. CASE ShrinkStart \/ ShrinkStartStore \/ Join \/ ShrinkEnd \/ Resize
  <2>1. pc \in ShrinkPcs \cup {"shrinkEnd"} /\ pc' \in ShrinkPcs \cup {"shrinkEnd", "shrinkEndStore"}
        /\ UNCHANGED <<op, job>>
    BY <1>4 DEF ShrinkStart, ShrinkStartStore, Join, ShrinkEnd, Resize, ShrinkPcs, call
  <2> QED BY <2>1 DEF JobInv, KickPcs, KickOps, ShrinkPcs, job
<1>5. CASE \/ KickStart \/ KickStartStore \/ SelfBegin \/ SelfSkip \/ SelfEnd
           \/ KickEnd \/ KickEndStore
  <2>1. pc \in KickPcs /\ pc' \in KickPcs /\ UNCHANGED <<op, arg, size, wanted, job>>
    BY <1>5 DEF KickStart, KickStartStore, SelfBegin, SelfSkip, SelfEnd, KickEnd,
       KickEndStore, KickPcs, call
  <2> QED BY <2>1 DEF JobInv, KickPcs, KickOps, ShrinkPcs, job
<1>6. CASE Return
  BY <1>6 DEF Return, resetAction, SetJob, JobInv, KickPcs, KickOps, ShrinkPcs
<1> QED BY <1>1, <1>2, <1>3, <1>4, <1>5, <1>6 DEF Main

LEMMA JobWorker ==
  ASSUME JobInv, NEW w \in Workers, Worker(w)
  PROVE  JobInv'
BY DEF Worker, ArriveStart, PassStart, CheckExit, Skip, BeginAction, EndAction, ArriveEnd,
   PassEnd, JobInv, job, call

----------------------------------------------------------------------------
(* The history of runs.                                                    *)

LEMMA RequestedLive ==
  ASSUME IInv, JobInv, pc \in KickPcs
  PROVE  /\ Requested \subseteq 0 .. size - 1
         /\ op = "kickOne" => Requested = {arg}
         /\ op # "kickOne" => Requested = 0 .. size - 1
         /\ size \in 1 .. MaxThreads
BY DEF IInv, TypeOK, Sizes, JobInv, KickOps, KickPcs, Requested

LEMMA RunsCall ==
  ASSUME IInv, JobInv, RunsInv, Call
  PROVE  RunsInv'
<1>1. UNCHANGED runs /\ pc \in {"idle", "unborn"} /\ pc' \in {"grow", "shrinkStart", "kickStart"}
  BY DEF Call, Construct, SetNum, KickMulti, KickOne, KickAll, Destroy, EnterShrink, EnterGrow
<1>2. \A i \in Indices : ~Done(i)'
  BY <1>1 DEF Done, WorkPcs
<1> QED BY <1>1, <1>2 DEF RunsInv, KickPcs

LEMMA RunsMain ==
  ASSUME IInv, JobInv, RunsInv, Main
  PROVE  RunsInv'
<1>0. TypeOK
  BY DEF IInv
<1>1. CASE \/ Spawn \/ GrowDone \/ ShrinkStart \/ ShrinkStartStore \/ Join \/ Resize
           \/ ShrinkEnd \/ ShrinkEndStore
  <2>1. /\ UNCHANGED runs /\ pc \notin KickPcs
        /\ pc' \notin KickPcs \/ pc' = "kickStart"
    BY <1>1 DEF Spawn, GrowDone, ShrinkStart, ShrinkStartStore, Join, Resize, ShrinkEnd,
       ShrinkEndStore, Continue, KickPcs
  <2>2. \A i \in Indices : pc' = "kickStart" => ~Done(i)'
    BY DEF Done, WorkPcs
  <2> QED BY <2>1, <2>2 DEF RunsInv
<1>2. CASE KickStart
  <2>1. UNCHANGED runs /\ pc = "kickStart" /\ pc' = "kickStartStore"
    BY <1>2 DEF KickStart
  <2> QED BY <2>1 DEF RunsInv, Done, WorkPcs, KickPcs
<1>3. CASE KickStartStore
  <2>1. UNCHANGED <<runs, wpc>> /\ pc = "kickStartStore" /\ pc' = "self"
    BY <1>3 DEF KickStartStore
  <2>2. \A i \in Workers : wpc[i] \in {"none", "spinStart"}
    BY <2>1 DEF IInv, Places, Placed
  <2>3. \A i \in Indices : ~Done(i) /\ ~Done(i)'
    BY <2>1, <2>2 DEF Done, WorkPcs, Indices, Workers
  <2> QED BY <2>1, <2>3 DEF RunsInv
\* From here on the call, and so what it requests, no longer changes.
<1>4. CASE SelfBegin \/ SelfSkip \/ SelfEnd \/ KickEnd \/ KickEndStore
  <2>1. /\ UNCHANGED <<op, arg, size, wpc>> /\ pc \in KickPcs /\ pc' \in KickPcs
        /\ Requested' = Requested
    BY <1>4 DEF SelfBegin, SelfSkip, SelfEnd, KickEnd, KickEndStore, KickPcs, call, Requested
  <2>2. \A i \in Workers : i \in Requested => (Done(i)' <=> Done(i))
    <3> SUFFICES ASSUME NEW i \in Workers, i \in Requested PROVE Done(i)' <=> Done(i)
      OBVIOUS
    <3>1. CASE KickEndStore
      <4>1. i < size /\ wpc[i] = "spinEnd" /\ pc = "kickEndStore" /\ pc' = "reset"
        BY <2>1, <3>1, RequestedLive DEF KickEndStore, IInv, Places, Placed, Gone, Workers, TypeOK
      <4> QED BY <2>1, <4>1 DEF Done, WorkPcs, Workers
    <3>2. CASE SelfBegin \/ SelfSkip \/ SelfEnd \/ KickEnd
      BY <2>1, <3>2 DEF SelfBegin, SelfSkip, SelfEnd, KickEnd, Done, WorkPcs, Workers
    <3> QED BY <1>4, <3>1, <3>2
  <2>3. CASE SelfBegin
    <3>1. pc = "self" /\ pc' = "selfRun" /\ 0 \in Requested /\ 0 \in Indices /\ m_action = "thunk"
      BY <2>1, <2>3, RequestedLive DEF SelfBegin, JobInv, Indices
    <3>2. runs' = [runs EXCEPT ![0] = runs[0] + 1] /\ ~Done(0) /\ Done(0)'
      BY <2>3, <3>1 DEF SelfBegin, Count, Done
    <3>3. \A i \in Indices \ {0} : runs'[i] = runs[i] /\ i \in Workers
      BY <1>0, <3>2 DEF TypeOK, Indices, Workers
    <3>4. runs'[0] = 1
      BY <1>0, <2>1, <3>1, <3>2 DEF RunsInv, TypeOK
    <3> QED BY <2>1, <2>2, <3>1, <3>2, <3>3, <3>4 DEF RunsInv
  <2>4. CASE SelfSkip \/ SelfEnd \/ KickEnd \/ KickEndStore
    <3>1. runs' = runs
      BY <2>4 DEF SelfSkip, SelfEnd, KickEnd, KickEndStore
    <3>2. 0 \in Requested => (Done(0)' <=> Done(0))
      BY <2>1, <2>4, RequestedLive DEF SelfSkip, SelfEnd, KickEnd, KickEndStore, Done
    <3>3. \A i \in Indices : i = 0 \/ i \in Workers
      BY DEF Indices, Workers
    <3> QED BY <2>1, <2>2, <3>1, <3>2, <3>3 DEF RunsInv
  <2> QED BY <1>4, <2>3, <2>4
<1>5. CASE Return
  BY <1>5 DEF Return, RunsInv, KickPcs
<1> QED BY <1>1, <1>2, <1>3, <1>4, <1>5 DEF Main

LEMMA RunsWorker ==
  ASSUME IInv, JobInv, RunsInv, NEW w \in Workers, Worker(w)
  PROVE  RunsInv'
<1>0. TypeOK /\ w \in Indices /\ w # 0
  BY DEF IInv, Indices, Workers
<1>1. UNCHANGED <<pc, op, arg, size>> /\ Requested' = Requested
  BY DEF Worker, ArriveStart, PassStart, CheckExit, Skip, BeginAction, EndAction,
     ArriveEnd, PassEnd, call, Requested
<1>2. \A i \in Indices \ {w} : Done(i)' <=> Done(i)
  BY <1>0, <1>1 DEF TypeOK, Done, Workers, Indices, Worker, ArriveStart, PassStart, CheckExit,
     Skip, BeginAction, EndAction, ArriveEnd, PassEnd
<1>3. CASE Done(w)' = Done(w) /\ UNCHANGED runs
  BY <1>1, <1>2, <1>3 DEF RunsInv
<1>4. CASE ArriveStart(w) \/ PassStart(w) \/ CheckExit(w) \/ EndAction(w) \/ ArriveEnd(w) \/ PassEnd(w)
  <2>1. UNCHANGED runs
    BY <1>4 DEF ArriveStart, PassStart, CheckExit, EndAction, ArriveEnd, PassEnd
  <2>2. pc \notin WorkPcs \/ ~PassEnd(w)
    BY AtNone DEF IInv, GateCounts, PassEnd, endGate!Released, TypeOK, endGate!TypeOK
  <2>3. Done(w)' <=> Done(w)
    BY <1>0, <1>1, <1>4, <2>2 DEF Done, TypeOK, ArriveStart, PassStart, CheckExit, EndAction,
       ArriveEnd, PassEnd
  <2> QED BY <1>1, <1>2, <2>1, <2>3 DEF RunsInv
<1>5. CASE Skip(w) \/ BeginAction(w)
  <2>1. /\ wpc[w] = "checkFilter" /\ w < size
        /\ pc \in WorkPcs \ {"kickEndStore", "shrinkEndStore"}
    BY <1>0, <1>5 DEF Skip, BeginAction, IInv, Places, Placed, Gone, Sizes, TypeOK, MainPcs,
       RestPcs, WorkPcs, Workers
  <2>2. wpc'[w] \in {"run", "arriveEnd"}
    BY <1>0, <1>5 DEF Skip, BeginAction, TypeOK
  <2>3. ~Done(w) /\ Done(w)'
    BY <1>0, <1>1, <2>1, <2>2 DEF Done, WorkPcs
  <2>4. CASE pc \in KickPcs
    <3>1. Selected(w) <=> w \in Requested
      BY <1>0, <2>1, <2>4, RequestedLive DEF Selected, JobInv, TypeOK, Workers, Indices
    <3>2. CASE Skip(w)
      BY <1>1, <1>2, <2>4, <3>1, <3>2 DEF Skip, RunsInv
    <3>3. CASE BeginAction(w)
      <4>1. runs' = [runs EXCEPT ![w] = runs[w] + 1]
        BY <2>4, <3>3 DEF BeginAction, Count, JobInv
      <4>2. runs[w] = 0 /\ w \in Requested
        BY <1>0, <2>3, <3>1, <3>3 DEF BeginAction, RunsInv
      <4> QED BY <1>0, <1>1, <1>2, <2>3, <2>4, <4>1, <4>2 DEF RunsInv, TypeOK
    <3> QED BY <1>5, <3>2, <3>3
  <2>5. CASE pc \notin KickPcs
    <3>1. m_action = "noAction"
      BY <2>1, <2>5 DEF JobInv, KickPcs, WorkPcs, ShrinkPcs, KickOps
    <3>2. UNCHANGED runs
      BY <1>5, <3>1 DEF Skip, BeginAction, Count
    <3> QED BY <1>1, <2>5, <3>2 DEF RunsInv
  <2> QED BY <2>4, <2>5
<1> QED BY <1>4, <1>5 DEF Worker

LEMMA RInductive ==
  ASSUME ~KickMultiMayShrink
  PROVE  RInv /\ [Next]_vars => RInv'
<1> SUFFICES ASSUME RInv, [Next]_vars PROVE RInv'
  OBVIOUS
<1>1. IInv'
  BY Inductive DEF RInv
<1>2. JobInv' /\ RunsInv'
  <2>1. CASE Next
    BY <2>1, JobCall, JobMain, JobWorker, RunsCall, RunsMain, RunsWorker DEF Next, RInv
  <2>2. CASE UNCHANGED vars
    BY <2>2 DEF RInv, vars, call, job, JobInv, RunsInv, Done, Requested
  <2> QED BY <2>1, <2>2
<1> QED BY <1>1, <1>2 DEF RInv

LEMMA RInvariant == ~KickMultiMayShrink => (Spec => []RInv)
<1>1. Init => RInv
  <2> SUFFICES ASSUME Init PROVE RInv
    OBVIOUS
  <2>1. JobInv
    BY DEF Init, JobInv, KickPcs, KickOps, ShrinkPcs
  <2>2. RunsInv
    BY DEF Init, RunsInv, KickPcs
  <2> QED BY Initially, <2>1, <2>2 DEF RInv
<1>2. ASSUME ~KickMultiMayShrink PROVE Init /\ [][Next]_vars => []RInv
  BY <1>1, <1>2, RInductive, PTL
<1> QED BY <1>2 DEF Spec

\* Nothing is lost and nothing is run twice.
THEOREM EveryIndexRunsOnce == ~KickMultiMayShrink => (Spec => []RunsExactlyOnce)
<1>1. RInv => RunsExactlyOnce
  <2> SUFFICES ASSUME RInv, pc = "reset", NEW i \in Indices
               PROVE  runs[i] = IF i \in Requested THEN 1 ELSE 0
    BY DEF RunsExactlyOnce
  <2> QED BY DEF RInv, RunsInv, KickPcs, Done
<1> QED BY <1>1, RInvariant, PTL

----------------------------------------------------------------------------
(* Refinement: every step is an abstract step or a stutter.                *)

\* A step of the dispatcher that the abstract state does not show.
LEMMA AbsStutter ==
  ASSUME UNCHANGED <<op, runs>>, Requested' = Requested,
         \A w \in Workers : (wpc'[w] = "run") <=> (wpc[w] = "run"),
         pc' = "selfRun" <=> pc = "selfRun"
  PROVE  UNCHANGED Abstract!vars
BY DEF Abstract!vars, kicking, AbsPending, AbsActive

\* Without a kick nothing is open, pending or active.
LEMMA AbsClosed ==
  ASSUME JobInv, op \notin KickOps
  PROVE  kicking = FALSE /\ AbsPending = {} /\ AbsActive = {} /\ Requested = {}
<1>1. pc # "selfRun"
  BY DEF JobInv, KickPcs
<1> QED BY <1>1 DEF kicking, AbsPending, AbsActive, Requested, KickOps

LEMMA AbsCall ==
  ASSUME RInv, JobInv', Call
  PROVE  Abstract!Next \/ UNCHANGED Abstract!vars
<1>0. TypeOK /\ JobInv
  BY DEF RInv, IInv
<1>1. pc \in {"idle", "unborn"} /\ UNCHANGED <<runs, wpc>> /\ pc' # "selfRun"
  BY DEF Call, Construct, SetNum, KickMulti, KickOne, KickAll, Destroy, EnterShrink, EnterGrow
<1>2. op \notin KickOps
  BY <1>0, <1>1 DEF JobInv, KickOps
<1>3. CASE op' \notin KickOps
  <2>1. kicking' = FALSE /\ AbsPending' = {} /\ AbsActive' = {}
    <3>1. Requested' = {}
      BY <1>3 DEF Requested, KickOps
    <3> QED BY <1>1, <1>3, <3>1 DEF kicking, AbsPending, AbsActive
  <2> QED BY <1>0, <1>2, <2>1, AbsClosed DEF Abstract!vars
<1>4. CASE op' \in KickOps
  <2>1. Requested' \subseteq Indices /\ Requested' # {}
    <3>1. CASE \E i \in Indices : KickOne(i)
      <4>1. PICK i \in Indices : op' = "kickOne" /\ arg' = i
        BY <3>1 DEF KickOne
      <4>2. Requested' = {i}
        BY <4>1 DEF Requested
      <4> QED BY <4>2
    <3>2. CASE \E n \in 1 .. MaxThreads : KickMulti(n)
      <4>1. PICK n \in 1 .. MaxThreads : op' = "kickMulti" /\ arg' = n
        BY <3>2 DEF KickMulti
      <4>2. Requested' = 0 .. n - 1 /\ 0 \in 0 .. n - 1
        BY <4>1 DEF Requested
      <4>3. 0 .. n - 1 \subseteq Indices
        BY DEF Indices
      <4> QED BY <4>2, <4>3
    <3>3. CASE KickAll
      <4>1. size \in 1 .. MaxThreads /\ Requested' = 0 .. size - 1 /\ 0 \in 0 .. size - 1
        BY <1>0, <3>3 DEF KickAll, RInv, IInv, Sizes, TypeOK, Requested
      <4>2. 0 .. size - 1 \subseteq Indices
        BY <4>1 DEF Indices
      <4> QED BY <4>1, <4>2
    <3> QED BY <1>4, <3>1, <3>2, <3>3 DEF Call, Construct, SetNum, Destroy, KickOps
  <2>2. \A i \in Indices : runs[i] = 0
    BY <1>1 DEF RInv, RunsInv, KickPcs
  <2>3. AbsPending' = Requested'
    BY <1>1, <2>1, <2>2 DEF AbsPending
  <2>4. \A w \in Workers : wpc'[w] # "run"
    BY <1>1 DEF RInv, IInv, Places, Placed, Gone, Sizes, RestPcs, Workers
  <2>5. AbsActive' = {}
    BY <1>1, <2>4 DEF AbsActive
  <2>6. kicking' = TRUE
    BY <1>4 DEF kicking
  <2>7. Abstract!Call(Requested')
    BY <1>0, <1>2, <2>3, <2>5, <2>6, AbsClosed DEF Abstract!Call
  <2>8. Requested' \in (SUBSET Indices) \ {{}}
    BY <2>1
  <2> QED BY <2>7, <2>8, Zenon DEF Abstract!Next
<1> QED BY <1>3, <1>4

LEMMA AbsMain ==
  ASSUME RInv, JobInv', Main
  PROVE  Abstract!Next \/ UNCHANGED Abstract!vars
<1>0. TypeOK /\ JobInv /\ IInv /\ RunsInv
  BY DEF RInv, IInv
<1>c. ASSUME op \notin KickOps, op' \notin KickOps PROVE UNCHANGED Abstract!vars
  <2>1. kicking' = FALSE /\ AbsPending' = {} /\ AbsActive' = {}
    <3>1. Requested' = {} /\ pc' # "selfRun"
      BY <1>c DEF Requested, KickOps, JobInv, KickPcs
    <3> QED BY <1>c, <3>1 DEF kicking, AbsPending, AbsActive
  <2> QED BY <1>0, <1>c, <2>1, AbsClosed DEF Abstract!vars
<1>1. CASE Spawn
  <2>1. pc = "grow" /\ pc' = "grow" /\ UNCHANGED <<op, arg, runs>>
    BY <1>1 DEF Spawn, call
  <2>2. Requested' = Requested
    BY <1>0, <2>1 DEF JobInv, Requested
  <2>3. \A w \in Workers : (wpc'[w] = "run") <=> (wpc[w] = "run")
    <3>1. wpc[size] = "none" /\ size \in Workers
      BY <1>0, <1>1 DEF Spawn, IInv, Sizes, TypeOK, Workers, Places, Placed, Gone
    <3> QED BY <1>0, <1>1, <3>1 DEF Spawn, TypeOK
  <2> QED BY <2>1, <2>2, <2>3, AbsStutter
<1>2. CASE GrowDone
  <2>1. CASE op \in KickOps
    <3>1. UNCHANGED <<op, arg, size, runs, wpc>> /\ pc' = "kickStart" /\ pc = "grow"
      BY <1>2, <2>1 DEF GrowDone, Continue
    <3> QED BY <3>1, AbsStutter DEF Requested
  <2>2. CASE op \notin KickOps
    BY <1>2, <1>c, <2>2 DEF GrowDone, Continue, KickOps
  <2> QED BY <2>1, <2>2
<1>3. CASE ShrinkStart \/ ShrinkStartStore \/ Join \/ Resize \/ ShrinkEnd \/ ShrinkEndStore
  <2>1. op \in {"setNum", "destroy"}
    BY <1>0, <1>3 DEF ShrinkStart, ShrinkStartStore, Join, Resize, ShrinkEnd, ShrinkEndStore,
       JobInv, ShrinkPcs
  <2>2. op' \in {op, "none"}
    BY <1>3 DEF ShrinkStart, ShrinkStartStore, Join, Resize, ShrinkEnd, ShrinkEndStore,
       Continue, call
  <2> QED BY <1>c, <2>1, <2>2 DEF KickOps
<1>4. CASE KickStart \/ KickStartStore \/ SelfSkip \/ KickEnd \/ KickEndStore
  <2>1. UNCHANGED <<op, arg, size, runs, wpc>> /\ pc # "selfRun" /\ pc' # "selfRun"
    BY <1>4 DEF KickStart, KickStartStore, SelfSkip, KickEnd, KickEndStore, call
  <2> QED BY <2>1, AbsStutter DEF Requested
<1>5. CASE SelfBegin
  <2>1. /\ UNCHANGED <<op, arg, size, wpc>> /\ pc = "self" /\ pc' = "selfRun"
        /\ op \in KickOps /\ Requested' = Requested
        /\ 0 \in Requested /\ 0 \in Indices /\ m_action = "thunk"
    BY <1>0, <1>5, RequestedLive DEF SelfBegin, JobInv, Indices, KickPcs, call, Requested
  <2>2. runs' = [runs EXCEPT ![0] = runs[0] + 1] /\ runs[0] = 0
    BY <1>0, <1>5, <2>1 DEF SelfBegin, Count, RunsInv, Done
  <2>3. runs'[0] # 0 /\ \A i \in Indices \ {0} : runs'[i] = runs[i]
    BY <1>0, <2>1, <2>2 DEF TypeOK
  <2>4. Requested \subseteq Indices
    BY <1>0, <2>1, RequestedLive DEF KickPcs, Indices
  <2>5. 0 \in AbsPending /\ AbsPending' = AbsPending \ {0}
    BY <2>1, <2>2, <2>3, <2>4 DEF AbsPending
  <2>6. AbsActive' = AbsActive \cup {0} /\ kicking' = kicking
    BY <2>1 DEF AbsActive, kicking
  <2>7. Abstract!Begin(0)
    BY <2>5, <2>6 DEF Abstract!Begin
  <2> QED BY <2>1, <2>7 DEF Abstract!Next
<1>6. CASE SelfEnd
  <2>1. /\ UNCHANGED <<op, arg, size, runs, wpc>> /\ pc = "selfRun" /\ pc' = "kickEnd"
        /\ 0 \in Indices /\ 0 \notin Workers
    BY <1>6 DEF SelfEnd, call, Indices, Workers
  <2>2. AbsPending' = AbsPending /\ kicking' = kicking
    BY <2>1 DEF AbsPending, Requested, kicking
  <2>3. 0 \in AbsActive /\ AbsActive' = AbsActive \ {0}
    BY <2>1 DEF AbsActive, kicking
  <2>4. Abstract!End(0)
    BY <2>2, <2>3 DEF Abstract!End
  <2> QED BY <2>1, <2>4 DEF Abstract!Next
<1>7. CASE Return
  <2>1. pc = "reset" /\ pc' = "idle" /\ op' = "none" /\ op \in KickOps
    BY <1>0, <1>7 DEF Return, JobInv, KickPcs
  <2>2. AbsPending = {}
    <3>1. Requested \subseteq Indices
      BY <1>0, <2>1, RequestedLive DEF KickPcs, Indices
    <3>2. \A i \in Requested : runs[i] = 1
      BY <1>0, <2>1, <3>1 DEF RunsInv, KickPcs, Done
    <3> QED BY <3>2 DEF AbsPending
  <2>3. AbsActive = {}
    BY <1>0, <2>1 DEF AbsActive, IInv, Places, Placed, Gone, RestPcs
  <2>4. kicking' = FALSE /\ AbsPending' = {} /\ AbsActive' = {}
    BY <2>1 DEF kicking, AbsPending, AbsActive, Requested, KickOps
  <2>5. Abstract!Return
    BY <2>1, <2>2, <2>3, <2>4 DEF Abstract!Return, kicking
  <2> QED BY <2>5 DEF Abstract!Next
<1> QED BY <1>1, <1>2, <1>3, <1>4, <1>5, <1>6, <1>7 DEF Main

LEMMA AbsWorker ==
  ASSUME RInv, NEW w \in Workers, Worker(w)
  PROVE  Abstract!Next \/ UNCHANGED Abstract!vars
<1>0. TypeOK /\ JobInv /\ IInv /\ RunsInv /\ w \in Indices /\ w # 0
  BY DEF RInv, IInv, Indices, Workers
<1>1. UNCHANGED <<pc, op, arg, size>> /\ Requested' = Requested /\ kicking' = kicking
  BY DEF Worker, ArriveStart, PassStart, CheckExit, Skip, BeginAction, EndAction,
     ArriveEnd, PassEnd, call, Requested, kicking
<1>2. CASE ArriveStart(w) \/ PassStart(w) \/ CheckExit(w) \/ Skip(w) \/ ArriveEnd(w) \/ PassEnd(w)
  <2>1. UNCHANGED runs /\ \A v \in Workers : (wpc'[v] = "run") <=> (wpc[v] = "run")
    BY <1>0, <1>2 DEF ArriveStart, PassStart, CheckExit, Skip, ArriveEnd, PassEnd, TypeOK
  <2> QED BY <1>1, <2>1, AbsStutter
<1>3. CASE BeginAction(w)
  <2>1. /\ wpc[w] = "checkFilter" /\ wpc'[w] = "run"
        /\ \A v \in Workers \ {w} : wpc'[v] = wpc[v]
    BY <1>0, <1>3 DEF BeginAction, TypeOK
  <2>2. CASE op \in KickOps
    <3>1. w < size /\ pc \in (KickPcs \cap WorkPcs) \ {"kickEndStore"}
      BY <1>0, <2>1, <2>2 DEF IInv, Places, Placed, Gone, Sizes, TypeOK, MainPcs, RestPcs,
         WorkPcs, Workers, JobInv, KickPcs, ShrinkPcs, KickOps
    <3>2. m_action = "thunk" /\ w \in Requested
      BY <1>0, <1>3, <2>2, <3>1, RequestedLive DEF BeginAction, Selected, JobInv, TypeOK,
         Workers, Indices
    <3>3. runs' = [runs EXCEPT ![w] = runs[w] + 1] /\ runs[w] = 0
      BY <1>0, <1>3, <2>1, <3>1, <3>2 DEF BeginAction, Count, RunsInv, Done, WorkPcs
    <3>4. runs'[w] # 0 /\ \A i \in Indices \ {w} : runs'[i] = runs[i]
      BY <1>0, <3>3 DEF TypeOK
    <3>5. Requested \subseteq Indices
      BY <1>0, <3>1, RequestedLive DEF Indices
    <3>6. w \in AbsPending /\ AbsPending' = AbsPending \ {w}
      BY <1>1, <3>2, <3>3, <3>4, <3>5 DEF AbsPending
    <3>7. AbsActive' = AbsActive \cup {w}
      BY <1>1, <2>1, <2>2 DEF AbsActive, kicking
    <3>8. Abstract!Begin(w)
      BY <1>1, <3>6, <3>7 DEF Abstract!Begin
    <3> QED BY <1>0, <3>8 DEF Abstract!Next
  <2>3. CASE op \notin KickOps
    <3>1. UNCHANGED runs
      BY <1>0, <1>3, <2>3 DEF BeginAction, Count, JobInv
    <3> QED BY <1>1, <2>3, <3>1 DEF Abstract!vars, AbsPending, AbsActive, kicking
  <2> QED BY <2>2, <2>3
<1>4. CASE EndAction(w)
  <2>1. /\ wpc[w] = "run" /\ wpc'[w] = "arriveEnd" /\ UNCHANGED runs
        /\ \A v \in Workers \ {w} : wpc'[v] = wpc[v]
    BY <1>0, <1>4 DEF EndAction, TypeOK
  <2>2. AbsPending' = AbsPending
    BY <1>1, <2>1 DEF AbsPending
  <2>3. CASE op \in KickOps
    <3>1. w \in AbsActive /\ AbsActive' = AbsActive \ {w}
      BY <1>0, <1>1, <2>1, <2>3 DEF AbsActive, kicking
    <3>2. Abstract!End(w)
      BY <1>1, <2>2, <3>1 DEF Abstract!End
    <3> QED BY <1>0, <3>2 DEF Abstract!Next
  <2>4. CASE op \notin KickOps
    BY <1>1, <2>2, <2>4 DEF Abstract!vars, AbsActive, kicking
  <2> QED BY <2>3, <2>4
<1> QED BY <1>2, <1>3, <1>4 DEF Worker

\* The dispatcher implements the abstract fork/join call.
THEOREM Refinement == ~KickMultiMayShrink => (Spec => ImplementsForkJoin)
<1>1. Init => Abstract!Init
  BY DEF Init, Abstract!Init, kicking, AbsPending, AbsActive, Requested, KickOps
<1>2. ASSUME ~KickMultiMayShrink, RInv, RInv', [Next]_vars
      PROVE  [Abstract!Next]_(Abstract!vars)
  <2>1. CASE Next
    BY <1>2, <2>1, AbsCall, AbsMain, AbsWorker DEF Next, RInv
  <2>2. CASE UNCHANGED vars
    BY <2>2 DEF vars, call, Abstract!vars, kicking, AbsPending, AbsActive, Requested
  <2> QED BY <1>2, <2>1, <2>2
<1>3. ASSUME ~KickMultiMayShrink PROVE Spec => Abstract!Spec
  <2>1. RInv /\ RInv' /\ [Next]_vars => [Abstract!Next]_(Abstract!vars)
    BY <1>2, <1>3
  <2>2. Spec => []RInv
    BY <1>3, RInvariant
  <2> QED BY <1>1, <2>1, <2>2, PTL DEF Spec, Abstract!Spec
<1> QED BY <1>3 DEF ImplementsForkJoin
=============================================================================
