--------------------------- MODULE JobDispatcher ---------------------------
(***************************************************************************)
(* The fork/join dispatcher of src/turf/extra/JobDispatcher.h: a pool of   *)
(* worker threads that are kicked together through one spin gate and       *)
(* joined through another, and that grows and shrinks between kicks.       *)
(*                                                                         *)
(* One thread (the "main" thread, the owner of the object) calls the       *)
(* public operations one after the other; the workers run threadRun.       *)
(* Every atomic access to a gate, every read of the shared plain fields by *)
(* a worker, every thread creation and every join is a step of its own.    *)
(* The three plain fields that main writes together with no other access   *)
(* in between (m_threadFilter, m_action, m_param) are written in one step; *)
(* MainWritesOnlyWhileWorkersWait states why no worker can tell.           *)
(***************************************************************************)
EXTENDS Integers

CONSTANTS
    MaxThreads,          \* bound on m_threads.size(), the number of cores
    KickMultiMayShrink   \* may kickMulti be given fewer targets than threads?

ASSUME MaxThreadsAssumption == MaxThreads \in Nat \ {0}
ASSUME KickMultiAssumption == KickMultiMayShrink \in BOOLEAN

VARIABLES
    size,            \* m_threads.size(), 0 while there is no dispatcher
    mustExit,        \* mustExit of each WorkerThread
    m_threadFilter,
    m_action,        \* noAction, or the thunk together with its closure m_param
    startKick,       \* m_startGate.m_kickVar
    endKick,         \* m_endGate.m_kickVar
    wpc,             \* where each worker is in threadRun
    pc,              \* where main is
    op, arg,         \* the public operation main executes and its argument
    wanted,          \* numThreads of setNumSpawnedThreads
    cursor,          \* t of its join loop
    runs             \* history: how often index i was run in the current call

gates == <<startKick, endKick>>
job   == <<m_threadFilter, m_action>>
call  == <<op, arg, wanted, cursor>>
vars  == <<size, mustExit, job, gates, wpc, pc, call, runs>>

startGate == INSTANCE SpinKicker WITH m_kickVar <- startKick
endGate   == INSTANCE SpinKicker WITH m_kickVar <- endKick

Indices == 0 .. MaxThreads - 1
Workers == 1 .. MaxThreads - 1
Alive   == 1 .. size - 1      \* the spawned workers: main itself is index 0

WorkerPcs == {"none", "arriveStart", "spinStart", "checkExit", "checkFilter",
              "run", "arriveEnd", "spinEnd", "exited"}
MainPcs == {"unborn", "idle", "grow", "kickStart", "kickStartStore", "self",
            "selfRun", "kickEnd", "kickEndStore", "reset", "shrinkStart",
            "shrinkStartStore", "join", "shrinkEnd", "shrinkEndStore"}
KickOps == {"kickOne", "kickMulti", "kick"}
Ops == KickOps \cup {"none", "construct", "setNum", "destroy"}

Init ==
    /\ size = 0 /\ mustExit = [w \in Workers |-> FALSE]
    /\ m_threadFilter = -1 /\ m_action = "noAction"
    /\ startGate!Init /\ endGate!Init
    /\ wpc = [w \in Workers |-> "none"]
    /\ pc = "unborn" /\ op = "none" /\ arg = 0 /\ wanted = 1 /\ cursor = 0
    /\ runs = [i \in Indices |-> 0]

----------------------------------------------------------------------------
(* threadRun, the loop of worker w.                                        *)

ArriveStart(w) ==
    /\ wpc[w] = "arriveStart" /\ startGate!Arrive
    /\ wpc' = [wpc EXCEPT ![w] = "spinStart"]
    /\ UNCHANGED <<size, mustExit, job, endKick, pc, call, runs>>

PassStart(w) ==
    /\ wpc[w] = "spinStart" /\ startGate!Released
    /\ wpc' = [wpc EXCEPT ![w] = "checkExit"]
    /\ UNCHANGED <<size, mustExit, job, gates, pc, call, runs>>

CheckExit(w) ==
    /\ wpc[w] = "checkExit"
    /\ wpc' = [wpc EXCEPT ![w] = IF mustExit[w] THEN "exited" ELSE "checkFilter"]
    /\ UNCHANGED <<size, mustExit, job, gates, pc, call, runs>>

Selected(w) == m_threadFilter < 0 \/ m_threadFilter = w

\* The thunk bumps the history; noAction returns at once.
Count(i) == runs' = IF m_action = "thunk" THEN [runs EXCEPT ![i] = @ + 1] ELSE runs

Skip(w) ==
    /\ wpc[w] = "checkFilter" /\ ~Selected(w)
    /\ wpc' = [wpc EXCEPT ![w] = "arriveEnd"]
    /\ UNCHANGED <<size, mustExit, job, gates, pc, call, runs>>

BeginAction(w) ==
    /\ wpc[w] = "checkFilter" /\ Selected(w)
    /\ wpc' = [wpc EXCEPT ![w] = "run"]
    /\ Count(w)
    /\ UNCHANGED <<size, mustExit, job, gates, pc, call>>

EndAction(w) ==
    /\ wpc[w] = "run"
    /\ wpc' = [wpc EXCEPT ![w] = "arriveEnd"]
    /\ UNCHANGED <<size, mustExit, job, gates, pc, call, runs>>

ArriveEnd(w) ==
    /\ wpc[w] = "arriveEnd" /\ endGate!Arrive
    /\ wpc' = [wpc EXCEPT ![w] = "spinEnd"]
    /\ UNCHANGED <<size, mustExit, job, startKick, pc, call, runs>>

PassEnd(w) ==
    /\ wpc[w] = "spinEnd" /\ endGate!Released
    /\ wpc' = [wpc EXCEPT ![w] = "arriveStart"]
    /\ UNCHANGED <<size, mustExit, job, gates, pc, call, runs>>

Worker(w) ==
    \/ ArriveStart(w) \/ PassStart(w) \/ CheckExit(w) \/ Skip(w)
    \/ BeginAction(w) \/ EndAction(w) \/ ArriveEnd(w) \/ PassEnd(w)

----------------------------------------------------------------------------
(* The public operations, up to their first wait.                          *)

SetJob(filter, action) == m_threadFilter' = filter /\ m_action' = action

resetAction == SetJob(-1, "noAction")

\* Entry of setNumSpawnedThreads(n): resetAction happens on the shrinking
\* path only, and overwrites whatever job the caller has already set.
EnterShrink(n) ==
    /\ n < size
    /\ resetAction
    /\ mustExit' = [w \in Workers |-> IF n <= w /\ w < size THEN TRUE ELSE mustExit[w]]
    /\ wanted' = n /\ pc' = "shrinkStart"

EnterGrow(n) ==
    /\ n >= size
    /\ wanted' = n /\ pc' = "grow" /\ UNCHANGED mustExit

Construct(n) ==
    /\ pc = "unborn"
    /\ op' = "construct" /\ arg' = n
    /\ size' = 1
    /\ resetAction
    /\ wanted' = (IF n > 0 THEN n ELSE 1) /\ pc' = "grow"
    /\ UNCHANGED <<mustExit, gates, wpc, cursor, runs>>

SetNum(n) ==
    /\ pc = "idle"
    /\ op' = "setNum" /\ arg' = n
    /\ EnterShrink(n) \/ (EnterGrow(n) /\ UNCHANGED job)
    /\ UNCHANGED <<size, gates, wpc, cursor, runs>>

\* Mutant: a destructor that leaves the threads to themselves.
DestroyWithoutShrink ==
    /\ pc = "idle"
    /\ pc' = "unborn" /\ size' = 0
    /\ UNCHANGED <<mustExit, job, gates, wpc, call, runs>>

Destroy ==
    /\ pc = "idle"
    /\ op' = "destroy" /\ arg' = 1
    /\ EnterShrink(1) \/ (EnterGrow(1) /\ UNCHANGED job)
    /\ UNCHANGED <<size, gates, wpc, cursor, runs>>

\* kickOne(i): the filter and the action, then growth up to index i.
KickOne(i) ==
    /\ pc = "idle"
    /\ op' = "kickOne" /\ arg' = i
    /\ SetJob(i, "thunk")
    /\ IF i >= size THEN wanted' = i + 1 /\ pc' = "grow"
                    ELSE UNCHANGED wanted /\ pc' = "kickStart"
    /\ UNCHANGED <<size, mustExit, gates, wpc, cursor, runs>>

\* kickMulti(n targets): the action, then setNumSpawnedThreads(n).
KickMulti(n) ==
    /\ pc = "idle"
    /\ n >= size \/ KickMultiMayShrink
    /\ op' = "kickMulti" /\ arg' = n
    /\ \/ EnterShrink(n)
       \/ EnterGrow(n) /\ SetJob(m_threadFilter, "thunk")
    /\ UNCHANGED <<size, gates, wpc, cursor, runs>>

\* Both overloads of kick(): they differ in the closure only.
KickAll ==
    /\ pc = "idle"
    /\ op' = "kick" /\ arg' = 0
    /\ SetJob(m_threadFilter, "thunk")
    /\ pc' = "kickStart"
    /\ UNCHANGED <<size, mustExit, gates, wpc, wanted, cursor, runs>>

Call ==
    \/ \E n \in 0 .. MaxThreads : Construct(n)
    \/ \E n \in 1 .. MaxThreads : SetNum(n) \/ KickMulti(n)
    \/ \E i \in Indices : KickOne(i)
    \/ KickAll \/ Destroy

----------------------------------------------------------------------------
(* setNumSpawnedThreads, after its entry.                                  *)

\* Where the caller of setNumSpawnedThreads goes on.
Continue ==
    IF op \in KickOps
    THEN pc' = "kickStart" /\ UNCHANGED <<op, arg, size>>
    ELSE /\ pc' = IF op = "destroy" THEN "unborn" ELSE "idle"
         /\ op' = "none" /\ arg' = 0
         /\ size' = IF op = "destroy" THEN 0 ELSE size

\* new WorkerThread, push_back and Thread::run for the next index.
Spawn ==
    /\ pc = "grow" /\ size < wanted
    /\ size' = size + 1
    /\ mustExit' = [mustExit EXCEPT ![size] = FALSE]
    /\ wpc' = [wpc EXCEPT ![size] = "arriveStart"]
    /\ UNCHANGED <<job, gates, pc, call, runs>>

GrowDone ==
    /\ pc = "grow" /\ ~(size < wanted)
    /\ Continue
    /\ UNCHANGED <<mustExit, job, gates, wpc, wanted, cursor, runs>>

ShrinkStart ==
    /\ pc = "shrinkStart" /\ startGate!Ready(size - 1)
    /\ pc' = "shrinkStartStore"
    /\ UNCHANGED <<size, mustExit, job, gates, wpc, call, runs>>

ShrinkStartStore ==
    /\ pc = "shrinkStartStore" /\ startGate!Kick
    /\ pc' = "join" /\ cursor' = wanted
    /\ UNCHANGED <<size, mustExit, job, endKick, wpc, op, arg, wanted, runs>>

\* Thread::join returns once the thread has left threadRun; then delete.
Join ==
    /\ pc = "join" /\ cursor < size /\ wpc[cursor] = "exited"
    /\ wpc' = [wpc EXCEPT ![cursor] = "none"]
    /\ cursor' = cursor + 1
    /\ UNCHANGED <<size, mustExit, job, gates, pc, op, arg, wanted, runs>>

Resize ==
    /\ pc = "join" /\ ~(cursor < size)
    /\ size' = wanted /\ pc' = "shrinkEnd"
    /\ UNCHANGED <<mustExit, job, gates, wpc, call, runs>>

\* Mutant: the end gate waits for the threads that have just exited, too.
ShrinkEndOldCount ==
    /\ pc = "shrinkEnd" /\ endGate!Ready(cursor - 1)
    /\ pc' = "shrinkEndStore"
    /\ UNCHANGED <<size, mustExit, job, gates, wpc, call, runs>>

ShrinkEnd ==
    /\ pc = "shrinkEnd" /\ endGate!Ready(wanted - 1)
    /\ pc' = "shrinkEndStore"
    /\ UNCHANGED <<size, mustExit, job, gates, wpc, call, runs>>

ShrinkEndStore ==
    /\ pc = "shrinkEndStore" /\ endGate!Kick
    /\ Continue
    /\ UNCHANGED <<mustExit, job, startKick, wpc, wanted, cursor, runs>>

----------------------------------------------------------------------------
(* The common tail of kickOne, kickMulti and kick.                         *)

KickStart ==
    /\ pc = "kickStart" /\ startGate!Ready(size - 1)
    /\ pc' = "kickStartStore"
    /\ UNCHANGED <<size, mustExit, job, gates, wpc, call, runs>>

KickStartStore ==
    /\ pc = "kickStartStore" /\ startGate!Kick
    /\ pc' = "self"
    /\ UNCHANGED <<size, mustExit, job, endKick, wpc, call, runs>>

\* Mutant: main runs the action of kickOne whatever the index.
SelfBeginAlways ==
    /\ pc = "self"
    /\ pc' = "selfRun" /\ Count(0)
    /\ UNCHANGED <<size, mustExit, job, gates, wpc, call>>

SelfBegin ==
    /\ pc = "self" /\ (op = "kickOne" => arg = 0)
    /\ pc' = "selfRun" /\ Count(0)
    /\ UNCHANGED <<size, mustExit, job, gates, wpc, call>>

SelfSkip ==
    /\ pc = "self" /\ op = "kickOne" /\ arg # 0
    /\ pc' = "kickEnd"
    /\ UNCHANGED <<size, mustExit, job, gates, wpc, call, runs>>

\* Mutant: the action is reset before the end gate instead of after it.
SelfEndAndReset ==
    /\ pc = "selfRun"
    /\ pc' = "kickEnd"
    /\ resetAction
    /\ UNCHANGED <<size, mustExit, gates, wpc, call, runs>>

SelfEnd ==
    /\ pc = "selfRun"
    /\ pc' = "kickEnd"
    /\ UNCHANGED <<size, mustExit, job, gates, wpc, call, runs>>

\* Mutant: main does not wait for the workers to finish.
KickEndWithoutWait ==
    /\ pc = "kickEnd"
    /\ pc' = "kickEndStore"
    /\ UNCHANGED <<size, mustExit, job, gates, wpc, call, runs>>

KickEnd ==
    /\ pc = "kickEnd" /\ endGate!Ready(size - 1)
    /\ pc' = "kickEndStore"
    /\ UNCHANGED <<size, mustExit, job, gates, wpc, call, runs>>

KickEndStore ==
    /\ pc = "kickEndStore" /\ endGate!Kick
    /\ pc' = "reset"
    /\ UNCHANGED <<size, mustExit, job, startKick, wpc, call, runs>>

\* Mutant: the job of this call is left for the next one.
ReturnKeepsJob ==
    /\ pc = "reset"
    /\ pc' = "idle" /\ op' = "none" /\ arg' = 0
    /\ runs' = [i \in Indices |-> 0]
    /\ UNCHANGED <<size, mustExit, job, gates, wpc, wanted, cursor>>

\* The final resetAction and the return; the history starts over.
Return ==
    /\ pc = "reset"
    /\ resetAction
    /\ pc' = "idle" /\ op' = "none" /\ arg' = 0
    /\ runs' = [i \in Indices |-> 0]
    /\ UNCHANGED <<size, mustExit, gates, wpc, wanted, cursor>>

Main ==
    \/ Spawn \/ GrowDone
    \/ ShrinkStart \/ ShrinkStartStore \/ Join \/ Resize \/ ShrinkEnd \/ ShrinkEndStore
    \/ KickStart \/ KickStartStore \/ SelfBegin \/ SelfSkip \/ SelfEnd
    \/ KickEnd \/ KickEndStore \/ Return

Next == Call \/ Main \/ \E w \in Workers : Worker(w)

Spec == Init /\ [][Next]_vars

\* The operating system keeps running every started thread, and an atomic
\* store becomes visible to the spinning loads; nobody has to make a call.
Fairness == WF_vars(Main) /\ \A w \in Workers : WF_vars(Worker(w))

FairSpec == Spec /\ Fairness

----------------------------------------------------------------------------
(* Properties.                                                             *)

\* Types of the variables of the dispatcher, its workers and its caller.
TypeOK ==
    /\ size \in 0 .. MaxThreads
    /\ mustExit \in [Workers -> BOOLEAN]
    /\ m_threadFilter \in Indices \cup {-1} /\ m_action \in {"noAction", "thunk"}
    /\ startGate!TypeOK /\ endGate!TypeOK
    /\ wpc \in [Workers -> WorkerPcs]
    /\ pc \in MainPcs /\ op \in Ops /\ arg \in 0 .. MaxThreads
    /\ wanted \in 1 .. MaxThreads /\ cursor \in 0 .. MaxThreads
    /\ runs \in [Indices -> Nat]

\* The indices a call promises to run: one for kickOne, one per target for
\* kickMulti, main and every worker for kick.
Requested ==
    CASE op = "kickOne"   -> {arg}
      [] op = "kickMulti" -> 0 .. arg - 1
      [] op = "kick"      -> 0 .. size - 1
      [] OTHER            -> {}

\* When a kick has closed its end gate, every requested index has run exactly
\* once and no other index has run: no wake-up was lost, taken twice, or
\* taken by a worker left over from the previous call.
RunsExactlyOnce ==
    pc = "reset" => \A i \in Indices : runs[i] = (IF i \in Requested THEN 1 ELSE 0)

\* What kickMulti's comments promise ("Define the action", "Kick the threads",
\* JobDispatcher.h:151 and 163): every target is called.
KickMultiRunsEveryTarget ==
    pc = "reset" /\ op = "kickMulti" => \A i \in 0 .. arg - 1 : runs[i] = 1

\* Workers that have been let through the start gate and may still read the
\* job, the closure on main's stack or their mustExit flag.
Inside(w) ==
    \/ wpc[w] \in {"checkExit", "checkFilter", "run"}
    \/ wpc[w] = "spinStart" /\ startGate!Released

\* The closure lives on the stack of the kick call: no worker is still inside
\* when the call is about to return or has returned.
JoinedBeforeReturn ==
    pc \in {"kickEndStore", "reset", "idle", "unborn"} => \A w \in Workers : ~Inside(w)

\* No fetchAdd falls between the last load of kick() and its store: at a store
\* every live worker has announced itself and spins on that very gate.
NoArrivalLost ==
    /\ pc \in {"kickStartStore", "shrinkStartStore"}
           => startKick = size - 1 /\ \A w \in Alive : wpc[w] = "spinStart"
    /\ pc \in {"kickEndStore", "shrinkEndStore"}
           => endKick = size - 1 /\ \A w \in Alive : wpc[w] = "spinEnd"

\* Once the destructor is done no worker thread of the object is left.
NoThreadOutlivesDispatcher ==
    pc = "unborn" => \A w \in Workers : wpc[w] = "none"

\* Main never writes the plain fields the workers read (m_threadFilter,
\* m_action, m_param, mustExit) while a worker is inside: no data race.
MainWritesOnlyWhileWorkersWait ==
    [][<<job, mustExit>>' # <<job, mustExit>> => \A w \in Workers : ~Inside(w)]_vars

\* Each operation of the dispatcher returns: neither gate is ever left waiting
\* for a worker that has gone past it or has exited.
EveryCallReturns == pc \notin {"idle", "unborn"} ~> pc \in {"idle", "unborn"}
=============================================================================
