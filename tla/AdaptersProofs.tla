--------------------------- MODULE AdaptersProofs ---------------------------
(***************************************************************************)
(* Theorems about the adapters, for any constants: each is proved of its   *)
(* subject alone, which only its own steps move.  Locks and Waits have     *)
(* proofs of their own, which are carried over at the end.                 *)
(***************************************************************************)
EXTENDS Adapters, FiniteSetTheorems, SequenceTheorems, WellFoundedInduction, TLAPS

LP == INSTANCE LocksProofs

----------------------------------------------------------------------------
(* ThreadLocal.  The inductive invariant: where main and its threads can   *)
(* be, and that the objects there are are the values under the key and     *)
(* those that were lost.                                                   *)

MainPlaces == {"testInterface", "using", "testFunctionality", "starting", "joining", "checking", "done"}

ChildPlaces == {"unborn", "threadFunc", "ending", "ended"}

LocalsType ==
    /\ place = [t \in T!Threads |-> place[t]]
    /\ place[Main] \in MainPlaces /\ \A c \in Children : place[c] \in ChildPlaces
    /\ attached \in [Children -> BOOLEAN]
    /\ results = [c \in Children |-> results[c]]
    /\ slot \in [T!Threads -> T!Values \cup {NoValue}]
    /\ bad \in BOOLEAN

\* The key exists while main uses it.
KeyInUse ==
    key = CASE place[Main] = "using" -> "interface"
            [] place[Main] \in {"starting", "joining", "checking"} -> "threads"
            [] OTHER -> "none"

\* Which threads have been started and joined.
ChildrenRun ==
    \A c \in Children :
        /\ place[Main] \in {"testInterface", "using", "testFunctionality"} =>
               place[c] = "unborn" /\ ~attached[c]
        /\ place[Main] = "starting" => (attached[c] <=> place[c] # "unborn")
        /\ place[Main] = "joining" =>
               place[c] # "unborn" /\ (~attached[c] => place[c] = "ended")
        /\ place[Main] \in {"checking", "done"} => place[c] = "ended"
        /\ place[c] \in {"ending", "ended"} => results[c] = c

\* A thread's value is its own, and there only while the thread uses the key.
SlotsOwn ==
    \A t \in T!Threads : slot[t] # NoValue =>
        /\ slot[t][1] = t
        /\ place[t] \in {"using", "threadFunc", "ending"}

\* Lost values are those of threads that have ended, one each.
LeakedOnce ==
    /\ \A v \in leaked : v \in T!Values /\ v[1] \in Children /\ place[v[1]] = "ended"
    /\ \A v, w \in leaked : v[1] = w[1] => v = w
    /\ tls = "Boost" => leaked = {}

ObjectsAre == objects = {v \in T!Values : v = slot[v[1]]} \cup leaked

LocalsInv ==
    LocalsType /\ KeyInUse /\ ChildrenRun /\ SlotsOwn /\ LeakedOnce /\ ObjectsAre /\ ~bad

LEMMA LocalsInitially == ASSUME T!ThreadLocalAssumption, T!Init PROVE LocalsInv
<1>1. PICK k \in T!Systems : T!Start(k)
  BY DEF T!Init
<1>2. NoValue \notin T!Values /\ Main \notin Children
  BY DEF T!ThreadLocalAssumption, T!Values, T!Threads
<1>3. LocalsType
  BY <1>1, <1>2 DEF T!Start, LocalsType, MainPlaces, ChildPlaces, T!Threads
<1>4. KeyInUse
  BY <1>1 DEF T!Start, KeyInUse, T!Threads
<1>5. ChildrenRun
  BY <1>1, <1>2 DEF T!Start, ChildrenRun, T!Threads
<1>6. SlotsOwn /\ LeakedOnce /\ ~bad
  BY <1>1, <1>2 DEF T!Start, SlotsOwn, LeakedOnce
<1>7. ObjectsAre
  BY <1>1, <1>2 DEF T!Start, ObjectsAre, T!Values
<1> QED
  BY <1>3, <1>4, <1>5, <1>6, <1>7 DEF LocalsInv

\* A thread that uses the key stores a value: the one it replaces is deleted.
LEMMA Stored ==
  ASSUME T!ThreadLocalAssumption, LocalsInv, NEW t \in T!Threads, place[t] \in {"using", "threadFunc"},
         T!Serial(t) < Stores, T!setData(t, T!NextValue(t)),
         UNCHANGED <<tls, key, leaked, place, attached, results>>
  PROVE  LocalsInv'
<1> DEFINE old == slot[t]
           new == T!NextValue(t)
<1>1. /\ NoValue \notin T!Values /\ Main \notin Children
      /\ \A v \in T!Values : v[1] \in T!Threads /\ v[2] \in Nat /\ v = <<v[1], v[2]>>
  BY DEF T!ThreadLocalAssumption, T!Values, T!Threads
<1>2. old \in T!Values \cup {NoValue} /\ (old # NoValue => old[1] = t)
  BY DEF LocalsInv, LocalsType, SlotsOwn
<1>3. new \in T!Values /\ new[1] = t /\ new # NoValue /\ new # old
  <2>1. T!Serial(t) \in Nat /\ (old # NoValue => T!Serial(t) = old[2])
    BY <1>1, <1>2 DEF T!Serial
  <2>2. T!Serial(t) + 1 \in 1 .. Stores /\ new = <<t, T!Serial(t) + 1>>
    BY <2>1 DEF T!ThreadLocalAssumption, T!NextValue
  <2> QED
    BY <1>1, <2>1, <2>2 DEF T!Values
<1>4. /\ slot' = [slot EXCEPT ![t] = new]
      /\ objects' = (objects \ T!Deleted(old)) \cup {new}
      /\ bad' = (bad \/ T!Broken(old))
  BY DEF T!setData
<1> HIDE DEF old, new
<1>5. ~T!Broken(old)
  BY <1>2 DEF T!Broken, LocalsInv, ObjectsAre, old
<1>6. LocalsType' /\ ~bad'
  BY <1>3, <1>4, <1>5 DEF LocalsInv, LocalsType, T!Values, T!Threads
<1>7. KeyInUse' /\ ChildrenRun' /\ LeakedOnce'
  BY DEF LocalsInv, KeyInUse, ChildrenRun, LeakedOnce, T!Values, T!Threads
<1>8. SlotsOwn'
  BY <1>3, <1>4 DEF LocalsInv, LocalsType, SlotsOwn, T!Threads, T!Values
<1>9. ObjectsAre'
  <2>1. /\ slot'[t] = new
        /\ \A u \in T!Threads \ {t} : slot'[u] = slot[u]
    BY <1>4 DEF LocalsInv, LocalsType
  <2>2. {v \in T!Values : v = slot'[v[1]]} = ({v \in T!Values : v = slot[v[1]]} \ {old}) \cup {new}
    BY <1>1, <1>2, <1>3, <2>1 DEF old
  <2>3. old \notin leaked
    <3> SUFFICES ASSUME old \in leaked PROVE FALSE
      OBVIOUS
    <3>1. old \in T!Values /\ old[1] = t /\ place[t] = "ended"
      BY <1>1, <1>2 DEF LocalsInv, LeakedOnce
    <3> QED
      BY <3>1
  <2>4. T!Deleted(old) = {old} \ {NoValue} /\ NoValue \notin objects
    BY <1>1 DEF T!Deleted, LocalsInv, ObjectsAre, LeakedOnce
  <2>5. objects' = (objects \ {old}) \cup {new}
    BY <1>4, <2>4
  <2>6. leaked' = leaked /\ T!Values' = T!Values
    BY DEF T!Values, T!Threads
  <2> QED
    BY <2>2, <2>3, <2>5, <2>6 DEF ObjectsAre, LocalsInv
<1> QED
  BY <1>6, <1>7, <1>8, <1>9 DEF LocalsInv

\* Main creates and destroys the TLSPtr of its own test while no thread runs.
LEMMA KeySteps ==
  ASSUME T!ThreadLocalAssumption, LocalsInv, T!Create \/ T!Destroy
  PROVE  LocalsInv'
<1>1. Main \notin Children /\ Main \in T!Threads /\ NoValue \notin T!Values
  BY DEF T!ThreadLocalAssumption, T!Values, T!Threads
<1>2. \A c \in Children : slot[c] = NoValue
  BY <1>1 DEF LocalsInv, LocalsType, SlotsOwn, ChildrenRun, T!Create, T!Destroy, T!At, T!Threads
<1>3. PICK to \in MainPlaces : T!Go(Main, to) /\ to \in {"using", "starting", "testFunctionality", "done"}
  BY DEF T!Create, T!Destroy, MainPlaces
<1>4. /\ place' = [place EXCEPT ![Main] = to] /\ place'[Main] = to
      /\ \A c \in Children : place'[c] = place[c]
  BY <1>1, <1>3 DEF T!Go, LocalsInv, LocalsType, T!Threads
<1>5. /\ slot' = [u \in T!Threads |-> NoValue]
      /\ UNCHANGED <<tls, leaked, attached, results>>
  BY DEF T!Create, T!Destroy, T!CreateKey, T!DestroyKey, T!Same, T!NoThreads
<1>6. bad' = FALSE
  BY <1>1 DEF T!Create, T!Destroy, T!CreateKey, T!DestroyKey, LocalsInv, LocalsType, ObjectsAre, SlotsOwn, T!Broken
<1>7. LocalsType'
  BY <1>3, <1>4, <1>5, <1>6 DEF LocalsInv, LocalsType, T!Threads, T!Values
<1>8. KeyInUse' /\ ChildrenRun'
  BY <1>1, <1>4, <1>5, SMTT(60) DEF T!Create, T!Destroy, T!CreateKey, T!DestroyKey, T!At, T!Go, LocalsInv, LocalsType, KeyInUse, ChildrenRun
<1>9. SlotsOwn' /\ LeakedOnce'
  BY <1>1, <1>4, <1>5 DEF LocalsInv, SlotsOwn, LeakedOnce, T!Values, T!Threads
<1>10. ObjectsAre'
  <2>1. slot[Main] # NoValue => place[Main] = "using" /\ slot[Main] \in T!Values /\ slot[Main][1] = Main
    BY <1>1 DEF LocalsInv, LocalsType, SlotsOwn, MainPlaces, T!Threads
  <2>2. {v \in T!Values : v = slot[v[1]]} = {slot[Main]} \ {NoValue}
    BY <1>1, <1>2, <2>1 DEF T!Values, T!Threads
  <2>3. slot[Main] \notin leaked /\ NoValue \notin leaked
    BY <1>1, <2>1 DEF LocalsInv, LeakedOnce
  <2>4. objects = ({slot[Main]} \ {NoValue}) \cup leaked
    BY <2>2 DEF LocalsInv, ObjectsAre
  <2>5. objects' = leaked
    <3>1. CASE T!Create
      BY <2>1, <2>4, <3>1 DEF T!Create, T!At
    <3>2. CASE T!Destroy
      BY <2>3, <2>4, <3>2 DEF T!Destroy, T!DestroyKey, T!Deleted
    <3> QED
      BY <3>1, <3>2
  <2>6. {v \in T!Values : v = slot'[v[1]]} = {}
    BY <1>1, <1>5 DEF T!Values, T!Threads
  <2> QED
    BY <1>5, <2>5, <2>6 DEF ObjectsAre, T!Values, T!Threads
<1> QED
  BY <1>6, <1>7, <1>8, <1>9, <1>10 DEF LocalsInv

\* Main has started all threads, or joined them.
LEMMA MainMovesOn ==
  ASSUME T!ThreadLocalAssumption, LocalsInv, T!StartedAll \/ T!JoinedAll
  PROVE  LocalsInv'
<1>1. Main \notin Children /\ Main \in T!Threads
  BY DEF T!ThreadLocalAssumption, T!Threads
<1>2. /\ UNCHANGED <<tls, key, slot, objects, leaked, bad, attached, results>>
      /\ \A c \in Children : place'[c] = place[c]
      /\ place' = [t \in T!Threads |-> place'[t]] /\ place'[Main] \in {"joining", "checking"}
  BY <1>1 DEF T!StartedAll, T!JoinedAll, T!Go, T!Same, T!NoThreads, T!NoTLS, LocalsInv, LocalsType, T!Threads
<1>3. LocalsType'
  BY <1>2 DEF LocalsInv, LocalsType, MainPlaces, T!Threads, T!Values
<1>4. KeyInUse' /\ ChildrenRun'
  BY <1>1, <1>2 DEF T!StartedAll, T!JoinedAll, T!At, T!Go, LocalsInv, LocalsType, KeyInUse, ChildrenRun
<1>5. SlotsOwn'
  BY <1>1, <1>2 DEF T!StartedAll, T!JoinedAll, T!At, LocalsInv, SlotsOwn, T!Threads
<1>6. LeakedOnce' /\ ObjectsAre'
  BY <1>1, <1>2 DEF LocalsInv, LeakedOnce, ObjectsAre, T!Values, T!Threads
<1> QED
  BY <1>2, <1>3, <1>4, <1>5, <1>6 DEF LocalsInv

LEMMA ThreadSteps ==
  ASSUME T!ThreadLocalAssumption, LocalsInv, NEW c \in Children, T!run(c) \/ T!join(c)
  PROVE  LocalsInv'
<1>1. Main \notin Children /\ Main \in T!Threads /\ c \in T!Threads /\ c # Main
  BY DEF T!ThreadLocalAssumption, T!Threads
<1>2. /\ UNCHANGED <<tls, key, slot, objects, leaked, results>>
      /\ \A t \in T!Threads \ {c} : place'[t] = place[t]
      /\ place' = [t \in T!Threads |-> place'[t]] /\ place'[c] \in ChildPlaces
      /\ place[c] # "unborn" => place'[c] = place[c]
      /\ place[c] = "unborn" => place'[c] = "threadFunc" /\ T!run(c)
  BY <1>1 DEF T!run, T!join, T!At, T!Go, T!Same, T!NoTLS, LocalsInv, LocalsType, ChildPlaces, T!Threads
<1>3. bad' = FALSE
  BY <1>1 DEF T!run, T!join, T!NoTLS, T!At, LocalsInv, LocalsType, ChildrenRun
<1>4. LocalsType'
  BY <1>1, <1>2, <1>3 DEF T!run, T!join, LocalsInv, LocalsType, MainPlaces, ChildPlaces, T!Threads, T!Values
<1>5. KeyInUse' /\ ChildrenRun'
  BY <1>1, <1>2 DEF T!run, T!join, T!At, T!Threads, LocalsInv, LocalsType, KeyInUse, ChildrenRun, ChildPlaces
<1>6. SlotsOwn'
  BY <1>1, <1>2 DEF LocalsInv, SlotsOwn, T!Threads
<1>7. LeakedOnce' /\ ObjectsAre'
  BY <1>1, <1>2 DEF LocalsInv, LeakedOnce, ObjectsAre, T!Values, T!Threads
<1> QED
  BY <1>3, <1>4, <1>5, <1>6, <1>7 DEF LocalsInv

LEMMA ReportStep ==
  ASSUME T!ThreadLocalAssumption, LocalsInv, NEW c \in Children, T!Report(c)
  PROVE  LocalsInv'
<1>1. Main \notin Children /\ Main \in T!Threads /\ c \in T!Threads /\ c # Main
  BY DEF T!ThreadLocalAssumption, T!Threads
<1>2. /\ place[c] = "threadFunc" /\ place'[c] = "ending"
      /\ \A t \in T!Threads \ {c} : place'[t] = place[t]
      /\ place' = [t \in T!Threads |-> place'[t]]
      /\ UNCHANGED <<tls, key, slot, objects, leaked, attached>>
      /\ results' = [d \in Children |-> results'[d]] /\ results'[c] = slot[c][1]
      /\ \A d \in Children \ {c} : results'[d] = results[d]
  BY <1>1 DEF T!Report, T!Go, T!At, T!Same, LocalsInv, LocalsType, T!Threads
<1>3. slot[c] # NoValue /\ slot[c][1] = c /\ slot[c] \in T!Values /\ slot[c] \in objects
  BY <1>1 DEF T!Report, LocalsInv, LocalsType, SlotsOwn, ObjectsAre
<1>4. place[Main] \in {"starting", "joining"} /\ key # "none"
  BY <1>1, <1>2 DEF LocalsInv, LocalsType, MainPlaces, ChildrenRun, KeyInUse
<1>5. bad' = FALSE
  BY <1>3, <1>4 DEF T!Report, T!Broken, LocalsInv
<1>6. LocalsType'
  BY <1>1, <1>2, <1>5 DEF LocalsInv, LocalsType, MainPlaces, ChildPlaces, T!Threads, T!Values
<1>7. KeyInUse' /\ ChildrenRun'
  BY <1>1, <1>2, <1>3, <1>4 DEF LocalsInv, LocalsType, KeyInUse, ChildrenRun, T!Threads
<1>8. SlotsOwn'
  BY <1>1, <1>2 DEF LocalsInv, SlotsOwn, T!Threads
<1>9. LeakedOnce' /\ ObjectsAre'
  BY <1>1, <1>2 DEF LocalsInv, LeakedOnce, ObjectsAre, T!Values, T!Threads
<1> QED
  BY <1>5, <1>6, <1>7, <1>8, <1>9 DEF LocalsInv

\* A thread that ends deletes its value or leaves it behind.
LEMMA EndStep ==
  ASSUME T!ThreadLocalAssumption, LocalsInv, NEW c \in Children, T!End(c)
  PROVE  LocalsInv'
<1> DEFINE old == slot[c]
<1>1. /\ Main \notin Children /\ Main \in T!Threads /\ c \in T!Threads /\ c # Main
      /\ NoValue \notin T!Values
      /\ \A v \in T!Values : v[1] \in T!Threads
  BY DEF T!ThreadLocalAssumption, T!Threads, T!Values
<1>2. /\ place[c] = "ending" /\ place'[c] = "ended"
      /\ \A t \in T!Threads \ {c} : place'[t] = place[t]
      /\ place' = [t \in T!Threads |-> place'[t]]
      /\ UNCHANGED <<tls, key, attached, results>>
      /\ slot' \in [T!Threads -> T!Values \cup {NoValue}]
      /\ slot'[c] = NoValue /\ \A t \in T!Threads \ {c} : slot'[t] = slot[t]
  BY <1>1 DEF T!End, T!Go, T!At, T!Same, T!NoThreads, LocalsInv, LocalsType, T!Threads
<1>3. /\ old \in T!Values \cup {NoValue}
      /\ old # NoValue => old[1] = c /\ old \in objects
  BY <1>1 DEF LocalsInv, LocalsType, SlotsOwn, ObjectsAre
<1>4. old \notin leaked /\ NoValue \notin leaked /\ \A v \in leaked : v[1] # c
  BY <1>1, <1>2, <1>3 DEF LocalsInv, LeakedOnce
<1>5. T!Deleted(old) = {old} \ {NoValue}
  BY DEF T!Deleted
<1>6. bad' = FALSE
  BY <1>3 DEF T!End, T!Broken, LocalsInv, LocalsType
<1>7. LocalsType'
  BY <1>1, <1>2, <1>6 DEF LocalsInv, LocalsType, MainPlaces, ChildPlaces, T!Threads, T!Values
<1>8. KeyInUse' /\ ChildrenRun'
  BY <1>1, <1>2 DEF LocalsInv, LocalsType, KeyInUse, ChildrenRun, T!Threads
<1>9. SlotsOwn'
  BY <1>1, <1>2 DEF LocalsInv, SlotsOwn, T!Threads
<1>10. /\ tls = "Boost" => objects' = objects \ ({old} \ {NoValue}) /\ leaked' = leaked
       /\ tls # "Boost" => leaked' = leaked \cup ({old} \ {NoValue}) /\ objects' = objects
  BY <1>5 DEF T!End
<1>11. LeakedOnce'
  <2>1. \A v \in leaked' : v \in T!Values /\ v[1] \in Children /\ place'[v[1]] = "ended"
    BY <1>1, <1>2, <1>3, <1>4, <1>10 DEF LocalsInv, LeakedOnce, T!Threads
  <2>2. \A v, w \in leaked' : v[1] = w[1] => v = w
    BY <1>1, <1>2, <1>3, <1>4, <1>10 DEF LocalsInv, LeakedOnce
  <2>3. T!Values' = T!Values
    BY DEF T!Values, T!Threads
  <2> QED
    BY <1>2, <1>10, <2>1, <2>2, <2>3 DEF LocalsInv, LeakedOnce
<1>12. ObjectsAre'
  <2>1. {v \in T!Values : v = slot'[v[1]]} = {v \in T!Values : v = slot[v[1]]} \ {old}
    BY <1>1, <1>2, <1>3
  <2>2. old # NoValue => old \in {v \in T!Values : v = slot[v[1]]}
    BY <1>3
  <2>3. T!Values' = T!Values
    BY DEF T!Values, T!Threads
  <2>4. NoValue \notin objects
    BY <1>1, <1>4 DEF LocalsInv, ObjectsAre
  <2> HIDE DEF old
  <2>5. objects' = {v \in T!Values : v = slot'[v[1]]} \cup leaked'
    BY <1>4, <1>10, <2>1, <2>2, <2>4 DEF LocalsInv, ObjectsAre
  <2> QED
    BY <2>3, <2>5 DEF ObjectsAre
<1> QED
  BY <1>6, <1>7, <1>8, <1>9, <1>11, <1>12 DEF LocalsInv

LEMMA LocalsStep == ASSUME T!ThreadLocalAssumption, LocalsInv, T!Next PROVE LocalsInv'
<1>1. ASSUME T!StoreOwn PROVE LocalsInv'
  BY <1>1, Stored DEF T!StoreOwn, T!At, T!Same, T!NoThreads, T!Threads
<1>2. ASSUME NEW c \in Children, T!Store(c) PROVE LocalsInv'
  BY <1>2, Stored DEF T!Store, T!At, T!Same, T!NoThreads, T!Threads
<1> QED
  BY <1>1, <1>2, KeySteps, MainMovesOn, ThreadSteps, ReportStep, EndStep DEF T!Next, T!Child

\* Nobody uses or deletes a deleted value, and every object is deleted once by
\* whoever can, for any number of threads and stores (TLSPtr_POSIX.h:42).
THEOREM ValuesDisposed == Spec => []ValuesDisposedOf
<1>1. T!ThreadLocalAssumption
  BY SubjectsAssumption
<1>2. Init => LocalsInv
  <2>1. T!Start("POSIX") => T!Init
    BY DEF T!Init, T!Systems
  <2> QED
    BY <1>1, <2>1, LocalsInitially DEF Init, LocalsInit
<1>3. LocalsInv /\ [Next]_vars => LocalsInv'
  <2> SUFFICES ASSUME LocalsInv, [Next]_vars PROVE LocalsInv'
    OBVIOUS
  <2>1. T!Next \/ UNCHANGED locals
    BY DEF Next, LocksNext, WaitsNext, SemaphoresNext, AffinityNext, LocalsNext, CountersNext,
           LazyNext, NumbersNext, Rest, vars
  <2>2. CASE UNCHANGED locals
    BY <2>2 DEF locals, LocalsInv, LocalsType, KeyInUse, ChildrenRun, SlotsOwn, LeakedOnce,
                ObjectsAre, T!Threads, T!Values
  <2> QED
    BY <1>1, <2>1, <2>2, LocalsStep
<1>4. LocalsInv => ValuesDisposedOf
  <2> SUFFICES ASSUME LocalsInv PROVE T!ValuesDisposedOf
    BY DEF ValuesDisposedOf
  <2>1. Main \notin Children /\ NoValue \notin T!Values
    BY <1>1 DEF T!ThreadLocalAssumption, T!Values, T!Threads
  <2>2. T!At(Main, "checking") => \A c \in Children : results[c] = c
    BY DEF T!At, LocalsInv, ChildrenRun
  <2>3. ASSUME key = "none" PROVE objects = leaked
    <3>1. place[Main] \in {"testInterface", "testFunctionality", "done"}
      BY <2>3 DEF LocalsInv, LocalsType, KeyInUse, MainPlaces
    <3>2. \A t \in T!Threads : slot[t] = NoValue
      BY <2>1, <3>1 DEF LocalsInv, SlotsOwn, ChildrenRun, T!Threads
    <3> QED
      BY <2>1, <3>2 DEF LocalsInv, ObjectsAre, T!Values
  <2> QED
    BY <2>2, <2>3 DEF LocalsInv, LeakedOnce, T!ValuesDisposedOf
<1> QED
  BY <1>2, <1>3, <1>4, PTL DEF Spec

----------------------------------------------------------------------------
(* Semaphore.  The inductive invariant: the sum, and that a thread has     *)
(* posts left only inside its call of signal.                              *)

Call ==
    [call : {"wait", "signal"}, count : Nat, left : Nat,
     at : {"idle", "waiting", "interrupted", "posting", "done"}]

UsersType ==
    /\ user \in [Users -> Call]
    /\ units \in Nat /\ lost \in Nat

Posting ==
    \A u \in Users :
        /\ user[u].left <= user[u].count
        /\ user[u].at # "posting" => user[u].left = 0
        /\ user[u].call = "wait" => user[u].count = 0 /\ user[u].at # "posting"
        /\ user[u].call = "signal" => user[u].at \in {"idle", "posting", "done"}

SemaphoresInv == UsersType /\ Posting /\ S!UnitsConserved

LEMMA UsersFinite ==
  ASSUME S!SemaphoreAssumption
  PROVE  IsFiniteSet(Users) /\ LP!IsFiniteSet(Users)
BY DEF S!SemaphoreAssumption, S!IsFiniteSet, LP!IsFiniteSet, IsFiniteSet

LEMMA Counting == \A R : S!Cardinality(R) = Cardinality(R)
BY DEF S!Cardinality, Cardinality, S!IsFiniteSet, IsFiniteSet

\* What every thread has signalled, and how many there are in all.
Signals == [u \in Users |-> S!Signalled(u)]

LEMMA SignalledIs ==
  S!MapThenSumSet(S!Signalled, Users) = LP!Sums(Signals, Users)[Users]
BY DEF S!MapThenSumSet, S!MapThenFoldSet, LP!Sums, LP!Summed, LP!Chosen, Signals

\* What a thread in a given place of its call has signalled, and taken.
Given(local) == IF local.at = "idle" THEN 0 ELSE local.count - local.left

Taken(local) == IF local.call = "wait" /\ local.at = "done" THEN 1 ELSE 0

\* What has to be shown of a thread's step: it takes what there is less, and
\* signals what there is, or is lost, more.
LEMMA Balanced ==
  ASSUME S!SemaphoreAssumption, SemaphoresInv, NEW u \in Users, NEW new \in Call,
         user' = [user EXCEPT ![u] = new], units' \in Nat, lost' \in Nat,
         new.call = user[u].call, new.count = user[u].count, new.left <= new.count,
         new.at # "posting" => new.left = 0,
         new.call = "wait" => new.at # "posting",
         new.call = "signal" => new.at \in {"idle", "posting", "done"},
         Given(new) - Given(user[u])
             = (Taken(new) - Taken(user[u])) + (units' - units) + (lost' - lost)
  PROVE  SemaphoresInv'
<1>1. /\ user' \in [Users -> Call] /\ user'[u] = new
      /\ \A v \in Users \ {u} : user'[v] = user[v]
  BY DEF SemaphoresInv, UsersType
<1>2. UsersType'
  BY <1>1 DEF UsersType, Call
<1>3. Posting'
  BY <1>1 DEF SemaphoresInv, Posting
<1>4. IsFiniteSet(Users) /\ LP!IsFiniteSet(Users)
  BY UsersFinite
<1>5. S!UnitsConserved'
  <2>1. \A v \in Users : Signals[v] = Given(user[v]) /\ Signals'[v] = Given(user'[v])
    BY DEF Signals, S!Signalled, S!At, Given
  <2>2. \A v \in Users : Given(user[v]) \in Int /\ Given(user'[v]) \in Int
    BY <1>1 DEF SemaphoresInv, UsersType, Call, Given
  <2>3. /\ LP!Sums(Signals', Users)[Users]
               = LP!Sums(Signals, Users)[Users] + (Given(new) - Given(user[u]))
        /\ LP!Sums(Signals, Users)[Users] \in Int
    <3>1. /\ \A v \in Users : Signals[v] \in Int
          /\ Signals'[u] \in Int /\ \A v \in Users \ {u} : Signals'[v] = Signals[v]
          /\ Signals'[u] = Given(new) /\ Signals[u] = Given(user[u])
      BY <1>1, <2>1, <2>2
    <3> QED
      BY <1>4, <3>1, LP!SumChanges
  <2>4. S!MapThenSumSet(S!Signalled, Users)' = LP!Sums(Signals', Users)[Users]
    <3>1. (S!MapThenSumSet(S!Signalled, Users) = LP!Sums(Signals, Users)[Users])'
      BY SignalledIs, PTL
    <3> QED
      BY <3>1
  <2>5. /\ Cardinality(S!Returned)' = Cardinality(S!Returned) + (Taken(new) - Taken(user[u]))
        /\ Cardinality(S!Returned) \in Nat
    <3>1. /\ IsFiniteSet(S!Returned) /\ Cardinality(S!Returned) \in Nat
          /\ u \in S!Returned <=> Taken(user[u]) = 1
          /\ u \in S!Returned' <=> Taken(new) = 1
      <4>1. S!Returned \in SUBSET Users
        BY DEF S!Returned, S!Waiting
      <4> QED
        BY <1>1, <1>4, <4>1, FS_Subset, FS_CardinalityType DEF S!Returned, S!Waiting, S!At, Taken
    <3>2. S!Returned' = IF Taken(new) = 1 THEN S!Returned \cup {u} ELSE S!Returned \ {u}
      BY <1>1, <3>1 DEF S!Returned, S!Waiting, S!At, Taken
    <3>3. Taken(new) \in {0, 1} /\ Taken(user[u]) \in {0, 1}
      BY DEF Taken
    <3>4. Cardinality(S!Returned') =
              IF Taken(new) = Taken(user[u]) THEN Cardinality(S!Returned)
              ELSE IF Taken(new) = 1 THEN Cardinality(S!Returned) + 1 ELSE Cardinality(S!Returned) - 1
      BY <3>1, <3>2, <3>3, FS_AddElement, FS_RemoveElement
    <3> QED
      BY <3>1, <3>3, <3>4
  <2>7. Given(new) \in Int /\ Given(user[u]) \in Int /\ Taken(new) \in Int /\ Taken(user[u]) \in Int
    BY <1>1, <2>2 DEF Taken
  <2>8. S!MapThenSumSet(S!Signalled, Users) = Cardinality(S!Returned) + units + lost
    BY Counting DEF SemaphoresInv, S!UnitsConserved
  <2>9. (S!MapThenSumSet(S!Signalled, Users) = Cardinality(S!Returned) + units + lost)'
    BY <2>3, <2>4, <2>5, <2>7, <2>8, SignalledIs DEF SemaphoresInv, UsersType
  <2> QED
    BY <2>9, Counting DEF S!UnitsConserved
<1> QED
  BY <1>2, <1>3, <1>5 DEF SemaphoresInv

\* A step that only moves a thread on, without a unit.
LEMMA GoesOn ==
  ASSUME S!SemaphoreAssumption, SemaphoresInv, NEW u \in Users,
         S!CallWait(u) \/ S!Retry(u) \/ S!Posted(u) \/ S!Interrupt(u)
  PROVE  SemaphoresInv'
<1>1. PICK to \in {"waiting", "interrupted", "done"} :
          /\ S!Go(u, to) /\ UNCHANGED <<units, lost>>
          /\ to = "done" <=> user[u].at = "posting"
  BY DEF S!CallWait, S!Retry, S!Posted, S!Interrupt, S!At
<1> DEFINE new == [user[u] EXCEPT !.at = to]
<1>2. user[u] \in Call /\ user' = [user EXCEPT ![u] = new] /\ units \in Nat /\ lost \in Nat
  BY <1>1 DEF SemaphoresInv, UsersType, S!Go
<1>3. /\ new \in Call /\ new.at = to
      /\ new.call = user[u].call /\ new.count = user[u].count /\ new.left = user[u].left
  BY <1>2 DEF Call
<1> HIDE DEF new
<1>4. /\ user[u].left = 0
      /\ user[u].call = "wait" => user[u].count = 0
      /\ to # "done" => user[u].call = "wait" /\ user[u].at # "done"
      /\ to = "done" => user[u].call = "signal"
  BY <1>1, <1>2 DEF S!CallWait, S!Retry, S!Posted, S!Interrupt, S!At, SemaphoresInv, Posting, Call
<1>5. /\ user[u].count \in Nat /\ user[u].left \in Nat /\ user[u].left <= user[u].count
      /\ user[u].call = "wait" \/ user[u].call = "signal"
  BY <1>2 DEF Call, SemaphoresInv, Posting
<1>6. Given(new) = user[u].count /\ Given(user[u]) = user[u].count
  <2>1. CASE to = "done"
    BY <1>1, <1>3, <1>4, <1>5, <2>1 DEF Given
  <2>2. CASE to # "done"
    BY <1>3, <1>4, <1>5, <2>2 DEF Given
  <2> QED
    BY <2>1, <2>2
<1>7. Taken(new) = 0 /\ Taken(user[u]) = 0
  BY <1>3, <1>4 DEF Taken
<1>8. /\ units' \in Nat /\ lost' \in Nat
      /\ user[u].count - user[u].count = (0 - 0) + (units' - units) + (lost' - lost)
  BY <1>1, <1>2, <1>5
<1>9. /\ new.left <= new.count
      /\ new.at # "posting" => new.left = 0
      /\ new.call = "wait" => new.at # "posting"
      /\ new.call = "signal" => new.at \in {"idle", "posting", "done"}
  BY <1>3, <1>4, <1>5
<1> QED
  BY <1>2, <1>3, <1>6, <1>7, <1>8, <1>9, Balanced

LEMMA TakeUnitStep ==
  ASSUME S!SemaphoreAssumption, SemaphoresInv, NEW u \in Users, S!TakeUnit(u)
  PROVE  SemaphoresInv'
<1> DEFINE new == [user[u] EXCEPT !.at = "done"]
<1>1. /\ user[u] \in Call /\ user' = [user EXCEPT ![u] = new] /\ user[u].at = "waiting"
      /\ units \in Nat /\ units > 0 /\ units' = units - 1 /\ lost \in Nat /\ lost' = lost
  BY DEF SemaphoresInv, UsersType, S!Go, S!TakeUnit, S!At
<1>2. /\ new \in Call /\ new.at = "done"
      /\ new.call = user[u].call /\ new.count = user[u].count /\ new.left = user[u].left
  BY <1>1 DEF Call
<1> HIDE DEF new
<1>3. user[u].left = 0 /\ user[u].call = "wait" /\ user[u].count = 0
  BY <1>1 DEF SemaphoresInv, Posting, Call
<1>4. Given(new) = 0 /\ Given(user[u]) = 0 /\ Taken(new) = 1 /\ Taken(user[u]) = 0
  BY <1>1, <1>2, <1>3 DEF Given, Taken
<1>5. /\ units' \in Nat /\ lost' \in Nat
      /\ 0 - 0 = (1 - 0) + (units' - units) + (lost' - lost)
  BY <1>1
<1>6. /\ new.left <= new.count
      /\ new.at # "posting" => new.left = 0
      /\ new.call = "wait" => new.at # "posting"
      /\ new.call # "signal"
  BY <1>2, <1>3
<1> QED
  BY <1>1, <1>2, <1>4, <1>5, <1>6, Balanced

LEMMA CallSignalStep ==
  ASSUME S!SemaphoreAssumption, SemaphoresInv, NEW u \in Users, S!CallSignal(u)
  PROVE  SemaphoresInv'
<1> DEFINE new == [user[u] EXCEPT !.left = user[u].count, !.at = "posting"]
<1>1. /\ user[u] \in Call /\ user' = [user EXCEPT ![u] = new]
      /\ user[u].at = "idle" /\ user[u].call = "signal"
      /\ units \in Nat /\ units' = units /\ lost \in Nat /\ lost' = lost
  BY DEF SemaphoresInv, UsersType, S!CallSignal, S!At
<1>2. /\ new \in Call /\ new.at = "posting"
      /\ new.call = user[u].call /\ new.count = user[u].count /\ new.left = user[u].count
  BY <1>1 DEF Call
<1> HIDE DEF new
<1>3. user[u].count \in Nat
  BY <1>1 DEF Call
<1>4. Given(new) = 0 /\ Given(user[u]) = 0 /\ Taken(new) = 0 /\ Taken(user[u]) = 0
  BY <1>1, <1>2, <1>3 DEF Given, Taken
<1>5. /\ units' \in Nat /\ lost' \in Nat
      /\ 0 - 0 = (0 - 0) + (units' - units) + (lost' - lost)
  BY <1>1
<1>6. new.left <= new.count /\ new.call # "wait" /\ new.at = "posting"
  BY <1>1, <1>2, <1>3
<1> QED
  BY <1>1, <1>2, <1>4, <1>5, <1>6, Balanced

LEMMA PostStep ==
  ASSUME S!SemaphoreAssumption, SemaphoresInv, NEW u \in Users, S!Post(u)
  PROVE  SemaphoresInv'
<1> DEFINE left == user[u].left - 1
           new == [user[u] EXCEPT !.left = left]
<1>1. /\ user[u] \in Call /\ user' = [user EXCEPT ![u] = new]
      /\ user[u].at = "posting" /\ user[u].left > 0 /\ units \in Nat /\ lost \in Nat
  BY DEF SemaphoresInv, UsersType, S!Post, S!At
<1>2. left \in Nat /\ user[u].left \in Nat /\ user[u].count \in Nat /\ user[u].left <= user[u].count
  BY <1>1 DEF Call, SemaphoresInv, Posting
<1>3. /\ new \in Call /\ new.at = user[u].at
      /\ new.call = user[u].call /\ new.count = user[u].count /\ new.left = left
  <2> HIDE DEF left
  <2> QED
    BY <1>1, <1>2 DEF Call
<1> HIDE DEF new
<1>4. user[u].call = "signal"
  BY <1>1 DEF SemaphoresInv, Posting, Call
<1>5. /\ units' \in Nat /\ lost' \in Nat
      /\ (0 - 0) + (units' - units) + (lost' - lost) = 1
  <2>1. units \in Nat /\ lost \in Nat
    BY <1>1
  <2>2. \/ units' = units + 1 /\ lost' = lost
        \/ units' = units /\ lost' = lost + 1
    BY DEF S!Post
  <2> QED
    BY <2>1, <2>2
<1>6. /\ Given(new) - Given(user[u]) = 1 /\ Taken(new) = 0 /\ Taken(user[u]) = 0
      /\ new.left <= new.count
  BY <1>1, <1>2, <1>3, <1>4 DEF Given, Taken
<1>7. Given(new) - Given(user[u]) = (Taken(new) - Taken(user[u])) + (units' - units) + (lost' - lost)
  BY <1>5, <1>6
<1> QED
  BY <1>1, <1>3, <1>4, <1>5, <1>6, <1>7, Balanced

LEMMA ReleaseSemaphoreStep ==
  ASSUME S!SemaphoreAssumption, SemaphoresInv, NEW u \in Users, S!ReleaseSemaphore(u)
  PROVE  SemaphoresInv'
<1> DEFINE new == [user[u] EXCEPT !.at = "done"]
<1>1. /\ user[u] \in Call /\ user' = [user EXCEPT ![u] = new]
      /\ user[u].at = "idle" /\ user[u].call = "signal" /\ units \in Nat /\ lost \in Nat
  BY DEF SemaphoresInv, UsersType, S!ReleaseSemaphore, S!At, S!Go
<1>2. /\ new \in Call /\ new.at = "done"
      /\ new.call = user[u].call /\ new.count = user[u].count /\ new.left = user[u].left
  BY <1>1 DEF Call
<1> HIDE DEF new
<1>3. user[u].left = 0 /\ user[u].count \in Nat
  BY <1>1 DEF SemaphoresInv, Posting, Call
<1>4. /\ units' \in Nat /\ lost' \in Nat
      /\ (units' - units) + (lost' - lost) = user[u].count
  BY <1>1, <1>3 DEF S!ReleaseSemaphore
<1>5. Given(new) = user[u].count /\ Given(user[u]) = 0 /\ Taken(new) = 0 /\ Taken(user[u]) = 0
  BY <1>1, <1>2, <1>3 DEF Given, Taken
<1>6. Given(new) - Given(user[u]) = (Taken(new) - Taken(user[u])) + (units' - units) + (lost' - lost)
      /\ new.left <= new.count
  BY <1>1, <1>2, <1>3, <1>4, <1>5
<1> QED
  BY <1>1, <1>2, <1>3, <1>4, <1>6, Balanced

LEMMA SemaphoresInitially ==
  ASSUME S!SemaphoreAssumption, S!Init
  PROVE  SemaphoresInv
<1>1. PICK system \in S!Systems, programs \in [Users -> S!Programs] : S!Start(system, programs)
  BY DEF S!Init
<1>2. S!Programs \subseteq {local \in Call : local.at = "idle" /\ local.left = 0
                                               /\ (local.call = "wait" => local.count = 0)}
  BY DEF S!Programs, S!Waiter, S!Signaller, Call, S!SemaphoreAssumption
<1>3. user \in [Users -> S!Programs] /\ units = 0 /\ lost = 0
  BY <1>1 DEF S!Start
<1>4. UsersType
  BY <1>2, <1>3 DEF UsersType
<1>5. \A u \in Users : /\ user[u] \in Call /\ user[u].at = "idle" /\ user[u].left = 0
                       /\ user[u].call = "wait" => user[u].count = 0
  BY <1>2, <1>3
<1>6. Posting
  BY <1>5 DEF Posting, Call
<1>7. S!UnitsConserved
  <2>1. \A u \in Users : Signals[u] = 0
    BY <1>5 DEF Signals, S!Signalled, S!At
  <2>2. S!MapThenSumSet(S!Signalled, Users) = 0
    BY <2>1, UsersFinite, SignalledIs, LP!SumOfZeros
  <2>3. S!Returned = {}
    BY <1>5 DEF S!Returned, S!Waiting, S!At
  <2> QED
    BY <1>3, <2>2, <2>3, Counting, FS_EmptySet DEF S!UnitsConserved
<1> QED
  BY <1>4, <1>6, <1>7 DEF SemaphoresInv

\* The units signalled are those taken, those there are and those lost, for any
\* number of threads and units (Semaphore_POSIX.h:47, Semaphore_Win32.h:38).
THEOREM NoUnitLost == Spec => []UnitsConserved
<1>1. S!SemaphoreAssumption
  BY SubjectsAssumption
<1>2. Init => SemaphoresInv
  <2>1. S!Start("POSIX", [u \in Users |-> S!Waiter]) => S!Init
    BY DEF S!Init, S!Systems, S!Programs
  <2> QED
    BY <1>1, <2>1, SemaphoresInitially DEF Init, SemaphoresInit
<1>3. SemaphoresInv /\ [Next]_vars => SemaphoresInv'
  <2> SUFFICES ASSUME SemaphoresInv, [Next]_vars PROVE SemaphoresInv'
    OBVIOUS
  <2>1. S!Next \/ UNCHANGED semaphores
    BY DEF Next, LocksNext, WaitsNext, SemaphoresNext, AffinityNext, LocalsNext, CountersNext,
           LazyNext, NumbersNext, Rest, vars
  <2>2. CASE UNCHANGED semaphores
    <3>1. user' = user /\ units' = units /\ lost' = lost /\ Signals' = Signals
      BY <2>2 DEF semaphores, Signals, S!Signalled, S!At
    <3>2. (S!MapThenSumSet(S!Signalled, Users) = LP!Sums(Signals, Users)[Users])'
      BY SignalledIs, PTL
    <3>3. S!UnitsConserved'
      BY <3>1, <3>2, SignalledIs DEF SemaphoresInv, S!UnitsConserved, S!Returned, S!Waiting, S!At
    <3> QED
      BY <3>1, <3>3 DEF SemaphoresInv, UsersType, Posting
  <2> QED
    BY <1>1, <2>1, <2>2, GoesOn, TakeUnitStep, CallSignalStep, PostStep, ReleaseSemaphoreStep
       DEF S!Next, S!Step
<1>4. SemaphoresInv => UnitsConserved
  BY DEF SemaphoresInv, UnitsConserved
<1> QED
  BY <1>2, <1>3, <1>4, PTL DEF Spec

----------------------------------------------------------------------------
(* Trace_Counters.  The inductive invariant: the groups on the list are    *)
(* those from its head on, and their m_next are on it and stay; a dump has *)
(* seen what it owes or will find it from where it is.                     *)

Listed == {g \in Groups : adding[g] = "listed"}

OnList == Listed \cup {NoGroup}

Walk ==
    [at : Groups \cup {NoGroup}, due : SUBSET Groups, owed : SUBSET Groups,
     seen : SUBSET Groups, printed : SUBSET Groups, on : BOOLEAN]

CountersType ==
    /\ next \in [Groups -> Groups \cup {NoGroup}]
    /\ stale \in [Groups -> SUBSET (Groups \cup {NoGroup})]
    /\ adding \in [Groups -> {"unborn", "linking", "exchanging", "listed"}]
    /\ expected \in [Groups -> Groups \cup {NoGroup}]
    /\ first \in Groups \cup {NoGroup}
    /\ used \subseteq Groups
    /\ walk \in Walk

Chained ==
    /\ first \in OnList
    /\ \A g \in Listed : next[g] \in OnList
    /\ \A g \in Groups : adding[g] = "exchanging" => next[g] = expected[g]

\* The dump has read nothing that may have been overwritten.
Certain == \A g \in walk.seen : joined \/ owner[g] = Dumper

Dumping ==
    walk.on =>
        /\ walk.owed = walk.due \cap used
        /\ walk.printed = walk.seen \cap used
        /\ Certain => walk.at \in OnList /\ walk.due \subseteq walk.seen \cup C!From(walk.at)

CountersInv == CountersType /\ Chained /\ C!Linked = Listed /\ Dumping

\* A set that holds the next of each of its members.
Closed(set) == \A h \in set : next[h] # NoGroup => next[h] \in set

LEMMA FromMeans ==
  ASSUME NEW x, NEW g
  PROVE  g \in C!From(x) <=>
             /\ g \in Groups
             /\ \A set \in SUBSET Groups : (x # NoGroup => x \in set) /\ Closed(set) => g \in set
BY DEF C!From, Closed

\* Nothing is from null on, and from a group on are itself and what is from
\* its next on.
LEMMA FromNull == C!From(NoGroup) = {}
<1>1. Closed({})
  BY DEF Closed
<1> QED
  BY <1>1, FromMeans

LEMMA FromNext ==
  ASSUME NEW x \in Groups
  PROVE  C!From(x) \subseteq {x} \cup C!From(next[x])
<1> SUFFICES ASSUME NEW g \in C!From(x), g # x PROVE g \in C!From(next[x])
  OBVIOUS
<1>1. SUFFICES ASSUME NEW set \in SUBSET Groups, next[x] # NoGroup => next[x] \in set, Closed(set)
               PROVE  g \in set
  BY FromMeans
<1>2. Closed(set \cup {x}) /\ set \cup {x} \in SUBSET Groups
  BY <1>1 DEF Closed
<1>3. g \in set \cup {x}
  BY <1>2, FromMeans
<1> QED
  BY <1>3

\* What is from a listed group on stays so while the m_next of the listed
\* groups do.
LEMMA FromStays ==
  ASSUME CountersInv, NEW x \in OnList, \A g \in Listed : next'[g] = next[g]
  PROVE  C!From(x) \subseteq C!From(x)'
<1> SUFFICES ASSUME NEW g \in C!From(x) PROVE g \in C!From(x)'
  OBVIOUS
<1>1. g \in C!From(x)' <=>
          /\ g \in Groups
          /\ \A set \in SUBSET Groups : (x # NoGroup => x \in set) /\ Closed(set)' => g \in set
  BY DEF C!From, Closed
<1>2. SUFFICES ASSUME NEW set \in SUBSET Groups, x # NoGroup => x \in set, Closed(set)'
               PROVE  g \in set
  BY <1>1, FromMeans
<1>3. Closed(set \cap Listed)
  BY <1>2 DEF Closed, CountersInv, Chained, OnList
<1>4. x # NoGroup => x \in set \cap Listed
  BY <1>2 DEF OnList
<1>5. set \cap Listed \in SUBSET Groups
  OBVIOUS
<1>6. g \in set \cap Listed
  BY <1>3, <1>4, <1>5, FromMeans
<1> QED
  BY <1>6

LEMMA LinkedWithin == Chained => C!Linked \subseteq Listed
<1> SUFFICES ASSUME Chained, NEW g \in C!Linked PROVE g \in Listed
  OBVIOUS
<1>1. Closed(Listed) /\ Listed \in SUBSET Groups /\ (first # NoGroup => first \in Listed)
  BY DEF Closed, Chained, OnList, Listed
<1> QED
  BY <1>1, FromMeans DEF C!Linked

LEMMA LinkedMeans ==
  ASSUME NEW g
  PROVE  g \in C!Linked' <=>
             /\ g \in Groups
             /\ \A set \in SUBSET Groups :
                    (first' # NoGroup => first' \in set) /\ Closed(set)' => g \in set
BY DEF C!Linked, C!From, Closed

\* A step that leaves the list and the dump alone.
LEMMA ListStays ==
  ASSUME CountersInv, CountersType', Chained', Listed' = Listed, first' = first,
         \A g \in Listed : next'[g] = next[g]
  PROVE  /\ C!Linked' = Listed'
         /\ UNCHANGED <<walk, used, joined, owner>> => CountersInv'
<1>1. C!Linked' = Listed'
  <2>1. first \in OnList /\ C!From(first) = Listed
    BY DEF CountersInv, Chained, C!Linked
  <2>2. C!From(first) \subseteq C!From(first)'
    BY <2>1, FromStays
  <2>3. C!Linked' = C!From(first)'
    BY DEF C!Linked, C!From
  <2>4. C!Linked' \subseteq Listed'
    <3>1. (Chained => C!Linked \subseteq Listed)'
      BY LinkedWithin, PTL
    <3> QED
      BY <3>1
  <2> QED
    BY <2>1, <2>2, <2>3, <2>4
<1>2. ASSUME UNCHANGED <<walk, used, joined, owner>> PROVE Dumping'
  <2>1. Dumping
    BY DEF CountersInv
  <2>2. PICK at \in Groups \cup {NoGroup} : walk.at = at /\ walk'.at = at
    BY <1>2 DEF CountersInv, CountersType, Walk
  <2>3. walk.on /\ Certain => at \in OnList' /\ walk.due \subseteq walk.seen \cup C!From(at)'
    <3>1. SUFFICES ASSUME walk.on, Certain
                   PROVE  at \in OnList' /\ walk.due \subseteq walk.seen \cup C!From(at)'
      OBVIOUS
    <3>2. at \in OnList /\ walk.due \subseteq walk.seen \cup C!From(at)
      BY <2>1, <2>2, <3>1 DEF Dumping
    <3>3. C!From(at) \subseteq C!From(at)'
      BY <3>2, FromStays
    <3> QED
      BY <3>2, <3>3 DEF OnList
  <2>4. C!From(walk.at)' = C!From(at)'
    BY <2>2 DEF C!From
  <2> QED
    BY <1>2, <2>1, <2>2, <2>3, <2>4 DEF Dumping, Certain
<1> QED
  BY <1>1, <1>2 DEF CountersInv

LEMMA AddGroupStep ==
  ASSUME C!CountersAssumption, CountersInv, NEW g \in Groups,
         C!Construct(g) \/ C!SetNext(g) \/ C!ExchangeFails(g)
  PROVE  CountersInv'
<1>1. adding[g] # "listed" /\ CountersType
  BY DEF C!Construct, C!SetNext, C!ExchangeFails, CountersInv
<1>2. /\ UNCHANGED <<first, used, walk, joined, owner>>
      /\ \A h \in Groups \ {g} :
             adding'[h] = adding[h] /\ next'[h] = next[h] /\ expected'[h] = expected[h]
      /\ adding'[g] # "listed"
      /\ adding'[g] = "exchanging" => next'[g] = expected'[g]
  BY <1>1 DEF CountersType, C!Construct, C!SetNext, C!ExchangeFails
<1>3. /\ next' \in [Groups -> Groups \cup {NoGroup}]
      /\ stale' \in [Groups -> SUBSET (Groups \cup {NoGroup})]
      /\ adding' \in [Groups -> {"unborn", "linking", "exchanging", "listed"}]
      /\ expected' \in [Groups -> Groups \cup {NoGroup}]
  BY <1>1 DEF CountersType, C!Construct, C!SetNext, C!ExchangeFails
<1>4. CountersType'
  BY <1>1, <1>2, <1>3 DEF CountersType
<1>5. Listed' = Listed /\ \A h \in Listed : next'[h] = next[h]
  BY <1>1, <1>2 DEF Listed, C!Construct, C!SetNext, C!ExchangeFails
<1>6. Chained'
  BY <1>1, <1>2, <1>5 DEF CountersInv, Chained, OnList, Listed, C!Construct, C!SetNext,
                          C!ExchangeFails
<1> QED
  BY <1>2, <1>4, <1>5, <1>6, ListStays

LEMMA ExchangeStep ==
  ASSUME C!CountersAssumption, CountersInv, NEW g \in Groups, C!Exchange(g)
  PROVE  CountersInv'
<1>1. /\ CountersType /\ adding[g] = "exchanging" /\ next[g] = first
      /\ first' = g /\ adding' = [adding EXCEPT ![g] = "listed"]
      /\ UNCHANGED <<owner, next, stale, expected, used, walk, joined>>
  BY DEF C!Exchange, CountersInv, Chained
<1>2. CountersType' /\ Listed' = Listed \cup {g}
  BY <1>1 DEF CountersType, Listed
<1>3. Chained'
  BY <1>1, <1>2 DEF CountersInv, CountersType, Chained, OnList, Listed, C!CountersAssumption
<1>4. C!Linked' = Listed'
  <2>1. C!Linked' \subseteq Listed'
    <3>1. (Chained => C!Linked \subseteq Listed)'
      BY LinkedWithin, PTL
    <3> QED
      BY <1>3, <3>1
  <2>2. ASSUME NEW h \in Listed', NEW set \in SUBSET Groups, g \in set, Closed(set)
        PROVE  h \in set
    <3>1. first # NoGroup => first \in set
      BY <1>1, <2>2 DEF Closed
    <3>2. Listed \subseteq set
      BY <2>2, <3>1, FromMeans DEF CountersInv, C!Linked
    <3> QED
      BY <1>2, <2>2, <3>2
  <2>3. \A set : Closed(set)' <=> Closed(set)
    BY <1>1 DEF Closed
  <2>4. \A h \in Listed' : h \in C!Linked'
    BY <1>1, <2>2, <2>3, LinkedMeans DEF Listed, C!CountersAssumption
  <2> QED
    BY <2>1, <2>4
<1>5. Dumping'
  <2>1. C!From(walk.at)' = C!From(walk.at) /\ OnList \subseteq OnList'
    BY <1>1, <1>2 DEF C!From, OnList
  <2> QED
    BY <1>1, <2>1 DEF CountersInv, Dumping, Certain
<1> QED
  BY <1>2, <1>3, <1>4, <1>5 DEF CountersInv

LEMMA BetweenDumps ==
  ASSUME CountersInv, (\E g \in Groups : C!Trace(g)) \/ C!JoinLoader \/ C!BeginDump
  PROVE  CountersInv'
<1>1. UNCHANGED <<owner, first, next, stale, adding, expected>> /\ CountersType
  BY DEF C!Trace, C!JoinLoader, C!BeginDump, CountersInv
<1>2. used' \subseteq Groups /\ walk' \in Walk
  <2>1. CASE C!BeginDump
    <3> DEFINE due == {g \in Groups : adding[g] = "listed" /\ (joined \/ owner[g] = Dumper)}
    <3>1. /\ walk' = [at |-> first, due |-> due, owed |-> due \cap used,
                      seen |-> {}, printed |-> {}, on |-> TRUE]
          /\ used' = used
      BY <2>1 DEF C!BeginDump
    <3>2. due \subseteq Groups /\ used \subseteq Groups /\ first \in Groups \cup {NoGroup}
      BY <1>1 DEF CountersType
    <3> HIDE DEF due
    <3> QED
      BY <3>1, <3>2 DEF Walk
  <2>2. CASE C!JoinLoader \/ \E g \in Groups : C!Trace(g)
    BY <1>1, <2>2 DEF C!Trace, C!JoinLoader, CountersType
  <2> QED
    BY <2>1, <2>2
<1>3. CountersType'
  BY <1>1, <1>2 DEF CountersType
<1>4. Listed' = Listed /\ Chained'
  BY <1>1 DEF Listed, CountersInv, Chained, OnList
<1>5. C!Linked' = Listed'
  BY <1>1, <1>3, <1>4, ListStays
<1>6. Dumping'
  <2>1. CASE ~walk'.on
    BY <2>1 DEF Dumping
  <2>2. CASE C!BeginDump
    <3> DEFINE due == {g \in Groups : adding[g] = "listed" /\ (joined \/ owner[g] = Dumper)}
    <3>1. /\ walk' = [at |-> first, due |-> due, owed |-> due \cap used,
                      seen |-> {}, printed |-> {}, on |-> TRUE]
          /\ used' = used /\ joined' = joined
      BY <2>2 DEF C!BeginDump
    <3>2. due \subseteq Listed
      BY DEF Listed
    <3> HIDE DEF due
    <3>3. /\ walk'.at = first' /\ walk'.due = due /\ walk'.owed = due \cap used'
          /\ walk'.seen = {} /\ walk'.printed = {}
      BY <1>1, <3>1
    <3>4. C!From(walk.at)' = C!Linked' /\ first' \in OnList'
      BY <1>4, <3>3 DEF C!Linked, C!From, Chained
    <3> QED
      BY <1>4, <1>5, <3>2, <3>3, <3>4 DEF Dumping
  <2> QED
    BY <2>1, <2>2 DEF C!Trace, C!JoinLoader
<1> QED
  BY <1>3, <1>4, <1>5, <1>6 DEF CountersInv

LEMMA DumpStep ==
  ASSUME C!CountersAssumption, CountersInv, C!DumpGroup \/ C!EndDump
  PROVE  CountersInv'
<1>1. /\ UNCHANGED <<owner, first, next, stale, adding, expected, used, joined>>
      /\ CountersType /\ walk \in Walk
  BY DEF C!DumpGroup, C!EndDump, CountersInv, CountersType
<1>2. Listed' = Listed /\ Chained'
  BY <1>1 DEF Listed, CountersInv, Chained, OnList
<1>3. walk' \in Walk /\ Dumping'
  <2>1. CASE C!EndDump
    BY <2>1 DEF C!EndDump, C!NotWalking, Walk, Dumping
  <2>2. CASE C!DumpGroup
    <3>0. PICK at \in Groups : walk.at = at /\ walk.on
      BY <1>1, <2>2 DEF C!DumpGroup, Walk
    <3>1. PICK to \in C!Seen(at) : walk' = C!Dumped(to)
      BY <2>2, <3>0 DEF C!DumpGroup
    <3> DEFINE printed == walk.printed \cup ({at} \cap used)
    <3>2. /\ walk'.at = to /\ walk'.seen = walk.seen \cup {at} /\ walk'.printed = printed
          /\ walk'.due = walk.due /\ walk'.owed = walk.owed /\ walk'.on
      BY <1>1, <3>0, <3>1 DEF Walk, C!Dumped
    <3>3. to \in Groups \cup {NoGroup}
      BY <1>1, <3>0, <3>1 DEF CountersType, C!Seen
    <3>4. walk' \in Walk
      BY <1>1, <3>0, <3>1, <3>3 DEF Walk, C!Dumped
    <3>5. printed = (walk.seen \cup {at}) \cap used
      BY <3>0, <3>1 DEF CountersInv, Dumping
    <3> HIDE DEF printed
    <3>6. ASSUME Certain'
          PROVE  to \in OnList /\ walk.due \subseteq walk'.seen \cup C!From(to)
      <4>1. Certain /\ to = next[at]
        BY <1>1, <3>0, <3>1, <3>2, <3>6 DEF Certain, C!Seen
      <4>2. at \in Listed /\ walk.due \subseteq walk.seen \cup C!From(at)
        BY <3>0, <4>1 DEF CountersInv, Dumping, OnList, C!CountersAssumption
      <4> QED
        BY <3>2, <4>1, <4>2, FromNext DEF CountersInv, Chained
    <3>7. C!From(walk.at)' = C!From(to)
      BY <1>1, <3>2 DEF C!From
    <3> QED
      BY <1>1, <1>2, <3>0, <3>1, <3>2, <3>4, <3>5, <3>6, <3>7 DEF CountersInv, Dumping, OnList
  <2> QED
    BY <2>1, <2>2
<1>4. CountersType'
  BY <1>1, <1>3 DEF CountersType
<1>5. C!Linked' = Listed'
  BY <1>1, <1>2, <1>4, ListStays
<1> QED
  BY <1>2, <1>3, <1>4, <1>5 DEF CountersInv

LEMMA CountersInitially ==
  ASSUME C!CountersAssumption, C!Init
  PROVE  CountersInv
<1>1. PICK owners : C!Start(owners)
  BY DEF C!Init
<1>2. /\ CountersType /\ ~walk.on
  BY <1>1 DEF C!Start, C!NotWalking, CountersType, Walk
<1>3. Listed = {} /\ Chained
  BY <1>1 DEF C!Start, Listed, Chained, OnList
<1>4. C!Linked = {}
  BY <1>1, FromNull DEF C!Start, C!Linked
<1> QED
  BY <1>2, <1>3, <1>4 DEF CountersInv, Dumping

\* No group is lost from the list or from a dump, for any number of groups
\* (Trace_Counters.cpp:24, 28).
THEOREM EveryGroupIsListed == Spec => []EveryGroupListed
<1>1. C!CountersAssumption
  BY SubjectsAssumption
<1>2. Init => CountersInv
  <2>1. C!Start([g \in Groups |-> Dumper]) => C!Init
    BY DEF C!Init
  <2> QED
    BY <1>1, <2>1, CountersInitially DEF Init, CountersInit
<1>3. CountersInv /\ [Next]_vars => CountersInv'
  <2> SUFFICES ASSUME CountersInv, [Next]_vars PROVE CountersInv'
    OBVIOUS
  <2>1. C!Next \/ UNCHANGED counters
    BY DEF Next, LocksNext, WaitsNext, SemaphoresNext, AffinityNext, LocalsNext, CountersNext,
           LazyNext, NumbersNext, Rest, vars
  <2>2. CASE UNCHANGED counters
    BY <2>2 DEF counters, CountersInv, CountersType, Chained, Dumping, Certain, Listed, OnList,
                C!Linked, C!From
  <2> QED
    BY <1>1, <2>1, <2>2, AddGroupStep, ExchangeStep, BetweenDumps, DumpStep DEF C!Next
<1>4. CountersInv => EveryGroupListed
  <2> SUFFICES ASSUME CountersInv PROVE C!EveryGroupListed
    BY DEF EveryGroupListed
  <2>1. ASSUME walk.on, walk.at = NoGroup, \A g \in walk.seen : joined \/ owner[g] = Dumper
        PROVE  walk.due \subseteq walk.seen /\ walk.owed \subseteq walk.printed
    BY <2>1, FromNull DEF CountersInv, Dumping, Certain
  <2> QED
    BY <2>1 DEF CountersInv, Listed, C!EveryGroupListed
<1> QED
  BY <1>2, <1>3, <1>4, PTL DEF Spec

----------------------------------------------------------------------------
(* MutexLazyInit.  The flag and the spin lock, acquired and released, carry *)
(* the construction.                                                        *)

InSpin(t) == pc[t] \in {"recheck", "construct", "setFlag", "unspin"}

\* At most one thread is between taking the spin lock and giving it back.
SpinInv ==
    /\ \A t \in Lockers : InSpin(t) => m_spinLock
    /\ \A t, u \in Lockers : InSpin(t) /\ InSpin(u) => t = u

\* Before the flag is set the object is as good as zeroed.
ClearInv ==
    ~m_initFlag =>
        /\ lockedBy = NoLocker /\ depth = 0 /\ ~spinCarries
        /\ \A t \in Lockers : ~seen[t] /\ pc[t] \notin {"unspin", "lockMutex"}
        /\ built = 0 \/ (built = 1 /\ \E t \in Lockers : pc[t] = "setFlag")
        /\ \A t \in Lockers :
              (pc[t] = "construct" => built = 0) /\ (pc[t] = "setFlag" => built = 1)

\* Once it is set, whoever may enter the mutex has seen the construction.
SetInv ==
    m_initFlag =>
        /\ built = 1 /\ flagCarries
        /\ ~m_spinLock => spinCarries
        /\ \A t \in Lockers :
              /\ pc[t] \notin {"construct", "setFlag"}
              /\ pc[t] \in {"recheck", "unspin", "lockMutex"} \/ Lazy!Holds(t) => seen[t]

Recursion == lockedBy = NoLocker <=> depth = 0

LazyInv == Lazy!TypeOK /\ SpinInv /\ ClearInv /\ SetInv /\ Recursion

LEMMA LazyInitially == ASSUME Lazy!LazyAssumption, Lazy!Init PROVE LazyInv
<1> USE DEF Lazy!LazyAssumption, Lazy!Init, Lazy!M!Constructed, Lazy!Zeroed
<1>1. Lazy!TypeOK
  <2>1. Lazy!M!TypeOK /\ built \in Nat
    BY DEF Lazy!M!TypeOK
  <2>2. pc \in [Lockers -> Lazy!Pcs] /\ seen \in [Lockers -> BOOLEAN]
    BY DEF Lazy!Pcs
  <2> QED BY <2>1, <2>2 DEF Lazy!TypeOK
<1>2. SpinInv /\ Recursion
  BY DEF SpinInv, InSpin, Recursion
<1>3. ClearInv /\ SetInv
  BY DEF ClearInv, SetInv
<1> QED BY <1>1, <1>2, <1>3 DEF LazyInv

\* The step t takes moves only t.
LEMMA LazyMoves ==
  ASSUME Lazy!TypeOK, NEW t \in Lockers, NEW from, NEW to \in Lazy!Pcs, Lazy!Go(t, from, to)
  PROVE  /\ pc[t] = from /\ pc'[t] = to /\ pc' \in [Lockers -> Lazy!Pcs]
         /\ \A u \in Lockers \ {t} : pc'[u] = pc[u]
BY DEF Lazy!TypeOK, Lazy!Go

LEMMA LockStep ==
  ASSUME Lazy!LazyAssumption, LazyInv, NEW t \in Lockers,
     Lazy!CallLock(t) \/ Lazy!FlagSet(t) \/ Lazy!FlagClear(t)
  PROVE  LazyInv'
<1> USE DEF Lazy!LazyAssumption, LazyInv
<1>1. CASE Lazy!CallLock(t)
  BY <1>1, LazyMoves DEF Lazy!CallLock, Lazy!flag, Lazy!spin, Lazy!buffer, Lazy!TypeOK,
     Lazy!M!TypeOK, Lazy!Pcs, SpinInv, InSpin,
     ClearInv, SetInv, Recursion, Lazy!Holds
<1>2. CASE Lazy!FlagSet(t)
  <2>1. m_initFlag /\ flagCarries /\ UNCHANGED <<Lazy!flag, Lazy!spin, Lazy!buffer>>
    BY <1>2 DEF Lazy!FlagSet, Lazy!Readable, SetInv, Lazy!TypeOK
  <2>2. seen' = [seen EXCEPT ![t] = TRUE]
    BY <1>2, <2>1 DEF Lazy!FlagSet, Lazy!TypeOK
  <2>3. /\ pc[t] = "checkFlag" /\ pc'[t] = "lockMutex" /\ pc' \in [Lockers -> Lazy!Pcs]
        /\ \A u \in Lockers \ {t} : pc'[u] = pc[u]
    BY <1>2, LazyMoves DEF Lazy!FlagSet, Lazy!Pcs
  <2> QED BY <2>1, <2>2, <2>3 DEF Lazy!flag, Lazy!spin, Lazy!buffer, Lazy!TypeOK, Lazy!M!TypeOK,
     SpinInv, InSpin, ClearInv,
     SetInv, Recursion, Lazy!Holds
<1>3. CASE Lazy!FlagClear(t)
  BY <1>3, LazyMoves DEF Lazy!FlagClear, Lazy!flag, Lazy!spin, Lazy!buffer, Lazy!TypeOK,
     Lazy!M!TypeOK, Lazy!Pcs, SpinInv, InSpin,
     ClearInv, SetInv, Recursion, Lazy!Holds
<1> QED BY <1>1, <1>2, <1>3

LEMMA LazyInitStep ==
  ASSUME Lazy!LazyAssumption, LazyInv, NEW t \in Lockers, Lazy!LazyInit(t)
  PROVE  LazyInv'
<1> USE DEF Lazy!LazyAssumption, LazyInv
<1>1. CASE Lazy!TakeSpinLock(t)
  <2>1. m_initFlag => seen'[t]
    BY <1>1 DEF Lazy!TakeSpinLock, SetInv, Lazy!TypeOK
  <2>2. ~m_initFlag => ~seen'[t]
    BY <1>1 DEF Lazy!TakeSpinLock, ClearInv, Lazy!TypeOK
  <2>3. /\ m_spinLock' = TRUE /\ ~m_spinLock /\ UNCHANGED <<Lazy!flag, spinCarries, Lazy!buffer>>
        /\ seen' \in [Lockers -> BOOLEAN] /\ \A u \in Lockers \ {t} : seen'[u] = seen[u]
    BY <1>1 DEF Lazy!TakeSpinLock, Lazy!TypeOK
  <2>4. /\ pc[t] = "spin" /\ pc'[t] = "recheck" /\ pc' \in [Lockers -> Lazy!Pcs]
        /\ \A u \in Lockers \ {t} : pc'[u] = pc[u]
    BY <1>1, LazyMoves DEF Lazy!TakeSpinLock, Lazy!Pcs
  <2> QED BY <2>1, <2>2, <2>3, <2>4 DEF Lazy!flag, Lazy!buffer, Lazy!TypeOK, Lazy!M!TypeOK,
     SpinInv, InSpin, ClearInv,
     SetInv, Recursion, Lazy!Holds
<1>2. CASE Lazy!AlreadyBuilt(t)
  <2>1. m_initFlag /\ UNCHANGED <<seen, Lazy!flag, Lazy!spin, Lazy!buffer>>
    BY <1>2 DEF Lazy!AlreadyBuilt, Lazy!Readable, Lazy!TypeOK
  <2>2. /\ pc[t] = "recheck" /\ pc'[t] = "unspin" /\ pc' \in [Lockers -> Lazy!Pcs]
        /\ \A u \in Lockers \ {t} : pc'[u] = pc[u]
    BY <1>2, LazyMoves DEF Lazy!AlreadyBuilt, Lazy!Pcs
  <2> QED BY <2>1, <2>2 DEF Lazy!flag, Lazy!spin, Lazy!buffer, Lazy!TypeOK, Lazy!M!TypeOK,
     SpinInv, InSpin, ClearInv,
     SetInv, Recursion, Lazy!Holds
\* Under the spin lock a thread that reads false has the only say.
<1>3. CASE Lazy!NotBuilt(t)
  <2>1. /\ pc[t] = "recheck" /\ pc'[t] = "construct" /\ pc' \in [Lockers -> Lazy!Pcs]
        /\ \A u \in Lockers \ {t} : pc'[u] = pc[u]
    BY <1>3, LazyMoves DEF Lazy!NotBuilt, Lazy!Pcs
  <2>2. ~m_initFlag /\ UNCHANGED <<seen, Lazy!flag, Lazy!spin, Lazy!buffer>>
    BY <1>3, <2>1 DEF Lazy!NotBuilt, Lazy!Readable, SetInv, Lazy!TypeOK
  <2>3. \A u \in Lockers : pc[u] # "setFlag"
    BY <2>1 DEF SpinInv, InSpin
  <2> QED BY <2>1, <2>2, <2>3 DEF Lazy!flag, Lazy!spin, Lazy!buffer, Lazy!TypeOK, Lazy!M!TypeOK,
     SpinInv, InSpin, ClearInv,
     SetInv, Recursion, Lazy!Holds
<1>4. CASE Lazy!Construct(t)
  <2>1. /\ pc[t] = "construct" /\ pc'[t] = "setFlag" /\ pc' \in [Lockers -> Lazy!Pcs]
        /\ \A u \in Lockers \ {t} : pc'[u] = pc[u]
    BY <1>4, LazyMoves DEF Lazy!Construct, Lazy!Pcs
  <2>2. ~m_initFlag /\ built = 0 /\ built' = 1 /\ UNCHANGED <<seen, Lazy!flag, Lazy!spin>>
        /\ lockedBy' = NoLocker /\ depth' = 0
    BY <1>4, <2>1 DEF Lazy!Construct, ClearInv, SetInv, Lazy!TypeOK
  <2>3. \A u \in Lockers : pc'[u] = "construct" => FALSE
    BY <2>1 DEF SpinInv, InSpin
  <2> QED BY <2>1, <2>2, <2>3 DEF Lazy!flag, Lazy!spin, Lazy!TypeOK, Lazy!M!TypeOK, SpinInv,
     InSpin, ClearInv,
     SetInv, Recursion, Lazy!Holds
<1>5. CASE Lazy!SetFlag(t)
  <2>1. /\ pc[t] = "setFlag" /\ pc'[t] = "unspin" /\ pc' \in [Lockers -> Lazy!Pcs]
        /\ \A u \in Lockers \ {t} : pc'[u] = pc[u]
    BY <1>5, LazyMoves DEF Lazy!SetFlag, Lazy!Pcs
  <2>2. ~m_initFlag /\ m_initFlag' = TRUE /\ flagCarries' = TRUE /\ UNCHANGED <<Lazy!spin, Lazy!buffer>>
        /\ seen' = [seen EXCEPT ![t] = TRUE] /\ built = 1 /\ m_spinLock
    <3>1. ~m_initFlag
      BY <2>1 DEF SetInv, Lazy!TypeOK
    <3>2. built = 1 \/ built = 0
      BY <3>1 DEF ClearInv
    <3>3. m_spinLock
      BY <2>1 DEF SpinInv, InSpin
    <3> QED BY <1>5, <2>1, <3>1, <3>2, <3>3 DEF Lazy!SetFlag, ClearInv
  <2>3. \A u \in Lockers \ {t} : ~InSpin(u) /\ pc[u] # "lockMutex"
    BY <2>1, <2>2 DEF SpinInv, InSpin, ClearInv
  <2> QED BY <2>1, <2>2, <2>3 DEF Lazy!spin, Lazy!buffer, Lazy!TypeOK, Lazy!M!TypeOK, SpinInv,
     InSpin, ClearInv,
     SetInv, Recursion, Lazy!Holds
<1>6. CASE Lazy!ReleaseSpinLock(t)
  <2>1. /\ pc[t] = "unspin" /\ pc'[t] = "lockMutex" /\ pc' \in [Lockers -> Lazy!Pcs]
        /\ \A u \in Lockers \ {t} : pc'[u] = pc[u]
    BY <1>6, LazyMoves DEF Lazy!ReleaseSpinLock, Lazy!Pcs
  <2>2. m_initFlag /\ seen[t]
    BY <2>1 DEF ClearInv, SetInv, Lazy!TypeOK
  <2>3. m_spinLock' = FALSE /\ spinCarries' = TRUE /\ UNCHANGED <<seen, Lazy!flag, Lazy!buffer>>
    BY <1>6, <2>2 DEF Lazy!ReleaseSpinLock, Lazy!TypeOK
  <2> QED BY <2>1, <2>2, <2>3 DEF Lazy!flag, Lazy!buffer, Lazy!TypeOK, Lazy!M!TypeOK, SpinInv,
     InSpin, ClearInv,
     SetInv, Recursion, Lazy!Holds
<1> QED BY <1>1, <1>2, <1>3, <1>4, <1>5, <1>6 DEF Lazy!LazyInit

LEMMA MutexStep ==
  ASSUME Lazy!LazyAssumption, LazyInv, NEW t \in Lockers, Lazy!LockMutex(t) \/ Lazy!Unlock(t)
  PROVE  LazyInv'
<1> USE DEF Lazy!LazyAssumption, LazyInv
<1>1. CASE Lazy!LockMutex(t)
  <2>1. /\ pc[t] = "lockMutex" /\ pc'[t] = "idle" /\ pc' \in [Lockers -> Lazy!Pcs]
        /\ \A u \in Lockers \ {t} : pc'[u] = pc[u]
    BY <1>1, LazyMoves DEF Lazy!LockMutex, Lazy!Pcs
  <2>2. m_initFlag /\ seen[t]
    BY <2>1 DEF ClearInv, SetInv, Lazy!TypeOK
  <2>3. lockedBy' = t /\ depth' = depth + 1 /\ depth' \in 1 .. MaxDepth /\ UNCHANGED <<seen, Lazy!flag, Lazy!spin, built>>
    BY <1>1 DEF Lazy!LockMutex, Lazy!M!Lock, Lazy!TypeOK, Lazy!M!TypeOK
  <2> QED BY <2>1, <2>2, <2>3 DEF Lazy!flag, Lazy!spin, Lazy!TypeOK, Lazy!M!TypeOK, SpinInv,
     InSpin, ClearInv,
     SetInv, Recursion, Lazy!Holds
<1>2. CASE Lazy!Unlock(t)
  <2>1. lockedBy = t /\ depth \in 1 .. MaxDepth /\ UNCHANGED <<pc, seen, Lazy!flag, Lazy!spin, built>>
    BY <1>2 DEF Lazy!Unlock, Lazy!M!Unlock, Recursion, Lazy!TypeOK, Lazy!M!TypeOK
  <2>2. m_initFlag
    BY <2>1 DEF ClearInv, Lazy!TypeOK
  <2>3. depth' = depth - 1 /\ lockedBy' = IF depth = 1 THEN NoLocker ELSE t
    BY <1>2 DEF Lazy!Unlock, Lazy!M!Unlock
  <2> QED BY <2>1, <2>2, <2>3 DEF Lazy!flag, Lazy!spin, Lazy!TypeOK, Lazy!M!TypeOK, SpinInv,
     InSpin, ClearInv,
     SetInv, Recursion, Lazy!Holds
<1> QED BY <1>1, <1>2

LEMMA LazyInductive == ASSUME Lazy!LazyAssumption, LazyInv, [Lazy!Next]_(Lazy!vars) PROVE LazyInv'
<1> USE DEF Lazy!LazyAssumption
<1>1. CASE Lazy!Destroy
  BY <1>1 DEF Lazy!Destroy, LazyInv, Lazy!TypeOK, Lazy!M!TypeOK, Lazy!Pcs, SpinInv, InSpin,
     ClearInv, SetInv, Recursion, Lazy!Holds
<1>2. CASE UNCHANGED Lazy!vars
  BY <1>2 DEF Lazy!vars, Lazy!flag, Lazy!spin, Lazy!buffer, LazyInv, Lazy!TypeOK, Lazy!M!TypeOK,
     SpinInv, InSpin, ClearInv, SetInv,
     Recursion, Lazy!Holds
<1> QED BY <1>1, <1>2, LockStep, LazyInitStep, MutexStep DEF Lazy!Next, Lazy!Step

LEMMA LazySteps == [Next]_vars => [Lazy!Next]_(Lazy!vars)
BY DEF Next, LocksNext, WaitsNext, SemaphoresNext, AffinityNext, LocalsNext, CountersNext, LazyNext,
       NumbersNext, Rest, vars, lazy, Lazy!vars, Lazy!flag, Lazy!spin, Lazy!buffer

LEMMA LazyInvariant == Spec => []LazyInv
<1>1. Init => LazyInv
  BY SubjectsAssumption, LazyInitially DEF Init
<1>2. LazyInv /\ [Next]_vars => LazyInv'
  BY SubjectsAssumption, LazySteps, LazyInductive
<1> QED
  BY <1>1, <1>2, PTL DEF Spec

\* No thread ever constructs over a mutex in use, for any number of threads
\* and depth of recursion (Mutex_LazyInit.h:42).
THEOREM ConstructedOnce == Spec => []BuiltOnce
<1>1. LazyInv => BuiltOnce
  BY DEF LazyInv, ClearInv, SetInv, Lazy!TypeOK, Lazy!BuiltOnce, BuiltOnce
<1> QED
  BY <1>1, LazyInvariant, PTL

\* Whoever reaches the mutex has seen its construction, and the assertion in
\* unlock holds (Mutex_LazyInit.h:66 and 77).
THEOREM ConstructionVisible == Spec => [](LockSeesConstruction /\ Lazy!UnlockAssertHolds)
<1>1. LazyInv => LockSeesConstruction /\ Lazy!UnlockAssertHolds
  <2> SUFFICES ASSUME LazyInv, NEW t \in Lockers, pc[t] = "lockMutex" \/ Lazy!Holds(t)
               PROVE  built >= 1 /\ seen[t] /\ FALSE \notin Lazy!Readable(t)
    BY DEF LockSeesConstruction, Lazy!LockSeesConstruction, Lazy!UnlockAssertHolds
  <2>1. m_initFlag
    BY SubjectsAssumption DEF LazyInv, ClearInv, Lazy!Holds, Lazy!TypeOK, Lazy!LazyAssumption
  <2>2. built >= 1 /\ seen[t]
    BY <2>1 DEF LazyInv, SetInv
  <2>3. FALSE \notin Lazy!Readable(t)
    BY <2>1, <2>2 DEF Lazy!Readable
  <2> QED
    BY <2>2, <2>3
<1> QED
  BY <1>1, LazyInvariant, PTL

\* Lazy construction, destruction and reuse implement a plain mutex
\* (Mutex_LazyInit.h:61).
THEOREM LazilyImplementsMutex == Spec => ImplementsMutex
<1>1. Init => Lazy!M!Constructed
  BY DEF Init, Lazy!Init
<1>2. LazyInv /\ [Next]_vars => [Lazy!M!Next]_(Lazy!M!vars)
  <2> SUFFICES ASSUME LazyInv, [Lazy!Next]_(Lazy!vars) PROVE [Lazy!M!Next]_(Lazy!M!vars)
    BY LazySteps
  <2> USE SubjectsAssumption DEF Lazy!LazyAssumption
  <2>1. CASE Lazy!Destroy
    BY <2>1 DEF Lazy!Destroy, LazyInv, Recursion, Lazy!TypeOK, Lazy!M!TypeOK, Lazy!Holds,
       Lazy!M!vars
  <2>2. CASE UNCHANGED Lazy!vars
    BY <2>2 DEF Lazy!vars, Lazy!buffer, Lazy!M!vars
  <2>3. ASSUME NEW t \in Lockers,
     Lazy!CallLock(t) \/ Lazy!FlagSet(t) \/ Lazy!FlagClear(t) PROVE UNCHANGED Lazy!M!vars
    BY <2>3 DEF Lazy!CallLock, Lazy!FlagSet, Lazy!FlagClear, Lazy!buffer, Lazy!M!vars
  <2>4. ASSUME NEW t \in Lockers, Lazy!LazyInit(t) PROVE UNCHANGED Lazy!M!vars
    <3>1. CASE Lazy!Construct(t)
      <4>1. pc[t] = "construct"
        BY <3>1 DEF Lazy!Construct, Lazy!Go
      <4>2. lockedBy = NoLocker /\ depth = 0
        BY <4>1 DEF LazyInv, ClearInv, SetInv, Lazy!TypeOK
      <4> QED BY <3>1, <4>2 DEF Lazy!Construct, Lazy!M!vars
    <3>2. CASE ~Lazy!Construct(t)
      BY <2>4, <3>2 DEF Lazy!LazyInit, Lazy!TakeSpinLock, Lazy!AlreadyBuilt, Lazy!NotBuilt,
         Lazy!SetFlag, Lazy!ReleaseSpinLock,
         Lazy!buffer, Lazy!M!vars
    <3> QED BY <3>1, <3>2
  <2>5. ASSUME NEW t \in Lockers, Lazy!LockMutex(t) \/ Lazy!Unlock(t) PROVE Lazy!M!Next
    BY <2>5 DEF Lazy!LockMutex, Lazy!Unlock, Lazy!M!Next
  <2> QED BY <2>1, <2>2, <2>3, <2>4, <2>5 DEF Lazy!Next, Lazy!Step
<1> QED
  BY <1>1, <1>2, LazyInvariant, PTL DEF Spec, ImplementsMutex, Lazy!ImplementsMutex, Lazy!M!Spec

----------------------------------------------------------------------------
(* Locks and Waits: their own proofs, taken over.                          *)

LEMMA LocksInits == L!Init = LP!Init
BY DEF L!Init, LP!Init, L!Start, L!Subjects, L!Adapter, L!Mutex_POSIX, L!Mutex_Win32,
       L!Mutex_CPP11, L!Mutex_Boost, L!Mutex_SpinLock, L!RWLock_POSIX, L!RWLock_Win32,
       L!RaceDetector, L!Size, L!Fresh, LP!Start, LP!Subjects, LP!Adapter, LP!Mutex_POSIX,
       LP!Mutex_Win32, LP!Mutex_CPP11, LP!Mutex_Boost, LP!Mutex_SpinLock, LP!RWLock_POSIX,
       LP!RWLock_Win32, LP!RaceDetector, LP!Size, LP!Fresh

LEMMA LocksNexts == L!Next = LP!Next
BY DEF L!Next, LP!Next, L!Section, L!EnterExclusive, L!At, L!Take, L!Free, L!Size, L!Go, L!Same,
       L!Load, L!Store, L!Amount, L!Fill, L!LeaveExclusive, L!Release, L!EnterShared,
       L!SharedLockGuard, L!Check, L!LeaveShared, L!EndSharedLockGuard, L!Recursive, L!Draw,
       L!UnlockOne, L!LockOne, L!TryLockFails, L!Adjusted, L!Reached, L!Unwind, L!Exit,
       LP!Section, LP!EnterExclusive, LP!At, LP!Take, LP!Free, LP!Size, LP!Go, LP!Same, LP!Load,
       LP!Store, LP!Amount, LP!Fill, LP!LeaveExclusive, LP!Release, LP!EnterShared,
       LP!SharedLockGuard, LP!Check, LP!LeaveShared, LP!EndSharedLockGuard, LP!Recursive,
       LP!Draw, LP!UnlockOne, LP!LockOne, LP!TryLockFails, LP!Adjusted, LP!Reached, LP!Unwind,
       LP!Exit

LEMMA LocksBehave == Spec => LP!Spec
<1>1. Init => LP!Init
  <2>1. L!Start("MutexTester", L!Mutex_POSIX) => L!Init
    <3>1. <<"MutexTester", L!Mutex_POSIX>> \in L!Subjects
      BY DEF L!Subjects
    <3> QED
      BY <3>1 DEF L!Init
  <2> QED
    BY <2>1, LocksInits DEF Init, LocksInit
<1>2. [Next]_vars => [LP!Next]_(LP!vars)
  BY LocksNexts DEF Next, LocksNext, WaitsNext, SemaphoresNext, AffinityNext, LocalsNext,
                    CountersNext, LazyNext, NumbersNext, Rest, vars, locks, LP!vars
<1> QED
  BY <1>1, <1>2, PTL DEF Spec, LP!Spec

LEMMA LocksAssumed == LP!LocksAssumption
BY SubjectsAssumption DEF L!LocksAssumption, LP!LocksAssumption, L!IsFiniteSet, LP!IsFiniteSet

\* The race detector reports exactly what has happened, for any number of
\* threads (RaceDetector.h:35).
THEOREM DetectorReportsRaces == Spec => []RacesReported
<1>1. LP!Spec => []LP!RacesReported
  BY LocksAssumed, LP!DetectorExact
<1>2. LP!RacesReported => RacesReported
  BY DEF RacesReported, LP!RacesReported, L!RacesReported
<1> QED
  BY <1>1, <1>2, LocksBehave, PTL

\* Every test of the locks passes, for any number of threads, iterations and
\* adapters (RecursiveMutexTester.cpp:72, RWLockTester.cpp:55).
THEOREM EveryTestPasses == Spec => []TestsPass
<1>1. LP!Spec => []LP!TestsPass
  BY LocksAssumed, LP!TestsAlwaysPass
<1>2. LP!TestsPass => TestsPass
  BY DEF TestsPass, LP!TestsPass, L!TestsPass, LP!Joined, L!Joined, LP!Passed, L!Passed,
         LP!Total, L!Total, LP!MapThenSumSet, L!MapThenSumSet, LP!MapThenFoldSet, L!MapThenFoldSet,
         LP!At, L!At
<1> QED
  BY <1>1, <1>2, LocksBehave, PTL

----------------------------------------------------------------------------
(* Waits.  Lemmas on units of time woken. *)
\* A smaller factor leaves room for one more k.
LEMMA Products ==
  ASSUME NEW a \in Nat, NEW b \in Nat, a < b, NEW k \in Nat
  PROVE  a * k + k <= b * k
<1>1. PICK d \in Nat : b = a + 1 + d
  <2>1. b - a - 1 \in Nat
    OBVIOUS
  <2> QED
    BY <2>1
<1>2. b * k = a * k + k + d * k
  BY <1>1
<1>3. d * k \in Nat
  OBVIOUS
<1> QED
  BY <1>2, <1>3

\* DeadlineOf carries into the seconds once, and that is enough: the deadline
\* is a timespec that pthread_cond_timedwait accepts, and it is waitMillis
\* after the time it was computed at, whatever the units
\* (ConditionVariable_POSIX.h:54).
THEOREM DeadlineIsLater ==
  ASSUME W!UnitsAssumption, NEW time \in W!Timespecs, NEW waitMillis \in Nat
  PROVE  /\ W!DeadlineOf(time, waitMillis) \in W!Timespecs
         /\ W!Nanos(W!DeadlineOf(time, waitMillis)) = W!Nanos(time) + waitMillis * NanosPerMilli
<1> DEFINE M == MillisPerSecond
           K == NanosPerMilli
           q == waitMillis \div M
           r == waitMillis % M
<1>1. M \in Nat /\ K \in Nat /\ M > 0 /\ K > 0
  BY DEF W!UnitsAssumption
<1>2. q \in Nat /\ r \in Nat /\ r < M /\ waitMillis = M * q + r
  BY <1>1
<1> DEFINE D == M * K
           nsec == time.nsec + r * K
           sec == time.sec + q
<1>3. D \in Nat /\ D > 0 /\ D = W!NanosPerSecond
  BY <1>1 DEF W!NanosPerSecond
<1>4. r * K \in Nat /\ r * K + K <= D
  BY <1>1, <1>2, Products
<1>5. time.sec \in Nat /\ time.nsec \in Nat /\ time.nsec < D
  BY <1>3 DEF W!Timespecs
<1>6. nsec \in Nat /\ nsec < D + D /\ sec \in Nat
  BY <1>1, <1>2, <1>3, <1>4, <1>5
<1>7. sec * D + nsec = time.sec * D + time.nsec + waitMillis * K
  <2>1. waitMillis * K = q * D + r * K
    BY <1>1, <1>2
  <2>2. sec * D = time.sec * D + q * D
    BY <1>2, <1>3, <1>5
  <2> HIDE DEF r, q, D
  <2>3. q * D \in Nat /\ time.sec * D \in Nat /\ r * K \in Nat
    BY <1>2, <1>3, <1>4, <1>5
  <2> QED
    BY <2>1, <2>2, <2>3, <1>5
<1>8. W!DeadlineOf(time, waitMillis) =
        IF nsec >= D THEN [sec |-> sec + 1, nsec |-> nsec - D] ELSE [sec |-> sec, nsec |-> nsec]
  BY <1>3 DEF W!DeadlineOf
<1> HIDE DEF nsec, sec, D, q, r
<1>9. CASE nsec >= D
  <2>1. (sec + 1) * D + (nsec - D) = sec * D + nsec
    <3>1. (sec + 1) * D = sec * D + D
      BY <1>3, <1>6
    <3>2. sec * D \in Nat
      BY <1>3, <1>6
    <3> QED
      BY <3>1, <3>2, <1>3, <1>6
  <2> QED
    BY <1>3, <1>6, <1>7, <1>8, <1>9, <2>1 DEF W!Timespecs, W!Nanos
<1>10. CASE nsec < D
  BY <1>3, <1>6, <1>7, <1>8, <1>10 DEF W!Timespecs, W!Nanos
<1> QED
  BY <1>3, <1>6, <1>9, <1>10

----------------------------------------------------------------------------
(* The inductive invariant: of each thread, what it has been promised.     *)

WaitPlaces == {"idle", "lock", "body", "wake", "test", "timed", "blocked", "relock", "unlock"}
WaitCalls == {"none", "signal", "reset", "wait", "timedWait", "wakeOne", "wakeAll"}

WaitLocals ==
    [at : WaitPlaces, call : WaitCalls, left : Int, millis : Nat, deadline : W!Timespecs,
     outcome : {"none", "woken", "expired"}, sawSet : BOOLEAN, began : W!Timespecs]

WaitsType ==
    /\ object \in W!CondVars \cup W!Events
    /\ state \in BOOLEAN
    /\ now \in W!Timespecs
    /\ caller \in [Callers -> WaitLocals]

\* The deadline is not before the time the caller asked for.
Due(local) == W!Later(local.began, local.millis) <= W!Nanos(local.deadline)

Promised(local, set, time) ==
    /\ local.at \in {"lock", "body"} => local.outcome = "none"
    /\ local.at = "timed" => local.call = "timedWait"
    /\ local.at = "wake" => local.call = "signal"
    /\ local.at = "test" => local.call = "wait"
    /\ local.at \in {"blocked", "relock"} => local.call \in {"wait", "timedWait"}
    /\ local.call = "wait" /\ (set \/ local.at = "unlock") => local.sawSet
    /\ local.call = "timedWait" => W!Nanos(local.began) <= W!Nanos(time)
    /\ local.at = "timed" /\ object = "ConditionVariable_POSIX" => Due(local)
    /\ local.at = "blocked" /\ local.call = "timedWait" => Due(local)
    /\ local.outcome = "expired" => W!Later(local.began, local.millis) <= W!Nanos(time)

WaitsInv == WaitsType /\ \A c \in Callers : Promised(caller[c], state, now)

LEMMA TimeTypes ==
  ASSUME W!UnitsAssumption, NEW ts \in W!Timespecs, NEW waitMillis \in Nat
  PROVE  /\ W!Nanos(ts) \in Nat
         /\ W!Later(ts, waitMillis) \in Nat
         /\ waitMillis * NanosPerMilli \in Nat
<1>1. NanosPerMilli \in Nat /\ W!NanosPerSecond \in Nat
  BY DEF W!UnitsAssumption, W!NanosPerSecond
<1>2. waitMillis * NanosPerMilli \in Nat
  BY <1>1
<1>3. ts.sec * W!NanosPerSecond \in Nat /\ ts.nsec \in Nat
  BY <1>1 DEF W!Timespecs
<1> QED
  BY <1>2, <1>3 DEF W!Nanos, W!Later

\* A number of nanoseconds, split into seconds and the rest.
LEMMA SplitTime ==
  ASSUME W!UnitsAssumption, NEW n \in Nat
  PROVE  /\ [sec |-> n \div W!NanosPerSecond, nsec |-> n % W!NanosPerSecond] \in W!Timespecs
         /\ W!Nanos([sec |-> n \div W!NanosPerSecond, nsec |-> n % W!NanosPerSecond]) = n
<1> DEFINE D == W!NanosPerSecond
<1>1. D \in Nat /\ D > 0
  BY DEF W!UnitsAssumption, W!NanosPerSecond
<1> HIDE DEF D
<1>2. n \div D \in Nat /\ n % D \in 0 .. D - 1 /\ n = D * (n \div D) + (n % D)
  BY <1>1
<1>3. (n \div D) * D = D * (n \div D)
  BY <1>1, <1>2
<1> QED
  BY <1>1, <1>2, <1>3 DEF D, W!Timespecs, W!Nanos

LEMMA TickAdvances ==
  ASSUME W!UnitsAssumption, now \in W!Timespecs, W!Tick
  PROVE  now' \in W!Timespecs /\ W!Nanos(now') = W!Nanos(now) + 1
<1> DEFINE D == W!NanosPerSecond
<1>1. D \in Nat /\ D > 0
  BY DEF W!UnitsAssumption, W!NanosPerSecond
<1> HIDE DEF D
<1>2. now.sec \in Nat /\ now.nsec \in 0 .. D - 1
  BY DEF W!Timespecs, D
<1>3. now.sec * D \in Nat /\ (now.sec + 1) * D = now.sec * D + D
  BY <1>1, <1>2
<1>4. CASE now.nsec = D - 1
  <2>1. now' = [sec |-> now.sec + 1, nsec |-> 0]
    BY <1>4 DEF W!Tick, D
  <2> QED
    BY <1>1, <1>2, <1>3, <1>4, <2>1 DEF W!Timespecs, W!Nanos, D
<1>5. CASE now.nsec # D - 1
  <2>1. now' = [now EXCEPT !.nsec = @ + 1]
    BY <1>5 DEF W!Tick, D
  <2>2. now' = [sec |-> now.sec, nsec |-> now.nsec + 1]
    BY <2>1 DEF W!Timespecs
  <2> QED
    BY <1>1, <1>2, <1>3, <1>5, <2>2 DEF W!Timespecs, W!Nanos, D
<1> QED
  BY <1>4, <1>5

LEMMA InitPromised == ASSUME W!WaitsAssumption, W!Init PROVE WaitsInv
<1>1. W!NanosPerSecond \in Nat /\ W!NanosPerSecond > 0
  BY DEF W!WaitsAssumption, W!UnitsAssumption, W!NanosPerSecond
<1>2. W!Zero \in W!Timespecs
  BY <1>1 DEF W!Zero, W!Timespecs
<1>3. ASSUME NEW left \in Int PROVE W!Resting(left) \in WaitLocals
  BY <1>2, <1>3 DEF W!Resting, WaitLocals, WaitPlaces, WaitCalls
<1>4. ASSUME NEW someKind \in W!CondVars \cup W!Events, NEW initialState \in BOOLEAN,
             NEW time \in W!Timespecs, W!Start(someKind, initialState, time)
      PROVE  WaitsInv
  <2>1. (IF someKind \in W!Events THEN EventCalls ELSE CondVarCalls) \in Int
    BY DEF W!WaitsAssumption
  <2>2. WaitsType
    BY <1>3, <1>4, <2>1 DEF WaitsType, W!Start
  <2>3. \A c \in Callers : Promised(caller[c], state, now)
    BY <1>4 DEF W!Start, W!Resting, Promised
  <2> QED
    BY <2>2, <2>3 DEF WaitsInv
<1>5. ASSUME NEW nsec \in 0 .. W!NanosPerSecond - 1 PROVE [sec |-> 0, nsec |-> nsec] \in W!Timespecs
  BY <1>1 DEF W!Timespecs
<1> QED
  BY <1>2, <1>4, <1>5 DEF W!Init

----------------------------------------------------------------------------
(* Steps that move one thread, and leave the event as it is or reset it.   *)

\* One thread moves, and keeps its promises.
LEMMA OneMoves ==
  ASSUME WaitsInv, NEW c \in Callers, NEW local \in WaitLocals, W!Go(c, local), W!Same,
         state' \in BOOLEAN, state' => state, Promised(local, state', now)
  PROVE  WaitsInv'
<1>1. WaitsType'
  BY DEF WaitsInv, WaitsType, W!Go, W!Same
<1>2. ASSUME NEW b \in Callers, b # c PROVE Promised(caller[b], state', now)
  BY <1>2 DEF WaitsInv, Promised
<1>3. \A b \in Callers : Promised(caller[b], state, now)'
  BY <1>2 DEF W!Go, W!Same, WaitsInv, WaitsType, Promised, Due
<1> QED
  BY <1>1, <1>3 DEF WaitsInv

LEMMA LocalType ==
  ASSUME WaitsInv, NEW c \in Callers
  PROVE  caller[c] \in WaitLocals /\ Promised(caller[c], state, now) /\ state \in BOOLEAN
BY DEF WaitsInv, WaitsType

LEMMA GuardSteps ==
  ASSUME W!WaitsAssumption, WaitsInv, NEW c \in Callers, W!LockGuard(c) \/ W!Return(c) \/ W!Relock(c) \/ W!WakeUp(c)
  PROVE  WaitsInv'
<1>1. CASE W!LockGuard(c)
  <2> DEFINE local == [caller[c] EXCEPT !.at = "body"]
  <2>1. local \in WaitLocals /\ Promised(local, state, now)
    BY <1>1, LocalType DEF W!LockGuard, W!At, WaitLocals, WaitPlaces, Promised, Due
  <2> QED
    BY <1>1, <2>1, OneMoves, LocalType DEF W!LockGuard, W!Same
<1>2. CASE W!Return(c)
  <2> DEFINE local == W!Resting(caller[c].left - 1)
  <2>1. W!NanosPerSecond \in Nat /\ W!NanosPerSecond > 0
    BY DEF W!WaitsAssumption, W!UnitsAssumption, W!NanosPerSecond
  <2>2. caller[c].left - 1 \in Int
    BY LocalType DEF WaitLocals
  <2>3. local \in WaitLocals /\ Promised(local, state, now)
    BY <2>1, <2>2 DEF W!Resting, WaitLocals, WaitPlaces, WaitCalls, Promised, Due, W!Zero, W!Timespecs
  <2> QED
    BY <1>2, <2>3, OneMoves, LocalType DEF W!Return, W!Same
<1>3. CASE W!Relock(c)
  <2> DEFINE local == [caller[c] EXCEPT !.at = IF W!Calling(c, "timedWait") THEN "unlock" ELSE "test"]
  <2>1. local \in WaitLocals /\ Promised(local, state, now)
    BY <1>3, LocalType DEF W!Relock, W!At, W!Calling, WaitLocals, WaitPlaces, Promised, Due
  <2> QED
    BY <1>3, <2>1, OneMoves, LocalType DEF W!Relock, W!Same
<1>4. CASE W!WakeUp(c)
  <2> DEFINE local == W!Unblocked(caller[c])
  <2>1. local \in WaitLocals /\ Promised(local, state, now)
    BY <1>4, LocalType DEF W!WakeUp, W!At, W!Unblocked, WaitLocals, WaitPlaces, Promised, Due
  <2> QED
    BY <1>4, <2>1, OneMoves, LocalType DEF W!WakeUp, W!Same
<1> QED
  BY <1>1, <1>2, <1>3, <1>4

LEMMA CallSteps ==
  ASSUME W!WaitsAssumption, WaitsInv, NEW c \in Callers, W!Call(c)
  PROVE  WaitsInv'
<1>1. W!NanosPerSecond \in Nat /\ W!NanosPerSecond > 0
  BY DEF W!WaitsAssumption, W!UnitsAssumption, W!NanosPerSecond
<1>2. W!Zero \in W!Timespecs /\ now \in W!Timespecs /\ W!Nanos(now) \in Nat
  BY <1>1, TimeTypes DEF W!Zero, W!Timespecs, WaitsInv, WaitsType, W!WaitsAssumption
<1> DEFINE rest == W!Resting(caller[c].left)
           saw(call) == call = "wait" /\ state
           woken == IF object = "ManualResetEvent_Win32" THEN "body" ELSE "lock"
<1>3. rest \in WaitLocals /\ rest.outcome = "none" /\ rest.began = W!Zero
  BY <1>2, LocalType DEF W!Resting, WaitLocals, WaitPlaces, WaitCalls
<1>4. PICK call \in W!Operations, millis \in WaitMillis :
        W!Go(c, [rest EXCEPT !.at = woken, !.call = call, !.millis = millis,
                           !.sawSet = saw(call)])
  BY DEF W!Call
<1> DEFINE local == [rest EXCEPT !.at = woken, !.call = call, !.millis = millis,
                                 !.sawSet = saw(call)]
<1>5. call \in WaitCalls /\ millis \in Nat
  BY DEF W!Operations, WaitCalls, W!WaitsAssumption
<1>6. saw(call) \in BOOLEAN /\ woken \in {"body", "lock"}
  BY LocalType
<1> HIDE DEF rest, saw, woken
<1>7. /\ local \in WaitLocals
      /\ local.at = woken /\ local.call = call /\ local.sawSet = saw(call)
      /\ local.began = W!Zero /\ local.outcome = "none"
  BY <1>3, <1>5, <1>6 DEF WaitLocals, WaitPlaces
<1> HIDE DEF local
<1>8. Promised(local, state, now)
  <2>1. call = "wait" /\ state => local.sawSet
    BY <1>7 DEF saw
  <2>2. W!Nanos(W!Zero) <= W!Nanos(now)
    BY <1>1, <1>2 DEF W!Nanos, W!Zero
  <2> QED
    BY <1>2, <1>6, <1>7, <2>1, <2>2 DEF Promised
<1> QED
  BY <1>4, <1>7, <1>8, OneMoves, LocalType DEF W!Call, W!Same, local

----------------------------------------------------------------------------
(* Steps of the event.                                                     *)

\* Setting the event keeps the promises of those who see it.
LEMMA SeenPromised ==
  ASSUME WaitsInv, NEW b \in Callers
  PROVE  /\ W!Seen(caller[b]) \in WaitLocals
         /\ Promised(W!Seen(caller[b]), TRUE, now)
         /\ W!Seen(caller[b]).call = caller[b].call
         /\ caller[b].call = "wait" => W!Seen(caller[b]).sawSet
<1> DEFINE local == caller[b]
           saw == local.sawSet \/ local.call = "wait"
<1>1. local \in WaitLocals /\ Promised(local, state, now)
  BY LocalType
<1>2. saw \in BOOLEAN /\ (local.call = "wait" => saw) /\ (local.sawSet => saw)
  BY <1>1 DEF WaitLocals
<1>3. W!Seen(local) = [local EXCEPT !.sawSet = saw]
  BY DEF W!Seen
<1> HIDE DEF local, saw
<1>4. /\ W!Seen(local) \in WaitLocals
      /\ W!Seen(local).at = local.at /\ W!Seen(local).call = local.call
      /\ W!Seen(local).millis = local.millis /\ W!Seen(local).deadline = local.deadline
      /\ W!Seen(local).outcome = local.outcome /\ W!Seen(local).began = local.began
      /\ W!Seen(local).sawSet = saw
  BY <1>1, <1>2, <1>3 DEF WaitLocals
<1>5. Promised(W!Seen(local), TRUE, now)
  BY <1>1, <1>2, <1>4 DEF Promised, Due
<1> QED
  BY <1>2, <1>4, <1>5 DEF local

\* Several threads move at once.
LEMMA AllMove ==
  ASSUME WaitsInv, W!Same, state' \in BOOLEAN, NEW local,
         caller' = [b \in Callers |-> local[b]],
         \A b \in Callers : local[b] \in WaitLocals /\ Promised(local[b], state', now)
  PROVE  WaitsInv'
<1>1. WaitsType'
  BY DEF WaitsInv, WaitsType, W!Same
<1>2. \A b \in Callers : Promised(caller[b], state, now)'
  BY DEF W!Same, Promised, Due
<1> QED
  BY <1>1, <1>2 DEF WaitsInv

LEMMA SignalSteps ==
  ASSUME WaitsInv, NEW c \in Callers, W!Signal(c) \/ W!SetEvent(c)
  PROVE  WaitsInv'
<1>1. CASE W!Signal(c)
  <2> DEFINE local == [b \in Callers |-> IF b = c THEN [caller[c] EXCEPT !.at = "wake"]
                                                  ELSE W!Seen(caller[b])]
  <2>1. caller[c].call = "signal"
    BY <1>1 DEF W!Signal, W!Calling
  <2>2. local[c] \in WaitLocals /\ Promised(local[c], TRUE, now)
    BY <2>1, LocalType DEF WaitLocals, WaitPlaces, Promised, Due
  <2>3. ASSUME NEW b \in Callers, b # c PROVE local[b] \in WaitLocals /\ Promised(local[b], TRUE, now)
    BY <2>3, SeenPromised
  <2>4. state' = TRUE /\ caller' = [b \in Callers |-> local[b]] /\ W!Same
    BY <1>1 DEF W!Signal
  <2> HIDE DEF local
  <2>5. \A b \in Callers : local[b] \in WaitLocals /\ Promised(local[b], state', now)
    BY <2>2, <2>3, <2>4
  <2> QED
    BY <2>4, <2>5, AllMove
<1>2. CASE W!SetEvent(c)
  <2> DEFINE local == [b \in Callers |->
                           IF b = c THEN [caller[c] EXCEPT !.at = "unlock"]
                           ELSE IF W!At(b, "blocked") THEN [W!Seen(caller[b]) EXCEPT !.at = "unlock"]
                           ELSE W!Seen(caller[b])]
  <2>1. caller[c].call = "signal"
    BY <1>2 DEF W!SetEvent, W!Calling
  <2>2. local[c] \in WaitLocals /\ Promised(local[c], TRUE, now)
    BY <2>1, LocalType DEF WaitLocals, WaitPlaces, Promised, Due
  <2>3. ASSUME NEW b \in Callers, b # c PROVE local[b] \in WaitLocals /\ Promised(local[b], TRUE, now)
    <3> DEFINE view == W!Seen(caller[b])
    <3>1. view \in WaitLocals /\ Promised(view, TRUE, now)
      BY SeenPromised
    <3> HIDE DEF view
    <3>2. /\ [view EXCEPT !.at = "unlock"] \in WaitLocals
          /\ Promised([view EXCEPT !.at = "unlock"], TRUE, now)
      BY <3>1 DEF WaitLocals, WaitPlaces, Promised, Due
    <3>3. local[b] \in {view, [view EXCEPT !.at = "unlock"]}
      BY <2>3 DEF view
    <3> QED
      BY <3>1, <3>2, <3>3
  <2>4. state' = TRUE /\ caller' = [b \in Callers |-> local[b]] /\ W!Same
    BY <1>2 DEF W!SetEvent
  <2> HIDE DEF local
  <2>5. \A b \in Callers : local[b] \in WaitLocals /\ Promised(local[b], state', now)
    BY <2>2, <2>3, <2>4
  <2> QED
    BY <2>4, <2>5, AllMove
<1> QED
  BY <1>1, <1>2

LEMMA ResetSteps ==
  ASSUME WaitsInv, NEW c \in Callers, W!Reset(c) \/ W!ResetEvent(c)
  PROVE  WaitsInv'
<1> DEFINE local == [caller[c] EXCEPT !.at = "unlock"]
<1>1. caller[c].call = "reset"
  BY DEF W!Reset, W!ResetEvent, W!Calling
<1>2. local \in WaitLocals /\ Promised(local, FALSE, now)
  BY <1>1, LocalType DEF WaitLocals, WaitPlaces, Promised, Due
<1>3. state' = FALSE /\ W!Go(c, local) /\ W!Same
  BY DEF W!Reset, W!ResetEvent
<1> HIDE DEF local
<1> QED
  BY <1>2, <1>3, OneMoves

LEMMA WaitSteps ==
  ASSUME WaitsInv, NEW c \in Callers, W!Enter(c) \/ W!Test(c) \/ W!WaitForSingleObject(c)
  PROVE  WaitsInv'
<1>1. CASE W!Enter(c)
  <2> DEFINE local == [caller[c] EXCEPT !.at = "test"]
  <2>1. local \in WaitLocals /\ Promised(local, state, now)
    BY <1>1, LocalType DEF W!Enter, W!Calling, WaitLocals, WaitPlaces, Promised, Due
  <2> QED
    BY <1>1, <2>1, OneMoves, LocalType DEF W!Enter, W!Same
<1>2. CASE W!Test(c) /\ state
  <2> DEFINE local == [caller[c] EXCEPT !.at = "unlock"]
  <2>1. local \in WaitLocals /\ Promised(local, state, now)
    BY <1>2, LocalType DEF WaitLocals, WaitPlaces, Promised, Due
  <2> QED
    BY <1>2, <2>1, OneMoves, LocalType DEF W!Test, W!Same
<1>3. CASE W!Test(c) /\ ~state
  <2> DEFINE local == [caller[c] EXCEPT !.at = "blocked"]
  <2>1. caller[c].call = "wait"
    BY <1>3, LocalType DEF W!Test, W!At, Promised
  <2>2. local \in WaitLocals /\ Promised(local, state, now)
    BY <2>1, LocalType DEF WaitLocals, WaitPlaces, Promised, Due
  <2> QED
    BY <1>3, <2>2, OneMoves, LocalType DEF W!Test, W!Block, W!Same
<1>4. CASE W!WaitForSingleObject(c)
  <2> DEFINE local == [caller[c] EXCEPT !.at = IF state THEN "unlock" ELSE "blocked"]
  <2>1. caller[c].call = "wait"
    BY <1>4 DEF W!WaitForSingleObject, W!Calling
  <2>2. local \in WaitLocals /\ Promised(local, state, now)
    BY <2>1, LocalType DEF WaitLocals, WaitPlaces, Promised, Due
  <2> QED
    BY <1>4, <2>2, OneMoves, LocalType DEF W!WaitForSingleObject, W!Same
<1> QED
  BY <1>1, <1>2, <1>3, <1>4

----------------------------------------------------------------------------
(* Steps of the condition variable.                                        *)

LEMMA UnblockedPromised ==
  ASSUME WaitsInv, NEW b \in Callers, W!At(b, "blocked")
  PROVE  W!Unblocked(caller[b]) \in WaitLocals /\ Promised(W!Unblocked(caller[b]), state, now)
BY LocalType DEF W!At, W!Unblocked, WaitLocals, WaitPlaces, Promised, Due

LEMMA UnlockPromised ==
  ASSUME WaitsInv, NEW c \in Callers, caller[c].call # "wait"
  PROVE  /\ [caller[c] EXCEPT !.at = "unlock"] \in WaitLocals
         /\ Promised([caller[c] EXCEPT !.at = "unlock"], state, now)
BY LocalType DEF WaitLocals, WaitPlaces, Promised, Due

LEMMA WakeAllStep ==
  ASSUME WaitsInv, NEW c \in Callers, caller[c].call # "wait", W!WakeAll(c), W!Same, state' = state
  PROVE  WaitsInv'
<1> DEFINE local == [b \in Callers |-> IF b = c THEN [caller[c] EXCEPT !.at = "unlock"]
                                       ELSE IF W!At(b, "blocked") THEN W!Unblocked(caller[b])
                                       ELSE caller[b]]
<1>1. ASSUME NEW b \in Callers PROVE local[b] \in WaitLocals /\ Promised(local[b], state, now)
  BY UnblockedPromised, UnlockPromised, LocalType
<1>2. caller' = [b \in Callers |-> local[b]]
  BY DEF W!WakeAll
<1> HIDE DEF local
<1> QED
  BY <1>1, <1>2, AllMove, LocalType

LEMMA WakeOneStep ==
  ASSUME WaitsInv, NEW c \in Callers, caller[c].call # "wait", W!WakeOne(c), W!Same, state' = state,
         ~W!At(c, "blocked")
  PROVE  WaitsInv'
<1>1. CASE W!Blocked = {}
  <2> DEFINE local == [caller[c] EXCEPT !.at = "unlock"]
  <2>1. W!Go(c, local)
    BY <1>1 DEF W!WakeOne
  <2>2. local \in WaitLocals /\ Promised(local, state, now)
    BY UnlockPromised
  <2> HIDE DEF local
  <2> QED
    BY <2>1, <2>2, OneMoves, LocalType
<1>2. CASE W!Blocked # {}
  <2>1. PICK b \in W!Blocked : caller' = [caller EXCEPT ![c].at = "unlock", ![b] = W!Unblocked(@)]
    BY <1>2 DEF W!WakeOne
  <2>2. b \in Callers /\ W!At(b, "blocked") /\ b # c
    BY DEF W!Blocked
  <2> DEFINE local == [d \in Callers |-> IF d = c THEN [caller[c] EXCEPT !.at = "unlock"]
                                         ELSE IF d = b THEN W!Unblocked(caller[b])
                                         ELSE caller[d]]
  <2>3. ASSUME NEW d \in Callers PROVE local[d] \in WaitLocals /\ Promised(local[d], state, now)
    BY <2>2, UnblockedPromised, UnlockPromised, LocalType
  <2>4. caller' = [d \in Callers |-> local[d]]
    BY <2>1, <2>2 DEF WaitsInv, WaitsType
  <2> HIDE DEF local
  <2> QED
    BY <2>3, <2>4, AllMove, LocalType
<1> QED
  BY <1>1, <1>2

LEMMA WakeSteps ==
  ASSUME WaitsInv, NEW c \in Callers, W!SignalWakes(c) \/ W!Wake(c)
  PROVE  WaitsInv'
<1>1. CASE W!SignalWakes(c)
  <2>1. caller[c].call # "wait" /\ W!WakeAll(c) /\ W!Same /\ state' = state
    BY <1>1, LocalType DEF W!SignalWakes, W!At, Promised
  <2> QED
    BY <2>1, WakeAllStep
<1>2. CASE W!Wake(c)
  <2>1. W!At(c, "body") /\ W!Same /\ state' = state
    BY <1>2 DEF W!Wake
  <2>2. CASE W!Calling(c, "wakeOne") /\ W!WakeOne(c)
    BY <2>1, <2>2, WakeOneStep DEF W!Calling, W!At
  <2>3. CASE W!Calling(c, "wakeAll") /\ W!WakeAll(c)
    BY <2>1, <2>3, WakeAllStep DEF W!Calling
  <2> QED
    BY <1>2, <2>2, <2>3 DEF W!Wake
<1> QED
  BY <1>1, <1>2

LEMMA TimedWaitSteps ==
  ASSUME W!WaitsAssumption, WaitsInv, NEW c \in Callers, W!TimedWait(c) \/ W!Expire(c)
  PROVE  WaitsInv'
<1>0. W!UnitsAssumption /\ caller[c] \in WaitLocals /\ Promised(caller[c], state, now) /\ now \in W!Timespecs
  BY LocalType DEF W!WaitsAssumption, WaitsInv, WaitsType
<1>1. CASE W!TimedWait(c)
  <2> DEFINE millis == caller[c].millis
             deadline == IF object = "ConditionVariable_POSIX" THEN W!DeadlineOf(now, millis) ELSE W!Zero
             where == IF millis > 0 THEN "timed" ELSE "unlock"
             local == [caller[c] EXCEPT !.at = where, !.began = now, !.deadline = deadline]
  <2>1. millis \in Nat /\ caller[c].call = "timedWait" /\ caller[c].outcome = "none"
    BY <1>0, <1>1 DEF WaitLocals, W!TimedWait, W!At, W!Calling, Promised
  <2>2. /\ W!DeadlineOf(now, millis) \in W!Timespecs
        /\ W!Nanos(W!DeadlineOf(now, millis)) = W!Nanos(now) + millis * NanosPerMilli
    BY <1>0, <2>1, DeadlineIsLater
  <2>3. /\ W!Nanos(now) <= W!Nanos(now)
        /\ W!Later(now, millis) <= W!Nanos(W!DeadlineOf(now, millis))
    <3>1. W!Nanos(now) \in Nat /\ millis * NanosPerMilli \in Nat
      BY <1>0, <2>1, TimeTypes
    <3> QED
      BY <2>2, <3>1 DEF W!Later
  <2>4. W!NanosPerSecond \in Nat /\ W!NanosPerSecond > 0
    BY <1>0 DEF W!UnitsAssumption, W!NanosPerSecond
  <2>5. deadline \in W!Timespecs
    BY <2>2, <2>4 DEF W!Zero, W!Timespecs
  <2>6. object = "ConditionVariable_POSIX" => W!Later(now, millis) <= W!Nanos(deadline)
    BY <2>3
  <2>7. where \in {"timed", "unlock"}
    OBVIOUS
  <2>8. W!Go(c, local) /\ W!Same /\ state' = state
    BY <1>1 DEF W!TimedWait
  <2> HIDE DEF deadline, where
  <2>9. local \in WaitLocals /\ Promised(local, state, now)
    BY <1>0, <2>1, <2>3, <2>5, <2>6, <2>7 DEF WaitLocals, WaitPlaces, Promised, Due
  <2> HIDE DEF local
  <2> QED
    BY <2>8, <2>9, OneMoves, LocalType
<1>2. CASE W!Expire(c)
  <2> DEFINE local == [caller[c] EXCEPT !.at = "relock", !.outcome = "expired"]
  <2>1. W!Later(caller[c].began, caller[c].millis) <= W!Nanos(now)
    <3>1. Due(caller[c]) /\ W!Nanos(now) >= W!Nanos(caller[c].deadline)
      BY <1>0, <1>2 DEF W!Expire, W!At, W!Calling, Promised
    <3>2. /\ W!Nanos(now) \in Nat /\ W!Nanos(caller[c].deadline) \in Nat
          /\ W!Later(caller[c].began, caller[c].millis) \in Nat
      BY <1>0, TimeTypes DEF WaitLocals
    <3> QED
      BY <3>1, <3>2 DEF Due
  <2>2. local \in WaitLocals /\ Promised(local, state, now)
    BY <1>0, <1>2, <2>1 DEF W!Expire, W!Calling, WaitLocals, WaitPlaces, Promised, Due
  <2>3. W!Go(c, local) /\ W!Same /\ state' = state
    BY <1>2 DEF W!Expire
  <2> HIDE DEF local
  <2> QED
    BY <2>2, <2>3, OneMoves, LocalType
<1> QED
  BY <1>1, <1>2

LEMMA BlockTimedStep ==
  ASSUME W!WaitsAssumption, WaitsInv, NEW c \in Callers, W!BlockTimed(c)
  PROVE  WaitsInv'
<1> DEFINE system == object = "ConditionVariable_POSIX"
           due == W!Later(now, caller[c].millis)
           split == [sec |-> due \div W!NanosPerSecond, nsec |-> due % W!NanosPerSecond]
           deadline == IF system THEN caller[c].deadline ELSE split
           local == [caller[c] EXCEPT !.at = "blocked", !.deadline = deadline]
<1>1. W!UnitsAssumption /\ caller[c] \in WaitLocals /\ Promised(caller[c], state, now) /\ now \in W!Timespecs
  BY LocalType DEF W!WaitsAssumption, WaitsInv, WaitsType
<1>2. caller[c].call = "timedWait" /\ (system => Due(caller[c])) /\ W!Same /\ state' = state
  BY <1>1 DEF W!BlockTimed, W!At, Promised
<1>3. /\ caller[c].began \in W!Timespecs /\ caller[c].deadline \in W!Timespecs
      /\ caller[c].millis \in Nat
  BY <1>1 DEF WaitLocals
<1>4. W!Valid(caller[c].deadline)
  BY <1>3 DEF W!Timespecs, W!Valid
<1>5. due \in Nat /\ split \in W!Timespecs /\ W!Nanos(split) = due
  BY <1>1, <1>3, TimeTypes, SplitTime
<1>6. W!Later(caller[c].began, caller[c].millis) <= due
  <2>1. W!Nanos(caller[c].began) <= W!Nanos(now)
    BY <1>1, <1>2 DEF Promised
  <2>2. /\ W!Nanos(caller[c].began) \in Nat /\ W!Nanos(now) \in Nat
        /\ caller[c].millis * NanosPerMilli \in Nat
    BY <1>1, <1>3, TimeTypes
  <2> QED
    BY <2>1, <2>2 DEF W!Later
<1>7. W!Go(c, local)
  BY <1>4 DEF W!BlockTimed, W!Block
<1>8. deadline \in W!Timespecs /\ W!Later(caller[c].began, caller[c].millis) <= W!Nanos(deadline)
  BY <1>2, <1>3, <1>5, <1>6 DEF Due
<1> HIDE DEF deadline, system
<1>9. local \in WaitLocals /\ Promised(local, state, now)
  BY <1>1, <1>2, <1>8 DEF WaitLocals, WaitPlaces, Promised, Due
<1> HIDE DEF local
<1> QED
  BY <1>2, <1>7, <1>9, OneMoves, LocalType

----------------------------------------------------------------------------
(* Time passes, and the theorem.                                           *)

LEMMA TickStep ==
  ASSUME W!WaitsAssumption, WaitsInv, W!Tick
  PROVE  WaitsInv'
<1>1. W!UnitsAssumption /\ now \in W!Timespecs
  BY DEF W!WaitsAssumption, WaitsInv, WaitsType
<1>2. now' \in W!Timespecs /\ W!Nanos(now') = W!Nanos(now) + 1 /\ W!Nanos(now) \in Nat
  BY <1>1, TickAdvances, TimeTypes
<1>3. object' = object /\ state' = state /\ caller' = caller
  BY DEF W!Tick
<1>4. WaitsType'
  BY <1>2, <1>3 DEF WaitsInv, WaitsType
<1>5. ASSUME NEW b \in Callers PROVE Promised(caller[b], state, now')
  <2>1. caller[b] \in WaitLocals /\ Promised(caller[b], state, now)
    BY LocalType
  <2>2. /\ caller[b].began \in W!Timespecs /\ caller[b].millis \in Nat
    BY <2>1 DEF WaitLocals
  <2>3. W!Nanos(caller[b].began) \in Nat /\ W!Later(caller[b].began, caller[b].millis) \in Nat
    BY <1>1, <2>2, TimeTypes
  <2> QED
    BY <1>2, <2>1, <2>3 DEF Promised
<1>6. \A b \in Callers : Promised(caller[b], state, now)'
  BY <1>3, <1>5 DEF Promised, Due
<1> QED
  BY <1>4, <1>6 DEF WaitsInv

LEMMA StepPromised == ASSUME W!WaitsAssumption, WaitsInv, [W!Next]_(W!vars) PROVE WaitsInv'
<1>1. CASE W!Tick
  BY <1>1, TickStep
<1>2. ASSUME NEW c \in Callers, W!Call(c) PROVE WaitsInv'
  BY <1>2, CallSteps
<1>3. ASSUME NEW c \in Callers, W!WakeUp(c) PROVE WaitsInv'
  BY <1>3, GuardSteps
<1>4. ASSUME NEW c \in Callers, W!Step(c) PROVE WaitsInv'
  <2>1. CASE W!LockGuard(c) \/ W!Return(c) \/ W!Relock(c)
    BY <2>1, GuardSteps
  <2>2. CASE W!Event(c)
    BY <2>2, SignalSteps, ResetSteps, WaitSteps, WakeSteps DEF W!Event
  <2>3. CASE W!Wake(c)
    BY <2>3, WakeSteps
  <2>4. CASE W!TimedWait(c) \/ W!Expire(c)
    BY <2>4, TimedWaitSteps
  <2>5. CASE W!BlockTimed(c)
    BY <2>5, BlockTimedStep
  <2> QED
    BY <1>4, <2>1, <2>2, <2>3, <2>4, <2>5 DEF W!Step
<1>5. CASE UNCHANGED W!vars
  BY <1>5 DEF W!vars, WaitsInv, WaitsType, Promised, Due
<1> QED
  BY <1>1, <1>2, <1>3, <1>4, <1>5 DEF W!Next

LEMMA PromisedIsReason == ASSUME W!WaitsAssumption, WaitsInv PROVE W!WaitsReturnForAReason
<1> SUFFICES ASSUME NEW c \in Callers, W!At(c, "unlock")
             PROVE  /\ W!Calling(c, "wait") => caller[c].sawSet
                    /\ caller[c].outcome = "expired" =>
                           W!Nanos(now) >= W!Later(caller[c].began, caller[c].millis)
  BY DEF W!WaitsReturnForAReason
<1>1. W!UnitsAssumption /\ now \in W!Timespecs /\ caller[c] \in WaitLocals
  BY LocalType DEF W!WaitsAssumption, WaitsInv, WaitsType
<1>2. W!Nanos(now) \in Nat /\ W!Later(caller[c].began, caller[c].millis) \in Nat
  BY <1>1, TimeTypes DEF WaitLocals
<1> QED
  BY <1>2, LocalType DEF W!At, W!Calling, Promised

\* A wait for the event returns only if the event was set at some instant of
\* the call, and a timedWait that nothing woke has lasted, from its entry on, as
\* long as it was asked to: for any number of threads, any waits and any units of time
\* (ManualResetEvent_CondVar.h:45, ConditionVariable_POSIX.h:42).
THEOREM WaitsReasoned == W!WaitsAssumption => (W!Spec => []W!WaitsReturnForAReason)
<1>1. ASSUME W!WaitsAssumption PROVE W!Spec => []W!WaitsReturnForAReason
  <2>1. W!Init => WaitsInv
    BY <1>1, InitPromised
  <2>2. WaitsInv /\ [W!Next]_(W!vars) => WaitsInv'
    BY <1>1, StepPromised
  <2>3. WaitsInv => W!WaitsReturnForAReason
    BY <1>1, PromisedIsReason
  <2> QED
    BY <2>1, <2>2, <2>3, PTL DEF W!Spec
<1> QED
  BY <1>1

\* No wait returns because of a spurious wake-up or before its time, for any
\* number of threads and any units of time (ManualResetEvent_CondVar.h:45,
\* ConditionVariable_POSIX.h:42).
THEOREM WaitsHaveAReason == Spec => []WaitsReturnForAReason
<1>1. W!WaitsAssumption
  BY SubjectsAssumption
<1>2. Init => WaitsInv
  <2>1. W!Start("ManualResetEvent_CondVar", FALSE, W!Zero) => W!Init
    BY DEF W!Init, W!Events
  <2> QED
    BY <1>1, <2>1, InitPromised DEF Init, WaitsInit
<1>3. WaitsInv /\ [Next]_vars => WaitsInv'
  <2>1. [Next]_vars => [W!Next]_(W!vars)
    BY DEF Next, LocksNext, WaitsNext, SemaphoresNext, AffinityNext, LocalsNext,
           CountersNext, LazyNext, NumbersNext, Rest, vars, waits, W!vars
  <2> QED
    BY <1>1, <2>1, StepPromised
<1>4. WaitsInv => WaitsReturnForAReason
  BY <1>1, PromisedIsReason DEF WaitsReturnForAReason
<1> QED
  BY <1>2, <1>3, <1>4, PTL DEF Spec

----------------------------------------------------------------------------
(* Affinity.  Induction over the length of a sequence, and what flattening *)
(* a sequence of sequences gives.                                          *)

LEMMA FromZero ==
  ASSUME NEW Known \in SUBSET Nat, 0 \in Known, \A n \in Known : n + 1 \in Known
  PROVE  Known = Nat
<1> DEFINE R == {ss \in Nat \X Nat : ss[1] < ss[2]}
           Rest0 == Nat \ Known
<1>1. OpToRel(<, Nat) = R
  BY DEF OpToRel
<1>2. IsWellFoundedOn(R, Nat)
  BY <1>1, NatLessThanWellFounded
<1> SUFFICES ASSUME Rest0 # {} PROVE FALSE
  OBVIOUS
<1>3. \E x \in Rest0 : \A y \in Rest0 : <<y, x>> \notin R
  <2> HIDE DEF R
  <2> QED
    BY <1>2, WFMin
<1>4. PICK x \in Rest0 : \A y \in Rest0 : <<y, x>> \notin R
  BY <1>3
<1>5. x \in Nat \ Known /\ \A y \in Nat \ Known : ~(y < x)
  BY <1>4
<1>6. x # 0
  BY <1>5
<1>7. x - 1 \in Nat /\ x - 1 < x /\ (x - 1) + 1 = x
  BY <1>5, <1>6
<1>8. x - 1 \in Known
  BY <1>5, <1>7
<1> HIDE DEF R, Rest0
<1> QED
  BY <1>5, <1>7, <1>8

Extended(u, v) == u \o v

\* What FlattenSeq computes on its way: all up to the n-th.
Flattening(s, f, n) ==
    f = [i \in 1 .. n |-> IF i = 1 THEN s[i] ELSE Extended(f[i - 1], s[i])]

LEMMA FlattensTo ==
  ASSUME NEW s, NEW n \in Nat \ {0}, Len(s) = n
  PROVE  \E f : Flattening(s, f, n) /\ A!FlattenSeq(s) = f[n]
<1> DEFINE Known == {k \in Nat : \E f : Flattening(s, f, k)}
<1>1. Known \in SUBSET Nat
  OBVIOUS
<1>2. 0 \in Known
  <2>1. Flattening(s, <<>>, 0)
    BY DEF Flattening
  <2> QED
    BY <2>1
<1>3. ASSUME NEW k \in Nat, NEW f, Flattening(s, f, k) PROVE \E g : Flattening(s, g, k + 1)
  <2>1. Flattening(s, f, k)
    BY <1>3
  <2> DEFINE g == [i \in 1 .. k + 1 |-> IF i <= k THEN f[i] ELSE IF i = 1 THEN s[i] ELSE Extended(f[i - 1], s[i])]
  <2>2. \A i \in 1 .. k : f[i] = IF i = 1 THEN s[i] ELSE Extended(f[i - 1], s[i])
    BY <2>1 DEF Flattening
  <2>3. \A i \in 1 .. k + 1 : g[i] = IF i = 1 THEN s[i] ELSE Extended(g[i - 1], s[i])
    <3> SUFFICES ASSUME NEW i \in 1 .. k + 1 PROVE g[i] = IF i = 1 THEN s[i] ELSE Extended(g[i - 1], s[i])
      OBVIOUS
    <3>1. CASE i = 1
      BY <2>2, <3>1
    <3>2. CASE i # 1
      <4>1. i - 1 \in 1 .. k /\ g[i - 1] = f[i - 1]
        BY <3>2
      <4>2. g[i] = Extended(f[i - 1], s[i])
        <5>1. CASE i <= k
          BY <2>2, <3>2, <5>1
        <5>2. CASE i = k + 1
          BY <3>2, <5>2
        <5> QED
          BY <5>1, <5>2
      <4> QED
        BY <3>2, <4>1, <4>2
    <3> QED
      BY <3>1, <3>2
  <2>4. g = [i \in 1 .. k + 1 |-> g[i]]
    OBVIOUS
  <2> HIDE DEF g
  <2>5. Flattening(s, g, k + 1)
    BY <2>3, <2>4 DEF Flattening
  <2> QED
    BY <2>5
<1>4. n \in Known
  <2>1. \A k \in Known : k + 1 \in Known
    BY <1>3
  <2> HIDE DEF Known
  <2> QED
    BY <1>1, <1>2, <2>1, FromZero
<1>5. PICK f : Flattening(s, f, n)
  BY <1>4
<1> DEFINE fl[i \in 1 .. n] == IF i = 1 THEN s[i] ELSE Extended(fl[i - 1], s[i])
<1>6. fl = CHOOSE g : g = [i \in 1 .. n |-> IF i = 1 THEN s[i] ELSE Extended(g[i - 1], s[i])]
  OBVIOUS
<1>7. Flattening(s, fl, n)
  <2> HIDE DEF fl
  <2> QED
    BY <1>5, <1>6 DEF Flattening
<1>8. A!FlattenSeq(s) = fl[n]
  BY DEF A!FlattenSeq, Extended
<1> HIDE DEF fl
<1> QED
  BY <1>7, <1>8

LEMMA FlattensStep ==
  ASSUME NEW s, NEW n \in Nat, NEW f, Flattening(s, f, n)
  PROVE  /\ n # 0 => f[1] = s[1]
         /\ \A i \in 1 .. n : i # n => f[i + 1] = Extended(f[i], s[i + 1])
<1>1. \A i \in 1 .. n : f[i] = IF i = 1 THEN s[i] ELSE Extended(f[i - 1], s[i])
  BY DEF Flattening
<1>2. ASSUME NEW i \in 1 .. n, i # n PROVE f[i + 1] = Extended(f[i], s[i + 1])
  <2>1. i + 1 \in 1 .. n /\ i + 1 # 1 /\ (i + 1) - 1 = i
    BY <1>2
  <2> HIDE DEF Flattening
  <2>2. f[i + 1] = Extended(f[(i + 1) - 1], s[i + 1])
    BY <1>1, <2>1
  <2> QED
    BY <2>1, <2>2
<1> QED
  BY <1>1, <1>2

\* No element occurs twice, in the same sequence or in different ones.
Distinct(s) ==
    \A i, j \in DOMAIN s : \A a \in DOMAIN s[i], b \in DOMAIN s[j] :
        s[i][a] = s[j][b] => i = j /\ a = b

Cells(s) == UNION {{s[i][a] : a \in DOMAIN s[i]} : i \in DOMAIN s}

\* Flattening keeps the elements, and those that are distinct distinct.
LEMMA FlattenedCells ==
  ASSUME NEW X, NEW s \in Seq(Seq(X))
  PROVE  /\ A!FlattenSeq(s) \in Seq(X)
         /\ A!ToSet(A!FlattenSeq(s)) = Cells(s)
         /\ Distinct(s) => A!IsInjective(A!FlattenSeq(s))
<1>1. CASE s = <<>>
  BY <1>1 DEF A!FlattenSeq, A!ToSet, Cells, A!IsInjective
<1>2. CASE s # <<>>
  <2> DEFINE n == Len(s)
  <2>1. n \in Nat \ {0} /\ DOMAIN s = 1 .. n /\ \A i \in 1 .. n : s[i] \in Seq(X)
    BY <1>2
  <2> HIDE DEF n
  <2>2. PICK f : Flattening(s, f, n) /\ A!FlattenSeq(s) = f[n]
    BY <2>1, FlattensTo DEF n
  <2> DEFINE Up(k) == {s[i][a] : i \in 1 .. k, a \in Nat}
             Good(k) == /\ f[k] \in Seq(X)
                        /\ \A x : (\E c \in 1 .. Len(f[k]) : f[k][c] = x) <=>
                                      \E i \in 1 .. k : \E a \in 1 .. Len(s[i]) : s[i][a] = x
                        /\ Distinct(s) => \A c, d \in 1 .. Len(f[k]) : f[k][c] = f[k][d] => c = d
             Known == {k \in Nat : k \in 1 .. n => Good(k)}
  <2>3. 0 \in Known /\ Known \in SUBSET Nat
    BY <2>1
  <2>4. ASSUME NEW k \in Nat, k \in 1 .. n => Good(k), k + 1 \in 1 .. n PROVE Good(k + 1)
    <3>1. CASE k = 0
      <4>1. f[1] = s[1]
        BY <2>1, <2>2, FlattensStep
      <4>2. s[1] \in Seq(X) /\ DOMAIN s[1] = 1 .. Len(s[1])
        BY <2>1
      <4>3. Distinct(s) => \A c, d \in 1 .. Len(s[1]) : s[1][c] = s[1][d] => c = d
        BY <2>1, <4>2, SMTT(60) DEF Distinct
      <4>4. Good(1)
        <5>1. f[1] \in Seq(X) /\ Len(f[1]) = Len(s[1])
          BY <4>1, <4>2
        <5>2. \A x : (\E c \in 1 .. Len(f[1]) : f[1][c] = x) <=>
                        \E i \in 1 .. 1 : \E a \in 1 .. Len(s[i]) : s[i][a] = x
          BY <4>1
        <5>3. Distinct(s) => \A c, d \in 1 .. Len(f[1]) : f[1][c] = f[1][d] => c = d
          BY <4>1, <4>3
        <5> QED
          BY <5>1, <5>2, <5>3
      <4>5. k + 1 = 1
        BY <3>1
      <4> HIDE DEF Good
      <4> QED
        BY <4>4, <4>5
    <3>2. CASE k # 0
      <4>1. k \in 1 .. n /\ Good(k)
        <5>1. k \in 1 .. n
          BY <2>1, <2>4, <3>2
        <5> HIDE DEF Good
        <5> QED
          BY <2>4, <5>1
      <4>2. f[k + 1] = f[k] \o s[k + 1]
        <5>1. n \in Nat /\ k \in 1 .. n /\ k # n
          BY <2>1, <2>4, <4>1
        <5> HIDE DEF Good
        <5> QED
          BY <2>2, <5>1, FlattensStep DEF Extended
      <4> DEFINE u == f[k]
                 v == s[k + 1]
      <4>3. /\ u \in Seq(X) /\ v \in Seq(X) /\ Len(u) \in Nat /\ Len(v) \in Nat
            /\ Len(u \o v) = Len(u) + Len(v) /\ u \o v \in Seq(X)
            /\ \A c \in 1 .. Len(u) : (u \o v)[c] = u[c]
            /\ \A c \in 1 .. Len(v) : (u \o v)[Len(u) + c] = v[c]
            /\ \A c \in 1 .. Len(u \o v) :
                 \/ c \in 1 .. Len(u) /\ (u \o v)[c] = u[c]
                 \/ c - Len(u) \in 1 .. Len(v) /\ (u \o v)[c] = v[c - Len(u)]
        <5>1. u \in Seq(X) /\ v \in Seq(X)
          BY <2>1, <2>4, <4>1
        <5> HIDE DEF u, v
        <5>2. /\ Len(u) \in Nat /\ Len(v) \in Nat
              /\ Len(u \o v) = Len(u) + Len(v) /\ u \o v \in Seq(X)
          BY <5>1
        <5>3. \A c \in 1 .. Len(u) : (u \o v)[c] = u[c]
          BY <5>1
        <5>4. ASSUME NEW c \in 1 .. Len(v) PROVE (u \o v)[Len(u) + c] = v[c]
          BY <5>1, <5>2
        <5>5. ASSUME NEW c \in 1 .. Len(u \o v)
              PROVE  \/ c \in 1 .. Len(u) /\ (u \o v)[c] = u[c]
                     \/ c - Len(u) \in 1 .. Len(v) /\ (u \o v)[c] = v[c - Len(u)]
          BY <5>1, <5>2
        <5> QED
          BY <5>1, <5>2, <5>3, <5>4, <5>5
      <4>4. \A x : (\E c \in 1 .. Len(f[k + 1]) : f[k + 1][c] = x) <=>
                       \E i \in 1 .. k + 1 : \E a \in 1 .. Len(s[i]) : s[i][a] = x
        <5> TAKE x
        <5>1. (\E c \in 1 .. Len(u \o v) : (u \o v)[c] = x) <=>
                  (\E c \in 1 .. Len(u) : u[c] = x) \/ (\E c \in 1 .. Len(v) : v[c] = x)
          <6> HIDE DEF u, v
          <6>1. ASSUME NEW c \in 1 .. Len(v), v[c] = x
                PROVE  \E d \in 1 .. Len(u \o v) : (u \o v)[d] = x
            <7>1. Len(u) + c \in 1 .. Len(u \o v) /\ (u \o v)[Len(u) + c] = x
              BY <4>3, <6>1
            <7> QED
              BY <7>1
          <6>2. ASSUME NEW c \in 1 .. Len(u), u[c] = x
                PROVE  \E d \in 1 .. Len(u \o v) : (u \o v)[d] = x
            <7>1. c \in 1 .. Len(u \o v) /\ (u \o v)[c] = x
              BY <4>3, <6>2
            <7> QED
              BY <7>1
          <6> QED
            BY <4>3, <6>1, <6>2
        <5>2. (\E i \in 1 .. k + 1 : \E a \in 1 .. Len(s[i]) : s[i][a] = x) <=>
                  (\E i \in 1 .. k : \E a \in 1 .. Len(s[i]) : s[i][a] = x) \/ (\E c \in 1 .. Len(v) : v[c] = x)
          BY <4>1
        <5> QED
          BY <4>1, <4>2, <5>1, <5>2
      <4>5. ASSUME Distinct(s)
            PROVE  \A c, d \in 1 .. Len(u \o v) : (u \o v)[c] = (u \o v)[d] => c = d
        <5>1. \A c, d \in 1 .. Len(u) : u[c] = u[d] => c = d
          BY <4>1, <4>5
        <5>2. \A c, d \in 1 .. Len(v) : v[c] = v[d] => c = d
          <6>1. k + 1 \in DOMAIN s /\ DOMAIN v = 1 .. Len(v)
            BY <2>1, <2>4, <4>3
          <6> QED
            BY <4>5, <6>1 DEF Distinct
        <5>3. \A c \in 1 .. Len(u), d \in 1 .. Len(v) : u[c] # v[d]
          <6> SUFFICES ASSUME NEW c \in 1 .. Len(u), NEW d \in 1 .. Len(v), u[c] = v[d] PROVE FALSE
            OBVIOUS
          <6>1. PICK i \in 1 .. k : \E a \in 1 .. Len(s[i]) : s[i][a] = u[c]
            BY <4>1
          <6>2. PICK a \in 1 .. Len(s[i]) : s[i][a] = u[c]
            BY <6>1
          <6>3. i \in DOMAIN s /\ k + 1 \in DOMAIN s /\ a \in DOMAIN s[i] /\ d \in DOMAIN s[k + 1]
            <7>1. i \in 1 .. n /\ k + 1 \in 1 .. n
              BY <2>1, <2>4, <4>1
            <7> HIDE DEF Good
            <7> QED
              BY <2>1, <4>3, <6>2, <7>1, SMTT(60)
          <6>4. i = k + 1
            BY <4>5, <6>2, <6>3 DEF Distinct
          <6> QED
            BY <6>4
        <5> HIDE DEF u, v
        <5>4. ASSUME NEW c \in 1 .. Len(u \o v), NEW d \in 1 .. Len(u \o v), (u \o v)[c] = (u \o v)[d]
              PROVE  c = d
          <6>1. CASE c \in 1 .. Len(u) /\ d \in 1 .. Len(u)
            BY <4>3, <5>1, <5>4, <6>1
          <6>2. CASE c \in 1 .. Len(u) /\ d \notin 1 .. Len(u)
            BY <4>3, <5>3, <5>4, <6>2
          <6>3. CASE c \notin 1 .. Len(u) /\ d \in 1 .. Len(u)
            BY <4>3, <5>3, <5>4, <6>3
          <6>4. CASE c \notin 1 .. Len(u) /\ d \notin 1 .. Len(u)
            <7>1. /\ c - Len(u) \in 1 .. Len(v) /\ (u \o v)[c] = v[c - Len(u)]
                  /\ d - Len(u) \in 1 .. Len(v) /\ (u \o v)[d] = v[d - Len(u)]
              BY <4>3, <6>4
            <7>2. c - Len(u) = d - Len(u)
              BY <5>2, <5>4, <7>1
            <7> QED
              BY <4>3, <7>2
          <6> QED
            BY <6>1, <6>2, <6>3, <6>4
        <5> QED
          BY <5>4
      <4> QED
        BY <4>2, <4>3, <4>4, <4>5
    <3> QED
      BY <3>1, <3>2
  <2>5. Good(n)
    <3>1. \A k \in Known : k + 1 \in Known
      <4> HIDE DEF Good
      <4> QED
        BY <2>4
    <3>2. Known = Nat
      <4> HIDE DEF Known
      <4> QED
        BY <2>3, <3>1, FromZero
    <3> HIDE DEF Good
    <3> QED
      BY <2>1, <3>2
  <2>6. \A i \in 1 .. n : DOMAIN s[i] = 1 .. Len(s[i])
    BY <2>1
  <2>7. A!ToSet(f[n]) = Cells(s)
    <3> DEFINE u == f[n]
    <3>1. u \in Seq(X) /\ DOMAIN u = 1 .. Len(u)
      BY <2>5
    <3>2. \A x : (\E c \in DOMAIN u : u[c] = x) <=> \E i \in DOMAIN s : \E a \in DOMAIN s[i] : s[i][a] = x
      BY <2>1, <2>5, <2>6, <3>1, ZenonT(60)
    <3>3. \A x : x \in A!ToSet(u) <=> \E c \in DOMAIN u : u[c] = x
      BY DEF A!ToSet
    <3>4. \A x : x \in Cells(s) <=> \E i \in DOMAIN s : \E a \in DOMAIN s[i] : s[i][a] = x
      BY DEF Cells
    <3> QED
      BY <3>2, <3>3, <3>4
  <2>8. Distinct(s) => A!IsInjective(f[n])
    BY <2>5 DEF A!IsInjective
  <2> QED
    BY <2>2, <2>5, <2>7, <2>8
<1> QED
  BY <1>1, <1>2

\* Rows of w cells, one behind the other.
LEMMA RowsApart ==
  ASSUME NEW i \in Int, NEW j \in Int, NEW w \in Nat, i < j
  PROVE  /\ i * w \in Int /\ j * w \in Int /\ (i + 1) * w \in Int
         /\ i * w + w <= j * w /\ (i + 1) * w = i * w + w
<1>1. (i + 1) * w = i * w + w /\ i * w \in Int /\ j * w \in Int
  OBVIOUS
<1>2. j - (i + 1) \in Nat
  OBVIOUS
<1>3. (j - (i + 1)) * w \in Nat
  BY <1>2
<1>4. (j - (i + 1)) * w = j * w - (i + 1) * w
  OBVIOUS
<1> QED
  BY <1>1, <1>3, <1>4

LEMMA CellsApart ==
  ASSUME NEW i \in Int, NEW j \in Int, NEW w \in Nat, NEW a \in 1 .. w, NEW b \in 1 .. w,
         (i - 1) * w + a = (j - 1) * w + b
  PROVE  i = j /\ a = b
<1>1. (i - 1) * w \in Int /\ (j - 1) * w \in Int
  OBVIOUS
<1>2. ~(i < j)
  <2> SUFFICES ASSUME i < j PROVE FALSE
    OBVIOUS
  <2>1. (i - 1) * w + w <= (j - 1) * w
    BY RowsApart
  <2> QED
    BY <1>1, <2>1
<1>3. ~(j < i)
  <2> SUFFICES ASSUME j < i PROVE FALSE
    OBVIOUS
  <2>1. (j - 1) * w + w <= (i - 1) * w
    BY RowsApart
  <2> QED
    BY <1>1, <2>1
<1>4. i = j
  BY <1>2, <1>3
<1> QED
  BY <1>1, <1>4

LEMMA RowAndCell ==
  ASSUME NEW a \in Nat, NEW b \in Nat \ {0}, NEW r \in 0 .. b - 1
  PROVE  (a * b + r) \div b = a /\ (a * b + r) % b = r
<1> DEFINE x == a * b + r
           q == x \div b
           y == x % b
<1>1. x \in Nat
  OBVIOUS
<1>2. x = b * q + y /\ q \in Int /\ y \in 0 .. b - 1
  <2> HIDE DEF x
  <2> QED
    BY <1>1
<1>3. q + 1 \in Int /\ b \in Nat /\ a + 1 \in Int /\ y + 1 \in 1 .. b /\ r + 1 \in 1 .. b
  BY <1>2
<1>4. ((q + 1) - 1) * b + (y + 1) = ((a + 1) - 1) * b + (r + 1)
  <2>1. (q + 1) - 1 = q /\ (a + 1) - 1 = a /\ q * b = b * q
    BY <1>2
  <2>2. q * b + y = a * b + r /\ q * b \in Int /\ a * b \in Int
    BY <1>2, <2>1
  <2> HIDE DEF q, y, x
  <2> QED
    BY <1>2, <2>1, <2>2
<1> HIDE DEF q, y, x
<1>5. q + 1 = a + 1 /\ y + 1 = r + 1
  <2> DEFINE i == q + 1
             j == a + 1
             c == y + 1
             d == r + 1
  <2>1. i \in Int /\ j \in Int /\ b \in Nat /\ c \in 1 .. b /\ d \in 1 .. b
        /\ (i - 1) * b + c = (j - 1) * b + d
    BY <1>3, <1>4
  <2> HIDE DEF i, j, c, d
  <2>2. i = j /\ c = d
    BY <2>1, CellsApart
  <2> QED
    BY <2>2 DEF i, j, c, d
<1> QED
  BY <1>2, <1>5 DEF q, y, x

\* Rows of the same length, flattened.
LEMMA FlattenedRows ==
  ASSUME NEW X, NEW n \in Nat \ {0}, NEW w \in Nat, NEW s, Len(s) = n,
         \A i \in 1 .. n : s[i] \in Seq(X) /\ Len(s[i]) = w
  PROVE  /\ A!FlattenSeq(s) \in Seq(X) /\ Len(A!FlattenSeq(s)) = n * w
         /\ \A i \in 1 .. n, o \in 1 .. w : A!FlattenSeq(s)[(i - 1) * w + o] = s[i][o]
<1>1. PICK f : Flattening(s, f, n) /\ A!FlattenSeq(s) = f[n]
  BY FlattensTo
<1> DEFINE Good(k) == /\ f[k] \in Seq(X) /\ Len(f[k]) = k * w
                      /\ \A i \in 1 .. k, o \in 1 .. w : f[k][(i - 1) * w + o] = s[i][o]
           Known == {k \in Nat : k \in 1 .. n => Good(k)}
<1>2. 0 \in Known /\ Known \in SUBSET Nat
  OBVIOUS
<1>3. ASSUME NEW k \in Nat, k \in 1 .. n => Good(k), k + 1 \in 1 .. n PROVE Good(k + 1)
  <2>1. CASE k = 0
    <3>1. f[1] = s[1]
      BY <1>1, FlattensStep
    <3>2. /\ s[1] \in Seq(X) /\ Len(s[1]) = w /\ 1 * w = w
      BY <1>3, <2>1
    <3>3. \A i \in 1 .. 1, o \in 1 .. w : s[1][(i - 1) * w + o] = s[i][o]
      <4> SUFFICES ASSUME NEW i \in 1 .. 1, NEW o \in 1 .. w PROVE s[1][(i - 1) * w + o] = s[i][o]
        OBVIOUS
      <4>1. i = 1 /\ (1 - 1) * w = 0 /\ 0 + o = o
        OBVIOUS
      <4> QED
        BY <4>1
    <3> QED
      BY <2>1, <3>1, <3>2, <3>3
  <2>2. CASE k # 0
    <3>1. k \in 1 .. n /\ k # n /\ n \in Nat
      BY <1>3, <2>2
    <3>2. Good(k)
      BY <1>3, <3>1
    <3>3. f[k + 1] = f[k] \o s[k + 1]
      <4> HIDE DEF Good
      <4> QED
        BY <1>1, <3>1, FlattensStep DEF Extended
    <3> DEFINE u == f[k]
               v == s[k + 1]
    <3>4. u \in Seq(X) /\ v \in Seq(X) /\ Len(u) = k * w /\ Len(v) = w
      BY <1>3, <3>2
    <3>5. k * w \in Int /\ (k + 1) * w = k * w + w
      OBVIOUS
    <3> HIDE DEF u, v
    <3>6. /\ u \o v \in Seq(X) /\ Len(u \o v) = (k + 1) * w
          /\ \A c \in 1 .. k * w : (u \o v)[c] = u[c]
      <4> DEFINE z == k * w
      <4>1. z \in Int /\ (k + 1) * w = z + w /\ Len(u) = z
        BY <3>4, <3>5
      <4> HIDE DEF z
      <4>2. u \o v \in Seq(X) /\ Len(u \o v) = z + w /\ \A c \in 1 .. z : (u \o v)[c] = u[c]
        <5>1. u \o v \in Seq(X) /\ Len(u \o v) = z + w
          BY <3>4, <4>1, SMTT(60)
        <5>2. \A c \in 1 .. z : (u \o v)[c] = u[c]
          BY <3>4, <4>1
        <5> QED
          BY <5>1, <5>2
      <4> QED
        BY <4>1, <4>2 DEF z
    <3>7. ASSUME NEW c \in 1 .. w PROVE (u \o v)[k * w + c] = v[c]
      BY <3>4, <3>5
    <3>8. ASSUME NEW i \in 1 .. k + 1, NEW o \in 1 .. w
          PROVE  (u \o v)[(i - 1) * w + o] = s[i][o]
      <4>1. CASE i = k + 1
        <5>1. i - 1 = k
          BY <4>1
        <5> QED
          BY <3>7, <4>1, <5>1 DEF v
      <4>2. CASE i # k + 1
        <5>1. i \in 1 .. k /\ i - 1 \in Nat /\ i - 1 < k
          BY <4>2
        <5>2. (i - 1) * w \in Nat /\ (i - 1) * w + w <= k * w
          BY <5>1, RowsApart
        <5>3. (i - 1) * w + o \in 1 .. k * w
          BY <3>5, <5>2, SMTT(60)
        <5>4. u[(i - 1) * w + o] = s[i][o]
          BY <3>2, <5>1 DEF u
        <5> QED
          BY <3>6, <5>3, <5>4
      <4> QED
        BY <4>1, <4>2
    <3> QED
      BY <3>3, <3>6, <3>8, ZenonT(60) DEF u, v
  <2> QED
    BY <2>1, <2>2
<1>4. \A k \in Known : k + 1 \in Known
  <2> HIDE DEF Good
  <2> QED
    BY <1>3
<1>5. Known = Nat
  <2> HIDE DEF Known
  <2> QED
    BY <1>2, <1>4, FromZero
<1>6. Good(n)
  <2> HIDE DEF Good
  <2> QED
    BY <1>5
<1> QED
  BY <1>1, <1>6

LEMMA Sizes == \A R : A!Cardinality(R) = Cardinality(R)
BY DEF A!Cardinality, Cardinality, A!IsFiniteSet, IsFiniteSet

\* SetToSeq numbers the elements of a finite set.
LEMMA Enumerates ==
  ASSUME NEW R, IsFiniteSet(R)
  PROVE  /\ A!SetToSeq(R) \in Seq(R)
         /\ \A i, j \in DOMAIN A!SetToSeq(R) : A!SetToSeq(R)[i] = A!SetToSeq(R)[j] => i = j
         /\ \A x \in R : \E i \in DOMAIN A!SetToSeq(R) : A!SetToSeq(R)[i] = x
<1> DEFINE n == Cardinality(R)
           e == A!SetToSeq(R)
<1>1. n \in Nat /\ ExistsBijection(1 .. n, R)
  BY FS_CardinalityType
<1>2. PICK b \in Bijection(1 .. n, R) : TRUE
  BY <1>1 DEF ExistsBijection
<1>3. b \in [1 .. n -> R] /\ \A i, j \in 1 .. n : b[i] = b[j] => i = j
  BY <1>2 DEF Bijection, Injection, Surjection, IsInjective
<1>4. A!IsInjective(b)
  BY <1>3 DEF A!IsInjective
<1>5. e \in [1 .. n -> R] /\ A!IsInjective(e)
  <2>1. e = CHOOSE f \in [1 .. n -> R] : A!IsInjective(f)
    BY Sizes DEF A!SetToSeq
  <2> HIDE DEF e, n
  <2> QED
    BY <1>3, <1>4, <2>1
<1> HIDE DEF e, n
<1>6. \A i, j \in 1 .. n : e[i] = e[j] => i = j
  BY <1>5 DEF A!IsInjective
<1>7. e \in Injection(1 .. n, R)
  BY <1>5, <1>6 DEF Injection, IsInjective
<1>8. Cardinality(1 .. n) = n
  BY <1>1, FS_Interval
<1>9. e \in Surjection(1 .. n, R)
  BY <1>7, <1>8, FS_Injection DEF n
<1>10. \A x \in R : \E i \in 1 .. n : e[i] = x
  BY <1>9 DEF Surjection
<1>11. e \in Seq(R) /\ DOMAIN e = 1 .. n
  BY <1>1, <1>5
<1> QED
  BY <1>6, <1>10, <1>11 DEF e

\* The i-th lowest bit of a mask is the bit with i - 1 bits below it.
LEMMA LowestBits ==
  ASSUME NEW R \in SUBSET Nat, IsFiniteSet(R)
  PROVE  /\ A!FromLowestBit(R) \in Seq(R)
         /\ \A i, j \in DOMAIN A!FromLowestBit(R) : A!FromLowestBit(R)[i] = A!FromLowestBit(R)[j] => i = j
         /\ \A x \in R : \E i \in DOMAIN A!FromLowestBit(R) : A!FromLowestBit(R)[i] = x
<1> DEFINE n == Cardinality(R)
           Below(x) == {y \in R : y < x}
           rank == [x \in R |-> Cardinality(Below(x)) + 1]
           b == A!FromLowestBit(R)
<1>1. n \in Nat
  BY FS_CardinalityType
<1>2. ASSUME NEW x \in R
      PROVE  IsFiniteSet(Below(x)) /\ Cardinality(Below(x)) \in 0 .. n - 1
  <2>1. Below(x) \in SUBSET (R \ {x}) /\ IsFiniteSet(R \ {x}) /\ Cardinality(R \ {x}) = n - 1
    <3>1. x \in Nat
      OBVIOUS
    <3>2. Below(x) \in SUBSET (R \ {x})
      BY <3>1
    <3>3. IsFiniteSet(R \ {x}) /\ Cardinality(R \ {x}) = n - 1
      BY <1>2, FS_RemoveElement
    <3> HIDE DEF Below, n
    <3> QED
      BY <3>2, <3>3
  <2> QED
    BY <1>1, <2>1, FS_Subset, FS_CardinalityType
<1>3. ASSUME NEW x \in R, NEW y \in R, x < y
      PROVE  Cardinality(Below(x)) < Cardinality(Below(y))
  <2>1. Below(x) \cup {x} \in SUBSET Below(y) /\ x \notin Below(x)
    <3>1. \A q \in R : q \in Nat
      OBVIOUS
    <3>2. \A q \in R : q < x => q < y
      BY <1>3, <3>1
    <3>3. \A q : q \in Below(x) <=> q \in R /\ q < x
      OBVIOUS
    <3>4. \A q : q \in Below(y) <=> q \in R /\ q < y
      OBVIOUS
    <3>5. ~(x < x)
      BY <3>1
    <3> HIDE DEF Below
    <3> QED
      BY <1>3, <3>2, <3>3, <3>4, <3>5
  <2>2. Cardinality(Below(x) \cup {x}) = Cardinality(Below(x)) + 1
    BY <1>2, <2>1, FS_AddElement
  <2>3. Cardinality(Below(x) \cup {x}) <= Cardinality(Below(y))
    BY <1>2, <2>1, FS_Subset
  <2> QED
    BY <1>2, <2>2, <2>3
<1>4. rank \in [R -> 1 .. n]
  <2> SUFFICES ASSUME NEW x \in R PROVE Cardinality(Below(x)) + 1 \in 1 .. n
    OBVIOUS
  <2> HIDE DEF n, Below
  <2> QED
    BY <1>1, <1>2
<1>5. \A x, y \in R : rank[x] = rank[y] => x = y
  <2> SUFFICES ASSUME NEW x \in R, NEW y \in R, rank[x] = rank[y], x # y PROVE FALSE
    OBVIOUS
  <2>1. Cardinality(Below(x)) = Cardinality(Below(y))
    BY <1>2
  <2>2. x < y \/ y < x
    OBVIOUS
  <2>3. Cardinality(Below(x)) \in Nat
    BY <1>2
  <2> HIDE DEF Below
  <2> QED
    BY <1>3, <2>1, <2>2, <2>3
<1>6. rank \in Surjection(R, 1 .. n)
  <2>1. rank \in Injection(R, 1 .. n)
    BY <1>4, <1>5 DEF Injection, IsInjective
  <2>2. IsFiniteSet(1 .. n) /\ Cardinality(1 .. n) = n
    BY <1>1, FS_Interval
  <2> HIDE DEF rank
  <2> QED
    BY <2>1, <2>2, FS_Injection
<1>7. \A i \in 1 .. n : \E x \in R : Cardinality(Below(x)) = i - 1
  <2> SUFFICES ASSUME NEW i \in 1 .. n PROVE \E x \in R : Cardinality(Below(x)) = i - 1
    OBVIOUS
  <2>1. PICK x \in R : rank[x] = i
    BY <1>6 DEF Surjection
  <2>2. Cardinality(Below(x)) = i - 1
    BY <1>2, <2>1
  <2> QED
    BY <2>2
<1>8. b = [i \in 1 .. A!Cardinality(R) |-> CHOOSE x \in R : A!Cardinality(Below(x)) = i - 1]
  BY DEF A!FromLowestBit
<1> HIDE DEF b, Below
<1>9. \A i \in 1 .. n : b[i] \in R /\ Cardinality(Below(b[i])) = i - 1
  BY <1>7, <1>8, Sizes
<1>10. b \in Seq(R) /\ DOMAIN b = 1 .. n
  <2>1. b = [i \in 1 .. n |-> b[i]]
    BY <1>8, Sizes
  <2> HIDE DEF n
  <2> QED
    BY <1>1, <1>9, <2>1
<1>11. \A i, j \in 1 .. n : b[i] = b[j] => i = j
  BY <1>1, <1>9
<1>12. ASSUME NEW x \in R PROVE \E i \in 1 .. n : b[i] = x
  <2> DEFINE i == Cardinality(Below(x)) + 1
  <2>1. i \in 1 .. n /\ Cardinality(Below(x)) = i - 1
    BY <1>1, <1>2
  <2>2. b[i] \in R /\ Cardinality(Below(b[i])) = i - 1
    BY <1>9, <2>1
  <2>3. rank[b[i]] = rank[x]
    BY <1>2, <2>1, <2>2
  <2>4. b[i] = x
    BY <1>5, <2>2, <2>3
  <2> QED
    BY <2>1, <2>4
<1> QED
  BY <1>10, <1>11, <1>12 DEF b

----------------------------------------------------------------------------
\* What the constructors collect: the processors below d, each in the list of
\* the core it is known by.
IdSet == [physical : Int, core : Int]

KnownBy(m, p) ==
    CASE m.reports = "core" -> A!CoreID(A!CoreOf(m, p).package, A!CoreOf(m, p).core)
      [] m.reports = "package" -> A!CoreID(A!CoreOf(m, p).package, -1)
      [] m.reports = "thread" -> A!CoreID(A!CoreOf(m, p).package * CoreIds + A!CoreOf(m, p).core, 0)
      [] OTHER -> A!CoreID(0, p)

Collected(m, list, index, d) ==
    /\ list \in Seq(Seq(Nat)) /\ index \in Seq(IdSet) /\ Len(index) = Len(list)
    /\ \A i, j \in DOMAIN index : index[i] = index[j] => i = j
    /\ Distinct(list) /\ Cells(list) = 0 .. d - 1
    /\ \A i \in DOMAIN list : \A a \in DOMAIN list[i] : index[i] = KnownBy(m, list[i][a])

\* list with x behind the last of its k-th sequence.
Extends(list, new, k, x) ==
    /\ new \in Seq(Seq(Nat)) /\ k \in DOMAIN new
    /\ \E z \in DOMAIN new[k] :
          /\ new[k][z] = x
          /\ \A i \in DOMAIN new : \A a \in DOMAIN new[i] :
                \/ i = k /\ a = z
                \/ i \in DOMAIN list /\ a \in DOMAIN list[i] /\ new[i][a] = list[i][a]
    /\ \A i \in DOMAIN list : \A a \in DOMAIN list[i] :
          i \in DOMAIN new /\ a \in DOMAIN new[i] /\ new[i][a] = list[i][a]

LEMMA ExtendsCells ==
  ASSUME NEW list, NEW new, NEW k, NEW d \in Nat, Extends(list, new, k, d),
         Distinct(list), Cells(list) = 0 .. d - 1
  PROVE  Distinct(new) /\ Cells(new) = 0 .. d
<1>1. \A i \in DOMAIN list : \A a \in DOMAIN list[i] : list[i][a] \in 0 .. d - 1 /\ list[i][a] # d
  BY DEF Cells
<1>2. PICK z \in DOMAIN new[k] :
         /\ new[k][z] = d
         /\ \A i \in DOMAIN new : \A a \in DOMAIN new[i] :
               \/ i = k /\ a = z
               \/ i \in DOMAIN list /\ a \in DOMAIN list[i] /\ new[i][a] = list[i][a]
  BY DEF Extends
<1>3. Distinct(new)
  BY <1>1, <1>2 DEF Distinct
<1>4. ASSUME NEW x \in Cells(new) PROVE x \in 0 .. d
  BY <1>1, <1>2, <1>4 DEF Cells
<1>5. ASSUME NEW x \in 0 .. d PROVE x \in Cells(new)
  <2>1. CASE x = d
    BY <1>2, <2>1 DEF Cells, Extends
  <2>2. CASE x # d
    <3>1. x \in Cells(list)
      BY <2>2
    <3> QED
      BY <3>1 DEF Cells, Extends
  <2> QED
    BY <2>1, <2>2
<1> QED
  BY <1>3, <1>4, <1>5

LEMMA SameIds ==
  ASSUME NEW x \in IdSet, NEW y \in IdSet, x.physical = y.physical, x.core = y.core
  PROVE  x = y
BY DEF IdSet

LEMMA Joins ==
  ASSUME NEW m, NEW list, NEW index, NEW d \in Nat, Collected(m, list, index, d),
         NEW c, c.logicalProcessor = d, c.coreIDToIndex = index,
         A!Identified(c) = KnownBy(m, d), KnownBy(m, d) \in IdSet
  PROVE  Collected(m, A!Join(c, list).cores, A!Join(c, list).index, d + 1)
<1> DEFINE id == KnownBy(m, d)
           known == {i \in DOMAIN index : A!SameCore(index[i], id)}
           n == Len(list)
<1>1. /\ list \in Seq(Seq(Nat)) /\ index \in Seq(IdSet) /\ n \in Nat /\ DOMAIN list = 1 .. n /\ DOMAIN index = 1 .. n
      /\ id \in IdSet /\ Len(index) = n
  BY DEF Collected
<1>2. \A i \in DOMAIN index : i \in known <=> index[i] = id
  <2> SUFFICES ASSUME NEW i \in DOMAIN index PROVE i \in known <=> index[i] = id
    OBVIOUS
  <2>1. index[i] \in IdSet /\ id \in IdSet
    BY <1>1
  <2> HIDE DEF id
  <2>2. index[i].physical = id.physical /\ index[i].core = id.core => index[i] = id
    BY <2>1, SameIds
  <2> QED
    BY <2>2 DEF A!SameCore
<1> HIDE DEF id, n
<1>3. CASE known = {}
  <2> DEFINE ind == Append(index, id)
             new == Append(list, <<d>>)
  <2>1. A!Join(c, list) = [index |-> ind, cores |-> new]
    BY <1>3 DEF A!Join, id
  <2>2. /\ new \in Seq(Seq(Nat)) /\ ind \in Seq(IdSet) /\ Len(ind) = n + 1 /\ Len(new) = n + 1
        /\ \A i \in 1 .. n : new[i] = list[i] /\ ind[i] = index[i]
        /\ new[n + 1] = <<d>> /\ ind[n + 1] = id
    BY <1>1
  <2> HIDE DEF ind, new
  <2>3. DOMAIN new = 1 .. n + 1 /\ DOMAIN ind = 1 .. n + 1 /\ DOMAIN new[n + 1] = {1} /\ new[n + 1][1] = d
    BY <1>1, <2>2
  <2>4. Extends(list, new, n + 1, d)
    BY <1>1, <2>2, <2>3 DEF Extends
  <2>5. Distinct(new) /\ Cells(new) = 0 .. d
    BY <2>4, ExtendsCells DEF Collected
  <2>6. \A i, j \in DOMAIN ind : ind[i] = ind[j] => i = j
    <3>1. \A i \in 1 .. n : index[i] # id
      BY <1>1, <1>2, <1>3
    <3>2. \A i, j \in 1 .. n : index[i] = index[j] => i = j
      BY <1>1 DEF Collected
    <3>3. \A i \in 1 .. n + 1 : i \in 1 .. n \/ i = n + 1
      BY <1>1
    <3> SUFFICES ASSUME NEW i \in 1 .. n + 1, NEW j \in 1 .. n + 1, ind[i] = ind[j] PROVE i = j
      BY <2>3
    <3>4. CASE i = n + 1 /\ j # n + 1
      BY <2>2, <3>1, <3>3, <3>4
    <3>5. CASE i # n + 1 /\ j = n + 1
      BY <2>2, <3>1, <3>3, <3>5
    <3>6. CASE i # n + 1 /\ j # n + 1
      BY <2>2, <3>2, <3>3, <3>6
    <3> QED
      BY <3>4, <3>5, <3>6
  <2>7. ASSUME NEW i \in DOMAIN new, NEW a \in DOMAIN new[i] PROVE ind[i] = KnownBy(m, new[i][a])
    <3>1. CASE i = n + 1
      BY <2>2, <2>3, <3>1 DEF id
    <3>2. CASE i # n + 1
      <4>1. i \in DOMAIN list /\ new[i] = list[i] /\ ind[i] = index[i]
        BY <1>1, <2>2, <2>3, <3>2
      <4> QED
        BY <4>1 DEF Collected
    <3> QED
      BY <3>1, <3>2
  <2>8. Cells(new) = 0 .. (d + 1) - 1
    BY <2>5
  <2> QED
    BY <2>1, <2>2, <2>5, <2>6, <2>7, <2>8 DEF Collected
<1>4. CASE known # {}
  <2> DEFINE k == CHOOSE i \in known : TRUE
             new == [list EXCEPT ![k] = Append(@, d)]
  <2>1. A!Join(c, list) = [index |-> index, cores |-> new]
    BY <1>4 DEF A!Join, id
  <2>2. k \in 1 .. n /\ index[k] = id
    BY <1>1, <1>2, <1>4
  <2> HIDE DEF k
  <2>3. list[k] \in Seq(Nat) /\ Append(list[k], d) \in Seq(Nat)
    BY <1>1, <2>2
  <2>4. /\ new \in Seq(Seq(Nat)) /\ Len(new) = n /\ DOMAIN new = 1 .. n
        /\ new[k] = Append(list[k], d) /\ \A i \in 1 .. n : i # k => new[i] = list[i]
    BY <1>1, <2>2, <2>3 DEF n
  <2> HIDE DEF new
  <2> DEFINE z == Len(list[k]) + 1
  <2>5. /\ z \in Nat /\ z > 0 /\ DOMAIN list[k] = 1 .. z - 1 /\ DOMAIN new[k] = 1 .. z /\ new[k][z] = d
        /\ \A a \in 1 .. z - 1 : new[k][a] = list[k][a]
    BY <2>3, <2>4
  <2> HIDE DEF z
  <2>6. Extends(list, new, k, d)
    <3>1. \A i \in DOMAIN new : \A a \in DOMAIN new[i] :
             \/ i = k /\ a = z
             \/ i \in DOMAIN list /\ a \in DOMAIN list[i] /\ new[i][a] = list[i][a]
      <4> SUFFICES ASSUME NEW i \in DOMAIN new, NEW a \in DOMAIN new[i], ~(i = k /\ a = z)
                   PROVE  i \in DOMAIN list /\ a \in DOMAIN list[i] /\ new[i][a] = list[i][a]
        OBVIOUS
      <4>1. CASE i = k
        <5>1. a \in 1 .. z - 1
          BY <2>5, <4>1
        <5> QED
          BY <1>1, <2>2, <2>5, <4>1, <5>1
      <4>2. CASE i # k
        BY <1>1, <2>4, <4>2
      <4> QED
        BY <4>1, <4>2
    <3>2. z \in DOMAIN new[k]
      BY <2>5
    <3>3. \A i \in DOMAIN list : \A a \in DOMAIN list[i] :
             i \in DOMAIN new /\ a \in DOMAIN new[i] /\ new[i][a] = list[i][a]
      <4> SUFFICES ASSUME NEW i \in DOMAIN list, NEW a \in DOMAIN list[i]
                   PROVE  i \in DOMAIN new /\ a \in DOMAIN new[i] /\ new[i][a] = list[i][a]
        OBVIOUS
      <4>1. CASE i = k
        <5>1. a \in 1 .. z - 1 /\ a \in 1 .. z
          BY <2>5, <4>1
        <5> QED
          BY <1>1, <2>2, <2>4, <2>5, <4>1, <5>1
      <4>2. CASE i # k
        BY <1>1, <2>4, <4>2
      <4> QED
        BY <4>1, <4>2
    <3> QED
      BY <2>2, <2>4, <2>5, <3>1, <3>2, <3>3 DEF Extends
  <2>7. Distinct(new) /\ Cells(new) = 0 .. d
    BY <2>6, ExtendsCells DEF Collected
  <2>8. ASSUME NEW i \in DOMAIN new, NEW a \in DOMAIN new[i] PROVE index[i] = KnownBy(m, new[i][a])
    <3>1. CASE i = k /\ a = z
      BY <2>2, <2>5, <3>1 DEF id
    <3>2. CASE ~(i = k /\ a = z)
      <4>1. i \in DOMAIN list /\ a \in DOMAIN list[i] /\ new[i][a] = list[i][a]
        <5>1. CASE i = k
          <6>1. a \in 1 .. z - 1
            BY <2>5, <2>8, <3>2, <5>1
          <6> QED
            BY <1>1, <2>2, <2>5, <5>1, <6>1
        <5>2. CASE i # k
          BY <1>1, <2>4, <2>8, <5>2
        <5> QED
          BY <5>1, <5>2
      <4> QED
        BY <4>1 DEF Collected
    <3> QED
      BY <3>1, <3>2
  <2>9. Cells(new) = 0 .. (d + 1) - 1
    BY <2>7
  <2> QED
    BY <1>1, <2>1, <2>4, <2>7, <2>8, <2>9 DEF Collected
<1> QED
  BY <1>3, <1>4

----------------------------------------------------------------------------
\* The machines Init chooses from.
Cpu == [package : Nat, core : 0 .. CoreIds - 1]

MachineOk(p, m) ==
    /\ p \in A!Platforms /\ m.reports \in A!Reports(p)
    /\ m.cpus \in Seq(Cpu) /\ Len(m.cpus) \in Nat \ {0}
    /\ m.allowed \subseteq A!Processors(m)
    /\ \A q \in A!Processors(m) : Cardinality(A!Siblings(m, q)) \in 0 .. HWThreadIds - 1

LEMMA ProcessorFacts ==
  ASSUME A!AffinityAssumption, NEW p, NEW m, MachineOk(p, m), NEW q \in A!Processors(m)
  PROVE  /\ q \in Nat /\ A!CoreOf(m, q) = m.cpus[q + 1] /\ A!CoreOf(m, q) \in Cpu
         /\ A!CoreOf(m, q).package \in Nat /\ A!CoreOf(m, q).core \in 0 .. CoreIds - 1
         /\ CoreIds \in Nat \ {0} /\ HWThreadIds \in Nat \ {0}
         /\ KnownBy(m, q) \in IdSet
<1>1. q \in 0 .. Len(m.cpus) - 1 /\ Len(m.cpus) \in Nat /\ m.cpus \in Seq(Cpu)
  BY DEF MachineOk, A!Processors
<1>2. q + 1 \in 1 .. Len(m.cpus)
  BY <1>1
<1>3. m.cpus[q + 1] \in Cpu
  BY <1>1, <1>2
<1>4. CoreIds \in Nat \ {0} /\ HWThreadIds \in Nat \ {0}
  BY DEF A!AffinityAssumption
<1>5. A!CoreOf(m, q) = m.cpus[q + 1]
  BY DEF A!CoreOf
<1>6. A!CoreOf(m, q).package \in Nat /\ A!CoreOf(m, q).core \in 0 .. CoreIds - 1
  BY <1>3, <1>5 DEF Cpu
<1>7. KnownBy(m, q) \in IdSet
  <2>1. A!CoreOf(m, q).package * CoreIds + A!CoreOf(m, q).core \in Int
    BY <1>4, <1>6
  <2>2. A!CoreOf(m, q).package \in Int /\ A!CoreOf(m, q).core \in Int /\ q \in Int
    BY <1>1, <1>6
  <2> QED
    BY <2>1, <2>2 DEF KnownBy, IdSet, A!CoreID
<1> QED
  BY <1>1, <1>3, <1>4, <1>5, <1>6, <1>7

\* Who is known by the same is part of the same core, where cores are told.
LEMMA KnownCores ==
  ASSUME A!AffinityAssumption, NEW p, NEW m, MachineOk(p, m), m.reports \in {"core", "thread"},
         NEW q \in A!Processors(m), NEW r \in A!Processors(m)
  PROVE  KnownBy(m, q) = KnownBy(m, r) <=> A!CoreOf(m, q) = A!CoreOf(m, r)
<1> DEFINE x == A!CoreOf(m, q)
           y == A!CoreOf(m, r)
<1>1. /\ x \in Cpu /\ x.package \in Nat /\ x.core \in 0 .. CoreIds - 1
      /\ y \in Cpu /\ y.package \in Nat /\ y.core \in 0 .. CoreIds - 1
      /\ CoreIds \in Nat
  BY ProcessorFacts
<1>2. x.package = y.package /\ x.core = y.core => x = y
  <2> HIDE DEF x, y
  <2> QED
    BY <1>1 DEF Cpu
<1>3. CASE m.reports = "core"
  <2>1. KnownBy(m, q) = A!CoreID(x.package, x.core) /\ KnownBy(m, r) = A!CoreID(y.package, y.core)
    BY <1>3 DEF KnownBy
  <2> HIDE DEF x, y
  <2>2. KnownBy(m, q) = KnownBy(m, r) <=> x = y
    BY <1>2, <2>1 DEF A!CoreID
  <2> QED
    BY <2>2 DEF x, y
<1>4. CASE m.reports = "thread"
  <2>1. /\ KnownBy(m, q) = A!CoreID(x.package * CoreIds + x.core, 0)
        /\ KnownBy(m, r) = A!CoreID(y.package * CoreIds + y.core, 0)
    BY <1>4 DEF KnownBy
  <2> HIDE DEF x, y
  <2>2. ASSUME x.package * CoreIds + x.core = y.package * CoreIds + y.core PROVE x = y
    <3> DEFINE i == x.package + 1
               j == y.package + 1
               a == x.core + 1
               b == y.core + 1
    <3>1. /\ i \in Int /\ j \in Int /\ a \in 1 .. CoreIds /\ b \in 1 .. CoreIds
          /\ i - 1 = x.package /\ j - 1 = y.package
      BY <1>1
    <3>2. (i - 1) * CoreIds + a = (j - 1) * CoreIds + b
      <4>1. x.package * CoreIds \in Int /\ y.package * CoreIds \in Int
        BY <1>1
      <4> QED
        BY <1>1, <2>2, <3>1, <4>1, SMTT(60)
    <3> HIDE DEF i, j, a, b
    <3>3. i = j /\ a = b
      BY <1>1, <3>1, <3>2, CellsApart
    <3>4. x.package = y.package /\ x.core = y.core
      BY <1>1, <3>3 DEF i, j, a, b
    <3> QED
      BY <1>2, <3>4
  <2>3. KnownBy(m, q) = KnownBy(m, r) <=> x = y
    BY <2>1, <2>2 DEF A!CoreID
  <2> QED
    BY <2>3 DEF x, y
<1> QED
  BY <1>3, <1>4

\* FreeBSD: what getTopology makes of an APIC id.
LEMMA TopologyKnown ==
  ASSUME A!AffinityAssumption, NEW m, MachineOk("FreeBSD", m), NEW q \in A!Processors(m),
         NEW c, c.logicalProcessor = q, c.coreID = A!getTopology(m, q)
  PROVE  A!Identified(c) = KnownBy(m, q)
<1> DEFINE x == A!CoreOf(m, q)
           level == x.package * CoreIds + x.core
<1>1. /\ x.package \in Nat /\ x.core \in 0 .. CoreIds - 1
      /\ CoreIds \in Nat \ {0} /\ HWThreadIds \in Nat \ {0} /\ q \in Nat
  BY ProcessorFacts
<1>2. Cardinality(A!Siblings(m, q)) \in 0 .. HWThreadIds - 1
  BY DEF MachineOk
<1> HIDE DEF x
<1>3. level \in Nat
  BY <1>1
<1>4. A!ApicId(m, q) = level * HWThreadIds + Cardinality(A!Siblings(m, q))
  BY Sizes DEF A!ApicId, x
<1>5. A!ApicId(m, q) \div HWThreadIds = level
  <2> HIDE DEF level
  <2> QED
    BY <1>1, <1>2, <1>3, <1>4, RowAndCell
<1>6. level \div CoreIds = x.package /\ level % CoreIds = x.core
  BY <1>1, RowAndCell
<1>7. m.reports \in {"core", "thread", "none"}
  BY DEF MachineOk, A!Reports
<1> HIDE DEF level
<1>8. CASE m.reports = "core"
  <2>1. c.coreID = A!CoreID(x.package, x.core)
    BY <1>5, <1>6, <1>8 DEF A!getTopology
  <2>2. ~(x.package < 0)
    BY <1>1
  <2>3. A!Identified(c) = A!CoreID(x.package, x.core)
    BY <2>1, <2>2 DEF A!Identified, A!CoreID
  <2> QED
    BY <1>8, <2>3 DEF KnownBy, x
<1>9. CASE m.reports = "thread"
  <2>1. c.coreID = A!CoreID(level, 0)
    BY <1>5, <1>9 DEF A!getTopology
  <2>2. ~(level < 0)
    BY <1>3
  <2>3. A!Identified(c) = A!CoreID(level, 0)
    BY <2>1, <2>2 DEF A!Identified, A!CoreID
  <2> QED
    BY <1>9, <2>3 DEF KnownBy, level, x
<1>10. CASE m.reports = "none"
  <2>1. c.coreID = A!CoreID(-1, -1)
    BY <1>10 DEF A!getTopology, A!NoCoreID
  <2>2. A!Identified(c) = A!CoreID(0, q)
    BY <2>1 DEF A!Identified, A!CoreID
  <2> QED
    BY <1>10, <2>2 DEF KnownBy
<1> QED
  BY <1>7, <1>8, <1>9, <1>10

\* Linux: /proc/cpuinfo has as many lines for every processor.
LinesEach(m) == CASE m.reports = "none" -> 1 [] m.reports = "package" -> 2 [] OTHER -> 3

Line(m, p, o) ==
    IF o = 1 THEN <<"processor", p - 1>>
    ELSE IF o = 2 THEN <<"physical id", m.cpus[p].package>> ELSE <<"core id", m.cpus[p].core>>

Lines == {"processor", "physical id", "core id"} \X Nat

LEMMA Lists ==
  ASSUME NEW X, NEW x \in X, NEW y \in X, NEW z \in X
  PROVE  (<<x>> \o <<y>>) \o <<>> = <<x, y>> /\ (<<x>> \o <<y>>) \o <<z>> = <<x, y, z>>
<1>1. <<x>> \o <<y>> = <<x, y>>
  <2>1. /\ <<x>> \o <<y>> \in Seq(X) /\ Len(<<x>> \o <<y>>) = 2
        /\ (<<x>> \o <<y>>)[1] = x /\ (<<x>> \o <<y>>)[2] = y
    OBVIOUS
  <2>2. /\ <<x, y>> \in Seq(X) /\ Len(<<x, y>>) = 2 /\ <<x, y>>[1] = x /\ <<x, y>>[2] = y
    OBVIOUS
  <2> DEFINE u == <<x>> \o <<y>>
             v == <<x, y>>
  <2> HIDE DEF u, v
  <2>3. \A i \in 1 .. Len(u) : i = 1 \/ i = 2
    BY <2>1 DEF u
  <2>4. \A i \in 1 .. Len(u) : u[i] = v[i]
    BY <2>1, <2>2, <2>3 DEF u, v
  <2>5. u = v
    BY <2>1, <2>2, <2>4, SeqEqual DEF u, v
  <2> QED
    BY <2>5 DEF u, v
<1>2. <<x, y>> \o <<>> = <<x, y>>
  OBVIOUS
<1>3. <<x, y>> \o <<z>> = <<x, y, z>>
  <2>1. /\ <<x, y>> \o <<z>> \in Seq(X) /\ Len(<<x, y>> \o <<z>>) = 3
        /\ (<<x, y>> \o <<z>>)[1] = x /\ (<<x, y>> \o <<z>>)[2] = y /\ (<<x, y>> \o <<z>>)[3] = z
    OBVIOUS
  <2>2. /\ <<x, y, z>> \in Seq(X) /\ Len(<<x, y, z>>) = 3
        /\ <<x, y, z>>[1] = x /\ <<x, y, z>>[2] = y /\ <<x, y, z>>[3] = z
    OBVIOUS
  <2> DEFINE u == <<x, y>> \o <<z>>
             v == <<x, y, z>>
  <2> HIDE DEF u, v
  <2>3. \A i \in 1 .. Len(u) : i = 1 \/ i = 2 \/ i = 3
    BY <2>1 DEF u
  <2>4. \A i \in 1 .. Len(u) : u[i] = v[i]
    BY <2>1, <2>2, <2>3 DEF u, v
  <2>5. u = v
    BY <2>1, <2>2, <2>4, SeqEqual DEF u, v
  <2> QED
    BY <2>5 DEF u, v
<1> QED
  BY <1>1, <1>2, <1>3

LEMMA CpuInfoLines ==
  ASSUME A!AffinityAssumption, NEW m, MachineOk("Linux", m)
  PROVE  /\ A!CpuInfo(m) \in Seq(Lines) /\ Len(A!CpuInfo(m)) = Len(m.cpus) * LinesEach(m)
         /\ \A p \in 1 .. Len(m.cpus), o \in 1 .. LinesEach(m) :
                A!CpuInfo(m)[(p - 1) * LinesEach(m) + o] = Line(m, p, o)
<1> DEFINE n == Len(m.cpus)
           w == LinesEach(m)
           of == [i \in 1 .. n |->
                    <<<<"processor", i - 1>>>>
                    \o (IF m.reports = "none" THEN <<>> ELSE <<<<"physical id", m.cpus[i].package>>>>)
                    \o (IF m.reports = "core" THEN <<<<"core id", m.cpus[i].core>>>> ELSE <<>>)]
<1>1. n \in Nat \ {0} /\ m.cpus \in Seq(Cpu) /\ m.reports \in {"core", "package", "none"}
  BY DEF MachineOk, A!Reports
<1>2. w \in Nat /\ w \in 1 .. 3
  BY DEF LinesEach
<1>3. A!CpuInfo(m) = A!FlattenSeq(of)
  BY DEF A!CpuInfo
<1>4. ASSUME NEW i \in 1 .. n
      PROVE  of[i] \in Seq(Lines) /\ Len(of[i]) = w /\ \A o \in 1 .. w : of[i][o] = Line(m, i, o)
  <2>1. m.cpus[i] \in Cpu
    BY <1>1
  <2>2. m.cpus[i].package \in Nat /\ m.cpus[i].core \in Nat
    BY <2>1 DEF Cpu
  <2> DEFINE l1 == <<"processor", i - 1>>
             l2 == <<"physical id", m.cpus[i].package>>
             l3 == <<"core id", m.cpus[i].core>>
  <2>3. l1 \in Lines /\ l2 \in Lines /\ l3 \in Lines
    <3>1. i - 1 \in Nat
      BY <1>1
    <3> QED
      BY <2>2, <3>1 DEF Lines
  <2>4. of[i] = <<l1>> \o (IF m.reports = "none" THEN <<>> ELSE <<l2>>) \o (IF m.reports = "core" THEN <<l3>> ELSE <<>>)
    OBVIOUS
  <2>5. Line(m, i, 1) = l1 /\ Line(m, i, 2) = l2 /\ Line(m, i, 3) = l3
    <3> HIDE DEF of, w, n
    <3>1. Line(m, i, 1) = l1
      BY DEF Line
    <3>2. Line(m, i, 2) = l2
      BY DEF Line
    <3>3. Line(m, i, 3) = l3
      BY DEF Line
    <3> QED
      BY <3>1, <3>2, <3>3
  <2> HIDE DEF l1, l2, l3, of
  <2>6. CASE m.reports = "none"
    <3>1. of[i] = <<l1>> /\ w = 1
      BY <2>4, <2>6 DEF LinesEach
    <3> QED
      BY <2>3, <2>5, <3>1
  <2>7. CASE m.reports = "package"
    <3>1. of[i] = <<l1, l2>> /\ w = 2
      <4>1. of[i] = (<<l1>> \o <<l2>>) \o <<>> /\ w = 2
        BY <2>4, <2>7 DEF LinesEach
      <4> QED
        BY <2>3, <4>1, Lists
    <3> QED
      BY <2>3, <2>5, <3>1
  <2>8. CASE m.reports = "core"
    <3>1. of[i] = <<l1, l2, l3>> /\ w = 3
      <4>1. of[i] = (<<l1>> \o <<l2>>) \o <<l3>> /\ w = 3
        BY <2>4, <2>8 DEF LinesEach
      <4> QED
        BY <2>3, <4>1, Lists
    <3> QED
      BY <2>3, <2>5, <3>1
  <2> QED
    BY <1>1, <2>6, <2>7, <2>8
<1>5. Len(of) = n
  BY <1>1
<1> HIDE DEF of, w, n
<1>6. /\ A!FlattenSeq(of) \in Seq(Lines) /\ Len(A!FlattenSeq(of)) = n * w
      /\ \A i \in 1 .. n, o \in 1 .. w : A!FlattenSeq(of)[(i - 1) * w + o] = of[i][o]
  BY <1>1, <1>2, <1>4, <1>5, FlattenedRows
<1> QED
  BY <1>3, <1>4, <1>6 DEF n, w

\* Win32: a mask for every core.
MaskOf(m, q) == {r \in A!Processors(m) : A!CoreOf(m, r) = A!CoreOf(m, q)}

Masks(m) == {MaskOf(m, q) : q \in A!Processors(m)}

LEMMA MaskFacts ==
  ASSUME NEW p, NEW m, MachineOk(p, m)
  PROVE  /\ \A mask \in Masks(m) : mask \in SUBSET Nat /\ mask \in SUBSET A!Processors(m) /\ IsFiniteSet(mask)
         /\ \A q \in A!Processors(m) : MaskOf(m, q) \in Masks(m) /\ q \in MaskOf(m, q)
         /\ \A mask \in Masks(m) : \A q, r \in A!Processors(m) :
                q \in mask => (r \in mask <=> A!CoreOf(m, r) = A!CoreOf(m, q))
         /\ \A f, g \in Masks(m) : f \cap g # {} => f = g
         /\ A!CoreRecords(m) \in Seq(Masks(m))
         /\ \A i, j \in DOMAIN A!CoreRecords(m) : A!CoreRecords(m)[i] = A!CoreRecords(m)[j] => i = j
         /\ \A mask \in Masks(m) : \E i \in DOMAIN A!CoreRecords(m) : A!CoreRecords(m)[i] = mask
<1>1. A!Processors(m) \in SUBSET Nat /\ IsFiniteSet(A!Processors(m))
  <2>1. Len(m.cpus) - 1 \in Int
    BY DEF MachineOk
  <2> QED
    BY <2>1, FS_Interval DEF A!Processors
<1>2. \A mask \in Masks(m) : mask \in SUBSET A!Processors(m)
  BY DEF Masks, MaskOf
<1>3. \A mask \in Masks(m) : IsFiniteSet(mask)
  BY <1>1, <1>2, FS_Subset
<1>4. IsFiniteSet(Masks(m))
  <2>1. Masks(m) \in SUBSET (SUBSET A!Processors(m))
    BY <1>2
  <2> QED
    BY <1>1, <2>1, FS_SUBSET, FS_Subset
<1>5. A!CoreRecords(m) = A!SetToSeq(Masks(m))
  BY DEF A!CoreRecords, Masks, MaskOf
<1>6. /\ A!CoreRecords(m) \in Seq(Masks(m))
      /\ \A i, j \in DOMAIN A!CoreRecords(m) : A!CoreRecords(m)[i] = A!CoreRecords(m)[j] => i = j
      /\ \A mask \in Masks(m) : \E i \in DOMAIN A!CoreRecords(m) : A!CoreRecords(m)[i] = mask
  BY <1>4, <1>5, Enumerates
<1>7. \A q \in A!Processors(m) : MaskOf(m, q) \in Masks(m) /\ q \in MaskOf(m, q)
  BY DEF Masks, MaskOf
<1>8. \A mask \in Masks(m) : \A q, r \in A!Processors(m) :
         q \in mask => (r \in mask <=> A!CoreOf(m, r) = A!CoreOf(m, q))
  BY DEF Masks, MaskOf
<1>9. ASSUME NEW f \in Masks(m), NEW g \in Masks(m), f \cap g # {} PROVE f = g
  <2>1. PICK q : q \in f /\ q \in g
    BY <1>9
  <2>2. f \in SUBSET A!Processors(m) /\ g \in SUBSET A!Processors(m) /\ q \in A!Processors(m)
    BY <1>2, <2>1
  <2>3. \A r \in A!Processors(m) : r \in f <=> r \in g
    BY <1>8, <2>1, <2>2
  <2> QED
    BY <2>2, <2>3
<1>10. \A mask \in Masks(m) : mask \in SUBSET Nat
  BY <1>1, <1>2
<1> QED
  BY <1>2, <1>3, <1>6, <1>7, <1>8, <1>9, <1>10

----------------------------------------------------------------------------
\* The inductive invariant: how far each constructor is, and what it leaves.

\* The last line read was line o of processor n - 1, whose core is not yet
\* looked up; at the beginning n is 0.
LinuxScan(n, o) ==
    /\ o = LinesEach(machine) \/ n > 0
    /\ input \in Seq(Lines)
    /\ Len(input) = Len(machine.cpus) * LinesEach(machine) - ((n - 1) * LinesEach(machine) + o)
    /\ \A i \in 1 .. Len(input) :
          input[i] = A!CpuInfo(machine)[(n - 1) * LinesEach(machine) + o + i]
    /\ collector = [logicalProcessor |-> n - 1,
                    coreID |-> A!CoreID(IF n > 0 /\ o > 1 THEN machine.cpus[n].package ELSE -1,
                                        IF n > 0 /\ o > 2 THEN machine.cpus[n].core ELSE -1),
                    coreIDToIndex |-> collector.coreIDToIndex]
    /\ Collected(machine, cores, collector.coreIDToIndex, IF n = 0 THEN 0 ELSE n - 1)

FreeBSDScan ==
    /\ input \in Seq(Nat) /\ Len(input) <= Len(machine.cpus)
    /\ collector = [A!NoProcessor EXCEPT !.coreIDToIndex = collector.coreIDToIndex]
    /\ Collected(machine, cores, collector.coreIDToIndex, Len(input))
    /\ 0 .. Len(input) - 1 \subseteq machine.allowed

\* The processors of a list.
Mask(list) == {list[a] : a \in DOMAIN list}

Win32Scan ==
    /\ accurate \in BOOLEAN
    /\ input \in Seq(Masks(machine)) /\ \A i, j \in DOMAIN input : input[i] = input[j] => i = j
    /\ cores \in Seq(Seq(Nat))
    /\ \A k \in DOMAIN cores :
          /\ \A a, b \in DOMAIN cores[k] : cores[k][a] = cores[k][b] => a = b
          /\ Mask(cores[k]) \in Masks(machine)
          /\ \A i \in DOMAIN input : input[i] # Mask(cores[k])
    /\ \A k, l \in DOMAIN cores : Mask(cores[k]) = Mask(cores[l]) => k = l
    /\ accurate => \A mask \in Masks(machine) :
          (\E i \in DOMAIN input : input[i] = mask) \/ \E k \in DOMAIN cores : Mask(cores[k]) = mask

Scan ==
    /\ platform = "Linux" =>
          accurate /\ \E n \in 0 .. Len(machine.cpus), o \in 1 .. LinesEach(machine) : LinuxScan(n, o)
    /\ platform = "FreeBSD" => FreeBSDScan
    /\ platform = "Win32" => Win32Scan
    /\ \A t \in Pinners : pinned[t].core = -1

\* In different lists are the processors of different cores.
TellsCores(m, list) ==
    \A i, j \in DOMAIN list : \A a \in DOMAIN list[i], b \in DOMAIN list[j] :
        list[i][a] \in A!Processors(m) /\ list[j][b] \in A!Processors(m) =>
            (A!CoreOf(m, list[i][a]) = A!CoreOf(m, list[j][b]) <=> i = j)

Topology ==
    /\ cores \in Seq(Seq(Nat)) /\ Distinct(cores)
    /\ accurate /\ platform \in {"Linux", "FreeBSD", "Win32"} => Cells(cores) = A!Reached
    /\ A!Told => TellsCores(machine, cores)

\* Who has asked for a core runs on one of its processors.
Placed(t) ==
    pinned[t].core >= 0 =>
        \E i \in DOMAIN cores : \E a \in DOMAIN cores[i] :
            /\ pinned[t].core = i - 1 /\ pinned[t].at = {cores[i][a]}
            /\ cores[i][a] \in A!Processors(machine)

AffinityInv ==
    /\ MachineOk(platform, machine)
    /\ pinned = [t \in Pinners |-> pinned[t]]
    /\ \A t \in Pinners : pinned[t] = [at |-> pinned[t].at, ok |-> pinned[t].ok, core |-> pinned[t].core]
                            /\ pinned[t].core \in Int
    /\ phase \in {"scan", "built"}
    /\ phase = "scan" => Scan
    /\ phase = "built" => Topology /\ \A t \in Pinners : Placed(t)

\* What holds of the invariant says what the property says.
LEMMA AffinityInvImplies ==
  ASSUME AffinityInv
  PROVE  A!PinnedApart
<1> SUFFICES ASSUME phase = "built" PROVE
        /\ A!IsInjective(A!Listed)
        /\ (accurate /\ platform \in {"Linux", "FreeBSD", "Win32"}) => A!ToSet(A!Listed) = A!Reached
        /\ A!Told =>
               \A t, u \in {t \in Pinners : pinned[t].core >= 0} :
                   \A p \in pinned[t].at, q \in pinned[u].at :
                       (A!CoreOf(machine, p) = A!CoreOf(machine, q)) <=> (pinned[t].core = pinned[u].core)
  BY DEF A!PinnedApart
<1>1. Topology /\ \A t \in Pinners : Placed(t)
  BY DEF AffinityInv
<1>2. A!IsInjective(A!Listed) /\ A!ToSet(A!Listed) = Cells(cores)
  BY <1>1, FlattenedCells DEF Topology, A!Listed
<1>3. ASSUME A!Told, NEW t \in Pinners, NEW u \in Pinners, pinned[t].core >= 0, pinned[u].core >= 0,
             NEW p \in pinned[t].at, NEW q \in pinned[u].at
      PROVE  (A!CoreOf(machine, p) = A!CoreOf(machine, q)) <=> (pinned[t].core = pinned[u].core)
  <2>1. PICK i \in DOMAIN cores : \E a \in DOMAIN cores[i] :
            /\ pinned[t].core = i - 1 /\ pinned[t].at = {cores[i][a]}
            /\ cores[i][a] \in A!Processors(machine)
    BY <1>1, <1>3 DEF Placed
  <2>2. PICK a \in DOMAIN cores[i] :
            /\ pinned[t].core = i - 1 /\ pinned[t].at = {cores[i][a]}
            /\ cores[i][a] \in A!Processors(machine)
    BY <2>1
  <2>3. PICK j \in DOMAIN cores : \E b \in DOMAIN cores[j] :
            /\ pinned[u].core = j - 1 /\ pinned[u].at = {cores[j][b]}
            /\ cores[j][b] \in A!Processors(machine)
    BY <1>1, <1>3 DEF Placed
  <2>4. PICK b \in DOMAIN cores[j] :
            /\ pinned[u].core = j - 1 /\ pinned[u].at = {cores[j][b]}
            /\ cores[j][b] \in A!Processors(machine)
    BY <2>3
  <2>5. p = cores[i][a] /\ q = cores[j][b]
    BY <1>3, <2>2, <2>4
  <2>6. A!CoreOf(machine, p) = A!CoreOf(machine, q) <=> i = j
    BY <1>1, <1>3, <2>2, <2>4, <2>5, SMTT(60) DEF Topology, TellsCores
  <2>7. i \in Int /\ j \in Int
    BY <1>1 DEF Topology
  <2> QED
    BY <2>2, <2>4, <2>6, <2>7
<1> QED
  BY <1>1, <1>2, <1>3 DEF Topology

\* What a constructor leaves, whatever list it has made.
LEMMA Builds ==
  ASSUME AffinityInv, NEW list, NEW told1, A!Built(list, told1), UNCHANGED <<platform, machine>>,
         phase = "scan", list \in Seq(Seq(Nat)), Distinct(list), told1 \in BOOLEAN,
         told1 /\ platform \in {"Linux", "FreeBSD", "Win32"} => Cells(list) = A!Reached,
         told1 /\ platform \in {"Linux", "FreeBSD", "Win32"} /\ machine.reports \in {"core", "thread"} =>
             TellsCores(machine, list),
         pinned' = [t \in Pinners |-> pinned'[t]],
         \A t \in Pinners : /\ pinned'[t] = [at |-> pinned'[t].at, ok |-> pinned'[t].ok, core |-> pinned'[t].core]
                             /\ pinned'[t].core = -1
  PROVE  AffinityInv'
<1>1. /\ phase' = "built" /\ cores' = IF list = <<>> THEN A!Fallback ELSE list
      /\ accurate' = (told1 /\ list # <<>>)
  BY DEF A!Built
<1>2. Topology'
  <2>1. CASE list = <<>>
    <3>1. cores' = <<<<0>>>> /\ accurate' = FALSE
      BY <1>1, <2>1 DEF A!Fallback
    <3>2. <<0>> \in Seq(Nat) /\ <<<<0>>>> \in Seq(Seq(Nat))
      OBVIOUS
    <3>3. Distinct(<<<<0>>>>)
      BY DEF Distinct
    <3> QED
      BY <3>1, <3>2, <3>3 DEF Topology, A!Told, Distinct
  <2>2. CASE list # <<>>
    <3>1. cores' = list /\ accurate' = told1
      BY <1>1, <2>2
    <3>2. A!Processors(machine)' = A!Processors(machine) /\ A!Reached' = A!Reached
      BY DEF A!Reached, A!Processors
    <3> QED
      BY <3>1, <3>2 DEF Topology, A!Told, Distinct, Cells, TellsCores, A!Processors, A!CoreOf
  <2> QED
    BY <2>1, <2>2
<1>3. \A t \in Pinners : Placed(t)'
  BY DEF Placed
<1>4. MachineOk(platform, machine)'
  BY DEF AffinityInv
<1> QED
  BY <1>1, <1>2, <1>3, <1>4 DEF AffinityInv

LEMMA NoneCollected == ASSUME NEW m PROVE Collected(m, <<>>, <<>>, 0)
<1>1. 0 .. 0 - 1 = {} /\ Cells(<<>>) = {}
  BY DEF Cells
<1> QED
  BY <1>1 DEF Collected, Distinct

LEMMA SiblingsFew ==
  ASSUME A!AffinityAssumption, NEW m, m.cpus \in Machines, NEW q \in A!Processors(m)
  PROVE  Cardinality(A!Siblings(m, q)) \in 0 .. HWThreadIds - 1
<1> DEFINE n == Len(m.cpus)
           R == A!Siblings(m, q)
           Alike == {r \in DOMAIN m.cpus : m.cpus[r] = m.cpus[q + 1]}
           f == [r \in R \cup {q} |-> r + 1]
<1>1. m.cpus \in Seq(Cpu) /\ n \in Nat /\ DOMAIN m.cpus = 1 .. n /\ HWThreadIds \in Nat
  <2>1. m.cpus \in Seq(Cpu) /\ HWThreadIds \in Nat
    BY DEF A!AffinityAssumption, Cpu
  <2> QED
    BY <2>1
<1>2. q \in 0 .. n - 1 /\ q + 1 \in DOMAIN m.cpus
  BY <1>1 DEF A!Processors
<1>3. Cardinality(Alike) <= HWThreadIds
  <2>1. A!Cardinality(Alike) <= HWThreadIds
    BY <1>2 DEF A!AffinityAssumption
  <2> QED
    BY <2>1, Sizes
<1>4. IsFiniteSet(Alike)
  <2>1. Alike \in SUBSET (1 .. n) /\ IsFiniteSet(1 .. n)
    BY <1>1, FS_Interval
  <2> QED
    BY <2>1, FS_Subset
<1>5. \A r \in R : r \in 0 .. n - 1 /\ r < q /\ m.cpus[r + 1] = m.cpus[q + 1]
  BY DEF A!Siblings, A!Processors, A!CoreOf
<1> HIDE DEF R
<1>6. \A r \in R \cup {q} : r \in Int /\ r + 1 \in Alike
  BY <1>1, <1>2, <1>5
<1> HIDE DEF Alike, n
<1>7. f \in Injection(R \cup {q}, Alike)
  <2>1. f \in [R \cup {q} -> Alike]
    BY <1>6
  <2>2. \A r, t \in R \cup {q} : f[r] = f[t] => r = t
    BY <1>6
  <2> HIDE DEF f
  <2> QED
    BY <2>1, <2>2 DEF Injection, IsInjective
<1>8. IsFiniteSet(R \cup {q}) /\ Cardinality(R \cup {q}) <= Cardinality(Alike)
  <2> HIDE DEF f
  <2> QED
    BY <1>4, <1>7, FS_Injection
<1>9. q \notin R
  <2>1. q \in Int
    BY <1>2
  <2> QED
    BY <1>5, <2>1
<1>10. IsFiniteSet(R) /\ R \in SUBSET (R \cup {q})
  BY <1>8, FS_Subset
<1>11. Cardinality(R \cup {q}) = Cardinality(R) + 1 /\ Cardinality(R) \in Nat
  BY <1>9, <1>10, FS_AddElement, FS_CardinalityType
<1>12. Cardinality(Alike) \in Nat
  BY <1>4, FS_CardinalityType
<1> QED
  BY <1>1, <1>3, <1>8, <1>11, <1>12 DEF R

LEMMA AffinityInitially ==
  ASSUME A!AffinityAssumption, A!Init
  PROVE  AffinityInv
<1>1. PICK p \in A!Platforms, cpus \in Machines :
        \E reports \in A!Reports(p) : \E refused \in {-1} \cup (IF Len(cpus) > 1 THEN 0 .. Len(cpus) - 1 ELSE {}) :
            A!Start(p, [cpus |-> cpus, reports |-> reports, allowed |-> (0 .. Len(cpus) - 1) \ {refused}])
  BY DEF A!Init
<1>2. PICK reports \in A!Reports(p),
           refused \in {-1} \cup (IF Len(cpus) > 1 THEN 0 .. Len(cpus) - 1 ELSE {}) :
            A!Start(p, [cpus |-> cpus, reports |-> reports, allowed |-> (0 .. Len(cpus) - 1) \ {refused}])
  BY <1>1
<1> DEFINE m == [cpus |-> cpus, reports |-> reports, allowed |-> (0 .. Len(cpus) - 1) \ {refused}]
<1>3. cpus \in Seq(Cpu) /\ Len(cpus) \in Nat \ {0}
  <2>1. cpus \in Seq(Cpu) /\ cpus # <<>>
    BY DEF A!AffinityAssumption, Cpu
  <2> QED
    BY <2>1
<1>4. m.cpus = cpus /\ m.reports = reports /\ m.allowed = (0 .. Len(cpus) - 1) \ {refused}
  OBVIOUS
<1> HIDE DEF m
<1>5. \A q \in A!Processors(m) : Cardinality(A!Siblings(m, q)) \in 0 .. HWThreadIds - 1
  BY <1>4, SiblingsFew
<1>6. MachineOk(p, m)
  BY <1>3, <1>4, <1>5 DEF MachineOk, A!Processors
<1>7. A!Start(p, m)
  BY <1>2 DEF m
<1>8. /\ platform = p /\ machine = m /\ phase = "scan" /\ collector = A!NoProcessor /\ cores = <<>> /\ accurate = TRUE
      /\ pinned = [t \in Pinners |-> [at |-> m.allowed, ok |-> FALSE, core |-> -1]]
  BY <1>7 DEF A!Start
<1>9. ASSUME platform = "Linux"
      PROVE  \E n \in 0 .. Len(machine.cpus), o \in 1 .. LinesEach(machine) : LinuxScan(n, o)
  <2> DEFINE w == LinesEach(m)
             k == Len(m.cpus)
  <2>1. w \in 1 .. 3 /\ k \in Nat
    BY <1>3, <1>4 DEF LinesEach
  <2>2. input = A!CpuInfo(m)
    BY <1>7, <1>9, <1>8 DEF A!Start
  <2>3. A!CpuInfo(m) \in Seq(Lines) /\ Len(A!CpuInfo(m)) = k * w
    BY <1>6, <1>8, <1>9, CpuInfoLines
  <2>4. collector = [logicalProcessor |-> 0 - 1, coreID |-> A!CoreID(-1, -1), coreIDToIndex |-> <<>>]
    BY <1>8 DEF A!NoProcessor, A!NoCoreID
  <2> HIDE DEF w, k
  <2>5. (0 - 1) * w + w = 0 /\ k * w \in Int
    BY <2>1
  <2>6. Len(input) = k * w - ((0 - 1) * w + w)
    BY <2>2, <2>3, <2>5
  <2>7. \A i \in 1 .. Len(input) : (0 - 1) * w + w + i = i
    BY <2>2, <2>3, <2>5
  <2>8. LinuxScan(0, w)
    BY <1>8, <2>1, <2>2, <2>3, <2>4, <2>6, <2>7, NoneCollected DEF LinuxScan, w, k
  <2> QED
    BY <1>8, <2>1, <2>8 DEF w, k
<1>10. ASSUME platform = "FreeBSD" PROVE FreeBSDScan
  <2>1. input = <<>>
    BY <1>7, <1>8, <1>10 DEF A!Start
  <2>2. Len(machine.cpus) \in Nat
    BY <1>3, <1>4, <1>8
  <2>3. collector = [A!NoProcessor EXCEPT !.coreIDToIndex = collector.coreIDToIndex] /\ collector.coreIDToIndex = <<>>
    BY <1>8 DEF A!NoProcessor
  <2>4. 0 .. Len(input) - 1 \subseteq machine.allowed
    BY <2>1
  <2> QED
    BY <1>8, <2>1, <2>2, <2>3, <2>4, NoneCollected DEF FreeBSDScan
<1>11. ASSUME platform = "Win32" PROVE Win32Scan
  <2>1. input = A!CoreRecords(m)
    BY <1>7, <1>8, <1>11 DEF A!Start
  <2> QED
    BY <1>6, <1>8, <2>1, MaskFacts DEF Win32Scan
<1>12. /\ pinned = [t \in Pinners |-> pinned[t]]
       /\ \A t \in Pinners : pinned[t] = [at |-> m.allowed, ok |-> FALSE, core |-> -1]
  BY <1>8
<1>13. Scan
  BY <1>8, <1>9, <1>10, <1>11, <1>12 DEF Scan
<1>14. \A t \in Pinners : pinned[t] = [at |-> pinned[t].at, ok |-> pinned[t].ok, core |-> pinned[t].core]
                         /\ pinned[t].core \in Int
  BY <1>12
<1> QED
  BY <1>6, <1>8, <1>12, <1>13, <1>14 DEF AffinityInv

----------------------------------------------------------------------------
\* The steps of the constructors.

\* Whose processors have been collected knows them all.
LEMMA CollectedCores ==
  ASSUME A!AffinityAssumption, NEW p, NEW m, MachineOk(p, m), NEW list, NEW index, NEW d, Collected(m, list, index, d),
         m.reports \in {"core", "thread"}
  PROVE  TellsCores(m, list)
<1> SUFFICES ASSUME NEW i \in DOMAIN list, NEW j \in DOMAIN list, NEW a \in DOMAIN list[i], NEW b \in DOMAIN list[j],
                    list[i][a] \in A!Processors(m), list[j][b] \in A!Processors(m)
             PROVE  A!CoreOf(m, list[i][a]) = A!CoreOf(m, list[j][b]) <=> i = j
  BY DEF TellsCores
<1>1. index[i] = KnownBy(m, list[i][a]) /\ index[j] = KnownBy(m, list[j][b])
  BY DEF Collected
<1>2. KnownBy(m, list[i][a]) = KnownBy(m, list[j][b]) <=> A!CoreOf(m, list[i][a]) = A!CoreOf(m, list[j][b])
  BY KnownCores
<1>3. DOMAIN index = DOMAIN list
  BY DEF Collected
<1> QED
  BY <1>1, <1>2, <1>3 DEF Collected

\* Nobody is pinned to a core while the object is constructed.
LEMMA ScanPins ==
  ASSUME AffinityInv, phase = "scan", UNCHANGED pinned
  PROVE  /\ pinned' = [t \in Pinners |-> pinned'[t]]
         /\ \A t \in Pinners : /\ pinned'[t] = [at |-> pinned'[t].at, ok |-> pinned'[t].ok, core |-> pinned'[t].core]
                               /\ pinned'[t].core = -1
BY DEF AffinityInv, Scan

\* The constructors that come to know nothing.
LEMMA NothingKnown ==
  ASSUME AffinityInv, A!NothingReported \/ A!ConstructNull
  PROVE  AffinityInv'
<1>1. phase = "scan" /\ A!Built(<<>>, FALSE) /\ UNCHANGED <<platform, machine, pinned>>
  BY DEF A!NothingReported, A!ConstructNull, A!Scanning, A!Same
<1>2. <<>> \in Seq(Seq(Nat)) /\ Distinct(<<>>)
  BY DEF Distinct
<1> QED
  BY <1>1, <1>2, ScanPins, Builds

\* Mach: equal shares of the tags.
LEMMA CountsQueried ==
  ASSUME A!AffinityAssumption, AffinityInv, A!QueryCounts
  PROVE  AffinityInv'
<1> DEFINE logical == Len(machine.cpus)
           physical == A!Cardinality({A!CoreOf(machine, p) : p \in A!Processors(machine)})
           perCore == logical \div physical
           list == [core \in 1 .. physical |-> [hwThread \in 1 .. perCore |-> (core - 1) * perCore + hwThread - 1]]
<1>1. /\ phase = "scan" /\ platform = "Mach" /\ UNCHANGED <<platform, machine, pinned>>
      /\ A!Built(list, TRUE) \/ A!Built(<<>>, FALSE)
  BY DEF A!QueryCounts, A!Scanning, A!Same
<1>2. MachineOk(platform, machine)
  BY DEF AffinityInv
<1>3. physical \in Nat \ {0}
  <2> DEFINE R == {A!CoreOf(machine, p) : p \in A!Processors(machine)}
             f == [p \in A!Processors(machine) |-> A!CoreOf(machine, p)]
  <2>1. 0 \in A!Processors(machine) /\ IsFiniteSet(A!Processors(machine))
    <3>1. Len(machine.cpus) - 1 \in Nat
      BY <1>2 DEF MachineOk
    <3> QED
      BY <3>1, FS_Interval DEF A!Processors
  <2>2. f \in Surjection(A!Processors(machine), R)
    BY DEF Surjection
  <2>3. R # {}
    BY <2>1
  <2> HIDE DEF R, f
  <2>4. IsFiniteSet(R)
    BY <2>1, <2>2, FS_Surjection
  <2>5. Cardinality(R) \in Nat \ {0}
    BY <2>3, <2>4, FS_CardinalityType, FS_EmptySet
  <2> QED
    BY <2>5, Sizes DEF R
<1>4. logical \in Nat
  BY <1>2 DEF MachineOk
<1> HIDE DEF logical, physical
<1>5. perCore \in Nat
  BY <1>3, <1>4
<1> HIDE DEF perCore
<1>6. ASSUME NEW i \in 1 .. physical, NEW a \in 1 .. perCore PROVE (i - 1) * perCore + a - 1 \in Nat
  <2>1. i - 1 \in Nat /\ (i - 1) * perCore \in Nat
    BY <1>3, <1>5
  <2> QED
    BY <1>5, <2>1
<1>7. \A i \in 1 .. physical : [hwThread \in 1 .. perCore |-> (i - 1) * perCore + hwThread - 1] \in Seq(Nat)
  BY <1>5, <1>6
<1>8. list \in Seq(Seq(Nat))
  BY <1>3, <1>7
<1>9. Distinct(list)
  <2> SUFFICES ASSUME NEW i \in 1 .. physical, NEW j \in 1 .. physical, NEW a \in 1 .. perCore, NEW b \in 1 .. perCore,
                      (i - 1) * perCore + a - 1 = (j - 1) * perCore + b - 1
               PROVE  i = j /\ a = b
    BY DEF Distinct
  <2>1. i \in Int /\ j \in Int /\ (i - 1) * perCore \in Int /\ (j - 1) * perCore \in Int
    BY <1>3, <1>5
  <2>2. (i - 1) * perCore + a = (j - 1) * perCore + b
    BY <1>5, <2>1
  <2> QED
    BY <1>5, <2>1, <2>2, CellsApart
<1> HIDE DEF list
<1>10. CASE A!Built(list, TRUE)
  BY <1>1, <1>8, <1>9, <1>10, ScanPins, Builds
<1>11. CASE A!Built(<<>>, FALSE)
  <2>1. <<>> \in Seq(Seq(Nat)) /\ Distinct(<<>>)
    BY DEF Distinct
  <2> QED
    BY <1>1, <1>11, <2>1, ScanPins, Builds
<1> QED
  BY <1>1, <1>10, <1>11

LEMMA Answer ==
  ASSUME NEW at, NEW ok, NEW core, NEW new
  PROVE  [[at |-> at, ok |-> ok, core |-> core] EXCEPT !.ok = new] = [at |-> at, ok |-> new, core |-> core]
<1> DEFINE R == [at : {at}, ok : {ok, new}, core : {core}]
           r == [at |-> at, ok |-> ok, core |-> core]
           e == [r EXCEPT !.ok = new]
<1>1. r \in R /\ r.at = at /\ r.core = core
  OBVIOUS
<1>2. e \in R /\ e.at = at /\ e.core = core /\ e.ok = new
  <2> HIDE DEF r
  <2> QED
    BY <1>1
<1> HIDE DEF e
<1>3. e = [at |-> e.at, ok |-> e.ok, core |-> e.core]
  BY <1>2
<1>4. e = [at |-> at, ok |-> new, core |-> core]
  BY <1>2, <1>3
<1> QED
  BY <1>4 DEF e

\* Whoever pins itself leaves the others where they are.
LEMMA Pinned ==
  ASSUME AffinityInv, NEW t \in Pinners, NEW core \in Int, NEW p, A!setAffinityRaw(t, core, p)
  PROVE  /\ pinned' = [u \in Pinners |-> pinned'[u]]
         /\ \A u \in Pinners : /\ pinned'[u] = [at |-> pinned'[u].at, ok |-> pinned'[u].ok, core |-> pinned'[u].core]
                               /\ pinned'[u].core \in Int
         /\ \A u \in Pinners : /\ pinned'[u].at = pinned[u].at /\ pinned'[u].core = pinned[u].core
                               \/ /\ u = t /\ p \in machine.allowed
                                  /\ pinned'[u].at = {p} /\ pinned'[u].core = core
<1>1. /\ pinned = [u \in Pinners |-> pinned[u]]
      /\ \A u \in Pinners : pinned[u] = [at |-> pinned[u].at, ok |-> pinned[u].ok, core |-> pinned[u].core]
                            /\ pinned[u].core \in Int
  BY DEF AffinityInv
<1> DEFINE new == IF p \in machine.allowed THEN [at |-> {p}, ok |-> TRUE, core |-> core]
                  ELSE [pinned[t] EXCEPT !.ok = FALSE]
<1>2. pinned' = [pinned EXCEPT ![t] = new]
  BY DEF A!setAffinityRaw
<1>3. /\ new = [at |-> new.at, ok |-> new.ok, core |-> new.core] /\ new.core \in Int
      /\ \/ new.at = pinned[t].at /\ new.core = pinned[t].core
         \/ p \in machine.allowed /\ new.at = {p} /\ new.core = core
  <2>1. CASE p \in machine.allowed
    BY <2>1
  <2>2. CASE p \notin machine.allowed
    <3> DEFINE r == pinned[t]
               at == r.at
               ok == r.ok
               c == r.core
    <3>0. r = [at |-> at, ok |-> ok, core |-> c]
      BY <1>1
    <3> HIDE DEF r, at, ok, c
    <3>2. [r EXCEPT !.ok = FALSE] = [at |-> at, ok |-> FALSE, core |-> c]
      <4>1. [[at |-> at, ok |-> ok, core |-> c] EXCEPT !.ok = FALSE] = [at |-> at, ok |-> FALSE, core |-> c]
        <5> DEFINE refused == FALSE
        <5> HIDE DEF refused
        <5>1. [[at |-> at, ok |-> ok, core |-> c] EXCEPT !.ok = refused] = [at |-> at, ok |-> refused, core |-> c]
          BY Answer
        <5> QED
          BY <5>1 DEF refused
      <4> QED
        BY ONLY <3>0, <4>1
    <3>1. new = [at |-> pinned[t].at, ok |-> FALSE, core |-> pinned[t].core]
      BY <2>2, <3>2 DEF r, at, c
    <3> HIDE DEF new
    <3> QED
      BY <1>1, <3>1
  <2> QED
    BY <2>1, <2>2
<1> HIDE DEF new
<1>4. /\ pinned' = [u \in Pinners |-> pinned'[u]] /\ pinned'[t] = new
      /\ \A u \in Pinners : u # t => pinned'[u] = pinned[u]
  BY <1>1, <1>2
<1> QED
  BY <1>1, <1>3, <1>4

LEMMA Probes ==
  ASSUME A!AffinityAssumption, AffinityInv, A!Probe(Constructor)
  PROVE  AffinityInv'
<1> DEFINE p == Len(input)
           c == A!Found(collector)
<1>1. /\ phase = "scan" /\ platform = "FreeBSD" /\ UNCHANGED <<platform, machine>> /\ MachineOk("FreeBSD", machine)
      /\ Constructor \in Pinners /\ A!setAffinityRaw(Constructor, -1, p)
      /\ FreeBSDScan /\ MachineOk(platform, machine) /\ \A u \in Pinners : pinned[u].core = -1
  BY DEF A!Probe, A!Ask, A!Scanning, A!Same, AffinityInv, Scan, A!AffinityAssumption
<1>2. /\ pinned' = [u \in Pinners |-> pinned'[u]]
      /\ \A u \in Pinners : /\ pinned'[u] = [at |-> pinned'[u].at, ok |-> pinned'[u].ok, core |-> pinned'[u].core]
                            /\ pinned'[u].core = -1
  <2>1. -1 \in Int
    OBVIOUS
  <2> HIDE DEF p
  <2>2. /\ pinned' = [u \in Pinners |-> pinned'[u]]
        /\ \A u \in Pinners : pinned'[u] = [at |-> pinned'[u].at, ok |-> pinned'[u].ok, core |-> pinned'[u].core]
    BY <1>1, <2>1, Pinned
  <2>3. \A u \in Pinners : pinned'[u].core = pinned[u].core \/ pinned'[u].core = -1
    BY <1>1, <2>1, Pinned
  <2> QED
    BY <1>1, <2>2, <2>3
<1>3. /\ p \in Nat /\ input \in Seq(Nat) /\ Collected(machine, cores, collector.coreIDToIndex, p)
      /\ collector = [A!NoProcessor EXCEPT !.coreIDToIndex = collector.coreIDToIndex]
      /\ 0 .. p - 1 \subseteq machine.allowed
  BY <1>1 DEF FreeBSDScan
<1>4. CASE p \in machine.allowed
  <2>1. p \in A!Processors(machine) /\ p < Len(machine.cpus) /\ Len(machine.cpus) \in Nat
    BY <1>1, <1>4 DEF MachineOk, A!Processors
  <2>2. /\ collector' = A!flush(c, cores).collector /\ cores' = A!flush(c, cores).cores
        /\ input' = Append(input, p) /\ phase' = phase
    BY <1>4 DEF A!Probe, A!Ask
  <2>3. c.logicalProcessor = p /\ c.coreID = A!getTopology(machine, p) /\ c.coreIDToIndex = collector.coreIDToIndex
    BY <1>3 DEF A!NoProcessor, A!Found
  <2> HIDE DEF c, p
  <2>4. A!flush(c, cores) = [collector |-> [A!NoProcessor EXCEPT !.coreIDToIndex = A!Join(c, cores).index],
                             cores |-> A!Join(c, cores).cores]
    BY <1>3, <2>3 DEF A!flush
  <2>5. KnownBy(machine, p) \in IdSet /\ A!Identified(c) = KnownBy(machine, p)
    BY <1>1, <2>1, <2>3, ProcessorFacts, TopologyKnown
  <2>6. Collected(machine, A!Join(c, cores).cores, A!Join(c, cores).index, p + 1)
    BY <1>3, <2>3, <2>5, Joins
  <2>7. /\ cores' = A!Join(c, cores).cores
        /\ collector' = [A!NoProcessor EXCEPT !.coreIDToIndex = A!Join(c, cores).index]
        /\ collector'.coreIDToIndex = A!Join(c, cores).index
    BY <2>2, <2>4 DEF A!NoProcessor
  <2>8. input' \in Seq(Nat) /\ Len(input') = p + 1 /\ Len(input') <= Len(machine.cpus)
    BY <1>3, <2>1, <2>2, SMTT(60) DEF p
  <2>9. 0 .. Len(input') - 1 \subseteq machine.allowed
    <3>1. 0 .. p = (0 .. p - 1) \cup {p}
      BY <1>3
    <3>2. Len(input') - 1 = p
      BY <1>3, <2>8
    <3> QED
      BY <1>3, <1>4, <3>1, <3>2
  <2>10. FreeBSDScan'
    BY <1>1, <2>6, <2>7, <2>8, <2>9 DEF FreeBSDScan, Collected, KnownBy, A!CoreOf
  <2> QED
    BY <1>1, <1>2, <2>2, <2>10 DEF AffinityInv, Scan
<1>5. CASE p \notin machine.allowed
  <2>1. A!Built(cores, TRUE)
    BY <1>5 DEF A!Probe, A!Ask
  <2> HIDE DEF p, c
  <2>2. cores \in Seq(Seq(Nat)) /\ Distinct(cores)
    BY <1>3 DEF Collected
  <2>3. machine.reports \in {"core", "thread"} => TellsCores(machine, cores)
    BY <1>1, <1>3, CollectedCores
  <2>4. Cells(cores) = A!Reached
    <3>1. Cells(cores) = 0 .. p - 1
      BY <1>3 DEF Collected
    <3>2. A!Reached = {q \in A!Processors(machine) : 0 .. q \subseteq machine.allowed}
      BY <1>1 DEF A!Reached
    <3>3. machine.allowed \subseteq A!Processors(machine) /\ A!Processors(machine) \subseteq Nat
      BY <1>1 DEF MachineOk, A!Processors
    <3>4. ASSUME NEW q \in 0 .. p - 1 PROVE q \in A!Processors(machine) /\ 0 .. q \subseteq machine.allowed
      BY <1>3, <3>3
    <3>5. ASSUME NEW q \in A!Processors(machine), 0 .. q \subseteq machine.allowed PROVE q \in 0 .. p - 1
      <4>1. q \in Nat /\ p \notin 0 .. q
        BY <1>5, <3>3, <3>5
      <4> QED
        BY <1>3, <4>1
    <3> QED
      BY <3>1, <3>2, <3>4, <3>5
  <2> QED
    BY <1>1, <1>2, <2>1, <2>2, <2>3, <2>4, Builds
<1> QED
  BY <1>4, <1>5

\* The processor whose lines are all read is looked up.
LEMMA Flushed ==
  ASSUME A!AffinityAssumption, MachineOk("Linux", machine), NEW n \in 0 .. Len(machine.cpus),
         LinuxScan(n, LinesEach(machine))
  PROVE  LET f == A!flush(collector, cores)
         IN  /\ Collected(machine, f.cores, f.collector.coreIDToIndex, n)
             /\ f.collector = [logicalProcessor |-> -1, coreID |-> A!CoreID(-1, -1),
                               coreIDToIndex |-> f.collector.coreIDToIndex]
<1> DEFINE f == A!flush(collector, cores)
           w == LinesEach(machine)
           x == machine.cpus[n]
           known == collector.coreIDToIndex
           phys == IF n > 0 /\ w > 1 THEN x.package ELSE -1
           core == IF n > 0 /\ w > 2 THEN x.core ELSE -1
           d == n - 1
<1>1. /\ collector = [logicalProcessor |-> d, coreID |-> A!CoreID(phys, core), coreIDToIndex |-> known]
      /\ Collected(machine, cores, known, IF n = 0 THEN 0 ELSE n - 1)
  BY DEF LinuxScan
<1>2. n \in Nat /\ Len(machine.cpus) \in Nat
  BY DEF MachineOk
<1>3. CASE n = 0
  <2>1. collector.logicalProcessor < 0 /\ phys = -1 /\ core = -1
    BY <1>1, <1>3
  <2>2. f = [collector |-> [collector EXCEPT !.coreID = A!NoCoreID], cores |-> cores]
    BY <2>1 DEF A!flush
  <2> HIDE DEF known, phys, core, d, w, x
  <2>3. f.cores = cores /\ f.collector = [collector EXCEPT !.coreID = A!NoCoreID]
    BY <2>2
  <2>4. f.collector = [logicalProcessor |-> d, coreID |-> A!NoCoreID, coreIDToIndex |-> known]
    BY <1>1, <2>3
  <2>5. d = -1 /\ f.collector.coreIDToIndex = known
    BY <1>3, <2>4 DEF d
  <2> QED
    BY <1>1, <1>3, <2>3, <2>4, <2>5 DEF A!NoCoreID
<1>4. CASE n # 0
  <2>1. d \in A!Processors(machine) /\ d \in Nat /\ d + 1 = n
    BY <1>2, <1>4 DEF A!Processors
  <2>2. x = A!CoreOf(machine, d) /\ x.package \in Nat /\ x.core \in Nat /\ KnownBy(machine, d) \in IdSet
    <3> HIDE DEF d
    <3>1. x = A!CoreOf(machine, d)
      BY <2>1 DEF A!CoreOf
    <3>2. A!CoreOf(machine, d).package \in Nat /\ A!CoreOf(machine, d).core \in 0 .. CoreIds - 1 /\ CoreIds \in Nat
          /\ KnownBy(machine, d) \in IdSet
      BY <2>1, ProcessorFacts
    <3> QED
      BY <3>1, <3>2
  <2>3. A!Identified(collector) = KnownBy(machine, d)
    <3>1. machine.reports \in {"core", "package", "none"}
      BY DEF MachineOk, A!Reports
    <3>2. collector.coreID = A!CoreID(phys, core) /\ collector.logicalProcessor = d
      BY <1>1
    <3> HIDE DEF x, d
    <3>3. CASE machine.reports = "none"
      <4>1. phys = -1 /\ core = -1
        BY <3>3 DEF LinesEach
      <4>2. A!Identified(collector) = A!CoreID(0, d)
        BY <3>2, <4>1 DEF A!Identified, A!CoreID
      <4> QED
        BY <3>3, <4>2 DEF KnownBy
    <3>4. CASE machine.reports = "package"
      <4>1. phys = x.package /\ core = -1 /\ ~(phys < 0)
        BY <1>2, <1>4, <2>2, <3>4 DEF LinesEach
      <4>2. A!Identified(collector) = A!CoreID(phys, core)
        BY <3>2, <4>1 DEF A!Identified, A!CoreID
      <4> QED
        BY <2>2, <3>4, <4>1, <4>2 DEF KnownBy
    <3>5. CASE machine.reports = "core"
      <4>1. phys = x.package /\ core = x.core /\ ~(phys < 0)
        BY <1>2, <1>4, <2>2, <3>5 DEF LinesEach
      <4>2. A!Identified(collector) = A!CoreID(phys, core)
        BY <3>2, <4>1 DEF A!Identified, A!CoreID
      <4> QED
        BY <2>2, <3>5, <4>1, <4>2 DEF KnownBy
    <3> QED
      BY <3>1, <3>3, <3>4, <3>5
  <2> HIDE DEF known, phys, core, w, x
  <2>4. collector.logicalProcessor = d /\ collector.coreIDToIndex = known /\ Collected(machine, cores, known, d)
    BY <1>1, <1>4
  <2>5. Collected(machine, A!Join(collector, cores).cores, A!Join(collector, cores).index, d + 1)
    BY <2>1, <2>2, <2>3, <2>4, Joins
  <2>6. f = [collector |-> [A!NoProcessor EXCEPT !.coreIDToIndex = A!Join(collector, cores).index],
             cores |-> A!Join(collector, cores).cores]
    BY <2>1, <2>4 DEF A!flush
  <2>7. /\ f.cores = A!Join(collector, cores).cores
        /\ f.collector = [logicalProcessor |-> -1, coreID |-> A!CoreID(-1, -1),
                          coreIDToIndex |-> A!Join(collector, cores).index]
    BY <2>6 DEF A!NoProcessor, A!NoCoreID
  <2> QED
    BY <2>1, <2>5, <2>7
<1> QED
  BY <1>3, <1>4

\* The next line is the next one of the same processor, or the first of the
\* next processor.
LEMMA NextLine ==
  ASSUME A!AffinityAssumption, MachineOk("Linux", machine), input # <<>>,
         NEW n \in 0 .. Len(machine.cpus), NEW o \in 1 .. LinesEach(machine), LinuxScan(n, o)
  PROVE  /\ o < LinesEach(machine) => Head(input) = Line(machine, n, o + 1)
         /\ o = LinesEach(machine) => n < Len(machine.cpus) /\ Head(input) = Line(machine, n + 1, 1)
         /\ Tail(input) \in Seq(Lines)
         /\ Len(Tail(input)) = Len(machine.cpus) * LinesEach(machine) - ((n - 1) * LinesEach(machine) + o + 1)
         /\ \A i \in 1 .. Len(Tail(input)) :
               Tail(input)[i] = A!CpuInfo(machine)[(n - 1) * LinesEach(machine) + o + 1 + i]
<1> DEFINE w == LinesEach(machine)
           k == Len(machine.cpus)
           at == (n - 1) * w + o
           len == k * w
<1>1. w \in 1 .. 3 /\ k \in Nat /\ n \in 0 .. k /\ o \in 1 .. w
  BY DEF LinesEach, MachineOk
<1>2. /\ input \in Seq(Lines) /\ Len(input) = len - at /\ (o = w \/ n > 0)
      /\ \A i \in 1 .. Len(input) : input[i] = A!CpuInfo(machine)[at + i]
  BY DEF LinuxScan
<1>3. \A p \in 1 .. k, q \in 1 .. w : A!CpuInfo(machine)[(p - 1) * w + q] = Line(machine, p, q)
  BY CpuInfoLines
<1> HIDE DEF w, k
<1>4. at \in Int /\ len \in Int /\ (n - 1) * w \in Int /\ n * w \in Int
  BY <1>1
<1>5. /\ Len(input) \in Nat /\ Len(input) > 0 /\ Head(input) = input[1]
      /\ Tail(input) \in Seq(Lines) /\ Len(Tail(input)) = Len(input) - 1
      /\ \A i \in 1 .. Len(Tail(input)) : Tail(input)[i] = input[i + 1]
  BY <1>2
<1>6. Head(input) = A!CpuInfo(machine)[at + 1]
  <2>1. 1 \in 1 .. Len(input)
    BY <1>5
  <2> HIDE DEF at
  <2> QED
    BY <1>2, <1>5, <2>1
<1>7. ASSUME o < w PROVE Head(input) = Line(machine, n, o + 1)
  <2>1. n \in 1 .. k /\ o + 1 \in 1 .. w /\ at + 1 = (n - 1) * w + (o + 1)
    BY <1>1, <1>2, <1>4, <1>7
  <2> QED
    BY <1>3, <1>6, <2>1
<1>8. ASSUME o = w PROVE n < k /\ Head(input) = Line(machine, n + 1, 1)
  <2>1. (n - 1) * w + w = n * w
    BY <1>1
  <2>2. at = n * w
    BY <1>8, <2>1
  <2>3. n < k
    <3>1. n * w < len
      <4> HIDE DEF at, len
      <4> QED
        BY <1>2, <1>4, <1>5, <2>2
    <3>2. n # k
      BY <1>4, <3>1
    <3> QED
      BY <1>1, <3>2
  <2>4. n + 1 \in 1 .. k /\ 1 \in 1 .. w /\ n + 1 - 1 = n
    BY <1>1, <2>3
  <2>5. A!CpuInfo(machine)[(n + 1 - 1) * w + 1] = Line(machine, n + 1, 1)
    BY <1>3, <2>4
  <2> HIDE DEF at
  <2> QED
    BY <1>6, <2>2, <2>3, <2>4, <2>5
<1>9. Len(Tail(input)) = len - (at + 1)
  <2> HIDE DEF at, len
  <2> QED
    BY <1>2, <1>4, <1>5
<1>10. ASSUME NEW i \in 1 .. Len(Tail(input)) PROVE Tail(input)[i] = A!CpuInfo(machine)[at + 1 + i]
  <2> HIDE DEF at, len
  <2>1. i + 1 \in 1 .. Len(input) /\ at + (i + 1) = at + 1 + i
    BY <1>4, <1>5
  <2>2. Tail(input)[i] = input[i + 1]
    BY <1>5
  <2> QED
    BY <1>2, <2>1, <2>2
<1> QED
  BY <1>5, <1>7, <1>8, <1>9, <1>10 DEF w, k

LEMMA LineParts ==
  ASSUME NEW line, NEW l, NEW v, line = <<l, v>>
  PROVE  line[1] = l /\ line[2] = v
OBVIOUS

LEMMA LineForms ==
  ASSUME NEW m, NEW p
  PROVE  /\ Line(m, p, 1) = <<"processor", p - 1>>
         /\ Line(m, p, 2) = <<"physical id", m.cpus[p].package>>
         /\ Line(m, p, 3) = <<"core id", m.cpus[p].core>>
<1>1. Line(m, p, 1) = <<"processor", p - 1>>
  BY DEF Line
<1>2. Line(m, p, 2) = <<"physical id", m.cpus[p].package>>
  BY DEF Line
<1>3. Line(m, p, 3) = <<"core id", m.cpus[p].core>>
  BY DEF Line
<1> QED
  BY <1>1, <1>2, <1>3

LEMMA LinesRead ==
  ASSUME A!AffinityAssumption, AffinityInv, A!ReadLine
  PROVE  AffinityInv'
<1> DEFINE w == LinesEach(machine)
           k == Len(machine.cpus)
           f == A!flush(collector, cores)
           label == Head(input)[1]
           content == Head(input)[2]
<1>1. /\ phase = "scan" /\ platform = "Linux" /\ MachineOk("Linux", machine) /\ input # <<>> /\ accurate
      /\ UNCHANGED <<platform, machine, phase, accurate, pinned>> /\ input' = Tail(input)
      /\ \A t \in Pinners : pinned[t].core = -1
  BY DEF A!ReadLine, A!Scanning, A!Same, AffinityInv, Scan
<1>2. PICK n \in 0 .. k, o \in 1 .. w : LinuxScan(n, o)
  BY <1>1 DEF AffinityInv, Scan
<1>3. /\ o < w => Head(input) = Line(machine, n, o + 1)
      /\ o = w => n < k /\ Head(input) = Line(machine, n + 1, 1)
      /\ input' \in Seq(Lines)
      /\ Len(input') = k * w - ((n - 1) * w + o + 1)
      /\ \A i \in 1 .. Len(input') : input'[i] = A!CpuInfo(machine)[(n - 1) * w + o + 1 + i]
  BY <1>1, <1>2, NextLine
<1>4. w \in 1 .. 3 /\ k \in Nat
  BY <1>1 DEF LinesEach, MachineOk
<1>5. w' = w /\ k' = k /\ A!CpuInfo(machine)' = A!CpuInfo(machine)
  BY <1>1 DEF LinesEach, A!CpuInfo
<1>6. CASE o < w
  <2> DEFINE known == collector.coreIDToIndex
             x == machine.cpus[n]
  <2>1. /\ n > 0 /\ o \in {1, 2} /\ o + 1 \in 1 .. w
        /\ collector = [logicalProcessor |-> n - 1,
                        coreID |-> A!CoreID(IF o > 1 THEN x.package ELSE -1, IF o > 2 THEN x.core ELSE -1),
                        coreIDToIndex |-> known]
        /\ Collected(machine, cores, known, n - 1)
    BY <1>2, <1>4, <1>6, SMTT(60) DEF LinuxScan
  <2>2. /\ cores' = cores
        /\ collector' = [logicalProcessor |-> n - 1,
                         coreID |-> A!CoreID(IF o + 1 > 1 THEN x.package ELSE -1, IF o + 1 > 2 THEN x.core ELSE -1),
                         coreIDToIndex |-> known]
    <3> DEFINE c == [logicalProcessor |-> n - 1, coreID |-> A!CoreID(-1, -1), coreIDToIndex |-> known]
               d == [logicalProcessor |-> n - 1, coreID |-> A!CoreID(x.package, -1), coreIDToIndex |-> known]
    <3> HIDE DEF known, x
    <3>1. CASE o = 1
      <4>1. label = "physical id" /\ content = x.package
        <5>1. Head(input) = Line(machine, n, 2)
          BY <1>3, <1>6, <3>1
        <5>2. Line(machine, n, 2) = <<"physical id", x.package>>
          BY LineForms DEF x
        <5> QED
          BY <5>1, <5>2, LineParts
      <4>2. collector' = [collector EXCEPT !.coreID.physical = x.package] /\ cores' = cores
        BY <4>1 DEF A!ReadLine
      <4>3. collector = c
        BY <2>1, <3>1
      <4>4. [c EXCEPT !.coreID.physical = x.package] = d
        BY DEF A!CoreID
      <4> QED
        BY <3>1, <4>2, <4>3, <4>4
    <3>2. CASE o = 2
      <4>1. label = "core id" /\ content = x.core
        <5>1. Head(input) = Line(machine, n, 3)
          BY <1>3, <1>6, <3>2
        <5>2. Line(machine, n, 3) = <<"core id", x.core>>
          BY LineForms DEF x
        <5> QED
          BY <5>1, <5>2, LineParts
      <4>2. collector' = [collector EXCEPT !.coreID.core = x.core] /\ cores' = cores
        BY <4>1 DEF A!ReadLine
      <4>3. collector = d
        BY <2>1, <3>2
      <4>4. [d EXCEPT !.coreID.core = x.core]
              = [logicalProcessor |-> n - 1, coreID |-> A!CoreID(x.package, x.core), coreIDToIndex |-> known]
        BY DEF A!CoreID
      <4> QED
        BY <3>2, <4>2, <4>3, <4>4
    <3> QED
      BY <2>1, <3>1, <3>2
  <2> HIDE DEF known, x
  <2>3. collector'.coreIDToIndex = known
    BY <2>2
  <2>4. Collected(machine', cores', collector'.coreIDToIndex, n - 1)
    BY <1>1, <2>1, <2>2, <2>3
  <2>5. LinuxScan(n, o + 1)'
    <3>1. (n - 1) * w + (o + 1) = (n - 1) * w + o + 1
      <4>1. (n - 1) * w \in Int
        BY <1>2, <1>4
      <4> QED
        BY <2>1, <4>1
    <3>2. /\ Len(input') = k * w - ((n - 1) * w + (o + 1))
          /\ \A i \in 1 .. Len(input') : input'[i] = A!CpuInfo(machine)[(n - 1) * w + (o + 1) + i]
      BY <1>3, <3>1
    <3> QED
      BY <1>1, <1>3, <1>5, <2>1, <2>2, <2>3, <2>4, <3>2 DEF LinuxScan, x
  <2>6. Scan'
    <3>1. n \in 0 .. k' /\ o + 1 \in 1 .. w'
      BY <1>2, <1>5, <2>1
    <3> QED
      BY <1>1, <2>5, <3>1 DEF Scan
  <2> QED
    BY <1>1, <2>6 DEF AffinityInv
<1>7. CASE o = w
  <2>1. n < k /\ n + 1 \in 0 .. k /\ 1 \in 1 .. w
    BY <1>2, <1>3, <1>4, <1>7, SMTT(60)
  <2>2. label = "processor" /\ content = n
    <3>1. n + 1 - 1 = n
      BY <1>2, <1>4
    <3>2. Head(input) = Line(machine, n + 1, 1)
      BY <1>3, <1>7
    <3>3. Line(machine, n + 1, 1) = <<"processor", n + 1 - 1>>
      BY DEF Line
    <3> QED
      BY <3>1, <3>2, <3>3, LineParts
  <2>3. collector' = [f.collector EXCEPT !.logicalProcessor = n] /\ cores' = f.cores
    BY <2>2 DEF A!ReadLine
  <2>4. /\ Collected(machine, f.cores, f.collector.coreIDToIndex, n)
        /\ f.collector = [logicalProcessor |-> -1, coreID |-> A!CoreID(-1, -1),
                          coreIDToIndex |-> f.collector.coreIDToIndex]
    <3> HIDE DEF f
    <3> QED
      BY <1>1, <1>2, <1>7, Flushed DEF f
  <2> DEFINE known == f.collector.coreIDToIndex
  <2> HIDE DEF f
  <2>5. collector' = [logicalProcessor |-> n, coreID |-> A!CoreID(-1, -1), coreIDToIndex |-> known]
    <3> HIDE DEF known
    <3>1. f.collector = [logicalProcessor |-> -1, coreID |-> A!CoreID(-1, -1), coreIDToIndex |-> known]
      BY <2>4 DEF known
    <3> QED
      BY <2>3, <3>1
  <2>6. Collected(machine', cores', collector'.coreIDToIndex, n)
    BY <1>1, <2>3, <2>4, <2>5
  <2>7. LinuxScan(n + 1, 1)'
    <3>1. (n - 1) * w + o + 1 = n * w + 1 /\ n + 1 - 1 = n
      <4>1. (n - 1) * w + w = n * w
        BY <1>2, <1>4
      <4> QED
        BY <1>2, <1>7, <4>1
    <3>2. /\ Len(input') = k * w - ((n + 1 - 1) * w + 1)
          /\ \A i \in 1 .. Len(input') : input'[i] = A!CpuInfo(machine)[(n + 1 - 1) * w + 1 + i]
      BY <1>3, <3>1
    <3>3. n + 1 > 0 /\ n + 1 # 0 /\ ~(1 > 1) /\ ~(1 > 2)
      BY <1>2
    <3>4. collector' = [logicalProcessor |-> n, coreID |-> A!CoreID(-1, -1), coreIDToIndex |-> collector'.coreIDToIndex]
      BY <2>5
    <3> HIDE DEF w, k
    <3> QED
      BY <1>1, <1>3, <1>5, <2>6, <3>1, <3>2, <3>3, <3>4 DEF LinuxScan, w, k
  <2>8. Scan'
    <3>1. n + 1 \in 0 .. k' /\ 1 \in 1 .. w'
      BY <1>5, <2>1
    <3> QED
      BY <1>1, <2>7, <3>1 DEF Scan
  <2> QED
    BY <1>1, <2>8 DEF AffinityInv
<1> QED
  BY <1>2, <1>4, <1>6, <1>7

LEMMA FileEnds ==
  ASSUME A!AffinityAssumption, AffinityInv, A!EndOfFile
  PROVE  AffinityInv'
<1> DEFINE w == LinesEach(machine)
           k == Len(machine.cpus)
           f == A!flush(collector, cores)
<1>1. /\ phase = "scan" /\ platform = "Linux" /\ MachineOk("Linux", machine) /\ MachineOk(platform, machine)
      /\ input = <<>> /\ UNCHANGED <<platform, machine, pinned>> /\ A!Built(f.cores, TRUE)
  BY DEF A!EndOfFile, A!Scanning, A!Same, AffinityInv
<1>2. PICK n \in 0 .. k, o \in 1 .. w : LinuxScan(n, o)
  BY <1>1 DEF AffinityInv, Scan
<1>3. w \in 1 .. 3 /\ k \in Nat \ {0}
  BY <1>1 DEF LinesEach, MachineOk
<1>4. k * w - ((n - 1) * w + o) = 0
  BY <1>1, <1>2 DEF LinuxScan
<1> HIDE DEF w, k
<1>5. n = k /\ o = w
  <2>1. (k - 1) * w + w = k * w /\ k * w \in Int /\ (n - 1) * w \in Int
    BY <1>2, <1>3
  <2>2. (k - 1) * w + w = (n - 1) * w + o
    BY <1>2, <1>3, <1>4, <2>1
  <2>3. w \in Nat /\ w \in 1 .. w /\ k \in Int /\ n \in Int
    BY <1>2, <1>3
  <2> QED
    BY <1>2, <2>2, <2>3, CellsApart
<1>6. Collected(machine, f.cores, f.collector.coreIDToIndex, k)
  <2> HIDE DEF f
  <2> QED
    BY <1>1, <1>2, <1>5, Flushed DEF f, w, k
<1> HIDE DEF f
<1>7. f.cores \in Seq(Seq(Nat)) /\ Distinct(f.cores) /\ Cells(f.cores) = A!Processors(machine)
  BY <1>6 DEF Collected, A!Processors, k
<1>8. machine.reports \in {"core", "thread"} => TellsCores(machine, f.cores)
  BY <1>1, <1>6, CollectedCores
<1>9. A!Reached = A!Processors(machine)
  BY <1>1 DEF A!Reached
<1> QED
  BY <1>1, <1>7, <1>8, <1>9, ScanPins, Builds

\* The bits of a mask are its processors.
LEMMA MaskBits ==
  ASSUME NEW p, NEW m, MachineOk(p, m), NEW mask \in Masks(m)
  PROVE  /\ A!FromLowestBit(mask) \in Seq(Nat) /\ Mask(A!FromLowestBit(mask)) = mask
         /\ \A a, b \in DOMAIN A!FromLowestBit(mask) :
               A!FromLowestBit(mask)[a] = A!FromLowestBit(mask)[b] => a = b
<1> DEFINE bits == A!FromLowestBit(mask)
<1>1. mask \in SUBSET Nat /\ IsFiniteSet(mask)
  BY MaskFacts
<1>2. /\ bits \in Seq(mask)
      /\ \A i, j \in DOMAIN bits : bits[i] = bits[j] => i = j
      /\ \A x \in mask : \E i \in DOMAIN bits : bits[i] = x
  BY <1>1, LowestBits
<1> HIDE DEF bits
<1>3. Mask(bits) = mask
  BY <1>2 DEF Mask
<1>4. bits \in Seq(Nat)
  <2>1. /\ Len(bits) \in Nat /\ DOMAIN bits = 1 .. Len(bits) /\ bits = [i \in 1 .. Len(bits) |-> bits[i]]
        /\ \A i \in 1 .. Len(bits) : bits[i] \in mask
    BY <1>2
  <2>2. \A i \in 1 .. Len(bits) : bits[i] \in Nat
    BY <1>1, <2>1
  <2> QED
    BY <2>1, <2>2
<1> QED
  BY <1>2, <1>3, <1>4 DEF bits

LEMMA RecordRead ==
  ASSUME A!AffinityAssumption, AffinityInv, A!ReadRecord
  PROVE  AffinityInv'
<1> DEFINE mask == Head(input)
           bits == A!FromLowestBit(mask)
<1>1. /\ phase = "scan" /\ platform = "Win32" /\ MachineOk("Win32", machine) /\ input # <<>> /\ Win32Scan
      /\ UNCHANGED <<platform, machine, phase, pinned>> /\ input' = Tail(input)
      /\ \A t \in Pinners : pinned[t].core = -1
      /\ \/ accurate' = FALSE /\ cores' = cores
         \/ accurate' = accurate /\ cores' = Append(cores, bits)
  BY DEF A!ReadRecord, A!Scanning, A!Same, AffinityInv, Scan
<1>2. /\ mask \in Masks(machine) /\ mask = input[1] /\ 1 \in DOMAIN input /\ input' \in Seq(Masks(machine))
      /\ \A i \in DOMAIN input' : i + 1 \in DOMAIN input /\ i + 1 # 1 /\ input'[i] = input[i + 1]
      /\ \A i \in DOMAIN input : i # 1 => i - 1 \in DOMAIN input' /\ input'[i - 1] = input[i]
  <2> DEFINE tail == Tail(input)
             n == Len(input)
  <2>1. input \in Seq(Masks(machine)) /\ input # <<>>
    BY <1>1 DEF Win32Scan
  <2>2. n \in Nat /\ n > 0 /\ DOMAIN input = 1 .. n /\ mask = input[1] /\ input[1] \in Masks(machine)
    BY <2>1
  <2>3. tail \in Seq(Masks(machine)) /\ Len(tail) = n - 1 /\ \A i \in 1 .. n - 1 : tail[i] = input[i + 1]
    BY <2>1
  <2> HIDE DEF tail, n, mask
  <2>4. DOMAIN tail = 1 .. n - 1
    BY <2>3
  <2>5. \A i \in DOMAIN tail : i + 1 \in DOMAIN input /\ i + 1 # 1 /\ tail[i] = input[i + 1]
    BY <2>2, <2>3, <2>4
  <2>6. ASSUME NEW i \in DOMAIN input, i # 1 PROVE i - 1 \in DOMAIN tail /\ tail[i - 1] = input[i]
    <3>1. i - 1 \in 1 .. n - 1 /\ i - 1 + 1 = i
      BY <2>2, <2>6
    <3> QED
      BY <2>3, <2>4, <3>1
  <2>7. input' = tail /\ 1 \in DOMAIN input
    BY <1>1, <2>2 DEF tail
  <2> QED
    BY <2>2, <2>3, <2>5, <2>6, <2>7
<1>3. \A i, j \in DOMAIN input : input[i] = input[j] => i = j
  BY <1>1 DEF Win32Scan
<1>4. \A i \in DOMAIN input' : input'[i] # mask
  BY <1>2, <1>3
<1>5. \A i, j \in DOMAIN input' : input'[i] = input'[j] => i = j
  <2> SUFFICES ASSUME NEW i \in DOMAIN input', NEW j \in DOMAIN input', input'[i] = input'[j] PROVE i = j
    OBVIOUS
  <2>1. i + 1 = j + 1 /\ i \in Nat /\ j \in Nat
    <3>1. DOMAIN input' \in SUBSET Nat
      BY <1>2
    <3> QED
      BY <1>2, <1>3, <3>1
  <2> QED
    BY <2>1
<1>6. Masks(machine)' = Masks(machine)
  BY <1>1 DEF Masks, MaskOf, A!Processors, A!CoreOf
<1>7. /\ bits \in Seq(Nat) /\ Mask(bits) = mask
      /\ \A a, b \in DOMAIN bits : bits[a] = bits[b] => a = b
  BY <1>1, <1>2, MaskBits
<1>8. /\ accurate \in BOOLEAN /\ cores \in Seq(Seq(Nat))
      /\ \A k \in DOMAIN cores :
            /\ \A a, b \in DOMAIN cores[k] : cores[k][a] = cores[k][b] => a = b
            /\ Mask(cores[k]) \in Masks(machine)
            /\ \A i \in DOMAIN input : input[i] # Mask(cores[k])
      /\ \A k, l \in DOMAIN cores : Mask(cores[k]) = Mask(cores[l]) => k = l
      /\ accurate => \A f \in Masks(machine) :
            (\E i \in DOMAIN input : input[i] = f) \/ \E k \in DOMAIN cores : Mask(cores[k]) = f
  BY <1>1 DEF Win32Scan
<1>9. \A k \in DOMAIN cores : Mask(cores[k]) # mask /\ \A i \in DOMAIN input' : input'[i] # Mask(cores[k])
  BY <1>2, <1>8
<1> HIDE DEF bits, mask
<1>10. CASE accurate' = FALSE /\ cores' = cores
  <2>1. Win32Scan'
    <3>1. Masks(machine') = Masks(machine)
      BY <1>6
    <3> QED
      BY <1>2, <1>5, <1>8, <1>9, <1>10, <3>1 DEF Win32Scan
  <2> QED
    BY <1>1, <2>1 DEF AffinityInv, Scan
<1>11. CASE accurate' = accurate /\ cores' = Append(cores, bits)
  <2> DEFINE n == Len(cores)
  <2>1. /\ n \in Nat /\ DOMAIN cores = 1 .. n /\ cores' \in Seq(Seq(Nat)) /\ DOMAIN cores' = 1 .. n + 1
        /\ cores'[n + 1] = bits /\ \A k \in 1 .. n : cores'[k] = cores[k]
    BY <1>7, <1>8, <1>11
  <2> HIDE DEF n
  <2>2. \A k \in 1 .. n + 1 : k \in 1 .. n \/ k = n + 1
    BY <2>1
  <2>3. ASSUME NEW k \in DOMAIN cores'
        PROVE  /\ \A a, b \in DOMAIN cores'[k] : cores'[k][a] = cores'[k][b] => a = b
               /\ Mask(cores'[k]) \in Masks(machine)
               /\ \A i \in DOMAIN input' : input'[i] # Mask(cores'[k])
    <3>1. CASE k \in 1 .. n
      BY <1>8, <1>9, <2>1, <3>1
    <3>2. CASE k = n + 1
      BY <1>2, <1>4, <1>7, <2>1, <3>2
    <3> QED
      BY <2>1, <2>2, <3>1, <3>2
  <2>4. ASSUME NEW k \in DOMAIN cores', NEW l \in DOMAIN cores', Mask(cores'[k]) = Mask(cores'[l]) PROVE k = l
    <3>1. CASE k \in 1 .. n /\ l \in 1 .. n
      BY <1>8, <2>1, <2>4, <3>1
    <3>2. CASE k \in 1 .. n /\ l = n + 1
      BY <1>7, <1>9, <2>1, <2>4, <3>2
    <3>3. CASE k = n + 1 /\ l \in 1 .. n
      BY <1>7, <1>9, <2>1, <2>4, <3>3
    <3> QED
      BY <2>1, <2>2, <3>1, <3>2, <3>3
  <2>5. ASSUME accurate', NEW g \in Masks(machine)
        PROVE  (\E i \in DOMAIN input' : input'[i] = g) \/ \E k \in DOMAIN cores' : Mask(cores'[k]) = g
    <3>1. CASE g = mask
      <4>1. n + 1 \in DOMAIN cores'
        BY <2>1
      <4> QED
        BY <1>7, <2>1, <3>1, <4>1
    <3>2. CASE \E i \in DOMAIN input : input[i] = g /\ g # mask
      BY <1>2, <3>2
    <3>3. CASE \E k \in DOMAIN cores : Mask(cores[k]) = g
      <4>1. PICK k \in 1 .. n : Mask(cores[k]) = g
        BY <2>1, <3>3
      <4>2. k \in DOMAIN cores' /\ cores'[k] = cores[k]
        BY <2>1
      <4> QED
        BY <4>1, <4>2
    <3> QED
      BY <1>8, <1>11, <2>5, <3>1, <3>2, <3>3
  <2>6. Win32Scan'
    <3>1. Masks(machine') = Masks(machine) /\ accurate' \in BOOLEAN
      BY <1>6, <1>8, <1>11
    <3> QED
      BY <1>2, <1>5, <2>1, <2>3, <2>4, <2>5, <3>1 DEF Win32Scan
  <2> QED
    BY <1>1, <2>6 DEF AffinityInv, Scan
<1> QED
  BY <1>1, <1>10, <1>11

LEMMA RecordsEnd ==
  ASSUME A!AffinityAssumption, AffinityInv, A!EndOfRecords
  PROVE  AffinityInv'
<1>1. /\ phase = "scan" /\ platform = "Win32" /\ MachineOk("Win32", machine) /\ input = <<>> /\ Win32Scan
      /\ UNCHANGED <<platform, machine, pinned>> /\ A!Built(cores, accurate)
  BY DEF A!EndOfRecords, A!Scanning, A!Same, AffinityInv, Scan
<1>2. /\ accurate \in BOOLEAN /\ cores \in Seq(Seq(Nat))
      /\ \A k \in DOMAIN cores :
            /\ \A a, b \in DOMAIN cores[k] : cores[k][a] = cores[k][b] => a = b
            /\ Mask(cores[k]) \in Masks(machine)
      /\ \A k, l \in DOMAIN cores : Mask(cores[k]) = Mask(cores[l]) => k = l
      /\ accurate => \A f \in Masks(machine) : \E k \in DOMAIN cores : Mask(cores[k]) = f
  BY <1>1 DEF Win32Scan
<1>3. /\ \A mask \in Masks(machine) : mask \in SUBSET A!Processors(machine)
      /\ \A q \in A!Processors(machine) : MaskOf(machine, q) \in Masks(machine) /\ q \in MaskOf(machine, q)
      /\ \A mask \in Masks(machine) : \A q, r \in A!Processors(machine) :
             q \in mask => (r \in mask <=> A!CoreOf(machine, r) = A!CoreOf(machine, q))
      /\ \A f, g \in Masks(machine) : f \cap g # {} => f = g
  BY <1>1, MaskFacts
<1>4. \A k \in DOMAIN cores : \A a \in DOMAIN cores[k] : cores[k][a] \in Mask(cores[k])
  BY DEF Mask
<1>5. ASSUME NEW i \in DOMAIN cores, NEW j \in DOMAIN cores, Mask(cores[i]) \cap Mask(cores[j]) # {} PROVE i = j
  BY <1>2, <1>3, <1>5
<1>6. Distinct(cores)
  <2> SUFFICES ASSUME NEW i \in DOMAIN cores, NEW j \in DOMAIN cores, NEW a \in DOMAIN cores[i],
                      NEW b \in DOMAIN cores[j], cores[i][a] = cores[j][b]
               PROVE  i = j /\ a = b
    BY DEF Distinct
  <2>1. i = j
    BY <1>4, <1>5
  <2> QED
    BY <1>2, <2>1
<1>7. ASSUME accurate PROVE Cells(cores) = A!Processors(machine)
  <2>1. ASSUME NEW x \in Cells(cores) PROVE x \in A!Processors(machine)
    BY <1>2, <1>3, <1>4, <2>1 DEF Cells
  <2>2. ASSUME NEW q \in A!Processors(machine) PROVE q \in Cells(cores)
    <3>1. PICK k \in DOMAIN cores : Mask(cores[k]) = MaskOf(machine, q)
      BY <1>2, <1>3, <1>7
    <3>2. q \in Mask(cores[k])
      BY <1>3, <3>1
    <3> QED
      BY <3>2 DEF Mask, Cells
  <2> QED
    BY <2>1, <2>2
<1>8. TellsCores(machine, cores)
  <2> SUFFICES ASSUME NEW i \in DOMAIN cores, NEW j \in DOMAIN cores, NEW a \in DOMAIN cores[i],
                      NEW b \in DOMAIN cores[j],
                      cores[i][a] \in A!Processors(machine), cores[j][b] \in A!Processors(machine)
               PROVE  A!CoreOf(machine, cores[i][a]) = A!CoreOf(machine, cores[j][b]) <=> i = j
    BY DEF TellsCores
  <2>1. cores[i][a] \in Mask(cores[i]) /\ cores[j][b] \in Mask(cores[j])
    BY <1>4
  <2>2. cores[j][b] \in Mask(cores[i]) <=> A!CoreOf(machine, cores[j][b]) = A!CoreOf(machine, cores[i][a])
    BY <1>2, <1>3, <2>1
  <2> QED
    BY <1>5, <2>1, <2>2
<1>9. A!Reached = A!Processors(machine)
  BY <1>1 DEF A!Reached
<1> QED
  BY <1>1, <1>2, <1>6, <1>7, <1>8, <1>9, ScanPins, Builds

----------------------------------------------------------------------------
\* A thread pins itself to a processor of the core it has asked for, or stays
\* where it is.
LEMMA Pins ==
  ASSUME AffinityInv, NEW t \in Pinners, A!Pin(t)
  PROVE  AffinityInv'
<1>1. /\ phase = "built" /\ Topology /\ \A u \in Pinners : Placed(u)
      /\ MachineOk(platform, machine)
      /\ pinned = [u \in Pinners |-> pinned[u]]
      /\ \A u \in Pinners : pinned[u] = [at |-> pinned[u].at, ok |-> pinned[u].ok, core |-> pinned[u].core]
                              /\ pinned[u].core \in Int
  BY DEF AffinityInv, A!Pin
<1>2. PICK core \in 0 .. Len(cores) - 1 :
         \E hwThread \in 0 .. Len(cores[core + 1]) - 1 : A!setAffinity(t, core, hwThread)
  BY DEF A!Pin, A!getNumPhysicalCores, A!getNumHWThreadsForCore
<1>3. PICK hwThread \in 0 .. Len(cores[core + 1]) - 1 : A!setAffinity(t, core, hwThread)
  BY <1>2
<1> DEFINE i == core + 1
           a == hwThread + 1
           p == cores[i][a]
<1>4. UNCHANGED <<platform, machine, phase, input, collector, cores, accurate>>
  BY <1>3 DEF A!setAffinity, A!Same
<1>5. i \in DOMAIN cores /\ a \in DOMAIN cores[i] /\ core = i - 1 /\ core \in Int
  <2>1. cores \in Seq(Seq(Nat)) /\ i \in DOMAIN cores /\ core = i - 1 /\ core \in Int
    BY <1>1 DEF Topology
  <2>2. cores[i] \in Seq(Nat)
    BY <2>1
  <2> QED
    BY <2>1, <2>2
<1>6. Topology'
  <2>1. A!Processors(machine)' = A!Processors(machine) /\ A!Reached' = A!Reached
    BY <1>4 DEF A!Reached, A!Processors
  <2> QED
    BY <1>1, <1>4, <2>1 DEF Topology, A!Told, Distinct, Cells, TellsCores, A!Processors, A!CoreOf
<1>7. MachineOk(platform, machine)' /\ phase' = "built"
  BY <1>1, <1>4
<1>8. ASSUME NEW u \in Pinners, pinned'[u].at = pinned[u].at, pinned'[u].core = pinned[u].core
      PROVE  Placed(u)'
  BY <1>1, <1>4, <1>8 DEF Placed, A!Processors
<1>9. CASE platform \in {"Linux", "FreeBSD", "Win32"}
  <2>1. A!setAffinityRaw(t, core, p)
    BY <1>3, <1>9 DEF A!setAffinity
  <2> HIDE DEF i, a, p
  <2>2. /\ pinned' = [u \in Pinners |-> pinned'[u]]
        /\ \A u \in Pinners : /\ pinned'[u] = [at |-> pinned'[u].at, ok |-> pinned'[u].ok, core |-> pinned'[u].core]
                              /\ pinned'[u].core \in Int
        /\ \A u \in Pinners : /\ pinned'[u].at = pinned[u].at /\ pinned'[u].core = pinned[u].core
                              \/ /\ u = t /\ p \in machine.allowed
                                 /\ pinned'[u].at = {p} /\ pinned'[u].core = core
    BY <1>5, <2>1, Pinned
  <2>3. ASSUME NEW u \in Pinners, p \in machine.allowed, pinned'[u].at = {p}, pinned'[u].core = core
        PROVE  Placed(u)'
    <3>1. p \in A!Processors(machine)
      BY <1>1, <2>3 DEF MachineOk
    <3>2. /\ i \in DOMAIN cores' /\ a \in DOMAIN cores'[i] /\ pinned'[u].core = i - 1
          /\ pinned'[u].at = {cores'[i][a]} /\ cores'[i][a] \in A!Processors(machine')
      BY <1>4, <1>5, <2>3, <3>1 DEF p, A!Processors
    <3> QED
      BY <3>2 DEF Placed
  <2>4. \A u \in Pinners : Placed(u)'
    BY <1>8, <2>2, <2>3
  <2> QED
    BY <1>6, <1>7, <2>2, <2>4 DEF AffinityInv
<1>10. CASE platform \notin {"Linux", "FreeBSD", "Win32"}
  <2>1. PICK ok \in BOOLEAN : pinned' = [pinned EXCEPT ![t].ok = ok]
    BY <1>3, <1>10 DEF A!setAffinity
  <2> DEFINE new == [pinned[t] EXCEPT !.ok = ok]
  <2>2. new = [at |-> pinned[t].at, ok |-> ok, core |-> pinned[t].core]
    <3>1. pinned[t] = [at |-> pinned[t].at, ok |-> pinned[t].ok, core |-> pinned[t].core]
      BY <1>1
    <3> QED
      BY <3>1, Answer
  <2>3. pinned' = [pinned EXCEPT ![t] = new]
    BY <2>1
  <2> HIDE DEF new
  <2>4. /\ pinned' = [u \in Pinners |-> pinned'[u]] /\ pinned'[t] = new
        /\ \A u \in Pinners : u # t => pinned'[u] = pinned[u]
    BY <1>1, <2>3
  <2>5. \A u \in Pinners : pinned'[u].at = pinned[u].at /\ pinned'[u].core = pinned[u].core
    BY <2>2, <2>4
  <2>6. \A u \in Pinners : /\ pinned'[u] = [at |-> pinned'[u].at, ok |-> pinned'[u].ok, core |-> pinned'[u].core]
                            /\ pinned'[u].core \in Int
    BY <1>1, <2>2, <2>4
  <2>7. \A u \in Pinners : Placed(u)'
    BY <1>8, <2>5
  <2> QED
    BY <1>6, <1>7, <2>4, <2>6, <2>7 DEF AffinityInv
<1> QED
  BY <1>9, <1>10

LEMMA AffinityStutters ==
  ASSUME AffinityInv, UNCHANGED A!vars
  PROVE  AffinityInv'
<1>1. /\ platform' = platform /\ machine' = machine /\ phase' = phase /\ input' = input /\ collector' = collector
      /\ cores' = cores /\ accurate' = accurate /\ pinned' = pinned
  BY DEF A!vars
<1>2. MachineOk(platform, machine)' = MachineOk(platform, machine) /\ LinesEach(machine)' = LinesEach(machine)
  BY <1>1 DEF LinesEach
<1>3. Topology => Topology'
  <2>1. A!Processors(machine)' = A!Processors(machine) /\ A!Reached' = A!Reached
    BY <1>1 DEF A!Reached, A!Processors
  <2> QED
    BY <1>1, <2>1 DEF Topology, A!Told, Distinct, Cells, TellsCores, A!Processors, A!CoreOf
<1>4. \A t \in Pinners : Placed(t) => Placed(t)'
  BY <1>1 DEF Placed, A!Processors
<1>5. Win32Scan => Win32Scan'
  BY <1>1 DEF Win32Scan
<1>6. FreeBSDScan => FreeBSDScan'
  BY <1>1 DEF FreeBSDScan
<1>7. \A n, o : LinuxScan(n, o) => LinuxScan(n, o)'
  BY <1>1 DEF LinuxScan
<1>8. Scan => Scan'
  BY <1>1, <1>5, <1>6, <1>7 DEF Scan
<1> QED
  BY <1>1, <1>3, <1>4, <1>8 DEF AffinityInv

LEMMA AffinityStep ==
  ASSUME A!AffinityAssumption, AffinityInv, A!Next
  PROVE  AffinityInv'
<1>1. Constructor \in Pinners
  BY DEF A!AffinityAssumption
<1> QED
  BY <1>1, NothingKnown, LinesRead, FileEnds, Probes, RecordRead, RecordsEnd, CountsQueried, Pins
     DEF A!Next, A!Construct

\* The object never lists a processor twice; if it is accurate, it lists all of
\* them on Linux and Win32, and on FreeBSD those before the first one that the
\* constructor may not use; and threads that have pinned themselves share a
\* physical core exactly if they asked for the same one: for any machine, any
\* order in which its processors are reported, any of them that may not be used,
\* and any number of threads (Affinity_Linux.cpp:24, Affinity_FreeBSD.cpp:170,
\* Affinity_Win32.cpp:22, Affinity_Mach.h:33).
THEOREM ThreadsPinnedApart == Spec => []PinnedApart
<1> DEFINE Inv == subject = "affinity" => AffinityInv
<1>1. A!AffinityAssumption
  BY SubjectsAssumption
<1>2. Init => Inv
  BY <1>1, AffinityInitially DEF Init, AffinityInit
<1>3. Inv /\ [Next]_vars => Inv'
  <2> SUFFICES ASSUME Inv, [Next]_vars, subject' = "affinity" PROVE AffinityInv'
    OBVIOUS
  <2>1. subject = "affinity" /\ (A!Next \/ UNCHANGED affinity)
    BY DEF Next, LocksNext, WaitsNext, SemaphoresNext, AffinityNext, LocalsNext, CountersNext,
           LazyNext, NumbersNext, Rest, vars
  <2>2. CASE UNCHANGED affinity
    <3>1. UNCHANGED A!vars
      BY <2>2 DEF affinity, A!vars
    <3> QED
      BY <2>1, <3>1, AffinityStutters
  <2> QED
    BY <1>1, <2>1, <2>2, AffinityStep
<1>4. Inv => PinnedApart
  BY AffinityInvImplies DEF PinnedApart
<1> QED
  BY <1>2, <1>3, <1>4, PTL DEF Spec
=============================================================================
