--------------------------- MODULE MutexLazyInit ---------------------------
(***************************************************************************)
(* A mutex without a constructor (src/turf/impl/Mutex_LazyInit.h): the     *)
(* first lock() constructs it, by double-checked locking under a spin      *)
(* lock; the destructor returns the object to its zeroed state, after      *)
(* which it may be locked, and so constructed, again.                      *)
(*                                                                         *)
(* What makes double-checked locking hard is not the order of the steps    *)
(* but what each thread may still read.  seen[t] says that the             *)
(* construction of the mutex and the store to m_initFlag happen before     *)
(* whatever t does next.  A thread that has not seen them may read false   *)
(* from m_initFlag after it became true.  Release stores publish what the  *)
(* storing thread has seen (flagCarries, spinCarries) and acquiring reads  *)
(* of the stored value take it over.                                       *)
(***************************************************************************)
EXTENDS Naturals

CONSTANTS Threads, NoThread, MaxDepth   \* as in Mutex

LazyAssumption == NoThread \notin Threads /\ MaxDepth \in Nat \ {0}

VARIABLES
    pc,            \* where each thread is in lock() or unlock()
    seen,          \* does construction happen before the thread's next step?
    m_initFlag, flagCarries,
    m_spinLock, spinCarries,
    built,         \* constructions of the buffer since it was last zeroed
    owner, depth   \* the mutex in m_buffer

flag   == <<m_initFlag, flagCarries>>
spin   == <<m_spinLock, spinCarries>>
buffer == <<built, owner, depth>>
vars   == <<pc, seen, flag, spin, buffer>>

M == INSTANCE Mutex

Pcs == {"idle", "checkFlag", "spin", "recheck", "construct", "setFlag", "unspin", "lockMutex"}

Zeroed == m_initFlag = FALSE /\ flagCarries = FALSE /\ m_spinLock = FALSE /\ spinCarries = FALSE

Init ==
    /\ pc = [t \in Threads |-> "idle"] /\ seen = [t \in Threads |-> FALSE]
    /\ Zeroed
    /\ built = 0 /\ M!Constructed

Go(t, from, to) == pc[t] = from /\ pc' = [pc EXCEPT ![t] = to]

Holds(t) == owner = t

\* The values a load of m_initFlag by t may return.
Readable(t) == {m_initFlag} \cup (IF seen[t] THEN {} ELSE {FALSE})

----------------------------------------------------------------------------
(* lock(), called by any thread, recursively too.                          *)

CallLock(t) ==
    /\ Holds(t) => depth < MaxDepth
    /\ Go(t, "idle", "checkFlag")
    /\ UNCHANGED <<seen, flag, spin, buffer>>

\* m_initFlag.load(Acquire): true takes over what its store carries.
FlagSet(t) ==
    /\ Go(t, "checkFlag", "lockMutex")
    /\ TRUE \in Readable(t)
    /\ seen' = [seen EXCEPT ![t] = @ \/ flagCarries]
    /\ UNCHANGED <<flag, spin, buffer>>

FlagClear(t) ==
    /\ Go(t, "checkFlag", "spin")
    /\ FALSE \in Readable(t)
    /\ UNCHANGED <<seen, flag, spin, buffer>>

\* Mutant: the compareExchange without Acquire.
TakeSpinLockRelaxed(t) ==
    /\ Go(t, "spin", "recheck")
    /\ ~m_spinLock /\ m_spinLock' = TRUE
    /\ UNCHANGED <<seen, flag, spinCarries, buffer>>

\* The compareExchange that succeeds; one that fails changes nothing.
TakeSpinLock(t) ==
    /\ Go(t, "spin", "recheck")
    /\ ~m_spinLock /\ m_spinLock' = TRUE
    /\ seen' = [seen EXCEPT ![t] = @ \/ spinCarries]
    /\ UNCHANGED <<flag, spinCarries, buffer>>

\* Mutant: an early return that keeps the spin lock.
AlreadyBuiltKeepsLock(t) ==
    /\ Go(t, "recheck", "lockMutex")
    /\ TRUE \in Readable(t)
    /\ UNCHANGED <<seen, flag, spin, buffer>>

\* m_initFlag.loadNonatomic(): no acquire, it relies on the spin lock.
AlreadyBuilt(t) ==
    /\ Go(t, "recheck", "unspin")
    /\ TRUE \in Readable(t)
    /\ UNCHANGED <<seen, flag, spin, buffer>>

\* Mutant: no second check.
NotBuiltUnchecked(t) ==
    /\ Go(t, "recheck", "construct")
    /\ UNCHANGED <<seen, flag, spin, buffer>>

NotBuilt(t) ==
    /\ Go(t, "recheck", "construct")
    /\ FALSE \in Readable(t)
    /\ UNCHANGED <<seen, flag, spin, buffer>>

\* Placement new: whatever state the buffer held is overwritten.
Construct(t) ==
    /\ Go(t, "construct", "setFlag")
    /\ built' = built + 1 /\ owner' = NoThread /\ depth' = 0
    /\ UNCHANGED <<seen, flag, spin>>

\* Mutant: the store to the flag without Release.
SetFlagRelaxed(t) ==
    /\ Go(t, "setFlag", "unspin")
    /\ m_initFlag' = TRUE /\ flagCarries' = FALSE
    /\ seen' = [seen EXCEPT ![t] = TRUE]
    /\ UNCHANGED <<spin, buffer>>

\* store(true, Release), by the thread that has just constructed.
SetFlag(t) ==
    /\ Go(t, "setFlag", "unspin")
    /\ m_initFlag' = TRUE /\ flagCarries' = TRUE
    /\ seen' = [seen EXCEPT ![t] = TRUE]
    /\ UNCHANGED <<spin, buffer>>

ReleaseSpinLock(t) ==
    /\ Go(t, "unspin", "lockMutex")
    /\ m_spinLock' = FALSE /\ spinCarries' = seen[t]
    /\ UNCHANGED <<seen, flag, buffer>>

LockMutex(t) ==
    /\ Go(t, "lockMutex", "idle")
    /\ M!Lock(t)
    /\ UNCHANGED <<seen, flag, spin, built>>

Unlock(t) ==
    /\ pc[t] = "idle" /\ M!Unlock(t)
    /\ UNCHANGED <<pc, seen, flag, spin, built>>

\* ~Mutex_LazyInit, under its documented condition that no thread is locking;
\* a lock() made later happens after it, so nobody reads an older true.
Destroy ==
    /\ \A t \in Threads : pc[t] = "idle" /\ ~Holds(t)
    /\ m_initFlag
    /\ m_initFlag' = FALSE /\ flagCarries' = FALSE
    /\ m_spinLock' = FALSE /\ spinCarries' = FALSE
    /\ seen' = [t \in Threads |-> FALSE]
    /\ built' = 0 /\ owner' = NoThread /\ depth' = 0
    /\ UNCHANGED pc

LazyInit(t) ==
    \/ TakeSpinLock(t) \/ AlreadyBuilt(t) \/ NotBuilt(t)
    \/ Construct(t) \/ SetFlag(t) \/ ReleaseSpinLock(t)

Step(t) == FlagSet(t) \/ FlagClear(t) \/ LazyInit(t) \/ LockMutex(t)

Next ==
    \/ \E t \in Threads : CallLock(t) \/ Step(t) \/ Unlock(t)
    \/ Destroy

Spec == Init /\ [][Next]_vars

InLazyInit(t) == pc[t] \in {"spin", "recheck", "construct", "setFlag", "unspin"}

----------------------------------------------------------------------------
(* Properties.                                                             *)

\* Types; a second construction shows in built and is not a type error.
TypeOK ==
    /\ pc \in [Threads -> Pcs] /\ seen \in [Threads -> BOOLEAN]
    /\ m_initFlag \in BOOLEAN /\ flagCarries \in BOOLEAN
    /\ m_spinLock \in BOOLEAN /\ spinCarries \in BOOLEAN
    /\ built \in Nat /\ M!TypeOK

\* The mutex is constructed once between two zeroings: a second placement new
\* would overwrite a mutex that other threads already hold or wait for.
BuiltOnce == built <= 1

\* getMutex().lock() and unlock() operate on a mutex whose construction happens
\* before them, on every path through lock(), the one that skips lazyInit too.
LockSeesConstruction ==
    \A t \in Threads : pc[t] = "lockMutex" \/ Holds(t) => built >= 1 /\ seen[t]

\* TURF_ASSERT(m_initFlag.loadNonatomic()) in unlock() cannot fail.
UnlockAssertHolds == \A t \in Threads : Holds(t) => FALSE \notin Readable(t)

\* To its users the object is a mutex that has always been there: laziness,
\* racing first locks, destruction and reuse do not show.
ImplementsMutex == M!Spec

\* Nobody is stuck in lazyInit, and it is over for all at some time: the spin
\* lock is always given back, and once the flag is set only those who have not
\* seen it come in, each once.
LazyInitEnds ==
    (\E t \in Threads : InLazyInit(t)) ~> (\A t \in Threads : ~InLazyInit(t))
=============================================================================
