---------------------------- MODULE LocksProofs ----------------------------
(***************************************************************************)
(* Theorems about Locks, for any number of threads and iterations: what    *)
(* the race detector reports, and that the tests pass with every adapter.  *)
(***************************************************************************)
EXTENDS Locks, FiniteSetTheorems, NaturalsInduction, WellFoundedInduction, TLAPS

----------------------------------------------------------------------------
(* The inductive invariant.  A worker is inside between the constructor    *)
(* and the destructor of its guard.                                        *)

InsidePlaces == {"load", "store", "unlock"}

Inside(w) == worker[w].at \in InsidePlaces

\* A mutex never touches the detector's flag.
Untouched ==
    kind.blocking => race = [entered |-> FALSE, reported |-> FALSE, happened |-> FALSE]

\* The test with the detector is MutexTester.
DetectorTest ==
    /\ tester = "MutexTester" /\ kind = RaceDetector
    /\ worker = [w \in Workers |-> worker[w]]
    /\ \A w \in Workers :
           "at" \in DOMAIN worker[w] /\ worker[w].at \in InsidePlaces \cup {"top", "exited"}

\* Until a race is reported there was none, and the flag says whether some
\* thread, then the only one, is inside.
Flagged ==
    /\ race.reported <=> race.happened
    /\ ~race.reported =>
           /\ race.entered <=> \E w \in Workers : Inside(w)
           /\ \A v, w \in Workers : Inside(v) /\ Inside(w) => v = w

TypeOK ==
    /\ kind \in [reentrant : BOOLEAN, shareable : BOOLEAN, blocking : BOOLEAN]
    /\ race \in [entered : BOOLEAN, reported : BOOLEAN, happened : BOOLEAN]

IInv == TypeOK /\ Untouched /\ (~kind.blocking => DetectorTest /\ Flagged)

----------------------------------------------------------------------------
\* A thread goes to a place, whatever else it remembers.
Moves(w, place) ==
    \E local : Go(w, local) /\ "at" \in DOMAIN local /\ local.at = place

\* Only one thread moves.
LEMMA Moved ==
  ASSUME DetectorTest, NEW w \in Workers, NEW place, Moves(w, place)
  PROVE  /\ worker' = [v \in Workers |-> worker'[v]]
         /\ \A v \in Workers : "at" \in DOMAIN worker'[v]
         /\ worker'[w].at = place
         /\ \A v \in Workers \ {w} : worker'[v] = worker[v]
<1>1. PICK local : Go(w, local) /\ "at" \in DOMAIN local /\ local.at = place
  BY DEF Moves
<1>2. worker' = [worker EXCEPT ![w] = local]
  BY <1>1 DEF Go
<1> QED
  BY <1>1, <1>2 DEF DetectorTest

\* The steps of MutexTester.
LEMMA Places ==
  ASSUME DetectorTest, NEW w \in Workers
  PROVE  /\ EnterExclusive(w) => At(w, "top") /\ Moves(w, "load")
         /\ Load(w) => At(w, "load") /\ Moves(w, "store")
         /\ Store(w) => At(w, "store") /\ Moves(w, "unlock")
         /\ LeaveExclusive(w) => At(w, "unlock") /\ Moves(w, "top")
         /\ Exit(w) => At(w, "top") /\ Moves(w, "exited")
<1>1. ASSUME EnterExclusive(w) PROVE At(w, "top") /\ Moves(w, "load")
  <2> DEFINE local == [worker[w] EXCEPT !.at = "load"]
  <2>1. Go(w, local) /\ At(w, "top")
    BY <1>1 DEF EnterExclusive, DetectorTest
  <2>2. "at" \in DOMAIN local /\ local.at = "load"
    BY DEF DetectorTest
  <2> QED
    BY <2>1, <2>2 DEF Moves
<1>2. ASSUME Load(w) PROVE At(w, "load") /\ Moves(w, "store")
  <2> DEFINE local == [worker[w] EXCEPT !.at = "store", !.local = shared[0]]
  <2>1. Go(w, local) /\ At(w, "load")
    BY <1>2 DEF Load
  <2>2. "at" \in DOMAIN local /\ local.at = "store"
    BY DEF DetectorTest
  <2> QED
    BY <2>1, <2>2 DEF Moves
<1>3. ASSUME Store(w) PROVE At(w, "store") /\ Moves(w, "unlock")
  <2> DEFINE sum == worker[w].local + Amount(w)
             local == [worker[w] EXCEPT !.last = sum, !.tally = @ + Amount(w),
                           !.at = "unlock", !.left = @]
  <2>1. Go(w, local) /\ At(w, "store")
    BY <1>3 DEF Store, DetectorTest
  <2>2. "at" \in DOMAIN local /\ local.at = "unlock"
    BY DEF DetectorTest
  <2> QED
    BY <2>1, <2>2 DEF Moves
<1>4. ASSUME LeaveExclusive(w) PROVE At(w, "unlock") /\ Moves(w, "top")
  <2> DEFINE local == [worker[w] EXCEPT !.at = "top", !.left = @ - 1, !.local = 0, !.last = 0]
  <2>1. Go(w, local) /\ At(w, "unlock")
    BY <1>4 DEF LeaveExclusive
  <2>2. "at" \in DOMAIN local /\ local.at = "top"
    BY DEF DetectorTest
  <2> QED
    BY <2>1, <2>2 DEF Moves
<1>5. ASSUME Exit(w) PROVE At(w, "top") /\ Moves(w, "exited")
  <2> DEFINE local == [worker[w] EXCEPT !.at = "exited"]
  <2>1. Go(w, local) /\ At(w, "top")
    BY <1>5 DEF Exit
  <2>2. "at" \in DOMAIN local /\ local.at = "exited"
    BY DEF DetectorTest
  <2> QED
    BY <2>1, <2>2 DEF Moves
<1> QED
  BY <1>1, <1>2, <1>3, <1>4, <1>5

\* A mutex leaves the detector alone.
LEMMA Blocked ==
  ASSUME kind.blocking, Next
  PROVE  UNCHANGED <<kind, race>>
<1>1. PICK w \in Workers : Section(w) \/ Recursive(w) \/ Exit(w)
  BY DEF Next
<1>2. CASE Section(w)
  BY <1>2 DEF Section, EnterExclusive, Load, Store, Fill, LeaveExclusive, EnterShared, Check,
              LeaveShared, Take, Release, SharedLockGuard, EndSharedLockGuard, Same
<1>3. CASE Recursive(w)
  BY <1>3 DEF Recursive, Draw, UnlockOne, LockOne, TryLockFails, Reached, Unwind, Take, Release, Same
<1>4. CASE Exit(w)
  BY <1>4 DEF Exit, Same
<1> QED
  BY <1>1, <1>2, <1>3, <1>4

\* With the detector the other testers' steps cannot be taken.
LEMMA OnlyMutexTester ==
  ASSUME DetectorTest, Next
  PROVE  \E w \in Workers :
             EnterExclusive(w) \/ Load(w) \/ Store(w) \/ LeaveExclusive(w) \/ Exit(w)
<1>1. PICK w \in Workers : Section(w) \/ Recursive(w) \/ Exit(w)
  BY DEF Next
<1>2. worker[w].at \notin {"fill", "read", "unlockShared", "adjust"} /\ ~kind.shareable
  BY DEF DetectorTest, InsidePlaces, RaceDetector, Adapter
<1>3. ~(Fill(w) \/ EnterShared(w) \/ Check(w) \/ LeaveShared(w))
  BY <1>2 DEF Fill, EnterShared, Check, LeaveShared, At
<1>4. ~(Draw(w) \/ UnlockOne(w) \/ LockOne(w) \/ TryLockFails(w) \/ Reached(w)
        \/ Unwind(w))
  BY <1>2 DEF Draw, UnlockOne, LockOne, TryLockFails, Reached, Unwind, At,
                DetectorTest
<1> QED
  BY <1>1, <1>3, <1>4 DEF Section, Recursive

----------------------------------------------------------------------------
(* The detector's steps.                                                   *)

LEMMA StillDetectorTest ==
  ASSUME DetectorTest, NEW w \in Workers, NEW place \in InsidePlaces \cup {"top", "exited"},
         Moves(w, place), Same
  PROVE  DetectorTest'
<1>1. \A v \in Workers : worker'[v].at \in InsidePlaces \cup {"top", "exited"}
  BY Moved DEF DetectorTest
<1> QED
  BY <1>1, Moved DEF DetectorTest, Same, RaceDetector, Adapter

\* Inside the section nothing changes for the detector.
LEMMA WithinSection ==
  ASSUME DetectorTest, Flagged, NEW w \in Workers, NEW place \in InsidePlaces,
         Inside(w), Moves(w, place), UNCHANGED race
  PROVE  Flagged'
<1>1. ASSUME NEW v \in Workers PROVE Inside(v)' <=> Inside(v)
  BY Moved DEF Inside
<1> QED
  BY <1>1 DEF Flagged

\* Entering reports if and only if somebody is inside.
LEMMA Enters ==
  ASSUME TypeOK, DetectorTest, Flagged, NEW w \in Workers, ~Inside(w), Moves(w, "load"), Take(w)
  PROVE  Flagged' /\ race' \in [entered : BOOLEAN, reported : BOOLEAN, happened : BOOLEAN]
<1> DEFINE others == \E v \in Workers \ {w} : Inside(v)
<1>1. race' = [entered |-> TRUE, reported |-> race.reported \/ race.entered,
               happened |-> race.happened \/ others]
  BY DEF Take, DetectorTest, RaceDetector, Adapter, Inside, InsidePlaces
<1>2. /\ race'.entered /\ (race'.reported <=> race.reported \/ race.entered)
      /\ (race'.happened <=> race.happened \/ others)
      /\ race' \in [entered : BOOLEAN, reported : BOOLEAN, happened : BOOLEAN]
  BY <1>1, Zenon DEF TypeOK
<1>3. Inside(w)' /\ \A v \in Workers \ {w} : Inside(v)' <=> Inside(v)
  BY Moved DEF Inside, InsidePlaces
<1>4. ~race.reported => (race.entered <=> others)
  BY DEF Flagged
<1> HIDE DEF others
<1>5. race'.reported <=> race'.happened
  BY <1>2, <1>4 DEF Flagged
<1>6. ASSUME ~race'.reported
      PROVE  /\ race'.entered <=> \E v \in Workers : Inside(v)'
             /\ \A u, v \in Workers : Inside(u)' /\ Inside(v)' => u = v
  <2>1. ~others
    BY <1>2, <1>4, <1>6
  <2>2. \A v \in Workers \ {w} : ~Inside(v)'
    BY <1>3, <2>1 DEF others
  <2> QED
    BY <1>2, <1>3, <2>2
<1> QED
  BY <1>2, <1>5, <1>6 DEF Flagged

\* Leaving clears the flag: with no race so far nobody else is inside.
LEMMA Leaves ==
  ASSUME TypeOK, DetectorTest, Flagged, NEW w \in Workers, Inside(w), Moves(w, "top"), Release(w)
  PROVE  Flagged' /\ race' \in [entered : BOOLEAN, reported : BOOLEAN, happened : BOOLEAN]
<1>1. race' = [race EXCEPT !.entered = FALSE]
  BY DEF Release, DetectorTest, RaceDetector, Adapter
<1>2. /\ ~race'.entered /\ race'.reported = race.reported /\ race'.happened = race.happened
      /\ race' \in [entered : BOOLEAN, reported : BOOLEAN, happened : BOOLEAN]
  BY <1>1 DEF TypeOK
<1>3. ~Inside(w)' /\ \A v \in Workers \ {w} : Inside(v)' <=> Inside(v)
  BY Moved DEF Inside, InsidePlaces
<1>4. ~race.reported => \A v \in Workers \ {w} : ~Inside(v)
  BY DEF Flagged
<1> QED
  BY <1>2, <1>3, <1>4 DEF Flagged

LEMMA Outside ==
  ASSUME DetectorTest, Flagged, NEW w \in Workers, ~Inside(w), Moves(w, "exited"), UNCHANGED race
  PROVE  Flagged'
<1>1. ASSUME NEW v \in Workers PROVE Inside(v)' <=> Inside(v)
  BY Moved DEF Inside, InsidePlaces
<1> QED
  BY <1>1 DEF Flagged

LEMMA DetectorStep ==
  ASSUME TypeOK, DetectorTest, Flagged, Next
  PROVE  /\ DetectorTest' /\ Flagged'
         /\ race' \in [entered : BOOLEAN, reported : BOOLEAN, happened : BOOLEAN]
<1>1. PICK w \in Workers :
          EnterExclusive(w) \/ Load(w) \/ Store(w) \/ LeaveExclusive(w) \/ Exit(w)
  BY OnlyMutexTester
<1>2. CASE EnterExclusive(w)
  <2>1. Moves(w, "load") /\ ~Inside(w) /\ Take(w) /\ Same
    BY <1>2, Places DEF EnterExclusive, At, Inside, InsidePlaces
  <2> QED
    BY <2>1, Enters, StillDetectorTest DEF InsidePlaces
<1>3. CASE Load(w)
  <2>1. Moves(w, "store") /\ Inside(w) /\ Same /\ UNCHANGED race
    BY <1>3, Places DEF Load, At, Inside, InsidePlaces
  <2> QED
    BY <2>1, WithinSection, StillDetectorTest DEF InsidePlaces, TypeOK
<1>4. CASE Store(w)
  <2>1. Moves(w, "unlock") /\ Inside(w) /\ Same /\ UNCHANGED race
    BY <1>4, Places DEF Store, At, Inside, InsidePlaces
  <2> QED
    BY <2>1, WithinSection, StillDetectorTest DEF InsidePlaces, TypeOK
<1>5. CASE LeaveExclusive(w)
  <2>1. Moves(w, "top") /\ Inside(w) /\ Release(w) /\ Same
    BY <1>5, Places DEF LeaveExclusive, At, Inside, InsidePlaces
  <2> QED
    BY <2>1, Leaves, StillDetectorTest
<1>6. CASE Exit(w)
  <2>1. Moves(w, "exited") /\ ~Inside(w) /\ Same /\ UNCHANGED race
    BY <1>6, Places DEF Exit, At, Inside, InsidePlaces
  <2> QED
    BY <2>1, Outside, StillDetectorTest DEF TypeOK
<1> QED
  BY <1>1, <1>2, <1>3, <1>4, <1>5, <1>6

LEMMA DetectorInitially == ASSUME Init PROVE IInv
<1>1. PICK s \in Subjects : Start(s[1], s[2])
  BY DEF Init
<1>2. s[2] \in {Mutex_POSIX, Mutex_Win32, Mutex_CPP11, Mutex_Boost, Mutex_SpinLock,
                RWLock_POSIX, RWLock_Win32, RaceDetector}
      /\ (s[2] = RaceDetector => s[1] = "MutexTester")
  BY DEF Subjects, Adapter, Mutex_POSIX, Mutex_Win32, Mutex_CPP11, Mutex_Boost, Mutex_SpinLock,
         RWLock_POSIX, RWLock_Win32, RaceDetector
<1>3. TypeOK
  <2>1. ASSUME NEW r \in BOOLEAN, NEW t \in BOOLEAN, NEW b \in BOOLEAN
        PROVE  Adapter(r, t, b) \in [reentrant : BOOLEAN, shareable : BOOLEAN, blocking : BOOLEAN]
    BY DEF Adapter
  <2>2. kind \in [reentrant : BOOLEAN, shareable : BOOLEAN, blocking : BOOLEAN]
    BY <1>1, <1>2, <2>1, ZenonT(60) DEF Start, Mutex_POSIX, Mutex_Win32, Mutex_CPP11, Mutex_Boost,
                            Mutex_SpinLock, RWLock_POSIX, RWLock_Win32, RaceDetector
  <2>3. race \in [entered : BOOLEAN, reported : BOOLEAN, happened : BOOLEAN]
    BY <1>1 DEF Start
  <2> QED
    BY <2>2, <2>3 DEF TypeOK
<1>4. kind.blocking \/ kind = RaceDetector
  BY <1>1, <1>2 DEF Start, Adapter, Mutex_POSIX, Mutex_Win32, Mutex_CPP11, Mutex_Boost,
                    Mutex_SpinLock, RWLock_POSIX, RWLock_Win32
<1>5. Untouched
  BY <1>1 DEF Start, Untouched
<1>6. ASSUME NEW w \in Workers PROVE "at" \in DOMAIN worker[w] /\ worker[w].at = "top"
  BY <1>1 DEF Start, Fresh
<1>7. ~kind.blocking => DetectorTest
  BY <1>1, <1>2, <1>4, <1>6 DEF Start, DetectorTest
<1>8. Flagged
  BY <1>1, <1>6 DEF Start, Flagged, Inside, InsidePlaces
<1> QED
  BY <1>3, <1>5, <1>7, <1>8 DEF IInv

LEMMA DetectorSteps == ASSUME IInv, [Next]_vars PROVE IInv'
<1>1. CASE Next /\ kind.blocking
  BY <1>1, Blocked DEF IInv, TypeOK, Untouched
<1>2. CASE Next /\ ~kind.blocking
  BY <1>2, DetectorStep DEF IInv, TypeOK, Untouched, DetectorTest
<1>3. CASE UNCHANGED vars
  BY <1>3 DEF vars, IInv, TypeOK, Untouched, DetectorTest, Flagged, Inside
<1> QED
  BY <1>1, <1>2, <1>3

\* The race detector reports if and only if two threads have been between its
\* guard's constructor and its destructor at once, for any number of threads
\* and iterations (RaceDetector.h:35, 50).
THEOREM DetectorExact == Spec => []RacesReported
<1>1. Init => IInv
  BY DetectorInitially
<1>2. IInv /\ [Next]_vars => IInv'
  BY DetectorSteps
<1>3. IInv => RacesReported
  BY DEF IInv, Untouched, Flagged, RacesReported
<1> QED
  BY <1>1, <1>2, <1>3, PTL DEF Spec

----------------------------------------------------------------------------
(* Induction over numbers and over finite sets, stated for sets.           *)

\* A set of natural numbers has a least one.
LEMMA LeastNat ==
  ASSUME NEW T \in SUBSET Nat, T # {}
  PROVE  \E x \in T : \A y \in T : x <= y
<1> DEFINE R == {ss \in Nat \X Nat : ss[1] < ss[2]}
<1>1. OpToRel(<, Nat) = R
  BY DEF OpToRel
<1>2. IsWellFoundedOn(R, Nat)
  BY <1>1, NatLessThanWellFounded
<1>3. \E x \in T : \A y \in T : <<y, x>> \notin R
  <2> HIDE DEF R
  <2> QED
    BY <1>2, WFMin
<1>4. PICK x \in T : \A y \in T : <<y, x>> \notin R
  BY <1>3
<1>5. \A y \in T : ~(y < x)
  BY <1>4
<1> QED
  BY <1>5
\* Induction over the subsets of a finite set, stated for a set of them.
LEMMA SubsetInduction ==
  ASSUME NEW S, IsFiniteSet(S), NEW T,
         \A s \in SUBSET S : (\A x \in s : s \ {x} \in T) => s \in T
  PROVE  \A s \in SUBSET S : s \in T
<1> SUFFICES ASSUME NEW u \in SUBSET S, u \notin T
             PROVE  FALSE
  OBVIOUS
<1> DEFINE N == {n \in Nat : \E s \in SUBSET S : s \notin T /\ Cardinality(s) = n}
<1>1. \A s \in SUBSET S : IsFiniteSet(s) /\ Cardinality(s) \in Nat
  BY FS_Subset, FS_CardinalityType
<1>2. N \in SUBSET Nat /\ N # {}
  BY <1>1
<1>3. PICK n \in N : \A m \in N : n <= m
  <2> HIDE DEF N
  <2> QED
    BY <1>2, LeastNat
<1>4. PICK s \in SUBSET S : s \notin T /\ Cardinality(s) = n
  BY <1>3
<1>5. PICK x \in s : s \ {x} \notin T
  BY <1>4
<1>6. Cardinality(s \ {x}) = n - 1 /\ n \in Nat
  BY <1>1, <1>4, <1>5, FS_RemoveElement
<1>7. n - 1 \in N
  <2>1. s \ {x} \in SUBSET S
    OBVIOUS
  <2> QED
    BY <1>1, <1>5, <1>6, <2>1
<1> QED
  BY <1>3, <1>6, <1>7

----------------------------------------------------------------------------
(* Sums over finite sets.                                                  *)

Chosen(s) == CHOOSE x \in s : TRUE

\* What the sums of a function over the subsets of a set satisfy.
Summed(f, S, sum) ==
    sum = [s \in SUBSET S |-> IF s = {} THEN 0 ELSE f[Chosen(s)] + sum[s \ {Chosen(s)}]]

Sums(f, S) == CHOOSE sum : Summed(f, S, sum)

\* There are such sums: they are found in the order of the subsets' sizes.
LEMMA SumsExist ==
  ASSUME NEW S, IsFiniteSet(S), NEW f
  PROVE  Summed(f, S, Sums(f, S))
<1> DEFINE Upto(n) == {s \in SUBSET S : Cardinality(s) <= n}
           Found(n, h) == h = [s \in Upto(n) |-> IF s = {} THEN 0
                                                 ELSE f[Chosen(s)] + h[s \ {Chosen(s)}]]
           N == {n \in Nat : ~\E h : Found(n, h)}
<1>1. \A s \in SUBSET S : IsFiniteSet(s) /\ Cardinality(s) \in Nat
  BY FS_Subset, FS_CardinalityType
<1>2. \A s \in SUBSET S : s # {} => Chosen(s) \in s /\ Cardinality(s \ {Chosen(s)}) = Cardinality(s) - 1
                                    /\ s \ {Chosen(s)} \in SUBSET S
  BY <1>1, FS_RemoveElement DEF Chosen
<1>3. \E h : Found(0, h)
  <2> DEFINE h == [s \in Upto(0) |-> 0]
  <2>1. \A s \in Upto(0) : s = {}
    BY <1>1, FS_EmptySet
  <2>2. Found(0, h)
    BY <2>1
  <2> QED
    BY <2>2
<1>4. ASSUME NEW n \in Nat, NEW h, Found(n, h) PROVE \E g : Found(n + 1, g)
  <2> DEFINE g == [s \in Upto(n + 1) |-> IF s = {} THEN 0
                                         ELSE f[Chosen(s)] + h[s \ {Chosen(s)}]]
  <2>1. ASSUME NEW s \in Upto(n) PROVE s \in Upto(n + 1) /\ g[s] = h[s]
    <3>1. s \in Upto(n + 1)
      BY <1>1
    <3>2. h[s] = IF s = {} THEN 0 ELSE f[Chosen(s)] + h[s \ {Chosen(s)}]
      BY <1>4
    <3> QED
      BY <3>1, <3>2
  <2>2. ASSUME NEW s \in Upto(n + 1), s # {} PROVE s \ {Chosen(s)} \in Upto(n)
    BY <1>1, <1>2, <2>2
  <2>3. \A s \in Upto(n + 1) : s # {} => g[s \ {Chosen(s)}] = h[s \ {Chosen(s)}]
    <3> HIDE DEF Upto, g
    <3> QED
      BY <2>1, <2>2
  <2> HIDE DEF Upto
  <2>4. g = [s \in Upto(n + 1) |-> IF s = {} THEN 0 ELSE f[Chosen(s)] + g[s \ {Chosen(s)}]]
    BY <2>3
  <2> HIDE DEF g
  <2> QED
    BY <2>4
<1>5. N = {}
  <2> SUFFICES ASSUME N # {} PROVE FALSE
    OBVIOUS
  <2>1. N \in SUBSET Nat
    OBVIOUS
  <2>2. PICK n \in N : \A m \in N : n <= m
    <3> HIDE DEF N
    <3> QED
      BY <2>1, LeastNat
  <2> HIDE DEF Found
  <2>3. n \in Nat \ {0} /\ ~\E h : Found(n, h)
    BY <1>3, <2>2
  <2>4. n - 1 \in Nat /\ n - 1 \notin N
    BY <2>2, <2>3
  <2>5. PICK h : Found(n - 1, h)
    BY <2>4
  <2>6. (n - 1) + 1 = n
    BY <2>3
  <2> QED
    BY <1>4, <2>3, <2>4, <2>5, <2>6
<1>6. Cardinality(S) \in Nat /\ Upto(Cardinality(S)) = SUBSET S
  BY FS_Subset, FS_CardinalityType
<1>7. PICK h : Found(Cardinality(S), h)
  <2> HIDE DEF Found
  <2> QED
    BY <1>5, <1>6
<1>8. Summed(f, S, h)
  <2> HIDE DEF Upto
  <2> QED
    BY <1>6, <1>7 DEF Summed
<1> QED
  BY <1>8 DEF Sums

\* The sum over a set is the sum over all but one of its elements, and the one.
LEMMA SumsAre ==
  ASSUME NEW S, IsFiniteSet(S), NEW f
  PROVE  /\ Sums(f, S)[{}] = 0
         /\ \A s \in SUBSET S : s # {} =>
                \E x \in s : Sums(f, S)[s] = f[x] + Sums(f, S)[s \ {x}] /\ x = Chosen(s)
<1> DEFINE sum == Sums(f, S)
<1>1. Summed(f, S, sum)
  BY SumsExist
<1> HIDE DEF sum
<1>2. \A s \in SUBSET S : sum[s] = IF s = {} THEN 0 ELSE f[Chosen(s)] + sum[s \ {Chosen(s)}]
  BY <1>1, Zenon DEF Summed
<1>3. \A s \in SUBSET S : s # {} => Chosen(s) \in s
  BY DEF Chosen
<1>4. sum[{}] = 0
  BY <1>2
<1>5. \A s \in SUBSET S : s # {} => \E x \in s : sum[s] = f[x] + sum[s \ {x}] /\ x = Chosen(s)
  BY <1>2, <1>3
<1> QED
  BY <1>4, <1>5 DEF sum

LEMMA SumsInt ==
  ASSUME NEW S, IsFiniteSet(S), NEW f, \A x \in S : f[x] \in Int
  PROVE  \A s \in SUBSET S : Sums(f, S)[s] \in Int
<1> DEFINE T == {s \in SUBSET S : Sums(f, S)[s] \in Int}
<1>1. ASSUME NEW s \in SUBSET S, \A x \in s : s \ {x} \in T PROVE s \in T
  <2>1. CASE s = {}
    BY <2>1, SumsAre
  <2>2. CASE s # {}
    <3>1. PICK x \in s : Sums(f, S)[s] = f[x] + Sums(f, S)[s \ {x}]
      BY <2>2, SumsAre
    <3>2. Sums(f, S)[s \ {x}] \in Int /\ f[x] \in Int
      BY <1>1
    <3> QED
      BY <3>1, <3>2
  <2> QED
    BY <2>1, <2>2
<1>2. \A s \in SUBSET S : s \in T
  <2> HIDE DEF T
  <2> QED
    BY <1>1, SubsetInduction
<1> QED
  BY <1>2

\* A change of the function at one element changes the sum by as much.
LEMMA SumChanges ==
  ASSUME NEW S, IsFiniteSet(S), NEW f, \A x \in S : f[x] \in Int,
         NEW u \in S, NEW g, g[u] \in Int, \A x \in S \ {u} : g[x] = f[x]
  PROVE  Sums(g, S)[S] = Sums(f, S)[S] + (g[u] - f[u]) /\ Sums(f, S)[S] \in Int
<1> DEFINE T == {s \in SUBSET S : Sums(g, S)[s] = Sums(f, S)[s] + (IF u \in s THEN g[u] - f[u] ELSE 0)}
<1>1. \A x \in S : g[x] \in Int
  OBVIOUS
<1>2. \A s \in SUBSET S : Sums(f, S)[s] \in Int /\ Sums(g, S)[s] \in Int
  BY <1>1, SumsInt
<1>3. ASSUME NEW s \in SUBSET S, \A x \in s : s \ {x} \in T PROVE s \in T
  <2>1. CASE s = {}
    BY <2>1, SumsAre
  <2>2. CASE s # {}
    <3>1. PICK x \in s : Sums(f, S)[s] = f[x] + Sums(f, S)[s \ {x}] /\ x = Chosen(s)
      BY <2>2, SumsAre
    <3>2. Sums(g, S)[s] = g[x] + Sums(g, S)[s \ {x}]
      <4>1. PICK y \in s : Sums(g, S)[s] = g[y] + Sums(g, S)[s \ {y}] /\ y = Chosen(s)
        BY <2>2, SumsAre
      <4> QED
        BY <3>1, <4>1
    <3>3. Sums(g, S)[s \ {x}] = Sums(f, S)[s \ {x}] + (IF u \in s \ {x} THEN g[u] - f[u] ELSE 0)
      BY <1>3
    <3>4. s \ {x} \in SUBSET S /\ Sums(f, S)[s \ {x}] \in Int /\ Sums(g, S)[s \ {x}] \in Int
      BY <1>2
    <3>5. f[x] \in Int /\ g[x] \in Int /\ f[u] \in Int
      BY <1>1
    <3>6. CASE x = u
      BY <3>1, <3>2, <3>3, <3>4, <3>5, <3>6
    <3>7. CASE x # u
      BY <3>1, <3>2, <3>3, <3>4, <3>5, <3>7
    <3> QED
      BY <3>6, <3>7
  <2> QED
    BY <2>1, <2>2
<1>4. \A s \in SUBSET S : s \in T
  <2> HIDE DEF T
  <2> QED
    BY <1>3, SubsetInduction
<1>5. S \in SUBSET S
  OBVIOUS
<1> QED
  BY <1>2, <1>4, <1>5

LEMMA SumOfZeros ==
  ASSUME NEW S, IsFiniteSet(S), NEW f, \A x \in S : f[x] = 0
  PROVE  Sums(f, S)[S] = 0
<1> DEFINE T == {s \in SUBSET S : Sums(f, S)[s] = 0}
<1>1. ASSUME NEW s \in SUBSET S, \A x \in s : s \ {x} \in T PROVE s \in T
  <2>1. CASE s = {}
    BY <2>1, SumsAre
  <2>2. CASE s # {}
    <3>1. PICK x \in s : Sums(f, S)[s] = f[x] + Sums(f, S)[s \ {x}]
      BY <2>2, SumsAre
    <3> QED
      BY <1>1, <3>1
  <2> QED
    BY <2>1, <2>2
<1>2. \A s \in SUBSET S : s \in T
  <2> HIDE DEF T
  <2> QED
    BY <1>1, SubsetInduction
<1> QED
  BY <1>2

----------------------------------------------------------------------------
(* The testers.  What their locals are, and where the threads can be.      *)

Locals ==
    [at : {"top", "load", "store", "unlock", "fill", "read", "unlockShared", "adjust", "exited"},
     left : Int, locks : Nat, desired : Nat, tries : BOOLEAN, index : Int, local : Int,
     last : Int, tally : Int, ok : BOOLEAN]

Typed ==
    /\ worker \in [Workers -> Locals]
    /\ shared \in [0 .. Size - 1 -> Int] /\ Size \in Nat \ {0}
    /\ lock \in [owner : Workers \cup {NoWorker}, depth : Int, readers : SUBSET Workers]
    /\ race \in [entered : BOOLEAN, reported : BOOLEAN, happened : BOOLEAN]

\* What the adapters of each test can do.
Suited ==
    /\ kind \in [reentrant : BOOLEAN, shareable : BOOLEAN, blocking : BOOLEAN]
    /\ tester \in {"MutexTester", "RecursiveMutexTester", "RWLockTester", "SimpleRWLockTester"}
    /\ kind.shareable <=> tester \in {"RWLockTester", "SimpleRWLockTester"}
    /\ tester # "MutexTester" => kind.blocking
    /\ tester = "RecursiveMutexTester" => kind.reentrant
    /\ kind.shareable => ~kind.reentrant

PlacesOf ==
    CASE tester = "MutexTester" -> {"top", "load", "store", "unlock", "exited"}
      [] tester = "SimpleRWLockTester" ->
             {"top", "load", "store", "unlock", "read", "unlockShared", "exited"}
      [] tester = "RWLockTester" -> {"top", "fill", "unlock", "read", "unlockShared", "exited"}
      [] tester = "RecursiveMutexTester" -> {"top", "adjust", "load", "store", "exited"}

Placed ==
    \A w \in Workers :
        /\ worker[w].at \in PlacesOf
        /\ tester # "RecursiveMutexTester" => worker[w].locks = 0
        /\ tester = "RecursiveMutexTester" /\ worker[w].at \in {"load", "store"} =>
               worker[w].locks > 0
        /\ worker[w].at = "exited" => worker[w].locks = 0

\* A thread holds the lock in its sections, and RecursiveMutexTester's as long
\* as it has locks to give back.
Holds(w) == worker[w].at \in {"load", "store", "fill", "unlock"} \/ worker[w].locks > 0

Reads(w) == worker[w].at \in {"read", "unlockShared"}

Depth(w) == IF tester = "RecursiveMutexTester" THEN worker[w].locks ELSE 1

LockHeld ==
    /\ kind.blocking =>
           /\ \A w \in Workers : Holds(w) <=> lock.owner = w
           /\ lock.owner \in Workers => lock.depth = Depth(lock.owner) /\ lock.readers = {}
           /\ lock.owner = NoWorker => lock.depth = 0
           /\ lock.readers = {w \in Workers : Reads(w)}
    /\ ~kind.blocking => lock.owner = NoWorker /\ lock.readers = {}

\* The counter is the sum of what the threads have added, and what a thread is
\* about to add to is the counter.
Counted ==
    tester # "RWLockTester" /\ ~race.reported =>
        /\ shared[0] = Total
        /\ \A w \in Workers : worker[w].at = "store" => worker[w].local = shared[0]

\* The array's elements rise by one, from where a writer has come to at least.
Rising ==
    tester = "RWLockTester" =>
        /\ (\A w \in Workers : worker[w].at # "fill") =>
               \A j \in 1 .. Size - 1 : shared[j] = shared[j - 1] + 1
        /\ \A w \in Workers : worker[w].at = "fill" =>
               /\ worker[w].index \in 0 .. Size - 1
               /\ \A j \in worker[w].index + 1 .. Size - 1 :
                      shared[j] = worker[w].local + (j - worker[w].index)

\* A reader has read the element before.
Reading ==
    \A w \in Workers : worker[w].at = "read" =>
        /\ worker[w].index \in 0 .. Size - 1
        /\ worker[w].index > 0 => worker[w].local = shared[worker[w].index - 1]

\* A thread that keeps the recursive mutex finds the counter as it left it.
Remembered ==
    tester = "RecursiveMutexTester" =>
        \A w \in Workers : worker[w].at = "top" /\ worker[w].locks > 0 => shared[0] = worker[w].last

AllOk == \A w \in Workers : worker[w].ok

TestInv ==
    /\ Typed /\ Suited /\ Placed /\ LockHeld
    /\ Counted /\ Rising /\ Reading /\ Remembered /\ AllOk

LEMMA PlacesAre ==
  ASSUME Suited
  PROVE  \/ tester = "MutexTester" /\ PlacesOf = {"top", "load", "store", "unlock", "exited"}
         \/ /\ tester = "SimpleRWLockTester"
            /\ PlacesOf = {"top", "load", "store", "unlock", "read", "unlockShared", "exited"}
         \/ /\ tester = "RWLockTester"
            /\ PlacesOf = {"top", "fill", "unlock", "read", "unlockShared", "exited"}
         \/ /\ tester = "RecursiveMutexTester"
            /\ PlacesOf = {"top", "adjust", "load", "store", "exited"}
BY DEF Suited, PlacesOf

\* One thread at a time holds the lock, as long as no race is reported.
LEMMA OneHolder ==
  ASSUME LocksAssumption, IInv, TestInv, ~race.reported
  PROVE  \A v, w \in Workers : Holds(v) /\ Holds(w) => v = w
<1>1. CASE kind.blocking
  BY <1>1 DEF TestInv, LockHeld
<1>2. CASE ~kind.blocking
  <2>1. tester = "MutexTester" /\ Flagged
    BY <1>2 DEF IInv, TestInv, Suited
  <2>2. ASSUME NEW w \in Workers, Holds(w) PROVE Inside(w)
    <3>1. PlacesOf = {"top", "load", "store", "unlock", "exited"}
      BY <2>1 DEF PlacesOf
    <3>2. worker[w].at \in PlacesOf /\ worker[w].locks = 0
      BY <2>1 DEF TestInv, Placed
    <3> QED
      BY <2>2, <3>1, <3>2 DEF Holds, Inside, InsidePlaces
  <2> QED
    BY <2>1, <2>2 DEF Flagged
<1> QED
  BY <1>1, <1>2

\* The sum of what the threads have added.
Tallies == [w \in Workers |-> worker[w].tally]

LEMMA TotalIs == Total = Sums(Tallies, Workers)[Workers]
  BY DEF Total, MapThenSumSet, MapThenFoldSet, Sums, Summed, Chosen, Tallies

LEMMA TestInitially == ASSUME LocksAssumption, Init PROVE TestInv
<1>1. PICK s \in Subjects : Start(s[1], s[2])
  BY DEF Init
<1>2. tester = s[1] /\ kind = s[2] /\ worker = [w \in Workers |-> Fresh]
  BY <1>1 DEF Start
<1>3. Suited
  <2> DEFINE Mutexes == {Mutex_POSIX, Mutex_Win32, Mutex_CPP11, Mutex_Boost, Mutex_SpinLock, RaceDetector}
             Tests == {"RWLockTester", "SimpleRWLockTester"}
  <2>1. ASSUME NEW r \in BOOLEAN, NEW t \in BOOLEAN, NEW b \in BOOLEAN
        PROVE  /\ Adapter(r, t, b) \in [reentrant : BOOLEAN, shareable : BOOLEAN, blocking : BOOLEAN]
               /\ Adapter(r, t, b).reentrant = r /\ Adapter(r, t, b).shareable = t
               /\ Adapter(r, t, b).blocking = b
    BY DEF Adapter
  <2>2. \/ \E k \in Mutexes : s = <<"MutexTester", k>>
        \/ \E k \in {Mutex_POSIX, Mutex_Win32} : s = <<"RecursiveMutexTester", k>>
        \/ \E test \in Tests, k \in {RWLock_POSIX, RWLock_Win32} : s = <<test, k>>
    BY <1>1 DEF Subjects
  <2>3. CASE \E k \in Mutexes : s = <<"MutexTester", k>>
    <3>1. tester = "MutexTester" /\ kind \in Mutexes
      BY <1>2, <2>3
    <3>2. /\ kind \in [reentrant : BOOLEAN, shareable : BOOLEAN, blocking : BOOLEAN]
          /\ kind.shareable = FALSE
      BY <2>1, <3>1, ZenonT(60) DEF Mutex_POSIX, Mutex_Win32, Mutex_CPP11, Mutex_Boost, Mutex_SpinLock, RaceDetector
    <3> QED
      BY <3>1, <3>2 DEF Suited
  <2>4. CASE \E k \in {Mutex_POSIX, Mutex_Win32} : s = <<"RecursiveMutexTester", k>>
    <3>1. tester = "RecursiveMutexTester" /\ kind \in {Mutex_POSIX, Mutex_Win32}
      BY <1>2, <2>4
    <3>2. /\ kind \in [reentrant : BOOLEAN, shareable : BOOLEAN, blocking : BOOLEAN]
          /\ kind.shareable = FALSE /\ kind.reentrant = TRUE /\ kind.blocking = TRUE
      BY <2>1, <3>1, ZenonT(60) DEF Mutex_POSIX, Mutex_Win32
    <3> QED
      BY <3>1, <3>2 DEF Suited
  <2>5. CASE \E test \in Tests, k \in {RWLock_POSIX, RWLock_Win32} : s = <<test, k>>
    <3>1. tester \in Tests /\ kind \in {RWLock_POSIX, RWLock_Win32}
      BY <1>2, <2>5
    <3>2. /\ kind \in [reentrant : BOOLEAN, shareable : BOOLEAN, blocking : BOOLEAN]
          /\ kind.shareable = TRUE /\ kind.reentrant = FALSE /\ kind.blocking = TRUE
      BY <2>1, <3>1, ZenonT(60) DEF RWLock_POSIX, RWLock_Win32
    <3> QED
      BY <3>1, <3>2 DEF Suited
  <2> QED
    BY <2>2, <2>3, <2>4, <2>5
<1>4. Fresh \in Locals /\ Fresh.at = "top" /\ Fresh.locks = 0 /\ Fresh.tally = 0 /\ Fresh.ok = TRUE
  BY DEF Fresh, Locals, LocksAssumption
<1>5. Typed
  BY <1>1, <1>2, <1>4 DEF Start, Typed, Size, LocksAssumption
<1>6. Placed /\ AllOk /\ Reading /\ Remembered
  BY <1>2, <1>3, <1>4 DEF Placed, PlacesOf, AllOk, Reading, Remembered, Suited
<1>7. LockHeld
  BY <1>1, <1>2, <1>4 DEF Start, LockHeld, Holds, Reads, LocksAssumption
<1>8. Counted
  <2>1. \A w \in Workers : Tallies[w] = 0
    BY <1>2, <1>4 DEF Tallies
  <2>2. Total = 0
    BY <2>1, SumOfZeros, TotalIs DEF LocksAssumption
  <2> QED
    BY <1>1, <1>2, <1>4, <1>5, <2>2 DEF Start, Counted, Typed
<1>9. Rising
  BY <1>1, <1>2, <1>4, <1>5 DEF Start, Rising, Typed
<1> QED
  BY <1>3, <1>5, <1>6, <1>7, <1>8, <1>9 DEF TestInv

\* Only the one thread's locals change.
LEMMA Went ==
  ASSUME Typed, NEW w \in Workers, NEW new \in Locals, Go(w, new)
  PROVE  /\ worker' \in [Workers -> Locals] /\ worker'[w] = new
         /\ \A v \in Workers \ {w} : worker'[v] = worker[v]
BY DEF Typed, Go

LEMMA TotalKept ==
  ASSUME \A v \in Workers : worker'[v].tally = worker[v].tally
  PROVE  Total' = Total
<1>1. Tallies' = Tallies
  BY DEF Tallies
<1>2. Total' = Sums(Tallies', Workers)[Workers]
  <2>1. (Total = Sums(Tallies, Workers)[Workers])'
    BY TotalIs, PTL
  <2> QED
    BY <2>1
<1> QED
  BY <1>1, <1>2, TotalIs

\* What has to be shown of a step that leaves the shared memory alone.
LEMMA SharedKept ==
  ASSUME LocksAssumption, TestInv, NEW w \in Workers, NEW new \in Locals, Go(w, new), Same,
         shared' = shared,
         lock' \in [owner : Workers \cup {NoWorker}, depth : Int, readers : SUBSET Workers],
         race' \in [entered : BOOLEAN, reported : BOOLEAN, happened : BOOLEAN],
         race.reported => race'.reported,
         worker[w].at # "fill", new.tally = worker[w].tally, new.ok,
         new.at \in PlacesOf,
         tester # "RecursiveMutexTester" => new.locks = 0,
         tester = "RecursiveMutexTester" /\ new.at \in {"load", "store"} => new.locks > 0,
         new.at = "exited" => new.locks = 0,
         new.at = "store" => new.local = shared[0],
         new.at = "fill" => new.index = Size - 1,
         new.at = "read" => /\ new.index \in 0 .. Size - 1
                            /\ new.index > 0 => new.local = shared[new.index - 1],
         new.at = "top" /\ new.locks > 0 => shared[0] = new.last,
         LockHeld'
  PROVE  TestInv'
<1>1. /\ worker' \in [Workers -> Locals] /\ worker'[w] = new
      /\ \A v \in Workers \ {w} : worker'[v] = worker[v]
  BY Went DEF TestInv
<1>2. tester' = tester /\ kind' = kind /\ Size' = Size /\ PlacesOf' = PlacesOf
  BY DEF Same, Size, PlacesOf
<1>3. Size \in Nat \ {0}
  BY DEF TestInv, Typed
<1>4. Typed'
  BY <1>1, <1>2 DEF TestInv, Typed, Locals
<1>5. Suited'
  BY <1>2 DEF TestInv, Suited
<1>6. Placed'
  BY <1>1, <1>2 DEF TestInv, Placed
<1>7. Counted'
  <2>1. Total' = Total
    BY <1>1, TotalKept
  <2> QED
    BY <1>1, <1>2, <2>1 DEF TestInv, Counted
<1>8. Rising'
  BY <1>1, <1>2, <1>3 DEF TestInv, Rising
<1>9. Reading'
  BY <1>1, <1>2 DEF TestInv, Reading
<1>10. Remembered'
  BY <1>1, <1>2 DEF TestInv, Remembered
<1>11. AllOk'
  BY <1>1 DEF TestInv, AllOk
<1> QED
  BY <1>4, <1>5, <1>6, <1>7, <1>8, <1>9, <1>10, <1>11 DEF TestInv

\* The lock stays as it is if the thread holds it as before.
LEMMA HeldAsBefore ==
  ASSUME TestInv, NEW w \in Workers, NEW new \in Locals, Go(w, new), Same, lock' = lock,
         (new.at \in {"load", "store", "fill", "unlock"} \/ new.locks > 0) <=> Holds(w),
         new.at \in {"read", "unlockShared"} <=> Reads(w),
         tester = "RecursiveMutexTester" => new.locks = worker[w].locks
  PROVE  LockHeld'
<1>1. /\ worker'[w] = new /\ \A v \in Workers \ {w} : worker'[v] = worker[v]
  BY Went DEF TestInv
<1>2. \A v \in Workers : (Holds(v)' <=> Holds(v)) /\ (Reads(v)' <=> Reads(v)) /\ Depth(v)' = Depth(v)
  BY <1>1 DEF Holds, Reads, Depth, Same
<1> QED
  BY <1>2 DEF TestInv, LockHeld, Same

LEMMA LoadStep ==
  ASSUME LocksAssumption, IInv, TestInv, NEW w \in Workers, Load(w)
  PROVE  TestInv'
<1> DEFINE new == [worker[w] EXCEPT !.at = "store", !.local = shared[0]]
<1>1. worker[w] \in Locals /\ worker[w].at = "load" /\ shared[0] \in Int
  BY DEF TestInv, Typed, Load, At
<1>2. /\ new \in Locals /\ new.at = "store" /\ new.local = shared[0] /\ new.locks = worker[w].locks
      /\ new.tally = worker[w].tally /\ new.ok = worker[w].ok
  BY <1>1 DEF Locals
<1>3. Go(w, new) /\ Same /\ UNCHANGED <<lock, shared, race>>
  BY DEF Load
<1> HIDE DEF new
<1>4. LockHeld'
  BY <1>1, <1>2, <1>3, HeldAsBefore DEF Holds, Reads
<1>5. "load" \in PlacesOf => "store" \in PlacesOf
  BY PlacesAre DEF TestInv
<1>6. /\ new.at \in PlacesOf /\ new.ok
      /\ tester # "RecursiveMutexTester" => new.locks = 0
      /\ tester = "RecursiveMutexTester" => new.locks > 0
  BY <1>1, <1>2, <1>5 DEF TestInv, Placed, AllOk
<1> QED
  BY <1>1, <1>2, <1>3, <1>4, <1>6, SharedKept DEF TestInv, Typed

\* The reader's check holds: no writer is at work.
LEMMA CheckStep ==
  ASSUME LocksAssumption, IInv, TestInv, NEW w \in Workers, Check(w)
  PROVE  TestInv'
<1> DEFINE j == worker[w].index
           new == [worker[w] EXCEPT
                      !.ok = @ /\ (j > 0 => shared[j] = worker[w].local + 1),
                      !.local = IF j = 0 THEN shared[0] ELSE @ + 1,
                      !.index = j + 1,
                      !.at = IF j = Size - 1 THEN "unlockShared" ELSE "read"]
<1>1. worker[w] \in Locals /\ worker[w].at = "read" /\ worker[w].ok /\ Size \in Nat \ {0}
  BY DEF TestInv, Typed, Check, At, AllOk
<1>2. j \in 0 .. Size - 1 /\ (j > 0 => worker[w].local = shared[j - 1])
  BY <1>1 DEF TestInv, Reading
<1>3. \A i \in 0 .. Size - 1 : shared[i] \in Int
  BY DEF TestInv, Typed
<1>4. tester \in {"RWLockTester", "SimpleRWLockTester"} /\ kind.blocking
  <2>1. worker[w].at \in PlacesOf
    BY DEF TestInv, Placed
  <2> QED
    BY <1>1, <2>1, PlacesAre DEF TestInv, Suited
<1>5. \A v \in Workers : ~Holds(v)
  <2>1. w \in lock.readers
    BY <1>1, <1>4 DEF TestInv, LockHeld, Reads
  <2> QED
    BY <1>4, <2>1 DEF TestInv, LockHeld
<1>6. j > 0 => shared[j] = worker[w].local + 1
  <2>1. CASE tester = "RWLockTester"
    <3>1. \A i \in 1 .. Size - 1 : shared[i] = shared[i - 1] + 1
      BY <1>5, <2>1 DEF TestInv, Rising, Holds
    <3> QED
      BY <1>1, <1>2, <3>1
  <2>2. CASE tester # "RWLockTester"
    BY <1>2, <2>2 DEF Size
  <2> QED
    BY <2>1, <2>2
<1>7. (IF j = 0 THEN shared[0] ELSE worker[w].local + 1) = shared[j]
  BY <1>2, <1>6
<1>8. /\ new.at \in {"read", "unlockShared"} /\ (new.at = "read" <=> j # Size - 1)
      /\ new.local = shared[j] /\ new.index = j + 1 /\ new.locks = worker[w].locks
      /\ new.tally = worker[w].tally /\ new.ok = TRUE /\ new \in Locals
  <2>1. worker[w].ok = TRUE
    BY <1>1 DEF Locals
  <2>2. (worker[w].ok /\ (j > 0 => shared[j] = worker[w].local + 1)) = TRUE
    BY <1>6, <2>1
  <2>3. j + 1 \in Int /\ shared[j] \in Int
    BY <1>1, <1>2, <1>3
  <2> HIDE DEF j
  <2> QED
    BY <1>1, <1>7, <2>2, <2>3 DEF Locals
<1>9. Go(w, new) /\ Same /\ UNCHANGED <<lock, shared, race>>
  BY DEF Check
<1> HIDE DEF new, j
<1>10. LockHeld'
  BY <1>1, <1>8, <1>9, HeldAsBefore DEF Holds, Reads
<1>11. new.at \in PlacesOf
  <2>1. {"read", "unlockShared"} \subseteq PlacesOf
    BY <1>4, PlacesAre DEF TestInv
  <2> QED
    BY <1>8, <2>1
<1>12. tester # "RecursiveMutexTester" /\ new.locks = 0
  BY <1>4, <1>8 DEF TestInv, Placed
<1>13. new.at = "read" => /\ new.index \in 0 .. Size - 1
                          /\ new.index > 0 => new.local = shared[new.index - 1]
  <2>1. new.at = "read" => j + 1 \in 0 .. Size - 1 /\ (j + 1) - 1 = j
    BY <1>1, <1>2, <1>8
  <2> QED
    BY <1>8, <2>1
<1> QED
  BY <1>1, <1>8, <1>9, <1>10, <1>11, <1>12, <1>13, SharedKept DEF TestInv, Typed

\* RecursiveMutexTester's assertion holds: nobody wrote while it held the lock.
LEMMA DrawStep ==
  ASSUME LocksAssumption, IInv, TestInv, NEW w \in Workers, Draw(w)
  PROVE  TestInv'
<1>1. PICK desired \in 0 .. MaxLocks, tries \in BOOLEAN :
          Go(w, [worker[w] EXCEPT !.at = "adjust", !.desired = desired, !.tries = tries,
                     !.ok = @ /\ (worker[w].locks > 0 => shared[0] = worker[w].last)])
  BY DEF Draw
<1> DEFINE new == [worker[w] EXCEPT !.at = "adjust", !.desired = desired, !.tries = tries,
                     !.ok = @ /\ (worker[w].locks > 0 => shared[0] = worker[w].last)]
<1>2. worker[w] \in Locals /\ worker[w].at = "top" /\ worker[w].ok /\ tester = "RecursiveMutexTester"
  BY DEF TestInv, Typed, Draw, At, AllOk
<1>3. worker[w].locks > 0 => shared[0] = worker[w].last
  BY <1>2 DEF TestInv, Remembered
<1>4. desired \in Nat
  BY DEF LocksAssumption
<1>5. /\ new.at = "adjust" /\ new.locks = worker[w].locks
      /\ new.tally = worker[w].tally /\ new.ok = TRUE /\ new \in Locals
  <2>1. (worker[w].ok /\ (worker[w].locks > 0 => shared[0] = worker[w].last)) = TRUE
    BY <1>2, <1>3 DEF Locals
  <2> QED
    BY <1>2, <1>4, <2>1 DEF Locals
<1>6. Go(w, new) /\ Same /\ UNCHANGED <<lock, shared, race>>
  BY <1>1 DEF Draw
<1> HIDE DEF new
<1>7. LockHeld'
  BY <1>2, <1>5, <1>6, HeldAsBefore DEF Holds, Reads
<1>8. "adjust" \in PlacesOf
  BY <1>2, PlacesAre DEF TestInv
<1> QED
  BY <1>2, <1>5, <1>6, <1>7, <1>8, SharedKept DEF TestInv, Typed

\* Out of the loops, with the locks that are held.
LEMMA AdjustedStep ==
  ASSUME LocksAssumption, IInv, TestInv, NEW w \in Workers, TryLockFails(w) \/ Reached(w)
  PROVE  TestInv'
<1> DEFINE new == Adjusted(worker[w])
<1>1. worker[w] \in Locals /\ worker[w].at = "adjust" /\ worker[w].ok
  BY DEF TestInv, Typed, TryLockFails, Reached, At, AllOk
<1>2. /\ new.at = (IF worker[w].locks > 0 THEN "load" ELSE "top") /\ new.locks = worker[w].locks
      /\ new.tally = worker[w].tally /\ new.ok = worker[w].ok /\ new \in Locals
  <2>1. CASE worker[w].locks > 0
    BY <1>1, <2>1 DEF Locals, Adjusted
  <2>2. CASE ~(worker[w].locks > 0)
    <3> DEFINE left == worker[w].left - 1
    <3>1. new = [worker[w] EXCEPT !.at = "top", !.left = left]
      BY <2>2 DEF Adjusted
    <3>2. left \in Int
      BY <1>1 DEF Locals
    <3> HIDE DEF left, new
    <3> QED
      BY <1>1, <2>2, <3>1, <3>2 DEF Locals
  <2> QED
    BY <2>1, <2>2
<1>3. Go(w, new) /\ Same /\ UNCHANGED <<lock, shared, race>>
  BY DEF TryLockFails, Reached
<1> HIDE DEF new
<1>4. tester = "RecursiveMutexTester" /\ {"load", "top"} \subseteq PlacesOf
  <2>1. worker[w].at \in PlacesOf
    BY DEF TestInv, Placed
  <2> QED
    BY <1>1, <2>1, PlacesAre DEF TestInv
<1>5. LockHeld'
  BY <1>1, <1>2, <1>3, HeldAsBefore DEF Holds, Reads
<1>6. worker[w].locks \in Nat
  BY <1>1 DEF Locals
<1> QED
  BY <1>1, <1>2, <1>3, <1>4, <1>5, <1>6, SharedKept DEF TestInv, Typed

LEMMA ExitStep ==
  ASSUME LocksAssumption, IInv, TestInv, NEW w \in Workers, Exit(w)
  PROVE  TestInv'
<1> DEFINE new == [worker[w] EXCEPT !.at = "exited"]
<1>1. worker[w] \in Locals /\ worker[w].at = "top" /\ worker[w].ok /\ worker[w].locks = 0
  BY DEF TestInv, Typed, Exit, At, AllOk
<1>2. /\ new.at = "exited" /\ new.locks = worker[w].locks
      /\ new.tally = worker[w].tally /\ new.ok = worker[w].ok /\ new \in Locals
  BY <1>1 DEF Locals
<1>3. Go(w, new) /\ Same /\ UNCHANGED <<lock, shared, race>>
  BY DEF Exit
<1> HIDE DEF new
<1>4. "exited" \in PlacesOf
  BY PlacesAre DEF TestInv
<1>5. LockHeld'
  BY <1>1, <1>2, <1>3, HeldAsBefore DEF Holds, Reads
<1> QED
  BY <1>1, <1>2, <1>3, <1>4, <1>5, SharedKept DEF TestInv, Typed

----------------------------------------------------------------------------
(* The steps that take and give back the lock.                             *)

\* A free lock is nobody's, or the thread's own and recursive.
LEMMA TakeHolds ==
  ASSUME LocksAssumption, TestInv, NEW w \in Workers, NEW new \in Locals, Go(w, new), Same, Take(w),
         ~Reads(w), new.at \notin {"read", "unlockShared"},
         new.at \in {"load", "store", "fill", "unlock"} \/ new.locks > 0,
         IF tester = "RecursiveMutexTester" THEN new.locks = worker[w].locks + 1 ELSE ~Holds(w),
         tester = "RecursiveMutexTester" => (Holds(w) <=> worker[w].locks > 0)
  PROVE  /\ LockHeld'
         /\ lock' \in [owner : Workers \cup {NoWorker}, depth : Int, readers : SUBSET Workers]
         /\ race' \in [entered : BOOLEAN, reported : BOOLEAN, happened : BOOLEAN]
         /\ race.reported => race'.reported
<1>1. /\ worker'[w] = new /\ \A v \in Workers \ {w} : worker'[v] = worker[v]
  BY Went DEF TestInv
<1>2. /\ \A v \in Workers \ {w} : (Holds(v)' <=> Holds(v)) /\ (Reads(v)' <=> Reads(v))
      /\ Holds(w)' /\ ~Reads(w)'
      /\ Depth(w)' = IF tester = "RecursiveMutexTester" THEN worker[w].locks + 1 ELSE 1
  BY <1>1 DEF Holds, Reads, Depth, Same
<1>3. kind' = kind /\ tester' = tester /\ NoWorker \notin Workers
  BY DEF Same, LocksAssumption
<1>4. lock \in [owner : Workers \cup {NoWorker}, depth : Int, readers : SUBSET Workers]
  BY DEF TestInv, Typed
<1>5. CASE kind.blocking
  <2>1. /\ lock.owner = NoWorker \/ (kind.reentrant /\ lock.owner = w)
        /\ lock.readers = {} /\ race' = race
        /\ lock' = [lock EXCEPT !.owner = w, !.depth = @ + 1]
    BY <1>5 DEF Take, Free
  <2>2. /\ lock'.owner = w /\ lock'.depth = lock.depth + 1 /\ lock'.readers = {}
        /\ lock' \in [owner : Workers \cup {NoWorker}, depth : Int, readers : SUBSET Workers]
    <3> DEFINE depth == lock.depth + 1
    <3>1. lock' = [lock EXCEPT !.owner = w, !.depth = depth] /\ lock.readers = {}
      BY <2>1
    <3>2. depth \in Int
      BY <1>4
    <3>3. lock'.depth = depth /\ lock'.owner = w /\ lock'.readers = {}
      BY <1>4, <3>1
    <3>4. lock' \in [owner : Workers \cup {NoWorker}, depth : Int, readers : SUBSET Workers]
      <4> HIDE DEF depth
      <4> QED
        BY <1>4, <3>1, <3>2
    <3> QED
      BY <3>3, <3>4
  <2>3. \A v \in Workers : Holds(v) <=> lock.owner = v
    BY <1>5 DEF TestInv, LockHeld
  <2>4. lock.depth = IF tester = "RecursiveMutexTester" THEN worker[w].locks ELSE 0
    <3>1. CASE lock.owner = NoWorker
      <4>1. lock.depth = 0 /\ ~Holds(w)
        BY <1>3, <1>5, <2>3, <3>1 DEF TestInv, LockHeld
      <4>2. worker[w].locks \in Nat
        BY DEF TestInv, Typed, Locals
      <4> QED
        BY <4>1, <4>2
    <3>2. CASE lock.owner = w
      BY <1>5, <2>3, <3>2 DEF TestInv, LockHeld, Depth
    <3> QED
      BY <2>1, <3>1, <3>2
  <2>5. \A v \in Workers : ~Reads(v)
    BY <1>5, <2>1 DEF TestInv, LockHeld
  <2>6. \A v \in Workers : ~Reads(v)'
    BY <1>2, <2>5
  <2>7. \A v \in Workers : Holds(v)' <=> v = w
    BY <1>2, <2>1, <2>3, <1>3
  <2>8. lock'.depth = Depth(w)'
    BY <1>2, <2>2, <2>4
  <2>9. LockHeld'
    BY <1>3, <1>5, <2>2, <2>6, <2>7, <2>8 DEF LockHeld
  <2> QED
    BY <2>1, <2>2, <2>9 DEF TestInv, Typed
<1>6. CASE ~kind.blocking
  <2>1. lock' = lock
    BY <1>6 DEF Take
  <2>2. /\ race' \in [entered : BOOLEAN, reported : BOOLEAN, happened : BOOLEAN]
        /\ race.reported => race'.reported
    <3> DEFINE others == \E v \in Workers \ {w} : worker[v].at \in {"load", "store", "unlock"}
    <3>1. race' = [entered |-> TRUE, reported |-> race.reported \/ race.entered,
                   happened |-> race.happened \/ others]
      BY <1>6 DEF Take
    <3>2. race \in [entered : BOOLEAN, reported : BOOLEAN, happened : BOOLEAN]
      BY DEF TestInv, Typed
    <3> HIDE DEF others
    <3>3. race'.reported = (race.reported \/ race.entered)
      BY <3>1
    <3>4. race' \in [entered : BOOLEAN, reported : BOOLEAN, happened : BOOLEAN]
      BY <3>1, <3>2, Zenon
    <3> QED
      BY <3>3, <3>4
  <2> QED
    BY <1>3, <1>4, <1>6, <2>1, <2>2 DEF TestInv, LockHeld
<1> QED
  BY <1>5, <1>6

\* The last unlock frees the lock.
LEMMA ReleaseHolds ==
  ASSUME LocksAssumption, TestInv, NEW w \in Workers, NEW new \in Locals, Go(w, new), Same, Release(w),
         Holds(w), ~Reads(w), new.at \in {"top", "adjust"},
         tester = "RecursiveMutexTester" => new.locks = worker[w].locks - 1,
         tester # "RecursiveMutexTester" => new.locks = 0
  PROVE  /\ LockHeld'
         /\ lock' \in [owner : Workers \cup {NoWorker}, depth : Int, readers : SUBSET Workers]
         /\ race' \in [entered : BOOLEAN, reported : BOOLEAN, happened : BOOLEAN]
         /\ race.reported => race'.reported
<1>1. /\ worker'[w] = new /\ \A v \in Workers \ {w} : worker'[v] = worker[v]
  BY Went DEF TestInv
<1>2. /\ \A v \in Workers \ {w} : (Holds(v)' <=> Holds(v)) /\ (Reads(v)' <=> Reads(v))
      /\ Holds(w)' <=> new.locks > 0
      /\ ~Reads(w)'
      /\ Depth(w)' = IF tester = "RecursiveMutexTester" THEN new.locks ELSE 1
  BY <1>1 DEF Holds, Reads, Depth, Same
<1>3. kind' = kind /\ tester' = tester /\ NoWorker \notin Workers
  BY DEF Same, LocksAssumption
<1>4. lock \in [owner : Workers \cup {NoWorker}, depth : Int, readers : SUBSET Workers]
  BY DEF TestInv, Typed
<1>5. CASE kind.blocking
  <2> DEFINE owner == IF lock.depth = 1 THEN NoWorker ELSE w
             depth == lock.depth - 1
  <2>1. /\ lock.owner = w /\ race' = race
        /\ lock' = [lock EXCEPT !.owner = owner, !.depth = depth]
    BY <1>5 DEF Release
  <2>2. owner \in Workers \cup {NoWorker} /\ depth \in Int
    BY <1>4
  <2>3. lock.readers = {} /\ lock.depth = Depth(w) /\ \A v \in Workers : Holds(v) <=> v = w
    BY <1>5, <2>1 DEF TestInv, LockHeld
  <2>4. /\ lock'.owner = owner /\ lock'.depth = depth /\ lock'.readers = {}
        /\ lock' \in [owner : Workers \cup {NoWorker}, depth : Int, readers : SUBSET Workers]
    <3> HIDE DEF owner, depth
    <3> QED
      BY <1>4, <2>1, <2>2, <2>3
  <2>5. /\ owner = (IF new.locks > 0 THEN w ELSE NoWorker) /\ depth = new.locks
        /\ new.locks > 0 => depth = Depth(w)'
    <3>1. new.locks \in Nat /\ worker[w].locks \in Nat
      BY DEF TestInv, Typed, Locals
    <3>2. CASE tester = "RecursiveMutexTester"
      BY <1>2, <2>3, <3>1, <3>2 DEF Depth
    <3>3. CASE tester # "RecursiveMutexTester"
      BY <1>2, <2>3, <3>1, <3>3 DEF Depth
    <3> QED
      BY <3>2, <3>3
  <2> HIDE DEF owner, depth
  <2>6. \A v \in Workers : ~Reads(v)'
    <3>1. \A v \in Workers : ~Reads(v)
      BY <1>5, <2>3 DEF TestInv, LockHeld
    <3> QED
      BY <1>2, <3>1
  <2>7. \A v \in Workers : Holds(v)' <=> lock'.owner = v
    BY <1>2, <1>3, <2>3, <2>4, <2>5
  <2>8. lock'.owner \in Workers => lock'.owner = w /\ lock'.depth = Depth(w)'
    BY <1>3, <2>4, <2>5
  <2>9. lock'.owner = NoWorker => lock'.depth = 0
    <3>1. new.locks \in Nat
      BY DEF Locals
    <3> QED
      BY <1>3, <2>4, <2>5, <3>1
  <2>10. LockHeld'
    BY <1>3, <1>5, <2>4, <2>6, <2>7, <2>8, <2>9 DEF LockHeld, Depth
  <2> QED
    BY <2>1, <2>4, <2>10 DEF TestInv, Typed
<1>6. CASE ~kind.blocking
  <2>1. lock' = lock /\ race' = [race EXCEPT !.entered = FALSE]
    BY <1>6 DEF Release
  <2> QED
    BY <1>3, <1>4, <1>6, <2>1 DEF TestInv, LockHeld, Typed
<1> QED
  BY <1>5, <1>6

LEMMA EnterExclusiveStep ==
  ASSUME LocksAssumption, IInv, TestInv, NEW w \in Workers, EnterExclusive(w)
  PROVE  TestInv'
<1>1. worker[w] \in Locals /\ worker[w].at = "top" /\ worker[w].ok /\ Size \in Nat \ {0}
  BY DEF TestInv, Typed, EnterExclusive, At, AllOk
<1>2. worker[w].locks = 0 /\ tester # "RecursiveMutexTester"
  BY DEF TestInv, Placed, EnterExclusive
<1>3. ASSUME NEW new \in Locals, Go(w, new), new.locks = 0, new.tally = worker[w].tally, new.ok,
             \/ new.at = "load" /\ "load" \in PlacesOf
             \/ new.at = "fill" /\ new.index = Size - 1 /\ "fill" \in PlacesOf
      PROVE  TestInv'
  <2>1. Take(w) /\ Same /\ UNCHANGED shared
    BY DEF EnterExclusive
  <2>2. ~Holds(w) /\ ~Reads(w)
    BY <1>1, <1>2 DEF Holds, Reads
  <2>3. /\ LockHeld'
        /\ lock' \in [owner : Workers \cup {NoWorker}, depth : Int, readers : SUBSET Workers]
        /\ race' \in [entered : BOOLEAN, reported : BOOLEAN, happened : BOOLEAN]
        /\ race.reported => race'.reported
    BY <1>2, <1>3, <2>1, <2>2, TakeHolds
  <2> QED
    BY <1>1, <1>2, <1>3, <2>1, <2>3, SharedKept
<1>4. CASE tester = "RWLockTester"
  <2>1. PICK value \in {0, Size} :
            Go(w, [worker[w] EXCEPT !.at = "fill", !.index = Size - 1, !.local = value])
    BY <1>4 DEF EnterExclusive
  <2> DEFINE top == Size - 1
             new == [worker[w] EXCEPT !.at = "fill", !.index = top, !.local = value]
  <2>2. top \in Int /\ value \in Int
    BY <1>1
  <2>3. /\ new.at = "fill" /\ new.index = top /\ new.locks = 0
        /\ new.tally = worker[w].tally /\ new.ok = worker[w].ok /\ new \in Locals
    <3> HIDE DEF top
    <3> QED
      BY <1>1, <1>2, <2>2 DEF Locals
  <2>4. Go(w, new)
    BY <2>1
  <2> HIDE DEF new
  <2>5. "fill" \in PlacesOf
    BY <1>4, PlacesAre DEF TestInv
  <2> QED
    BY <1>1, <1>3, <2>3, <2>4, <2>5
<1>5. CASE tester # "RWLockTester"
  <2> DEFINE new == [worker[w] EXCEPT !.at = "load"]
  <2>1. /\ new.at = "load" /\ new.locks = 0
        /\ new.tally = worker[w].tally /\ new.ok = worker[w].ok /\ new \in Locals
    BY <1>1, <1>2 DEF Locals
  <2>2. Go(w, new)
    BY <1>5 DEF EnterExclusive
  <2> HIDE DEF new
  <2>3. "load" \in PlacesOf
    BY <1>2, <1>5, PlacesAre DEF TestInv
  <2> QED
    BY <1>1, <1>3, <2>1, <2>2, <2>3
<1> QED
  BY <1>4, <1>5

LEMMA LeaveExclusiveStep ==
  ASSUME LocksAssumption, IInv, TestInv, NEW w \in Workers, LeaveExclusive(w)
  PROVE  TestInv'
<1> DEFINE left == worker[w].left - 1
           gone == [worker[w] EXCEPT !.at = "top", !.left = left]
           new == [gone EXCEPT !.local = 0, !.last = 0]
<1>1. worker[w] \in Locals /\ worker[w].at = "unlock" /\ worker[w].ok
  BY DEF TestInv, Typed, LeaveExclusive, At, AllOk
<1>2. left \in Int
  BY <1>1 DEF Locals
<1>3. Go(w, new) /\ Same /\ UNCHANGED shared /\ Release(w)
  BY DEF LeaveExclusive
<1>4. /\ new.at = "top" /\ new.locks = worker[w].locks
      /\ new.tally = worker[w].tally /\ new.ok = worker[w].ok /\ new \in Locals
  <2> HIDE DEF left
  <2>1. /\ gone.at = "top" /\ gone.locks = worker[w].locks
        /\ gone.tally = worker[w].tally /\ gone.ok = worker[w].ok /\ gone \in Locals
    BY <1>1, <1>2 DEF Locals
  <2> HIDE DEF gone
  <2>2. new.at = "top" /\ new.locks = worker[w].locks /\ new.tally = worker[w].tally
    BY <2>1 DEF Locals
  <2>3. new.ok = worker[w].ok
    BY <2>1 DEF Locals
  <2>4. new \in Locals
    <3>1. \A l \in Locals, z \in Int : [l EXCEPT !.local = z, !.last = z] \in Locals
      BY DEF Locals
    <3>2. 0 \in Int
      OBVIOUS
    <3> QED
      BY <2>1, <3>1, <3>2, Zenon
  <2> QED
    BY <2>2, <2>3, <2>4
<1> HIDE DEF new
<1>5. tester # "RecursiveMutexTester" /\ worker[w].locks = 0 /\ "top" \in PlacesOf
  <2>1. worker[w].at \in PlacesOf
    BY DEF TestInv, Placed
  <2> QED
    BY <1>1, <2>1, PlacesAre DEF TestInv, Placed
<1>6. Holds(w) /\ ~Reads(w)
  BY <1>1 DEF Holds, Reads
<1>7. /\ LockHeld'
      /\ lock' \in [owner : Workers \cup {NoWorker}, depth : Int, readers : SUBSET Workers]
      /\ race' \in [entered : BOOLEAN, reported : BOOLEAN, happened : BOOLEAN]
      /\ race.reported => race'.reported
  BY <1>3, <1>4, <1>5, <1>6, ReleaseHolds
<1>8. new.locks = 0 /\ ~(new.locks > 0) /\ new.ok /\ worker[w].at # "fill" /\ new.at \in PlacesOf
  BY <1>1, <1>4, <1>5
<1> QED
  BY <1>3, <1>4, <1>7, <1>8, SharedKept

LEMMA LockOneStep ==
  ASSUME LocksAssumption, IInv, TestInv, NEW w \in Workers, LockOne(w)
  PROVE  TestInv'
<1> DEFINE locks == worker[w].locks + 1
           new == [worker[w] EXCEPT !.locks = locks]
<1>1. worker[w] \in Locals /\ worker[w].at = "adjust" /\ worker[w].ok
  BY DEF TestInv, Typed, LockOne, At, AllOk
<1>2. locks \in Nat /\ locks > 0 /\ worker[w].locks \in Nat
  BY <1>1 DEF Locals
<1>3. Go(w, new) /\ Same /\ UNCHANGED shared /\ Take(w)
  BY DEF LockOne
<1>4. /\ new.at = "adjust" /\ new.locks = locks
      /\ new.tally = worker[w].tally /\ new.ok = worker[w].ok /\ new \in Locals
  <2> HIDE DEF locks
  <2> QED
    BY <1>1, <1>2 DEF Locals
<1> HIDE DEF new
<1>5. tester = "RecursiveMutexTester" /\ "adjust" \in PlacesOf
  <2>1. worker[w].at \in PlacesOf
    BY DEF TestInv, Placed
  <2> QED
    BY <1>1, <2>1, PlacesAre DEF TestInv
<1>6. (Holds(w) <=> worker[w].locks > 0) /\ ~Reads(w)
  BY <1>1 DEF Holds, Reads
<1>7. /\ LockHeld'
      /\ lock' \in [owner : Workers \cup {NoWorker}, depth : Int, readers : SUBSET Workers]
      /\ race' \in [entered : BOOLEAN, reported : BOOLEAN, happened : BOOLEAN]
      /\ race.reported => race'.reported
  BY <1>2, <1>3, <1>4, <1>5, <1>6, TakeHolds
<1> QED
  BY <1>1, <1>3, <1>4, <1>5, <1>7, SharedKept

LEMMA UnlockOneStep ==
  ASSUME LocksAssumption, IInv, TestInv, NEW w \in Workers, UnlockOne(w) \/ Unwind(w)
  PROVE  TestInv'
<1> DEFINE locks == worker[w].locks - 1
           new == [worker[w] EXCEPT !.locks = locks]
<1>1. worker[w] \in Locals /\ worker[w].at \in {"top", "adjust"} /\ worker[w].ok
  BY DEF TestInv, Typed, UnlockOne, Unwind, At, AllOk
<1>2. worker[w].locks > 0 /\ locks \in Nat
  <2>1. worker[w].locks \in Nat /\ worker[w].desired \in Nat
    BY <1>1 DEF Locals
  <2> QED
    BY <2>1 DEF UnlockOne, Unwind
<1>3. Go(w, new) /\ Same /\ UNCHANGED shared /\ Release(w)
  BY DEF UnlockOne, Unwind
<1>4. /\ new.at = worker[w].at /\ new.locks = locks /\ new.last = worker[w].last
      /\ new.tally = worker[w].tally /\ new.ok = worker[w].ok /\ new \in Locals
  <2> HIDE DEF locks
  <2> QED
    BY <1>1, <1>2 DEF Locals
<1> HIDE DEF new
<1>5. tester = "RecursiveMutexTester" /\ worker[w].at \in PlacesOf
  <2>1. worker[w].at \in PlacesOf
    BY DEF TestInv, Placed
  <2> QED
    BY <1>2, <2>1 DEF TestInv, Placed
<1>6. Holds(w) /\ ~Reads(w)
  BY <1>1, <1>2 DEF Holds, Reads
<1>7. /\ LockHeld'
      /\ lock' \in [owner : Workers \cup {NoWorker}, depth : Int, readers : SUBSET Workers]
      /\ race' \in [entered : BOOLEAN, reported : BOOLEAN, happened : BOOLEAN]
      /\ race.reported => race'.reported
  BY <1>1, <1>3, <1>4, <1>5, <1>6, ReleaseHolds
<1>8. worker[w].at = "top" => shared[0] = worker[w].last
  BY <1>2, <1>5 DEF TestInv, Remembered
<1> QED
  BY <1>1, <1>3, <1>4, <1>5, <1>7, <1>8, SharedKept

LEMMA EnterSharedStep ==
  ASSUME LocksAssumption, IInv, TestInv, NEW w \in Workers, EnterShared(w)
  PROVE  TestInv'
<1> DEFINE new == [worker[w] EXCEPT !.at = "read", !.index = 0]
<1>1. /\ worker[w] \in Locals /\ worker[w].at = "top" /\ worker[w].ok /\ Size \in Nat \ {0}
      /\ lock \in [owner : Workers \cup {NoWorker}, depth : Int, readers : SUBSET Workers]
  BY DEF TestInv, Typed, EnterShared, At, AllOk
<1>2. /\ new.at = "read" /\ new.locks = worker[w].locks /\ new.index = 0
      /\ new.tally = worker[w].tally /\ new.ok = worker[w].ok /\ new \in Locals
  <2>1. /\ new.at = "read" /\ new.locks = worker[w].locks /\ new.index = 0
        /\ new.tally = worker[w].tally /\ new.ok = worker[w].ok
    BY <1>1 DEF Locals
  <2>2. \A l \in Locals, z \in Int : [l EXCEPT !.at = "read", !.index = z] \in Locals
    BY DEF Locals
  <2>3. 0 \in Int
    OBVIOUS
  <2>4. new \in Locals
    BY <1>1, <2>2, <2>3, Zenon
  <2> QED
    BY <2>1, <2>4
<1>3. /\ Go(w, new) /\ Same /\ UNCHANGED <<shared, race>>
      /\ lock.owner = NoWorker /\ lock' = [lock EXCEPT !.readers = @ \cup {w}]
  BY DEF EnterShared, SharedLockGuard
<1> HIDE DEF new
<1>4. tester \in {"RWLockTester", "SimpleRWLockTester"} /\ kind.blocking /\ "read" \in PlacesOf
  BY PlacesAre DEF TestInv, Suited, EnterShared
<1>5. worker[w].locks = 0
  BY <1>4 DEF TestInv, Placed
<1>6. /\ lock'.owner = NoWorker /\ lock'.depth = lock.depth /\ lock'.readers = lock.readers \cup {w}
      /\ lock' \in [owner : Workers \cup {NoWorker}, depth : Int, readers : SUBSET Workers]
  BY <1>1, <1>3
<1>7. LockHeld'
  <2>1. /\ worker'[w] = new /\ \A v \in Workers \ {w} : worker'[v] = worker[v]
    BY <1>2, <1>3, Went DEF TestInv
  <2>2. /\ \A v \in Workers : Holds(v)' <=> Holds(v)
        /\ \A v \in Workers \ {w} : Reads(v)' <=> Reads(v)
        /\ Reads(w)'
    BY <1>1, <1>2, <1>5, <2>1 DEF Holds, Reads
  <2> QED
    BY <1>3, <1>4, <1>6, <2>2 DEF TestInv, LockHeld, Same, LocksAssumption
<1>8. /\ new.locks = 0 /\ new.ok /\ worker[w].at # "fill" /\ new.at \in PlacesOf
      /\ new.index \in 0 .. Size - 1 /\ ~(new.index > 0)
  BY <1>1, <1>2, <1>4, <1>5
<1> QED
  BY <1>2, <1>3, <1>6, <1>7, <1>8, SharedKept DEF TestInv, Typed

LEMMA LeaveSharedStep ==
  ASSUME LocksAssumption, IInv, TestInv, NEW w \in Workers, LeaveShared(w)
  PROVE  TestInv'
<1> DEFINE left == worker[w].left - 1
           gone == [worker[w] EXCEPT !.at = "top", !.left = left]
           new == [gone EXCEPT !.local = 0, !.index = 0]
<1>1. /\ worker[w] \in Locals /\ worker[w].at = "unlockShared" /\ worker[w].ok
      /\ lock \in [owner : Workers \cup {NoWorker}, depth : Int, readers : SUBSET Workers]
  BY DEF TestInv, Typed, LeaveShared, At, AllOk
<1>2. left \in Int
  BY <1>1 DEF Locals
<1>3. /\ Go(w, new) /\ Same /\ UNCHANGED <<shared, race>>
      /\ lock' = [lock EXCEPT !.readers = @ \ {w}]
  BY DEF LeaveShared, EndSharedLockGuard
<1>4. /\ new.at = "top" /\ new.locks = worker[w].locks
      /\ new.tally = worker[w].tally /\ new.ok = worker[w].ok /\ new \in Locals
  <2> HIDE DEF left
  <2>1. /\ gone.at = "top" /\ gone.locks = worker[w].locks
        /\ gone.tally = worker[w].tally /\ gone.ok = worker[w].ok /\ gone \in Locals
    BY <1>1, <1>2 DEF Locals
  <2> HIDE DEF gone
  <2>2. new.at = "top" /\ new.locks = worker[w].locks /\ new.tally = worker[w].tally
    BY <2>1 DEF Locals
  <2>3. new.ok = worker[w].ok
    BY <2>1 DEF Locals
  <2>4. \A l \in Locals, z \in Int : [l EXCEPT !.local = z, !.index = z] \in Locals
    BY DEF Locals
  <2>5. 0 \in Int
    OBVIOUS
  <2>6. new \in Locals
    BY <2>1, <2>4, <2>5, Zenon
  <2> QED
    BY <2>2, <2>3, <2>6
<1> HIDE DEF new
<1>5. tester \in {"RWLockTester", "SimpleRWLockTester"} /\ kind.blocking /\ "top" \in PlacesOf
  <2>1. worker[w].at \in PlacesOf
    BY DEF TestInv, Placed
  <2> QED
    BY <1>1, <2>1, PlacesAre DEF TestInv, Suited
<1>6. worker[w].locks = 0
  BY <1>5 DEF TestInv, Placed
<1>7. /\ lock'.owner = lock.owner /\ lock'.depth = lock.depth /\ lock'.readers = lock.readers \ {w}
      /\ lock' \in [owner : Workers \cup {NoWorker}, depth : Int, readers : SUBSET Workers]
  BY <1>1, <1>3
<1>8. LockHeld'
  <2>1. /\ worker'[w] = new /\ \A v \in Workers \ {w} : worker'[v] = worker[v]
    BY <1>3, <1>4, Went DEF TestInv
  <2>2. /\ \A v \in Workers : Holds(v)' <=> Holds(v)
        /\ \A v \in Workers \ {w} : Reads(v)' <=> Reads(v)
        /\ ~Reads(w)'
        /\ \A v \in Workers : Depth(v)' = Depth(v)
    BY <1>1, <1>3, <1>4, <1>6, <2>1 DEF Holds, Reads, Depth, Same
  <2> QED
    BY <1>3, <1>5, <1>7, <2>2 DEF TestInv, LockHeld, Same, LocksAssumption
<1>9. new.locks = 0 /\ ~(new.locks > 0) /\ new.ok /\ worker[w].at # "fill" /\ new.at \in PlacesOf
  BY <1>1, <1>4, <1>5, <1>6
<1> QED
  BY <1>3, <1>4, <1>7, <1>8, <1>9, SharedKept DEF TestInv, Typed

----------------------------------------------------------------------------
(* The steps that write.                                                   *)

LEMMA StoreStep ==
  ASSUME LocksAssumption, IInv, TestInv, NEW w \in Workers, Store(w)
  PROVE  TestInv'
<1> DEFINE sum == worker[w].local + Amount(w)
           tally == worker[w].tally + Amount(w)
           at == IF tester = "RecursiveMutexTester" THEN "top" ELSE "unlock"
           left == IF tester = "RecursiveMutexTester" THEN worker[w].left - 1 ELSE worker[w].left
           stored == [worker[w] EXCEPT !.last = sum, !.tally = tally]
           new == [stored EXCEPT !.at = at, !.left = left]
<1>1. /\ worker[w] \in Locals /\ worker[w].at = "store" /\ worker[w].ok
      /\ shared \in [0 .. Size - 1 -> Int] /\ Size \in Nat \ {0}
  BY DEF TestInv, Typed, Store, At, AllOk
<1>2. Amount(w) \in Int /\ worker[w].local \in Int /\ worker[w].tally \in Int
  <2>1. w \in Int
    BY DEF LocksAssumption
  <2>2. Amount(w) \in Int
    BY <2>1 DEF Amount
  <2> QED
    BY <1>1, <2>2 DEF Locals
<1>3. sum \in Int /\ tally \in Int /\ left \in Int
  <2>1. sum \in Int /\ tally \in Int
    BY <1>2
  <2>2. worker[w].left \in Int
    BY <1>1 DEF Locals
  <2> QED
    BY <2>1, <2>2
<1>4. Go(w, new) /\ Same /\ UNCHANGED <<lock, race>> /\ shared' = [shared EXCEPT ![0] = sum]
  BY DEF Store
<1>5. /\ new.at = at /\ new.locks = worker[w].locks /\ new.last = sum
      /\ new.tally = tally /\ new.ok = worker[w].ok /\ new \in Locals
  <2> HIDE DEF sum, tally, left
  <2>1. /\ stored.locks = worker[w].locks /\ stored.last = sum
        /\ stored.tally = tally /\ stored.ok = worker[w].ok /\ stored \in Locals
    BY <1>1, <1>3 DEF Locals
  <2> HIDE DEF stored
  <2> QED
    BY <2>1, <1>3 DEF Locals
<1> HIDE DEF new
<1>6. /\ worker' \in [Workers -> Locals] /\ worker'[w] = new
      /\ \A v \in Workers \ {w} : worker'[v] = worker[v]
  BY <1>4, <1>5, Went DEF TestInv
<1>7. tester' = tester /\ kind' = kind /\ Size' = Size /\ PlacesOf' = PlacesOf
  BY <1>4 DEF Same, Size, PlacesOf
<1>8. tester # "RWLockTester" /\ Size = 1 /\ at \in PlacesOf
  <2>1. worker[w].at \in PlacesOf
    BY DEF TestInv, Placed
  <2> QED
    BY <1>1, <2>1, PlacesAre DEF TestInv, Size
<1>9. shared' \in [0 .. Size - 1 -> Int] /\ shared'[0] = sum
  BY <1>1, <1>3, <1>4
<1> HIDE DEF sum, tally, left
<1>10. Typed'
  BY <1>4, <1>6, <1>7, <1>9 DEF TestInv, Typed, Locals
<1>11. Suited' /\ AllOk'
  BY <1>1, <1>5, <1>6, <1>7 DEF TestInv, Suited, AllOk
<1>12. Placed'
  BY <1>1, <1>5, <1>6, <1>7, <1>8 DEF TestInv, Placed
<1>13. LockHeld'
  <2>1. Holds(w) /\ ~Reads(w)
    BY <1>1 DEF Holds, Reads
  <2>2. tester = "RecursiveMutexTester" => worker[w].locks > 0
    BY <1>1 DEF TestInv, Placed
  <2> QED
    BY <1>4, <1>5, <2>1, <2>2, HeldAsBefore
<1>14. Counted'
  <2> SUFFICES ASSUME ~race.reported PROVE Counted'
    BY <1>4 DEF Counted
  <2>1. shared[0] = Total /\ worker[w].local = shared[0]
    BY <1>1, <1>8 DEF TestInv, Counted
  <2>2. Total' = Total + Amount(w)
    <3>1. Workers' = Workers /\ IsFiniteSet(Workers)
      BY DEF LocksAssumption
    <3>2. /\ \A v \in Workers : Tallies[v] \in Int
          /\ Tallies'[w] = tally /\ Tallies[w] = worker[w].tally
          /\ \A v \in Workers \ {w} : Tallies'[v] = Tallies[v]
      BY <1>5, <1>6 DEF Tallies, TestInv, Typed, Locals
    <3>3. Sums(Tallies', Workers)[Workers]
              = Sums(Tallies, Workers)[Workers] + (tally - worker[w].tally)
          /\ Sums(Tallies, Workers)[Workers] \in Int
      BY <1>3, <3>1, <3>2, SumChanges
    <3>4. Total' = Sums(Tallies', Workers)[Workers]
      <4>1. (Total = Sums(Tallies, Workers)[Workers])'
        BY TotalIs, PTL
      <4> QED
        BY <4>1
    <3>5. tally - worker[w].tally = Amount(w)
      BY <1>2 DEF tally
    <3> QED
      BY <3>3, <3>4, <3>5, TotalIs
  <2>3. shared'[0] = Total'
    BY <1>9, <2>1, <2>2 DEF sum
  <2>4. \A v \in Workers : worker'[v].at # "store"
    BY <1>1, <1>5, <1>6, OneHolder DEF Holds
  <2> QED
    BY <2>3, <2>4 DEF Counted
<1>15. Rising'
  BY <1>7, <1>8 DEF Rising
<1>16. Reading'
  BY <1>5, <1>6, <1>7, <1>8 DEF TestInv, Reading
<1>17. Remembered'
  <2> SUFFICES ASSUME tester = "RecursiveMutexTester", NEW v \in Workers, worker'[v].locks > 0
               PROVE  shared'[0] = worker'[v].last
    BY <1>7 DEF Remembered
  <2>1. v = w
    <3>1. Holds(w) /\ (v # w => Holds(v))
      BY <1>1, <1>6 DEF Holds
    <3>2. kind.blocking
      BY DEF TestInv, Suited
    <3> QED
      BY <3>1, <3>2 DEF TestInv, LockHeld
  <2> QED
    BY <1>5, <1>6, <1>9, <2>1
<1> QED
  BY <1>10, <1>11, <1>12, <1>13, <1>14, <1>15, <1>16, <1>17 DEF TestInv

\* The writer goes down by one element and by one.
LEMMA FillStep ==
  ASSUME LocksAssumption, IInv, TestInv, NEW w \in Workers, Fill(w)
  PROVE  TestInv'
<1> DEFINE j == worker[w].index
           value == worker[w].local
           at == IF j = 0 THEN "unlock" ELSE "fill"
           nextValue == value - 1
           nextIndex == j - 1
           new == [worker[w] EXCEPT !.local = nextValue, !.index = nextIndex, !.at = at]
<1>1. /\ worker[w] \in Locals /\ worker[w].at = "fill" /\ worker[w].ok
      /\ shared \in [0 .. Size - 1 -> Int] /\ Size \in Nat \ {0}
  BY DEF TestInv, Typed, Fill, At, AllOk
<1>2. tester = "RWLockTester" /\ kind.blocking /\ {"unlock", "fill"} \subseteq PlacesOf
  <2>1. worker[w].at \in PlacesOf
    BY DEF TestInv, Placed
  <2> QED
    BY <1>1, <2>1, PlacesAre DEF TestInv, Suited
<1>3. /\ j \in 0 .. Size - 1
      /\ \A i \in j + 1 .. Size - 1 : shared[i] = value + (i - j)
  BY <1>1, <1>2 DEF TestInv, Rising
<1>4. value \in Int /\ nextValue \in Int /\ nextIndex \in Int
  BY <1>1, SMTT(60) DEF Locals
<1>5. Go(w, new) /\ Same /\ UNCHANGED <<lock, race>> /\ shared' = [shared EXCEPT ![j] = value]
  BY DEF Fill
<1>6. /\ new.at = at /\ new.locks = worker[w].locks /\ new.local = nextValue
      /\ new.index = nextIndex /\ new.tally = worker[w].tally /\ new.ok = worker[w].ok
      /\ new \in Locals
  <2> HIDE DEF nextValue, nextIndex
  <2> QED
    BY <1>1, <1>4 DEF Locals
<1> HIDE DEF new
<1>7. /\ worker' \in [Workers -> Locals] /\ worker'[w] = new
      /\ \A v \in Workers \ {w} : worker'[v] = worker[v]
  BY <1>5, <1>6, Went DEF TestInv
<1>8. tester' = tester /\ kind' = kind /\ Size' = Size /\ PlacesOf' = PlacesOf
  BY <1>5 DEF Same, Size, PlacesOf
<1>9. Holds(w) /\ ~Reads(w) /\ \A v \in Workers \ {w} : ~Holds(v)
  BY <1>1, <1>2 DEF TestInv, LockHeld, Holds, Reads
<1>10. Typed'
  BY <1>3, <1>4, <1>5, <1>7, <1>8 DEF TestInv, Typed, Locals
<1>11. Suited' /\ AllOk'
  BY <1>1, <1>6, <1>7, <1>8 DEF TestInv, Suited, AllOk
<1>12. Placed'
  BY <1>1, <1>2, <1>6, <1>7, <1>8 DEF TestInv, Placed
<1>13. LockHeld'
  BY <1>2, <1>5, <1>6, <1>9, HeldAsBefore
<1>14. Counted' /\ Remembered'
  BY <1>2, <1>8 DEF Counted, Remembered
<1>15. /\ shared'[j] = value
       /\ \A i \in 0 .. Size - 1 : i # j => shared'[i] = shared[i]
  BY <1>1, <1>3, <1>5
<1>16. Rising'
  <2>1. CASE j = 0
    <3>1. \A v \in Workers : worker'[v].at # "fill"
      BY <1>6, <1>7, <1>9, <2>1 DEF Holds
    <3>2. ASSUME NEW i \in 1 .. Size - 1 PROVE shared'[i] = shared'[i - 1] + 1
      <4>1. i - 1 = 0 \/ i - 1 \in 1 .. Size - 1
        BY <1>1
      <4> HIDE DEF j, value
      <4>2. shared'[i] = value + i
        BY <1>1, <1>3, <1>15, <2>1
      <4>3. shared'[i - 1] = value + (i - 1)
        BY <1>1, <1>3, <1>4, <1>15, <2>1, <4>1
      <4> QED
        BY <1>4, <4>2, <4>3
    <3> QED
      BY <1>8, <3>1, <3>2 DEF Rising
  <2>2. CASE j # 0
    <3>1. new.at = "fill" /\ new.index = j - 1 /\ new.local = value - 1
      BY <1>6, <2>2
    <3> HIDE DEF j, value
    <3>2. j - 1 \in 0 .. Size - 1
      BY <1>1, <1>3, <2>2
    <3>3. ASSUME NEW i \in (j - 1) + 1 .. Size - 1 PROVE shared'[i] = (value - 1) + (i - (j - 1))
      <4>1. i \in 0 .. Size - 1 /\ (i = j \/ i \in j + 1 .. Size - 1)
        BY <1>1, <1>3
      <4> QED
        BY <1>3, <1>4, <1>15, <4>1
    <3>4. \A v \in Workers \ {w} : worker'[v].at # "fill"
      BY <1>7, <1>9 DEF Holds
    <3> QED
      BY <1>7, <1>8, <3>1, <3>2, <3>3, <3>4 DEF Rising
  <2> QED
    BY <2>1, <2>2
<1>17. Reading'
  <2>1. \A v \in Workers : ~Reads(v)
    <3>1. lock.owner = w
      BY <1>2, <1>9 DEF TestInv, LockHeld
    <3> QED
      BY <1>2, <3>1 DEF TestInv, LockHeld
  <2> QED
    BY <1>6, <1>7, <2>1 DEF Reading, Reads
<1> QED
  BY <1>10, <1>11, <1>12, <1>13, <1>14, <1>16, <1>17 DEF TestInv

LEMMA TestStep ==
  ASSUME LocksAssumption, IInv, TestInv, Next
  PROVE  TestInv'
<1>1. PICK w \in Workers : Section(w) \/ Recursive(w) \/ Exit(w)
  BY DEF Next
<1>2. CASE Section(w)
  BY <1>2, EnterExclusiveStep, LoadStep, StoreStep, FillStep, LeaveExclusiveStep,
     EnterSharedStep, CheckStep, LeaveSharedStep DEF Section
<1>3. CASE Recursive(w)
  BY <1>3, DrawStep, UnlockOneStep, LockOneStep, AdjustedStep DEF Recursive
<1>4. CASE Exit(w)
  BY <1>4, ExitStep
<1> QED
  BY <1>1, <1>2, <1>3, <1>4

\* Every test of SynchroTests passes with every adapter it can run with, for any
\* number of threads, iterations, elements and recursive locks: no update is
\* lost, no reader sees half a write and no thread that keeps the recursive
\* mutex finds another's value (RecursiveMutexTester.cpp:72,
\* RWLockTester.cpp:55).
THEOREM TestsAlwaysPass == LocksAssumption => (Spec => []TestsPass)
<1>1. ASSUME LocksAssumption PROVE Spec => []TestsPass
  <2>1. Init => IInv /\ TestInv
    BY <1>1, DetectorInitially, TestInitially
  <2>2. IInv /\ TestInv /\ [Next]_vars => (IInv /\ TestInv)'
    <3> SUFFICES ASSUME IInv, TestInv, [Next]_vars PROVE (IInv /\ TestInv)'
      OBVIOUS
    <3>1. IInv'
      BY DetectorSteps
    <3>2. CASE Next
      BY <1>1, <3>1, <3>2, TestStep
    <3>3. CASE UNCHANGED vars
      <4>1. Total' = Total
        BY <3>3, TotalKept DEF vars
      <4>2. (Typed /\ Suited /\ Placed)'
        BY <3>3 DEF vars, TestInv, Typed, Locals, Suited, Placed, PlacesOf, Size
      <4>3. (LockHeld /\ Counted)'
        BY <3>3, <4>1 DEF vars, TestInv, LockHeld, Holds, Reads, Depth, Counted
      <4>4. (Rising /\ Reading /\ Remembered /\ AllOk)'
        BY <3>3 DEF vars, TestInv, Rising, Reading, Remembered, AllOk, Size
      <4> QED
        BY <3>1, <4>2, <4>3, <4>4 DEF TestInv
    <3> QED
      BY <3>2, <3>3
  <2>3. IInv /\ TestInv => TestsPass
    <3> SUFFICES ASSUME TestInv, Joined, ~race.reported
                 PROVE  Passed /\ lock.owner = NoWorker /\ lock.readers = {}
      BY DEF TestsPass, TestInv, AllOk
    <3>1. \A w \in Workers : worker[w].at = "exited" /\ worker[w].locks = 0
      BY DEF Joined, TestInv, Placed
    <3>2. \A w \in Workers : ~Holds(w) /\ ~Reads(w)
      BY <3>1 DEF Holds, Reads
    <3>3. lock.owner = NoWorker /\ lock.readers = {}
      BY <3>2 DEF TestInv, LockHeld, Typed
    <3> QED
      BY <3>3 DEF Passed, TestInv, AllOk, Counted
  <2> QED
    BY <2>1, <2>2, <2>3, PTL DEF Spec
<1> QED
  BY <1>1
=============================================================================
