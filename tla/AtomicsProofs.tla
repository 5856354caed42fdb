---------------------------- MODULE AtomicsProofs ----------------------------
(***************************************************************************)
(* Every implementation of the atomic operations of turf is atomic, and    *)
(* its wrappers order memory as the callers ask, for any number of threads *)
(* and any calls.                                                          *)
(*                                                                         *)
(* The proof does not go through the programs one by one.  A program is    *)
(* sound if each step may follow the one before it and leave to the one    *)
(* after it what that one relies on; every program of every implementation *)
(* is, which is shown by looking at its text.  The invariant says of the   *)
(* registers of a thread what the step before the next one has left, and   *)
(* each kind of step is then shown to be, to the abstract cell, nothing,   *)
(* the effect of the operation, or the spurious failure of a weak          *)
(* compare-exchange.                                                       *)
(***************************************************************************)
EXTENDS Atomics, TLAPS

----------------------------------------------------------------------------
(* What every program of every implementation is like.                     *)

Comparing  == {"compareExchange", "compareExchangeWeak", "compareExchangeStrong"}
Telling    == {"compareExchangeWeak", "compareExchangeStrong"}
Fetching   == {"fetchAdd", "fetchSub", "fetchAnd", "fetchOr"}

\* Steps that write what is in desired if the cell still holds what is in
\* previous, steps that put it there, and steps that see to it that previous is
\* what the caller expects.
Commits  == {"strex", "cmpxchg", "cmpxchgWeak"}
Computes == {"keep", "combine", "adc"}
Tests    == {"expect", "leaveUnlessExpected"}

\* The steps that may come next, and those that may be the last.
Followers(name) ==
    CASE name = "read"      -> {"combine"}
      [] name = "readLow"   -> {"readHigh"}
      [] name = "readHigh"  -> {"combine", "compare8b", "cmpxchg"}
      [] name = "ldrex"     -> {"leaveUnlessExpected", "keep", "combine", "adds", "strex"}
      [] name = "setFailed" -> {"ldrex"}
      [] name = "any"       -> {"keep", "compare8b"}
      [] name = "adds"      -> {"adc"}
      [] name = "compare8b" -> {"write8b"}
      [] name \in Computes \cup Tests      -> Commits
      [] name \in Commits \cup {"write8b"} -> {"retry"}
      [] OTHER              -> {}

Last == {"read", "write", "xchg", "xadd", "retry"} \cup Commits

\* The steps of programs with exclusive accesses.
Exclusive == {"setFailed", "ldrex", "leaveUnlessExpected", "keep", "combine", "adds", "adc",
              "strex", "retry"}

Name(p, k) == p.code[k][1]
Length(p)  == Len(p.code)

SoundAt(op, p, k) ==
    LET name   == Name(p, k)
        before == IF k = 1 THEN "none" ELSE Name(p, k - 1)
        n      == Length(p)
        to     == p.code[k][2]
    IN  /\ IF k < n THEN Name(p, k + 1) \in Followers(name) ELSE name \in Last
        /\ k = 1 => name \notin {"leaveUnlessExpected", "retry", "adc", "write8b"}
        /\ name = "read" /\ k = n => k = 1 /\ op = "load"
        /\ name \in {"write", "compare8b", "write8b"} => op = "store"
        /\ name = "xchg" => op = "exchange"
        /\ name = "keep" => op = "load"
        /\ name \in {"xadd", "combine"} => op \in Fetching
        /\ name \in {"adds", "adc"} => op = "fetchAdd"
        /\ name \in Tests => op \in Comparing
        /\ name \in Commits =>
              /\ op \in Comparing => before \in Tests
              /\ op \in {"load"} \cup Fetching => before \in Computes
              /\ k = n => op \in {"load"} \cup Comparing
        /\ name = "cmpxchgWeak" \/ (name = "strex" /\ k = n) =>
              op = "compareExchangeWeak" /\ p.matched = "status" /\ k = n
        /\ name = "ldrex" =>
              /\ p.matched = "status" => before = "setFailed"
              /\ \A j \in 1 .. n : Name(p, j) \in Exclusive
        /\ name = "retry" =>
              /\ p.matched = "always"
              /\ to \in 1 .. n /\ Name(p, to) \notin {"leaveUnlessExpected", "retry"}
              /\ to > 1 => Name(p, to - 1) \in {"any", "readHigh"}

SoundProgram(op, p) ==
    /\ Length(p) \in 1 .. 5
    /\ p.matched \in {"always", "status", "compare"}
    /\ p.matched = "always" <=> op \notin Telling
    /\ \A k \in 1 .. Length(p) : SoundAt(op, p, k)

\* An implementation: its operations, each with its program and its fences.
SoundOperation(op, p, fences) ==
    /\ SoundProgram(op, p)
    /\ op # "load" => "release" \in fences
    /\ op # "store" => "acquire" \in fences

SoundImplementation(c) ==
    /\ c.size \in {2, 4} /\ c.starts \subseteq 0 .. c.size - 1
    /\ DOMAIN c.programs \subseteq Operations
    /\ c.size = 2 => DOMAIN c.programs \cap Fetching = {}
    /\ \A op \in DOMAIN c.programs : SoundOperation(op, c.programs[op], c.fences[op])

----------------------------------------------------------------------------
(* The programs.                                                           *)

LEMMA PlainPrograms ==
  SoundProgram("load", Load) /\ SoundProgram("store", Store)
BY DEF Load, Store, SoundProgram, SoundAt, Length, Name, Followers, Last, Exclusive, Commits, Computes, Tests,
       Comparing, Telling, Fetching, Do, Retry, Returns

LEMMA LdrexProgramsSound ==
  /\ SoundProgram("compareExchange", LdrexCas)
  /\ SoundProgram("exchange", LdrexExchange)
  /\ SoundProgram("compareExchangeWeak", LdrexWeak)
  /\ \A op \in Arithmetic : SoundProgram(op, LdrexFetch)
<1>1. SoundProgram("compareExchange", LdrexCas)
  BY DEF LdrexCas, SoundProgram, SoundAt, Length, Name, Followers, Last, Exclusive, Commits, Computes, Tests,
         Comparing, Telling, Fetching, Do, Retry, Returns
<1>2. SoundProgram("exchange", LdrexExchange)
  BY DEF LdrexExchange, SoundProgram, SoundAt, Length, Name, Followers, Last, Exclusive, Commits, Computes, Tests,
         Comparing, Telling, Fetching, Do, Retry, Returns
<1>3. SoundProgram("compareExchangeWeak", LdrexWeak)
  <2> DEFINE P == LdrexWeak
  <2>1. P.code = <<<<"setFailed">>, <<"ldrex">>, <<"leaveUnlessExpected">>, <<"strex">>>> /\ P.matched = "status" /\ Len(P.code) = 4
    BY DEF LdrexWeak, TellsByStatus, Do, Retry
  <2> HIDE DEF P
  <2>2. SoundAt("compareExchangeWeak", P, 1)
    BY <2>1 DEF SoundAt, Length, Name, Followers, Last, Exclusive, Commits, Computes, Tests, Comparing
  <2>3. SoundAt("compareExchangeWeak", P, 2)
    BY <2>1 DEF SoundAt, Length, Name, Followers, Last, Exclusive, Commits, Computes, Tests, Comparing
  <2>4. SoundAt("compareExchangeWeak", P, 3)
    BY <2>1 DEF SoundAt, Length, Name, Followers, Last, Exclusive, Commits, Computes, Tests, Comparing
  <2>5. SoundAt("compareExchangeWeak", P, 4)
    BY <2>1 DEF SoundAt, Length, Name, Last, Commits, Tests, Comparing, Fetching
  <2>6. SoundProgram("compareExchangeWeak", P)
    BY <2>1, <2>2, <2>3, <2>4, <2>5 DEF SoundProgram, Telling, Length
  <2> QED
    BY <2>6 DEF P
<1>4. \A op \in Arithmetic : SoundProgram(op, LdrexFetch)
  BY DEF LdrexFetch, Arithmetic, Masks, SoundProgram, SoundAt, Length, Name, Followers, Last, Exclusive, Commits, Computes, Tests,
         Comparing, Telling, Fetching, Do, Retry, Returns
<1> QED
  BY <1>1, <1>2, <1>3, <1>4

LEMMA LdrexdProgramsSound ==
  /\ SoundProgram("load", Ldrexd64)
  /\ SoundProgram("store", Store64)
  /\ SoundProgram("compareExchange", LdrexdCas64)
  /\ SoundProgram("fetchAdd", LdrexdAdd64)
  /\ \A op \in Masks : SoundProgram(op, LdrexdMask64)
<1>1. SoundProgram("load", Ldrexd64)
  BY DEF Ldrexd64, SoundProgram, SoundAt, Length, Name, Followers, Last, Exclusive, Commits, Computes, Tests,
         Comparing, Telling, Fetching, Do, Retry, Returns
<1>2. SoundProgram("store", Store64)
  BY DEF Store64, SoundProgram, SoundAt, Length, Name, Followers, Last, Exclusive, Commits, Computes, Tests,
         Comparing, Telling, Fetching, Do, Retry, Returns
<1>3. SoundProgram("compareExchange", LdrexdCas64)
  BY DEF LdrexdCas64, SoundProgram, SoundAt, Length, Name, Followers, Last, Exclusive, Commits, Computes, Tests,
         Comparing, Telling, Fetching, Do, Retry, Returns
<1>4. SoundProgram("fetchAdd", LdrexdAdd64)
  BY DEF LdrexdAdd64, SoundProgram, SoundAt, Length, Name, Followers, Last, Exclusive, Commits, Computes, Tests,
         Comparing, Telling, Fetching, Do, Retry, Returns
<1>5. \A op \in Masks : SoundProgram(op, LdrexdMask64)
  BY DEF LdrexdMask64, Masks, SoundProgram, SoundAt, Length, Name, Followers, Last, Exclusive, Commits, Computes, Tests,
         Comparing, Telling, Fetching, Do, Retry, Returns
<1> QED
  BY <1>1, <1>2, <1>3, <1>4, <1>5

LEMMA LockedProgramsSound ==
  /\ SoundProgram("exchange", Xchg)
  /\ SoundProgram("compareExchange", LockedCas)
  /\ SoundProgram("compareExchangeWeak", LockedWeak)
  /\ SoundProgram("compareExchangeStrong", LockedWeak)
  /\ SoundProgram("compareExchangeWeak", StandardWeak)
  /\ \A op \in Fetching : SoundProgram(op, Xadd)
  /\ \A op \in Fetching : SoundProgram(op, CmpxchgLoop)
<1>1. SoundProgram("exchange", Xchg)
  BY DEF Xchg, SoundProgram, SoundAt, Length, Name, Followers, Last, Exclusive, Commits, Computes, Tests,
         Comparing, Telling, Fetching, Do, Retry, Returns
<1>2. SoundProgram("compareExchange", LockedCas)
  BY DEF LockedCas, SoundProgram, SoundAt, Length, Name, Followers, Last, Exclusive, Commits, Computes, Tests,
         Comparing, Telling, Fetching, Do, Retry, Returns
<1>3. SoundProgram("compareExchangeWeak", LockedWeak)
  BY SMTT(60) DEF LockedWeak, TellsByCompare, SoundProgram, SoundAt, Length, Name, Followers, Last, Exclusive, Commits, Computes, Tests,
         Comparing, Telling, Fetching, Do, Retry
<1>4. SoundProgram("compareExchangeStrong", LockedWeak)
  BY SMTT(60) DEF LockedWeak, TellsByCompare, SoundProgram, SoundAt, Length, Name, Followers, Last, Exclusive, Commits, Computes, Tests,
         Comparing, Telling, Fetching, Do, Retry
<1>5. SoundProgram("compareExchangeWeak", StandardWeak)
  BY DEF StandardWeak, TellsByStatus, SoundProgram, SoundAt, Length, Name, Followers, Last, Exclusive, Commits, Computes, Tests,
         Comparing, Telling, Fetching, Do, Retry
<1>6. \A op \in Fetching : SoundProgram(op, Xadd)
  BY DEF Xadd, SoundProgram, SoundAt, Length, Name, Followers, Last, Exclusive, Commits, Computes, Tests,
         Comparing, Telling, Fetching, Do, Retry, Returns
<1>7. \A op \in Fetching : SoundProgram(op, CmpxchgLoop)
  BY DEF CmpxchgLoop, SoundProgram, SoundAt, Length, Name, Followers, Last, Exclusive, Commits, Computes, Tests,
         Comparing, Telling, Fetching, Do, Retry, Returns
<1> QED
  BY <1>1, <1>2, <1>3, <1>4, <1>5, <1>6, <1>7

LEMMA Cmpxchg8bProgramsSound ==
  /\ SoundProgram("load", DummyCas)
  /\ SoundProgram("store", Store8b)
  /\ SoundProgram("exchange", Exchange8b)
  /\ SoundProgram("store", BlindStore8b)
  /\ \A op \in Fetching : SoundProgram(op, RereadLoop8b)
  /\ \A op \in Fetching : SoundProgram(op, ContinueLoop8b)
<1>1. SoundProgram("load", DummyCas)
  BY DEF DummyCas, SoundProgram, SoundAt, Length, Name, Followers, Last, Exclusive, Commits, Computes, Tests,
         Comparing, Telling, Fetching, Do, Retry, Returns
<1>2. SoundProgram("store", Store8b)
  BY DEF Store8b, SoundProgram, SoundAt, Length, Name, Followers, Last, Exclusive, Commits, Computes, Tests,
         Comparing, Telling, Fetching, Do, Retry, Returns
<1>3. SoundProgram("exchange", Exchange8b)
  BY DEF Exchange8b, SoundProgram, SoundAt, Length, Name, Followers, Last, Exclusive, Commits, Computes, Tests,
         Comparing, Telling, Fetching, Do, Retry, Returns
<1>4. SoundProgram("store", BlindStore8b)
  <2> DEFINE P == BlindStore8b
  <2>1. P.code = <<<<"any">>, <<"compare8b">>, <<"write8b">>, <<"retry", 2>>>> /\ P.matched = "always" /\ Len(P.code) = 4
    BY DEF BlindStore8b, Returns, Do, Retry
  <2> HIDE DEF P
  <2>2. SoundAt("store", P, 1)
    BY <2>1 DEF SoundAt, Length, Name, Followers, Last, Exclusive, Commits, Computes, Tests, Comparing
  <2>3. SoundAt("store", P, 2)
    BY <2>1 DEF SoundAt, Length, Name, Followers, Last, Exclusive, Commits, Computes, Tests, Comparing
  <2>4. SoundAt("store", P, 3)
    BY <2>1 DEF SoundAt, Length, Name, Followers, Last, Exclusive, Commits, Computes, Tests, Comparing
  <2>5. SoundAt("store", P, 4)
    BY <2>1 DEF SoundAt, Length, Name, Followers, Last, Exclusive, Commits, Computes, Tests, Comparing
  <2>6. SoundProgram("store", P)
    BY <2>1, <2>2, <2>3, <2>4, <2>5 DEF SoundProgram, Telling, Length
  <2> QED
    BY <2>6 DEF P
<1>5. \A op \in Fetching : SoundProgram(op, RereadLoop8b)
  BY DEF RereadLoop8b, SoundProgram, SoundAt, Length, Name, Followers, Last, Exclusive, Commits, Computes, Tests,
         Comparing, Telling, Fetching, Do, Retry, Returns
<1>6. \A op \in Fetching : SoundProgram(op, ContinueLoop8b)
  BY DEF ContinueLoop8b, SoundProgram, SoundAt, Length, Name, Followers, Last, Exclusive, Commits, Computes, Tests,
         Comparing, Telling, Fetching, Do, Retry, Returns
<1> QED
  BY <1>1, <1>2, <1>3, <1>4, <1>5, <1>6


----------------------------------------------------------------------------
(* The implementations.                                                    *)

LEMMA TablesSound ==
  /\ \A op \in LdrexOps \cup {"exchange", "compareExchangeWeak"} : SoundProgram(op, LdrexLoops(op))
  /\ \A op \in LdrexOps : SoundProgram(op, LdrexdLoops(op))
  /\ \A op \in CommonOps : /\ SoundProgram(op, LockedWords(op)) /\ SoundProgram(op, Words8b(op))
                          /\ SoundProgram(op, Interlocked(op)) /\ SoundProgram(op, MsvcWords8b(op))
  /\ \A op \in CommonOps \cup {"fetchSub", "compareExchangeStrong"} : SoundProgram(op, Standard(op))
<1> USE DEF LdrexOps, CommonOps, Arithmetic, Masks, Fetching
<1>1. \A op \in LdrexOps \cup {"exchange", "compareExchangeWeak"} : SoundProgram(op, LdrexLoops(op))
  BY PlainPrograms, LdrexProgramsSound DEF LdrexLoops
<1>2. \A op \in LdrexOps : SoundProgram(op, LdrexdLoops(op))
  BY LdrexdProgramsSound DEF LdrexdLoops
<1>3. \A op \in CommonOps : SoundProgram(op, LockedWords(op))
  BY PlainPrograms, LockedProgramsSound DEF LockedWords
<1>4. \A op \in CommonOps : SoundProgram(op, Words8b(op))
  BY LockedProgramsSound, Cmpxchg8bProgramsSound DEF Words8b
<1>5. \A op \in CommonOps : SoundProgram(op, Interlocked(op))
  BY <1>3, LockedProgramsSound DEF Interlocked
<1>6. \A op \in CommonOps : SoundProgram(op, MsvcWords8b(op))
  BY <1>4, Cmpxchg8bProgramsSound DEF MsvcWords8b
<1>7. \A op \in CommonOps \cup {"fetchSub", "compareExchangeStrong"} : SoundProgram(op, Standard(op))
  BY <1>3, LockedProgramsSound DEF Standard
<1> QED
  BY <1>1, <1>2, <1>3, <1>4, <1>5, <1>6, <1>7

LEMMA FencesSound ==
  /\ \A op, fences : {"acquire", "release"} \subseteq fences =>
         /\ op # "load" => "release" \in Fenced(op) \cap fences
         /\ op # "store" => "acquire" \in Fenced(op) \cap fences
  /\ \A op : /\ Wrapper8(op) = Fenced(op) /\ Wrapper16(op) = Fenced(op)
             /\ Wrapper32(op) = Fenced(op) /\ Wrapper64(op) = Fenced(op)
  /\ {"acquire", "release"} \subseteq ArmFences /\ {"acquire", "release"} \subseteq ArmThumbFences
  /\ {"acquire", "release"} \subseteq X86Fences /\ {"acquire", "release"} \subseteq MsvcFences
BY DEF Fenced, Wrapper8, Wrapper16, Wrapper32, Wrapper64, ArmFences, ArmThumbFences, X86Fences, MsvcFences

LEMMA ImplementationsSound ==
  /\ SoundImplementation(Arm8)
  /\ SoundImplementation(Arm16)
  /\ SoundImplementation(Arm32)
  /\ SoundImplementation(Thumb8)
  /\ SoundImplementation(Thumb16)
  /\ SoundImplementation(Thumb32)
  /\ SoundImplementation(Arm64)
  /\ SoundImplementation(GccX86_8)
  /\ SoundImplementation(GccX86_16)
  /\ SoundImplementation(GccX86_32)
  /\ SoundImplementation(GccX64_64)
  /\ SoundImplementation(GccX86_64)
  /\ SoundImplementation(Msvc8)
  /\ SoundImplementation(Msvc16)
  /\ SoundImplementation(Msvc32)
  /\ SoundImplementation(MsvcX64_64)
  /\ SoundImplementation(MsvcX86_64)
  /\ SoundImplementation(Cpp11)
<1> USE DEF SoundImplementation, SoundOperation, Implementation, Operations, LdrexOps, CommonOps, Arithmetic, Masks
<1>1. SoundImplementation(Arm8)
  BY TablesSound, FencesSound DEF Arm8
<1>2. SoundImplementation(Arm16)
  BY TablesSound, FencesSound DEF Arm16
<1>3. SoundImplementation(Arm32)
  BY TablesSound, FencesSound DEF Arm32
<1>4. SoundImplementation(Thumb8)
  BY TablesSound, FencesSound DEF Thumb8
<1>5. SoundImplementation(Thumb16)
  BY TablesSound, FencesSound DEF Thumb16
<1>6. SoundImplementation(Thumb32)
  BY TablesSound, FencesSound DEF Thumb32
<1>7. SoundImplementation(Arm64)
  BY TablesSound, FencesSound DEF Arm64
<1>8. SoundImplementation(GccX86_8)
  BY TablesSound, FencesSound DEF GccX86_8
<1>9. SoundImplementation(GccX86_16)
  BY TablesSound, FencesSound DEF GccX86_16
<1>10. SoundImplementation(GccX86_32)
  BY TablesSound, FencesSound DEF GccX86_32
<1>11. SoundImplementation(GccX64_64)
  BY TablesSound, FencesSound DEF GccX64_64
<1>12. SoundImplementation(GccX86_64)
  BY TablesSound, FencesSound DEF GccX86_64
<1>13. SoundImplementation(Msvc8)
  BY TablesSound, FencesSound DEF Msvc8
<1>14. SoundImplementation(Msvc16)
  BY TablesSound, FencesSound DEF Msvc16
<1>15. SoundImplementation(Msvc32)
  BY TablesSound, FencesSound DEF Msvc32
<1>16. SoundImplementation(MsvcX64_64)
  BY TablesSound, FencesSound DEF MsvcX64_64
<1>17. SoundImplementation(MsvcX86_64)
  BY TablesSound, FencesSound DEF MsvcX86_64
<1>18. SoundImplementation(Cpp11)
  BY TablesSound, FencesSound DEF Cpp11
<1> QED
  BY <1>1, <1>2, <1>3, <1>4, <1>5, <1>6, <1>7, <1>8, <1>9, <1>10, <1>11, <1>12, <1>13, <1>14, <1>15, <1>16, <1>17, <1>18

\* The operations that the C++ classes add, and the one that takes some away.
LEMMA AddingSound ==
  ASSUME NEW c, NEW op \in Operations, NEW from \in DOMAIN c.programs, NEW program,
         c \in [programs : {c.programs}, fences : {c.fences}, starts : {c.starts}, size : {c.size}],
         SoundImplementation(c), DOMAIN c.fences = DOMAIN c.programs,
         c.size = 2 => op \notin Fetching,
         SoundProgram(op, program), op \notin {"load", "store"}, from \notin {"load", "store"}
  PROVE  LET d == Adding(c, op, from, program)
         IN  /\ SoundImplementation(d)
             /\ DOMAIN d.programs = DOMAIN c.programs \cup {op} /\ DOMAIN d.fences = DOMAIN d.programs
             /\ d.programs[op] = program
             /\ \A o \in DOMAIN c.programs : o # op => d.programs[o] = c.programs[o]
BY DEF SoundImplementation, SoundOperation, Adding, With

\* The strong compare-exchange, over any implementation that compares with cmpxchg.
LEMMA StrongSound ==
  ASSUME NEW c,
         c \in [programs : {c.programs}, fences : {c.fences}, starts : {c.starts}, size : {c.size}],
         SoundImplementation(c), DOMAIN c.fences = DOMAIN c.programs,
         "compareExchange" \in DOMAIN c.programs, c.programs["compareExchange"] = LockedCas
  PROVE  LET d == WithStrong(c)
         IN  /\ SoundImplementation(d)
             /\ DOMAIN d.programs = DOMAIN c.programs \cup {"compareExchangeStrong"}
             /\ DOMAIN d.fences = DOMAIN d.programs
             /\ \A o \in DOMAIN c.programs : o # "compareExchangeStrong" => d.programs[o] = c.programs[o]
<1>1. TellsByCompare(c.programs["compareExchange"].code) = LockedWeak
  BY DEF LockedCas, LockedWeak, Returns, TellsByCompare
<1>2. SoundProgram("compareExchangeStrong", LockedWeak)
  BY LockedProgramsSound
<1>3. "compareExchangeStrong" \in Operations /\ "compareExchangeStrong" \notin Fetching
  BY DEF Operations, Fetching, Arithmetic, Masks
<1> QED
  BY <1>1, <1>2, <1>3, AddingSound DEF WithStrong

LEMMA IsImplementation ==
  /\ \A c \in {GccX86_8, GccX86_32, GccX64_64, GccX86_64} :
        /\ c \in [programs : {c.programs}, fences : {c.fences}, starts : {c.starts}, size : {c.size}]
        /\ DOMAIN c.programs = CommonOps /\ DOMAIN c.fences = DOMAIN c.programs
        /\ c.programs["compareExchange"] = LockedCas
        /\ c.size = 4
  /\ GccX86_64.programs["fetchAdd"] = RereadLoop8b
<1> USE DEF Implementation, CommonOps, LockedWords, Words8b, Arithmetic, Masks
<1>1. GccX86_8 = [programs |-> [op \in CommonOps |-> LockedWords(op)],
                  fences |-> GccX86_8.fences, starts |-> 0 .. 3, size |-> 4]
      /\ DOMAIN GccX86_8.fences = CommonOps
  BY DEF GccX86_8
<1>2. GccX86_32 = [programs |-> [op \in CommonOps |-> LockedWords(op)],
                   fences |-> GccX86_32.fences, starts |-> 0 .. 3, size |-> 4]
      /\ DOMAIN GccX86_32.fences = CommonOps
  BY DEF GccX86_32
<1>3. GccX64_64 = [programs |-> [op \in CommonOps |-> LockedWords(op)],
                   fences |-> GccX64_64.fences, starts |-> 0 .. 3, size |-> 4]
      /\ DOMAIN GccX64_64.fences = CommonOps
  BY DEF GccX64_64
<1>4. GccX86_64 = [programs |-> [op \in CommonOps |-> Words8b(op)],
                   fences |-> GccX86_64.fences, starts |-> 0 .. 3, size |-> 4]
      /\ DOMAIN GccX86_64.fences = CommonOps
  BY DEF GccX86_64
<1>5. /\ [op \in CommonOps |-> LockedWords(op)]["compareExchange"] = LockedCas
      /\ [op \in CommonOps |-> Words8b(op)]["compareExchange"] = LockedCas
      /\ [op \in CommonOps |-> Words8b(op)]["fetchAdd"] = RereadLoop8b
  OBVIOUS
<1> QED
  BY <1>1, <1>2, <1>3, <1>4, <1>5

LEMMA ClassesSound ==
  /\ SoundImplementation(Boost)
  /\ SoundImplementation(Pointer4) /\ SoundImplementation(Pointer8)
  /\ SoundImplementation(NativeInteger(GccX86_64))
  /\ SoundImplementation(NativeBool)
<1>1. SoundImplementation(Boost)
  <2>1. /\ Boost.size = Cpp11.size /\ Boost.programs = Cpp11.programs /\ Boost.fences = Cpp11.fences
        /\ Boost.starts = {0} /\ Cpp11.size = 4
    BY DEF Boost, Cpp11, Implementation
  <2> QED
    BY <2>1, ImplementationsSound DEF SoundImplementation
<1>2. "compareExchange" \in CommonOps /\ "fetchAdd" \in CommonOps
  BY DEF CommonOps, Arithmetic
<1>3. SoundImplementation(Pointer4) /\ SoundImplementation(Pointer8)
  BY <1>2, IsImplementation, ImplementationsSound, StrongSound DEF Pointer4, Pointer8, NativePointer
<1>4. SoundImplementation(NativeInteger(GccX86_64))
  <2> DEFINE c == WithStrong(GccX86_64)
  <2>1. /\ SoundImplementation(c) /\ DOMAIN c.fences = DOMAIN c.programs
        /\ DOMAIN c.programs = CommonOps \cup {"compareExchangeStrong"}
        /\ c.programs["fetchAdd"] = RereadLoop8b
    BY <1>2, IsImplementation, ImplementationsSound, StrongSound
  <2>2. c \in [programs : {c.programs}, fences : {c.fences}, starts : {c.starts}, size : {c.size}] /\ c.size = 4
    BY IsImplementation DEF WithStrong, Adding
  <2>3. SoundProgram("fetchSub", RereadLoop8b)
    BY Cmpxchg8bProgramsSound DEF Fetching
  <2>4. "fetchSub" \in Operations /\ "fetchAdd" \in DOMAIN c.programs
    BY <1>2, <2>1 DEF Operations, Arithmetic
  <2> HIDE DEF c
  <2>5. SoundImplementation(WithSub(c))
    BY <2>1, <2>2, <2>3, <2>4, AddingSound DEF WithSub
  <2> QED
    BY <2>5 DEF NativeInteger, c
<1>5. SoundImplementation(NativeBool)
  <2> DEFINE c == WithStrong(GccX86_8)
             programs == [op \in DOMAIN c.programs \ Arithmetic |-> c.programs[op]]
  <2>1. /\ SoundImplementation(c) /\ DOMAIN c.fences = DOMAIN c.programs
        /\ DOMAIN c.programs = CommonOps \cup {"compareExchangeStrong"}
    BY <1>2, IsImplementation, ImplementationsSound, StrongSound
  <2>2. c \in [programs : {c.programs}, fences : {c.fences}, starts : {c.starts}, size : {c.size}]
    BY IsImplementation DEF WithStrong, Adding
  <2>3. /\ NativeBool.programs = programs /\ NativeBool.fences = c.fences
        /\ NativeBool.starts = 0 .. 1 /\ NativeBool.size = 2
    <3>1. NativeBool = [c EXCEPT !.programs = programs, !.starts = 0 .. 1, !.size = 2]
      BY DEF NativeBool
    <3> HIDE DEF c, programs
    <3> QED
      BY <2>2, <3>1
  <2> HIDE DEF c
  <2>4. DOMAIN programs \cap Fetching = {}
    BY <2>1 DEF CommonOps, Arithmetic, Masks, Fetching
  <2> QED
    BY <2>1, <2>3, <2>4 DEF SoundImplementation
<1> QED
  BY <1>1, <1>3, <1>4, <1>5

\* Whichever implementation is in use, it is sound.
LEMMA CodeSound ==
  ASSUME used \in Distinct
  PROVE  SoundImplementation(code)
<1>1. used \in DOMAIN Implementations
  BY DEF Distinct
<1> HIDE DEF Distinct
<1>2. \A n \in DOMAIN Implementations : SoundImplementation(Implementations[n])
  BY ImplementationsSound, ClassesSound DEF Implementations
<1> QED
  BY <1>1, <1>2 DEF code

----------------------------------------------------------------------------
(* What an operation makes of a value.                                     *)

LEMMA Powers == 2^0 = 1 /\ 2^1 = 2 /\ 2^2 = 4 /\ Cell!Values = 0 .. 3 /\ 0 .. 2 - 1 = {0, 1}
BY DEF Cell!Values

LEMMA BitsAre ==
  ASSUME NEW v \in 0 .. 3
  PROVE  Cell!BitsOf(v) = {b \in {0, 1} : (b = 0 /\ Low(v) = 1) \/ (b = 1 /\ High(v) = 1)}
<1>1. \A b \in {0, 1} : (v \div 2^b) % 2 = IF b = 0 THEN Low(v) ELSE High(v)
  <2>1. (v \div 2^0) % 2 = Low(v)
    BY Powers DEF Low
  <2>2. (v \div 2^1) % 2 = High(v)
    BY Powers DEF High
  <2> QED
    BY <2>1, <2>2
<1>2. Cell!BitsOf(v) = {b \in 0 .. 2 - 1 : (v \div 2^b) % 2 = 1}
  BY DEF Cell!BitsOf
<1>3. \A b \in {0, 1} : ((v \div 2^b) % 2 = 1) <=> ((b = 0 /\ Low(v) = 1) \/ (b = 1 /\ High(v) = 1))
  <2> SUFFICES ASSUME NEW b \in {0, 1}
               PROVE  ((v \div 2^b) % 2 = 1) <=> ((b = 0 /\ Low(v) = 1) \/ (b = 1 /\ High(v) = 1))
    OBVIOUS
  <2>1. CASE b = 0
    BY <1>1, <2>1
  <2>2. CASE b = 1
    BY <1>1, <2>2
  <2> QED
    BY <2>1, <2>2
<1>4. 0 .. 2 - 1 = {0, 1}
  OBVIOUS
<1> QED
  BY <1>2, <1>3, <1>4, Zenon

LEMMA NumberIs ==
  ASSUME NEW v \in 0 .. 3, NEW S, S = Cell!BitsOf(v)
  PROVE  Cell!Number(S) = v
<1>1. \A w \in 0 .. 3 : Cell!BitsOf(w) = S => w = v
  <2> SUFFICES ASSUME NEW w \in 0 .. 3, Cell!BitsOf(w) = S
               PROVE  w = v
    OBVIOUS
  <2>1. (0 \in S <=> Low(w) = 1) /\ (1 \in S <=> High(w) = 1) /\ (0 \in S <=> Low(v) = 1) /\ (1 \in S <=> High(v) = 1)
    BY BitsAre
  <2> QED
    BY <2>1 DEF Low, High
<1> QED
  BY <1>1, Powers DEF Cell!Number

LEMMA Masked ==
  ASSUME NEW v \in 0 .. 3, NEW w \in 0 .. 3
  PROVE  /\ Cell!Number(Cell!BitsOf(v) \cap Cell!BitsOf(w)) = Word(High(v) * High(w), Low(v) * Low(w))
         /\ Cell!Number(Cell!BitsOf(v) \cup Cell!BitsOf(w))
               = Word((High(v) + High(w) + 1) \div 2, (Low(v) + Low(w) + 1) \div 2)
<1> DEFINE a == Word(High(v) * High(w), Low(v) * Low(w))
           o == Word((High(v) + High(w) + 1) \div 2, (Low(v) + Low(w) + 1) \div 2)
<1>1. High(v) \in {0, 1} /\ High(w) \in {0, 1} /\ Low(v) \in {0, 1} /\ Low(w) \in {0, 1}
  BY DEF High, Low
<1>2. /\ a \in 0 .. 3 /\ (High(a) = 1 <=> High(v) = 1 /\ High(w) = 1) /\ (Low(a) = 1 <=> Low(v) = 1 /\ Low(w) = 1)
      /\ o \in 0 .. 3 /\ (High(o) = 1 <=> High(v) = 1 \/ High(w) = 1) /\ (Low(o) = 1 <=> Low(v) = 1 \/ Low(w) = 1)
  BY <1>1 DEF High, Low, Word
<1> HIDE DEF a, o
<1>3. Cell!BitsOf(v) \cap Cell!BitsOf(w) = Cell!BitsOf(a)
  BY <1>2, BitsAre
<1>4. Cell!BitsOf(v) \cup Cell!BitsOf(w) = Cell!BitsOf(o)
  BY <1>2, BitsAre
<1> QED
  BY <1>2, <1>3, <1>4, NumberIs DEF a, o

LEMMA EffectIs ==
  ASSUME NEW r \in Calls, NEW v \in 0 .. 3
  PROVE  /\ r.op = "load" => Cell!Effect(r, v) = v
         /\ r.op \in {"store", "exchange"} => Cell!Effect(r, v) = r.operand
         /\ r.op \in Comparing => Cell!Effect(r, v) = IF v = r.expected THEN r.operand ELSE v
         /\ r.op = "fetchAdd" => Cell!Effect(r, v) = (v + r.operand) % 4
         /\ r.op = "fetchSub" => Cell!Effect(r, v) = (v - r.operand) % 4
         /\ r.op = "fetchAnd" => Cell!Effect(r, v) = Word(High(v) * High(r.operand), Low(v) * Low(r.operand))
         /\ r.op = "fetchOr" => Cell!Effect(r, v) = Word((High(v) + High(r.operand) + 1) \div 2,
                                                         (Low(v) + Low(r.operand) + 1) \div 2)
         /\ Cell!Effect(r, v) \in 0 .. 3
<1>0. r.expected \in 0 .. 3 /\ r.operand \in 0 .. 3 /\ r.op \in Operations
  BY CallsAssumption
<1>1. CASE r.op = "load"
  BY <1>0, <1>1 DEF Cell!Effect, Cell!Comparing, Comparing
<1>2. CASE r.op \in {"store", "exchange"}
  BY <1>0, <1>2 DEF Cell!Effect, Cell!Comparing, Comparing
<1>3. CASE r.op \in Comparing
  BY <1>0, <1>3 DEF Cell!Effect, Cell!Comparing, Comparing
<1>4. CASE r.op = "fetchAdd"
  BY <1>0, <1>4, Powers DEF Cell!Effect, Cell!Comparing, Comparing
<1>5. CASE r.op = "fetchSub"
  BY <1>0, <1>5, Powers DEF Cell!Effect, Cell!Comparing, Comparing
<1>6. CASE r.op = "fetchAnd"
  <2>1. Cell!Effect(r, v) = Word(High(v) * High(r.operand), Low(v) * Low(r.operand))
    BY <1>0, <1>6, Masked DEF Cell!Effect, Cell!Comparing
  <2>2. Word(High(v) * High(r.operand), Low(v) * Low(r.operand)) \in 0 .. 3
    BY <1>0 DEF Word, High, Low
  <2> QED
    BY <1>6, <2>1, <2>2 DEF Comparing
<1>7. CASE r.op = "fetchOr"
  <2>1. Cell!Effect(r, v) = Word((High(v) + High(r.operand) + 1) \div 2, (Low(v) + Low(r.operand) + 1) \div 2)
    BY <1>0, <1>7, Masked DEF Cell!Effect, Cell!Comparing
  <2>2. Word((High(v) + High(r.operand) + 1) \div 2, (Low(v) + Low(r.operand) + 1) \div 2) \in 0 .. 3
    <3>1. High(v) \in {0, 1} /\ High(r.operand) \in {0, 1} /\ Low(v) \in {0, 1} /\ Low(r.operand) \in {0, 1}
      BY <1>0 DEF High, Low
    <3> QED
      BY <3>1 DEF Word
  <2> QED
    BY <1>7, <2>1, <2>2 DEF Comparing
<1> QED
  BY <1>0, <1>1, <1>2, <1>3, <1>4, <1>5, <1>6, <1>7 DEF Operations, Arithmetic, Masks, Comparing

LEMMA CombineIs ==
  ASSUME NEW r \in Calls, NEW v \in 0 .. 3, code.size = 4, r.op \in Fetching
  PROVE  Combine(r.op, v, r.operand) = Cell!Effect(r, v)
<1>0. r.operand \in 0 .. 3
  BY CallsAssumption
<1>1. CASE r.op = "fetchAdd"
  BY <1>0, <1>1, EffectIs DEF Combine
<1>2. CASE r.op = "fetchSub"
  <2>1. (v + (4 - r.operand)) % 4 = (v - r.operand) % 4
    BY <1>0
  <2> QED
    BY <1>2, <2>1, EffectIs DEF Combine
<1>3. CASE r.op = "fetchAnd"
  BY <1>3, EffectIs DEF Combine
<1>4. CASE r.op = "fetchOr"
  BY <1>4, EffectIs DEF Combine
<1> QED
  BY <1>1, <1>2, <1>3, <1>4 DEF Fetching

LEMMA AddsWithCarry ==
  ASSUME NEW v \in 0 .. 3, NEW w \in 0 .. 3
  PROVE  LET low   == Low(Low(v) + Low(w))
             d     == Word(0, low)
             carry == IF d < Low(w) THEN 1 ELSE 0
         IN  d \in 0 .. 3 /\ Word(Low(High(v) + High(w) + carry), d) = (v + w) % 4
BY DEF Word, High, Low

----------------------------------------------------------------------------
(* The inductive invariant, of the registers of a thread that runs program *)
(* p on a cell that holds v.                                               *)

RegisterSet ==
    [call : Calls \cup {NoCall}, pc : Nat, settled : BOOLEAN, previous : 0 .. 3, desired : 0 .. 3,
     failed : BOOLEAN, monitor : BOOLEAN]

Decided(p, r) ==
    \/ Name(p, r.pc) = "leaveUnlessExpected" /\ r.previous # r.call.expected
    \/ Name(p, r.pc) = "retry" /\ ~r.failed

RegistersOK(p, v, r) ==
    LET n == Length(p)
        k == r.pc
    IN  /\ k \in 1 .. n + 1
        /\ r.monitor => v = r.previous /\ \E j \in 1 .. n : Name(p, j) = "ldrex"
        /\ r.call.op \notin {"load"} \cup Fetching => r.desired = r.call.operand
        /\ k > 1 /\ Name(p, k - 1) \in Computes => r.desired = Cell!Effect(r.call, r.previous)
        /\ k > 1 /\ Name(p, k - 1) = "adds" =>
              r.desired = Word(0, Low(Low(r.previous) + Low(r.call.operand)))
        /\ k > 1 /\ k <= n /\ Name(p, k - 1) \in Tests => r.previous = r.call.expected
        /\ k <= n => (r.settled <=> Decided(p, r))
        /\ k > n => r.settled
        /\ k <= n /\ p.matched = "status" /\ Name(p, k) \in {"ldrex", "leaveUnlessExpected"} => r.failed

\* What the caller would be told, from the registers.
Tells(p, r) ==
    CASE p.matched = "always"  -> TRUE
      [] p.matched = "status"  -> ~r.failed
      [] p.matched = "compare" -> r.previous = r.call.expected
Finds(r) == IF r.call.op = "store" THEN 0 ELSE r.previous
Answers(p, r) == [ok |-> Tells(p, r), found |-> Finds(r)]

\* What a step of the program is to the abstract cell, from r and v to s and w.
Silent(p, r, s) == (s.settled <=> r.settled) /\ (r.settled => Answers(p, s) = Answers(p, r))

Effective(p, v, w, r, s) ==
    /\ ~r.settled /\ s.settled
    /\ Answers(p, s) = Cell!Answer(r.call, v)
    /\ w = Cell!Effect(r.call, v)

Spurious(p, r, s) ==
    /\ ~r.settled /\ s.settled
    /\ r.call.op = "compareExchangeWeak" /\ ~Tells(p, s)

Moves(p, v, w, r, s) ==
    /\ RegistersOK(p, w, s) /\ s.call = r.call
    /\ \/ Effective(p, v, w, r, s)
       \/ v = w /\ Silent(p, r, s)
       \/ v = w /\ Spurious(p, r, s)

\* A thread is about to do the step name.
Poised(p, v, r, name) ==
    /\ r \in RegisterSet /\ r.call \in Calls /\ v \in 0 .. 3
    /\ SoundProgram(r.call.op, p) /\ RegistersOK(p, v, r)
    /\ r.pc <= Length(p) /\ Name(p, r.pc) = name

\* The registers are in order behind step k if this holds of them.
LEMMA Onward ==
  ASSUME NEW p, NEW w, NEW s \in RegisterSet, NEW k \in Nat, NEW n \in Nat,
         n = Length(p), 1 <= k, k <= n, s.pc = k + 1,
         s.monitor => w = s.previous /\ \E j \in 1 .. n : Name(p, j) = "ldrex",
         s.call.op \notin {"load"} \cup Fetching => s.desired = s.call.operand,
         Name(p, k) \in Computes => s.desired = Cell!Effect(s.call, s.previous),
         Name(p, k) = "adds" => s.desired = Word(0, Low(Low(s.previous) + Low(s.call.operand))),
         k < n /\ Name(p, k) \in Tests => s.previous = s.call.expected,
         k = n => s.settled,
         k < n => (s.settled <=> \/ Name(p, k + 1) = "leaveUnlessExpected" /\ s.previous # s.call.expected
                                 \/ Name(p, k + 1) = "retry" /\ ~s.failed),
         k < n /\ p.matched = "status" /\ Name(p, k + 1) \in {"ldrex", "leaveUnlessExpected"} => s.failed
  PROVE  RegistersOK(p, w, s)
<1>1. s.pc \in 1 .. n + 1 /\ s.pc - 1 = k /\ s.pc > 1 /\ (s.pc <= n <=> k < n) /\ (s.pc > n <=> k = n)
  OBVIOUS
<1>2. k < n => (s.settled <=> Decided(p, s))
  BY DEF Decided
<1> QED
  BY <1>1, <1>2 DEF RegistersOK

\* What is known before step k.
LEMMA Here ==
  ASSUME NEW p, NEW v, NEW r, NEW name, Poised(p, v, r, name)
  PROVE  LET n == Length(p)
             k == r.pc
         IN  /\ n \in Nat /\ k \in Nat /\ 1 <= k /\ k <= n /\ SoundAt(r.call.op, p, k) /\ Name(p, k) = name
             /\ r.settled <=> \/ name = "leaveUnlessExpected" /\ r.previous # r.call.expected
                              \/ name = "retry" /\ ~r.failed
             /\ r.settled \in BOOLEAN /\ r.failed \in BOOLEAN /\ r.monitor \in BOOLEAN
             /\ r.previous \in 0 .. 3 /\ r.desired \in 0 .. 3
             /\ r.call.expected \in 0 .. 3 /\ r.call.operand \in 0 .. 3 /\ r.call.op \in Operations
             /\ r.monitor => /\ v = r.previous /\ name \in Exclusive
                             /\ \E j \in 1 .. n : Name(p, j) = "ldrex"
             /\ r.call.op \notin {"load"} \cup Fetching => r.desired = r.call.operand
             /\ p.matched \in {"always", "status", "compare"}
             /\ p.matched = "always" <=> r.call.op \notin Telling
<1> DEFINE n == Length(p)
           k == r.pc
<1>1. n \in Nat /\ k \in Nat /\ 1 <= k /\ k <= n /\ Name(p, k) = name
  BY DEF Poised, RegisterSet, SoundProgram, RegistersOK
<1>2. \A j \in 1 .. n : SoundAt(r.call.op, p, j)
  BY DEF Poised, SoundProgram
<1>3. SoundAt(r.call.op, p, k)
  BY <1>1, <1>2
<1>4. r.settled <=> \/ name = "leaveUnlessExpected" /\ r.previous # r.call.expected
                    \/ name = "retry" /\ ~r.failed
  BY <1>1 DEF Poised, RegistersOK, Decided
<1>5. /\ r.settled \in BOOLEAN /\ r.failed \in BOOLEAN /\ r.monitor \in BOOLEAN
      /\ r.previous \in 0 .. 3 /\ r.desired \in 0 .. 3
      /\ r.call.expected \in 0 .. 3 /\ r.call.operand \in 0 .. 3 /\ r.call.op \in Operations
  BY CallsAssumption DEF Poised, RegisterSet
<1>6. ASSUME r.monitor
      PROVE  /\ v = r.previous /\ name \in Exclusive
             /\ \E j \in 1 .. n : Name(p, j) = "ldrex"
  <2>1. v = r.previous /\ \E j \in 1 .. n : Name(p, j) = "ldrex"
    BY <1>6 DEF Poised, RegistersOK
  <2>2. PICK j \in 1 .. n : Name(p, j) = "ldrex"
    BY <2>1
  <2>3. \A i \in 1 .. n : Name(p, i) \in Exclusive
    BY <1>2, <2>2 DEF SoundAt
  <2> QED
    BY <1>1, <2>1, <2>3
<1>7. r.call.op \notin {"load"} \cup Fetching => r.desired = r.call.operand
  BY DEF Poised, RegistersOK
<1>8. /\ p.matched \in {"always", "status", "compare"}
      /\ p.matched = "always" <=> r.call.op \notin Telling
  BY DEF Poised, SoundProgram
<1> QED
  BY <1>1, <1>3, <1>4, <1>5, <1>6, <1>7, <1>8

LEMMA FollowersAre ==
  /\ Followers("read") = {"combine"} /\ Followers("readLow") = {"readHigh"}
  /\ Followers("readHigh") = {"combine", "compare8b", "cmpxchg"}
  /\ Followers("ldrex") = {"leaveUnlessExpected", "keep", "combine", "adds", "strex"}
  /\ Followers("setFailed") = {"ldrex"} /\ Followers("any") = {"keep", "compare8b"}
  /\ Followers("adds") = {"adc"} /\ Followers("compare8b") = {"write8b"}
  /\ \A name \in Computes \cup Tests : Followers(name) = Commits
  /\ \A name \in Commits \cup {"write8b"} : Followers(name) = {"retry"}
  /\ \A name \in {"write", "xchg", "xadd", "retry"} : Followers(name) = {}
BY DEF Followers, Computes, Tests, Commits

\* What the caller is told is what the abstract cell answers if this holds.
LEMMA AnswerIs ==
  ASSUME NEW p, NEW v, NEW s \in RegisterSet, s.call \in Calls,
         p.matched \in {"always", "status", "compare"},
         p.matched = "always" <=> s.call.op \notin Telling,
         s.call.op # "store" => s.previous = v,
         p.matched = "status" => (s.failed <=> v # s.call.expected)
  PROVE  Answers(p, s) = Cell!Answer(s.call, v)
<1>1. Tells(p, s) = (s.call.op \in Telling => v = s.call.expected)
  <2>1. CASE p.matched = "always"
    BY <2>1 DEF Tells
  <2>2. CASE p.matched = "status"
    BY <2>2 DEF Tells, RegisterSet
  <2>3. CASE p.matched = "compare"
    BY <2>3 DEF Tells, Telling
  <2> QED
    BY <2>1, <2>2, <2>3
<1>2. Finds(s) = IF s.call.op = "store" THEN 0 ELSE v
  BY DEF Finds
<1> HIDE DEF Tells, Finds
<1> QED
  BY <1>1, <1>2 DEF Answers, Cell!Answer, Telling

LEMMA ReadMoves ==
  ASSUME NEW p, NEW v, NEW r, NEW s, Poised(p, v, r, "read"), s \in RegisterSet,
         s.call = r.call, s.previous = v, s.settled <=> Length(p) = 1, s.pc = r.pc + 1,
         s.desired = r.desired, s.failed = r.failed, s.monitor = r.monitor
  PROVE  Moves(p, v, v, r, s)
<1> DEFINE n == Length(p)
           k == r.pc
<1>1. /\ k \in Nat /\ n \in Nat /\ 1 <= k /\ k <= n /\ Name(p, k) = "read"
      /\ n = Length(p) /\ s.pc = k + 1 /\ (s.settled <=> n = 1)
  BY Here
<1>2. /\ ~r.settled /\ ~r.monitor
      /\ k < n => Name(p, k + 1) = "combine"
      /\ k = n => k = 1 /\ r.call.op = "load"
  <2>1. ~r.settled /\ ~r.monitor
    BY Here DEF Exclusive
  <2>2. k < n => Name(p, k + 1) = "combine"
    BY <1>1, Here, FollowersAre DEF SoundAt
  <2>3. k = n => k = 1 /\ r.call.op = "load"
    BY <1>1, Here DEF SoundAt
  <2> QED
    BY <2>1, <2>2, <2>3
<1>3. r.call.op \notin {"load"} \cup Fetching => r.desired = r.call.operand
  BY Here
<1> HIDE DEF n, k
<1>4. RegistersOK(p, v, s)
  BY <1>1, <1>2, <1>3, Onward DEF Computes, Tests
<1>5. CASE k = n
  <2>1. Effective(p, v, v, r, s)
    BY Here, EffectIs, <1>1, <1>2, <1>5 DEF Effective, Answers, Tells, Finds, Cell!Answer, Poised, Telling
  <2> QED
    BY <1>4, <2>1 DEF Moves
<1>6. CASE k < n
  BY <1>1, <1>2, <1>4, <1>6 DEF Silent, Moves
<1> QED
  BY <1>1, <1>5, <1>6

\* A read of half a word, or a register that was never set.
LEMMA PreviousMoves ==
  ASSUME NEW p, NEW v, NEW r, NEW s, NEW name \in {"readLow", "readHigh", "any"}, Poised(p, v, r, name), s \in RegisterSet,
         s.call = r.call, s.desired = r.desired, s.failed = r.failed, s.monitor = r.monitor,
         s.settled => r.pc = Length(p), s.pc = r.pc + 1
  PROVE  Moves(p, v, v, r, s)
<1> DEFINE n == Length(p)
           k == r.pc
<1>1. /\ k \in Nat /\ n \in Nat /\ 1 <= k /\ k <= n /\ Name(p, k) = name
      /\ n = Length(p) /\ s.pc = k + 1
  BY Here
<1>2. /\ ~r.settled /\ ~r.monitor
      /\ k < n /\ Name(p, k + 1) \in {"readHigh", "combine", "compare8b", "cmpxchg", "keep"}
      /\ ~s.settled
  <2>1. ~r.settled /\ ~r.monitor
    BY Here DEF Exclusive
  <2>2. k < n /\ Name(p, k + 1) \in {"readHigh", "combine", "compare8b", "cmpxchg", "keep"}
    BY <1>1, Here, FollowersAre DEF SoundAt, Last, Commits
  <2>3. ~s.settled
    BY <1>1, <2>2
  <2> QED
    BY <2>1, <2>2, <2>3
<1>3. r.call.op \notin {"load"} \cup Fetching => r.desired = r.call.operand
  BY Here
<1> HIDE DEF n, k
<1>4. RegistersOK(p, v, s)
  BY <1>1, <1>2, <1>3, Onward DEF Computes, Tests
<1>5. Silent(p, r, s)
  BY <1>1, <1>2, <1>3 DEF Silent
<1> QED
  BY <1>4, <1>5 DEF Moves

LEMMA WriteMoves ==
  ASSUME NEW p, NEW v, NEW r, NEW s, Poised(p, v, r, "write"), s \in RegisterSet,
         s.call = r.call, s.previous = r.previous, s.desired = r.desired, s.failed = r.failed,
         ~s.monitor, s.settled, s.pc = r.pc + 1
  PROVE  Moves(p, v, r.desired, r, s)
<1> DEFINE n == Length(p)
           k == r.pc
<1>1. /\ k \in Nat /\ n \in Nat /\ 1 <= k /\ k <= n /\ Name(p, k) = "write"
      /\ n = Length(p) /\ s.pc = k + 1
  BY Here
<1>2. /\ ~r.settled
      /\ k = n /\ r.call.op = "store"
      /\ p.matched = "always"
  <2>1. ~r.settled
    BY Here
  <2>2. k = n /\ r.call.op = "store"
    BY <1>1, Here, FollowersAre DEF SoundAt
  <2>3. p.matched = "always"
    BY <2>2, Here DEF Telling
  <2> QED
    BY <2>1, <2>2, <2>3
<1>3. r.call.op \notin {"load"} \cup Fetching => r.desired = r.call.operand
  BY Here
<1> HIDE DEF n, k
<1>4. RegistersOK(p, r.desired, s)
  BY <1>1, <1>2, <1>3, Onward DEF Computes, Tests
<1>5. Effective(p, v, r.desired, r, s)
  BY <1>1, <1>2, <1>3, Here, EffectIs DEF Effective, Answers, Tells, Finds, Cell!Answer, Poised, Telling, Fetching
<1> QED
  BY <1>4, <1>5 DEF Moves

LEMMA LoadExclusiveMoves ==
  ASSUME NEW p, NEW v, NEW r, NEW s, Poised(p, v, r, "ldrex"), s \in RegisterSet,
         s.call = r.call, s.previous = v, s.desired = r.desired, s.failed = r.failed, s.monitor,
         s.settled <=> Name(p, r.pc + 1) = "leaveUnlessExpected" /\ v # r.call.expected,
         s.pc = r.pc + 1
  PROVE  Moves(p, v, v, r, s)
<1> DEFINE n == Length(p)
           k == r.pc
<1>1. /\ k \in Nat /\ n \in Nat /\ 1 <= k /\ k <= n /\ Name(p, k) = "ldrex"
      /\ n = Length(p) /\ s.pc = k + 1
  BY Here
<1>2. /\ ~r.settled
      /\ k < n /\ Name(p, k + 1) \in {"leaveUnlessExpected", "keep", "combine", "adds", "strex"}
      /\ Name(p, k + 1) = "leaveUnlessExpected" => r.call.op \in Comparing
      /\ p.matched = "status" => r.failed
      /\ s.settled <=> Name(p, k + 1) = "leaveUnlessExpected" /\ v # r.call.expected
  <2>1. ~r.settled
    BY Here
  <2>2. k < n /\ Name(p, k + 1) \in {"leaveUnlessExpected", "keep", "combine", "adds", "strex"}
    BY <1>1, Here, FollowersAre DEF SoundAt, Last, Commits
  <2>3. SoundAt(r.call.op, p, k + 1)
    BY <1>1, <2>2 DEF Poised, SoundProgram
  <2>4. Name(p, k + 1) = "leaveUnlessExpected" => r.call.op \in Comparing
    BY <2>3 DEF SoundAt, Tests
  <2>5. p.matched = "status" => r.failed
    BY <1>1 DEF Poised, RegistersOK
  <2>6. s.settled <=> Name(p, k + 1) = "leaveUnlessExpected" /\ v # r.call.expected
    BY <1>1
  <2> QED
    BY <2>1, <2>2, <2>3, <2>4, <2>5, <2>6
<1>3. r.call.op \notin {"load"} \cup Fetching => r.desired = r.call.operand
  BY Here
<1> HIDE DEF n, k
<1>4. RegistersOK(p, v, s)
  BY <1>1, <1>2, <1>3, Onward DEF Computes, Tests
<1>5. CASE s.settled
  <2>1. Effective(p, v, v, r, s)
    <3>2. r.call.op \in Comparing /\ v # r.call.expected
      BY <1>2, <1>5
    <3>3. Cell!Effect(r.call, v) = v
      BY <3>2, EffectIs DEF Poised
    <3>4. Answers(p, s) = Cell!Answer(r.call, v)
      BY <1>2, <3>2, Here, AnswerIs DEF Poised
    <3> QED
      BY <1>2, <1>5, <3>3, <3>4 DEF Effective
  <2> QED
    BY <1>4, <2>1 DEF Moves
<1>6. CASE ~s.settled
  BY <1>2, <1>4, <1>6 DEF Silent, Moves
<1> QED
  BY <1>5, <1>6

LEMMA LeaveMoves ==
  ASSUME NEW p, NEW v, NEW r, NEW s, Poised(p, v, r, "leaveUnlessExpected"), s \in RegisterSet,
         s.call = r.call, s.previous = r.previous, s.desired = r.desired, s.failed = r.failed,
         s.monitor = r.monitor, s.settled = r.settled,
         s.pc = IF r.previous = r.call.expected THEN r.pc + 1 ELSE Length(p) + 1
  PROVE  Moves(p, v, v, r, s)
<1> DEFINE n == Length(p)
           k == r.pc
<1>1. /\ k \in Nat /\ n \in Nat /\ 1 <= k /\ k <= n /\ Name(p, k) = "leaveUnlessExpected"
      /\ n = Length(p) /\ s.pc = IF r.previous = r.call.expected THEN k + 1 ELSE Length(p) + 1
  BY Here
<1>2. /\ r.settled <=> r.previous # r.call.expected
      /\ k < n /\ Name(p, k + 1) \in Commits
  <2>1. r.settled <=> r.previous # r.call.expected
    BY Here
  <2>2. k < n /\ Name(p, k + 1) \in Commits
    BY <1>1, Here, FollowersAre DEF SoundAt, Tests, Last, Commits
  <2> QED
    BY <2>1, <2>2
<1>3. r.call.op \notin {"load"} \cup Fetching => r.desired = r.call.operand
  BY Here
<1> HIDE DEF n, k
<1>4. r.monitor => v = r.previous /\ \E j \in 1 .. n : Name(p, j) = "ldrex"
  BY Here DEF n
<1>5. CASE r.previous = r.call.expected
  <2>1. s.pc = k + 1
    BY <1>1, <1>5
  <2>2. RegistersOK(p, v, s)
    BY <1>1, <1>2, <1>3, <1>4, <1>5, <2>1, Onward DEF Computes, Commits
  <2> QED
    BY <2>2 DEF Moves, Silent, Answers, Tells, Finds
<1>6. CASE r.previous # r.call.expected
  <2>1. s.pc = n + 1 /\ s.pc > n /\ s.pc - 1 = n /\ s.pc \in 1 .. n + 1 /\ ~(s.pc <= n)
    BY <1>1, <1>6
  <2>2. Name(p, n) \in Last
    <3>1. SoundAt(r.call.op, p, n)
      BY <1>1 DEF Poised, SoundProgram
    <3> QED
      BY <1>1, <3>1 DEF SoundAt
  <2>3. RegistersOK(p, v, s)
    BY <1>1, <1>2, <1>3, <1>4, <1>6, <2>1, <2>2 DEF RegistersOK, Last, Computes, Commits
  <2> QED
    BY <2>3 DEF Moves, Silent, Answers, Tells, Finds
<1> QED
  BY <1>5, <1>6

\* The write of an exclusive pair or of a compare-exchange that finds what it
\* compares with.
LEMMA CommitMoves ==
  ASSUME NEW p, NEW v, NEW r, NEW s, NEW name \in Commits, Poised(p, v, r, name), s \in RegisterSet,
         s.call = r.call, s.previous = r.previous, s.desired = r.desired, ~s.failed, ~s.monitor,
         s.settled, s.pc = r.pc + 1, v = r.previous
  PROVE  Moves(p, v, r.desired, r, s)
<1> DEFINE n == Length(p)
           k == r.pc
<1>1. /\ k \in Nat /\ n \in Nat /\ 1 <= k /\ k <= n /\ Name(p, k) = name
      /\ n = Length(p) /\ s.pc = k + 1
  BY Here
<1>2. /\ ~r.settled
      /\ k < n => Name(p, k + 1) = "retry"
      /\ r.desired = Cell!Effect(r.call, v)
      /\ r.call.op \in Comparing => v = r.call.expected
  <2>1. ~r.settled
    BY Here DEF Commits
  <2>2. k < n => Name(p, k + 1) = "retry"
    BY <1>1, Here, FollowersAre DEF SoundAt
  <2>3. r.call.op \in Comparing => k > 1 /\ Name(p, k - 1) \in Tests
    BY <1>1, Here DEF SoundAt, Commits, Tests
  <2>4. r.call.op \in Comparing => v = r.call.expected
    BY <1>1, <2>3 DEF Poised, RegistersOK
  <2>5. r.call.op \in {"load"} \cup Fetching => k > 1 /\ Name(p, k - 1) \in Computes
    BY <1>1, Here DEF SoundAt, Commits, Computes
  <2>6. r.call.op \in {"load"} \cup Fetching => r.desired = Cell!Effect(r.call, v)
    BY <1>1, <2>5 DEF Poised, RegistersOK
  <2>7. r.call.op \notin {"load"} \cup Fetching => r.desired = r.call.operand
    BY Here
  <2>8. r.desired = Cell!Effect(r.call, v)
    BY <2>4, <2>6, <2>7, Here, EffectIs DEF Poised, Operations, Arithmetic, Masks, Fetching, Comparing
  <2> QED
    BY <2>1, <2>2, <2>3, <2>4, <2>5, <2>6, <2>7, <2>8
<1>3. r.call.op \notin {"load"} \cup Fetching => r.desired = r.call.operand
  BY Here
<1> HIDE DEF n, k
<1>4. RegistersOK(p, r.desired, s)
  BY <1>1, <1>2, <1>3, Onward DEF Commits, Computes, Tests
<1>5. Effective(p, v, r.desired, r, s)
  BY <1>1, <1>2, <1>3, Here DEF Effective, Answers, Tells, Finds, Cell!Answer, Poised, Telling, Comparing
<1> QED
  BY <1>4, <1>5 DEF Moves

\* The write of an exclusive pair that is lost.
LEMMA StoreExclusiveFailsMoves ==
  ASSUME NEW p, NEW v, NEW r, NEW s, Poised(p, v, r, "strex"), s \in RegisterSet,
         s.call = r.call, s.previous = r.previous, s.desired = r.desired, s.failed, ~s.monitor,
         s.settled <=> r.pc = Length(p) \/ Name(p, r.pc + 1) # "retry", s.pc = r.pc + 1
  PROVE  Moves(p, v, v, r, s)
<1> DEFINE n == Length(p)
           k == r.pc
<1>1. /\ k \in Nat /\ n \in Nat /\ 1 <= k /\ k <= n /\ Name(p, k) = "strex"
      /\ n = Length(p) /\ s.pc = k + 1
  BY Here
<1>2. /\ ~r.settled
      /\ k < n => Name(p, k + 1) = "retry"
      /\ k = n => r.call.op = "compareExchangeWeak" /\ p.matched = "status"
      /\ s.settled <=> k = n
  <2>1. ~r.settled
    BY Here
  <2>2. k < n => Name(p, k + 1) = "retry"
    BY <1>1, Here, FollowersAre DEF SoundAt, Commits
  <2>3. k = n => r.call.op = "compareExchangeWeak" /\ p.matched = "status"
    BY <1>1, Here DEF SoundAt
  <2>4. s.settled <=> k = n
    BY <1>1, <2>2
  <2> QED
    BY <2>1, <2>2, <2>3, <2>4
<1>3. r.call.op \notin {"load"} \cup Fetching => r.desired = r.call.operand
  BY Here
<1> HIDE DEF n, k
<1>4. RegistersOK(p, v, s)
  BY <1>1, <1>2, <1>3, Onward DEF Computes, Tests
<1>5. CASE k = n
  BY <1>2, <1>4, <1>5 DEF Moves, Spurious, Tells
<1>6. CASE k # n
  BY <1>2, <1>4, <1>6 DEF Moves, Silent
<1> QED
  BY <1>5, <1>6

\* A compare-exchange that does not find what it compares with, or the weak one
\* of the standard library that fails for no reason.
LEMMA CompareFailsMoves ==
  ASSUME NEW p, NEW v, NEW r, NEW s, NEW name \in {"cmpxchg", "cmpxchgWeak"}, Poised(p, v, r, name), s \in RegisterSet,
         s.call = r.call, s.previous = v, s.desired = r.desired, s.failed, s.monitor = r.monitor,
         s.settled <=> r.pc = Length(p) \/ Name(p, r.pc + 1) # "retry", s.pc = r.pc + 1,
         v # r.previous \/ name = "cmpxchgWeak"
  PROVE  Moves(p, v, v, r, s)
<1> DEFINE n == Length(p)
           k == r.pc
<1>1. /\ k \in Nat /\ n \in Nat /\ 1 <= k /\ k <= n /\ Name(p, k) = name
      /\ n = Length(p) /\ s.pc = k + 1
  BY Here
<1>2. /\ ~r.settled /\ ~r.monitor
      /\ k < n => Name(p, k + 1) = "retry"
      /\ s.settled <=> k = n
      /\ k = n => r.call.op \in {"load"} \cup Comparing
      /\ r.call.op \in Comparing => r.previous = r.call.expected
      /\ name = "cmpxchgWeak" => r.call.op = "compareExchangeWeak" /\ p.matched = "status" /\ k = n
  <2>1. ~r.settled /\ ~r.monitor
    BY Here DEF Exclusive
  <2>2. k < n => Name(p, k + 1) = "retry"
    BY <1>1, Here, FollowersAre DEF SoundAt, Commits
  <2>3. s.settled <=> k = n
    BY <1>1, <2>2
  <2>4. k = n => r.call.op \in {"load"} \cup Comparing
    BY <1>1, Here DEF SoundAt, Commits
  <2>5. r.call.op \in Comparing => k > 1 /\ Name(p, k - 1) \in Tests
    BY <1>1, Here DEF SoundAt, Commits, Tests
  <2>6. r.call.op \in Comparing => r.previous = r.call.expected
    BY <1>1, <2>5 DEF Poised, RegistersOK
  <2>7. name = "cmpxchgWeak" => r.call.op = "compareExchangeWeak" /\ p.matched = "status" /\ k = n
    BY <1>1, Here DEF SoundAt
  <2> QED
    BY <2>1, <2>2, <2>3, <2>4, <2>5, <2>6, <2>7
<1>3. r.call.op \notin {"load"} \cup Fetching => r.desired = r.call.operand
  BY Here
<1> HIDE DEF n, k
<1>4. RegistersOK(p, v, s)
  BY <1>1, <1>2, <1>3, Onward DEF Computes, Tests
<1>5. CASE k = n /\ v # r.previous
  <2>1. Cell!Effect(r.call, v) = v
    BY <1>2, <1>5, EffectIs DEF Poised
  <2>2. p.matched = "status" => v # r.call.expected
    BY <1>2, <1>5, Here DEF Comparing, Telling
  <2>3. Answers(p, s) = Cell!Answer(r.call, v)
    BY <2>2, Here, AnswerIs DEF Poised
  <2> QED
    BY <1>2, <1>4, <1>5, <2>1, <2>3 DEF Moves, Effective
<1>6. CASE k = n /\ v = r.previous
  BY <1>2, <1>4, <1>6 DEF Moves, Spurious, Tells
<1>7. CASE k # n
  BY <1>2, <1>4, <1>7 DEF Moves, Silent
<1> QED
  BY <1>5, <1>6, <1>7

\* cmpxchg8b compares.
LEMMA Compare8bMoves ==
  ASSUME NEW p, NEW v, NEW r, NEW s, Poised(p, v, r, "compare8b"), s \in RegisterSet,
         s.call = r.call, s.previous = v, s.desired = r.desired, s.failed <=> v # r.previous,
         s.monitor = r.monitor, ~s.settled, s.pc = r.pc + 1
  PROVE  Moves(p, v, v, r, s)
<1> DEFINE n == Length(p)
           k == r.pc
<1>1. /\ k \in Nat /\ n \in Nat /\ 1 <= k /\ k <= n /\ Name(p, k) = "compare8b"
      /\ n = Length(p) /\ s.pc = k + 1
  BY Here
<1>2. /\ ~r.settled /\ ~r.monitor
      /\ k < n /\ Name(p, k + 1) = "write8b"
  <2>1. ~r.settled /\ ~r.monitor
    BY Here DEF Exclusive
  <2>2. k < n /\ Name(p, k + 1) = "write8b"
    BY <1>1, Here, FollowersAre DEF SoundAt, Last, Commits
  <2> QED
    BY <2>1, <2>2
<1>3. r.call.op \notin {"load"} \cup Fetching => r.desired = r.call.operand
  BY Here
<1> HIDE DEF n, k
<1>4. RegistersOK(p, v, s)
  BY <1>1, <1>2, <1>3, Onward DEF Computes, Tests
<1>5. Silent(p, r, s)
  BY <1>1, <1>2, <1>3 DEF Silent
<1> QED
  BY <1>4, <1>5 DEF Moves

\* It does not write after a failed compare...
LEMMA Skip8bMoves ==
  ASSUME NEW p, NEW v, NEW r, NEW s, Poised(p, v, r, "write8b"), s \in RegisterSet,
         s.call = r.call, s.previous = r.previous, s.desired = r.desired, s.failed = r.failed,
         s.monitor = r.monitor, s.settled = r.settled, s.pc = r.pc + 1, r.failed
  PROVE  Moves(p, v, v, r, s)
<1> DEFINE n == Length(p)
           k == r.pc
<1>1. /\ k \in Nat /\ n \in Nat /\ 1 <= k /\ k <= n /\ Name(p, k) = "write8b"
      /\ n = Length(p) /\ s.pc = k + 1
  BY Here
<1>2. /\ ~r.settled /\ ~r.monitor
      /\ k < n /\ Name(p, k + 1) = "retry"
      /\ s.failed /\ ~s.settled /\ ~s.monitor
  <2>1. ~r.settled /\ ~r.monitor
    BY Here DEF Exclusive
  <2>2. k < n /\ Name(p, k + 1) = "retry"
    BY <1>1, Here, FollowersAre DEF SoundAt, Last, Commits
  <2>3. s.failed /\ ~s.settled /\ ~s.monitor
    BY <2>1
  <2> QED
    BY <2>1, <2>2, <2>3
<1>3. r.call.op \notin {"load"} \cup Fetching => r.desired = r.call.operand
  BY Here
<1> HIDE DEF n, k
<1>4. RegistersOK(p, v, s)
  BY <1>1, <1>2, <1>3, Onward DEF Computes, Tests
<1>5. Silent(p, r, s)
  BY <1>1, <1>2, <1>3 DEF Silent
<1> QED
  BY <1>4, <1>5 DEF Moves

\* ...and writes whatever the cell holds after one that did not.
LEMMA Write8bMoves ==
  ASSUME NEW p, NEW v, NEW r, NEW s, Poised(p, v, r, "write8b"), s \in RegisterSet,
         s.call = r.call, s.previous = r.previous, s.desired = r.desired, s.failed = r.failed,
         ~s.monitor, s.settled, s.pc = r.pc + 1, ~r.failed
  PROVE  Moves(p, v, r.desired, r, s)
<1> DEFINE n == Length(p)
           k == r.pc
<1>1. /\ k \in Nat /\ n \in Nat /\ 1 <= k /\ k <= n /\ Name(p, k) = "write8b"
      /\ n = Length(p) /\ s.pc = k + 1
  BY Here
<1>2. /\ ~r.settled
      /\ k < n /\ Name(p, k + 1) = "retry"
      /\ ~s.failed
      /\ r.call.op = "store"
  <2>1. ~r.settled
    BY Here
  <2>2. k < n /\ Name(p, k + 1) = "retry"
    BY <1>1, Here, FollowersAre DEF SoundAt, Last, Commits
  <2>3. ~s.failed
    OBVIOUS
  <2>4. r.call.op = "store"
    BY <1>1, Here DEF SoundAt
  <2> QED
    BY <2>1, <2>2, <2>3, <2>4
<1>3. r.call.op \notin {"load"} \cup Fetching => r.desired = r.call.operand
  BY Here
<1> HIDE DEF n, k
<1>4. RegistersOK(p, r.desired, s)
  BY <1>1, <1>2, <1>3, Onward DEF Computes, Tests
<1>5. Answers(p, s) = Cell!Answer(r.call, v)
  BY <1>1, <1>2, Here, AnswerIs DEF Poised, Telling
<1>6. Cell!Effect(r.call, v) = r.desired
  BY <1>2, <1>3, EffectIs DEF Poised, Fetching
<1> QED
  BY <1>2, <1>4, <1>5, <1>6 DEF Moves, Effective

\* An exchange, and a fetch and add.
LEMMA ExchangeMoves ==
  ASSUME NEW p, NEW v, NEW r, NEW s, NEW w, NEW name \in {"xchg", "xadd"}, Poised(p, v, r, name), s \in RegisterSet,
         s.call = r.call, s.previous = v, s.desired = r.desired, s.failed = r.failed, ~s.monitor,
         s.settled, s.pc = r.pc + 1, w = Cell!Effect(r.call, v)
  PROVE  Moves(p, v, w, r, s)
<1> DEFINE n == Length(p)
           k == r.pc
<1>1. /\ k \in Nat /\ n \in Nat /\ 1 <= k /\ k <= n /\ Name(p, k) = name
      /\ n = Length(p) /\ s.pc = k + 1
  BY Here
<1>2. /\ ~r.settled
      /\ k = n
      /\ r.call.op \in {"exchange"} \cup Fetching
      /\ p.matched # "status"
  <2>1. ~r.settled
    BY Here
  <2>2. k = n
    BY <1>1, Here, FollowersAre DEF SoundAt
  <2>3. r.call.op \in {"exchange"} \cup Fetching
    BY <1>1, Here DEF SoundAt
  <2>4. p.matched # "status"
    BY <2>3, Here DEF Telling, Fetching
  <2> QED
    BY <2>1, <2>2, <2>3, <2>4
<1>3. r.call.op \notin {"load"} \cup Fetching => r.desired = r.call.operand
  BY Here
<1> HIDE DEF n, k
<1>4. RegistersOK(p, w, s)
  BY <1>1, <1>2, <1>3, Onward DEF Computes, Tests
<1>5. Answers(p, s) = Cell!Answer(r.call, v)
  BY <1>2, Here, AnswerIs DEF Poised, Fetching
<1> QED
  BY <1>2, <1>4, <1>5 DEF Moves, Effective

\* Steps on registers.
LEMMA ExpectMoves ==
  ASSUME NEW p, NEW v, NEW r, NEW s, Poised(p, v, r, "expect"), s \in RegisterSet,
         s.call = r.call, s.previous = r.call.expected, s.desired = r.desired, s.failed = r.failed,
         s.monitor = r.monitor, s.settled = r.settled, s.pc = r.pc + 1
  PROVE  Moves(p, v, v, r, s)
<1> DEFINE n == Length(p)
           k == r.pc
<1>1. /\ k \in Nat /\ n \in Nat /\ 1 <= k /\ k <= n /\ Name(p, k) = "expect"
      /\ n = Length(p) /\ s.pc = k + 1
  BY Here
<1>2. /\ ~r.settled /\ ~r.monitor /\ ~s.settled /\ ~s.monitor
      /\ k < n /\ Name(p, k + 1) \in Commits
  <2>1. ~r.settled /\ ~r.monitor
    BY Here DEF Exclusive
  <2>2. ~s.settled /\ ~s.monitor
    BY <2>1
  <2>3. k < n /\ Name(p, k + 1) \in Commits
    BY <1>1, Here, FollowersAre DEF SoundAt, Tests, Last, Commits
  <2> QED
    BY <2>1, <2>2, <2>3
<1>3. r.call.op \notin {"load"} \cup Fetching => r.desired = r.call.operand
  BY Here
<1> HIDE DEF n, k
<1>4. RegistersOK(p, v, s)
  BY <1>1, <1>2, <1>3, Onward DEF Computes, Tests, Commits
<1>5. Silent(p, r, s)
  BY <1>1, <1>2, <1>3 DEF Silent
<1> QED
  BY <1>4, <1>5 DEF Moves

LEMMA ComputesMoves ==
  ASSUME NEW p, NEW v, NEW r, NEW s, NEW name \in Computes, Poised(p, v, r, name), s \in RegisterSet,
         s.call = r.call, s.previous = r.previous, s.failed = r.failed, s.monitor = r.monitor,
         s.settled = r.settled, s.pc = r.pc + 1, s.desired = Cell!Effect(r.call, r.previous)
  PROVE  Moves(p, v, v, r, s)
<1> DEFINE n == Length(p)
           k == r.pc
<1>1. /\ k \in Nat /\ n \in Nat /\ 1 <= k /\ k <= n /\ Name(p, k) = name
      /\ n = Length(p) /\ s.pc = k + 1
  BY Here
<1>2. /\ ~r.settled /\ ~s.settled
      /\ k < n /\ Name(p, k + 1) \in Commits
      /\ r.call.op \in {"load"} \cup Fetching
      /\ r.monitor => v = r.previous /\ \E j \in 1 .. n : Name(p, j) = "ldrex"
  <2>1. ~r.settled /\ ~s.settled
    BY Here DEF Computes
  <2>2. k < n /\ Name(p, k + 1) \in Commits
    BY <1>1, Here, FollowersAre DEF SoundAt, Computes, Last, Commits
  <2>3. r.call.op \in {"load"} \cup Fetching
    BY <1>1, Here DEF SoundAt, Computes, Fetching
  <2>4. r.monitor => v = r.previous /\ \E j \in 1 .. n : Name(p, j) = "ldrex"
    BY Here DEF n
  <2> QED
    BY <2>1, <2>2, <2>3, <2>4
<1>3. r.call.op \notin {"load"} \cup Fetching => r.desired = r.call.operand
  BY Here
<1> HIDE DEF n, k
<1>4. RegistersOK(p, v, s)
  BY <1>1, <1>2, <1>3, Onward DEF Computes, Tests, Commits
<1>5. Silent(p, r, s)
  BY <1>1, <1>2, <1>3 DEF Silent
<1> QED
  BY <1>4, <1>5 DEF Moves

LEMMA AddsMoves ==
  ASSUME NEW p, NEW v, NEW r, NEW s, Poised(p, v, r, "adds"), s \in RegisterSet,
         s.call = r.call, s.previous = r.previous,
         s.desired = Word(0, Low(Low(r.previous) + Low(r.call.operand))), s.failed = r.failed,
         s.monitor = r.monitor, s.settled = r.settled, s.pc = r.pc + 1
  PROVE  Moves(p, v, v, r, s)
<1> DEFINE n == Length(p)
           k == r.pc
<1>1. /\ k \in Nat /\ n \in Nat /\ 1 <= k /\ k <= n /\ Name(p, k) = "adds"
      /\ n = Length(p) /\ s.pc = k + 1
  BY Here
<1>2. /\ ~r.settled /\ ~s.settled
      /\ k < n /\ Name(p, k + 1) = "adc"
      /\ r.call.op \in {"load"} \cup Fetching
      /\ r.monitor => v = r.previous /\ \E j \in 1 .. n : Name(p, j) = "ldrex"
  <2>1. ~r.settled /\ ~s.settled
    BY Here
  <2>2. k < n /\ Name(p, k + 1) = "adc"
    BY <1>1, Here, FollowersAre DEF SoundAt, Last, Commits
  <2>3. r.call.op \in {"load"} \cup Fetching
    BY <1>1, Here DEF SoundAt, Fetching
  <2>4. r.monitor => v = r.previous /\ \E j \in 1 .. n : Name(p, j) = "ldrex"
    BY Here DEF n
  <2> QED
    BY <2>1, <2>2, <2>3, <2>4
<1>3. r.call.op \notin {"load"} \cup Fetching => r.desired = r.call.operand
  BY Here
<1> HIDE DEF n, k
<1>4. RegistersOK(p, v, s)
  BY <1>1, <1>2, <1>3, Onward DEF Computes, Tests, Commits
<1>5. Silent(p, r, s)
  BY <1>1, <1>2, <1>3 DEF Silent
<1> QED
  BY <1>4, <1>5 DEF Moves

LEMMA SetFailedMoves ==
  ASSUME NEW p, NEW v, NEW r, NEW s, Poised(p, v, r, "setFailed"), s \in RegisterSet,
         s.call = r.call, s.previous = r.previous, s.desired = r.desired, s.failed,
         s.monitor = r.monitor, s.settled = r.settled, s.pc = r.pc + 1
  PROVE  Moves(p, v, v, r, s)
<1> DEFINE n == Length(p)
           k == r.pc
<1>1. /\ k \in Nat /\ n \in Nat /\ 1 <= k /\ k <= n /\ Name(p, k) = "setFailed"
      /\ n = Length(p) /\ s.pc = k + 1
  BY Here
<1>2. /\ ~r.settled /\ ~s.settled
      /\ k < n /\ Name(p, k + 1) = "ldrex"
      /\ r.monitor => v = r.previous /\ \E j \in 1 .. n : Name(p, j) = "ldrex"
  <2>1. ~r.settled /\ ~s.settled
    BY Here
  <2>2. k < n /\ Name(p, k + 1) = "ldrex"
    BY <1>1, Here, FollowersAre DEF SoundAt, Last, Commits
  <2>3. r.monitor => v = r.previous /\ \E j \in 1 .. n : Name(p, j) = "ldrex"
    BY Here DEF n
  <2> QED
    BY <2>1, <2>2, <2>3
<1>3. r.call.op \notin {"load"} \cup Fetching => r.desired = r.call.operand
  BY Here
<1> HIDE DEF n, k
<1>4. RegistersOK(p, v, s)
  BY <1>1, <1>2, <1>3, Onward DEF Computes, Tests, Commits
<1>5. Silent(p, r, s)
  BY <1>1, <1>2, <1>3 DEF Silent
<1> QED
  BY <1>4, <1>5 DEF Moves

\* A program goes back if it failed, and ends if it did not.
LEMMA RetryMoves ==
  ASSUME NEW p, NEW v, NEW r, NEW s, Poised(p, v, r, "retry"), s \in RegisterSet,
         s.call = r.call, s.previous = r.previous, s.desired = r.desired, s.failed = r.failed,
         s.monitor = r.monitor, s.settled = r.settled,
         s.pc = IF r.failed THEN p.code[r.pc][2] ELSE r.pc + 1
  PROVE  Moves(p, v, v, r, s)
<1> DEFINE n == Length(p)
           k == r.pc
<1>1. /\ k \in Nat /\ n \in Nat /\ 1 <= k /\ k <= n /\ Name(p, k) = "retry"
      /\ n = Length(p) /\ s.pc = IF r.failed THEN p.code[k][2] ELSE k + 1
  BY Here
<1>2. /\ r.settled <=> ~r.failed
      /\ k = n
      /\ r.monitor => v = r.previous /\ \E j \in 1 .. n : Name(p, j) = "ldrex"
  <2>1. r.settled <=> ~r.failed
    BY Here
  <2>2. k = n
    BY <1>1, Here, FollowersAre DEF SoundAt
  <2>3. r.monitor => v = r.previous /\ \E j \in 1 .. n : Name(p, j) = "ldrex"
    BY Here DEF n
  <2> QED
    BY <2>1, <2>2, <2>3
<1>3. r.call.op \notin {"load"} \cup Fetching => r.desired = r.call.operand
  BY Here
<1> HIDE DEF n, k
<1>4. CASE r.failed
  <2> DEFINE to == p.code[k][2]
  <2>1. /\ p.matched = "always" /\ to \in 1 .. n /\ Name(p, to) \notin {"leaveUnlessExpected", "retry"}
        /\ to > 1 => Name(p, to - 1) \in {"any", "readHigh"}
    BY <1>1, Here DEF SoundAt
  <2>2. s.pc = to
    BY <1>1, <1>4
  <2> HIDE DEF to
  <2>3. s.pc \in 1 .. n + 1 /\ s.pc <= n
    BY <1>1, <2>1, <2>2
  <2>4. ~Decided(p, s)
    BY <2>1, <2>2 DEF Decided
  <2>5. RegistersOK(p, v, s)
    BY <1>1, <1>2, <1>3, <1>4, <2>1, <2>2, <2>3, <2>4 DEF RegistersOK, Computes, Tests
  <2> QED
    BY <1>2, <1>4, <2>5 DEF Moves, Silent
<1>5. CASE ~r.failed
  <2>1. RegistersOK(p, v, s)
    BY <1>1, <1>2, <1>3, <1>5, Onward DEF Computes, Tests
  <2> QED
    BY <2>1 DEF Moves, Silent, Answers, Tells, Finds
<1> QED
  BY <1>4, <1>5

\* Where a program starts.
LEMMA Starts ==
  ASSUME NEW p, NEW v, NEW s \in RegisterSet, s.call \in Calls, SoundProgram(s.call.op, p),
         s.pc = 1, ~s.settled, ~s.monitor, s.desired = s.call.operand
  PROVE  RegistersOK(p, v, s)
<1> DEFINE n == Length(p)
<1>1. n \in 1 .. 5 /\ n = Length(p)
  BY DEF SoundProgram
<1>2. Name(p, 1) \notin {"leaveUnlessExpected", "retry"}
  BY <1>1 DEF SoundProgram, SoundAt
<1>3. p.matched = "status" => Name(p, 1) # "ldrex"
  BY <1>1 DEF SoundProgram, SoundAt
<1> HIDE DEF n
<1>4. ~Decided(p, s)
  BY <1>2 DEF Decided
<1> QED
  BY <1>1, <1>2, <1>3, <1>4 DEF RegistersOK

\* The write of another thread ends the exclusive access.
LEMMA MonitorLost ==
  ASSUME NEW p, NEW v, NEW w, NEW r \in RegisterSet, RegistersOK(p, v, r)
  PROVE  RegistersOK(p, w, [r EXCEPT !.monitor = FALSE])
<1> DEFINE s == [r EXCEPT !.monitor = FALSE]
<1>1. /\ s.call = r.call /\ s.pc = r.pc /\ s.settled = r.settled /\ s.previous = r.previous
      /\ s.desired = r.desired /\ s.failed = r.failed /\ ~s.monitor
  BY DEF RegisterSet
<1> HIDE DEF s
<1>2. Decided(p, s) <=> Decided(p, r)
  BY <1>1 DEF Decided
<1>3. RegistersOK(p, w, s)
  BY <1>1, <1>2 DEF RegistersOK
<1> QED
  BY <1>3 DEF s

----------------------------------------------------------------------------
(* The inductive invariant of the threads.                                 *)

ThreadSet == [registers : RegisterSet, knows : SUBSET Threads, acquirable : SUBSET Threads,
              releasing : SUBSET Threads, owed : SUBSET Threads]

TypeOK ==
    /\ used \in Distinct /\ cell \in 0 .. 3
    /\ carries \in SUBSET Threads /\ published \in SUBSET Threads
    /\ thread \in [Threads -> ThreadSet]

InProgress(t) == Request(t).op \in DOMAIN code.programs /\ RegistersOK(Program(t), cell, Registers(t))

Programs == \A t \in Threads : Calling(t) => InProgress(t)

\* What a step of t does to what the threads know.
SameNews(u) ==
    /\ thread'[u].knows = thread[u].knows /\ thread'[u].releasing = thread[u].releasing
    /\ thread'[u].acquirable = thread[u].acquirable /\ thread'[u].owed = thread[u].owed

Spreads(t) ==
    /\ \A u \in Threads \ {t} : SameNews(u)
    /\ thread'[t].knows = thread[t].knows /\ thread'[t].releasing = thread[t].releasing
    /\ \/ /\ carries' = carries /\ published' = published
          /\ \/ SameNews(t)
             \/ /\ thread'[t].acquirable = thread[t].acquirable \cup carries
                /\ thread'[t].owed = published
       \/ \E keeps \in BOOLEAN :
             /\ carries' = thread[t].releasing \cup (IF keeps THEN carries ELSE {})
             /\ published' = (IF Publishes(Request(t)) THEN thread[t].knows ELSE {})
                             \cup (IF keeps THEN published ELSE {})
             /\ thread'[t].acquirable = IF keeps THEN thread[t].acquirable \cup carries
                                        ELSE thread[t].acquirable
             /\ thread'[t].owed = IF keeps THEN published ELSE {}

\* A step of t's program, as the others and the abstract cell see it.
Progresses(t) ==
    /\ Calling(t) /\ TypeOK' /\ used' = used /\ Spreads(t)
    /\ Moves(Program(t), cell, cell', Registers(t), Registers(t)')
    /\ \A u \in Threads \ {t} :
          \/ cell' = cell /\ Registers(u)' = Registers(u)
          \/ Registers(u)' = [Registers(u) EXCEPT !.monitor = FALSE]

\* s is q one step further.
Advances(q, s) ==
    /\ s \in RegisterSet /\ s.pc = q.pc + 1 /\ s.call = q.call
    /\ s.previous = q.previous /\ s.desired = q.desired /\ s.failed = q.failed

LEMMA Types ==
  ASSUME TypeOK, NEW t \in Threads
  PROVE  /\ thread[t] \in ThreadSet /\ Registers(t) \in RegisterSet
         /\ Calling(t) => Request(t) \in Calls /\ Request(t).op \in Operations
<1>1. thread[t] \in ThreadSet /\ Registers(t) \in RegisterSet
  BY DEF TypeOK, ThreadSet, Registers
<1>2. Registers(t).call \in Calls \cup {NoCall}
  BY <1>1 DEF RegisterSet
<1> QED
  BY <1>1, <1>2, CallsAssumption DEF Calling, Request

LEMMA AtIs ==
  ASSUME TypeOK, Programs, NEW t \in Threads, NEW name, At(t, name)
  PROVE  /\ Poised(Program(t), cell, Registers(t), name) /\ Calling(t)
         /\ Request(t).op \in DOMAIN code.programs
<1>1. Calling(t) /\ Registers(t).pc <= Length(Program(t)) /\ Name(Program(t), Registers(t).pc) = name
  BY DEF At, Running, Step, Name, Length
<1>2. Request(t).op \in DOMAIN code.programs /\ RegistersOK(Program(t), cell, Registers(t))
  BY <1>1 DEF Programs, InProgress
<1>3. SoundProgram(Request(t).op, Program(t))
  <2>1. SoundImplementation(code)
    BY CodeSound DEF TypeOK
  <2> QED
    BY <1>2, <2>1 DEF SoundImplementation, SoundOperation, Program
<1>4. Registers(t) \in RegisterSet /\ Registers(t).call \in Calls /\ cell \in 0 .. 3
  BY <1>1, Types DEF TypeOK, Request
<1> QED
  BY <1>1, <1>2, <1>3, <1>4 DEF Poised, Request

LEMMA Updates ==
  ASSUME TypeOK, NEW t \in Threads, NEW x \in ThreadSet, thread' = [thread EXCEPT ![t] = x]
  PROVE  thread' \in [Threads -> ThreadSet] /\ thread'[t] = x /\ \A u \in Threads \ {t} : thread'[u] = thread[u]
BY DEF TypeOK

\* Steps that leave the cell alone.
LEMMA GoesOn ==
  ASSUME TypeOK, NEW t \in Threads, Calling(t), NEW s \in RegisterSet, Goes(t, s), UnchangedCell,
         Moves(Program(t), cell, cell, Registers(t), s)
  PROVE  Progresses(t)
<1> DEFINE x == [thread[t] EXCEPT !.registers = s]
<1>1. thread[t] \in ThreadSet
  BY DEF TypeOK
<1>2. x \in ThreadSet /\ x.registers = s /\ x.knows = thread[t].knows /\ x.releasing = thread[t].releasing
      /\ x.acquirable = thread[t].acquirable /\ x.owed = thread[t].owed
  BY <1>1 DEF ThreadSet
<1>3. thread' = [thread EXCEPT ![t] = x]
  BY DEF Goes
<1>4. used' = used /\ cell' = cell /\ carries' = carries /\ published' = published
  BY DEF UnchangedCell
<1> HIDE DEF x
<1>5. thread' \in [Threads -> ThreadSet] /\ thread'[t] = x /\ \A u \in Threads \ {t} : thread'[u] = thread[u]
  BY <1>2, <1>3, Updates
<1>6. TypeOK'
  BY <1>4, <1>5 DEF TypeOK
<1>7. Spreads(t)
  BY <1>2, <1>4, <1>5 DEF Spreads, SameNews
<1> QED
  BY <1>2, <1>4, <1>5, <1>6, <1>7 DEF Progresses, Registers

LEMMA ContinuesOn ==
  ASSUME TypeOK, NEW t \in Threads, Calling(t), NEW q \in RegisterSet, Continue(t, q), UnchangedCell,
         \A s : Advances(q, s) /\ s.settled = q.settled /\ s.monitor = q.monitor =>
                   Moves(Program(t), cell, cell, Registers(t), s)
  PROVE  Progresses(t)
<1> DEFINE s == [q EXCEPT !.pc = q.pc + 1]
<1>1. s \in RegisterSet
  <2>1. q.pc + 1 \in Nat
    BY DEF RegisterSet
  <2> QED
    BY <2>1 DEF RegisterSet
<1>2. Advances(q, s) /\ s.settled = q.settled /\ s.monitor = q.monitor
  BY <1>1 DEF RegisterSet, Advances
<1>3. Goes(t, s)
  BY DEF Continue
<1> HIDE DEF s
<1> QED
  BY <1>1, <1>2, <1>3, GoesOn

LEMMA ReadsOn ==
  ASSUME TypeOK, NEW t \in Threads, Calling(t), NEW q \in RegisterSet, NEW b \in BOOLEAN,
         Reads(t, q, b), UnchangedCell,
         \A s : Advances(q, s) /\ s.settled = b /\ s.monitor = q.monitor =>
                   Moves(Program(t), cell, cell, Registers(t), s)
  PROVE  Progresses(t)
<1> DEFINE s == [q EXCEPT !.pc = q.pc + 1, !.settled = b]
           x == [thread[t] EXCEPT !.registers = s, !.acquirable = thread[t].acquirable \cup carries,
                                  !.owed = published]
<1>1. s \in RegisterSet
  <2>1. q.pc + 1 \in Nat
    BY DEF RegisterSet
  <2> QED
    BY <2>1 DEF RegisterSet
<1>2. Advances(q, s) /\ s.settled = b /\ s.monitor = q.monitor
  BY <1>1 DEF RegisterSet, Advances
<1>3. thread' = [thread EXCEPT ![t].registers = s, ![t].acquirable = thread[t].acquirable \cup carries,
                               ![t].owed = published]
  BY DEF Reads
<1> HIDE DEF s
<1>4. thread[t] \in ThreadSet /\ carries \in SUBSET Threads /\ published \in SUBSET Threads
  BY DEF TypeOK
<1>5. x \in ThreadSet /\ x.registers = s /\ x.knows = thread[t].knows /\ x.releasing = thread[t].releasing
      /\ x.acquirable = thread[t].acquirable \cup carries /\ x.owed = published
  BY <1>1, <1>4 DEF ThreadSet
<1>6. thread' = [thread EXCEPT ![t] = x]
  BY <1>3 DEF TypeOK
<1>7. used' = used /\ cell' = cell /\ carries' = carries /\ published' = published
  BY DEF UnchangedCell
<1> HIDE DEF x
<1>8. thread' \in [Threads -> ThreadSet] /\ thread'[t] = x /\ \A u \in Threads \ {t} : thread'[u] = thread[u]
  BY <1>5, <1>6, Updates
<1>9. TypeOK'
  BY <1>7, <1>8 DEF TypeOK
<1>10. Spreads(t)
  BY <1>5, <1>7, <1>8 DEF Spreads, SameNews
<1> QED
  BY <1>2, <1>5, <1>7, <1>8, <1>9, <1>10 DEF Progresses, Registers

\* Steps that write it.
LEMMA WritesOn ==
  ASSUME TypeOK, NEW t \in Threads, Calling(t), NEW q \in RegisterSet, NEW v \in 0 .. 3, NEW b \in BOOLEAN,
         Writes(t, v, q, b), used' = used,
         \A s : Advances(q, s) /\ s.settled /\ ~s.monitor => Moves(Program(t), cell, v, Registers(t), s)
  PROVE  Progresses(t)
<1> DEFINE s == [q EXCEPT !.pc = q.pc + 1, !.settled = TRUE, !.monitor = FALSE]
           a == IF b THEN thread[t].acquirable \cup carries ELSE thread[t].acquirable
           o == IF b THEN published ELSE {}
           x == [thread[t] EXCEPT !.registers = s, !.acquirable = a, !.owed = o]
<1>1. s \in RegisterSet
  <2>1. q.pc + 1 \in Nat
    BY DEF RegisterSet
  <2> QED
    BY <2>1 DEF RegisterSet
<1>2. Advances(q, s) /\ s.settled /\ ~s.monitor
  BY <1>1 DEF RegisterSet, Advances
<1>3. thread[t] \in ThreadSet /\ carries \in SUBSET Threads /\ published \in SUBSET Threads
  BY DEF TypeOK
<1>4. a \in SUBSET Threads /\ o \in SUBSET Threads
  BY <1>3 DEF ThreadSet
<1>5. thread' = [u \in Threads |-> IF u # t THEN [thread[u] EXCEPT !.registers.monitor = FALSE] ELSE x]
  BY DEF Writes
<1> HIDE DEF s, a, o
<1>6. x \in ThreadSet /\ x.registers = s /\ x.knows = thread[t].knows /\ x.releasing = thread[t].releasing
      /\ x.acquirable = a /\ x.owed = o
  BY <1>1, <1>3, <1>4 DEF ThreadSet
<1> HIDE DEF x
<1>7. thread'[t] = x /\ Registers(t)' = s
  BY <1>5, <1>6 DEF Registers
<1>8. ASSUME NEW u \in Threads \ {t}
      PROVE  thread'[u] \in ThreadSet /\ SameNews(u) /\ Registers(u)' = [Registers(u) EXCEPT !.monitor = FALSE]
  <2>1. thread'[u] = [thread[u] EXCEPT !.registers = [thread[u].registers EXCEPT !.monitor = FALSE]]
    BY <1>5
  <2>2. thread[u] \in ThreadSet
    BY DEF TypeOK
  <2>3. [thread[u].registers EXCEPT !.monitor = FALSE] \in RegisterSet
    BY <2>2 DEF ThreadSet, RegisterSet
  <2> QED
    BY <2>1, <2>2, <2>3 DEF ThreadSet, Registers, SameNews
<1>9. thread' \in [Threads -> ThreadSet]
  BY <1>5, <1>6, <1>7, <1>8
<1>10. /\ cell' = v /\ carries' = thread[t].releasing \cup (IF b THEN carries ELSE {})
       /\ published' = (IF Publishes(Request(t)) THEN thread[t].knows ELSE {})
                       \cup (IF b THEN published ELSE {})
  BY DEF Writes
<1>11. carries' \in SUBSET Threads /\ published' \in SUBSET Threads
  BY <1>3, <1>10 DEF ThreadSet
<1>12. TypeOK'
  BY <1>9, <1>10, <1>11 DEF TypeOK
<1>13. Spreads(t)
  BY <1>6, <1>7, <1>8, <1>10 DEF Spreads, a, o
<1> QED
  BY <1>2, <1>7, <1>8, <1>10, <1>12, <1>13 DEF Progresses

----------------------------------------------------------------------------
(* Each step of a program progresses.                                      *)

LEMMA DecidesIs ==
  ASSUME NEW t \in Threads, NEW name, Poised(Program(t), cell, Registers(t), name)
  PROVE  /\ Decides(t, FALSE) \in BOOLEAN
         /\ Decides(t, FALSE) <=> \/ Registers(t).pc = Length(Program(t))
                                 \/ Name(Program(t), Registers(t).pc + 1) # "retry"
<1> DEFINE n == Length(Program(t))
           k == Registers(t).pc
<1>1. n \in Nat /\ k \in Nat /\ k <= n
  BY Here
<1>2. Decides(t, FALSE) = (k + 1 > n \/ Name(Program(t), k + 1) # "retry")
  BY DEF Decides, Length, Name
<1> HIDE DEF n, k
<1>3. k + 1 > n <=> k = n
  BY <1>1
<1> QED
  BY <1>2, <1>3 DEF n, k

LEMMA ReadProgresses ==
  ASSUME TypeOK, Programs, NEW t \in Threads, Read(t)
  PROVE  Progresses(t)
<1>1. Registers(t) \in RegisterSet /\ cell \in 0 .. 3
  BY Types DEF TypeOK
<1>2. Poised(Program(t), cell, Registers(t), "read") /\ Calling(t)
  BY AtIs DEF Read
<1> DEFINE q == [Registers(t) EXCEPT !.previous = cell]
           b == (Len(Program(t).code) = 1)
<1>3. Reads(t, q, b) /\ UnchangedCell
  BY DEF Read
<1>4. q \in RegisterSet /\ b \in BOOLEAN
  BY <1>1 DEF RegisterSet
<1>5. /\ q.call = Registers(t).call /\ q.pc = Registers(t).pc /\ q.previous = cell
      /\ q.desired = Registers(t).desired /\ q.failed = Registers(t).failed /\ q.monitor = Registers(t).monitor /\ q.settled = Registers(t).settled
  BY <1>1 DEF RegisterSet
<1> HIDE DEF q
<1>6. ASSUME NEW s, Advances(q, s), s.settled = b, s.monitor = q.monitor
      PROVE  Moves(Program(t), cell, cell, Registers(t), s)
  BY <1>1, <1>2, <1>5, <1>6, ReadMoves DEF Advances, Length
<1> HIDE DEF b
<1> QED
  BY <1>1, <1>2, <1>3, <1>4, <1>6, ReadsOn

LEMMA ReadLowProgresses ==
  ASSUME TypeOK, Programs, NEW t \in Threads, ReadLow(t)
  PROVE  Progresses(t)
<1>1. Registers(t) \in RegisterSet /\ cell \in 0 .. 3
  BY Types DEF TypeOK
<1>2. Poised(Program(t), cell, Registers(t), "readLow") /\ Calling(t)
  BY AtIs DEF ReadLow
<1> DEFINE q == [Registers(t) EXCEPT !.previous = Word(High(Registers(t).previous), Low(cell))]
           b == FALSE
<1>3. Reads(t, q, b) /\ UnchangedCell
  BY DEF ReadLow
<1>4. q \in RegisterSet /\ b \in BOOLEAN
  BY <1>1 DEF RegisterSet, Word, High, Low
<1>5. /\ q.call = Registers(t).call /\ q.pc = Registers(t).pc /\ q.previous = Word(High(Registers(t).previous), Low(cell))
      /\ q.desired = Registers(t).desired /\ q.failed = Registers(t).failed /\ q.monitor = Registers(t).monitor /\ q.settled = Registers(t).settled
  BY <1>1 DEF RegisterSet
<1> HIDE DEF q
<1>6. ASSUME NEW s, Advances(q, s), s.settled = b, s.monitor = q.monitor
      PROVE  Moves(Program(t), cell, cell, Registers(t), s)
  BY <1>1, <1>2, <1>5, <1>6, PreviousMoves DEF Advances
<1> HIDE DEF b
<1> QED
  BY <1>1, <1>2, <1>3, <1>4, <1>6, ReadsOn

LEMMA ReadHighProgresses ==
  ASSUME TypeOK, Programs, NEW t \in Threads, ReadHigh(t)
  PROVE  Progresses(t)
<1>1. Registers(t) \in RegisterSet /\ cell \in 0 .. 3
  BY Types DEF TypeOK
<1>2. Poised(Program(t), cell, Registers(t), "readHigh") /\ Calling(t)
  BY AtIs DEF ReadHigh
<1> DEFINE q == [Registers(t) EXCEPT !.previous = Word(High(cell), Low(Registers(t).previous))]
           b == (Registers(t).pc = Len(Program(t).code))
<1>3. Reads(t, q, b) /\ UnchangedCell
  BY DEF ReadHigh
<1>4. q \in RegisterSet /\ b \in BOOLEAN
  BY <1>1 DEF RegisterSet, Word, High, Low
<1>5. /\ q.call = Registers(t).call /\ q.pc = Registers(t).pc /\ q.previous = Word(High(cell), Low(Registers(t).previous))
      /\ q.desired = Registers(t).desired /\ q.failed = Registers(t).failed /\ q.monitor = Registers(t).monitor /\ q.settled = Registers(t).settled
  BY <1>1 DEF RegisterSet
<1> HIDE DEF q
<1>6. ASSUME NEW s, Advances(q, s), s.settled = b, s.monitor = q.monitor
      PROVE  Moves(Program(t), cell, cell, Registers(t), s)
  BY <1>1, <1>2, <1>5, <1>6, PreviousMoves DEF Advances, Length
<1> HIDE DEF b
<1> QED
  BY <1>1, <1>2, <1>3, <1>4, <1>6, ReadsOn

LEMMA WriteProgresses ==
  ASSUME TypeOK, Programs, NEW t \in Threads, Write(t)
  PROVE  Progresses(t)
<1>1. Registers(t) \in RegisterSet /\ cell \in 0 .. 3
  BY Types DEF TypeOK
<1>2. Poised(Program(t), cell, Registers(t), "write") /\ Calling(t)
  BY AtIs DEF Write
<1> DEFINE q == Registers(t)
<1>3. Writes(t, Registers(t).desired, q, FALSE) /\ used' = used
  BY DEF Write
<1>4. q \in RegisterSet
  BY <1>1 DEF RegisterSet
<1>5. /\ q.call = Registers(t).call /\ q.pc = Registers(t).pc /\ q.previous = Registers(t).previous
      /\ q.desired = Registers(t).desired /\ q.failed = Registers(t).failed /\ q.monitor = Registers(t).monitor /\ q.settled = Registers(t).settled
  BY <1>1 DEF RegisterSet
<1> HIDE DEF q
<1>6. Registers(t).desired \in 0 .. 3
  BY <1>1 DEF RegisterSet
<1>7. ASSUME NEW s, Advances(q, s), s.settled, ~s.monitor
      PROVE  Moves(Program(t), cell, Registers(t).desired, Registers(t), s)
  BY <1>1, <1>2, <1>5, <1>7, WriteMoves DEF Advances
<1> QED
  BY <1>1, <1>2, <1>3, <1>4, <1>7, <1>6, WritesOn

LEMMA LoadExclusiveProgresses ==
  ASSUME TypeOK, Programs, NEW t \in Threads, LoadExclusive(t)
  PROVE  Progresses(t)
<1>1. Registers(t) \in RegisterSet /\ cell \in 0 .. 3
  BY Types DEF TypeOK
<1>2. Poised(Program(t), cell, Registers(t), "ldrex") /\ Calling(t)
  BY AtIs DEF LoadExclusive
<1> DEFINE q == [Registers(t) EXCEPT !.previous = cell, !.monitor = TRUE]
           b == (Program(t).code[Registers(t).pc + 1][1] = "leaveUnlessExpected" /\ cell # Request(t).expected)
<1>3. Reads(t, q, b) /\ UnchangedCell
  BY DEF LoadExclusive
<1>4. q \in RegisterSet /\ b \in BOOLEAN
  BY <1>1 DEF RegisterSet
<1>5. /\ q.call = Registers(t).call /\ q.pc = Registers(t).pc /\ q.previous = cell
      /\ q.desired = Registers(t).desired /\ q.failed = Registers(t).failed /\ q.monitor = TRUE /\ q.settled = Registers(t).settled
  BY <1>1 DEF RegisterSet
<1> HIDE DEF q
<1>6. ASSUME NEW s, Advances(q, s), s.settled = b, s.monitor = q.monitor
      PROVE  Moves(Program(t), cell, cell, Registers(t), s)
  BY <1>1, <1>2, <1>5, <1>6, LoadExclusiveMoves DEF Advances, Name, Request
<1> HIDE DEF b
<1> QED
  BY <1>1, <1>2, <1>3, <1>4, <1>6, ReadsOn

LEMMA StoreExclusiveProgresses ==
  ASSUME TypeOK, Programs, NEW t \in Threads, StoreExclusive(t)
  PROVE  Progresses(t)
<1>1. Registers(t) \in RegisterSet /\ cell \in 0 .. 3
  BY Types DEF TypeOK
<1>2. Poised(Program(t), cell, Registers(t), "strex") /\ Calling(t)
  BY AtIs DEF StoreExclusive
<1> DEFINE q == [Registers(t) EXCEPT !.failed = FALSE]
<1>3. Writes(t, Registers(t).desired, q, TRUE) /\ used' = used
  BY DEF StoreExclusive
<1>4. q \in RegisterSet
  BY <1>1 DEF RegisterSet
<1>5. /\ q.call = Registers(t).call /\ q.pc = Registers(t).pc /\ q.previous = Registers(t).previous
      /\ q.desired = Registers(t).desired /\ q.failed = FALSE /\ q.monitor = Registers(t).monitor /\ q.settled = Registers(t).settled
  BY <1>1 DEF RegisterSet
<1> HIDE DEF q
<1>6. Registers(t).desired \in 0 .. 3
  BY <1>1 DEF RegisterSet
<1>7. cell = Registers(t).previous
  BY <1>2, Here DEF StoreExclusive
<1>8. ASSUME NEW s, Advances(q, s), s.settled, ~s.monitor
      PROVE  Moves(Program(t), cell, Registers(t).desired, Registers(t), s)
  BY <1>1, <1>2, <1>5, <1>8, <1>7, CommitMoves DEF Advances, Commits
<1> QED
  BY <1>1, <1>2, <1>3, <1>4, <1>8, <1>6, WritesOn

LEMMA StoreExclusiveFailsProgresses ==
  ASSUME TypeOK, Programs, NEW t \in Threads, StoreExclusiveFails(t)
  PROVE  Progresses(t)
<1>1. Registers(t) \in RegisterSet /\ cell \in 0 .. 3
  BY Types DEF TypeOK
<1>2. Poised(Program(t), cell, Registers(t), "strex") /\ Calling(t)
  BY AtIs DEF StoreExclusiveFails
<1> DEFINE q == [Registers(t) EXCEPT !.failed = TRUE, !.monitor = FALSE, !.settled = Decides(t, FALSE)]
<1>3. Continue(t, q) /\ UnchangedCell
  BY DEF StoreExclusiveFails
<1>4. q \in RegisterSet
  BY <1>1 DEF RegisterSet, Decides
<1>5. /\ q.call = Registers(t).call /\ q.pc = Registers(t).pc /\ q.previous = Registers(t).previous
      /\ q.desired = Registers(t).desired /\ q.failed = TRUE /\ q.monitor = FALSE /\ q.settled = Decides(t, FALSE)
  BY <1>1 DEF RegisterSet
<1> HIDE DEF q
<1>6. ASSUME NEW s, Advances(q, s), s.settled = q.settled, s.monitor = q.monitor
      PROVE  Moves(Program(t), cell, cell, Registers(t), s)
  BY <1>1, <1>2, <1>5, <1>6, StoreExclusiveFailsMoves, DecidesIs DEF Advances
<1> QED
  BY <1>1, <1>2, <1>3, <1>4, <1>6, ContinuesOn

LEMMA Compare8bProgresses ==
  ASSUME TypeOK, Programs, NEW t \in Threads, Compare8b(t)
  PROVE  Progresses(t)
<1>1. Registers(t) \in RegisterSet /\ cell \in 0 .. 3
  BY Types DEF TypeOK
<1>2. Poised(Program(t), cell, Registers(t), "compare8b") /\ Calling(t)
  BY AtIs DEF Compare8b
<1> DEFINE q == [Registers(t) EXCEPT !.previous = cell, !.failed = (cell # Registers(t).previous)]
           b == FALSE
<1>3. Reads(t, q, b) /\ UnchangedCell
  BY DEF Compare8b
<1>4. q \in RegisterSet /\ b \in BOOLEAN
  BY <1>1 DEF RegisterSet
<1>5. /\ q.call = Registers(t).call /\ q.pc = Registers(t).pc /\ q.previous = cell
      /\ q.desired = Registers(t).desired /\ q.failed = (cell # Registers(t).previous) /\ q.monitor = Registers(t).monitor /\ q.settled = Registers(t).settled
  BY <1>1 DEF RegisterSet
<1> HIDE DEF q
<1>6. ASSUME NEW s, Advances(q, s), s.settled = b, s.monitor = q.monitor
      PROVE  Moves(Program(t), cell, cell, Registers(t), s)
  BY <1>1, <1>2, <1>5, <1>6, Compare8bMoves DEF Advances
<1> HIDE DEF b
<1> QED
  BY <1>1, <1>2, <1>3, <1>4, <1>6, ReadsOn

LEMMA LeaveProgresses ==
  ASSUME TypeOK, Programs, NEW t \in Threads, Leave(t)
  PROVE  Progresses(t)
<1>1. Registers(t) \in RegisterSet /\ cell \in 0 .. 3
  BY Types DEF TypeOK
<1>2. Poised(Program(t), cell, Registers(t), "leaveUnlessExpected") /\ Calling(t)
  BY AtIs DEF Leave
<1>3. Length(Program(t)) + 1 \in Nat /\ Registers(t).pc + 1 \in Nat
  BY <1>2, Here
<1> DEFINE to == IF Registers(t).previous = Request(t).expected THEN Registers(t).pc + 1
                 ELSE Length(Program(t)) + 1
           s  == [Registers(t) EXCEPT !.pc = to]
<1>4. Goes(t, s) /\ UnchangedCell
  BY DEF Leave, Continue, Length
<1>5. /\ s \in RegisterSet /\ s.call = Registers(t).call /\ s.previous = Registers(t).previous
      /\ s.desired = Registers(t).desired /\ s.failed = Registers(t).failed
      /\ s.monitor = Registers(t).monitor /\ s.settled = Registers(t).settled /\ s.pc = to
  BY <1>1, <1>3 DEF RegisterSet
<1> HIDE DEF s
<1>6. Moves(Program(t), cell, cell, Registers(t), s)
  BY <1>2, <1>5, LeaveMoves DEF Request
<1> QED
  BY <1>2, <1>4, <1>5, <1>6, GoesOn

LEMMA RetryIfFailedProgresses ==
  ASSUME TypeOK, Programs, NEW t \in Threads, RetryIfFailed(t)
  PROVE  Progresses(t)
<1>1. Registers(t) \in RegisterSet /\ cell \in 0 .. 3
  BY Types DEF TypeOK
<1>2. Poised(Program(t), cell, Registers(t), "retry") /\ Calling(t)
  BY AtIs DEF RetryIfFailed
<1> DEFINE to == IF Registers(t).failed THEN Program(t).code[Registers(t).pc][2] ELSE Registers(t).pc + 1
           s  == [Registers(t) EXCEPT !.pc = to]
<1>3. to \in Nat
  BY <1>2, Here DEF SoundAt
<1>4. Goes(t, s) /\ UnchangedCell
  BY DEF RetryIfFailed, Continue, Step
<1>5. /\ s \in RegisterSet /\ s.call = Registers(t).call /\ s.previous = Registers(t).previous
      /\ s.desired = Registers(t).desired /\ s.failed = Registers(t).failed
      /\ s.monitor = Registers(t).monitor /\ s.settled = Registers(t).settled /\ s.pc = to
  BY <1>1, <1>3 DEF RegisterSet
<1> HIDE DEF s
<1>6. Moves(Program(t), cell, cell, Registers(t), s)
  BY <1>2, <1>5, RetryMoves
<1> QED
  BY <1>2, <1>4, <1>5, <1>6, GoesOn

LEMMA CompareExchangeProgresses ==
  ASSUME TypeOK, Programs, NEW t \in Threads, CompareExchange(t)
  PROVE  Progresses(t)
<1>1. Registers(t) \in RegisterSet /\ cell \in 0 .. 3 /\ Registers(t).desired \in 0 .. 3
  BY Types DEF TypeOK, RegisterSet
<1>2. PICK name \in {"cmpxchg", "cmpxchgWeak"} : At(t, name)
  BY DEF CompareExchange
<1>3. Poised(Program(t), cell, Registers(t), name) /\ Calling(t)
  BY <1>2, AtIs
<1>4. CASE /\ cell = Registers(t).previous
           /\ Writes(t, Registers(t).desired, [Registers(t) EXCEPT !.failed = FALSE], TRUE)
           /\ used' = used
  <2> DEFINE q == [Registers(t) EXCEPT !.failed = FALSE]
  <2>1. q \in RegisterSet /\ Writes(t, Registers(t).desired, q, TRUE)
    BY <1>1, <1>4 DEF RegisterSet
  <2>2. /\ q.call = Registers(t).call /\ q.pc = Registers(t).pc /\ q.previous = Registers(t).previous
        /\ q.desired = Registers(t).desired /\ q.failed = FALSE
    BY <1>1 DEF RegisterSet
  <2> HIDE DEF q
  <2>3. ASSUME NEW s, Advances(q, s), s.settled, ~s.monitor
        PROVE  Moves(Program(t), cell, Registers(t).desired, Registers(t), s)
    BY <1>3, <1>4, <2>2, <2>3, CommitMoves DEF Advances, Commits
  <2> QED
    BY <1>1, <1>3, <1>4, <2>1, <2>3, WritesOn
<1>5. CASE /\ cell # Registers(t).previous \/ At(t, "cmpxchgWeak")
           /\ Reads(t, [Registers(t) EXCEPT !.previous = cell, !.failed = TRUE], Decides(t, FALSE))
           /\ UnchangedCell
  <2> DEFINE q == [Registers(t) EXCEPT !.previous = cell, !.failed = TRUE]
             b == Decides(t, FALSE)
  <2>1. q \in RegisterSet /\ Reads(t, q, b) /\ UnchangedCell
    BY <1>1, <1>5 DEF RegisterSet
  <2>2. /\ q.call = Registers(t).call /\ q.pc = Registers(t).pc /\ q.previous = cell
        /\ q.desired = Registers(t).desired /\ q.failed = TRUE /\ q.monitor = Registers(t).monitor
    BY <1>1 DEF RegisterSet
  <2>3. /\ b \in BOOLEAN
        /\ b <=> \/ Registers(t).pc = Length(Program(t))
                 \/ Name(Program(t), Registers(t).pc + 1) # "retry"
    BY <1>3, DecidesIs
  <2>4. cell # Registers(t).previous \/ name = "cmpxchgWeak"
    BY <1>2, <1>5 DEF At
  <2>5. Registers(t).monitor = FALSE
    BY <1>1, <1>3, Here DEF Exclusive
  <2> HIDE DEF q, b
  <2>6. ASSUME NEW s, Advances(q, s), s.settled = b, s.monitor = q.monitor
        PROVE  Moves(Program(t), cell, cell, Registers(t), s)
    BY <1>3, <2>2, <2>3, <2>4, <2>6, CompareFailsMoves DEF Advances
  <2> QED
    BY <1>3, <2>1, <2>3, <2>6, ReadsOn
<1> QED
  BY <1>4, <1>5 DEF CompareExchange

LEMMA Write8bProgresses ==
  ASSUME TypeOK, Programs, NEW t \in Threads, Write8b(t)
  PROVE  Progresses(t)
<1>1. Registers(t) \in RegisterSet /\ cell \in 0 .. 3 /\ Registers(t).desired \in 0 .. 3
  BY Types DEF TypeOK, RegisterSet
<1>2. Poised(Program(t), cell, Registers(t), "write8b") /\ Calling(t)
  BY AtIs DEF Write8b
<1> DEFINE q == Registers(t)
<1> HIDE DEF q
<1>3. CASE Registers(t).failed
  <2>1. Continue(t, q) /\ UnchangedCell
    BY <1>3 DEF Write8b, q
  <2>2. ASSUME NEW s, Advances(q, s), s.settled = q.settled, s.monitor = q.monitor
        PROVE  Moves(Program(t), cell, cell, Registers(t), s)
    BY <1>2, <1>3, <2>2, Skip8bMoves DEF Advances, q
  <2> QED
    BY <1>1, <1>2, <2>1, <2>2, ContinuesOn DEF q
<1>4. CASE ~Registers(t).failed
  <2>1. Writes(t, Registers(t).desired, q, FALSE) /\ used' = used
    BY <1>4 DEF Write8b, q
  <2>2. ASSUME NEW s, Advances(q, s), s.settled, ~s.monitor
        PROVE  Moves(Program(t), cell, Registers(t).desired, Registers(t), s)
    BY <1>2, <1>4, <2>2, Write8bMoves DEF Advances, q
  <2> QED
    BY <1>1, <1>2, <2>1, <2>2, WritesOn DEF q
<1> QED
  BY <1>3, <1>4

\* Only a cell of four values has arithmetic.
LEMMA CombinesHere ==
  ASSUME TypeOK, Programs, NEW t \in Threads, NEW name, At(t, name), name \in {"combine", "adc", "adds", "xadd"},
         NEW v \in 0 .. 3
  PROVE  Combine(Request(t).op, v, Request(t).operand) = Cell!Effect(Request(t), v) /\ Request(t).op \in Fetching
<1>1. Request(t).op \in DOMAIN code.programs /\ Poised(Program(t), cell, Registers(t), name) /\ Calling(t)
  BY AtIs
<1>2. Request(t).op \in Fetching
  BY <1>1, Here DEF SoundAt, Request, Fetching
<1>3. code.size = 4
  <2>1. SoundImplementation(code)
    BY CodeSound DEF TypeOK
  <2> QED
    BY <1>1, <1>2, <2>1 DEF SoundImplementation
<1>4. Request(t) \in Calls
  BY <1>1 DEF Poised, Request
<1> QED
  BY <1>2, <1>3, <1>4, CombineIs

LEMMA ExchangeAnyProgresses ==
  ASSUME TypeOK, Programs, NEW t \in Threads, ExchangeAny(t)
  PROVE  Progresses(t)
<1>1. Registers(t) \in RegisterSet /\ cell \in 0 .. 3
  BY Types DEF TypeOK
<1>2. PICK name \in {"xchg", "xadd"} : At(t, name)
  BY DEF ExchangeAny
<1>3. Poised(Program(t), cell, Registers(t), name) /\ Calling(t)
  BY <1>2, AtIs
<1> DEFINE w == IF At(t, "xchg") THEN Registers(t).desired ELSE Combine(Request(t).op, cell, Request(t).operand)
           q == [Registers(t) EXCEPT !.previous = cell]
<1>4. Writes(t, w, q, TRUE) /\ used' = used
  BY DEF ExchangeAny
<1>5. w = Cell!Effect(Registers(t).call, cell) /\ w \in 0 .. 3
  <2>1. Registers(t).call \in Calls
    BY <1>3 DEF Poised
  <2>2. CASE name = "xchg"
    <3>1. Registers(t).call.op = "exchange"
      BY <1>3, <2>2, Here DEF SoundAt
    <3>2. Registers(t).desired = Registers(t).call.operand
      BY <1>3, <3>1, Here DEF Fetching
    <3> QED
      BY <1>1, <1>2, <2>1, <2>2, <3>1, <3>2, EffectIs
  <2>3. CASE name = "xadd"
    <3>1. ~At(t, "xchg")
      BY <1>2, <2>3 DEF At
    <3>2. w = Cell!Effect(Request(t), cell)
      BY <1>1, <1>2, <2>3, <3>1, CombinesHere
    <3> QED
      BY <1>1, <2>1, <3>2, EffectIs DEF Request
  <2> QED
    BY <2>2, <2>3
<1>6. q \in RegisterSet
  BY <1>1 DEF RegisterSet
<1>7. /\ q.call = Registers(t).call /\ q.pc = Registers(t).pc /\ q.previous = cell
      /\ q.desired = Registers(t).desired /\ q.failed = Registers(t).failed
  BY <1>1 DEF RegisterSet
<1> HIDE DEF q, w
<1>8. ASSUME NEW s, Advances(q, s), s.settled, ~s.monitor
      PROVE  Moves(Program(t), cell, w, Registers(t), s)
  BY <1>3, <1>5, <1>7, <1>8, ExchangeMoves DEF Advances
<1> QED
  BY <1>3, <1>4, <1>5, <1>6, <1>8, WritesOn

LEMMA UnsetProgresses ==
  ASSUME TypeOK, Programs, NEW t \in Threads, Unset(t)
  PROVE  Progresses(t)
<1>1. Registers(t) \in RegisterSet
  BY Types
<1>2. Poised(Program(t), cell, Registers(t), "any") /\ Calling(t)
  BY AtIs DEF Unset
<1>3. code.size \in {2, 4}
  BY CodeSound DEF TypeOK, SoundImplementation
<1>4. PICK v \in 0 .. 3 : Continue(t, [Registers(t) EXCEPT !.previous = v])
  BY <1>3 DEF Unset
<1> DEFINE q == [Registers(t) EXCEPT !.previous = v]
<1>5. q \in RegisterSet /\ Continue(t, q) /\ UnchangedCell
  BY <1>1, <1>4 DEF RegisterSet, Unset
<1>6. /\ q.call = Registers(t).call /\ q.pc = Registers(t).pc /\ q.desired = Registers(t).desired
      /\ q.failed = Registers(t).failed /\ q.monitor = Registers(t).monitor
      /\ q.settled = Registers(t).settled
  BY <1>1 DEF RegisterSet
<1>7. q.settled = FALSE
  BY <1>1, <1>2, <1>6, Here DEF RegisterSet
<1> HIDE DEF q
<1>8. ASSUME NEW s, Advances(q, s), s.settled = q.settled, s.monitor = q.monitor
      PROVE  Moves(Program(t), cell, cell, Registers(t), s)
  BY <1>2, <1>6, <1>7, <1>8, PreviousMoves DEF Advances
<1> QED
  BY <1>2, <1>5, <1>8, ContinuesOn

\* The carry of adds is found in the low sum.
LEMMA CarryIs ==
  ASSUME NEW p, NEW v, NEW r, Poised(p, v, r, "adc")
  PROVE  /\ r.call.op = "fetchAdd"
         /\ Word(Low(High(r.previous) + High(r.call.operand) + IF r.desired < Low(r.call.operand) THEN 1 ELSE 0),
                 r.desired) = Cell!Effect(r.call, r.previous)
<1> DEFINE n == Length(p)
           k == r.pc
<1>1. /\ k \in Nat /\ n \in Nat /\ 1 <= k /\ k <= n /\ Name(p, k) = "adc" /\ n = Length(p)
      /\ r.previous \in 0 .. 3 /\ r.call.operand \in 0 .. 3 /\ r.call \in Calls
  BY Here DEF Poised
<1>2. k # 1 /\ r.call.op = "fetchAdd"
  BY <1>1, Here DEF SoundAt
<1>3. SoundAt(r.call.op, p, k - 1)
  BY <1>1, <1>2 DEF Poised, SoundProgram
<1> HIDE DEF n
<1>4. Name(p, k) \in Followers(Name(p, k - 1))
  BY <1>1, <1>2, <1>3 DEF SoundAt
<1>5. Name(p, k - 1) = "adds"
  BY <1>1, <1>4 DEF Followers, Commits, Computes, Tests
<1>6. r.desired = Word(0, Low(Low(r.previous) + Low(r.call.operand)))
  BY <1>1, <1>2, <1>5 DEF Poised, RegistersOK
<1>7. Cell!Effect(r.call, r.previous) = (r.previous + r.call.operand) % 4
  BY <1>1, <1>2, EffectIs
<1> QED
  BY <1>1, <1>2, <1>6, <1>7, AddsWithCarry

LEMMA InRegistersProgresses ==
  ASSUME TypeOK, Programs, NEW t \in Threads, InRegisters(t)
  PROVE  Progresses(t)
<1>1. Registers(t) \in RegisterSet /\ UnchangedCell
  BY Types DEF InRegisters
<1>2. PICK name \in {"expect", "keep", "combine", "adds", "adc", "setFailed"} :
          At(t, name) /\ Continue(t, Compute(Registers(t), name, Request(t)))
  BY DEF InRegisters
<1>3. Poised(Program(t), cell, Registers(t), name) /\ Calling(t)
  BY <1>2, AtIs
<1>4. /\ Registers(t).call \in Calls /\ Registers(t).previous \in 0 .. 3 /\ Registers(t).desired \in 0 .. 3
      /\ Registers(t).call.expected \in 0 .. 3 /\ Registers(t).call.operand \in 0 .. 3
  BY <1>3, Here DEF Poised
<1>5. CASE name = "expect"
  <2> DEFINE x == Registers(t).call.expected
             q == [Registers(t) EXCEPT !.previous = x]
  <2>1. x \in 0 .. 3
    BY <1>4
  <2>2. Continue(t, q)
    BY <1>2, <1>5 DEF Compute, Request
  <2> HIDE DEF x
  <2>3. q \in RegisterSet
    BY <1>1, <2>1 DEF RegisterSet
  <2>4. /\ q.call = Registers(t).call /\ q.pc = Registers(t).pc /\ q.previous = x
        /\ q.desired = Registers(t).desired /\ q.failed = Registers(t).failed /\ q.monitor = Registers(t).monitor /\ q.settled = Registers(t).settled
    BY <1>1 DEF RegisterSet
  <2> HIDE DEF q
  <2>5. ASSUME NEW s, Advances(q, s), s.settled = q.settled, s.monitor = q.monitor
        PROVE  Moves(Program(t), cell, cell, Registers(t), s)
    BY <1>3, <1>5, <2>1, <2>4, <2>5, ExpectMoves DEF Advances, x
  <2> QED
    BY <1>1, <1>3, <2>2, <2>3, <2>5, ContinuesOn
<1>6. CASE name = "keep"
  <2> DEFINE x == Registers(t).previous
             q == [Registers(t) EXCEPT !.desired = x]
  <2>1. x \in 0 .. 3 /\ x = Cell!Effect(Registers(t).call, Registers(t).previous)
    BY <1>3, <1>4, <1>6, Here, EffectIs DEF SoundAt
  <2>2. Continue(t, q)
    BY <1>2, <1>6 DEF Compute
  <2> HIDE DEF x
  <2>3. q \in RegisterSet
    BY <1>1, <2>1 DEF RegisterSet
  <2>4. /\ q.call = Registers(t).call /\ q.pc = Registers(t).pc /\ q.previous = Registers(t).previous
        /\ q.desired = x /\ q.failed = Registers(t).failed /\ q.monitor = Registers(t).monitor /\ q.settled = Registers(t).settled
    BY <1>1 DEF RegisterSet
  <2> HIDE DEF q
  <2>5. ASSUME NEW s, Advances(q, s), s.settled = q.settled, s.monitor = q.monitor
        PROVE  Moves(Program(t), cell, cell, Registers(t), s)
    BY <1>3, <1>6, <2>1, <2>4, <2>5, ComputesMoves DEF Advances, Computes
  <2> QED
    BY <1>1, <1>3, <2>2, <2>3, <2>5, ContinuesOn
<1>7. CASE name = "combine"
  <2> DEFINE x == Combine(Registers(t).call.op, Registers(t).previous, Registers(t).call.operand)
             q == [Registers(t) EXCEPT !.desired = x]
  <2>1. x \in 0 .. 3 /\ x = Cell!Effect(Registers(t).call, Registers(t).previous)
    BY <1>2, <1>4, <1>7, CombinesHere, EffectIs DEF Request
  <2>2. Continue(t, q)
    BY <1>2, <1>7 DEF Compute, Request
  <2> HIDE DEF x
  <2>3. q \in RegisterSet
    BY <1>1, <2>1 DEF RegisterSet
  <2>4. /\ q.call = Registers(t).call /\ q.pc = Registers(t).pc /\ q.previous = Registers(t).previous
        /\ q.desired = x /\ q.failed = Registers(t).failed /\ q.monitor = Registers(t).monitor /\ q.settled = Registers(t).settled
    BY <1>1 DEF RegisterSet
  <2> HIDE DEF q
  <2>5. ASSUME NEW s, Advances(q, s), s.settled = q.settled, s.monitor = q.monitor
        PROVE  Moves(Program(t), cell, cell, Registers(t), s)
    BY <1>3, <1>7, <2>1, <2>4, <2>5, ComputesMoves DEF Advances, Computes
  <2> QED
    BY <1>1, <1>3, <2>2, <2>3, <2>5, ContinuesOn
<1>8. CASE name = "adds"
  <2> DEFINE x == Word(0, Low(Low(Registers(t).previous) + Low(Registers(t).call.operand)))
             q == [Registers(t) EXCEPT !.desired = x]
  <2>1. x \in 0 .. 3
    BY <1>4 DEF Word, Low
  <2>2. Continue(t, q)
    BY <1>2, <1>8 DEF Compute, Request
  <2> HIDE DEF x
  <2>3. q \in RegisterSet
    BY <1>1, <2>1 DEF RegisterSet
  <2>4. /\ q.call = Registers(t).call /\ q.pc = Registers(t).pc /\ q.previous = Registers(t).previous
        /\ q.desired = x /\ q.failed = Registers(t).failed /\ q.monitor = Registers(t).monitor /\ q.settled = Registers(t).settled
    BY <1>1 DEF RegisterSet
  <2> HIDE DEF q
  <2>5. ASSUME NEW s, Advances(q, s), s.settled = q.settled, s.monitor = q.monitor
        PROVE  Moves(Program(t), cell, cell, Registers(t), s)
    BY <1>3, <1>8, <2>1, <2>4, <2>5, AddsMoves DEF Advances, x
  <2> QED
    BY <1>1, <1>3, <2>2, <2>3, <2>5, ContinuesOn
<1>9. CASE name = "adc"
  <2> DEFINE x == Word(Low(High(Registers(t).previous) + High(Registers(t).call.operand)
                              + IF Registers(t).desired < Low(Registers(t).call.operand) THEN 1 ELSE 0),
                          Registers(t).desired)
             q == [Registers(t) EXCEPT !.desired = x]
  <2>1. x \in 0 .. 3 /\ x = Cell!Effect(Registers(t).call, Registers(t).previous)
    BY <1>3, <1>4, <1>9, CarryIs, EffectIs
  <2>2. Continue(t, q)
    BY <1>2, <1>9 DEF Compute, Request
  <2> HIDE DEF x
  <2>3. q \in RegisterSet
    BY <1>1, <2>1 DEF RegisterSet
  <2>4. /\ q.call = Registers(t).call /\ q.pc = Registers(t).pc /\ q.previous = Registers(t).previous
        /\ q.desired = x /\ q.failed = Registers(t).failed /\ q.monitor = Registers(t).monitor /\ q.settled = Registers(t).settled
    BY <1>1 DEF RegisterSet
  <2> HIDE DEF q
  <2>5. ASSUME NEW s, Advances(q, s), s.settled = q.settled, s.monitor = q.monitor
        PROVE  Moves(Program(t), cell, cell, Registers(t), s)
    BY <1>3, <1>9, <2>1, <2>4, <2>5, ComputesMoves DEF Advances, Computes
  <2> QED
    BY <1>1, <1>3, <2>2, <2>3, <2>5, ContinuesOn
<1>10. CASE name = "setFailed"
  <2> DEFINE x == TRUE
             q == [Registers(t) EXCEPT !.failed = x]
  <2>1. x \in BOOLEAN
    OBVIOUS
  <2>2. Continue(t, q)
    BY <1>2, <1>10 DEF Compute
  <2> HIDE DEF x
  <2>3. q \in RegisterSet
    BY <1>1, <2>1 DEF RegisterSet
  <2>4. /\ q.call = Registers(t).call /\ q.pc = Registers(t).pc /\ q.previous = Registers(t).previous
        /\ q.desired = Registers(t).desired /\ q.failed = x /\ q.monitor = Registers(t).monitor /\ q.settled = Registers(t).settled
    BY <1>1 DEF RegisterSet
  <2> HIDE DEF q
  <2>5. ASSUME NEW s, Advances(q, s), s.settled = q.settled, s.monitor = q.monitor
        PROVE  Moves(Program(t), cell, cell, Registers(t), s)
    BY <1>3, <1>10, <2>1, <2>4, <2>5, SetFailedMoves DEF Advances, x
  <2> QED
    BY <1>1, <1>3, <2>2, <2>3, <2>5, ContinuesOn
<1> QED
  BY <1>2, <1>5, <1>6, <1>7, <1>8, <1>9, <1>10

----------------------------------------------------------------------------
(* Calls and returns, and the invariant.                                   *)

Runs(t) ==
    \/ Read(t) \/ ReadLow(t) \/ ReadHigh(t) \/ Write(t)
    \/ LoadExclusive(t) \/ Leave(t) \/ StoreExclusive(t) \/ StoreExclusiveFails(t)
    \/ CompareExchange(t) \/ Compare8b(t) \/ Write8b(t) \/ ExchangeAny(t)
    \/ InRegisters(t) \/ Unset(t) \/ RetryIfFailed(t)

LEMMA RunsProgress ==
  ASSUME TypeOK, Programs, NEW t \in Threads, Runs(t)
  PROVE  Progresses(t)
BY ReadProgresses, ReadLowProgresses, ReadHighProgresses, WriteProgresses, LoadExclusiveProgresses,
   LeaveProgresses, StoreExclusiveProgresses, StoreExclusiveFailsProgresses, CompareExchangeProgresses,
   Compare8bProgresses, Write8bProgresses, ExchangeAnyProgresses, InRegistersProgresses, UnsetProgresses,
   RetryIfFailedProgresses
   DEF Runs

\* Thread u when t writes new data.
Forgetting(u, t) ==
    [thread[u] EXCEPT !.knows = Forget(@, t), !.acquirable = Forget(@, t),
                      !.releasing = Forget(@, t), !.owed = Forget(@, t)]

LEMMA CallBegins ==
  ASSUME TypeOK, NEW t \in Threads, NEW r \in Calls, Call(t, r)
  PROVE  /\ ~Calling(t) /\ TypeOK' /\ used' = used /\ cell' = cell /\ r.op \in DOMAIN code.programs
         /\ Registers(t)'.call = r /\ Registers(t)'.pc = 1 /\ Registers(t)'.desired = r.operand
         /\ ~Registers(t)'.settled /\ ~Registers(t)'.monitor
         /\ carries' = carries \ {t} /\ published' = published \ {t}
         /\ thread'[t].knows = thread[t].knows /\ thread'[t].owed = {}
         /\ Releases(r) /\ "release" \in code.fences[r.op] => thread'[t].releasing = thread[t].knows
         /\ \A u \in Threads \ {t} :
               /\ Registers(u)' = Registers(u)
               /\ thread'[u].knows = thread[u].knows \ {t} /\ thread'[u].owed = thread[u].owed \ {t}
               /\ thread'[u].acquirable = thread[u].acquirable \ {t}
               /\ thread'[u].releasing = thread[u].releasing \ {t}
<1>1. PICK failed \in BOOLEAN : Enter(t, r, failed)
  BY DEF Call
<1> DEFINE q == [NotCalling EXCEPT !.call = r, !.pc = 1, !.desired = r.operand, !.failed = failed]
           l == IF Releases(r) /\ "release" \in code.fences[r.op] THEN thread[t].knows ELSE thread[t].releasing \ {t}
           x == [thread[t] EXCEPT !.registers = q, !.releasing = l,
                                  !.acquirable = thread[t].acquirable \ {t}, !.owed = {}]
<1>2. /\ q \in RegisterSet /\ q.call = r /\ q.pc = 1 /\ q.desired = r.operand /\ q.settled = FALSE
      /\ q.monitor = FALSE
  <2>1. r.operand \in 0 .. 3
    BY CallsAssumption
  <2>2. NotCalling \in RegisterSet /\ NotCalling.settled = FALSE /\ NotCalling.monitor = FALSE
    BY DEF NotCalling, RegisterSet
  <2> HIDE DEF NotCalling
  <2> QED
    BY <2>1, <2>2 DEF RegisterSet
<1>3. /\ ~Calling(t) /\ carries' = carries \ {t} /\ published' = published \ {t}
      /\ used' = used /\ cell' = cell
      /\ thread' = [u \in Threads |-> IF u = t THEN x ELSE Forgetting(u, t)]
  BY <1>1, Zenon DEF Enter, Forget, Forgetting
<1> HIDE DEF q
<1>4. thread[t] \in ThreadSet /\ carries \in SUBSET Threads /\ published \in SUBSET Threads
  BY DEF TypeOK
<1>5. l \in SUBSET Threads
  BY <1>4 DEF ThreadSet
<1>6. Releases(r) /\ "release" \in code.fences[r.op] => l = thread[t].knows
  OBVIOUS
<1> HIDE DEF l
<1>7. x \in ThreadSet /\ x.registers = q /\ x.knows = thread[t].knows /\ x.releasing = l /\ x.owed = {}
  BY <1>2, <1>4, <1>5 DEF ThreadSet
<1>8. ASSUME NEW u \in Threads \ {t}
      PROVE  /\ Forgetting(u, t) \in ThreadSet /\ Forgetting(u, t).registers = thread[u].registers
             /\ Forgetting(u, t).knows = thread[u].knows \ {t} /\ Forgetting(u, t).owed = thread[u].owed \ {t}
             /\ Forgetting(u, t).acquirable = thread[u].acquirable \ {t} /\ Forgetting(u, t).releasing = thread[u].releasing \ {t}
  <2>1. thread[u] \in ThreadSet
    BY DEF TypeOK
  <2> QED
    BY <2>1 DEF ThreadSet, Forgetting, Forget
<1> HIDE DEF x
<1>9. thread' \in [Threads -> ThreadSet] /\ thread'[t] = x /\ \A u \in Threads \ {t} : thread'[u] = Forgetting(u, t)
  BY <1>3, <1>7, <1>8
<1>10. TypeOK'
  BY <1>3, <1>4, <1>9 DEF TypeOK
<1>11. r.op \in DOMAIN code.programs
  BY DEF Call
<1> QED
  BY <1>2, <1>3, <1>6, <1>7, <1>8, <1>9, <1>10, <1>11 DEF Registers

LEMMA ReturnEnds ==
  ASSUME TypeOK, NEW t \in Threads, Return(t)
  PROVE  /\ Calling(t) /\ ~Running(t) /\ TypeOK' /\ used' = used /\ cell' = cell
         /\ carries' = carries /\ published' = published
         /\ Registers(t)' = NotCalling
         /\ thread'[t].knows = IF Acquires(Request(t), Succeeds(t)) /\ "acquire" \in code.fences[Request(t).op]
                               THEN thread[t].knows \cup thread[t].acquirable ELSE thread[t].knows
         /\ thread'[t].owed = IF Learns(Request(t), Succeeds(t)) THEN thread[t].owed ELSE {}
         /\ \A u \in Threads \ {t} : thread'[u] = thread[u]
<1> DEFINE k == IF Acquires(Request(t), Succeeds(t)) /\ "acquire" \in code.fences[Request(t).op]
                THEN thread[t].knows \cup thread[t].acquirable ELSE thread[t].knows
           o == IF Learns(Request(t), Succeeds(t)) THEN thread[t].owed ELSE {}
           x == [thread[t] EXCEPT !.registers = NotCalling, !.knows = k, !.owed = o]
<1>1. /\ Calling(t) /\ ~Running(t) /\ used' = used /\ cell' = cell
      /\ carries' = carries /\ published' = published
  BY DEF Return, UnchangedCell
<1>2. thread' = [thread EXCEPT ![t].registers = NotCalling, ![t].knows = k, ![t].owed = o]
  BY DEF Return
<1>3. thread[t] \in ThreadSet
  BY DEF TypeOK
<1>4. k \in SUBSET Threads /\ o \in SUBSET Threads
  BY <1>3 DEF ThreadSet
<1>5. NotCalling \in RegisterSet
  BY DEF NotCalling, RegisterSet
<1> HIDE DEF k, o
<1>6. x \in ThreadSet /\ x.registers = NotCalling /\ x.knows = k /\ x.owed = o
  BY <1>3, <1>4, <1>5 DEF ThreadSet
<1>7. thread' = [thread EXCEPT ![t] = x]
  BY <1>2 DEF TypeOK
<1> HIDE DEF x
<1>8. thread' \in [Threads -> ThreadSet] /\ thread'[t] = x /\ \A u \in Threads \ {t} : thread'[u] = thread[u]
  BY <1>6, <1>7, Updates
<1>9. TypeOK'
  BY <1>1, <1>8 DEF TypeOK
<1> QED
  BY <1>1, <1>6, <1>8, <1>9 DEF Registers, k, o

\* What a thread that publishes knows, its fence has fixed; what it is owed, it
\* can acquire, or knows once it has returned.
News ==
    /\ published \subseteq carries
    /\ \A t \in Threads :
          /\ Calling(t) => thread[t].owed \subseteq thread[t].acquirable
          /\ Calling(t) /\ Publishes(Request(t)) => thread[t].releasing = thread[t].knows
          /\ ~Calling(t) => thread[t].owed \subseteq thread[t].knows

IInv == TypeOK /\ Programs /\ News

LEMMA Starting ==
  ASSUME Init
  PROVE  IInv
<1>1. used \in Distinct /\ cell \in code.starts /\ carries = {} /\ published = {}
  BY DEF Init
<1>2. cell \in 0 .. 3
  <2>1. SoundImplementation(code)
    BY <1>1, CodeSound
  <2> QED
    BY <1>1, <2>1 DEF SoundImplementation
<1>3. NotCalling \in RegisterSet /\ NotCalling.call = NoCall
  BY DEF NotCalling, RegisterSet
<1> HIDE DEF NotCalling
<1>4. ASSUME NEW t \in Threads
      PROVE  thread[t] \in ThreadSet /\ ~Calling(t) /\ thread[t].owed = {}
  BY <1>3 DEF Init, ThreadSet, Calling, Request, Registers
<1>5. thread \in [Threads -> ThreadSet]
  BY <1>4 DEF Init
<1> QED
  BY <1>1, <1>2, <1>4, <1>5 DEF IInv, TypeOK, Programs, News

LEMMA ProgramsKept ==
  ASSUME IInv, NEW t \in Threads, Progresses(t)
  PROVE  Programs'
<1>1. code' = code /\ Registers(t)'.call = Registers(t).call
  BY DEF Progresses, Moves, code
<1>2. Request(t)' = Request(t) /\ Program(t)' = Program(t) /\ InProgress(t)
  BY <1>1 DEF Request, Program, Progresses, IInv, Programs
<1>3. InProgress(t)'
  BY <1>1, <1>2 DEF Progresses, Moves, InProgress
<1>4. ASSUME NEW u \in Threads \ {t}, Calling(u)'
      PROVE  InProgress(u)'
  <2>1. Registers(u) \in RegisterSet
    BY Types DEF IInv
  <2>2. Registers(u)'.call = Registers(u).call
    BY <2>1 DEF Progresses, RegisterSet
  <2>3. Request(u)' = Request(u) /\ Program(u)' = Program(u) /\ Calling(u)
    BY <1>1, <1>4, <2>2 DEF Request, Program, Calling
  <2>4. InProgress(u)
    BY <2>3 DEF IInv, Programs
  <2>5. RegistersOK(Program(u), cell', Registers(u)')
    BY <2>1, <2>4, MonitorLost DEF Progresses, InProgress
  <2> QED
    BY <1>1, <2>3, <2>4, <2>5 DEF InProgress
<1> QED
  BY <1>3, <1>4 DEF Programs

LEMMA NewsKept ==
  ASSUME IInv, NEW t \in Threads, Progresses(t)
  PROVE  News'
<1>1. ASSUME NEW u \in Threads
      PROVE  Request(u)' = Request(u) /\ (Calling(u)' <=> Calling(u))
  <2>1. Registers(u) \in RegisterSet
    BY Types DEF IInv
  <2>2. Registers(u)'.call = Registers(u).call
    BY <2>1 DEF Progresses, Moves, RegisterSet
  <2> QED
    BY <2>2 DEF Request, Calling
<1>2. Calling(t) /\ Spreads(t) /\ News
  BY DEF Progresses, IInv
<1>3. ASSUME NEW u \in Threads \ {t}
      PROVE  /\ Calling(u)' => thread'[u].owed \subseteq thread'[u].acquirable
             /\ Calling(u)' /\ Publishes(Request(u)') => thread'[u].releasing = thread'[u].knows
             /\ ~Calling(u)' => thread'[u].owed \subseteq thread'[u].knows
  BY <1>1, <1>2 DEF News, Spreads, SameNews
<1>4. /\ Publishes(Request(t)) => thread[t].releasing = thread[t].knows
      /\ thread[t].owed \subseteq thread[t].acquirable /\ published \subseteq carries
  BY <1>2 DEF News
<1>5. /\ published' \subseteq carries' /\ thread'[t].owed \subseteq thread'[t].acquirable
      /\ thread'[t].knows = thread[t].knows /\ thread'[t].releasing = thread[t].releasing
  <2>1. CASE /\ carries' = carries /\ published' = published
             /\ \/ SameNews(t)
                \/ /\ thread'[t].acquirable = thread[t].acquirable \cup carries
                   /\ thread'[t].owed = published
    BY <1>2, <1>4, <2>1 DEF Spreads, SameNews
  <2>2. ASSUME NEW keeps \in BOOLEAN,
               carries' = thread[t].releasing \cup (IF keeps THEN carries ELSE {}),
               published' = (IF Publishes(Request(t)) THEN thread[t].knows ELSE {})
                            \cup (IF keeps THEN published ELSE {}),
               thread'[t].acquirable = IF keeps THEN thread[t].acquirable \cup carries
                                       ELSE thread[t].acquirable,
               thread'[t].owed = IF keeps THEN published ELSE {}
        PROVE  published' \subseteq carries' /\ thread'[t].owed \subseteq thread'[t].acquirable
    BY <1>4, <2>2
  <2> QED
    BY <1>2, <2>1, <2>2 DEF Spreads
<1>6. /\ Calling(t)' /\ thread'[t].owed \subseteq thread'[t].acquirable
      /\ Publishes(Request(t)') => thread'[t].releasing = thread'[t].knows
  BY <1>1, <1>2, <1>4, <1>5
<1> QED
  BY <1>3, <1>5, <1>6 DEF News

LEMMA CallKeeps ==
  ASSUME IInv, NEW t \in Threads, NEW r \in Calls, Call(t, r)
  PROVE  IInv'
<1>1. TypeOK /\ TypeOK' /\ code' = code /\ r.op \in DOMAIN code.programs /\ cell' = cell
  BY CallBegins DEF IInv, code
<1>2. SoundOperation(r.op, code.programs[r.op], code.fences[r.op])
  <2>1. SoundImplementation(code)
    BY <1>1, CodeSound DEF TypeOK
  <2> QED
    BY <1>1, <2>1 DEF SoundImplementation
<1>3. Request(t)' = r /\ Program(t)' = code.programs[r.op] /\ Registers(t)' \in RegisterSet
      /\ Calling(t)'
  <2>1. Registers(t)' \in RegisterSet
    BY <1>1 DEF TypeOK, ThreadSet, Registers
  <2>2. Request(t)' = r
    BY <1>1, CallBegins DEF Request
  <2> QED
    BY <1>1, <2>1, <2>2, CallsAssumption DEF Program, Calling
<1>4. InProgress(t)'
  <2> DEFINE s == Registers(t)'
             p == code.programs[r.op]
  <2>1. s.call = r /\ s.pc = 1 /\ ~s.settled /\ ~s.monitor /\ s.desired = s.call.operand
    BY <1>1, CallBegins
  <2>2. SoundProgram(s.call.op, p)
    BY <1>2, <2>1 DEF SoundOperation
  <2> HIDE DEF s, p
  <2>3. RegistersOK(p, cell', s)
    BY <1>3, <2>1, <2>2, Starts DEF s
  <2> QED
    BY <1>1, <1>3, <2>3 DEF InProgress, s, p
<1>5. ASSUME NEW u \in Threads \ {t}
      PROVE  /\ Request(u)' = Request(u) /\ (Calling(u)' <=> Calling(u)) /\ Program(u)' = Program(u)
             /\ Registers(u)' = Registers(u)
  BY <1>1, CallBegins DEF Request, Calling, Program
<1>6. Programs'
  BY <1>1, <1>4, <1>5 DEF IInv, Programs, InProgress
<1>7. News
  BY DEF IInv
<1>8. Publishes(r) => Releases(r) /\ "release" \in code.fences[r.op]
  BY <1>2 DEF SoundOperation, Publishes, Releases
<1>9. News'
  <2>1. published' \subseteq carries'
    BY <1>1, <1>7, CallBegins DEF News
  <2>2. ASSUME NEW u \in Threads \ {t}
        PROVE  /\ Calling(u)' => thread'[u].owed \subseteq thread'[u].acquirable
               /\ Calling(u)' /\ Publishes(Request(u)') => thread'[u].releasing = thread'[u].knows
               /\ ~Calling(u)' => thread'[u].owed \subseteq thread'[u].knows
    <3>1. /\ thread'[u].knows = thread[u].knows \ {t} /\ thread'[u].owed = thread[u].owed \ {t}
          /\ thread'[u].acquirable = thread[u].acquirable \ {t}
          /\ thread'[u].releasing = thread[u].releasing \ {t}
      BY <1>1, CallBegins
    <3> QED
      BY <1>5, <1>7, <3>1 DEF News
  <2>3. /\ thread'[t].owed = {}
        /\ Publishes(r) => thread'[t].releasing = thread'[t].knows
    BY <1>1, <1>8, CallBegins
  <2> QED
    BY <1>3, <2>1, <2>2, <2>3 DEF News
<1> QED
  BY <1>1, <1>6, <1>9 DEF IInv

LEMMA ReturnKeeps ==
  ASSUME IInv, NEW t \in Threads, Return(t)
  PROVE  IInv'
<1>1. TypeOK /\ TypeOK' /\ code' = code /\ cell' = cell /\ Calling(t) /\ News
      /\ carries' = carries /\ published' = published
  BY ReturnEnds DEF IInv, code
<1>2. ~Calling(t)'
  <2>1. NotCalling.call = NoCall
    BY DEF NotCalling
  <2>2. Registers(t)' = NotCalling
    BY <1>1, ReturnEnds
  <2> QED
    BY <2>1, <2>2 DEF Calling, Request
<1>3. ASSUME NEW u \in Threads \ {t}
      PROVE  /\ thread'[u] = thread[u]
             /\ Request(u)' = Request(u) /\ (Calling(u)' <=> Calling(u)) /\ Program(u)' = Program(u)
             /\ Registers(u)' = Registers(u)
  BY <1>1, ReturnEnds DEF Request, Calling, Program, Registers
<1>4. Programs'
  BY <1>1, <1>2, <1>3 DEF IInv, Programs, InProgress
<1>5. Learns(Request(t), Succeeds(t)) =>
         Acquires(Request(t), Succeeds(t)) /\ "acquire" \in code.fences[Request(t).op]
  <2>1. SoundImplementation(code)
    BY <1>1, CodeSound DEF TypeOK
  <2>2. Request(t).op \in DOMAIN code.programs
    BY <1>1 DEF IInv, Programs, InProgress
  <2>3. Request(t).op # "store" => "acquire" \in code.fences[Request(t).op]
    BY <2>1, <2>2 DEF SoundImplementation, SoundOperation
  <2> QED
    BY <2>3 DEF Learns
<1>6. thread'[t].owed \subseteq thread'[t].knows
  BY <1>1, <1>5, ReturnEnds DEF News
<1>7. News'
  BY <1>1, <1>2, <1>3, <1>6 DEF News
<1> QED
  BY <1>1, <1>4, <1>7 DEF IInv

LEMMA Inductive ==
  ASSUME IInv, [Next]_vars
  PROVE  IInv'
<1>1. ASSUME NEW t \in Threads, Runs(t)
      PROVE  IInv'
  <2>1. Progresses(t)
    BY <1>1, RunsProgress DEF IInv
  <2> QED
    BY <2>1, ProgramsKept, NewsKept DEF IInv, Progresses
<1>2. CASE UNCHANGED vars
  BY <1>2 DEF vars, IInv, TypeOK, Programs, News, InProgress, Program, Request, Registers, Calling, code
<1>3. CASE Next
  BY <1>1, <1>3, CallKeeps, ReturnKeeps DEF Next, Runs
<1> QED
  BY <1>2, <1>3

\* Whatever the implementation, the calls and their interleaving: the registers
\* of every thread that is inside an operation are in order for its program,
\* and what it may acquire includes what it is owed.
THEOREM Invariant == Spec => []IInv
<1>1. Init => IInv
  BY Starting
<1>2. IInv /\ [Next]_vars => IInv'
  BY Inductive
<1> QED
  BY <1>1, <1>2, PTL DEF Spec

\* The wrappers of c/atomic.h fence enough: a thread that returns from an
\* acquiring operation knows what the thread it read from knew when it released.
THEOREM WrappersSynchronize == Spec => []AcquireSeesRelease
<1>1. IInv => AcquireSeesRelease
  BY DEF IInv, News, AcquireSeesRelease
<1> QED
  BY <1>1, Invariant, PTL

----------------------------------------------------------------------------
(* The refinement of the abstract cell.                                    *)

Phase == [t \in Threads |->
             IF ~Calling(t) THEN "idle" ELSE IF Registers(t).settled THEN "done" ELSE "called"]
Asked == [t \in Threads |-> Request(t)]
Told  == [t \in Threads |->
             IF Calling(t) /\ Registers(t).settled
             THEN [ok |-> Succeeds(t), found |-> Found(t)]
             ELSE [ok |-> FALSE, found |-> 0]]

LEMMA ToldIs ==
  ASSUME NEW t \in Threads
  PROVE  Told[t] = IF Calling(t) /\ Registers(t).settled THEN Answers(Program(t), Registers(t)) ELSE Cell!NoAnswer
<1>1. Succeeds(t) = Tells(Program(t), Registers(t))
  BY DEF Succeeds, Tells, Request
<1>2. Found(t) = Finds(Registers(t))
  BY DEF Found, Finds, Request
<1> QED
  BY <1>1, <1>2 DEF Told, Answers, Cell!NoAnswer

LEMMA CellStutters ==
  ASSUME cell' = cell, Phase' = Phase, Asked' = Asked, Told' = Told
  PROVE  UNCHANGED Cell!vars
BY DEF Cell!vars, Phase, Asked, Told

LEMMA CellCalls ==
  ASSUME NEW t \in Threads, NEW r \in Calls, Phase[t] = "idle", Phase' = [Phase EXCEPT ![t] = "called"],
         Asked' = [Asked EXCEPT ![t] = r], cell' = cell, Told' = Told
  PROVE  Cell!Next
<1>1. Cell!Call(t, r)
  BY DEF Cell!Call, Phase, Asked, Told
<1> QED
  BY <1>1 DEF Cell!Next

LEMMA CellTakesEffect ==
  ASSUME NEW t \in Threads, Phase[t] = "called", Phase' = [Phase EXCEPT ![t] = "done"],
         Told' = [Told EXCEPT ![t] = Cell!Answer(Asked[t], cell)], Asked' = Asked,
         cell' = Cell!Effect(Asked[t], cell)
  PROVE  Cell!Next
<1>1. Cell!TakeEffect(t)
  BY DEF Cell!TakeEffect, Cell!Reply, Phase, Asked, Told
<1> QED
  BY <1>1 DEF Cell!Next

LEMMA CellFailsSpuriously ==
  ASSUME NEW t \in Threads, Phase[t] = "called", Phase' = [Phase EXCEPT ![t] = "done"], NEW v \in Cell!Values,
         Told' = [Told EXCEPT ![t] = [ok |-> FALSE, found |-> v]], Asked' = Asked,
         Asked[t].op = "compareExchangeWeak", cell' = cell
  PROVE  Cell!Next
<1>1. Cell!FailSpuriously(t)
  BY DEF Cell!FailSpuriously, Cell!Reply, Phase, Asked, Told
<1> QED
  BY <1>1 DEF Cell!Next

LEMMA CellReturns ==
  ASSUME NEW t \in Threads, Phase[t] = "done", Phase' = [Phase EXCEPT ![t] = "idle"],
         Asked' = [Asked EXCEPT ![t] = NoCall], Told' = [Told EXCEPT ![t] = Cell!NoAnswer], cell' = cell
  PROVE  Cell!Next
<1>1. Cell!Return(t)
  BY DEF Cell!Return, Phase, Asked, Told
<1> QED
  BY <1>1 DEF Cell!Next

\* The maps change for one thread at most.
LEMMA Elsewhere ==
  ASSUME NEW t \in Threads,
         \A u \in Threads \ {t} : Phase'[u] = Phase[u] /\ Asked'[u] = Asked[u] /\ Told'[u] = Told[u]
  PROVE  /\ \A x : Phase'[t] = x => Phase' = [Phase EXCEPT ![t] = x]
         /\ \A x : Asked'[t] = x => Asked' = [Asked EXCEPT ![t] = x]
         /\ \A x : Told'[t] = x => Told' = [Told EXCEPT ![t] = x]
         /\ Asked'[t] = Asked[t] => Asked' = Asked
         /\ Phase'[t] = Phase[t] => Phase' = Phase
         /\ Told'[t] = Told[t] => Told' = Told
<1>1. /\ Phase = [u \in Threads |-> Phase[u]] /\ Phase' = [u \in Threads |-> Phase'[u]]
      /\ Asked = [u \in Threads |-> Asked[u]] /\ Asked' = [u \in Threads |-> Asked'[u]]
      /\ Told = [u \in Threads |-> Told[u]] /\ Told' = [u \in Threads |-> Told'[u]]
  BY DEF Phase, Asked, Told
<1> QED
  BY <1>1

LEMMA ProgressRefines ==
  ASSUME IInv, NEW t \in Threads, Progresses(t)
  PROVE  Cell!Next \/ UNCHANGED Cell!vars
<1> DEFINE p == Program(t)
           r == Registers(t)
           s == Registers(t)'
<1>1. TypeOK /\ TypeOK' /\ code' = code /\ Calling(t) /\ Moves(p, cell, cell', r, s)
  BY DEF IInv, Progresses, code
<1>2. /\ s.call = r.call /\ Request(t)' = Request(t) /\ Calling(t)' /\ Program(t)' = p
      /\ Request(t) \in Calls /\ r.settled \in BOOLEAN /\ s.settled \in BOOLEAN /\ s.previous \in 0 .. 3
      /\ r.call = Request(t)
  <2>1. s.call = r.call
    BY <1>1 DEF Moves
  <2>2. Request(t)' = Request(t) /\ r.call = Request(t)
    BY <2>1 DEF Request
  <2>3. r \in RegisterSet /\ s \in RegisterSet /\ Request(t) \in Calls
    BY <1>1, Types DEF TypeOK, ThreadSet, Registers
  <2> QED
    BY <1>1, <2>1, <2>2, <2>3 DEF Calling, Program, RegisterSet
<1>3. ASSUME NEW u \in Threads \ {t}
      PROVE  Phase'[u] = Phase[u] /\ Asked'[u] = Asked[u] /\ Told'[u] = Told[u]
  <2>1. Registers(u) \in RegisterSet
    BY <1>1, Types
  <2>2. /\ Registers(u)'.call = Registers(u).call /\ Registers(u)'.settled = Registers(u).settled
        /\ Registers(u)'.previous = Registers(u).previous /\ Registers(u)'.failed = Registers(u).failed
    BY <2>1 DEF Progresses, RegisterSet
  <2>3. Request(u)' = Request(u) /\ (Calling(u)' <=> Calling(u)) /\ Program(u)' = Program(u)
    BY <1>1, <2>2 DEF Request, Calling, Program
  <2>4. Succeeds(u)' = Succeeds(u) /\ Found(u)' = Found(u)
    BY <2>2, <2>3 DEF Succeeds, Found
  <2> QED
    BY <2>2, <2>3, <2>4 DEF Phase, Asked, Told
<1>4. /\ Phase[t] = (IF r.settled THEN "done" ELSE "called") /\ Phase'[t] = (IF s.settled THEN "done" ELSE "called")
      /\ Asked[t] = Request(t) /\ Asked'[t] = Request(t)
      /\ Told[t] = (IF r.settled THEN Answers(p, r) ELSE Cell!NoAnswer)
  BY <1>1, <1>2, ToldIs DEF Phase, Asked
<1>5. Told'[t] = IF s.settled THEN Answers(p, s) ELSE Cell!NoAnswer
  <2>1. Succeeds(t)' = Tells(p, s)
    BY <1>2 DEF Succeeds, Tells, Request
  <2>2. Found(t)' = Finds(s)
    BY <1>2 DEF Found, Finds, Request
  <2> QED
    BY <1>2, <2>1, <2>2 DEF Told, Answers, Cell!NoAnswer
<1> HIDE DEF p, r, s
<1>6. Asked' = Asked
  BY <1>3, <1>4, Elsewhere
<1>7. CASE Effective(p, cell, cell', r, s)
  <2>1. Phase[t] = "called" /\ Phase'[t] = "done"
    BY <1>4, <1>7 DEF Effective
  <2>2. Told'[t] = Cell!Answer(Asked[t], cell) /\ cell' = Cell!Effect(Asked[t], cell)
    BY <1>2, <1>4, <1>5, <1>7 DEF Effective
  <2> QED
    BY <1>3, <1>6, <2>1, <2>2, Elsewhere, CellTakesEffect
<1>8. CASE cell = cell' /\ Silent(p, r, s)
  <2>1. Phase'[t] = Phase[t] /\ Told'[t] = Told[t]
    BY <1>2, <1>4, <1>5, <1>8 DEF Silent
  <2> QED
    BY <1>3, <1>6, <1>8, <2>1, Elsewhere, CellStutters
<1>9. CASE cell = cell' /\ Spurious(p, r, s)
  <2>1. Phase[t] = "called" /\ Phase'[t] = "done" /\ Asked[t].op = "compareExchangeWeak"
    BY <1>2, <1>4, <1>9 DEF Spurious
  <2>2. Told'[t] = [ok |-> FALSE, found |-> s.previous]
    <3>1. p.matched \in {"always", "status", "compare"}
      <4>1. SoundImplementation(code) /\ Request(t).op \in DOMAIN code.programs
        BY <1>1, CodeSound DEF TypeOK, IInv, Programs, InProgress
      <4> QED
        BY <4>1 DEF SoundImplementation, SoundOperation, SoundProgram, Program, p
    <3>2. Tells(p, s) = FALSE
      BY <1>9, <3>1 DEF Spurious, Tells
    <3>3. Finds(s) = s.previous
      BY <1>2, <1>9 DEF Spurious, Finds
    <3> QED
      BY <1>5, <1>9, <3>2, <3>3 DEF Spurious, Answers
  <2>3. s.previous \in Cell!Values
    BY <1>2, Powers
  <2> QED
    BY <1>3, <1>6, <1>9, <2>1, <2>2, <2>3, Elsewhere, CellFailsSpuriously
<1> QED
  BY <1>1, <1>7, <1>8, <1>9 DEF Moves

LEMMA CallRefines ==
  ASSUME IInv, NEW t \in Threads, NEW r \in Calls, Call(t, r)
  PROVE  Cell!Next
<1>1. TypeOK /\ ~Calling(t) /\ code' = code /\ cell' = cell /\ Registers(t)'.call = r /\ ~Registers(t)'.settled
  BY CallBegins DEF IInv, code
<1>2. r # NoCall
  BY CallsAssumption
<1>3. ASSUME NEW u \in Threads \ {t}
      PROVE  Phase'[u] = Phase[u] /\ Asked'[u] = Asked[u] /\ Told'[u] = Told[u]
  <2>1. Registers(u)' = Registers(u)
    BY <1>1, CallBegins
  <2>2. Request(u)' = Request(u) /\ (Calling(u)' <=> Calling(u)) /\ Program(u)' = Program(u)
    BY <1>1, <2>1 DEF Request, Calling, Program
  <2>3. Succeeds(u)' = Succeeds(u) /\ Found(u)' = Found(u)
    BY <2>1, <2>2 DEF Succeeds, Found
  <2> QED
    BY <2>1, <2>2, <2>3 DEF Phase, Asked, Told
<1>4. Request(t)' = r /\ Calling(t)'
  BY <1>1, <1>2 DEF Request, Calling
<1>5. Phase[t] = "idle" /\ Phase'[t] = "called" /\ Asked'[t] = r /\ Told'[t] = Told[t]
  BY <1>1, <1>4 DEF Phase, Asked, Told
<1> QED
  BY <1>1, <1>3, <1>5, Elsewhere, CellCalls

LEMMA ReturnRefines ==
  ASSUME IInv, NEW t \in Threads, Return(t)
  PROVE  Cell!Next
<1>1. /\ TypeOK /\ Calling(t) /\ ~Running(t) /\ code' = code /\ cell' = cell
      /\ Registers(t)' = NotCalling
  BY ReturnEnds DEF IInv, code
<1>2. Registers(t).settled
  <2> DEFINE n == Length(Program(t))
  <2>1. RegistersOK(Program(t), cell, Registers(t))
    BY <1>1 DEF IInv, Programs, InProgress
  <2>2. Registers(t).pc \in 1 .. n + 1
    BY <2>1 DEF RegistersOK
  <2>3. n \in Nat
    <3>1. SoundImplementation(code) /\ Request(t).op \in DOMAIN code.programs
      BY <1>1, CodeSound DEF TypeOK, IInv, Programs, InProgress
    <3> QED
      BY <3>1 DEF SoundImplementation, SoundOperation, SoundProgram, Program
  <2>4. ~(Registers(t).pc <= n)
    BY <1>1 DEF Running, Length
  <2> HIDE DEF n
  <2>5. Registers(t).pc > n
    BY <2>2, <2>3, <2>4
  <2> QED
    BY <2>1, <2>5 DEF RegistersOK, n
<1>3. ASSUME NEW u \in Threads \ {t}
      PROVE  Phase'[u] = Phase[u] /\ Asked'[u] = Asked[u] /\ Told'[u] = Told[u]
  <2>1. Registers(u)' = Registers(u)
    BY <1>1, ReturnEnds DEF Registers
  <2>2. Request(u)' = Request(u) /\ (Calling(u)' <=> Calling(u)) /\ Program(u)' = Program(u)
    BY <1>1, <2>1 DEF Request, Calling, Program
  <2>3. Succeeds(u)' = Succeeds(u) /\ Found(u)' = Found(u)
    BY <2>1, <2>2 DEF Succeeds, Found
  <2> QED
    BY <2>1, <2>2, <2>3 DEF Phase, Asked, Told
<1>4. Request(t)' = NoCall
  <2>1. NotCalling.call = NoCall
    BY DEF NotCalling
  <2> QED
    BY <1>1, <2>1 DEF Request
<1>5. Phase[t] = "done" /\ Phase'[t] = "idle" /\ Asked'[t] = NoCall /\ Told'[t] = Cell!NoAnswer
  BY <1>1, <1>2, <1>4 DEF Phase, Asked, Told, Calling, Cell!NoAnswer
<1> QED
  BY <1>1, <1>3, <1>5, Elsewhere, CellReturns

LEMMA Refines ==
  ASSUME IInv, [Next]_vars
  PROVE  [Cell!Next]_Cell!vars
<1>1. ASSUME NEW t \in Threads, Runs(t)
      PROVE  [Cell!Next]_Cell!vars
  <2>1. Progresses(t)
    BY <1>1, RunsProgress DEF IInv
  <2> QED
    BY <2>1, ProgressRefines
<1>2. CASE UNCHANGED vars
  <2>1. Phase' = Phase /\ Asked' = Asked /\ Told' = Told
    BY <1>2 DEF vars, Phase, Asked, Told, Calling, Request, Registers, Succeeds, Found, Program, code
  <2> QED
    BY <1>2, <2>1, CellStutters DEF vars
<1>3. CASE Next
  BY <1>1, <1>3, CallRefines, ReturnRefines DEF Next, Runs
<1> QED
  BY <1>2, <1>3

LEMMA RefinesInit ==
  ASSUME Init
  PROVE  Cell!Init
<1>1. IInv
  BY Starting
<1>2. cell \in Cell!Values
  BY <1>1, Powers DEF IInv, TypeOK
<1>3. \A t \in Threads : ~Calling(t) /\ Request(t) = NoCall
  <2>1. NotCalling.call = NoCall
    BY DEF NotCalling
  <2> QED
    BY <2>1 DEF Init, Calling, Request, Registers
<1> QED
  BY <1>2, <1>3 DEF Cell!Init, Cell!NoAnswer

\* Every operation that AtomicCode lists, of each implementation, takes effect at
\* one instant between its call and its return and returns what it found then;
\* only a weak compare-exchange may fail for no reason, and then it changes
\* nothing.  AtomicCode leaves out ARM's weak compare-exchange of 8 and 16 bits,
\* its exchange and weak compare-exchange of 64 bits, and all but the words of 8,
\* 16 and 32 bits in Thumb mode, which has no exchange either.
THEOREM OperationsAreAtomic == Spec => ImplementsCell
<1>1. Init => Cell!Init
  BY RefinesInit
<1>2. IInv /\ [Next]_vars => [Cell!Next]_Cell!vars
  BY Refines
<1> QED
  BY <1>1, <1>2, Invariant, PTL DEF Spec, ImplementsCell, Cell!Spec
=============================================================================
