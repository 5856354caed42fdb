----------------------------- MODULE AtomicCode -----------------------------
(***************************************************************************)
(* How turf writes each atomic operation for each processor and compiler:  *)
(* the instruction sequences of src/turf/c/impl/atomic_*, the fences of    *)
(* the wrappers in src/turf/c/atomic.h, and the C++ classes on top.        *)
(*                                                                         *)
(* A program is a sequence of steps <<name>> or <<"retry", to>>.  Module   *)
(* Atomics says what each step does to the cell and to the registers:      *)
(*   previous   what the program last read (r0, eax, the C variable)       *)
(*   desired    what it is about to write                                  *)
(*   failed     the status of strex, or the inverse of the zero flag       *)
(* "matched" tells how the caller learns whether it succeeded.             *)
(***************************************************************************)
EXTENDS Integers, Sequences

Do(name)  == <<name>>
Retry(to) == <<"retry", to>>

Returns(code)        == [code |-> code, matched |-> "always"]
TellsByStatus(code)  == [code |-> code, matched |-> "status"]
TellsByCompare(code) == [code |-> code, matched |-> "compare"]

Load  == Returns(<<Do("read")>>)
Store == Returns(<<Do("write")>>)

Masks      == {"fetchAnd", "fetchOr"}
Arithmetic == Masks \cup {"fetchAdd"}
Operations == {"load", "store", "exchange", "compareExchange", "compareExchangeWeak",
               "compareExchangeStrong", "fetchSub"} \cup Arithmetic

----------------------------------------------------------------------------
(* The wrappers: which fences an operation may need, before and after.     *)

Fenced(op) == CASE op = "load"  -> {"acquire"}
                [] op = "store" -> {"release"}
                [] OTHER        -> {"release", "acquire"}

\* Mutant: exchange without its acquire fence, a line lost in copying.
FencedButExchange(op) == IF op = "exchange" THEN {"release"} ELSE Fenced(op)

\* turf_load8 ... turf_fetchOr8, and the same text for each other width.
Wrapper8(op)  == Fenced(op)
Wrapper16(op) == Fenced(op)
Wrapper32(op) == Fenced(op)
Wrapper64(op) == Fenced(op)

\* An implementation of some operations: their programs, their wrappers, and
\* which of its fences order memory.  A cell of it may start with any of size
\* values.
Implementation(ops, Program(_), Wrapper(_), fences) ==
    [programs |-> [op \in ops |-> Program(op)],
     fences   |-> [op \in ops |-> Wrapper(op) \cap fences],
     starts   |-> 0 .. 3,
     size     |-> 4]

----------------------------------------------------------------------------
(* GCC for ARM.                                                            *)

ArmFences      == {"acquire", "release", "seqCst"}
ArmThumbFences == {"acquire", "release", "seqCst"}

\* Mutant: the status register is set by strex only, as for 8 and 16 bits.
LdrexWeakNoStatus == TellsByStatus(<<Do("ldrex"), Do("leaveUnlessExpected"), Do("strex")>>)

\* Load exclusive, work, store exclusive, again if the store failed.
LdrexCas      == Returns(<<Do("ldrex"), Do("leaveUnlessExpected"), Do("strex"), Retry(1)>>)
LdrexExchange == Returns(<<Do("ldrex"), Do("strex"), Retry(1)>>)
LdrexFetch    == Returns(<<Do("ldrex"), Do("combine"), Do("strex"), Retry(1)>>)
LdrexWeak     == TellsByStatus(<<Do("setFailed"), Do("ldrex"), Do("leaveUnlessExpected"), Do("strex")>>)

LdrexLoops(op) ==
    CASE op = "load"                -> Load
      [] op = "store"               -> Store
      [] op = "exchange"            -> LdrexExchange
      [] op = "compareExchange"     -> LdrexCas
      [] op = "compareExchangeWeak" -> LdrexWeak
      [] op \in Arithmetic          -> LdrexFetch

LdrexOps == {"load", "store", "compareExchange"} \cup Arithmetic

\* The weak compare-exchange of 8 and 16 bits is left out: it compares with
\* the address of expected, and reads a status that no instruction has set.
Arm8  == Implementation(LdrexOps \cup {"exchange"}, LdrexLoops, Wrapper8, ArmFences)
Arm16 == Implementation(LdrexOps \cup {"exchange"}, LdrexLoops, Wrapper16, ArmFences)
Arm32 == Implementation(LdrexOps \cup {"exchange", "compareExchangeWeak"}, LdrexLoops, Wrapper32, ArmFences)

\* ARMv6 in Thumb mode calls functions; exchange has none.
Thumb8  == Implementation(LdrexOps, LdrexLoops, Wrapper8, ArmThumbFences)
Thumb16 == Implementation(LdrexOps, LdrexLoops, Wrapper16, ArmThumbFences)
Thumb32 == Implementation(LdrexOps, LdrexLoops, Wrapper32, ArmThumbFences)

\* 64 bits need ldrexd and strexd even to load and to store.
Ldrexd64     == Returns(<<Do("ldrex"), Do("keep"), Do("strex"), Retry(1)>>)
Store64      == Returns(<<Do("ldrex"), Do("strex"), Retry(1)>>)
LdrexdCas64  == Returns(<<Do("ldrex"), Do("leaveUnlessExpected"), Do("strex"), Retry(1)>>)
LdrexdAdd64  == Returns(<<Do("ldrex"), Do("adds"), Do("adc"), Do("strex"), Retry(1)>>)
LdrexdMask64 == Returns(<<Do("ldrex"), Do("combine"), Do("strex"), Retry(1)>>)

LdrexdLoops(op) ==
    CASE op = "load"            -> Ldrexd64
      [] op = "store"           -> Store64
      [] op = "compareExchange" -> LdrexdCas64
      [] op = "fetchAdd"        -> LdrexdAdd64
      [] op \in Masks           -> LdrexdMask64

\* exchange and the weak compare-exchange are left out: the first is marked
\* FIXME and is a copy of compareExchange, the second is commented out.
Arm64 == Implementation(LdrexOps, LdrexdLoops, Wrapper64, ArmFences)

----------------------------------------------------------------------------
(* GCC for x86 and x64.                                                    *)

X86Fences == {"acquire", "release", "seqCst"}

\* cmpxchg compares with eax, where the caller's expected is put.
LockedCas     == Returns(<<Do("expect"), Do("cmpxchg")>>)
LockedWeak    == TellsByCompare(<<Do("expect"), Do("cmpxchg")>>)
Xchg          == Returns(<<Do("xchg")>>)
Xadd          == Returns(<<Do("xadd")>>)
CmpxchgLoop   == Returns(<<Do("read"), Do("combine"), Do("cmpxchg"), Retry(1)>>)

LockedWords(op) ==
    CASE op = "load"                -> Load
      [] op = "store"               -> Store
      [] op = "exchange"            -> Xchg
      [] op = "compareExchange"     -> LockedCas
      [] op = "compareExchangeWeak" -> LockedWeak
      [] op = "fetchAdd"            -> Xadd
      [] op \in Masks               -> CmpxchgLoop

CommonOps == {"load", "store", "exchange", "compareExchange", "compareExchangeWeak"} \cup Arithmetic

GccX86_8  == Implementation(CommonOps, LockedWords, Wrapper8, X86Fences)
GccX86_16 == Implementation(CommonOps, LockedWords, Wrapper16, X86Fences)
GccX86_32 == Implementation(CommonOps, LockedWords, Wrapper32, X86Fences)
GccX64_64 == Implementation(CommonOps, LockedWords, Wrapper64, X86Fences)

\* On a 32-bit processor a C read of 64 bits is two reads; only cmpxchg8b
\* sees both words at once.  Without a lock prefix its compare and its write
\* are two steps.
DummyCas     == Returns(<<Do("any"), Do("keep"), Do("cmpxchg")>>)
Store8b      == Returns(<<Do("readLow"), Do("readHigh"), Do("compare8b"), Do("write8b"), Retry(3)>>)
Exchange8b   == Returns(<<Do("readLow"), Do("readHigh"), Do("cmpxchg"), Retry(3)>>)
RereadLoop8b == Returns(<<Do("readLow"), Do("readHigh"), Do("combine"), Do("cmpxchg"), Retry(1)>>)

Words8b(op) ==
    CASE op = "load"                -> DummyCas
      [] op = "store"               -> Store8b
      [] op = "exchange"            -> Exchange8b
      [] op = "compareExchange"     -> LockedCas
      [] op = "compareExchangeWeak" -> LockedWeak
      [] op \in Arithmetic          -> RereadLoop8b

GccX86_64 == Implementation(CommonOps, Words8b, Wrapper64, X86Fences)

----------------------------------------------------------------------------
(* MSVC: the compiler's Interlocked functions.                             *)

MsvcFences == {"acquire", "release", "seqCst"}

Interlocked(op) == IF op \in Masks THEN Xadd ELSE LockedWords(op)

Msvc8  == Implementation(CommonOps, Interlocked, Wrapper8, MsvcFences)
Msvc16 == Implementation(CommonOps, Interlocked, Wrapper16, MsvcFences)
Msvc32 == Implementation(CommonOps, Interlocked, Wrapper32, MsvcFences)
MsvcX64_64 == Implementation(CommonOps, Interlocked, Wrapper64, MsvcFences)

\* The store starts from whatever edx:eax holds; the loops go on from the
\* value the failed exchange returned.
BlindStore8b   == Returns(<<Do("any"), Do("compare8b"), Do("write8b"), Retry(2)>>)
ContinueLoop8b == Returns(<<Do("readLow"), Do("readHigh"), Do("combine"), Do("cmpxchg"), Retry(3)>>)

MsvcWords8b(op) ==
    CASE op = "store"         -> BlindStore8b
      [] op \in Arithmetic    -> ContinueLoop8b
      [] OTHER                -> Words8b(op)

MsvcX86_64 == Implementation(CommonOps, MsvcWords8b, Wrapper64, MsvcFences)

----------------------------------------------------------------------------
(* The C++ classes.                                                        *)

\* Operation op of the class, made from operation from of implementation c.
With(f, op, x) == [o \in DOMAIN f \cup {op} |-> IF o = op THEN x ELSE f[o]]

Adding(c, op, from, program) ==
    [c EXCEPT !.programs = With(@, op, program), !.fences = With(@, op, c.fences[from])]

\* compareExchangeStrong compares what compareExchange returned.
WithStrong(c) ==
    Adding(c, "compareExchangeStrong", "compareExchange",
           TellsByCompare(c.programs["compareExchange"].code))

\* fetchSub adds the negated operand.
WithSub(c) == Adding(c, "fetchSub", "fetchAdd", c.programs["fetchAdd"])

NativeInteger(c) == WithSub(WithStrong(c))

\* A bool is a byte that is 0 or 1; it has no arithmetic.
NativeBool ==
    LET c == WithStrong(GccX86_8)
        programs == [op \in DOMAIN c.programs \ Arithmetic |-> c.programs[op]]
    IN  [c EXCEPT !.programs = programs, !.starts = 0 .. 1, !.size = 2]

\* A pointer uses the operations of its size, 4 bytes or 8.
NativePointer(c) == WithStrong(c)
Pointer4 == NativePointer(GccX86_32)
Pointer8 == NativePointer(GccX64_64)

\* std::atomic and boost::atomic: one step each, ordered by the order given.
\* Only their weak compare-exchange may fail for no reason.
StandardWeak == TellsByStatus(<<Do("expect"), Do("cmpxchgWeak")>>)

Standard(op) ==
    CASE op = "compareExchangeWeak"             -> StandardWeak
      [] op = "compareExchangeStrong"           -> LockedWeak
      [] op \in {"fetchSub"} \cup Arithmetic    -> Xadd
      [] OTHER                                  -> LockedWords(op)

Cpp11 == Implementation(CommonOps \cup {"fetchSub", "compareExchangeStrong"}, Standard, Fenced,
                        {"acquire", "release"})

\* The constructor passes 0 to boost::atomic whatever it is given, so that
\* only a cell constructed with 0 starts as its owner expects.
Boost == [Cpp11 EXCEPT !.starts = {0}]

Implementations ==
    [arm8 |-> Arm8, arm16 |-> Arm16, arm32 |-> Arm32,
     thumb8 |-> Thumb8, thumb16 |-> Thumb16, thumb32 |-> Thumb32, arm64 |-> Arm64,
     gccX86_8 |-> GccX86_8, gccX86_16 |-> GccX86_16, gccX86_32 |-> GccX86_32,
     gccX64_64 |-> GccX64_64, gccX86_64 |-> GccX86_64,
     msvc8 |-> Msvc8, msvc16 |-> Msvc16, msvc32 |-> Msvc32,
     msvcX64_64 |-> MsvcX64_64, msvcX86_64 |-> MsvcX86_64,
     bool |-> NativeBool, pointer4 |-> Pointer4, pointer8 |-> Pointer8,
     integer |-> NativeInteger(GccX86_64), cpp11 |-> Cpp11, boost |-> Boost]

\* One name for those that are made of the same instructions.
Distinct == {CHOOSE n \in DOMAIN Implementations : Implementations[n] = Implementations[m] :
                 m \in DOMAIN Implementations}
=============================================================================
