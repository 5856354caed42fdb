------------------------------ MODULE Numbers ------------------------------
(***************************************************************************)
(* The classes of turf that calculate with machine words: BitField, the    *)
(* Points of the CPUTimers, Util's rounding, and UniqueSequence and        *)
(* TimeWaster, which walk through a prime number of places.  A word has    *)
(* Width bits.                                                             *)
(***************************************************************************)
EXTENDS Integers, FiniteSetsExt

CONSTANTS
    Width,     \* 32 or 64
    Layouts,   \* what bit fields consist of: sets of [offset, bits]
    Prime,     \* of permute: 4294967291 for 32 bits
    Seeds,     \* startIndex, param0 and param1 of sequences
    Slots      \* ArraySize of TimeWaster: 65521

Modulus == 2 ^ Width

Words == 0 .. Modulus - 1

Wrap(x) == x % Modulus

\* The bits of a word, and the bitwise operators of C as what they do to the
\* sets of bits.
Bits(x) == {n \in 0 .. Width - 1 : (x \div 2 ^ n) % 2 = 1}

Word(bits) == SumSet({2 ^ n : n \in bits})

a & b == Word(Bits(a) \cap Bits(b))

a | b == Word(Bits(a) \cup Bits(b))

a ^^ b == Word(SymDiff(Bits(a), Bits(b)))

\* The static assertions of BitField.h, and what Prime and Slots are.
IsPrime(p) == p > 1 /\ \A d \in 2 .. p - 1 : p % d # 0

NumbersAssumption ==
    /\ Width \in Nat \ {0}
    /\ \A layout \in Layouts : \A f \in layout : f.offset + f.bits <= Width /\ f.bits < Width
    /\ Prime <= Modulus /\ IsPrime(Prime) /\ Prime % 4 = 3
    /\ Seeds \subseteq Words
    /\ IsPrime(Slots)

VARIABLES
    class,   \* the class that is used
    value,   \* the members of the object
    told     \* what its user has been told so far

vars == <<class, value, told>>

Begin(kind, object, history) == class = kind /\ value = object /\ told = history

(***************************************************************************)
(* BitField: members and array elements over one word.  A type narrower    *)
(* than int is calculated with as an int, and only stored wrapped.  told   *)
(* holds the number each field should read as.                             *)
(***************************************************************************)
Maximum(f) == 2 ^ f.bits - 1

Mask(f) == Maximum(f) * 2 ^ f.offset

Shifted(v, f) == Wrap(v * 2 ^ f.offset)

Get(word, f) == (word \div 2 ^ f.offset) & Maximum(f)

BitFieldInit ==
    \E layout \in Layouts, word \in Words, narrow \in BOOLEAN :
        Begin("BitField", [word |-> word, narrow |-> narrow], [f \in layout |-> Get(word, f)])

\* Mutant: the old bits are not masked out.
AssignedOver(word, f, v) == word | Shifted(v, f)

Assigned(word, f, v) == (word & (Modulus - 1 - Mask(f))) | Shifted(v, f)

Assign(f, v) ==
    /\ v <= Maximum(f)
    /\ value' = [value EXCEPT !.word = Assigned(@, f, v)]
    /\ told' = [told EXCEPT ![f] = v]

Sum(f, v) == Get(value.word, f) + v

AddTo(f, v) ==
    /\ (IF value.narrow THEN Sum(f, v) ELSE Wrap(Sum(f, v))) <= Maximum(f)
    /\ value' = [value EXCEPT !.word = Wrap(@ + Shifted(v, f))]
    /\ told' = [told EXCEPT ![f] = Wrap(@ + v)]

SubtractFrom(f, v) ==
    /\ Get(value.word, f) >= v
    /\ value' = [value EXCEPT !.word = Wrap(@ - Shifted(v, f))]
    /\ told' = [told EXCEPT ![f] = @ - v]

BitFieldNext ==
    /\ class = "BitField"
    /\ \E f \in DOMAIN told, v \in Words : Assign(f, v) \/ AddTo(f, v) \/ SubtractFrom(f, v)

(***************************************************************************)
(* CPUTimer: a Point is a counter that wraps around.  told is the real     *)
(* time since the first Point; bound: half the range of the counter.       *)
(***************************************************************************)
Half == Modulus \div 2

Signed(x) == IF x >= Half THEN x - Modulus ELSE x

Minus(a, b) == Signed(Wrap(a - b))

\* Mutant: the counters are compared themselves.
BeforeUnwrapped(a, b) == a < b

Before(a, b) == Minus(a, b) < 0

CPUTimerInit ==
    \E point \in Words : Begin("CPUTimer", [start |-> point, now |-> point], 0)

Tick ==
    /\ class = "CPUTimer" /\ told < Half - 1
    /\ value' = [value EXCEPT !.now = Wrap(@ + 1)]
    /\ told' = told + 1

(***************************************************************************)
(* Util: align and roundUpPowerOf2.  told is the operation and what it was *)
(* given.                                                                  *)
(***************************************************************************)
Powers == {2 ^ n : n \in 0 .. Width - 1}

align(v, a) == Wrap(v + a - 1) & (Modulus - 1 - (a - 1))

\* v |= v >> 1, 2, 4 ...: as many halvings as the word has bits.
Smear[v \in Words, shift \in Powers] ==
    IF shift >= Width THEN v
    ELSE Smear[v | (v \div 2 ^ shift), 2 * shift]

roundUpPowerOf2(v) == Wrap(Smear[Wrap(v - 1), 1] + 1)

UtilInit ==
    \E v \in Words :
        \/ Begin("Util", roundUpPowerOf2(v), [call |-> "roundUpPowerOf2", v |-> v, a |-> 1])
        \/ \E a \in Powers : Begin("Util", align(v, a), [call |-> "align", v |-> v, a |-> a])

(***************************************************************************)
(* UniqueSequence.  told is the numbers it has returned and how many calls *)
(* have been made; bound: one for every word.                              *)
(***************************************************************************)
Residue(x) == (x * x) % Prime

\* Mutant: the half is rounded the other way.
permuteOneLess(x) ==
    IF x >= Prime THEN x
    ELSE IF x < Prime \div 2 THEN Residue(x) ELSE Prime - Residue(x)

permute(x) ==
    IF x >= Prime THEN x
    ELSE IF x <= Prime \div 2 THEN Residue(x) ELSE Prime - Residue(x)

UniqueSequenceInit ==
    \E startIndex, param0, param1 \in Seeds :
        Begin("UniqueSequence",
              [curIndex |-> startIndex, param0 |-> param0, param1 |-> param1],
              [numbers |-> {}, calls |-> 0])

next ==
    /\ class = "UniqueSequence" /\ told.calls < Modulus
    /\ LET number == permute(Wrap(permute(value.curIndex) + value.param0) ^^ value.param1)
       IN  told' = [numbers |-> told.numbers \cup {number}, calls |-> told.calls + 1]
    /\ value' = [value EXCEPT !.curIndex = Wrap(@ + 1)]

(***************************************************************************)
(* TimeWaster.  Its table is random; ends are the slots whose value ends   *)
(* the loop, at least one, or it would never end.                          *)
(***************************************************************************)
\* Mutant: next32() % (ArraySize - 1).
StepsFromZero == 0 .. Slots - 2

Steps == 1 .. Slots - 1

TimeWasterInit ==
    \E ends \in SUBSET (0 .. Slots - 1) \ {{}}, pos \in 0 .. Slots - 1, step \in Steps :
        Begin("TimeWaster", [pos |-> pos, step |-> step, busy |-> FALSE],
              [ends |-> ends, rounds |-> 0])

CallWaste ==
    /\ class = "TimeWaster" /\ ~value.busy
    /\ value' = [value EXCEPT !.busy = TRUE]
    /\ told' = [told EXCEPT !.rounds = 0]

\* One round of the loop of wasteRandomCycles.
Waste ==
    /\ class = "TimeWaster" /\ value.busy
    /\ LET sum == value.pos + value.step
       IN  value' = [value EXCEPT !.pos = IF sum >= Slots THEN sum - Slots ELSE sum,
                                  !.busy = value.pos \notin told.ends]
    /\ told' = [told EXCEPT !.rounds = @ + 1]

Init == BitFieldInit \/ CPUTimerInit \/ UtilInit \/ UniqueSequenceInit \/ TimeWasterInit

Next ==
    /\ BitFieldNext \/ Tick \/ next \/ CallWaste \/ Waste
    /\ UNCHANGED class

(***************************************************************************)
(* What the numbers should be.                                             *)
(***************************************************************************)
\* Whatever was assigned, added or subtracted while the assertions held, and
\* in whatever order, every field reads as what was stored in it and no field
\* disturbs its neighbours.
FieldsIndependent == \A f \in DOMAIN told : Get(value.word, f) = told[f]

\* Points are ordered as the instants they were taken at, wrapped or not, and
\* a deadline is reached exactly when the time has passed.
PointsOrdered ==
    /\ Minus(value.now, value.start) = told
    /\ Before(value.start, value.now) <=> told > 0
    /\ \A d \in 0 .. Half - 1 : Before(value.now, Wrap(value.start + d)) <=> told < d

\* The least multiple of a, or power of two, that is not less than v; 0 if
\* there is none in a word, and the power for 0 is 0.
RoundedUp ==
    LET candidates ==
            IF told.call = "align" THEN {w \in Words : w % told.a = 0 /\ w >= told.v}
            ELSE {w \in Powers : w >= told.v /\ told.v > 0}
    IN  IF candidates = {} THEN value = 0
        ELSE value \in candidates /\ \A w \in candidates : value <= w

\* No number is returned twice before every word has been.
NumbersUnique == Cardinality(told.numbers) = told.calls

\* The loop ends, and before it comes to any slot of the table again.
WasteBounded == value.busy => told.rounds < Slots

ArithmeticExact ==
    CASE class = "BitField" -> FieldsIndependent
      [] class = "CPUTimer" -> PointsOrdered
      [] class = "Util" -> RoundedUp
      [] class = "UniqueSequence" -> NumbersUnique
      [] class = "TimeWaster" -> WasteBounded
=============================================================================
