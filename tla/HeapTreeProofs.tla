--------------------------- MODULE HeapTreeProofs ---------------------------
(***************************************************************************)
(* Theorems about the tree bins, for any chunks, sizes, numbers of bins    *)
(* and width of sizes.                                                     *)
(***************************************************************************)
EXTENDS HeapTree, FiniteSetTheorems, WellFoundedInduction, TLAPS

----------------------------------------------------------------------------
(* Induction, and what the recursive functions of the model are.           *)

LEMMA Least ==
  ASSUME NEW T \in SUBSET Nat, T # {}
  PROVE  \E x \in T : \A y \in T : x <= y
<1> DEFINE R == {ss \in Nat \X Nat : ss[1] < ss[2]}
<1>1. OpToRel(<, Nat) = R
  BY DEF OpToRel
<1>2. IsWellFoundedOn(R, Nat)
  BY <1>1, NatLessThanWellFounded
<1>3. \E x \in T : \A y \in T : <<y, x>> \notin R
  <2> HIDE DEF R
  <2> QED
    BY <1>2, WFMin
<1>4. PICK x \in T : \A y \in T : <<y, x>> \notin R
  BY <1>3
<1>5. \A y \in T : ~(y < x)
  BY <1>4
<1>6. \A y \in T : x <= y
  BY <1>5
<1> HIDE DEF R
<1> QED
  BY <1>6

LEMMA Greatest ==
  ASSUME NEW n \in Nat, NEW T \in SUBSET (0 .. n), T # {}
  PROVE  \E x \in T : \A y \in T : y <= x
<1> DEFINE R == {k \in 0 .. n : n - k \in T}
<1>1. R # {}
  <2>1. PICK x \in T : TRUE
    OBVIOUS
  <2>2. n - x \in 0 .. n /\ n - (n - x) = x
    OBVIOUS
  <2>3. n - x \in R
    BY <2>2
  <2> QED
    BY <2>3
<1>2. PICK k \in R : \A j \in R : k <= j
  <2>1. R \in SUBSET Nat
    OBVIOUS
  <2> HIDE DEF R
  <2> QED
    BY <1>1, <2>1, Least
<1>3. n - k \in T
  OBVIOUS
<1>4. ASSUME NEW y \in T PROVE y <= n - k
  <2>1. n - y \in 0 .. n /\ n - (n - y) = y
    OBVIOUS
  <2>2. n - y \in R
    BY <2>1
  <2>3. k <= n - y
    BY <1>2, <2>2
  <2> QED
    BY <2>3
<1> QED
  BY <1>3, <1>4

\* What holds at the first place of a range, and at the next one wherever it
\* holds, holds at all.
LEMMA Along ==
  ASSUME NEW m \in Nat, NEW n \in Nat, NEW T,
         m <= n => m \in T, \A d \in m .. n : d \in T /\ d + 1 <= n => d + 1 \in T
  PROVE  \A d \in m .. n : d \in T
<1> DEFINE R == {d \in m .. n : d \notin T}
<1> SUFFICES ASSUME R # {} PROVE FALSE
  OBVIOUS
<1>1. PICK x \in R : \A y \in R : x <= y
  <2>1. R \in SUBSET Nat
    OBVIOUS
  <2> HIDE DEF R
  <2> QED
    BY <2>1, Least
<1>2. x # m
  OBVIOUS
<1>3. x - 1 \in m .. n /\ x - 1 \in T /\ (x - 1) + 1 = x
  <2>1. x - 1 \in m .. n
    BY <1>2
  <2>2. x - 1 \notin R
    BY <1>1
  <2> QED
    BY <2>1, <2>2
<1> QED
  BY <1>1, <1>3

\* f has a value for each place of a range: z at the first, and then what g
\* makes of the value before it.
Iterates(f, m, n, z, g) ==
    \A d \in m .. n : f[d] = IF d = m THEN z ELSE g[f[d - 1]][d]

LEMMA Iteration ==
  ASSUME NEW X, NEW z \in X, NEW m \in Nat, NEW g \in [X -> [Nat -> X]], NEW n \in Nat
  PROVE  \E f \in [m .. n -> X] : Iterates(f, m, n, z, g)
<1> DEFINE Is(k) == \E f \in [m .. k -> X] : Iterates(f, m, k, z, g)
           T == {k \in Nat : Is(k)}
<1>1. 0 \in T
  <2> DEFINE f == [d \in m .. 0 |-> z]
  <2>1. \A d \in m .. 0 : d = m
    OBVIOUS
  <2>2. f \in [m .. 0 -> X] /\ Iterates(f, m, 0, z, g)
    BY <2>1 DEF Iterates
  <2>3. Is(0)
    BY <2>2
  <2> HIDE DEF Is
  <2> QED
    BY <2>3
<1>2. ASSUME NEW k \in Nat, NEW f \in [m .. k -> X], Iterates(f, m, k, z, g)
      PROVE  \E h \in [m .. k + 1 -> X] : Iterates(h, m, k + 1, z, g)
  <2> DEFINE h == [d \in m .. k + 1 |-> IF d = m THEN z ELSE IF d <= k THEN f[d] ELSE g[f[k]][d]]
  <2>1. \A d \in m .. k : f[d] = IF d = m THEN z ELSE g[f[d - 1]][d]
    BY <1>2 DEF Iterates
  <2>2. ASSUME NEW d \in m .. k + 1
        PROVE  h[d] \in X /\ h[d] = IF d = m THEN z ELSE g[h[d - 1]][d]
    <3>1. CASE d = m
      BY <3>1
    <3>2. CASE d # m /\ d <= k
      <4>1. d \in m .. k /\ d - 1 \in m .. k /\ d - 1 <= k /\ d - 1 \in m .. k + 1
        BY <3>2
      <4>2. h[d] = f[d] /\ h[d - 1] = f[d - 1]
        <5>1. h[d] = f[d]
          BY <3>2
        <5>2. CASE d - 1 = m
          BY <2>1, <4>1, <5>1, <5>2
        <5>3. CASE d - 1 # m
          BY <4>1, <5>1, <5>3
        <5> QED
          BY <5>2, <5>3
      <4> QED
        BY <2>1, <3>2, <4>1, <4>2
    <3>3. CASE d # m /\ d > k
      <4>1. d = k + 1 /\ k \in m .. k /\ d - 1 = k /\ k \in m .. k + 1
        BY <3>3
      <4>2. h[k] = f[k]
        <5>1. CASE k = m
          BY <2>1, <4>1, <5>1
        <5>2. CASE k # m
          BY <4>1, <5>2
        <5> QED
          BY <5>1, <5>2
      <4>3. f[k] \in X /\ g[f[k]][d] \in X
        BY <2>1, <4>1
      <4>4. h[d] = g[f[k]][d]
        BY <3>3
      <4> QED
        BY <3>3, <4>1, <4>2, <4>3, <4>4
    <3> QED
      BY <3>1, <3>2, <3>3
  <2> HIDE DEF h
  <2>3. h = [d \in m .. k + 1 |-> h[d]]
    BY DEF h
  <2>4. h \in [m .. k + 1 -> X] /\ Iterates(h, m, k + 1, z, g)
    BY <2>2, <2>3 DEF Iterates
  <2> QED
    BY <2>4
<1>3. ASSUME NEW k \in Nat, k \in T PROVE k + 1 \in T
  <2>1. Is(k)
    <3> HIDE DEF Is
    <3> QED
      BY <1>3
  <2>2. Is(k + 1)
    BY <1>2, <2>1
  <2> HIDE DEF Is
  <2> QED
    BY <2>2
<1>4. \A k \in 0 .. n : k \in T
  <2> HIDE DEF T
  <2>1. 0 <= n /\ 0 \in Nat /\ \A d \in 0 .. n : d \in T /\ d + 1 <= n => d + 1 \in T
    BY <1>3
  <2> QED
    BY ONLY n \in Nat, <1>1, <2>1, Along
<1>5. Is(n)
  <2> HIDE DEF Is
  <2> QED
    BY <1>4
<1> QED
  BY <1>5

----------------------------------------------------------------------------
(* Sizes and their bits.                                                   *)

LEMMA RowsApart ==
  ASSUME NEW i \in Int, NEW j \in Int, NEW w \in Nat, i < j
  PROVE  /\ i * w \in Int /\ j * w \in Int /\ (i + 1) * w \in Int
         /\ i * w + w <= j * w /\ (i + 1) * w = i * w + w
<1>1. (i + 1) * w = i * w + w /\ i * w \in Int /\ j * w \in Int
  OBVIOUS
<1>2. j - (i + 1) \in Nat
  OBVIOUS
<1>3. (j - (i + 1)) * w \in Nat
  BY <1>2
<1>4. (j - (i + 1)) * w = j * w - (i + 1) * w
  OBVIOUS
<1> QED
  BY <1>1, <1>3, <1>4

LEMMA CellsApart ==
  ASSUME NEW i \in Int, NEW j \in Int, NEW w \in Nat, NEW a \in 1 .. w, NEW b \in 1 .. w,
         (i - 1) * w + a = (j - 1) * w + b
  PROVE  i = j /\ a = b
<1>1. (i - 1) * w \in Int /\ (j - 1) * w \in Int
  OBVIOUS
<1>2. ~(i < j)
  <2> SUFFICES ASSUME i < j PROVE FALSE
    OBVIOUS
  <2>1. (i - 1) * w + w <= (j - 1) * w
    BY RowsApart
  <2> QED
    BY <1>1, <2>1
<1>3. ~(j < i)
  <2> SUFFICES ASSUME j < i PROVE FALSE
    OBVIOUS
  <2>1. (j - 1) * w + w <= (i - 1) * w
    BY RowsApart
  <2> QED
    BY <1>1, <2>1
<1>4. i = j
  BY <1>2, <1>3
<1> QED
  BY <1>1, <1>4

LEMMA RowAndCell ==
  ASSUME NEW a \in Nat, NEW b \in Nat \ {0}, NEW r \in 0 .. b - 1
  PROVE  (a * b + r) \div b = a /\ (a * b + r) % b = r
<1> DEFINE x == a * b + r
           q == x \div b
           y == x % b
<1>1. x \in Nat
  OBVIOUS
<1>2. x = b * q + y /\ q \in Int /\ y \in 0 .. b - 1
  <2> HIDE DEF x
  <2> QED
    BY <1>1
<1>3. q + 1 \in Int /\ b \in Nat /\ a + 1 \in Int /\ y + 1 \in 1 .. b /\ r + 1 \in 1 .. b
  BY <1>2
<1>4. ((q + 1) - 1) * b + (y + 1) = ((a + 1) - 1) * b + (r + 1)
  <2>1. (q + 1) - 1 = q /\ (a + 1) - 1 = a /\ q * b = b * q
    BY <1>2
  <2>2. q * b + y = a * b + r /\ q * b \in Int /\ a * b \in Int
    BY <1>2, <2>1
  <2> HIDE DEF q, y, x
  <2> QED
    BY <1>2, <2>1, <2>2
<1> HIDE DEF q, y, x
<1>5. q + 1 = a + 1 /\ y + 1 = r + 1
  <2> DEFINE i == q + 1
             j == a + 1
             c == y + 1
             d == r + 1
  <2>1. i \in Int /\ j \in Int /\ b \in Nat /\ c \in 1 .. b /\ d \in 1 .. b
        /\ (i - 1) * b + c = (j - 1) * b + d
    BY <1>3, <1>4
  <2> HIDE DEF i, j, c, d
  <2>2. i = j /\ c = d
    BY <2>1, CellsApart
  <2> QED
    BY <2>2 DEF i, j, c, d
<1> QED
  BY <1>2, <1>5 DEF q, y, x

LEMMA Divided ==
  ASSUME NEW a \in Nat, NEW p \in Nat \ {0}
  PROVE  /\ a \div p \in Nat /\ a % p \in 0 .. p - 1
         /\ a = (a \div p) * p + (a % p) /\ (a \div p) * p \in Nat
<1> DEFINE q == a \div p
           r == a % p
<1>1. a = p * q + r /\ q \in Int /\ r \in 0 .. p - 1
  OBVIOUS
<1> HIDE DEF q, r
<1>2. q \in Nat
  <2> SUFFICES ASSUME q < 0 PROVE FALSE
    BY <1>1
  <2>1. q * p + p <= 0 * p
    BY <1>1, RowsApart
  <2> QED
    BY <1>1, <2>1
<1>3. q * p \in Nat /\ p * q = q * p
  BY <1>2
<1>4. a = q * p + r
  BY <1>1, <1>3
<1> QED
  BY <1>1, <1>2, <1>3, <1>4 DEF q, r

LEMMA Quotients ==
  ASSUME NEW a \in Nat, NEW p \in Nat \ {0}, NEW q \in Nat \ {0}
  PROVE  (a \div p) \div q = a \div (p * q)
<1> DEFINE x == a \div p
           r == a % p
           y == x \div q
           t == x % q
<1>1. x \in Nat /\ r \in 0 .. p - 1 /\ a = x * p + r
  BY Divided
<1> HIDE DEF x, r
<1>2. y \in Nat /\ t \in 0 .. q - 1 /\ x = y * q + t
  BY <1>1, Divided
<1> HIDE DEF y, t
<1>3. p * q \in Nat \ {0} /\ t * p + r \in 0 .. p * q - 1
  <2>1. p * q \in Nat /\ t * p \in Nat /\ t * p + p <= q * p /\ q * p = p * q
    BY <1>1, <1>2, RowsApart
  <2> QED
    BY <1>1, <2>1
<1>4. a = y * (p * q) + (t * p + r)
  <2>1. x * p = (y * q + t) * p
    BY <1>2
  <2>2. (y * q + t) * p = y * (p * q) + t * p
    BY <1>2
  <2> QED
    BY <1>1, <1>2, <2>1, <2>2
<1>5. a \div (p * q) = y
  <2> DEFINE w == p * q
             c == t * p + r
  <2>1. w \in Nat \ {0} /\ c \in 0 .. w - 1 /\ a = y * w + c
    BY <1>3, <1>4
  <2> HIDE DEF w, c
  <2>2. a \div w = y
    BY <1>2, <2>1, RowAndCell
  <2> QED
    BY <2>2 DEF w
<1> QED
  BY <1>5 DEF x, y

LEMMA QuotientOrder ==
  ASSUME NEW a \in Nat, NEW b \in Nat, NEW p \in Nat \ {0}, a <= b
  PROVE  a \div p <= b \div p
<1> DEFINE x == a \div p
           y == b \div p
           r == a % p
           t == b % p
<1>1. x \in Nat /\ r \in 0 .. p - 1 /\ a = x * p + r
  BY Divided
<1>2. y \in Nat /\ t \in 0 .. p - 1 /\ b = y * p + t
  BY Divided
<1> HIDE DEF x, y, r, t
<1>3. ~(y < x)
  <2> SUFFICES ASSUME y < x PROVE FALSE
    OBVIOUS
  <2>1. y * p + p <= x * p /\ y * p \in Int /\ x * p \in Int
    BY <1>1, <1>2, RowsApart
  <2> QED
    BY <1>1, <1>2, <2>1
<1>4. x <= y
  BY <1>1, <1>2, <1>3
<1> QED
  BY <1>4 DEF x, y

LEMMA Widths ==
  /\ Shift \in Nat /\ Shift >= 2 /\ Bits \in Nat /\ NTreeBins \in Nat /\ NTreeBins >= 2
  /\ NTreeBins \div 2 \in Nat \ {0} /\ NTreeBins = 2 * (NTreeBins \div 2) /\ NTreeBins \div 2 + Shift <= Bits
  /\ IndexBits \in 0 .. Bits
BY WidthAssumption

LEMMA TwoIs == Two = [k \in 0 .. Bits + 1 |-> IF k = 0 THEN 1 ELSE 2 * Two[k - 1]]
<1> DEFINE g == [x \in Nat |-> [k \in Nat |-> 2 * x]]
           n == Bits + 1
<1>1. g \in [Nat -> [Nat -> Nat]] /\ n \in Nat /\ 1 \in Nat /\ 0 \in Nat
  BY Widths
<1>2. PICK f \in [0 .. n -> Nat] : Iterates(f, 0, n, 1, g)
  <2> HIDE DEF g, n
  <2> QED
    BY <1>1, Iteration
<1>3. ASSUME NEW k \in 0 .. n PROVE f[k] = IF k = 0 THEN 1 ELSE 2 * f[k - 1]
  <2>1. f[k] = IF k = 0 THEN 1 ELSE g[f[k - 1]][k]
    BY <1>2 DEF Iterates
  <2>2. k # 0 => f[k - 1] \in Nat /\ k \in Nat
    BY <1>1
  <2> QED
    BY <2>1, <2>2
<1>4. f = [k \in 0 .. Bits + 1 |-> IF k = 0 THEN 1 ELSE 2 * f[k - 1]]
  BY <1>3
<1> QED
  BY <1>4 DEF Two

LEMMA Twos ==
  /\ Two[0] = 1
  /\ \A k \in 0 .. Bits + 1 : Two[k] \in Nat \ {0}
  /\ \A k \in 0 .. Bits : Two[k + 1] = 2 * Two[k]
<1>1. Bits \in Nat
  BY Widths
<1>2. \A k \in 0 .. Bits + 1 : Two[k] = IF k = 0 THEN 1 ELSE 2 * Two[k - 1]
  BY TwoIs
<1>3. Two[0] = 1
  BY <1>1, <1>2
<1>4. ASSUME NEW k \in 0 .. Bits PROVE Two[k + 1] = 2 * Two[k]
  <2>1. k + 1 \in 0 .. Bits + 1 /\ k + 1 # 0 /\ (k + 1) - 1 = k
    BY <1>1
  <2> QED
    BY <1>2, <2>1
<1> DEFINE T == {k \in 0 .. Bits + 1 : Two[k] \in Nat \ {0}}
<1>5. \A k \in 0 .. Bits + 1 : k \in T
  <2>1. 0 \in T /\ Bits + 1 \in Nat
    BY <1>1, <1>3
  <2>2. \A k \in 0 .. Bits + 1 : k \in T /\ k + 1 <= Bits + 1 => k + 1 \in T
    <3> SUFFICES ASSUME NEW k \in 0 .. Bits + 1, Two[k] \in Nat \ {0}, k + 1 <= Bits + 1 PROVE k + 1 \in T
      OBVIOUS
    <3>1. k \in 0 .. Bits /\ k + 1 \in 0 .. Bits + 1
      BY <1>1
    <3>2. Two[k + 1] = 2 * Two[k]
      BY <1>4, <3>1
    <3> QED
      BY <3>1, <3>2
  <2> HIDE DEF T
  <2> QED
    BY <2>1, <2>2, Along
<1> QED
  BY <1>3, <1>4, <1>5

LEMMA TwoSums ==
  ASSUME NEW j \in Nat, NEW k \in Nat, j + k <= Bits + 1
  PROVE  Two[j + k] = Two[j] * Two[k] /\ Two[j] <= Two[j + k]
<1>1. Bits \in Nat /\ j \in 0 .. Bits + 1 /\ Two[j] \in Nat \ {0}
  BY Widths, Twos
<1> DEFINE T == {i \in 0 .. k : Two[j + i] = Two[j] * Two[i] /\ Two[j] <= Two[j + i]}
<1>2. 0 \in T
  BY <1>1, Twos
<1>3. \A i \in 0 .. k : i \in T /\ i + 1 <= k => i + 1 \in T
  <2> SUFFICES ASSUME NEW i \in 0 .. k, Two[j + i] = Two[j] * Two[i], Two[j] <= Two[j + i], i + 1 <= k
               PROVE  i + 1 \in T
    OBVIOUS
  <2>1. i \in 0 .. Bits /\ j + i \in 0 .. Bits /\ j + (i + 1) = (j + i) + 1 /\ i + 1 \in 0 .. k
    BY <1>1
  <2>2. Two[(j + i) + 1] = 2 * Two[j + i] /\ Two[i + 1] = 2 * Two[i]
    BY <2>1, Twos
  <2>3. Two[i] \in Nat /\ Two[j + i] \in Nat
    BY <1>1, <2>1, Twos
  <2>4. Two[j] * (2 * Two[i]) = 2 * (Two[j] * Two[i])
    BY <1>1, <2>3
  <2>5. Two[j] <= 2 * Two[j + i]
    BY <1>1, <2>3
  <2> QED
    BY <2>1, <2>2, <2>4, <2>5
<1>4. k \in T
  <2> HIDE DEF T
  <2>1. \A i \in 0 .. k : i \in T
    BY <1>2, <1>3, Along
  <2> QED
    BY <2>1
<1> QED
  BY <1>4

LEMMA TwoOrder ==
  ASSUME NEW j \in 0 .. Bits + 1, NEW k \in 0 .. Bits + 1
  PROVE  j <= k => Two[j] <= Two[k]
<1> SUFFICES ASSUME j <= k PROVE Two[j] <= Two[k]
  OBVIOUS
<1>1. k - j \in Nat /\ j \in Nat /\ j + (k - j) = k /\ j + (k - j) <= Bits + 1
  BY Widths
<1>2. Two[j] <= Two[j + (k - j)]
  BY <1>1, TwoSums
<1> QED
  BY <1>1, <1>2

LEMMA Halved ==
  ASSUME NEW a \in Nat, NEW k \in 0 .. Bits
  PROVE  /\ a \div Two[k] \in Nat /\ a \div Two[k + 1] \in Nat /\ bit(a, k) \in 0 .. 1
         /\ a \div Two[k] = 2 * (a \div Two[k + 1]) + bit(a, k)
<1>1. k + 1 \in 0 .. Bits + 1 /\ k \in 0 .. Bits + 1
  BY Widths
<1>2. Two[k] \in Nat \ {0} /\ Two[k + 1] \in Nat \ {0} /\ Two[k + 1] = 2 * Two[k]
  BY <1>1, Twos
<1> DEFINE x == a \div Two[k]
<1>3. x \in Nat /\ a \div Two[k + 1] \in Nat
  BY <1>2, Divided
<1>4. x \div 2 = a \div (Two[k] * 2)
  BY <1>2, Quotients
<1>5. Two[k] * 2 = Two[k + 1]
  BY <1>2
<1> HIDE DEF x
<1>6. x = 2 * (x \div 2) + (x % 2) /\ x % 2 \in 0 .. 1
  <2>1. x \div 2 \in Nat /\ x % 2 \in 0 .. 2 - 1 /\ x = (x \div 2) * 2 + (x % 2)
    BY <1>3, Divided
  <2> QED
    BY <2>1
<1> QED
  BY <1>3, <1>4, <1>5, <1>6 DEF x, bit

\* The highest bit of a size is where it is taken to be.
LEMMA HighBits ==
  ASSUME NEW x \in Nat \ {0}, x < Two[Bits]
  PROVE  HighBit(x) \in 0 .. Bits /\ Two[HighBit(x)] <= x /\ x < Two[HighBit(x) + 1]
<1>1. Bits \in Nat /\ Two[0] = 1
  BY Widths, Twos
<1> DEFINE R == {k \in 0 .. Bits : Two[k] <= x}
<1>2. PICK k \in R : \A j \in R : j <= k
  <2>1. 0 \in R /\ R \in SUBSET (0 .. Bits)
    BY <1>1
  <2> HIDE DEF R
  <2> QED
    BY <1>1, <2>1, Greatest
<1>3. k \in 0 .. Bits /\ Two[k] <= x /\ k + 1 \in 0 .. Bits + 1 /\ Two[k + 1] \in Nat /\ Two[k] \in Nat
  BY <1>1, Twos
<1>4. x < Two[k + 1]
  <2> SUFFICES ASSUME Two[k + 1] <= x PROVE FALSE
    BY <1>3
  <2>1. k # Bits
    <3> SUFFICES ASSUME k = Bits PROVE FALSE
      OBVIOUS
    <3>1. Two[Bits] <= x
      BY <1>3
    <3> QED
      BY <1>1, <3>1, Twos
  <2>2. k + 1 \in R
    BY <1>1, <1>3, <2>1
  <2> QED
    BY <1>2, <1>3, <2>2
<1> QED
  BY <1>3, <1>4 DEF HighBit

LEMMA LargeSizesAre ==
  /\ \A s \in LargeSizes : s \in Nat \ {0} /\ Two[Shift] <= s /\ s < Two[Bits]
  /\ \A s \in Indexable : s \in LargeSizes /\ s \in Nat \ {0} /\ Two[Shift] <= s /\ s < Two[Bits]
<1>1. Shift \in 0 .. Bits + 1 /\ Bits \in 0 .. Bits + 1
  BY Widths
<1>2. Two[Shift] \in Nat \ {0} /\ Two[Bits] \in Nat \ {0}
  BY <1>1, Twos
<1> QED
  BY <1>2 DEF Indexable, LargeSizes, MinLarge

\* The two ways to find a bin: by the size alone, or by the highest bit and the
\* bit below it.
LEMMA Indexed ==
  ASSUME NEW s \in Indexable
  PROVE  /\ s \div MinLarge \in Nat /\ Two[NTreeBins \div 2] \in Nat
         /\ s \div MinLarge >= Two[NTreeBins \div 2] => compute_tree_index(s) = NTreeBins - 1
         /\ s \div MinLarge < Two[NTreeBins \div 2] =>
               \E k \in 0 .. NTreeBins \div 2 - 1, b \in 0 .. 1 :
                  /\ Two[k] <= s \div MinLarge /\ s \div MinLarge < Two[k + 1]
                  /\ s \div Two[k + Shift - 1] = 2 + b
                  /\ compute_tree_index(s) = 2 * k + b
<1> DEFINE x == s \div MinLarge
           n == NTreeBins \div 2
           k == HighBit(x)
           b == bit(s, k + Shift - 1)
<1>1. s \in Nat \ {0} /\ Two[Shift] <= s /\ s < Two[Bits]
  BY LargeSizesAre
<1>2. Shift \in 0 .. Bits /\ Shift >= 2 /\ n \in 1 .. Bits /\ n + Shift <= Bits /\ Bits \in Nat
  BY Widths
<1>3. MinLarge = Two[Shift] /\ MinLarge \in Nat \ {0} /\ Two[n] \in Nat
  <2>1. Shift \in 0 .. Bits + 1 /\ n \in 0 .. Bits + 1
    BY <1>2
  <2> HIDE DEF n
  <2> QED
    BY <2>1, Twos DEF MinLarge
<1>4. x \in Nat /\ x <= s /\ x # 0
  <2>1. x \in Nat /\ s % MinLarge \in 0 .. MinLarge - 1 /\ s = x * MinLarge + (s % MinLarge)
    BY <1>1, <1>3, Divided
  <2> HIDE DEF x
  <2>2. x # 0
    <3> SUFFICES ASSUME x = 0 PROVE FALSE
      OBVIOUS
    <3>1. x * MinLarge = 0
      BY <1>3
    <3> QED
      BY <1>1, <1>3, <2>1, <3>1
  <2>3. x <= x * MinLarge
    <3> DEFINE w == MinLarge - 1
    <3>1. w \in Nat /\ MinLarge = w + 1
      BY <1>3
    <3> HIDE DEF w
    <3>2. x * w \in Nat /\ x * (w + 1) = x * w + x
      BY <2>1, <3>1
    <3> QED
      BY <2>1, <3>1, <3>2
  <2>4. x * MinLarge \in Nat
    BY <1>3, <2>1
  <2> QED
    BY <1>1, <1>3, <2>1, <2>2, <2>3, <2>4
<1>5. compute_tree_index(s) = IF x >= Two[n] THEN NTreeBins - 1 ELSE 2 * k + b
  <2> DEFINE w == Two[IndexBits]
  <2>1. IndexBits \in 0 .. Bits + 1
    BY <1>2, Widths
  <2>2. w \in Nat \ {0} /\ x < w
    BY <2>1, Twos DEF Indexable
  <2>3. x % w = x
    <3> HIDE DEF x, w
    <3>1. x \in 0 .. w - 1 /\ 0 \in Nat /\ 0 * w + x = x
      BY <1>4, <2>2
    <3>2. (0 * w + x) % w = x
      BY <2>2, <3>1, RowAndCell
    <3> QED
      BY <3>1, <3>2
  <2>4. compute_tree_index(s) = LET y == x % w
                                IN  IF y = 0 THEN 0 ELSE IF y >= Two[n] THEN NTreeBins - 1
                                    ELSE 2 * HighBit(y) + bit(s, HighBit(y) + Shift - 1)
    BY DEF compute_tree_index
  <2> HIDE DEF x, w, n
  <2> QED
    BY <1>4, <2>3, <2>4
<1> HIDE DEF n
<1>6. ASSUME x < Two[n] PROVE /\ k \in 0 .. n - 1 /\ b \in 0 .. 1 /\ Two[k] <= x /\ x < Two[k + 1]
                              /\ s \div Two[k + Shift - 1] = 2 + b
  <2>1. k \in 0 .. Bits /\ Two[k] <= x /\ x < Two[k + 1]
    <3>1. Two[Bits] \in Nat
      BY <1>2, Twos
    <3>2. x \in Nat \ {0} /\ x < Two[Bits]
      BY <1>1, <1>4, <3>1
    <3> HIDE DEF x
    <3> QED
      BY <3>2, HighBits
  <2> HIDE DEF k
  <2>2. k < n
    <3> SUFFICES ASSUME n <= k PROVE FALSE
      BY <1>2, <2>1
    <3>1. n \in 0 .. Bits + 1 /\ k \in 0 .. Bits + 1
      BY <1>2, <2>1
    <3>2. Two[n] <= Two[k]
      BY <3>1, TwoOrder
    <3>3. Two[k] \in Nat
      BY <3>1, Twos
    <3> QED
      BY <1>3, <1>4, <1>6, <2>1, <3>2, <3>3
  <2>3. k \in 0 .. n - 1 /\ k + Shift - 1 \in 0 .. Bits /\ (k + Shift - 1) + 1 = Shift + k /\ Shift + k <= Bits + 1
        /\ k \in Nat /\ Shift \in Nat /\ k \in 0 .. Bits + 1
    BY <1>2, <2>1, <2>2
  <2>4. b \in 0 .. 1 /\ s \div Two[k + Shift - 1] = 2 * (s \div Two[Shift + k]) + b
    <3>1. bit(s, k + Shift - 1) \in 0 .. 1
          /\ s \div Two[k + Shift - 1] = 2 * (s \div Two[(k + Shift - 1) + 1]) + bit(s, k + Shift - 1)
      BY <1>1, <2>3, Halved
    <3> QED
      BY <2>3, <3>1
  <2>5. s \div Two[Shift + k] = x \div Two[k]
    <3>1. Two[Shift + k] = Two[Shift] * Two[k]
      BY <2>3, TwoSums
    <3>2. Two[k] \in Nat \ {0} /\ Two[Shift] \in Nat \ {0}
      BY <1>3, <2>3, Twos
    <3>3. (s \div Two[Shift]) \div Two[k] = s \div (Two[Shift] * Two[k])
      BY <1>1, <3>2, Quotients
    <3> QED
      BY <1>3, <3>1, <3>3
  <2>6. x \div Two[k] = 1
    <3>1. Two[k] \in Nat \ {0} /\ Two[k + 1] = 2 * Two[k]
      BY <2>1, <2>3, Twos
    <3>2. x - Two[k] \in 0 .. Two[k] - 1
      BY <1>4, <2>1, <3>1
    <3> DEFINE w == Two[k]
               r == x - w
    <3>3. w \in Nat \ {0} /\ r \in 0 .. w - 1 /\ x = 1 * w + r
      BY <1>4, <3>1, <3>2
    <3> HIDE DEF w, r, x
    <3>4. (1 * w + r) \div w = 1
      BY <3>3, RowAndCell
    <3> QED
      BY <3>3, <3>4 DEF w
  <2>7. s \div Two[k + Shift - 1] = 2 * 1 + b
    BY <2>4, <2>5, <2>6
  <2> HIDE DEF b
  <2> QED
    BY <2>1, <2>3, <2>4, <2>7
<1> HIDE DEF x, k, b
<1>7. x >= Two[n] => compute_tree_index(s) = NTreeBins - 1
  BY <1>5
<1>8. x < Two[n] => \E kk \in 0 .. n - 1, bb \in 0 .. 1 :
                  /\ Two[kk] <= x /\ x < Two[kk + 1]
                  /\ s \div Two[kk + Shift - 1] = 2 + bb
                  /\ compute_tree_index(s) = 2 * kk + bb
  <2> SUFFICES ASSUME x < Two[n] PROVE \E kk \in 0 .. n - 1, bb \in 0 .. 1 :
                  /\ Two[kk] <= x /\ x < Two[kk + 1]
                  /\ s \div Two[kk + Shift - 1] = 2 + bb
                  /\ compute_tree_index(s) = 2 * kk + bb
    OBVIOUS
  <2>1. compute_tree_index(s) = 2 * k + b
    BY <1>3, <1>4, <1>5
  <2> QED
    BY <1>6, <2>1
<1> QED
  BY <1>3, <1>4, <1>7, <1>8 DEF x, n

LEMMA IndexIsBin == \A s \in LargeSizes : compute_tree_index(s) \in Bins
<1> SUFFICES ASSUME NEW s \in LargeSizes PROVE compute_tree_index(s) \in 0 .. NTreeBins - 1
  BY DEF Bins
<1> DEFINE n == NTreeBins \div 2
           w == Two[IndexBits]
           y == (s \div MinLarge) % w
           k == HighBit(y)
           b == bit(s, k + Shift - 1)
<1>1. n \in Nat /\ NTreeBins = 2 * n /\ n # 0 /\ n + Shift <= Bits /\ Shift \in Nat /\ Shift >= 2
      /\ Bits \in Nat /\ IndexBits \in 0 .. Bits
  BY Widths
<1> HIDE DEF n
<1>2. s \in Nat /\ MinLarge \in Nat \ {0} /\ w \in Nat \ {0} /\ w <= Two[Bits] /\ Two[Bits] \in Nat
  <2>1. Shift \in 0 .. Bits + 1 /\ IndexBits \in 0 .. Bits + 1 /\ Bits \in 0 .. Bits + 1 /\ IndexBits <= Bits
    BY <1>1
  <2>2. MinLarge \in Nat \ {0}
    BY <2>1, Twos DEF MinLarge
  <2> QED
    BY <2>1, <2>2, LargeSizesAre, Twos, TwoOrder
<1>3. y \in 0 .. w - 1
  <2>1. s \div MinLarge \in Nat
    BY <1>2, Divided
  <2> HIDE DEF w
  <2> QED
    BY <1>2, <2>1, Divided
<1>4. compute_tree_index(s) = IF y = 0 THEN 0 ELSE IF y >= Two[n] THEN NTreeBins - 1 ELSE 2 * k + b
  BY DEF compute_tree_index, n
<1>5. ASSUME y # 0, ~(y >= Two[n]) PROVE 2 * k + b \in 0 .. NTreeBins - 1
  <2> HIDE DEF y, w
  <2>1. y \in Nat \ {0} /\ y < Two[Bits]
    BY <1>2, <1>3, <1>5
  <2>2. k \in 0 .. Bits /\ Two[k] <= y
    BY <2>1, HighBits
  <2> HIDE DEF k
  <2>3. k < n
    <3> SUFFICES ASSUME n <= k PROVE FALSE
      BY <1>1, <2>2
    <3>1. n \in 0 .. Bits + 1 /\ k \in 0 .. Bits + 1
      BY <1>1, <2>2
    <3>2. Two[n] <= Two[k] /\ Two[n] \in Nat /\ Two[k] \in Nat
      BY <3>1, TwoOrder, Twos
    <3> QED
      BY <1>5, <2>1, <2>2, <3>2
  <2>4. k + Shift - 1 \in 0 .. Bits
    BY <1>1, <2>2, <2>3
  <2>5. b \in 0 .. 1
    BY <1>2, <2>4, Halved
  <2> HIDE DEF b
  <2> QED
    BY <1>1, <2>2, <2>3, <2>5
<1> HIDE DEF y, k, b
<1> QED
  BY <1>1, <1>4, <1>5

\* Bins are ranges of sizes, in their order.
LEMMA IndexOrder ==
  ASSUME NEW a \in Indexable, NEW b \in Indexable, a <= b
  PROVE  compute_tree_index(a) <= compute_tree_index(b)
<1> DEFINE n == NTreeBins \div 2
           x == a \div MinLarge
           y == b \div MinLarge
<1>1. n \in Nat /\ NTreeBins = 2 * n /\ n # 0 /\ n + Shift <= Bits /\ Shift \in Nat /\ Shift >= 2 /\ Bits \in Nat
  BY Widths
<1>2. a \in Nat /\ b \in Nat
  BY LargeSizesAre
<1>3. x \in Nat /\ y \in Nat /\ x <= y
  <2>1. MinLarge \in Nat \ {0}
    BY <1>1, Twos DEF MinLarge
  <2>2. x <= y
    BY <1>2, <2>1, QuotientOrder
  <2> QED
    BY <2>2, Indexed
<1>4. Two[n] \in Nat
  BY Indexed
<1>5. compute_tree_index(a) \in 0 .. NTreeBins - 1
  BY IndexIsBin, LargeSizesAre DEF Bins
<1>6. CASE y >= Two[n]
  <2>1. compute_tree_index(b) = NTreeBins - 1
    BY <1>6, Indexed
  <2> QED
    BY <1>1, <1>5, <2>1
<1>7. CASE y < Two[n]
  <2>1. x < Two[n]
    <3> HIDE DEF x, y, n
    <3> QED
      BY <1>3, <1>4, <1>7
  <2>2. PICK k \in 0 .. n - 1, c \in 0 .. 1 : Two[k] <= x /\ x < Two[k + 1]
                /\ a \div Two[k + Shift - 1] = 2 + c /\ compute_tree_index(a) = 2 * k + c
    BY <2>1, Indexed
  <2>3. PICK j \in 0 .. n - 1, d \in 0 .. 1 : Two[j] <= y /\ y < Two[j + 1]
                /\ b \div Two[j + Shift - 1] = 2 + d /\ compute_tree_index(b) = 2 * j + d
    BY <1>7, Indexed
  <2> HIDE DEF n, x, y
  <2>4. k \in Nat /\ j \in Nat /\ k + 1 \in 0 .. Bits + 1 /\ j + 1 \in 0 .. Bits + 1 /\ k \in 0 .. Bits + 1
    BY <1>1
  <2>5. k <= j
    <3> SUFFICES ASSUME j + 1 <= k PROVE FALSE
      BY <2>4
    <3>1. Two[j + 1] <= Two[k] /\ Two[j + 1] \in Nat /\ Two[k] \in Nat
      BY <2>4, TwoOrder, Twos
    <3> QED
      BY <1>3, <2>2, <2>3, <3>1
  <2>6. CASE k = j
    <3>1. k + Shift - 1 \in 0 .. Bits + 1
      BY <1>1, <2>4
    <3>2. Two[k + Shift - 1] \in Nat \ {0}
      BY <3>1, Twos
    <3>3. a \div Two[k + Shift - 1] <= b \div Two[k + Shift - 1]
      BY <1>2, <3>2, QuotientOrder
    <3>4. 2 + c <= 2 + d
      BY <2>2, <2>3, <2>6, <3>3
    <3> QED
      BY <2>2, <2>3, <2>6, <3>4
  <2>7. CASE k < j
    BY <2>2, <2>3, <2>4, <2>7
  <2> QED
    BY <2>4, <2>5, <2>6, <2>7
<1> QED
  BY <1>3, <1>4, <1>6, <1>7

LEMMA TopBit ==
  \A i \in Bins : /\ bit_for_tree_index(i) \in Nat /\ bit_for_tree_index(i) + 1 \in 0 .. Bits
                  /\ i # NTreeBins - 1 => bit_for_tree_index(i) = i \div 2 + Shift - 2
<1> SUFFICES ASSUME NEW i \in Bins
             PROVE  /\ bit_for_tree_index(i) \in Nat /\ bit_for_tree_index(i) + 1 \in 0 .. Bits
                    /\ i # NTreeBins - 1 => bit_for_tree_index(i) = i \div 2 + Shift - 2
  OBVIOUS
<1> DEFINE n == NTreeBins \div 2
           m == i \div 2
           r == i % 2
<1>1. n \in Nat /\ NTreeBins = 2 * n /\ n # 0 /\ n + Shift <= Bits /\ Shift \in Nat /\ Shift >= 2 /\ Bits \in Nat
  BY Widths
<1>2. i \in Nat /\ i <= NTreeBins - 1
  BY <1>1 DEF Bins
<1>3. m \in Nat /\ r \in 0 .. 1 /\ i = m * 2 + r
  BY <1>2, Divided
<1>4. bit_for_tree_index(i) = IF i = NTreeBins - 1 THEN Bits - 1 ELSE m + Shift - 2
  BY DEF bit_for_tree_index
<1> HIDE DEF n, m, r
<1>5. m <= n - 1
  BY <1>1, <1>2, <1>3
<1>6. CASE i = NTreeBins - 1
  BY <1>1, <1>4, <1>6
<1>7. CASE i # NTreeBins - 1
  <2>1. m + Shift - 2 \in Nat /\ (m + Shift - 2) + 1 <= Bits
    BY <1>1, <1>3, <1>5
  <2>2. bit_for_tree_index(i) = m + Shift - 2
    BY <1>4, <1>7
  <2> QED
    BY <1>1, <1>7, <2>1, <2>2 DEF m
<1> QED
  BY <1>6, <1>7

----------------------------------------------------------------------------
(* Where a size belongs in the tree of its bin: a node at depth d shares   *)
(* the d bits below those that choose the bin, its key at that depth, with *)
(* everything below it.                                                    *)

Top(s) == bit_for_tree_index(compute_tree_index(s))
Key(s, d) == s \div Two[Top(s) + 1 - d]
Side(s, d) == Direction(s, compute_tree_index(s), d)

LEMMA Keys ==
  ASSUME NEW s \in LargeSizes
  PROVE  /\ Top(s) \in Nat /\ Top(s) + 1 \in 0 .. Bits
         /\ \A d \in 0 .. Top(s) + 1 : Key(s, d) \in Nat
         /\ Key(s, Top(s) + 1) = s
         /\ \A d \in 0 .. Top(s) : Key(s, d + 1) = 2 * Key(s, d) + Side(s, d)
         /\ \A d \in Nat : Side(s, d) \in 0 .. 1
<1> DEFINE top == Top(s)
<1>1. s \in Nat /\ compute_tree_index(s) \in Bins /\ Bits \in Nat
  BY LargeSizesAre, IndexIsBin, Widths
<1>2. top \in Nat /\ top + 1 \in 0 .. Bits
  BY <1>1, TopBit DEF Top
<1>3. \A d \in 0 .. top + 1 : Key(s, d) = s \div Two[top + 1 - d]
  BY DEF Key
<1>4. \A d \in Nat : Side(s, d) = IF d > top THEN 0 ELSE bit(s, top - d)
  BY DEF Side, Direction, Top
<1> HIDE DEF top
<1>5. ASSUME NEW d \in 0 .. top + 1 PROVE Key(s, d) \in Nat
  <2>1. top + 1 - d \in 0 .. Bits + 1
    BY <1>1, <1>2
  <2>2. Two[top + 1 - d] \in Nat \ {0}
    BY <2>1, Twos
  <2>3. s \div Two[top + 1 - d] \in Nat
    BY <1>1, <2>2, Divided
  <2> QED
    BY <1>3, <2>3
<1>6. Key(s, top + 1) = s
  <2>1. top + 1 \in 0 .. top + 1 /\ top + 1 - (top + 1) = 0
    BY <1>2
  <2>2. Key(s, top + 1) = s \div 1
    BY <1>3, <2>1, Twos
  <2> QED
    BY <1>1, <2>2
<1>7. ASSUME NEW d \in 0 .. top PROVE Key(s, d + 1) = 2 * Key(s, d) + Side(s, d)
  <2>1. top - d \in 0 .. Bits /\ (top - d) + 1 = top + 1 - d /\ top - d = top + 1 - (d + 1)
        /\ d \in 0 .. top + 1 /\ d + 1 \in 0 .. top + 1 /\ d \in Nat /\ ~(d > top)
    BY <1>1, <1>2
  <2>2. s \div Two[top - d] = 2 * (s \div Two[(top - d) + 1]) + bit(s, top - d)
    BY <1>1, <2>1, Halved
  <2>3. Key(s, d) = s \div Two[(top - d) + 1]
    BY <1>3, <2>1
  <2>4. Key(s, d + 1) = s \div Two[top - d]
    BY <1>3, <2>1
  <2>5. Side(s, d) = bit(s, top - d)
    BY <1>4, <2>1
  <2> QED
    BY <2>2, <2>3, <2>4, <2>5
<1>8. ASSUME NEW d \in Nat PROVE Side(s, d) \in 0 .. 1
  <2>1. CASE d > top
    BY <1>4, <2>1
  <2>2. CASE ~(d > top)
    <3>1. top - d \in 0 .. Bits
      BY <1>1, <1>2, <2>2
    <3>2. bit(s, top - d) \in 0 .. 1
      BY <1>1, <3>1, Halved
    <3> QED
      BY <1>4, <2>2, <3>2
  <2> QED
    BY <2>1, <2>2
<1> QED
  BY <1>2, <1>5, <1>6, <1>7, <1>8 DEF top

LEMMA SameBin ==
  ASSUME NEW a \in Indexable, NEW b \in Indexable, compute_tree_index(a) = compute_tree_index(b)
  PROVE  /\ Top(a) = Top(b)
         /\ Key(a, 0) = Key(b, 0)
         /\ \A d \in 0 .. Top(a) + 1 : Key(a, d) < Key(b, d) => a < b
         /\ \A d, e \in 0 .. Top(a) + 1 : d <= e /\ Key(a, e) = Key(b, e) => Key(a, d) = Key(b, d)
<1> DEFINE top == Top(a)
           i == compute_tree_index(a)
<1>1. Top(b) = top
  BY DEF Top
<1>2. a \in Nat /\ b \in Nat /\ a < Two[Bits] /\ b < Two[Bits] /\ Bits \in Nat /\ top \in Nat /\ top + 1 \in 0 .. Bits
  BY LargeSizesAre, Widths, Keys
<1>3. \A d \in 0 .. top + 1 : Key(a, d) = a \div Two[top + 1 - d] /\ Key(b, d) = b \div Two[top + 1 - d]
  BY <1>1 DEF Key
<1>4. Key(a, 0) = Key(b, 0)
  <2>1. i \in Bins
    BY IndexIsBin, LargeSizesAre
  <2>2. CASE i = NTreeBins - 1
    <3>1. top + 1 = Bits
      BY <1>2, <2>2 DEF Top, bit_for_tree_index
    <3>2. Two[Bits] \in Nat \ {0}
      BY <1>2, Twos
    <3>3. ASSUME NEW s \in Nat, s < Two[Bits] PROVE s \div Two[Bits] = 0
      <4> DEFINE w == Two[Bits]
      <4>1. w \in Nat \ {0} /\ s \in 0 .. w - 1 /\ 0 \in Nat /\ 0 * w + s = s
        BY <3>2, <3>3
      <4> HIDE DEF w
      <4>2. (0 * w + s) \div w = 0
        BY <4>1, RowAndCell
      <4> QED
        BY <4>1, <4>2 DEF w
    <3>4. top + 1 - 0 = Bits /\ 0 \in 0 .. top + 1
      BY <1>2, <3>1
    <3> QED
      BY <1>2, <1>3, <3>3, <3>4
  <2>3. CASE i # NTreeBins - 1
    <3>1. top = i \div 2 + Shift - 2
      BY <2>1, <2>3, TopBit DEF Top
    <3> DEFINE n == NTreeBins \div 2
    <3>2. n \in Nat /\ Shift \in Nat
      BY Widths
    <3>3. ASSUME NEW s \in Indexable, compute_tree_index(s) = i
          PROVE  s \div Two[top + 1 - 0] = 2 + (i % 2)
      <4>1. s \div MinLarge < Two[n]
        <5>1. s \div MinLarge \in Nat /\ Two[n] \in Nat
          BY Indexed
        <5>2. ~(s \div MinLarge >= Two[n])
          BY <2>3, <3>3, Indexed
        <5> HIDE DEF n
        <5> QED
          BY <5>1, <5>2
      <4>2. PICK k \in 0 .. n - 1, c \in 0 .. 1 : s \div Two[k + Shift - 1] = 2 + c /\ i = 2 * k + c
        BY <3>3, <4>1, Indexed
      <4> HIDE DEF n, i, top
      <4>3. k \in Nat /\ i = k * 2 + c /\ 2 \in Nat \ {0} /\ c \in 0 .. 2 - 1
        BY <3>2, <4>2
      <4>4. i \div 2 = k /\ i % 2 = c
        BY <4>3, RowAndCell
      <4>5. top + 1 - 0 = k + Shift - 1
        BY <3>1, <3>2, <4>3, <4>4
      <4> QED
        BY <4>2, <4>4, <4>5
    <3>4. a \div Two[top + 1 - 0] = b \div Two[top + 1 - 0] /\ 0 \in 0 .. top + 1
      BY <1>2, <3>3
    <3> QED
      BY <1>3, <3>4
  <2> QED
    BY <2>2, <2>3
<1> HIDE DEF top, i
<1>5. ASSUME NEW d \in 0 .. top + 1, Key(a, d) < Key(b, d) PROVE a < b
  <2> SUFFICES ASSUME b <= a PROVE FALSE
    BY <1>2
  <2>1. top + 1 - d \in 0 .. Bits + 1
    BY <1>2
  <2>2. Two[top + 1 - d] \in Nat \ {0}
    BY <2>1, Twos
  <2>3. b \div Two[top + 1 - d] <= a \div Two[top + 1 - d]
    BY <1>2, <2>2, QuotientOrder
  <2>4. a \div Two[top + 1 - d] \in Nat /\ b \div Two[top + 1 - d] \in Nat
    BY <1>2, <2>2, Divided
  <2> QED
    BY <1>3, <1>5, <2>3, <2>4
<1>6. ASSUME NEW d \in 0 .. top + 1, NEW e \in 0 .. top + 1, d <= e, Key(a, e) = Key(b, e)
      PROVE  Key(a, d) = Key(b, d)
  <2> DEFINE j == top + 1 - e
             k == e - d
  <2>1. j \in Nat /\ k \in Nat /\ j + k = top + 1 - d /\ j + k <= Bits + 1 /\ j \in 0 .. Bits + 1 /\ k \in 0 .. Bits + 1
    BY <1>2, <1>6
  <2>2. Key(a, e) = a \div Two[j] /\ Key(b, e) = b \div Two[j]
        /\ Key(a, d) = a \div Two[j + k] /\ Key(b, d) = b \div Two[j + k]
    BY <1>3, <2>1
  <2> HIDE DEF j, k
  <2>3. Two[j + k] = Two[j] * Two[k] /\ Two[j] \in Nat \ {0} /\ Two[k] \in Nat \ {0}
    BY <2>1, TwoSums, Twos
  <2>4. (a \div Two[j]) \div Two[k] = a \div (Two[j] * Two[k])
        /\ (b \div Two[j]) \div Two[k] = b \div (Two[j] * Two[k])
    BY <1>2, <2>3, Quotients
  <2> QED
    BY <1>6, <2>2, <2>3, <2>4
<1> QED
  BY <1>1, <1>4, <1>5, <1>6 DEF top

\* Whose keys agree took the same side before.
LEMMA SameSide ==
  ASSUME NEW a \in Indexable, NEW b \in Indexable, compute_tree_index(a) = compute_tree_index(b),
         NEW d \in 0 .. Top(a)
  PROVE  /\ Key(a, d + 1) = Key(b, d + 1) <=> Key(a, d) = Key(b, d) /\ Side(a, d) = Side(b, d)
         /\ Key(a, d) = Key(b, d) /\ Side(a, d) = 0 /\ Side(b, d) = 1 => Key(a, d + 1) < Key(b, d + 1)
<1>1. Top(a) \in Nat /\ Top(b) = Top(a) /\ d \in 0 .. Top(a) + 1 /\ d + 1 \in 0 .. Top(a) + 1 /\ d <= d + 1 /\ d \in Nat
  BY Keys, LargeSizesAre, SameBin
<1>2. Key(a, d) \in Nat /\ Key(b, d) \in Nat /\ Side(a, d) \in 0 .. 1 /\ Side(b, d) \in 0 .. 1
  BY <1>1, Keys, LargeSizesAre
<1>3. Key(a, d + 1) = 2 * Key(a, d) + Side(a, d) /\ Key(b, d + 1) = 2 * Key(b, d) + Side(b, d)
  BY <1>1, Keys, LargeSizesAre
<1> QED
  BY <1>2, <1>3

----------------------------------------------------------------------------
(* The inductive invariant.  depth is how far from its root a node is, and *)
(* q the ring of each size, from its node on.                              *)

\* The variables have the values of their types, and index fits size.
TypeOK ==
    /\ size \in [Chunk -> {0} \cup ChunkSizes]
    /\ index \in [Chunk -> Bins]
    /\ child \in [Chunk -> [0 .. 1 -> Link]]
    /\ parent \in [Chunk -> Link \cup {Bin}]
    /\ fd \in [Chunk -> Chunk] /\ bk \in [Chunk -> Chunk]
    /\ treebins \in [Bins -> Link]
    /\ treemap \in SUBSET Bins
    /\ \A x \in Binned : index[x] = compute_tree_index(size[x])
    /\ ChunkSizes \subseteq Indexable

\* A bin is marked if it has a root, which knows that it is one.
Roots ==
    \A i \in Bins :
       /\ i \in treemap <=> treebins[i] # NoChunk
       /\ treebins[i] # NoChunk => /\ treebins[i] \in Nodes /\ index[treebins[i]] = i
                                   /\ parent[treebins[i]] = Bin

\* A node hangs where its size belongs, below a node of the same key.
Hangs(depth, t) ==
    LET u == parent[t]
    IN  IF u = Bin THEN treebins[index[t]] = t /\ depth[t] = 0
        ELSE /\ u \in Nodes /\ index[u] = index[t]
             /\ depth[t] = depth[u] + 1 /\ depth[u] <= Top(size[t])
             /\ Key(size[t], depth[u]) = Key(size[u], depth[u])
             /\ child[u][Side(size[t], depth[u])] = t

\* A child is a node whose parent and side are the ones it is linked from.
Holds(depth, t, k) ==
    child[t][k] # NoChunk =>
       /\ t \in Nodes /\ child[t][k] \in Nodes
       /\ parent[child[t][k]] = t /\ Side(size[child[t][k]], depth[t]) = k

Tries(depth) ==
    /\ TypeOK /\ Roots
    /\ \A t \in Nodes : Hangs(depth, t)
    /\ \A t \in Chunk, k \in 0 .. 1 : Holds(depth, t, k)

\* The place after j in a ring of n.
After(j, n) == IF j = n THEN 1 ELSE j + 1

\* A ring has the chunks of its size, each once, the node first.
Ring(r, s) ==
    /\ \A j \in 1 .. Len(r) :
          /\ size[r[j]] = s /\ (parent[r[j]] # NoChunk <=> j = 1)
          /\ bk[r[j]] = r[After(j, Len(r))] /\ fd[r[After(j, Len(r))]] = r[j]
    /\ \A j, k \in 1 .. Len(r) : r[j] = r[k] => j = k
    /\ \A x \in Chunk : size[x] = s => \E j \in 1 .. Len(r) : r[j] = x

\* What is not binned is linked to itself only.
Loose(x) == size[x] = 0 => fd[x] = x /\ bk[x] = x /\ parent[x] = NoChunk

Sound(depth, q) ==
    /\ Tries(depth)
    /\ \A s \in Indexable : Ring(q[s], s)
    /\ \A x \in Chunk : Loose(x)

Depth == [Chunk -> Nat]
Order == [Indexable -> Seq(Chunk)]

TreeSound == \E depth \in Depth, q \in Order : Sound(depth, q)

\* Node u is t or somewhere below it.
Descends(depth, u, t) ==
    /\ u \in Nodes /\ t \in Nodes /\ index[u] = index[t] /\ depth[t] <= depth[u]
    /\ Key(size[u], depth[t]) = Key(size[t], depth[t])

----------------------------------------------------------------------------
(* What the invariant says about the tree of a bin.                        *)

LEMMA NodesAre ==
  ASSUME NEW depth \in Depth, Tries(depth)
  PROVE  \A t \in Nodes :
            /\ t \in Chunk /\ size[t] \in ChunkSizes /\ size[t] \in Indexable /\ size[t] # 0
            /\ index[t] \in Bins /\ index[t] = compute_tree_index(size[t])
            /\ parent[t] # NoChunk /\ t # NoChunk /\ t # Bin
            /\ depth[t] \in Nat /\ depth[t] \in 0 .. Top(size[t]) + 1
            /\ Top(size[t]) \in Nat /\ Top(size[t]) + 1 \in 0 .. Bits
            /\ Hangs(depth, t)
<1> SUFFICES ASSUME NEW t \in Nodes
             PROVE  /\ t \in Chunk /\ size[t] \in ChunkSizes /\ size[t] \in Indexable /\ size[t] # 0
                    /\ index[t] \in Bins /\ index[t] = compute_tree_index(size[t])
                    /\ parent[t] # NoChunk /\ t # NoChunk /\ t # Bin
                    /\ depth[t] \in Nat /\ depth[t] \in 0 .. Top(size[t]) + 1
                    /\ Top(size[t]) \in Nat /\ Top(size[t]) + 1 \in 0 .. Bits
                    /\ Hangs(depth, t)
  OBVIOUS
<1>1. t \in Chunk /\ size[t] # 0 /\ parent[t] # NoChunk /\ t \in Binned
  BY DEF Nodes, Binned
<1>2. size[t] \in ChunkSizes /\ index[t] \in Bins /\ index[t] = compute_tree_index(size[t])
  BY <1>1 DEF Tries, TypeOK
<1>3. size[t] \in Indexable
  BY <1>2 DEF Tries, TypeOK
<1>4. t # NoChunk /\ t # Bin
  BY <1>1, ChunkAssumption
<1>5. Hangs(depth, t)
  BY DEF Tries
<1>6. depth[t] \in Nat
  BY <1>1 DEF Depth
<1>7. Top(size[t]) \in Nat /\ Top(size[t]) + 1 \in 0 .. Bits
  BY <1>3, Keys, LargeSizesAre
<1>8. depth[t] <= Top(size[t]) + 1
  <2>1. CASE parent[t] = Bin
    BY <1>5, <1>7, <2>1 DEF Hangs
  <2>2. CASE parent[t] # Bin
    <3>1. parent[t] \in Chunk /\ depth[t] = depth[parent[t]] + 1 /\ depth[parent[t]] <= Top(size[t])
      BY <1>5, <2>2 DEF Hangs, Nodes, Binned
    <3>2. depth[parent[t]] \in Nat
      BY <3>1 DEF Depth
    <3> QED
      BY <1>7, <3>1, <3>2
  <2> QED
    BY <2>1, <2>2
<1> QED
  BY <1>1, <1>2, <1>3, <1>4, <1>5, <1>6, <1>7, <1>8

\* Above each node there is one at each smaller depth.
LEMMA Ancestors ==
  ASSUME NEW depth \in Depth, Tries(depth), NEW t \in Nodes
  PROVE  \A d \in 0 .. depth[t] : \E u \in Nodes : depth[u] = d /\ Descends(depth, t, u)
<1> DEFINE n == depth[t]
           Above(d) == \E u \in Nodes : depth[u] = d /\ Descends(depth, t, u)
           R == {j \in 0 .. n : Above(n - j)}
<1>1. n \in Nat
  BY NodesAre
<1>2. 0 \in R
  <2>1. Above(n - 0)
    BY <1>1 DEF Descends
  <2> HIDE DEF n, Above
  <2> QED
    BY <1>1, <2>1
<1>3. ASSUME NEW j \in 0 .. n, j \in R, j + 1 <= n PROVE j + 1 \in R
  <2>1. Above(n - j)
    <3> HIDE DEF n, Above
    <3> QED
      BY <1>3
  <2>2. PICK u \in Nodes : depth[u] = n - j /\ Descends(depth, t, u)
    BY <2>1
  <2> DEFINE p == parent[u]
             e == depth[p]
  <2>3. Hangs(depth, u) /\ depth[u] # 0
    BY <1>1, <1>3, <2>2, NodesAre
  <2>4. p \in Nodes /\ index[p] = index[u] /\ depth[u] = e + 1 /\ e <= Top(size[u])
        /\ Key(size[u], e) = Key(size[p], e)
    BY <2>3 DEF Hangs
  <2>5. e \in Nat
    BY <2>4, NodesAre
  <2>6. index[t] = index[u] /\ depth[u] <= depth[t] /\ Key(size[t], depth[u]) = Key(size[u], depth[u])
    BY <2>2 DEF Descends
  <2>7. Key(size[t], e) = Key(size[u], e)
    <3> DEFINE a == size[t]
               b == size[u]
    <3>1. a \in Indexable /\ b \in Indexable /\ compute_tree_index(a) = compute_tree_index(b)
      BY <2>6, NodesAre
    <3>2. e \in 0 .. Top(a) + 1 /\ depth[u] \in 0 .. Top(a) + 1 /\ e <= depth[u]
      BY <1>1, <2>4, <2>5, <2>6, NodesAre
    <3> HIDE DEF a, b, e
    <3> QED
      BY <2>6, <3>1, <3>2, SameBin DEF a, b
  <2>8. e = n - (j + 1) /\ e <= depth[t]
    BY <1>1, <1>3, <2>2, <2>4, <2>5, <2>6
  <2>9. Descends(depth, t, p)
    BY <2>4, <2>6, <2>7, <2>8 DEF Descends
  <2>10. Above(n - (j + 1))
    BY <2>4, <2>8, <2>9
  <2> HIDE DEF n, Above
  <2> QED
    BY <1>1, <1>3, <2>10
<1>4. \A j \in 0 .. n : j \in R
  <2> HIDE DEF R, n
  <2>1. 0 \in Nat /\ 0 <= n
    BY <1>1
  <2> QED
    BY <1>1, <1>2, <1>3, <2>1, Along
<1>5. ASSUME NEW d \in 0 .. n PROVE Above(d)
  <2> HIDE DEF n, Above
  <2>1. n - d \in 0 .. n /\ n - (n - d) = d
    BY <1>1
  <2> QED
    BY <1>4, <2>1
<1> QED
  BY <1>5

\* No two nodes of a bin are in the same place.
LEMMA OnePlace ==
  ASSUME NEW depth \in Depth, Tries(depth), NEW t \in Nodes, NEW u \in Nodes,
         index[t] = index[u], depth[t] = depth[u], Key(size[t], depth[t]) = Key(size[u], depth[t])
  PROVE  t = u
<1> DEFINE Same(x, y, d) == /\ index[x] = index[y] /\ depth[x] = d /\ depth[y] = d
                            /\ Key(size[x], d) = Key(size[y], d)
           One(d) == \A x, y \in Nodes : Same(x, y, d) => x = y
           R == {d \in 0 .. Bits : One(d)}
<1>1. Bits \in Nat
  BY Widths
<1>2. 0 \in R
  <2>1. ASSUME NEW x \in Nodes, NEW y \in Nodes, Same(x, y, 0) PROVE x = y
    <3>1. ASSUME NEW z \in Nodes, depth[z] = 0 PROVE treebins[index[z]] = z
      <4>1. Hangs(depth, z)
        BY NodesAre
      <4>2. parent[z] = Bin
        <5> SUFFICES ASSUME parent[z] # Bin PROVE FALSE
          OBVIOUS
        <5>1. parent[z] \in Nodes /\ depth[z] = depth[parent[z]] + 1
          BY <4>1 DEF Hangs
        <5>2. depth[parent[z]] \in Nat
          BY <5>1, NodesAre
        <5> QED
          BY <3>1, <5>1, <5>2
      <4> QED
        BY <4>1, <4>2 DEF Hangs
    <3> QED
      BY <2>1, <3>1
  <2>2. One(0)
    BY <2>1
  <2> HIDE DEF One
  <2> QED
    BY <1>1, <2>2
<1>3. ASSUME NEW d \in 0 .. Bits, d \in R, d + 1 <= Bits PROVE d + 1 \in R
  <2>1. One(d)
    <3> HIDE DEF One
    <3> QED
      BY <1>3
  <2>2. ASSUME NEW x \in Nodes, NEW y \in Nodes, Same(x, y, d + 1) PROVE x = y
    <3> DEFINE a == size[x]
               b == size[y]
    <3>1. ASSUME NEW z \in Nodes, depth[z] = d + 1
          PROVE  /\ parent[z] \in Nodes /\ index[parent[z]] = index[z] /\ depth[parent[z]] = d
                 /\ d \in 0 .. Top(size[z]) /\ Key(size[z], d) = Key(size[parent[z]], d)
                 /\ child[parent[z]][Side(size[z], d)] = z
      <4>1. Hangs(depth, z) /\ parent[z] # Bin
        BY <3>1, NodesAre DEF Hangs
      <4> DEFINE e == depth[parent[z]]
      <4>2. parent[z] \in Nodes /\ index[parent[z]] = index[z] /\ depth[z] = e + 1 /\ e <= Top(size[z])
            /\ Key(size[z], e) = Key(size[parent[z]], e) /\ child[parent[z]][Side(size[z], e)] = z
        BY <4>1 DEF Hangs
      <4>3. e \in Nat /\ Top(size[z]) \in Nat
        BY <4>2, NodesAre
      <4>4. e = d /\ e \in 0 .. Top(size[z])
        <5> HIDE DEF e
        <5> QED
          BY <3>1, <4>2, <4>3
      <4> QED
        BY <4>2, <4>4
    <3>2. a \in Indexable /\ b \in Indexable /\ compute_tree_index(a) = compute_tree_index(b) /\ d \in 0 .. Top(a)
      BY <2>2, <3>1, NodesAre
    <3>3. Key(a, d) = Key(b, d) /\ Side(a, d) = Side(b, d)
      <4>1. Key(a, d + 1) = Key(b, d + 1)
        BY <2>2
      <4> HIDE DEF a, b
      <4> QED
        BY <3>2, <4>1, SameSide
    <3>4. Same(parent[x], parent[y], d)
      BY <2>2, <3>1, <3>3
    <3>5. parent[x] = parent[y]
      <4>1. parent[x] \in Nodes /\ parent[y] \in Nodes
        BY <2>2, <3>1
      <4> HIDE DEF Same
      <4> QED
        BY <2>1, <3>4, <4>1
    <3>6. child[parent[x]][Side(a, d)] = x /\ child[parent[y]][Side(b, d)] = y
      BY <2>2, <3>1
    <3> QED
      BY <3>3, <3>5, <3>6
  <2>3. One(d + 1)
    <3> HIDE DEF Same
    <3> QED
      BY <2>2
  <2> HIDE DEF One
  <2> QED
    BY <1>1, <1>3, <2>3
<1>4. \A d \in 0 .. Bits : d \in R
  <2> HIDE DEF R
  <2>1. 0 \in Nat /\ 0 <= Bits
    BY <1>1
  <2> QED
    BY <1>1, <1>2, <1>3, <2>1, Along
<1>5. depth[t] \in 0 .. Bits
  <2>1. depth[t] \in Nat /\ depth[t] \in 0 .. Top(size[t]) + 1 /\ Top(size[t]) + 1 \in 0 .. Bits /\ Top(size[t]) \in Nat
    BY NodesAre
  <2> QED
    BY <1>1, <2>1
<1>6. One(depth[t])
  <2> HIDE DEF One
  <2> QED
    BY <1>4, <1>5
<1> QED
  BY <1>6

\* Below a node, the way to whatever descends from it is by its child on that side.
LEMMA Downward ==
  ASSUME NEW depth \in Depth, Tries(depth), NEW t, NEW u, Descends(depth, u, t), depth[t] # depth[u]
  PROVE  LET c == child[t][Side(size[u], depth[t])]
         IN  /\ c \in Nodes /\ parent[c] = t /\ depth[c] = depth[t] + 1 /\ Descends(depth, u, c)
             /\ Descends(depth, c, t) /\ depth[t] \in 0 .. Top(size[u])
<1> DEFINE d == depth[t]
           a == size[u]
<1>1. t \in Nodes /\ u \in Nodes /\ index[u] = index[t] /\ d <= depth[u] /\ Key(a, d) = Key(size[t], d)
  BY DEF Descends
<1>2. d \in Nat /\ depth[u] \in Nat /\ d + 1 \in 0 .. depth[u] /\ a \in Indexable
  <2>1. d \in Nat /\ depth[u] \in Nat /\ a \in Indexable
    BY <1>1, NodesAre
  <2>2. d # depth[u]
    OBVIOUS
  <2> HIDE DEF d
  <2> QED
    BY <1>1, <2>1, <2>2
<1>3. PICK c \in Nodes : depth[c] = d + 1 /\ Descends(depth, u, c)
  BY <1>1, <1>2, Ancestors
<1> DEFINE b == size[c]
           p == parent[c]
           e == depth[p]
<1>4. index[c] = index[u] /\ Key(a, d + 1) = Key(b, d + 1)
  BY <1>3 DEF Descends
<1>5. Hangs(depth, c) /\ b \in Indexable /\ index[c] = compute_tree_index(b) /\ index[u] = compute_tree_index(a)
  BY <1>1, <1>3, NodesAre
<1>6. p \in Nodes /\ index[p] = index[c] /\ depth[c] = e + 1 /\ e <= Top(b)
      /\ Key(b, e) = Key(size[p], e) /\ child[p][Side(b, e)] = c
  BY <1>2, <1>3, <1>5 DEF Hangs
<1>7. e = d /\ d \in 0 .. Top(b)
  <2>1. e \in Nat /\ Top(b) \in Nat
    BY <1>3, <1>6, NodesAre
  <2> HIDE DEF e, d, b
  <2> QED
    BY <1>2, <1>3, <1>6, <2>1
<1>8. Key(b, d) = Key(a, d) /\ Side(b, d) = Side(a, d) /\ Top(a) = Top(b)
  <2> HIDE DEF a, b, d
  <2>1. Key(b, d + 1) = Key(a, d + 1) /\ compute_tree_index(b) = compute_tree_index(a)
    BY <1>4, <1>5
  <2> QED
    BY <1>2, <1>5, <1>7, <2>1, SameSide, SameBin
<1>9. p = t
  <2>1. index[p] = index[t] /\ depth[p] = depth[t] /\ Key(size[p], depth[p]) = Key(size[t], depth[p])
    BY <1>1, <1>4, <1>6, <1>7, <1>8
  <2> QED
    BY <1>1, <1>6, <2>1, OnePlace
<1>10. child[t][Side(a, d)] = c
  BY <1>6, <1>7, <1>8, <1>9
<1>11. Descends(depth, c, t)
  <2>1. depth[t] <= depth[c]
    BY <1>2, <1>3
  <2>2. Key(size[c], depth[t]) = Key(size[t], depth[t])
    BY <1>1, <1>8
  <2> QED
    BY <1>1, <1>3, <1>4, <2>1, <2>2 DEF Descends
<1> QED
  BY <1>3, <1>7, <1>8, <1>9, <1>10, <1>11

\* A child is one level deeper, on its side.
LEMMA Children ==
  ASSUME NEW depth \in Depth, Tries(depth), NEW t \in Chunk, NEW k \in 0 .. 1, child[t][k] # NoChunk
  PROVE  LET c == child[t][k]
         IN  /\ t \in Nodes /\ c \in Nodes /\ parent[c] = t /\ index[c] = index[t] /\ depth[c] = depth[t] + 1
             /\ Side(size[c], depth[t]) = k /\ depth[t] \in 0 .. Top(size[c]) /\ Descends(depth, c, t)
<1> DEFINE c == child[t][k]
<1>1. Holds(depth, t, k)
  BY DEF Tries
<1>2. t \in Nodes /\ c \in Nodes /\ parent[c] = t /\ Side(size[c], depth[t]) = k
  BY <1>1 DEF Holds
<1>3. Hangs(depth, c) /\ t # Bin
  BY <1>2, NodesAre
<1>4. index[c] = index[t] /\ depth[c] = depth[t] + 1 /\ depth[t] <= Top(size[c])
      /\ Key(size[c], depth[t]) = Key(size[t], depth[t])
  BY <1>2, <1>3 DEF Hangs
<1>5. depth[t] \in Nat /\ Top(size[c]) \in Nat
  BY <1>2, NodesAre
<1>6. depth[t] <= depth[c] /\ depth[t] \in 0 .. Top(size[c])
  BY <1>4, <1>5
<1>7. Descends(depth, c, t)
  BY <1>2, <1>4, <1>6 DEF Descends
<1> QED
  BY <1>2, <1>4, <1>6, <1>7

LEMMA Descent ==
  ASSUME NEW depth \in Depth, Tries(depth), NEW t, NEW u, NEW v, Descends(depth, u, t), Descends(depth, v, u)
  PROVE  Descends(depth, v, t)
<1> DEFINE d == depth[t]
           e == depth[u]
           a == size[u]
           b == size[v]
<1>1. t \in Nodes /\ u \in Nodes /\ v \in Nodes /\ index[u] = index[t] /\ index[v] = index[u]
      /\ d <= e /\ e <= depth[v] /\ Key(a, d) = Key(size[t], d) /\ Key(b, e) = Key(a, e)
  BY DEF Descends
<1>2. d \in Nat /\ Top(a) \in Nat /\ e \in 0 .. Top(a) + 1 /\ depth[v] \in Nat /\ a \in Indexable /\ b \in Indexable
      /\ compute_tree_index(a) = compute_tree_index(b)
  BY <1>1, NodesAre
<1>3. Key(b, d) = Key(a, d)
  <2> HIDE DEF a, b, d, e
  <2>1. d \in 0 .. Top(a) + 1
    BY <1>1, <1>2
  <2> QED
    BY <1>1, <1>2, <2>1, SameBin
<1>4. d <= depth[v]
  <2> HIDE DEF d, e
  <2> QED
    BY <1>1, <1>2
<1> QED
  BY <1>1, <1>3, <1>4 DEF Descends

----------------------------------------------------------------------------
(* The way of a size from the root, and what it says about insertion.      *)

LEMMA PathIs ==
  ASSUME NEW depth \in Depth, Tries(depth), NEW s \in LargeSizes
  PROVE  /\ Path(s) \in [0 .. Bits -> Link]
         /\ Path(s)[0] = treebins[compute_tree_index(s)]
         /\ \A d \in 0 .. Bits : d # 0 =>
               Path(s)[d] = IF Path(s)[d - 1] = NoChunk THEN NoChunk
                            ELSE IF size[Path(s)[d - 1]] = s THEN NoChunk
                            ELSE child[Path(s)[d - 1]][Side(s, d - 1)]
<1> DEFINE i == compute_tree_index(s)
           g == [t \in Link |-> [d \in Nat |->
                   IF d = 0 \/ t = NoChunk THEN NoChunk
                   ELSE IF size[t] = s THEN NoChunk ELSE child[t][Side(s, d - 1)]]]
           z == treebins[i]
<1>1. Bits \in Nat /\ 0 \in Nat /\ i \in Bins /\ z \in Link
  BY Widths, IndexIsBin DEF Tries, TypeOK
<1>2. g \in [Link -> [Nat -> Link]]
  <2>1. ASSUME NEW t \in Link, NEW d \in Nat, d # 0, t # NoChunk PROVE child[t][Side(s, d - 1)] \in Link
    <3>1. t \in Chunk /\ d - 1 \in Nat
      BY <2>1 DEF Link
    <3>2. Side(s, d - 1) \in 0 .. 1
      BY <3>1, Keys
    <3> QED
      BY <3>1, <3>2 DEF Tries, TypeOK
  <2>2. NoChunk \in Link
    BY DEF Link
  <2> QED
    BY <2>1, <2>2
<1>3. PICK f \in [0 .. Bits -> Link] : Iterates(f, 0, Bits, z, g)
  <2> DEFINE X == Link
  <2>1. z \in X /\ g \in [X -> [Nat -> X]]
    BY <1>1, <1>2
  <2> HIDE DEF g, z, X
  <2>2. \E f \in [0 .. Bits -> X] : Iterates(f, 0, Bits, z, g)
    BY <1>1, <2>1, Iteration
  <2> QED
    BY <2>2 DEF X
<1> DEFINE Step(t, d) == IF t = NoChunk THEN NoChunk ELSE IF size[t] = s THEN NoChunk ELSE child[t][Direction(s, i, d - 1)]
<1>4. ASSUME NEW d \in 0 .. Bits PROVE f[d] = IF d = 0 THEN treebins[i] ELSE Step(f[d - 1], d)
  <2>1. f[d] = IF d = 0 THEN z ELSE g[f[d - 1]][d]
    BY <1>3 DEF Iterates
  <2>2. CASE d = 0
    BY <2>1, <2>2
  <2>3. CASE d # 0
    <3>1. d - 1 \in 0 .. Bits /\ d \in Nat
      BY <1>1, <2>3
    <3>2. f[d - 1] \in Link
      BY <3>1
    <3>3. g[f[d - 1]][d] = Step(f[d - 1], d)
      BY <2>3, <3>1, <3>2 DEF Side
    <3> HIDE DEF g, Step
    <3> QED
      BY <2>1, <2>3, <3>3
  <2> QED
    BY <2>2, <2>3
<1> DEFINE Is(node) == node = [d \in 0 .. Bits |->
                IF d = 0 THEN treebins[i]
                ELSE LET t == node[d - 1]
                     IN  IF t = NoChunk THEN NoChunk
                         ELSE IF size[t] = s THEN NoChunk ELSE child[t][Direction(s, i, d - 1)]]
<1>5. Is(f)
  BY <1>4
<1>6. Path(s) = CHOOSE node : Is(node)
  BY DEF Path
<1>7. Is(Path(s))
  <2> HIDE DEF Is
  <2> QED
    BY <1>5, <1>6
<1>8. \A h : Is(h) => \A d \in 0 .. Bits : h[d] = IF d = 0 THEN treebins[i] ELSE Step(h[d - 1], d)
  OBVIOUS
<1>9. \A d \in 0 .. Bits : Path(s)[d] = IF d = 0 THEN treebins[i] ELSE Step(Path(s)[d - 1], d)
  <2> HIDE DEF Is, Step
  <2> QED
    BY <1>7, <1>8
<1>10. Path(s) \in [0 .. Bits -> Link]
  <2>1. \A h : Is(h) => h = [d \in 0 .. Bits |-> h[d]]
    OBVIOUS
  <2>2. Path(s) = [d \in 0 .. Bits |-> Path(s)[d]]
    <3> HIDE DEF Is
    <3> QED
      BY <1>7, <2>1
  <2> DEFINE R == {d \in 0 .. Bits : Path(s)[d] \in Link}
             w == Path(s)
  <2>3. w[0] \in Link
    BY <1>1, <1>9
  <2>4. ASSUME NEW d \in 0 .. Bits, w[d] \in Link, d + 1 <= Bits PROVE w[d + 1] \in Link
    <3>1. d + 1 \in 0 .. Bits /\ d + 1 # 0 /\ (d + 1) - 1 = d /\ d + 1 \in Nat
      BY <1>1, <2>4
    <3>2. w[d + 1] = Step(w[d], d + 1)
      <4> HIDE DEF Step
      <4> QED
        BY <1>9, <3>1
    <3>3. Step(w[d], d + 1) = g[w[d]][d + 1]
      <4> HIDE DEF w
      <4> QED
        BY <2>4, <3>1 DEF Side
    <3>4. g[w[d]][d + 1] \in Link
      <4> HIDE DEF g, w
      <4> QED
        BY <1>2, <2>4, <3>1
    <3> HIDE DEF g, w, Step
    <3> QED
      BY <3>2, <3>3, <3>4
  <2>5. \A d \in 0 .. Bits : d \in R
    <3>1. 0 \in R /\ 0 <= Bits
      BY <1>1, <2>3
    <3>2. \A d \in 0 .. Bits : d \in R /\ d + 1 <= Bits => d + 1 \in R
      BY <1>1, <2>4
    <3> HIDE DEF R
    <3> QED
      BY <1>1, <3>1, <3>2, Along
  <2> QED
    BY <2>2, <2>5
<1>11. Path(s)[0] = treebins[i]
  <2> HIDE DEF Step
  <2> QED
    BY <1>1, <1>9
<1>12. ASSUME NEW d \in 0 .. Bits, d # 0
       PROVE  Path(s)[d] = IF Path(s)[d - 1] = NoChunk THEN NoChunk
                           ELSE IF size[Path(s)[d - 1]] = s THEN NoChunk
                           ELSE child[Path(s)[d - 1]][Side(s, d - 1)]
  BY <1>9, <1>12 DEF Side
<1> QED
  BY <1>10, <1>11, <1>12

\* The nodes on the way of a size have its key at their depth.
LEMMA OnTheWay ==
  ASSUME NEW depth \in Depth, Tries(depth), NEW s \in Indexable, NEW d \in 0 .. Bits, Path(s)[d] # NoChunk
  PROVE  LET t == Path(s)[d]
         IN  /\ t \in Nodes /\ index[t] = compute_tree_index(s) /\ depth[t] = d
             /\ d \in 0 .. Top(s) + 1 /\ Key(size[t], d) = Key(s, d)
             /\ \A e \in 0 .. d : Path(s)[e] # NoChunk
             /\ \A e \in 0 .. d : e # d => size[Path(s)[e]] # s
<1> DEFINE w == Path(s)
           i == compute_tree_index(s)
           Right(e) == /\ w[e] \in Nodes /\ index[w[e]] = i /\ depth[w[e]] = e
                       /\ e \in 0 .. Top(s) + 1 /\ Key(size[w[e]], e) = Key(s, e)
                       /\ \A c \in 0 .. e : w[c] # NoChunk
                       /\ \A c \in 0 .. e : c # e => size[w[c]] # s
           R == {e \in 0 .. Bits : w[e] # NoChunk => Right(e)}
<1>1. Bits \in Nat /\ Top(s) \in Nat /\ Top(s) + 1 \in 0 .. Bits /\ i \in Bins
  BY Widths, Keys, LargeSizesAre, IndexIsBin
<1>2. w[0] # NoChunk => Right(0)
  <2> SUFFICES ASSUME w[0] # NoChunk PROVE Right(0)
    OBVIOUS
  <2>1. w[0] = treebins[i]
    BY PathIs, LargeSizesAre
  <2>2. w[0] \in Nodes /\ index[w[0]] = i /\ parent[w[0]] = Bin
    BY <1>1, <2>1 DEF Tries, Roots
  <2>3. depth[w[0]] = 0
    BY <2>2, NodesAre DEF Hangs
  <2>4. Key(size[w[0]], 0) = Key(s, 0)
    BY <2>2, NodesAre, SameBin
  <2> HIDE DEF w, i
  <2> QED
    BY <1>1, <2>2, <2>3, <2>4
<1>3. ASSUME NEW e \in 0 .. Bits, w[e] # NoChunk => Right(e), e + 1 <= Bits, w[e + 1] # NoChunk PROVE Right(e + 1)
  <2>1. e + 1 \in 0 .. Bits /\ e + 1 # 0 /\ (e + 1) - 1 = e /\ e \in Nat
    BY <1>1, <1>3
  <2>2. w[e + 1] = IF w[e] = NoChunk THEN NoChunk ELSE IF size[w[e]] = s THEN NoChunk ELSE child[w[e]][Side(s, e)]
    BY <2>1, PathIs, LargeSizesAre
  <2> DEFINE t == w[e]
             c == w[e + 1]
  <2>3. t # NoChunk /\ size[t] # s /\ c = child[t][Side(s, e)]
    <3> HIDE DEF w
    <3> QED
      BY <1>3, <2>2
  <2>4. Right(e)
    BY <1>3, <2>3
  <2> HIDE DEF w, i
  <2>5. t \in Nodes /\ index[t] = i /\ depth[t] = e /\ e \in 0 .. Top(s) + 1 /\ Key(size[t], e) = Key(s, e)
        /\ (\A b \in 0 .. e : w[b] # NoChunk) /\ \A b \in 0 .. e : b # e => size[w[b]] # s
    BY <2>4
  <2>6. Side(s, e) \in 0 .. 1 /\ t \in Chunk
    BY <2>1, <2>5, Keys, LargeSizesAre, NodesAre
  <2>7. c \in Nodes /\ index[c] = index[t] /\ depth[c] = depth[t] + 1
        /\ Side(size[c], e) = Side(s, e) /\ e \in 0 .. Top(size[c]) /\ Descends(depth, c, t)
    <3>1. child[t][Side(s, e)] # NoChunk
      BY <1>3, <2>3
    <3> HIDE DEF t, c
    <3> QED
      BY <2>3, <2>5, <2>6, <3>1, Children
  <2>8. size[c] \in Indexable /\ compute_tree_index(size[c]) = compute_tree_index(s) /\ Top(size[c]) = Top(s)
    <3>1. size[c] \in Indexable /\ compute_tree_index(size[c]) = compute_tree_index(s)
      BY <2>5, <2>7, NodesAre DEF i
    <3> QED
      BY <3>1, SameBin
  <2>9. Key(size[c], e) = Key(s, e)
    BY <2>5, <2>7 DEF Descends
  <2>10. Key(size[c], e + 1) = Key(s, e + 1)
    BY <2>7, <2>8, <2>9, SameSide
  <2>11. e + 1 \in 0 .. Top(s) + 1
    BY <1>1, <2>7, <2>8
  <2>12. \A b \in 0 .. e + 1 : b \in 0 .. e \/ b = e + 1
    BY <2>1
  <2>13. \A b \in 0 .. e + 1 : w[b] # NoChunk
    BY <1>3, <2>5, <2>12
  <2>14. \A b \in 0 .. e + 1 : b # e + 1 => size[w[b]] # s
    BY <2>3, <2>5, <2>12
  <2> QED
    BY <2>5, <2>7, <2>10, <2>11, <2>13, <2>14
<1>4. \A e \in 0 .. Bits : e \in R
  <2>1. 0 \in R /\ 0 <= Bits
    <3> HIDE DEF Right
    <3> QED
      BY <1>1, <1>2
  <2>2. \A e \in 0 .. Bits : e \in R /\ e + 1 <= Bits => e + 1 \in R
    <3> SUFFICES ASSUME NEW e \in 0 .. Bits, e \in R, e + 1 <= Bits PROVE e + 1 \in R
      OBVIOUS
    <3>1. w[e] # NoChunk => Right(e)
      <4> HIDE DEF Right, w
      <4> QED
        OBVIOUS
    <3>2. w[e + 1] # NoChunk => Right(e + 1)
      <4> HIDE DEF Right, w
      <4> QED
        BY <1>3, <3>1
    <3>3. e + 1 \in 0 .. Bits
      BY <1>1
    <3> HIDE DEF Right, w
    <3> QED
      BY <3>2, <3>3
  <2> HIDE DEF R
  <2> QED
    BY <1>1, <2>1, <2>2, Along
<1>5. Right(d)
  <2>1. w[d] # NoChunk
    OBVIOUS
  <2>2. d \in R
    BY <1>4
  <2> HIDE DEF Right, w
  <2> QED
    BY <2>1, <2>2
<1> QED
  BY <1>5

\* The way of a size leads to every node of its key, unless it has met the size before.
LEMMA Reached ==
  ASSUME NEW depth \in Depth, Tries(depth), NEW s \in Indexable, NEW t \in Nodes,
         index[t] = compute_tree_index(s), NEW n \in 0 .. depth[t], Key(size[t], n) = Key(s, n),
         \A e \in 0 .. n : e # n /\ Path(s)[e] # NoChunk => size[Path(s)[e]] # s
  PROVE  n \in 0 .. Bits /\ Path(s)[n] # NoChunk /\ Descends(depth, t, Path(s)[n])
<1> DEFINE w == Path(s)
           a == size[t]
           R == {e \in 0 .. n : w[e] # NoChunk /\ Descends(depth, t, w[e])}
<1>1. Bits \in Nat /\ Top(a) \in Nat /\ Top(a) + 1 \in 0 .. Bits /\ depth[t] \in 0 .. Top(a) + 1 /\ a \in Indexable
      /\ index[t] = compute_tree_index(a)
  BY Widths, NodesAre
<1>2. n \in Nat /\ n \in 0 .. Top(a) + 1 /\ n \in 0 .. Bits
  <2> HIDE DEF a
  <2> QED
    BY <1>1
<1>3. 0 \in R
  <2>1. PICK r \in Nodes : depth[r] = 0 /\ Descends(depth, t, r)
    <3>1. 0 \in 0 .. depth[t]
      BY <1>1
    <3> QED
      BY <3>1, Ancestors
  <2>2. Hangs(depth, r)
    BY <2>1, NodesAre
  <2>3. parent[r] = Bin
    <3> SUFFICES ASSUME parent[r] # Bin PROVE FALSE
      OBVIOUS
    <3>1. parent[r] \in Nodes /\ depth[r] = depth[parent[r]] + 1
      BY <2>2 DEF Hangs
    <3>2. depth[parent[r]] \in Nat
      BY <3>1, NodesAre
    <3> QED
      BY <2>1, <3>1, <3>2
  <2>4. treebins[index[r]] = r /\ index[r] = index[t]
    BY <2>1, <2>2, <2>3 DEF Hangs, Descends
  <2>5. w[0] = r
    BY <2>4, PathIs, LargeSizesAre
  <2>6. r # NoChunk
    BY <2>1, NodesAre
  <2> HIDE DEF w
  <2> QED
    BY <1>2, <2>1, <2>5, <2>6
<1>4. ASSUME NEW e \in 0 .. n, e \in R, e + 1 <= n PROVE e + 1 \in R
  <2>1. w[e] # NoChunk /\ Descends(depth, t, w[e])
    <3> HIDE DEF w
    <3> QED
      BY <1>4
  <2>2. e \in 0 .. Bits /\ e + 1 \in 0 .. Bits /\ e \in 0 .. Top(a) /\ e # n /\ e + 1 # 0 /\ (e + 1) - 1 = e
        /\ e + 1 \in 0 .. n /\ e \in Nat /\ e + 1 \in 0 .. Top(a) + 1
    <3> HIDE DEF a
    <3> QED
      BY <1>1, <1>2, <1>4
  <2>3. size[w[e]] # s /\ depth[w[e]] = e
    <3>1. depth[w[e]] = e
      BY <2>1, <2>2, OnTheWay
    <3> QED
      BY <2>1, <2>2, <3>1
  <2>4. depth[w[e]] # depth[t]
    BY <1>1, <1>2, <2>2, <2>3
  <2> DEFINE c == child[w[e]][Side(a, e)]
  <2>5. c \in Nodes /\ Descends(depth, t, c)
    BY <2>1, <2>3, <2>4, Downward
  <2>6. Side(a, e) = Side(s, e)
    <3>1. Key(a, e + 1) = Key(s, e + 1)
      <4>1. compute_tree_index(a) = compute_tree_index(s)
        BY <1>1
      <4> HIDE DEF a
      <4>2. Key(a, n) = Key(s, n)
        BY DEF a
      <4> QED
        BY <1>1, <1>2, <1>4, <2>2, <4>1, <4>2, SameBin, ZenonT(60)
    <3>2. compute_tree_index(a) = compute_tree_index(s)
      BY <1>1
    <3> HIDE DEF a
    <3> QED
      BY <1>1, <2>2, <3>1, <3>2, SameSide
  <2>7. w[e + 1] = c
    <3>1. w[e + 1] = IF w[e] = NoChunk THEN NoChunk ELSE IF size[w[e]] = s THEN NoChunk ELSE child[w[e]][Side(s, e)]
      BY <2>2, PathIs, LargeSizesAre
    <3> HIDE DEF w, a
    <3> QED
      BY <2>1, <2>3, <2>6, <3>1
  <2>8. c # NoChunk
    BY <2>5, NodesAre
  <2> HIDE DEF w, c
  <2> QED
    BY <2>2, <2>5, <2>7, <2>8
<1>5. n \in R
  <2>1. 0 <= n
    BY <1>2
  <2> HIDE DEF R
  <2>2. \A e \in 0 .. n : e \in R
    BY <1>2, <1>3, <1>4, <2>1, Along
  <2> QED
    BY <1>2, <2>2
<1> QED
  BY <1>2, <1>5

\* Where the way of a size ends: at a node of that size, or at one that has no
\* child where the size would have to be.
LEMMA EndOfWay ==
  ASSUME NEW depth \in Depth, Tries(depth), NEW s \in Indexable, compute_tree_index(s) \in treemap
  PROVE  LET d == Deepest(Depths(Path(s)))
             t == Path(s)[d]
         IN  /\ d \in 0 .. Bits /\ t \in Nodes /\ index[t] = compute_tree_index(s) /\ depth[t] = d
             /\ d \in 0 .. Top(s) + 1 /\ Key(size[t], d) = Key(s, d)
             /\ size[t] # s => /\ d \in 0 .. Top(s) /\ child[t][Side(s, d)] = NoChunk
                               /\ \A u \in Nodes : size[u] # s
<1> DEFINE w == Path(s)
           S == Depths(w)
           d == Deepest(S)
           t == w[d]
<1>1. Bits \in Nat /\ Top(s) \in Nat /\ Top(s) + 1 \in 0 .. Bits /\ compute_tree_index(s) \in Bins
  BY Widths, Keys, LargeSizesAre, IndexIsBin
<1>2. S = {e \in 0 .. Bits : w[e] # NoChunk}
  BY PathIs, LargeSizesAre DEF Depths
<1>3. d \in S /\ \A e \in S : e <= d
  <2>1. 0 \in S
    <3>1. w[0] # NoChunk
      BY <1>1, PathIs, LargeSizesAre DEF Tries, Roots
    <3> HIDE DEF w, S
    <3> QED
      BY <1>1, <1>2, <3>1
  <2>2. S \in SUBSET (0 .. Bits)
    BY <1>2
  <2> HIDE DEF S
  <2>3. \E m \in S : \A e \in S : e <= m
    BY <1>1, <2>1, <2>2, Greatest
  <2> QED
    BY <2>3 DEF Deepest
<1>4. d \in 0 .. Bits /\ w[d] # NoChunk /\ \A e \in 0 .. Bits : w[e] # NoChunk => e <= d
  <2> HIDE DEF d
  <2> QED
    BY <1>2, <1>3
<1> HIDE DEF d, S
<1>5. t \in Nodes /\ index[t] = compute_tree_index(s) /\ depth[t] = d
      /\ d \in 0 .. Top(s) + 1 /\ Key(size[t], d) = Key(s, d) /\ \A e \in 0 .. d : e # d => size[w[e]] # s
  BY <1>4, OnTheWay
<1>6. ASSUME size[t] # s
      PROVE  d \in 0 .. Top(s) /\ child[t][Side(s, d)] = NoChunk /\ \A u \in Nodes : size[u] # s
  <2>1. size[t] \in Indexable /\ compute_tree_index(size[t]) = compute_tree_index(s)
    BY <1>5, NodesAre
  <2>2. d # Top(s) + 1
    <3> SUFFICES ASSUME d = Top(s) + 1 PROVE FALSE
      OBVIOUS
    <3>1. Top(size[t]) = Top(s)
      BY <2>1, SameBin
    <3>2. Key(size[t], Top(size[t]) + 1) = size[t] /\ Key(s, Top(s) + 1) = s
      BY <2>1, Keys, LargeSizesAre
    <3> QED
      BY <1>5, <1>6, <3>1, <3>2
  <2>3. d \in 0 .. Top(s) /\ d + 1 \in 0 .. Bits /\ (d + 1) - 1 = d /\ d + 1 # 0 /\ ~(d + 1 <= d)
    BY <1>1, <1>5, <2>2
  <2>4. w[d + 1] = IF w[d] = NoChunk THEN NoChunk ELSE IF size[w[d]] = s THEN NoChunk ELSE child[w[d]][Side(s, d)]
    BY <2>3, PathIs, LargeSizesAre
  <2>5. w[d + 1] = NoChunk
    <3> HIDE DEF w
    <3> QED
      BY <1>4, <2>3
  <2>6. child[t][Side(s, d)] = NoChunk
    <3> HIDE DEF w
    <3> QED
      BY <1>4, <1>6, <2>4, <2>5
  <2>7. ASSUME NEW u \in Nodes, size[u] = s PROVE FALSE
    <3>1. \A e \in 0 .. Bits : w[e] # NoChunk => size[w[e]] # s
      <4> SUFFICES ASSUME NEW e \in 0 .. Bits, w[e] # NoChunk PROVE size[w[e]] # s
        OBVIOUS
      <4>1. e \in 0 .. d
        <5> HIDE DEF w
        <5> QED
          BY <1>4
      <4> HIDE DEF w
      <4> QED
        BY <1>5, <1>6, <4>1
    <3>2. index[u] = compute_tree_index(s) /\ depth[u] \in 0 .. Top(s) + 1
      BY <2>7, NodesAre
    <3> DEFINE n == depth[u]
    <3>3. n \in 0 .. depth[u] /\ Key(size[u], n) = Key(s, n) /\ n \in 0 .. Bits
      BY <1>1, <2>7, <3>2
    <3>4. \A e \in 0 .. n : e # n /\ w[e] # NoChunk => size[w[e]] # s
      <4> HIDE DEF w, n
      <4>1. \A e \in 0 .. n : e \in 0 .. Bits
        BY <1>1, <3>3
      <4> QED
        BY <3>1, <4>1
    <3>5. w[n] # NoChunk /\ Descends(depth, u, w[n])
      <4> HIDE DEF n
      <4> QED
        BY <3>2, <3>3, <3>4, Reached
    <3>6. w[n] \in Nodes /\ index[w[n]] = index[u] /\ Key(size[u], depth[w[n]]) = Key(size[w[n]], depth[w[n]])
      BY <3>5 DEF Descends
    <3>7. depth[w[n]] = n
      <4> HIDE DEF n
      <4> QED
        BY <3>3, <3>5, OnTheWay
    <3>8. u = w[n]
      <4> HIDE DEF w
      <4>1. index[u] = index[w[n]] /\ depth[u] = depth[w[n]] /\ Key(size[u], depth[u]) = Key(size[w[n]], depth[u])
        BY <3>6, <3>7
      <4> HIDE DEF n
      <4> QED
        BY <3>6, <4>1, OnePlace
    <3> HIDE DEF w, n
    <3> QED
      BY <2>7, <3>1, <3>3, <3>5, <3>8
  <2> QED
    BY <2>3, <2>6, <2>7
<1> QED
  BY <1>4, <1>5, <1>6 DEF d, S

\* The root of a node's bin.
LEMMA RootOf ==
  ASSUME NEW depth \in Depth, Tries(depth), NEW t \in Nodes
  PROVE  LET r == treebins[index[t]]
         IN  index[t] \in treemap /\ r \in Nodes /\ index[r] = index[t] /\ depth[r] = 0 /\ Descends(depth, t, r)
<1>1. depth[t] \in Nat /\ index[t] \in Bins
  BY NodesAre
<1>2. PICK r \in Nodes : depth[r] = 0 /\ Descends(depth, t, r)
  <2>1. 0 \in 0 .. depth[t]
    BY <1>1
  <2> QED
    BY <2>1, Ancestors
<1>3. Hangs(depth, r) /\ index[r] = index[t] /\ r # NoChunk
  BY <1>2, NodesAre DEF Descends
<1>4. parent[r] = Bin
  <2> SUFFICES ASSUME parent[r] # Bin PROVE FALSE
    OBVIOUS
  <2>1. parent[r] \in Nodes /\ depth[r] = depth[parent[r]] + 1
    BY <1>3 DEF Hangs
  <2>2. depth[parent[r]] \in Nat
    BY <2>1, NodesAre
  <2> QED
    BY <1>2, <2>1, <2>2
<1>5. treebins[index[t]] = r
  BY <1>3, <1>4 DEF Hangs
<1>6. index[t] \in treemap
  BY <1>1, <1>3, <1>5 DEF Tries, Roots
<1> QED
  BY <1>2, <1>3, <1>5, <1>6

\* A chunk that is not binned is nowhere in the trees.
LEMMA Outside ==
  ASSUME NEW depth \in Depth, Tries(depth), NEW x \in Chunk, x \notin Nodes
  PROVE  /\ \A k \in 0 .. 1 : child[x][k] = NoChunk
         /\ \A t \in Chunk, k \in 0 .. 1 : child[t][k] # x
         /\ \A i \in Bins : treebins[i] # x
         /\ \A t \in Nodes : parent[t] # x
<1>1. x # NoChunk /\ x # Bin
  BY ChunkAssumption
<1>2. \A k \in 0 .. 1 : child[x][k] = NoChunk
  BY DEF Tries, Holds
<1>3. \A t \in Chunk, k \in 0 .. 1 : child[t][k] # x
  BY <1>1 DEF Tries, Holds
<1>4. \A i \in Bins : treebins[i] # x
  BY <1>1 DEF Tries, Roots
<1>5. ASSUME NEW t \in Nodes PROVE parent[t] # x
  <2>1. Hangs(depth, t)
    BY NodesAre
  <2> QED
    BY <1>1, <2>1 DEF Hangs
<1> QED
  BY <1>2, <1>3, <1>4, <1>5

----------------------------------------------------------------------------
(* Insertion.                                                              *)

LEMMA SizesAre ==
  ASSUME TypeOK
  PROVE  ChunkSizes \subseteq Indexable /\ \A s \in ChunkSizes : s \in Nat \ {0}
BY LargeSizesAre DEF TypeOK

\* A ring that a step does not touch.
LEMMA RingKept ==
  ASSUME NEW r \in Seq(Chunk), NEW s, Ring(r, s),
         \A y \in Chunk : size'[y] = s <=> size[y] = s,
         \A y \in Chunk : size[y] = s =>
            /\ parent'[y] # NoChunk <=> parent[y] # NoChunk
            /\ fd'[y] = fd[y] /\ bk'[y] = bk[y]
  PROVE  Ring(r, s)'
<1> DEFINE n == Len(r)
<1>1. n \in Nat /\ \A j \in 1 .. n : r[j] \in Chunk
  OBVIOUS
<1>2. \A j \in 1 .. n : After(j, n) \in 1 .. n
  BY <1>1 DEF After
<1>3. \A j \in 1 .. n : /\ size[r[j]] = s /\ (parent[r[j]] # NoChunk <=> j = 1)
                        /\ bk[r[j]] = r[After(j, n)] /\ fd[r[After(j, n)]] = r[j]
  BY DEF Ring
<1>4. ASSUME NEW j \in 1 .. n
      PROVE  /\ size'[r[j]] = s /\ (parent'[r[j]] # NoChunk <=> j = 1)
             /\ bk'[r[j]] = r[After(j, n)] /\ fd'[r[After(j, n)]] = r[j]
  <2> DEFINE m == After(j, n)
  <2>1. m \in 1 .. n /\ r[m] \in Chunk /\ size[r[m]] = s /\ r[j] \in Chunk
    BY <1>1, <1>2, <1>3
  <2> HIDE DEF m
  <2>2. size[r[j]] = s /\ (parent[r[j]] # NoChunk <=> j = 1) /\ bk[r[j]] = r[m] /\ fd[r[m]] = r[j]
    BY <1>3 DEF m
  <2>3. size'[r[j]] = s /\ (parent'[r[j]] # NoChunk <=> j = 1) /\ bk'[r[j]] = r[m] /\ fd'[r[m]] = r[j]
    BY <2>1, <2>2
  <2> QED
    BY <2>3 DEF m
<1>5. \A j, k \in 1 .. n : r[j] = r[k] => j = k
  BY DEF Ring
<1>6. \A y \in Chunk : size'[y] = s => \E j \in 1 .. n : r[j] = y
  BY DEF Ring
<1> QED
  BY <1>4, <1>5, <1>6 DEF Ring

\* A size that no node has is in no ring.
LEMMA NewSize ==
  ASSUME NEW depth \in Depth, NEW q \in Order, Sound(depth, q), NEW s \in ChunkSizes,
         \A u \in Nodes : size[u] # s
  PROVE  q[s] = <<>> /\ Len(q[s]) = 0 /\ \A y \in Chunk : size[y] # s
<1>1. s \in Indexable /\ s # 0 /\ q[s] \in Seq(Chunk) /\ Ring(q[s], s)
  BY SizesAre DEF Order, Sound, Tries
<1>2. Len(q[s]) = 0
  <2> SUFFICES ASSUME Len(q[s]) # 0 PROVE FALSE
    OBVIOUS
  <2>1. 1 \in 1 .. Len(q[s]) /\ q[s][1] \in Chunk
    BY <1>1
  <2>2. size[q[s][1]] = s /\ parent[q[s][1]] # NoChunk
    BY <1>1, <2>1 DEF Ring
  <2>3. q[s][1] \in Nodes
    BY <1>1, <2>1, <2>2 DEF Nodes, Binned
  <2> QED
    BY <2>2, <2>3
<1>3. \A y \in Chunk : size[y] # s
  BY <1>1, <1>2 DEF Ring
<1> QED
  BY <1>1, <1>2, <1>3

\* A new node is a ring of its own.
LEMMA NewRing ==
  ASSUME NEW depth \in Depth, NEW q \in Order, Sound(depth, q), NEW s \in ChunkSizes, NEW x \in Chunk,
         \A u \in Nodes : size[u] # s, size[x] = 0, NEW p \in Link \cup {Bin}, p # NoChunk,
         size' = [size EXCEPT ![x] = s], parent' = [parent EXCEPT ![x] = p], fd' = fd, bk' = bk
  PROVE  LET r == [q EXCEPT ![s] = Append(q[s], x)]
         IN  r \in Order /\ (\A z \in Indexable : Ring(r[z], z)') /\ \A y \in Chunk : Loose(y)'
<1> DEFINE r == [q EXCEPT ![s] = Append(q[s], x)]
<1>1. s \in Indexable /\ s # 0 /\ q[s] = <<>> /\ Len(q[s]) = 0 /\ \A y \in Chunk : size[y] # s
  BY SizesAre, NewSize DEF Sound, Tries
<1>2. \A z \in Indexable : q[z] \in Seq(Chunk) /\ Ring(q[z], z) /\ z # 0
  BY LargeSizesAre DEF Order, Sound
<1>3. /\ \A y \in Chunk : size'[y] = IF y = x THEN s ELSE size[y]
      /\ \A y \in Chunk : parent'[y] = IF y = x THEN p ELSE parent[y]
  BY DEF Sound, Tries, TypeOK
<1>4. r \in Order
  <2>1. Append(q[s], x) \in Seq(Chunk) /\ q \in [Indexable -> Seq(Chunk)]
    BY <1>1, <1>2 DEF Order
  <2> QED
    BY <2>1 DEF Order
<1>5. fd[x] = x /\ bk[x] = x
  BY DEF Sound, Loose
<1>6. ASSUME NEW z \in Indexable PROVE Ring(r[z], z)'
  <2>1. CASE z = s
    <3> DEFINE l == r[s]
    <3>1. l = <<x>>
      BY <1>1 DEF Order
    <3> HIDE DEF r
    <3>2. Len(l) = 1 /\ l[1] = x /\ \A j \in 1 .. Len(l) : j = 1 /\ After(j, Len(l)) = 1
      BY <3>1 DEF After
    <3>3. size'[x] = s /\ parent'[x] # NoChunk /\ fd'[x] = x /\ bk'[x] = x
      BY <1>3, <1>5
    <3>4. \A y \in Chunk : size'[y] = s => y = x
      BY <1>1, <1>3
    <3> HIDE DEF l
    <3>5. Ring(l, s)'
      BY <3>2, <3>3, <3>4 DEF Ring
    <3> QED
      BY <2>1, <3>5 DEF l
  <2>2. CASE z # s
    <3>1. r[z] = q[z]
      BY <2>2 DEF Order
    <3> DEFINE l == q[z]
    <3>2. l \in Seq(Chunk) /\ Ring(l, z) /\ z # 0
      BY <1>2
    <3>3. \A y \in Chunk : size'[y] = z <=> size[y] = z
      BY <1>3, <2>2, <3>2
    <3>4. \A y \in Chunk : size[y] = z => /\ parent'[y] # NoChunk <=> parent[y] # NoChunk
                                          /\ fd'[y] = fd[y] /\ bk'[y] = bk[y]
      BY <1>3, <3>2
    <3> HIDE DEF l
    <3>5. Ring(l, z)'
      BY <3>2, <3>3, <3>4, RingKept
    <3> HIDE DEF r
    <3> QED
      BY <3>1, <3>5 DEF l
  <2> QED
    BY <2>1, <2>2
<1>7. ASSUME NEW y \in Chunk PROVE Loose(y)'
  <2>1. Loose(y)
    BY DEF Sound
  <2> QED
    BY <1>1, <1>3, <2>1 DEF Loose
<1> QED
  BY <1>4, <1>6, <1>7

LEMMA Entered ==
  ASSUME TypeOK, NEW x \in Chunk, NEW s \in ChunkSizes, Enter(x, s)
  PROVE  /\ size[x] = 0 /\ x \notin Nodes
         /\ size' \in [Chunk -> {0} \cup ChunkSizes] /\ index' \in [Chunk -> Bins]
         /\ \A y \in Chunk : size'[y] = IF y = x THEN s ELSE size[y]
         /\ \A y \in Chunk : index'[y] = IF y = x THEN compute_tree_index(s) ELSE index[y]
         /\ \A y \in Binned' : index'[y] = compute_tree_index(size'[y])
         /\ Binned' = Binned \cup {x}
<1>1. s \in Indexable /\ s # 0 /\ compute_tree_index(s) \in Bins
  BY SizesAre, LargeSizesAre, IndexIsBin
<1>2. size[x] = 0 /\ size' = [size EXCEPT ![x] = s] /\ index' = [index EXCEPT ![x] = compute_tree_index(s)]
  BY DEF Enter
<1>3. size' \in [Chunk -> {0} \cup ChunkSizes] /\ index' \in [Chunk -> Bins]
  BY <1>1, <1>2 DEF TypeOK
<1>4. /\ \A y \in Chunk : size'[y] = IF y = x THEN s ELSE size[y]
      /\ \A y \in Chunk : index'[y] = IF y = x THEN compute_tree_index(s) ELSE index[y]
  BY <1>2 DEF TypeOK
<1>5. Binned' = Binned \cup {x}
  BY <1>1, <1>4 DEF Binned
<1>6. ASSUME NEW y \in Binned' PROVE index'[y] = compute_tree_index(size'[y])
  <2>1. y \in Chunk
    BY DEF Binned
  <2>2. CASE y = x
    BY <1>4, <2>1, <2>2
  <2>3. CASE y # x
    <3>1. y \in Binned
      BY <1>5, <2>3
    <3> QED
      BY <1>4, <2>1, <2>3, <3>1 DEF TypeOK
  <2> QED
    BY <2>2, <2>3
<1>7. x \notin Nodes
  BY <1>2 DEF Nodes, Binned
<1> QED
  BY <1>2, <1>3, <1>4, <1>5, <1>6, <1>7

LEMMA InsertRootKeeps ==
  ASSUME NEW depth \in Depth, NEW q \in Order, Sound(depth, q), NEW x \in Chunk, NEW s \in ChunkSizes,
         InsertRoot(x, s)
  PROVE  /\ [depth EXCEPT ![x] = 0] \in Depth /\ [q EXCEPT ![s] = Append(q[s], x)] \in Order
         /\ Sound([depth EXCEPT ![x] = 0], [q EXCEPT ![s] = Append(q[s], x)])'
<1> DEFINE i == compute_tree_index(s)
           dd == [depth EXCEPT ![x] = 0]
           qq == [q EXCEPT ![s] = Append(q[s], x)]
<1>1. Tries(depth) /\ TypeOK /\ s \in Indexable /\ s # 0 /\ i \in Bins
  BY SizesAre, LargeSizesAre, IndexIsBin DEF Sound, Tries
<1>2. Enter(x, s) /\ i \notin treemap /\ treemap' = treemap \cup {i} /\ treebins' = [treebins EXCEPT ![i] = x]
      /\ parent' = [parent EXCEPT ![x] = Bin] /\ child' = child /\ fd' = fd /\ bk' = bk
  BY DEF InsertRoot
<1>3. /\ size[x] = 0 /\ x \notin Nodes
      /\ size' \in [Chunk -> {0} \cup ChunkSizes] /\ index' \in [Chunk -> Bins]
      /\ \A y \in Chunk : size'[y] = IF y = x THEN s ELSE size[y]
      /\ \A y \in Chunk : index'[y] = IF y = x THEN i ELSE index[y]
      /\ \A y \in Binned' : index'[y] = compute_tree_index(size'[y])
      /\ Binned' = Binned \cup {x}
  BY <1>1, <1>2, Entered
<1>4. /\ \A k \in 0 .. 1 : child[x][k] = NoChunk
      /\ \A t \in Chunk, k \in 0 .. 1 : child[t][k] # x
      /\ \A j \in Bins : treebins[j] # x
      /\ \A t \in Nodes : parent[t] # x
  BY <1>1, <1>3, Outside
<1>5. x # NoChunk /\ x # Bin /\ Bin # NoChunk /\ x \in Link
  BY ChunkAssumption DEF Link
<1>6. /\ \A y \in Chunk : parent'[y] = IF y = x THEN Bin ELSE parent[y]
      /\ \A j \in Bins : treebins'[j] = IF j = i THEN x ELSE treebins[j]
      /\ treebins[i] = NoChunk
  BY <1>1, <1>2 DEF TypeOK, Tries, Roots
<1>7. dd \in Depth /\ \A y \in Chunk : dd[y] = IF y = x THEN 0 ELSE depth[y]
  BY DEF Depth
<1>8. Nodes' = Nodes \cup {x}
  BY <1>3, <1>5, <1>6 DEF Nodes, Binned
<1>9. TypeOK'
  <2>1. parent' \in [Chunk -> Link \cup {Bin}] /\ treebins' \in [Bins -> Link] /\ treemap' \in SUBSET Bins
        /\ child' \in [Chunk -> [0 .. 1 -> Link]] /\ fd' \in [Chunk -> Chunk] /\ bk' \in [Chunk -> Chunk]
    BY <1>1, <1>2, <1>5 DEF TypeOK
  <2> QED
    BY <1>1, <1>3, <2>1 DEF TypeOK
<1>10. Roots'
  <2> SUFFICES ASSUME NEW j \in Bins
               PROVE  /\ j \in treemap' <=> treebins'[j] # NoChunk
                      /\ treebins'[j] # NoChunk => /\ treebins'[j] \in Nodes' /\ index'[treebins'[j]] = j
                                                   /\ parent'[treebins'[j]] = Bin
    BY DEF Roots
  <2>1. CASE j = i
    BY <1>1, <1>2, <1>3, <1>5, <1>6, <1>8, <2>1
  <2>2. CASE j # i
    <3>1. /\ j \in treemap <=> treebins[j] # NoChunk
          /\ treebins[j] # NoChunk => /\ treebins[j] \in Nodes /\ index[treebins[j]] = j
                                      /\ parent[treebins[j]] = Bin
      BY <1>1 DEF Tries, Roots
    <3>2. treebins'[j] = treebins[j] /\ (j \in treemap' <=> j \in treemap) /\ treebins[j] # x
      BY <1>2, <1>4, <1>6, <2>2
    <3>3. treebins[j] # NoChunk => treebins[j] \in Chunk
      BY <3>1 DEF Nodes, Binned
    <3> QED
      BY <1>3, <1>6, <1>8, <3>1, <3>2, <3>3
  <2> QED
    BY <2>1, <2>2
<1> HIDE DEF dd
<1>11. ASSUME NEW t \in Nodes' PROVE Hangs(dd, t)'
  <2>1. CASE t = x
    BY <1>1, <1>3, <1>6, <1>7, <2>1 DEF Hangs
  <2>2. CASE t # x
    <3>1. t \in Nodes /\ t \in Chunk /\ Hangs(depth, t) /\ parent[t] # x /\ parent'[t] = parent[t]
          /\ size'[t] = size[t] /\ index'[t] = index[t] /\ dd[t] = depth[t]
      <4>1. t \in Nodes
        BY <1>8, <2>2
      <4>2. t \in Chunk /\ Hangs(depth, t)
        BY <1>1, <4>1, NodesAre
      <4> QED
        BY <1>3, <1>4, <1>6, <1>7, <2>2, <4>1, <4>2
    <3>2. CASE parent[t] = Bin
      <4>1. treebins[index[t]] = t /\ depth[t] = 0 /\ index[t] \in Bins /\ t # NoChunk
        BY <1>1, <3>1, <3>2, NodesAre DEF Hangs
      <4>2. treebins'[index[t]] = t
        BY <1>6, <4>1
      <4> QED
        BY <3>1, <3>2, <4>1, <4>2 DEF Hangs
    <3>3. CASE parent[t] # Bin
      <4> DEFINE u == parent[t]
      <4>1. u \in Nodes /\ index[u] = index[t] /\ depth[t] = depth[u] + 1 /\ depth[u] <= Top(size[t])
            /\ Key(size[t], depth[u]) = Key(size[u], depth[u]) /\ child[u][Side(size[t], depth[u])] = t
        BY <3>1, <3>3 DEF Hangs
      <4>2. u \in Chunk /\ u # x
        BY <1>1, <1>3, <4>1, NodesAre
      <4>3. u \in Nodes' /\ index'[u] = index[u] /\ dd[u] = depth[u] /\ size'[u] = size[u]
        BY <1>3, <1>7, <1>8, <4>1, <4>2
      <4> QED
        BY <1>2, <3>1, <3>3, <4>1, <4>3 DEF Hangs
    <3> QED
      BY <3>2, <3>3
  <2> QED
    BY <2>1, <2>2
<1>12. ASSUME NEW t \in Chunk, NEW k \in 0 .. 1 PROVE Holds(dd, t, k)'
  <2>1. Holds(depth, t, k)
    BY <1>1 DEF Tries
  <2> SUFFICES ASSUME child[t][k] # NoChunk PROVE Holds(dd, t, k)'
    BY <1>2 DEF Holds
  <2> DEFINE c == child[t][k]
  <2>2. t \in Nodes /\ c \in Nodes /\ parent[c] = t /\ Side(size[c], depth[t]) = k /\ c \in Chunk
    BY <1>1, <2>1, NodesAre DEF Holds
  <2>3. t # x /\ c # x
    BY <1>3, <2>2
  <2>4. t \in Nodes' /\ c \in Nodes' /\ parent'[c] = t /\ size'[c] = size[c] /\ dd[t] = depth[t]
    BY <1>3, <1>6, <1>7, <1>8, <2>2, <2>3
  <2> QED
    BY <1>2, <2>2, <2>4 DEF Holds
<1>13. \A u \in Nodes : size[u] # s
  <2> SUFFICES ASSUME NEW u \in Nodes, size[u] = s PROVE FALSE
    OBVIOUS
  <2>1. index[u] = i /\ index[u] \in treemap
    BY <1>1, NodesAre, RootOf
  <2> QED
    BY <1>2, <2>1
<1>14. qq \in Order /\ (\A z \in Indexable : Ring(qq[z], z)') /\ \A y \in Chunk : Loose(y)'
  <2>1. size' = [size EXCEPT ![x] = s] /\ Bin \in Link \cup {Bin}
    BY <1>2 DEF Enter
  <2> QED
    BY <1>2, <1>3, <1>5, <1>13, <2>1, NewRing
<1> HIDE DEF qq
<1>15. Sound(dd, qq)'
  BY <1>9, <1>10, <1>11, <1>12, <1>14 DEF Sound, Tries
<1> QED
  BY <1>7, <1>14, <1>15 DEF dd, qq

LEMMA InsertLeafKeeps ==
  ASSUME NEW depth \in Depth, NEW q \in Order, Sound(depth, q), NEW x \in Chunk, NEW s \in ChunkSizes,
         InsertLeaf(x, s)
  PROVE  /\ \E d \in Depth : Sound(d, [q EXCEPT ![s] = Append(q[s], x)])'
         /\ [q EXCEPT ![s] = Append(q[s], x)] \in Order
<1> DEFINE i == compute_tree_index(s)
           n == Deepest(Depths(Path(s)))
           p == Path(s)[n]
           e == Side(s, n)
           qq == [q EXCEPT ![s] = Append(q[s], x)]
<1>1. Tries(depth) /\ TypeOK /\ s \in Indexable /\ s # 0 /\ i \in Bins
  BY SizesAre, LargeSizesAre, IndexIsBin DEF Sound, Tries
<1>2. Enter(x, s) /\ i \in treemap /\ size[p] # s /\ treemap' = treemap /\ treebins' = treebins
      /\ parent' = [parent EXCEPT ![x] = p] /\ child' = [child EXCEPT ![p][e] = x] /\ fd' = fd /\ bk' = bk
  BY DEF InsertLeaf, Side
<1>3. /\ size[x] = 0 /\ x \notin Nodes
      /\ size' \in [Chunk -> {0} \cup ChunkSizes] /\ index' \in [Chunk -> Bins]
      /\ \A y \in Chunk : size'[y] = IF y = x THEN s ELSE size[y]
      /\ \A y \in Chunk : index'[y] = IF y = x THEN i ELSE index[y]
      /\ \A y \in Binned' : index'[y] = compute_tree_index(size'[y])
      /\ Binned' = Binned \cup {x}
  BY <1>1, <1>2, Entered
<1>4. /\ \A k \in 0 .. 1 : child[x][k] = NoChunk
      /\ \A t \in Chunk, k \in 0 .. 1 : child[t][k] # x
      /\ \A j \in Bins : treebins[j] # x
      /\ \A t \in Nodes : parent[t] # x
  BY <1>1, <1>3, Outside
<1>5. n \in 0 .. Bits /\ p \in Nodes /\ index[p] = i /\ depth[p] = n /\ n \in 0 .. Top(s)
      /\ Key(size[p], n) = Key(s, n) /\ child[p][e] = NoChunk /\ \A u \in Nodes : size[u] # s
  BY <1>1, <1>2, EndOfWay
<1> HIDE DEF n, p, e
<1>6. p \in Chunk /\ p # NoChunk /\ p # Bin /\ p # x /\ n \in Nat /\ e \in 0 .. 1 /\ Top(s) \in Nat
  <2>1. n \in Nat /\ Top(s) \in Nat
    BY <1>1, <1>5, Keys, LargeSizesAre
  <2> QED
    BY <1>1, <1>3, <1>5, <2>1, NodesAre, Keys, LargeSizesAre DEF e
<1>7. x # NoChunk /\ x # Bin /\ x \in Link
  BY ChunkAssumption DEF Link
<1>8. /\ \A y \in Chunk : parent'[y] = IF y = x THEN p ELSE parent[y]
      /\ \A y \in Chunk, k \in 0 .. 1 : child'[y][k] = IF y = p /\ k = e THEN x ELSE child[y][k]
  <2>1. child \in [Chunk -> [0 .. 1 -> Link]] /\ parent \in [Chunk -> Link \cup {Bin}]
    BY <1>1 DEF TypeOK
  <2>2. child' = [child EXCEPT ![p] = [child[p] EXCEPT ![e] = x]]
    BY <1>2
  <2>3. \A k \in 0 .. 1 : child'[p][k] = IF k = e THEN x ELSE child[p][k]
    BY <1>6, <2>1, <2>2
  <2>4. \A y \in Chunk : y # p => child'[y] = child[y]
    BY <2>1, <2>2
  <2> QED
    BY <1>2, <2>1, <2>3, <2>4
<1>9. PICK dd \in Depth : \A y \in Chunk : dd[y] = IF y = x THEN n + 1 ELSE depth[y]
  <2>1. [depth EXCEPT ![x] = n + 1] \in Depth
    BY <1>6 DEF Depth
  <2> QED
    BY <2>1 DEF Depth
<1>10. Nodes' = Nodes \cup {x}
  BY <1>3, <1>6, <1>8 DEF Nodes, Binned
<1>11. TypeOK'
  <2>1. child \in [Chunk -> [0 .. 1 -> Link]]
    BY <1>1 DEF TypeOK
  <2>2. [child[p] EXCEPT ![e] = x] \in [0 .. 1 -> Link]
    BY <1>6, <1>7, <2>1
  <2>3. child' = [child EXCEPT ![p] = [child[p] EXCEPT ![e] = x]]
    BY <1>2
  <2>4. child' \in [Chunk -> [0 .. 1 -> Link]]
    BY <1>6, <2>1, <2>2, <2>3
  <2>5. parent' \in [Chunk -> Link \cup {Bin}] /\ treebins' \in [Bins -> Link] /\ treemap' \in SUBSET Bins
        /\ fd' \in [Chunk -> Chunk] /\ bk' \in [Chunk -> Chunk]
    BY <1>1, <1>2, <1>6 DEF TypeOK, Link
  <2> QED
    BY <1>1, <1>3, <2>4, <2>5 DEF TypeOK
<1>12. Roots'
  <2> SUFFICES ASSUME NEW j \in Bins
               PROVE  /\ j \in treemap' <=> treebins'[j] # NoChunk
                      /\ treebins'[j] # NoChunk => /\ treebins'[j] \in Nodes' /\ index'[treebins'[j]] = j
                                                   /\ parent'[treebins'[j]] = Bin
    BY DEF Roots
  <2>1. /\ j \in treemap <=> treebins[j] # NoChunk
        /\ treebins[j] # NoChunk => /\ treebins[j] \in Nodes /\ index[treebins[j]] = j
                                    /\ parent[treebins[j]] = Bin
    BY <1>1 DEF Tries, Roots
  <2>2. treebins[j] # x
    BY <1>4
  <2>3. treebins[j] # NoChunk => treebins[j] \in Chunk
    BY <2>1 DEF Nodes, Binned
  <2> QED
    BY <1>2, <1>3, <1>8, <1>10, <2>1, <2>2, <2>3
<1>13. ASSUME NEW t \in Nodes' PROVE Hangs(dd, t)'
  <2>1. CASE t = x
    <3>1. parent'[t] = p /\ p # Bin /\ p \in Nodes' /\ index'[p] = i /\ index'[t] = i /\ size'[t] = s
          /\ size'[p] = size[p] /\ dd[t] = n + 1 /\ dd[p] = n
      BY <1>3, <1>5, <1>6, <1>8, <1>9, <1>10, <2>1
    <3>2. child'[p][Side(s, n)] = x
      BY <1>6, <1>8 DEF e
    <3>3. n <= Top(s)
      BY <1>5
    <3> QED
      BY <1>5, <2>1, <3>1, <3>2, <3>3 DEF Hangs
  <2>2. CASE t # x
    <3>1. t \in Nodes /\ t \in Chunk /\ Hangs(depth, t) /\ parent'[t] = parent[t]
          /\ size'[t] = size[t] /\ index'[t] = index[t] /\ dd[t] = depth[t]
      <4>1. t \in Nodes
        BY <1>10, <2>2
      <4>2. t \in Chunk /\ Hangs(depth, t)
        BY <1>1, <4>1, NodesAre
      <4> QED
        BY <1>3, <1>8, <1>9, <2>2, <4>1, <4>2
    <3>2. CASE parent[t] = Bin
      BY <1>2, <3>1, <3>2 DEF Hangs
    <3>3. CASE parent[t] # Bin
      <4> DEFINE u == parent[t]
      <4>1. u \in Nodes /\ index[u] = index[t] /\ depth[t] = depth[u] + 1 /\ depth[u] <= Top(size[t])
            /\ Key(size[t], depth[u]) = Key(size[u], depth[u]) /\ child[u][Side(size[t], depth[u])] = t
        BY <3>1, <3>3 DEF Hangs
      <4>2. u \in Chunk /\ u # x /\ t # NoChunk /\ depth[u] \in Nat /\ size[t] \in Indexable
        BY <1>1, <1>3, <3>1, <4>1, NodesAre
      <4>3. u \in Nodes' /\ index'[u] = index[u] /\ dd[u] = depth[u] /\ size'[u] = size[u]
        BY <1>3, <1>9, <1>10, <4>1, <4>2
      <4> DEFINE f == Side(size[t], depth[u])
      <4>4. f \in 0 .. 1
        BY <4>2, Keys, LargeSizesAre
      <4>5. ~(u = p /\ f = e)
        BY <1>5, <4>1, <4>2
      <4>6. child'[u][f] = t
        BY <1>8, <4>1, <4>2, <4>4, <4>5
      <4> QED
        BY <3>1, <3>3, <4>1, <4>3, <4>6 DEF Hangs
    <3> QED
      BY <3>2, <3>3
  <2> QED
    BY <2>1, <2>2
<1>14. ASSUME NEW t \in Chunk, NEW k \in 0 .. 1 PROVE Holds(dd, t, k)'
  <2>1. CASE t = p /\ k = e
    <3>1. child'[t][k] = x /\ t \in Nodes' /\ x \in Nodes' /\ parent'[x] = t /\ size'[x] = s /\ dd[t] = n
      BY <1>3, <1>5, <1>6, <1>8, <1>9, <1>10, <2>1
    <3> QED
      BY <2>1, <3>1 DEF Holds, e
  <2>2. CASE ~(t = p /\ k = e)
    <3>1. child'[t][k] = child[t][k] /\ Holds(depth, t, k)
      BY <1>1, <1>8, <2>2 DEF Tries
    <3> SUFFICES ASSUME child[t][k] # NoChunk PROVE Holds(dd, t, k)'
      BY <3>1 DEF Holds
    <3> DEFINE c == child[t][k]
    <3>2. t \in Nodes /\ c \in Nodes /\ parent[c] = t /\ Side(size[c], depth[t]) = k /\ c \in Chunk
      BY <1>1, <3>1, NodesAre DEF Holds
    <3>3. t # x /\ c # x
      BY <1>3, <3>2
    <3>4. t \in Nodes' /\ c \in Nodes' /\ parent'[c] = t /\ size'[c] = size[c] /\ dd[t] = depth[t]
      BY <1>3, <1>8, <1>9, <1>10, <3>2, <3>3
    <3> QED
      BY <3>1, <3>2, <3>4 DEF Holds
  <2> QED
    BY <2>1, <2>2
<1>15. qq \in Order /\ (\A z \in Indexable : Ring(qq[z], z)') /\ \A y \in Chunk : Loose(y)'
  <2>1. size' = [size EXCEPT ![x] = s] /\ p \in Link \cup {Bin} /\ p # NoChunk
    BY <1>2, <1>6 DEF Enter, Link
  <2> QED
    BY <1>2, <1>3, <1>5, <2>1, NewRing
<1> HIDE DEF qq
<1>16. Sound(dd, qq)'
  BY <1>11, <1>12, <1>13, <1>14, <1>15 DEF Sound, Tries
<1> QED
  BY <1>9, <1>15, <1>16 DEF qq

\* A step that leaves the nodes as they are.
LEMMA TriesKept ==
  ASSUME NEW depth \in Depth, Tries(depth), TypeOK', Nodes' = Nodes, child' = child,
         treebins' = treebins, treemap' = treemap,
         \A t \in Nodes : parent'[t] = parent[t] /\ size'[t] = size[t] /\ index'[t] = index[t]
  PROVE  Tries(depth)'
<1>1. Roots'
  <2> SUFFICES ASSUME NEW j \in Bins
               PROVE  /\ j \in treemap' <=> treebins'[j] # NoChunk
                      /\ treebins'[j] # NoChunk => /\ treebins'[j] \in Nodes' /\ index'[treebins'[j]] = j
                                                   /\ parent'[treebins'[j]] = Bin
    BY DEF Roots
  <2>1. /\ j \in treemap <=> treebins[j] # NoChunk
        /\ treebins[j] # NoChunk => /\ treebins[j] \in Nodes /\ index[treebins[j]] = j
                                    /\ parent[treebins[j]] = Bin
    BY DEF Tries, Roots
  <2> QED
    BY <2>1
<1>2. ASSUME NEW t \in Nodes' PROVE Hangs(depth, t)'
  <2>1. t \in Nodes /\ Hangs(depth, t)
    BY NodesAre
  <2>2. parent'[t] = parent[t] /\ size'[t] = size[t] /\ index'[t] = index[t]
    BY <2>1
  <2>3. CASE parent[t] = Bin
    BY <2>1, <2>2, <2>3 DEF Hangs
  <2>4. CASE parent[t] # Bin
    <3> DEFINE u == parent[t]
    <3>1. u \in Nodes /\ index[u] = index[t] /\ depth[t] = depth[u] + 1 /\ depth[u] <= Top(size[t])
          /\ Key(size[t], depth[u]) = Key(size[u], depth[u]) /\ child[u][Side(size[t], depth[u])] = t
      BY <2>1, <2>4 DEF Hangs
    <3>2. u \in Nodes' /\ index'[u] = index[u] /\ size'[u] = size[u]
      BY <3>1
    <3> QED
      BY <2>2, <2>4, <3>1, <3>2 DEF Hangs
  <2> QED
    BY <2>3, <2>4
<1>3. ASSUME NEW t \in Chunk, NEW k \in 0 .. 1 PROVE Holds(depth, t, k)'
  <2>1. Holds(depth, t, k)
    BY DEF Tries
  <2> SUFFICES ASSUME child[t][k] # NoChunk PROVE Holds(depth, t, k)'
    BY DEF Holds
  <2> DEFINE c == child[t][k]
  <2>2. t \in Nodes /\ c \in Nodes /\ parent[c] = t /\ Side(size[c], depth[t]) = k
    BY <2>1 DEF Holds
  <2>3. parent'[c] = t /\ size'[c] = size[c]
    BY <2>2
  <2> QED
    BY <2>2, <2>3 DEF Holds
<1> QED
  BY <1>1, <1>2, <1>3 DEF Tries

\* The ring of a size has its node first.
LEMMA RingOf ==
  ASSUME NEW depth \in Depth, NEW q \in Order, Sound(depth, q), NEW x \in Binned
  PROVE  LET s == size[x]
         IN  /\ s \in ChunkSizes /\ s \in Indexable /\ s # 0 /\ q[s] \in Seq(Chunk) /\ Ring(q[s], s)
             /\ Len(q[s]) \in Nat \ {0} /\ q[s][1] \in Nodes /\ size[q[s][1]] = s
             /\ \A t \in Nodes : size[t] = s => t = q[s][1]
             /\ \E j \in 1 .. Len(q[s]) : q[s][j] = x
<1> DEFINE s == size[x]
           r == q[s]
<1>1. x \in Chunk /\ s # 0
  BY DEF Binned
<1>2. s \in ChunkSizes
  BY <1>1 DEF Sound, Tries, TypeOK
<1>3. s \in Indexable
  BY <1>2, SizesAre DEF Sound, Tries
<1>4. r \in Seq(Chunk) /\ Ring(r, s)
  BY <1>3 DEF Sound, Order
<1>5. \E j \in 1 .. Len(r) : r[j] = x
  BY <1>1, <1>4 DEF Ring
<1>6. Len(r) \in Nat \ {0} /\ 1 \in 1 .. Len(r)
  BY <1>4, <1>5
<1>7. \A j \in 1 .. Len(r) : r[j] \in Chunk /\ size[r[j]] = s /\ (parent[r[j]] # NoChunk <=> j = 1)
  BY <1>4 DEF Ring
<1>8. r[1] \in Nodes /\ size[r[1]] = s
  BY <1>1, <1>6, <1>7 DEF Nodes, Binned
<1>9. ASSUME NEW t \in Nodes, size[t] = s PROVE t = r[1]
  <2>1. t \in Chunk /\ parent[t] # NoChunk
    BY DEF Nodes, Binned
  <2>2. PICK j \in 1 .. Len(r) : r[j] = t
    BY <1>4, <1>9, <2>1 DEF Ring
  <2> QED
    BY <1>7, <2>1, <2>2
<1> QED
  BY <1>1, <1>2, <1>3, <1>4, <1>5, <1>6, <1>8, <1>9

LEMMA InsertRingKeeps ==
  ASSUME NEW depth \in Depth, NEW q \in Order, Sound(depth, q), NEW x \in Chunk, NEW s \in ChunkSizes,
         InsertRing(x, s)
  PROVE  /\ [q EXCEPT ![s] = Append(q[s], x)] \in Order
         /\ Sound(depth, [q EXCEPT ![s] = Append(q[s], x)])'
<1> DEFINE p == Path(s)[Deepest(Depths(Path(s)))]
           r == q[s]
           n == Len(r)
           l == Append(r, x)
           qq == [q EXCEPT ![s] = Append(q[s], x)]
<1>1. Tries(depth) /\ TypeOK /\ s \in Indexable /\ s # 0
  BY SizesAre DEF Sound, Tries
<1>2. Enter(x, s) /\ compute_tree_index(s) \in treemap /\ size[p] = s /\ treemap' = treemap /\ treebins' = treebins
      /\ parent' = parent /\ child' = child /\ fd' = [fd EXCEPT ![p] = x, ![x] = fd[p]]
      /\ bk' = [bk EXCEPT ![fd[p]] = x, ![x] = p]
  BY DEF InsertRing
<1>3. /\ size[x] = 0 /\ x \notin Nodes
      /\ size' \in [Chunk -> {0} \cup ChunkSizes] /\ index' \in [Chunk -> Bins]
      /\ \A y \in Chunk : size'[y] = IF y = x THEN s ELSE size[y]
      /\ \A y \in Chunk : index'[y] = IF y = x THEN compute_tree_index(s) ELSE index[y]
      /\ \A y \in Binned' : index'[y] = compute_tree_index(size'[y])
      /\ Binned' = Binned \cup {x}
  BY <1>1, <1>2, Entered
<1>4. p \in Nodes
  BY <1>1, <1>2, EndOfWay
<1> HIDE DEF p
<1>5. p \in Chunk /\ p \in Binned /\ p # x
  BY <1>3, <1>4 DEF Nodes, Binned
<1>6. r \in Seq(Chunk) /\ Ring(r, s) /\ n \in Nat \ {0} /\ p = r[1]
  BY <1>2, <1>4, <1>5, RingOf
<1>7. \A j \in 1 .. n : r[j] \in Chunk /\ r[j] # x
  <2>1. \A j \in 1 .. n : r[j] \in Chunk /\ size[r[j]] = s
    BY <1>6 DEF Ring
  <2> QED
    BY <1>1, <1>3, <2>1
<1>8. /\ \A j \in 1 .. n : size[r[j]] = s /\ (parent[r[j]] # NoChunk <=> j = 1)
      /\ \A j \in 1 .. n : j # n => bk[r[j]] = r[j + 1] /\ fd[r[j + 1]] = r[j]
      /\ fd[p] = r[n] /\ bk[r[n]] = p
      /\ \A j, k \in 1 .. n : r[j] = r[k] => j = k
      /\ \A y \in Chunk : size[y] = s => \E j \in 1 .. n : r[j] = y
  <2>1. n \in 1 .. n
    BY <1>6
  <2> QED
    BY <1>6, <2>1 DEF Ring, After
<1>9. fd[p] = r[n] /\ r[n] \in Chunk /\ r[n] # x /\ n \in 1 .. n /\ 1 \in 1 .. n
  BY <1>6, <1>7, <1>8
<1>10. /\ fd' \in [Chunk -> Chunk] /\ bk' \in [Chunk -> Chunk]
       /\ \A y \in Chunk : fd'[y] = IF y = x THEN r[n] ELSE IF y = p THEN x ELSE fd[y]
       /\ \A y \in Chunk : bk'[y] = IF y = x THEN p ELSE IF y = r[n] THEN x ELSE bk[y]
  <2>1. fd \in [Chunk -> Chunk] /\ bk \in [Chunk -> Chunk]
    BY <1>1 DEF TypeOK
  <2>2. fd' = [fd EXCEPT ![p] = x, ![x] = r[n]] /\ bk' = [bk EXCEPT ![r[n]] = x, ![x] = p]
    BY <1>2, <1>9
  <2> HIDE DEF n, r
  <2> QED
    BY <1>5, <1>9, <2>1, <2>2
<1>11. l \in Seq(Chunk) /\ Len(l) = n + 1 /\ l[n + 1] = x /\ \A j \in 1 .. n : l[j] = r[j]
  <2> HIDE DEF r
  <2> QED
    BY <1>6
<1> HIDE DEF r, n, l
<1>12. Ring(l, s)'
  <2>1. \A j \in 1 .. n + 1 : j \in 1 .. n \/ j = n + 1
    BY <1>6
  <2>2. ASSUME NEW j \in 1 .. n + 1
        PROVE  /\ size'[l[j]] = s /\ (parent'[l[j]] # NoChunk <=> j = 1)
               /\ bk'[l[j]] = l[After(j, n + 1)] /\ fd'[l[After(j, n + 1)]] = l[j]
    <3>1. CASE j = n + 1
      <4>1. After(j, n + 1) = 1 /\ l[1] = p /\ l[j] = x /\ j # 1
        BY <1>6, <1>9, <1>11, <3>1 DEF After
      <4>2. parent[x] = NoChunk
        BY <1>3 DEF Sound, Loose
      <4> QED
        BY <1>2, <1>3, <1>5, <1>10, <4>1, <4>2
    <3>2. CASE j = n
      <4>1. After(j, n + 1) = n + 1 /\ l[n + 1] = x /\ l[j] = r[n] /\ j \in 1 .. n
        BY <1>6, <1>9, <1>11, <3>2 DEF After
      <4>2. size[r[n]] = s /\ (parent[r[n]] # NoChunk <=> j = 1)
        BY <1>8, <3>2, <4>1
      <4> QED
        BY <1>2, <1>3, <1>9, <1>10, <4>1, <4>2
    <3>3. CASE j # n /\ j # n + 1
      <4>1. j \in 1 .. n /\ j + 1 \in 1 .. n /\ j + 1 # 1
        BY <1>6, <3>3
      <4>2. After(j, n + 1) = j + 1 /\ l[j + 1] = r[j + 1] /\ l[j] = r[j]
        BY <1>11, <3>3, <4>1 DEF After
      <4>3. r[j] \in Chunk /\ r[j] # x /\ r[j + 1] \in Chunk /\ r[j + 1] # x /\ r[j] # r[n] /\ r[j + 1] # p
        BY <1>6, <1>7, <1>8, <1>9, <3>3, <4>1
      <4>4. size[r[j]] = s /\ (parent[r[j]] # NoChunk <=> j = 1) /\ bk[r[j]] = r[j + 1] /\ fd[r[j + 1]] = r[j]
        BY <1>8, <3>3, <4>1
      <4> QED
        BY <1>2, <1>3, <1>10, <4>2, <4>3, <4>4
    <3> QED
      BY <3>1, <3>2, <3>3
  <2>3. ASSUME NEW j \in 1 .. n + 1, NEW k \in 1 .. n + 1, l[j] = l[k] PROVE j = k
    BY <1>7, <1>8, <1>11, <2>1, <2>3
  <2>4. ASSUME NEW y \in Chunk, size'[y] = s PROVE \E j \in 1 .. n + 1 : l[j] = y
    <3>1. CASE y = x
      BY <1>6, <1>11, <3>1
    <3>2. CASE y # x
      <4>1. PICK j \in 1 .. n : r[j] = y
        BY <1>3, <1>8, <2>4, <3>2
      <4> QED
        BY <1>6, <1>11, <4>1
    <3> QED
      BY <3>1, <3>2
  <2> QED
    BY <1>11, <2>2, <2>3, <2>4 DEF Ring
<1>13. qq \in Order /\ qq[s] = l /\ \A z \in Indexable : z # s => qq[z] = q[z]
  BY <1>1, <1>11 DEF Order, l, r
<1> HIDE DEF qq
<1>14. ASSUME NEW z \in Indexable PROVE Ring(qq[z], z)'
  <2>1. CASE z = s
    BY <1>12, <1>13, <2>1
  <2>2. CASE z # s
    <3> DEFINE w == q[z]
    <3>1. w \in Seq(Chunk) /\ Ring(w, z) /\ z # 0
      BY LargeSizesAre DEF Order, Sound
    <3>2. \A y \in Chunk : size'[y] = z <=> size[y] = z
      BY <1>3, <2>2, <3>1
    <3>3. \A y \in Chunk : size[y] = z => /\ parent'[y] # NoChunk <=> parent[y] # NoChunk
                                          /\ fd'[y] = fd[y] /\ bk'[y] = bk[y]
      <4>1. size[p] = s /\ size[r[n]] = s /\ size[x] = 0
        BY <1>2, <1>3, <1>8, <1>9
      <4> QED
        BY <1>2, <1>10, <2>2, <3>1, <4>1
    <3> HIDE DEF w
    <3>4. Ring(w, z)'
      BY <3>1, <3>2, <3>3, RingKept
    <3> QED
      BY <1>13, <2>2, <3>4 DEF w
  <2> QED
    BY <2>1, <2>2
<1>15. ASSUME NEW y \in Chunk PROVE Loose(y)'
  <2>1. Loose(y) /\ size[p] = s /\ size[r[n]] = s
    BY <1>2, <1>8, <1>9 DEF Sound
  <2> QED
    BY <1>1, <1>2, <1>3, <1>10, <2>1 DEF Loose
<1>16. Tries(depth)'
  <2>1. TypeOK'
    BY <1>1, <1>2, <1>3, <1>10 DEF TypeOK
  <2>2. parent[x] = NoChunk
    BY <1>3 DEF Sound, Loose
  <2>3. Nodes' = Nodes
    BY <1>2, <1>3, <2>2 DEF Nodes
  <2>4. \A t \in Nodes : parent'[t] = parent[t] /\ size'[t] = size[t] /\ index'[t] = index[t]
    BY <1>1, <1>2, <1>3, NodesAre
  <2> QED
    BY <1>1, <1>2, <2>1, <2>3, <2>4, TriesKept
<1> QED
  BY <1>13, <1>14, <1>15, <1>16 DEF Sound, qq

----------------------------------------------------------------------------
(* Removal.                                                                *)

LEMMA LeafBelow ==
  ASSUME NEW depth \in Depth, Tries(depth), NEW t \in Nodes
  PROVE  /\ Descends(depth, RightmostLeaf(t), t)
         /\ \A k \in 0 .. 1 : child[RightmostLeaf(t)][k] = NoChunk
         /\ RightmostLeaf(t) # t => depth[t] < depth[RightmostLeaf(t)]
<1> DEFINE Down(r) == IF child[r][1] # NoChunk THEN child[r][1]
                      ELSE IF child[r][0] # NoChunk THEN child[r][0] ELSE r
           g == [r \in Chunk |-> [d \in Nat |-> Down(r)]]
           Is(down) == down = [d \in 0 .. Bits |->
                          IF d = 0 THEN t
                          ELSE LET r == down[d - 1]
                               IN  IF child[r][1] # NoChunk THEN child[r][1]
                                   ELSE IF child[r][0] # NoChunk THEN child[r][0] ELSE r]
<1>1. Bits \in Nat /\ t \in Chunk
  BY Widths, NodesAre
<1>2. \A r \in Chunk : Down(r) \in Chunk
  <2>1. \A r \in Chunk : child[r][0] \in Chunk \cup {NoChunk} /\ child[r][1] \in Chunk \cup {NoChunk}
    BY DEF Tries, TypeOK, Link
  <2> QED
    BY <2>1
<1>3. PICK f \in [0 .. Bits -> Chunk] : Iterates(f, 0, Bits, t, g)
  <2>1. g \in [Chunk -> [Nat -> Chunk]]
    BY <1>2
  <2> HIDE DEF g
  <2> QED
    BY <1>1, <2>1, Iteration
<1>4. \A d \in 0 .. Bits : f[d] = IF d = 0 THEN t ELSE Down(f[d - 1])
  <2> SUFFICES ASSUME NEW d \in 0 .. Bits PROVE f[d] = IF d = 0 THEN t ELSE Down(f[d - 1])
    OBVIOUS
  <2>1. f[d] = IF d = 0 THEN t ELSE g[f[d - 1]][d]
    BY <1>3 DEF Iterates
  <2>2. d # 0 => d - 1 \in 0 .. Bits /\ d \in Nat
    BY <1>1
  <2>3. d # 0 => g[f[d - 1]][d] = Down(f[d - 1])
    BY <2>2
  <2> HIDE DEF g, Down
  <2> QED
    BY <2>1, <2>3
<1>5. Is(f)
  BY <1>4
<1>6. RightmostLeaf(t) = (CHOOSE down : Is(down))[Bits]
  BY DEF RightmostLeaf
<1>7. \A h : Is(h) => \A d \in 0 .. Bits : h[d] = IF d = 0 THEN t ELSE Down(h[d - 1])
  OBVIOUS
<1>8. PICK h : /\ RightmostLeaf(t) = h[Bits]
               /\ \A d \in 0 .. Bits : h[d] = IF d = 0 THEN t ELSE Down(h[d - 1])
  <2> HIDE DEF Is, Down
  <2> QED
    BY <1>5, <1>6, <1>7
<1> HIDE DEF Is
<1> DEFINE Leaf(r) == \A k \in 0 .. 1 : child[r][k] = NoChunk
           Far(d) == /\ Descends(depth, h[d], t)
                     /\ Leaf(h[d]) \/ depth[h[d]] = depth[t] + d
           R == {d \in 0 .. Bits : Far(d)}
<1>9. Far(0)
  <2>1. h[0] = t
    BY <1>1, <1>8
  <2>2. depth[t] \in Nat
    BY NodesAre
  <2> QED
    BY <2>1, <2>2 DEF Descends
<1>10. ASSUME NEW d \in 0 .. Bits, Far(d), d + 1 <= Bits PROVE Far(d + 1)
  <2>1. h[d + 1] = Down(h[d])
    <3>1. d + 1 \in 0 .. Bits /\ d + 1 # 0 /\ (d + 1) - 1 = d
      BY <1>1, <1>10
    <3> HIDE DEF Down
    <3> QED
      BY <1>8, <3>1
  <2>2. h[d] \in Nodes /\ h[d] \in Chunk /\ Descends(depth, h[d], t)
    BY <1>10, NodesAre DEF Descends
  <2>3. CASE Leaf(h[d])
    <3>1. Down(h[d]) = h[d]
      BY <2>3
    <3> QED
      BY <2>1, <2>2, <2>3, <3>1
  <2>4. CASE ~Leaf(h[d])
    <3>1. PICK k \in 0 .. 1 : Down(h[d]) = child[h[d]][k] /\ child[h[d]][k] # NoChunk
      <4>1. child[h[d]][0] # NoChunk \/ child[h[d]][1] # NoChunk
        BY <2>4
      <4>2. 0 \in 0 .. 1 /\ 1 \in 0 .. 1
        OBVIOUS
      <4> QED
        BY <4>1, <4>2
    <3> DEFINE c == child[h[d]][k]
    <3>2. depth[c] = depth[h[d]] + 1 /\ Descends(depth, c, h[d])
      BY <2>2, <3>1, Children
    <3>3. Descends(depth, c, t)
      BY <2>2, <3>2, Descent
    <3>4. depth[h[d]] = depth[t] + d /\ depth[t] \in Nat
      BY <1>10, <2>4, NodesAre
    <3>5. depth[c] = depth[t] + (d + 1)
      BY <3>2, <3>4
    <3>6. h[d + 1] = c
      BY <2>1, <3>1
    <3> HIDE DEF c
    <3> QED
      BY <3>3, <3>5, <3>6
  <2> QED
    BY <2>3, <2>4
<1>11. Far(Bits)
  <2>1. 0 \in R /\ 0 <= Bits
    <3> HIDE DEF Far
    <3> QED
      BY <1>1, <1>9
  <2>2. \A d \in 0 .. Bits : d \in R /\ d + 1 <= Bits => d + 1 \in R
    <3> SUFFICES ASSUME NEW d \in 0 .. Bits, d \in R, d + 1 <= Bits PROVE d + 1 \in R
      OBVIOUS
    <3> HIDE DEF Far
    <3>1. Far(d) /\ d + 1 \in 0 .. Bits
      BY <1>1
    <3> QED
      BY <1>10, <3>1
  <2>3. \A d \in 0 .. Bits : d \in R
    <3> HIDE DEF R
    <3> QED
      BY <1>1, <2>1, <2>2, Along
  <2> HIDE DEF Far
  <2> QED
    BY <1>1, <2>3
<1> DEFINE l == RightmostLeaf(t)
<1>12. l = h[Bits]
  BY <1>8
<1> HIDE DEF l
<1>13. Descends(depth, l, t) /\ (Leaf(l) \/ depth[l] = depth[t] + Bits)
  BY <1>11, <1>12
<1>14. l \in Nodes /\ l \in Chunk /\ index[l] = index[t] /\ depth[t] <= depth[l] /\ Key(size[l], depth[t]) = Key(size[t], depth[t])
  BY <1>13, NodesAre DEF Descends
<1>15. Leaf(l)
  <2> SUFFICES ASSUME NEW k \in 0 .. 1, child[l][k] # NoChunk, depth[l] = depth[t] + Bits PROVE FALSE
    BY <1>13
  <2> DEFINE c == child[l][k]
  <2>1. c \in Nodes /\ depth[c] = depth[l] + 1
    BY <1>14, Children
  <2>2. depth[c] \in 0 .. Top(size[c]) + 1 /\ Top(size[c]) + 1 \in 0 .. Bits /\ depth[t] \in Nat
    BY <2>1, NodesAre
  <2> HIDE DEF c
  <2> QED
    BY <1>1, <2>1, <2>2
<1>16. l # t => depth[t] < depth[l]
  <2>1. depth[t] \in Nat /\ depth[l] \in Nat
    BY <1>14, NodesAre
  <2>2. depth[t] = depth[l] => l = t
    BY <1>14, OnePlace
  <2> QED
    BY <1>14, <2>1, <2>2
<1> QED
  BY <1>13, <1>15, <1>16 DEF l

\* What takes the place of a node: nothing if it is a leaf and alone of its size,
\* otherwise a chunk without children that belongs where the node is.
LEMMA Replaced ==
  ASSUME NEW depth \in Depth, NEW q \in Order, Sound(depth, q), NEW x \in Nodes
  PROVE  LET r == Replacement(x)
         IN  /\ r \in Link /\ r # x
             /\ r = NoChunk => \A k \in 0 .. 1 : child[x][k] = NoChunk
             /\ r # NoChunk => /\ r \in Chunk /\ size[r] # 0 /\ index[r] = index[x]
                               /\ Key(size[r], depth[x]) = Key(size[x], depth[x])
                               /\ \A k \in 0 .. 1 : child[r][k] = NoChunk
                               /\ r \in Nodes => depth[x] < depth[r]
             /\ r \in Nodes \/ r = NoChunk => bk[x] = x
             /\ r \notin Nodes /\ r # NoChunk => r = bk[x] /\ size[r] = size[x]
<1> DEFINE r == Replacement(x)
           s == size[x]
           l == q[s]
           n == Len(l)
<1>1. Tries(depth) /\ x \in Chunk /\ x \in Binned /\ x # NoChunk /\ parent[x] # NoChunk
  <2>1. Tries(depth)
    BY DEF Sound
  <2> QED
    BY <2>1, NodesAre DEF Nodes
<1>2. s \in ChunkSizes /\ s # 0 /\ Ring(l, s) /\ n \in Nat \ {0} /\ l[1] = x /\ l \in Seq(Chunk)
  BY <1>1, RingOf
<1>3. CASE bk[x] # x
  <2>1. r = bk[x]
    BY <1>3 DEF Replacement
  <2>2. bk[x] = l[After(1, n)] /\ 1 \in 1 .. n
    BY <1>2 DEF Ring
  <2>3. n # 1 /\ After(1, n) = 2 /\ 2 \in 1 .. n
    <3>1. n # 1
      <4> SUFFICES ASSUME n = 1 PROVE FALSE
        OBVIOUS
      <4>1. After(1, n) = 1
        BY DEF After
      <4> QED
        BY <1>2, <1>3, <2>2, <4>1
    <3> HIDE DEF n
    <3> QED
      BY <1>2, <3>1 DEF After
  <2>4. r = l[2] /\ r \in Chunk /\ size[r] = s /\ parent[r] = NoChunk
    BY <1>2, <2>1, <2>2, <2>3 DEF Ring
  <2>5. r \notin Nodes /\ r # NoChunk /\ r \in Link /\ r # x
    BY <1>3, <2>1, <2>4, ChunkAssumption DEF Nodes, Link
  <2>6. \A k \in 0 .. 1 : child[r][k] = NoChunk
    BY <1>1, <2>4, <2>5, Outside
  <2>7. index[r] = index[x]
    <3>1. r \in Binned
      BY <1>2, <2>4 DEF Binned
    <3> QED
      BY <1>1, <2>4, <3>1 DEF Tries, TypeOK
  <2> HIDE DEF r
  <2> QED
    BY <1>2, <2>1, <2>4, <2>5, <2>6, <2>7 DEF r
<1>4. CASE bk[x] = x
  <2> DEFINE m == RightmostLeaf(x)
  <2>1. Descends(depth, m, x) /\ (\A k \in 0 .. 1 : child[m][k] = NoChunk) /\ (m # x => depth[x] < depth[m])
    BY <1>1, LeafBelow
  <2>2. m \in Nodes /\ m \in Chunk /\ m # NoChunk /\ size[m] # 0 /\ index[m] = index[x] /\ Key(size[m], depth[x]) = Key(size[x], depth[x])
    BY <1>1, <2>1, NodesAre DEF Descends
  <2>3. r = IF m = x THEN NoChunk ELSE m
    BY <1>4 DEF Replacement
  <2> HIDE DEF r, m
  <2>4. CASE m = x
    <3>1. r = NoChunk
      BY <2>3, <2>4
    <3> QED
      BY <1>1, <1>4, <2>1, <2>4, <3>1 DEF Link, r
  <2>5. CASE m # x
    BY <1>4, <2>1, <2>2, <2>3, <2>5 DEF Link, r
  <2> QED
    BY <2>4, <2>5
<1> QED
  BY <1>3, <1>4

\* What removal does to the variables.
LEMMA Unlinked ==
  ASSUME TypeOK, NEW x \in Chunk, Unlink(x)
  PROVE  LET r == Replacement(x)
             node == parent[x] # NoChunk
         IN  /\ size[x] # 0 /\ x \in Binned
             /\ \A y \in Chunk : size'[y] = IF y = x THEN 0 ELSE size[y]
             /\ \A y \in Chunk : index'[y] = IF y = x THEN 0 ELSE index[y]
             /\ \A y \in Chunk : parent'[y] = IF y = x THEN NoChunk
                                              ELSE IF node /\ y = r THEN parent[x]
                                              ELSE IF node /\ parent[y] = x THEN r ELSE parent[y]
             /\ \A y \in Chunk : fd'[y] = IF y = x THEN x ELSE IF y = bk[x] THEN fd[x] ELSE fd[y]
             /\ \A y \in Chunk : bk'[y] = IF y = x THEN x ELSE IF y = fd[x] THEN bk[x] ELSE bk[y]
             /\ \A j \in Bins : treebins'[j] = IF j = index[x] /\ treebins[j] = x THEN r ELSE treebins[j]
             /\ \A j \in Bins : j \in treemap' <=> j \in treemap /\ ~(j = index[x] /\ treebins[j] = x /\ r = NoChunk)
             /\ size' \in [Chunk -> {0} \cup ChunkSizes] /\ index' \in [Chunk -> Bins]
             /\ fd' \in [Chunk -> Chunk] /\ bk' \in [Chunk -> Chunk] /\ treemap' \in SUBSET Bins
             /\ r \in Link => parent' \in [Chunk -> Link \cup {Bin}] /\ treebins' \in [Bins -> Link]
             /\ \A y \in Binned' : index'[y] = compute_tree_index(size'[y])
             /\ Binned' = Binned \ {x}
<1> DEFINE r == Replacement(x)
           i == index[x]
           node == parent[x] # NoChunk
<1>1. x \in Binned
      /\ fd' = [fd EXCEPT ![bk[x]] = fd[x], ![x] = x]
      /\ bk' = [bk EXCEPT ![fd[x]] = bk[x], ![x] = x]
      /\ size' = [size EXCEPT ![x] = 0]
      /\ index' = [index EXCEPT ![x] = 0]
      /\ parent' = [t \in Chunk |->
                         IF t = x THEN NoChunk
                         ELSE IF node /\ t = r THEN parent[x]
                         ELSE IF node /\ parent[t] = x THEN r
                         ELSE parent[t]]
      /\ treebins' = (IF treebins[i] = x THEN [treebins EXCEPT ![i] = r] ELSE treebins)
      /\ treemap' = (IF treebins[i] = x /\ r = NoChunk THEN treemap \ {i} ELSE treemap)
  BY DEF Unlink
<1> HIDE DEF r
<1>2. size \in [Chunk -> {0} \cup ChunkSizes] /\ index \in [Chunk -> Bins] /\ parent \in [Chunk -> Link \cup {Bin}]
      /\ fd \in [Chunk -> Chunk] /\ bk \in [Chunk -> Chunk] /\ treebins \in [Bins -> Link] /\ treemap \in SUBSET Bins
  BY DEF TypeOK
<1>3. size[x] # 0 /\ i \in Bins /\ 0 \in Bins
  <2>1. 0 \in 0 .. NTreeBins - 1
    BY Widths
  <2> QED
    BY <1>1, <1>2, <2>1 DEF Binned, Bins
<1>4. /\ \A y \in Chunk : size'[y] = IF y = x THEN 0 ELSE size[y]
      /\ \A y \in Chunk : index'[y] = IF y = x THEN 0 ELSE index[y]
      /\ size' \in [Chunk -> {0} \cup ChunkSizes] /\ index' \in [Chunk -> Bins]
  BY <1>1, <1>2, <1>3
<1>5. \A y \in Chunk : parent'[y] = IF y = x THEN NoChunk
                                    ELSE IF node /\ y = r THEN parent[x]
                                    ELSE IF node /\ parent[y] = x THEN r ELSE parent[y]
  BY <1>1
<1>6. /\ \A y \in Chunk : fd'[y] = IF y = x THEN x ELSE IF y = bk[x] THEN fd[x] ELSE fd[y]
      /\ fd' \in [Chunk -> Chunk]
  BY <1>1, <1>2
<1>7. /\ \A y \in Chunk : bk'[y] = IF y = x THEN x ELSE IF y = fd[x] THEN bk[x] ELSE bk[y]
      /\ bk' \in [Chunk -> Chunk]
  BY <1>1, <1>2
<1>8. \A j \in Bins : treebins'[j] = IF j = i /\ treebins[j] = x THEN r ELSE treebins[j]
  BY <1>1, <1>2
<1>9. treemap' \in SUBSET Bins
      /\ \A j \in Bins : j \in treemap' <=> j \in treemap /\ ~(j = i /\ treebins[j] = x /\ r = NoChunk)
  BY <1>1, <1>2
<1>10. ASSUME r \in Link PROVE parent' \in [Chunk -> Link \cup {Bin}] /\ treebins' \in [Bins -> Link]
  <2>1. treebins' \in [Bins -> Link]
    BY <1>1, <1>2, <1>10
  <2>2. \A y \in Chunk : (IF y = x THEN NoChunk
                          ELSE IF node /\ y = r THEN parent[x]
                          ELSE IF node /\ parent[y] = x THEN r ELSE parent[y]) \in Link \cup {Bin}
    BY <1>2, <1>10 DEF Link
  <2>3. parent' \in [Chunk -> Link \cup {Bin}]
    BY <1>1, <2>2
  <2> QED
    BY <2>1, <2>3
<1>11. Binned' = Binned \ {x}
  BY <1>3, <1>4 DEF Binned
<1>12. ASSUME NEW y \in Binned' PROVE index'[y] = compute_tree_index(size'[y])
  <2>1. y \in Binned /\ y # x /\ y \in Chunk
    BY <1>11 DEF Binned
  <2> QED
    BY <1>4, <2>1 DEF TypeOK
<1> QED
  BY <1>1, <1>3, <1>4, <1>5, <1>6, <1>7, <1>8, <1>9, <1>10, <1>11, <1>12 DEF r

LEMMA ChildrenAre ==
  ASSUME child \in [Chunk -> [0 .. 1 -> Link]], NEW x \in Chunk, NEW r \in Link, r # x
  PROVE  /\ ChildrenAfter(x, r) \in [Chunk -> [0 .. 1 -> Link]]
         /\ \A t \in Chunk, k \in 0 .. 1 :
               ChildrenAfter(x, r)[t][k] =
                  IF t = r THEN IF child[x][k] = r THEN NoChunk ELSE child[x][k]
                  ELSE IF t = x THEN NoChunk
                  ELSE IF child[t][k] = x THEN r
                  ELSE IF child[t][k] = r THEN NoChunk ELSE child[t][k]
<1> DEFINE cut == IF r = NoChunk THEN child ELSE [t \in Chunk |-> Redirect(child[t], r, NoChunk)]
           new == ChildrenAfter(x, r)
           Cut(t, k) == IF child[t][k] = r THEN NoChunk ELSE child[t][k]
<1>1. x # NoChunk /\ NoChunk \in Link /\ x \in Link
  BY ChunkAssumption DEF Link
<1>2. cut \in [Chunk -> [0 .. 1 -> Link]] /\ \A t \in Chunk, k \in 0 .. 1 : cut[t][k] = Cut(t, k)
  <2>1. CASE r = NoChunk
    BY <2>1
  <2>2. CASE r # NoChunk
    <3>1. cut = [t \in Chunk |-> [k \in 0 .. 1 |-> Cut(t, k)]]
      BY <2>2 DEF Redirect
    <3>2. \A t \in Chunk, k \in 0 .. 1 : Cut(t, k) \in Link
      BY <1>1
    <3> HIDE DEF cut, Cut
    <3> QED
      BY <3>1, <3>2
  <2> QED
    BY <2>1, <2>2
<1>3. new = [t \in Chunk |->
               IF t = r THEN cut[x]
               ELSE IF t = x THEN [k \in 0 .. 1 |-> NoChunk]
               ELSE [k \in 0 .. 1 |-> IF cut[t][k] = x THEN r ELSE cut[t][k]]]
  BY DEF ChildrenAfter, Redirect
<1> HIDE DEF cut, new
<1>4. ASSUME NEW t \in Chunk
      PROVE  /\ new[t] \in [0 .. 1 -> Link]
             /\ \A k \in 0 .. 1 : new[t][k] =
                  IF t = r THEN Cut(x, k)
                  ELSE IF t = x THEN NoChunk
                  ELSE IF child[t][k] = x THEN r ELSE Cut(t, k)
  <2>1. CASE t = r
    <3>1. new[t] = cut[x]
      BY <1>3, <2>1
    <3> QED
      BY <1>2, <2>1, <3>1
  <2>2. CASE t # r /\ t = x
    <3>1. new[t] = [k \in 0 .. 1 |-> NoChunk]
      BY <1>3, <2>2
    <3> QED
      BY <1>1, <2>2, <3>1
  <2>3. CASE t # r /\ t # x
    <3>1. new[t] = [k \in 0 .. 1 |-> IF cut[t][k] = x THEN r ELSE cut[t][k]]
      BY <1>3, <2>3
    <3>2. \A k \in 0 .. 1 : cut[t][k] \in Link /\ cut[t][k] = Cut(t, k)
      BY <1>2
    <3>3. \A k \in 0 .. 1 : cut[t][k] = x <=> child[t][k] = x
      BY <1>1, <3>2
    <3> HIDE DEF Cut
    <3>4. new[t] \in [0 .. 1 -> Link]
      BY <3>1, <3>2
    <3>5. \A k \in 0 .. 1 : new[t][k] = IF child[t][k] = x THEN r ELSE Cut(t, k)
      BY <3>1, <3>2, <3>3
    <3> QED
      BY <2>3, <3>4, <3>5
  <2> QED
    BY <2>1, <2>2, <2>3
<1>5. new = [t \in Chunk |-> new[t]]
  BY <1>3
<1>6. new \in [Chunk -> [0 .. 1 -> Link]]
  BY <1>4, <1>5
<1> QED
  BY <1>4, <1>6 DEF new

\* A node is removed, and the chunk that takes its place has its depth.
LEMMA NodeRemoved ==
  ASSUME NEW depth \in Depth, NEW q \in Order, Sound(depth, q), NEW x \in Nodes, Unlink(x)
  PROVE  \E d \in Depth : Tries(d)'
<1> DEFINE r == Replacement(x)
<1>1. Tries(depth) /\ TypeOK /\ x \in Chunk /\ x # NoChunk /\ x # Bin /\ parent[x] # NoChunk /\ Hangs(depth, x)
      /\ size[x] \in Indexable /\ index[x] \in Bins
  <2>1. Tries(depth)
    BY DEF Sound
  <2> QED
    BY <2>1, NodesAre DEF Tries
<1>2. /\ r \in Link /\ r # x
      /\ r = NoChunk => \A k \in 0 .. 1 : child[x][k] = NoChunk
      /\ r # NoChunk => /\ r \in Chunk /\ size[r] # 0 /\ index[r] = index[x]
                        /\ Key(size[r], depth[x]) = Key(size[x], depth[x])
                        /\ \A k \in 0 .. 1 : child[r][k] = NoChunk
                        /\ r \in Nodes => depth[x] < depth[r]
  BY Replaced
<1>3. /\ \A y \in Chunk : size'[y] = IF y = x THEN 0 ELSE size[y]
      /\ \A y \in Chunk : index'[y] = IF y = x THEN 0 ELSE index[y]
      /\ \A y \in Chunk : parent'[y] = IF y = x THEN NoChunk ELSE IF y = r THEN parent[x]
                                       ELSE IF parent[y] = x THEN r ELSE parent[y]
      /\ \A j \in Bins : treebins'[j] = IF j = index[x] /\ treebins[j] = x THEN r ELSE treebins[j]
      /\ \A j \in Bins : j \in treemap' <=> j \in treemap /\ ~(j = index[x] /\ treebins[j] = x /\ r = NoChunk)
      /\ size' \in [Chunk -> {0} \cup ChunkSizes] /\ index' \in [Chunk -> Bins]
      /\ fd' \in [Chunk -> Chunk] /\ bk' \in [Chunk -> Chunk] /\ treemap' \in SUBSET Bins
      /\ parent' \in [Chunk -> Link \cup {Bin}] /\ treebins' \in [Bins -> Link]
      /\ \A y \in Binned' : index'[y] = compute_tree_index(size'[y])
      /\ Binned' = Binned \ {x}
  BY <1>1, <1>2, Unlinked
<1>4. /\ child' \in [Chunk -> [0 .. 1 -> Link]]
      /\ \A t \in Chunk, k \in 0 .. 1 :
               child'[t][k] =
                  IF t = r THEN IF child[x][k] = r THEN NoChunk ELSE child[x][k]
                  ELSE IF t = x THEN NoChunk
                  ELSE IF child[t][k] = x THEN r
                  ELSE IF child[t][k] = r THEN NoChunk ELSE child[t][k]
  <2>1. child \in [Chunk -> [0 .. 1 -> Link]] /\ child' = ChildrenAfter(x, r)
    BY <1>1 DEF TypeOK, Unlink
  <2> HIDE DEF r
  <2> QED
    BY <1>1, <1>2, <2>1, ChildrenAre
<1> HIDE DEF r
<1>5. PICK dd \in Depth : \A y \in Chunk : dd[y] = IF y = r THEN depth[x] ELSE depth[y]
  <2> DEFINE f == [y \in Chunk |-> IF y = r THEN depth[x] ELSE depth[y]]
  <2>1. f \in Depth
    BY <1>1 DEF Depth
  <2> QED
    BY <2>1
<1>6. Nodes' = (Nodes \ {x}) \cup (IF r = NoChunk THEN {} ELSE {r})
  <2>1. ASSUME NEW y \in Chunk, y # x, y # r PROVE parent'[y] # NoChunk <=> parent[y] # NoChunk
    <3>1. CASE parent[y] = x
      <4>1. size[y] # 0
        <5> SUFFICES ASSUME size[y] = 0 PROVE FALSE
          OBVIOUS
        <5>1. Loose(y)
          BY DEF Sound
        <5> QED
          BY <1>1, <3>1, <5>1 DEF Loose
      <4>2. y \in Nodes /\ Hangs(depth, y)
        <5>1. y \in Nodes
          BY <1>1, <3>1, <4>1 DEF Nodes, Binned
        <5> QED
          BY <1>1, <5>1, NodesAre
      <4>3. child[x][Side(size[y], depth[x])] = y /\ y # NoChunk /\ Side(size[y], depth[x]) \in 0 .. 1
        <5>1. size[y] \in Indexable /\ depth[x] \in Nat /\ y # NoChunk
          BY <1>1, <4>2, NodesAre
        <5> QED
          BY <1>1, <3>1, <4>2, <5>1, Keys, LargeSizesAre DEF Hangs
      <4>4. r # NoChunk
        BY <1>2, <4>3
      <4> QED
        BY <1>1, <1>3, <2>1, <3>1, <4>4
    <3>2. CASE parent[y] # x
      BY <1>3, <2>1, <3>2
    <3> QED
      BY <3>1, <3>2
  <2>2. \A y \in Chunk : y \in Nodes' <=> y \in Binned' /\ parent'[y] # NoChunk
    BY DEF Nodes
  <2>3. \A y \in Chunk : y \in Nodes <=> y \in Binned /\ parent[y] # NoChunk
    BY DEF Nodes
  <2>4. \A y \in Nodes' : y \in Chunk
    BY DEF Nodes, Binned
  <2>5. \A y \in Nodes : y \in Chunk
    BY DEF Nodes, Binned
  <2>6. r # NoChunk => r \in Chunk /\ r \in Nodes'
    BY <1>1, <1>2, <1>3, <2>2 DEF Binned
  <2>7. ASSUME NEW y \in Chunk PROVE y \in Nodes' <=> (y \in Nodes /\ y # x) \/ y = r
    <3>1. CASE y = x
      BY <1>2, <1>3, <2>2, <3>1
    <3>2. CASE y = r
      BY <2>6, <3>2, ChunkAssumption
    <3>3. CASE y # x /\ y # r
      BY <1>3, <2>1, <2>2, <2>3, <3>3
    <3> QED
      BY <3>1, <3>2, <3>3
  <2>8. \A y : y \in Nodes' <=> (y \in Nodes /\ y # x) \/ (y = r /\ r # NoChunk)
    BY <2>4, <2>5, <2>6, <2>7, ChunkAssumption
  <2> QED
    BY <2>8
<1>7. TypeOK'
  BY <1>1, <1>3, <1>4 DEF TypeOK
\* The chunk in the place of x, seen from above and from below.
<1>8. r \in Nodes => parent[x] # r
  <2> SUFFICES ASSUME r \in Nodes, parent[x] = r PROVE FALSE
    OBVIOUS
  <2>1. r # Bin /\ r # NoChunk /\ depth[r] \in Nat /\ depth[x] \in Nat
    BY <1>1, NodesAre
  <2>2. depth[x] = depth[r] + 1
    BY <1>1, <2>1 DEF Hangs
  <2> QED
    BY <1>2, <2>1, <2>2
<1>9. Roots'
  <2> SUFFICES ASSUME NEW j \in Bins
               PROVE  /\ j \in treemap' <=> treebins'[j] # NoChunk
                      /\ treebins'[j] # NoChunk => /\ treebins'[j] \in Nodes' /\ index'[treebins'[j]] = j
                                                   /\ parent'[treebins'[j]] = Bin
    BY DEF Roots
  <2>1. /\ j \in treemap <=> treebins[j] # NoChunk
        /\ treebins[j] # NoChunk => /\ treebins[j] \in Nodes /\ index[treebins[j]] = j
                                    /\ parent[treebins[j]] = Bin
    BY <1>1 DEF Tries, Roots
  <2>2. CASE treebins[j] = x
    <3>1. j = index[x] /\ parent[x] = Bin /\ treebins'[j] = r /\ (j \in treemap' <=> r # NoChunk)
      BY <1>1, <1>3, <2>1, <2>2
    <3>2. r # NoChunk => index'[r] = j /\ parent'[r] = Bin /\ r \in Nodes'
      BY <1>2, <1>3, <1>6, <3>1
    <3> QED
      BY <3>1, <3>2
  <2>3. CASE treebins[j] # x
    <3> DEFINE t == treebins[j]
    <3>1. treebins'[j] = t /\ (j \in treemap' <=> j \in treemap)
      BY <1>3, <2>3
    <3>2. t # NoChunk => t \in Chunk /\ t # r
      <4> SUFFICES ASSUME t # NoChunk PROVE t \in Chunk /\ t # r
        OBVIOUS
      <4>1. t \in Nodes /\ t \in Chunk /\ Hangs(depth, t) /\ parent[t] = Bin
        BY <1>1, <2>1, NodesAre
      <4>2. depth[t] = 0 /\ depth[x] \in Nat
        BY <1>1, <4>1, NodesAre DEF Hangs
      <4> QED
        BY <1>2, <4>1, <4>2
    <3>3. t # NoChunk => t \in Nodes' /\ index'[t] = j /\ parent'[t] = Bin
      BY <1>1, <1>3, <1>6, <2>1, <2>3, <3>2
    <3> QED
      BY <2>1, <3>1, <3>3
  <2> QED
    BY <2>2, <2>3
<1>10. ASSUME NEW t \in Nodes' PROVE Hangs(dd, t)'
  <2>1. CASE t = r
    <3>1. r # NoChunk /\ r \in Chunk /\ parent'[t] = parent[x] /\ index'[t] = index[x] /\ size'[t] = size[r] /\ dd[t] = depth[x]
          /\ size[r] \in Indexable /\ compute_tree_index(size[r]) = compute_tree_index(size[x])
      <4>1. r # NoChunk
        BY <1>6, <2>1, ChunkAssumption DEF Nodes, Binned
      <4>2. r \in Chunk /\ r \in Binned
        BY <1>2, <4>1 DEF Binned
      <4>3. size[r] \in Indexable /\ compute_tree_index(size[r]) = compute_tree_index(size[x])
        <5>1. size[r] \in ChunkSizes
          BY <1>1, <1>2, <4>1 DEF TypeOK
        <5>2. index[r] = compute_tree_index(size[r]) /\ index[x] = compute_tree_index(size[x])
          BY <1>1, <4>2, NodesAre DEF TypeOK
        <5> QED
          BY <1>1, <1>2, <4>1, <5>1, <5>2, SizesAre
      <4> QED
        BY <1>2, <1>3, <1>5, <2>1, <4>1, <4>2, <4>3
    <3>2. CASE parent[x] = Bin
      <4>1. treebins[index[x]] = x /\ depth[x] = 0
        BY <1>1, <3>2 DEF Hangs
      <4>2. treebins'[index[x]] = r
        BY <1>1, <1>3, <4>1
      <4> QED
        BY <2>1, <3>1, <3>2, <4>1, <4>2 DEF Hangs
    <3>3. CASE parent[x] # Bin
      <4> DEFINE u == parent[x]
                 n == depth[u]
      <4>1. u \in Nodes /\ index[u] = index[x] /\ depth[x] = n + 1 /\ n <= Top(size[x])
            /\ Key(size[x], n) = Key(size[u], n) /\ child[u][Side(size[x], n)] = x
        BY <1>1, <3>3 DEF Hangs
      <4>2. u \in Chunk /\ n \in Nat /\ n \in 0 .. Top(size[x]) /\ u # r
        <5>1. u \in Chunk /\ n \in Nat /\ Top(size[x]) \in Nat
          BY <1>1, <4>1, NodesAre
        <5> HIDE DEF n
        <5> QED
          BY <1>8, <4>1, <5>1
      <4>3. Key(size[x], n + 1) = Key(size[r], n + 1)
        BY <1>2, <3>1, <4>1
      <4> HIDE DEF n
      <4>4. Key(size[r], n) = Key(size[x], n) /\ Side(size[r], n) = Side(size[x], n) /\ Top(size[r]) = Top(size[x])
        <5> DEFINE a == size[r]
                   b == size[x]
        <5>1. a \in Indexable /\ b \in Indexable /\ compute_tree_index(b) = compute_tree_index(a)
              /\ n \in 0 .. Top(b) /\ Key(b, n + 1) = Key(a, n + 1)
          BY <1>1, <3>1, <4>2, <4>3
        <5> HIDE DEF a, b
        <5>2. Key(b, n) = Key(a, n) /\ Side(b, n) = Side(a, n) /\ Top(b) = Top(a)
          BY <5>1, SameSide, SameBin
        <5> QED
          BY <5>2 DEF a, b
      <4> DEFINE e == Side(size[x], n)
      <4>5. e \in 0 .. 1
        BY <1>1, <4>2, Keys, LargeSizesAre
      <4>6. u # x
        <5> SUFFICES ASSUME u = x PROVE FALSE
          OBVIOUS
        <5>1. depth[u] = n
          BY DEF n
        <5> QED
          BY <4>1, <4>2, <5>1
      <4>7. child'[u][e] = r
        BY <1>4, <4>1, <4>2, <4>5, <4>6
      <4>8. u \in Nodes' /\ index'[u] = index[u] /\ size'[u] = size[u] /\ dd[u] = n
        BY <1>3, <1>5, <1>6, <4>1, <4>2, <4>6 DEF n
      <4> HIDE DEF e, u
      <4>9. parent'[t] = u /\ u # Bin
        BY <3>1, <3>3 DEF u
      <4>10. child'[u][Side(size[r], n)] = r
        BY <4>4, <4>7 DEF e
      <4>11. index[u] = index[x] /\ depth[x] = n + 1 /\ n <= Top(size[x]) /\ Key(size[x], n) = Key(size[u], n)
        BY <4>1 DEF u
      <4> QED
        BY <2>1, <3>1, <4>4, <4>8, <4>9, <4>10, <4>11 DEF Hangs
    <3> QED
      BY <3>2, <3>3
  <2>2. CASE t # r
    <3>1. t \in Nodes /\ t # x /\ t \in Chunk /\ Hangs(depth, t) /\ size'[t] = size[t] /\ index'[t] = index[t] /\ dd[t] = depth[t]
          /\ size[t] \in Indexable /\ t # NoChunk /\ parent'[t] = (IF parent[t] = x THEN r ELSE parent[t])
      <4>1. t \in Nodes /\ t # x
        BY <1>6, <2>2
      <4>2. t \in Chunk /\ Hangs(depth, t) /\ size[t] \in Indexable /\ t # NoChunk
        BY <1>1, <4>1, NodesAre
      <4> QED
        BY <1>3, <1>5, <2>2, <4>1, <4>2
    <3>2. CASE parent[t] = Bin
      <4>1. treebins[index[t]] = t /\ depth[t] = 0 /\ index[t] \in Bins
        BY <1>1, <3>1, <3>2, NodesAre DEF Hangs
      <4>2. treebins'[index[t]] = t
        BY <1>3, <3>1, <4>1
      <4> QED
        BY <1>1, <3>1, <3>2, <4>1, <4>2 DEF Hangs
    <3>3. CASE parent[t] # Bin
      <4> DEFINE u == parent[t]
                 n == depth[u]
                 e == Side(size[t], n)
      <4>1. u \in Nodes /\ index[u] = index[t] /\ depth[t] = n + 1 /\ n <= Top(size[t])
            /\ Key(size[t], n) = Key(size[u], n) /\ child[u][e] = t
        BY <3>1, <3>3 DEF Hangs
      <4>2. u \in Chunk /\ n \in Nat /\ e \in 0 .. 1
        <5>1. u \in Chunk /\ n \in Nat
          BY <1>1, <4>1, NodesAre
        <5> QED
          BY <3>1, <5>1, Keys, LargeSizesAre
      <4>3. CASE u = x
        <5>1. r # NoChunk
          BY <1>2, <3>1, <4>1, <4>2, <4>3
        <5>2. r \in Chunk /\ r \in Nodes' /\ parent'[t] = r /\ index'[r] = index[t] /\ size'[r] = size[r] /\ dd[r] = n /\ r # Bin
          <6>1. r \in Chunk /\ r # Bin
            BY <1>2, <5>1, ChunkAssumption
          <6> QED
            BY <1>2, <1>3, <1>5, <1>6, <3>1, <4>1, <4>3, <5>1, <6>1
        <5>3. child'[r][e] = t
          BY <1>4, <2>2, <4>1, <4>2, <4>3, <5>2
        <5>4. Key(size[t], n) = Key(size[r], n)
          BY <1>2, <4>1, <4>3, <5>1
        <5>5. child'[r][Side(size[t], n)] = t /\ depth[t] = n + 1 /\ n <= Top(size[t])
          BY <4>1, <5>3
        <5> HIDE DEF n, e
        <5> QED
          BY <3>1, <5>2, <5>4, <5>5 DEF Hangs
      <4>4. CASE u # x
        <5>1. u # r
          <6> SUFFICES ASSUME u = r PROVE FALSE
            OBVIOUS
          <6>1. r # NoChunk
            BY <4>2, ChunkAssumption
          <6>2. child[r][e] = NoChunk
            BY <1>2, <4>2, <6>1
          <6> HIDE DEF u, e
          <6> QED
            BY <3>1, <4>1, <6>2
        <5>2. u \in Nodes' /\ parent'[t] = u /\ index'[u] = index[u] /\ size'[u] = size[u] /\ dd[u] = n
          BY <1>3, <1>5, <1>6, <3>1, <4>1, <4>2, <4>4, <5>1
        <5>3. child'[u][e] = t
          BY <1>4, <2>2, <3>1, <4>1, <4>2, <4>4, <5>1
        <5>4. child'[u][Side(size[t], n)] = t /\ depth[t] = n + 1 /\ n <= Top(size[t])
              /\ Key(size[t], n) = Key(size[u], n) /\ index[u] = index[t] /\ u # Bin
          BY <3>3, <4>1, <5>3
        <5> HIDE DEF n, e, u
        <5> QED
          BY <3>1, <5>2, <5>4 DEF Hangs
      <4> QED
        BY <4>3, <4>4
    <3> QED
      BY <3>2, <3>3
  <2> QED
    BY <2>1, <2>2
<1>11. ASSUME NEW t \in Chunk, NEW k \in 0 .. 1 PROVE Holds(dd, t, k)'
  <2> DEFINE c == child'[t][k]
  <2> SUFFICES ASSUME c # NoChunk
               PROVE  t \in Nodes' /\ c \in Nodes' /\ parent'[c] = t /\ Side(size'[c], dd[t]) = k
    BY DEF Holds
  <2>1. CASE t = r
    <3>1. c = child[x][k] /\ c # r
      BY <1>4, <2>1
    <3>2. c \in Nodes /\ parent[c] = x /\ Side(size[c], depth[x]) = k /\ depth[c] = depth[x] + 1
      BY <1>1, <3>1, Children
    <3>3. c \in Chunk /\ c # x /\ r # NoChunk
      <4>1. c \in Chunk /\ depth[x] \in Nat
        BY <1>1, <3>2, NodesAre
      <4> QED
        BY <2>1, <3>2, <4>1, ChunkAssumption
    <3> HIDE DEF c
    <3> QED
      BY <1>3, <1>5, <1>6, <2>1, <3>1, <3>2, <3>3
  <2>2. CASE t # r /\ t = x
    BY <1>4, <2>2
  <2>3. CASE t # r /\ t # x /\ child[t][k] = x
    <3>1. c = r
      BY <1>4, <2>3
    <3>2. t \in Nodes /\ parent[x] = t /\ Side(size[x], depth[t]) = k /\ depth[x] = depth[t] + 1 /\ depth[t] \in 0 .. Top(size[x])
      BY <1>1, <2>3, Children
    <3>3. r # NoChunk /\ r \in Chunk /\ r \in Binned
      BY <1>2, <3>1 DEF Binned
    <3>4. size[r] \in Indexable /\ compute_tree_index(size[r]) = compute_tree_index(size[x])
      <4>1. size[r] \in ChunkSizes
        BY <1>1, <1>2, <3>3 DEF TypeOK
      <4>2. index[r] = compute_tree_index(size[r]) /\ index[x] = compute_tree_index(size[x])
        BY <1>1, <3>3, NodesAre DEF TypeOK
      <4> QED
        BY <1>1, <1>2, <3>3, <4>1, <4>2, SizesAre
    <3>5. Side(size[r], depth[t]) = Side(size[x], depth[t])
      <4> DEFINE a == size[r]
                 b == size[x]
                 n == depth[t]
      <4>1. a \in Indexable /\ b \in Indexable /\ compute_tree_index(b) = compute_tree_index(a)
            /\ n \in 0 .. Top(b) /\ Key(b, n + 1) = Key(a, n + 1)
        BY <1>1, <1>2, <3>2, <3>3, <3>4
      <4> HIDE DEF a, b, n
      <4>2. Side(b, n) = Side(a, n)
        BY <4>1, SameSide
      <4> QED
        BY <4>2 DEF a, b, n
    <3> HIDE DEF c
    <3>6. t \in Nodes' /\ c \in Nodes' /\ parent'[c] = t
      BY <1>2, <1>3, <1>6, <2>3, <3>1, <3>2, <3>3
    <3>7. size'[c] = size[r] /\ dd[t] = depth[t]
      BY <1>2, <1>3, <1>5, <2>3, <3>1, <3>3
    <3> QED
      BY <3>2, <3>5, <3>6, <3>7
  <2>4. CASE t # r /\ t # x /\ child[t][k] # x
    <3>1. c = child[t][k] /\ c # r
      BY <1>4, <2>4
    <3>2. t \in Nodes /\ c \in Nodes /\ parent[c] = t /\ Side(size[c], depth[t]) = k
      BY <1>1, <3>1, Children
    <3>3. c \in Chunk /\ c # x
      BY <1>1, <2>4, <3>1, <3>2, NodesAre
    <3> HIDE DEF c
    <3> QED
      BY <1>3, <1>5, <1>6, <2>4, <3>1, <3>2, <3>3
  <2> QED
    BY <2>1, <2>2, <2>3, <2>4
<1> QED
  BY <1>7, <1>9, <1>10, <1>11 DEF Tries

\* The place before m in a ring of n.
Before(m, n) == IF m = 1 THEN n ELSE m - 1

\* Where the place i of a ring without place m was before.
Old(i, m) == IF i < m THEN i ELSE i + 1

LEMMA RingPlaces ==
  ASSUME NEW n \in Nat, NEW m \in 1 .. n
  PROVE  /\ Before(m, n) \in 1 .. n /\ After(Before(m, n), n) = m
         /\ \A i \in 1 .. n : After(i, n) \in 1 .. n /\ (After(i, n) = m => i = Before(m, n))
         /\ \A i \in 1 .. n - 1 :
               LET o == Old(i, m)
                   e == Old(After(i, n - 1), m)
               IN  /\ o \in 1 .. n /\ o # m /\ After(i, n - 1) \in 1 .. n - 1 /\ e \in 1 .. n
                   /\ IF o = Before(m, n) THEN e = After(m, n) ELSE e = After(o, n) /\ e # After(m, n)
         /\ \A j \in 1 .. n : j # m => \E i \in 1 .. n - 1 : Old(i, m) = j
         /\ \A i, j \in 1 .. n - 1 : Old(i, m) = Old(j, m) => i = j
         /\ n # 1 => After(1, n) = 2
<1>1. Before(m, n) \in 1 .. n /\ After(Before(m, n), n) = m
  BY DEF Before, After
<1>2. ASSUME NEW i \in 1 .. n PROVE After(i, n) \in 1 .. n /\ (After(i, n) = m => i = Before(m, n))
  BY DEF Before, After
<1>3. ASSUME NEW i \in 1 .. n - 1
      PROVE  LET o == Old(i, m)
                 e == Old(After(i, n - 1), m)
             IN  /\ o \in 1 .. n /\ o # m /\ After(i, n - 1) \in 1 .. n - 1 /\ e \in 1 .. n
                 /\ IF o = Before(m, n) THEN e = After(m, n) ELSE e = After(o, n) /\ e # After(m, n)
  <2> DEFINE k == After(i, n - 1)
  <2>1. k = (IF i = n - 1 THEN 1 ELSE i + 1) /\ k \in 1 .. n - 1
    BY DEF After
  <2> HIDE DEF k
  <2>2. Old(i, m) \in 1 .. n /\ Old(i, m) # m /\ Old(k, m) \in 1 .. n
    BY <2>1 DEF Old
  <2>3. IF Old(i, m) = Before(m, n) THEN Old(k, m) = After(m, n) ELSE Old(k, m) = After(Old(i, m), n) /\ Old(k, m) # After(m, n)
    BY <2>1 DEF Old, Before, After
  <2> QED
    BY <2>1, <2>2, <2>3 DEF k
<1>4. ASSUME NEW j \in 1 .. n, j # m PROVE \E i \in 1 .. n - 1 : Old(i, m) = j
  <2>1. CASE j < m
    <3>1. j \in 1 .. n - 1 /\ Old(j, m) = j
      BY <2>1 DEF Old
    <3> QED
      BY <3>1
  <2>2. CASE j > m
    <3>1. j - 1 \in 1 .. n - 1 /\ Old(j - 1, m) = j
      BY <2>2 DEF Old
    <3> QED
      BY <3>1
  <2> QED
    BY <1>4, <2>1, <2>2
<1>5. \A i, j \in 1 .. n - 1 : Old(i, m) = Old(j, m) => i = j
  BY DEF Old
<1>6. n # 1 => After(1, n) = 2
  BY DEF After
<1> QED
  BY <1>1, <1>2, <1>3, <1>4, <1>5, <1>6

LEMMA WithoutIs ==
  ASSUME NEW l \in Seq(Chunk), NEW m \in 1 .. Len(l), \A j, k \in 1 .. Len(l) : l[j] = l[k] => j = k
  PROVE  /\ B!Without(l, l[m]) \in Seq(Chunk) /\ Len(B!Without(l, l[m])) = Len(l) - 1
         /\ \A i \in 1 .. Len(l) - 1 : B!Without(l, l[m])[i] = l[Old(i, m)]
<1> DEFINE n == Len(l)
           w == B!Without(l, l[m])
<1>1. n \in Nat /\ n - 1 \in Nat /\ \A i \in 1 .. n : l[i] \in Chunk
  OBVIOUS
<1>2. w = [i \in 1 .. n - 1 |-> IF \E j \in 1 .. i : l[j] = l[m] THEN l[i + 1] ELSE l[i]]
  BY DEF B!Without
<1> HIDE DEF w
<1>3. ASSUME NEW i \in 1 .. n - 1 PROVE w[i] = l[Old(i, m)] /\ w[i] \in Chunk
  <2>1. (\E j \in 1 .. i : l[j] = l[m]) <=> m <= i
    BY <1>1
  <2>2. w[i] = IF m <= i THEN l[i + 1] ELSE l[i]
    BY <1>2, <2>1
  <2>3. i \in 1 .. n /\ i + 1 \in 1 .. n
    BY <1>1
  <2>4. Old(i, m) = IF m <= i THEN i + 1 ELSE i
    BY <1>1 DEF Old
  <2> QED
    BY <1>1, <2>2, <2>3, <2>4
<1>4. w \in [1 .. n - 1 -> Chunk]
  <2>1. w = [i \in 1 .. n - 1 |-> w[i]]
    BY <1>2
  <2> QED
    BY <1>3, <2>1
<1>5. w \in Seq(Chunk) /\ Len(w) = n - 1
  <2> DEFINE k == n - 1
  <2>1. k \in Nat /\ w \in [1 .. k -> Chunk]
    BY <1>1, <1>4
  <2> HIDE DEF k
  <2>2. w \in Seq(Chunk) /\ Len(w) = k
    BY <2>1
  <2> QED
    BY <2>2 DEF k
<1> QED
  BY <1>3, <1>5 DEF w

\* The rings after a removal.
LEMMA RingsRemoved ==
  ASSUME NEW depth \in Depth, NEW q \in Order, Sound(depth, q), NEW x \in Chunk, NEW s, s = size[x],
         Unlink(x)
  PROVE  LET r == [q EXCEPT ![s] = B!Without(q[s], x)]
         IN  r \in Order /\ (\A z \in Indexable : Ring(r[z], z)') /\ \A y \in Chunk : Loose(y)'
<1> DEFINE l == q[s]
           n == Len(l)
           w == B!Without(l, x)
           qq == [q EXCEPT ![s] = w]
           r == Replacement(x)
           node == parent[x] # NoChunk
<1>1. Tries(depth) /\ TypeOK
  BY DEF Sound, Tries
<1>2. /\ size[x] # 0 /\ x \in Binned
      /\ \A y \in Chunk : size'[y] = IF y = x THEN 0 ELSE size[y]
      /\ \A y \in Chunk : parent'[y] = IF y = x THEN NoChunk
                                       ELSE IF node /\ y = r THEN parent[x]
                                       ELSE IF node /\ parent[y] = x THEN r ELSE parent[y]
      /\ \A y \in Chunk : fd'[y] = IF y = x THEN x ELSE IF y = bk[x] THEN fd[x] ELSE fd[y]
      /\ \A y \in Chunk : bk'[y] = IF y = x THEN x ELSE IF y = fd[x] THEN bk[x] ELSE bk[y]
  BY <1>1, Unlinked
<1>3. s \in Indexable /\ s # 0 /\ l \in Seq(Chunk) /\ Ring(l, s) /\ n \in Nat \ {0} /\ \E j \in 1 .. n : l[j] = x
  BY <1>2, RingOf
<1>4. PICK m \in 1 .. n : l[m] = x
  BY <1>3
<1>5. /\ \A j \in 1 .. n : l[j] \in Chunk /\ size[l[j]] = s /\ (parent[l[j]] # NoChunk <=> j = 1)
      /\ \A j \in 1 .. n : bk[l[j]] = l[After(j, n)] /\ fd[l[After(j, n)]] = l[j]
      /\ \A j, k \in 1 .. n : l[j] = l[k] => j = k
      /\ \A y \in Chunk : size[y] = s => \E j \in 1 .. n : l[j] = y
  BY <1>3 DEF Ring
<1>6. w \in Seq(Chunk) /\ Len(w) = n - 1 /\ \A i \in 1 .. n - 1 : w[i] = l[Old(i, m)]
  <2>1. B!Without(l, l[m]) \in Seq(Chunk) /\ Len(B!Without(l, l[m])) = Len(l) - 1
        /\ \A i \in 1 .. Len(l) - 1 : B!Without(l, l[m])[i] = l[Old(i, m)]
    <3> HIDE DEF l
    <3> QED
      BY <1>3, <1>4, <1>5, WithoutIs, ZenonT(60) DEF n
  <2> QED
    BY <1>4, <2>1
<1>7. /\ Before(m, n) \in 1 .. n /\ After(Before(m, n), n) = m /\ After(m, n) \in 1 .. n
      /\ \A i \in 1 .. n - 1 :
               LET o == Old(i, m)
                   e == Old(After(i, n - 1), m)
               IN  /\ o \in 1 .. n /\ o # m /\ After(i, n - 1) \in 1 .. n - 1 /\ e \in 1 .. n
                   /\ IF o = Before(m, n) THEN e = After(m, n) ELSE e = After(o, n) /\ e # After(m, n)
      /\ \A j \in 1 .. n : j # m => \E i \in 1 .. n - 1 : Old(i, m) = j
      /\ \A i, j \in 1 .. n - 1 : Old(i, m) = Old(j, m) => i = j
      /\ n # 1 => After(1, n) = 2
  <2> HIDE DEF n
  <2>1. n \in Nat
    BY <1>3
  <2> QED
    BY <1>4, <2>1, RingPlaces
<1>8. bk[x] = l[After(m, n)] /\ fd[x] = l[Before(m, n)]
  <2>1. fd[l[After(Before(m, n), n)]] = l[Before(m, n)]
    BY <1>5, <1>7
  <2> QED
    BY <1>4, <1>5, <1>7, <2>1
<1> HIDE DEF w, n, r
<1>9. ASSUME NEW y \in Chunk, y # x, size[y] # s, size[y] # 0
      PROVE  parent'[y] # NoChunk <=> parent[y] # NoChunk
  <2>1. CASE ~node
    BY <1>2, <1>9, <2>1
  <2>2. CASE node
    <3>1. x \in Nodes
      BY <1>2, <2>2 DEF Nodes
    <3>2. /\ r = NoChunk => \A k \in 0 .. 1 : child[x][k] = NoChunk
          /\ r \notin Nodes /\ r # NoChunk => size[r] = size[x]
      BY <3>1, Replaced DEF r
    <3>3. CASE y = r
      <4>1. y \in Nodes
        BY <1>9, <3>2, <3>3, ChunkAssumption
      <4> QED
        BY <1>2, <1>9, <2>2, <3>3, <4>1 DEF Nodes
    <3>4. CASE y # r /\ parent[y] = x
      <4>1. x # NoChunk /\ x # Bin /\ y # NoChunk
        BY ChunkAssumption
      <4>2. y \in Nodes
        BY <1>9, <3>4, <4>1 DEF Nodes, Binned
      <4>3. Hangs(depth, y) /\ size[y] \in Indexable /\ depth[x] \in Nat
        BY <1>1, <3>1, <4>2, NodesAre
      <4>4. child[x][Side(size[y], depth[x])] = y /\ Side(size[y], depth[x]) \in 0 .. 1
        BY <3>4, <4>1, <4>3, Keys, LargeSizesAre DEF Hangs
      <4>5. r # NoChunk
        BY <3>2, <4>1, <4>4
      <4> QED
        BY <1>2, <1>9, <2>2, <3>4, <4>1, <4>5
    <3>5. CASE y # r /\ parent[y] # x
      BY <1>2, <1>9, <3>5
    <3> QED
      BY <3>3, <3>4, <3>5
  <2> QED
    BY <2>1, <2>2
<1>10. ASSUME NEW i \in 1 .. n - 1
       PROVE  /\ size'[w[i]] = s /\ (parent'[w[i]] # NoChunk <=> i = 1)
              /\ bk'[w[i]] = w[After(i, n - 1)] /\ fd'[w[After(i, n - 1)]] = w[i]
  <2> DEFINE o == Old(i, m)
             e == Old(After(i, n - 1), m)
  <2>1. /\ o \in 1 .. n /\ o # m /\ e \in 1 .. n /\ After(i, n - 1) \in 1 .. n - 1
        /\ IF o = Before(m, n) THEN e = After(m, n) ELSE e = After(o, n) /\ e # After(m, n)
    BY <1>7
  <2>2. w[i] = l[o] /\ w[After(i, n - 1)] = l[e]
    BY <1>6, <2>1
  <2>3. e # m
    BY <1>7, <2>1
  <2>4. o = IF i < m THEN i ELSE i + 1
    BY DEF Old
  <2> HIDE DEF o, e, l
  <2>5. l[o] \in Chunk /\ l[e] \in Chunk /\ l[o] # x /\ l[e] # x /\ size[l[o]] = s /\ size[l[e]] = s
    BY <1>4, <1>5, <2>1, <2>3
  <2>6. size'[l[o]] = s
    BY <1>2, <2>5
  <2>7. parent'[l[o]] # NoChunk <=> i = 1
    <3>1. CASE m = 1
      <4>1. node /\ x \in Nodes
        BY <1>2, <1>4, <1>5, <3>1 DEF Nodes
      <4>2. n # 1 /\ bk[x] = l[2]
        <5>1. n # 1
          BY <1>3
        <5>2. After(m, n) = 2
          BY <1>7, <3>1, <5>1
        <5> QED
          BY <1>8, <5>1, <5>2
      <4>3. bk[x] # x /\ 2 \in 1 .. n
        <5>1. 2 \in 1 .. n
          BY <1>3, <4>2
        <5> QED
          BY <1>4, <1>5, <3>1, <4>2, <5>1
      <4>4. r = bk[x]
        BY <4>3 DEF Replacement, r
      <4>5. o = i + 1
        BY <2>4, <3>1
      <4>6. CASE i = 1
        <5>1. l[o] = r
          BY <4>2, <4>4, <4>5, <4>6
        <5> QED
          BY <1>2, <2>5, <4>1, <4>6, <5>1
      <4>7. CASE i # 1
        <5>1. l[o] # r /\ o # 1
          BY <1>5, <2>1, <4>2, <4>3, <4>4, <4>5, <4>7
        <5>2. parent[l[o]] = NoChunk
          BY <1>5, <2>1, <5>1
        <5>3. x # NoChunk
          BY ChunkAssumption
        <5> QED
          BY <1>2, <2>5, <4>7, <5>1, <5>2, <5>3
      <4> QED
        BY <4>6, <4>7
    <3>2. CASE m # 1
      <4>1. ~node
        BY <1>4, <1>5, <3>2
      <4>2. parent'[l[o]] = parent[l[o]]
        BY <1>2, <2>5, <4>1
      <4>3. o = 1 <=> i = 1
        BY <1>3, <1>4, <2>4, <3>2
      <4> QED
        BY <1>5, <2>1, <4>2, <4>3
    <3> QED
      BY <3>1, <3>2
  <2>8. bk'[l[o]] = l[e]
    <3>1. l[o] = fd[x] <=> o = Before(m, n)
      BY <1>5, <1>7, <1>8, <2>1
    <3> QED
      BY <1>2, <1>5, <1>8, <2>1, <2>5, <3>1
  <2>9. fd'[l[e]] = l[o]
    <3>1. l[e] = bk[x] <=> e = After(m, n)
      BY <1>5, <1>7, <1>8, <2>1
    <3> QED
      BY <1>2, <1>5, <1>8, <2>1, <2>5, <3>1
  <2> QED
    BY <2>2, <2>6, <2>7, <2>8, <2>9
<1>11. ASSUME NEW i \in 1 .. n - 1, NEW j \in 1 .. n - 1, w[i] = w[j] PROVE i = j
  <2>1. Old(i, m) \in 1 .. n /\ Old(j, m) \in 1 .. n
    BY <1>7
  <2>2. l[Old(i, m)] = l[Old(j, m)]
    BY <1>6, <1>11
  <2>3. Old(i, m) = Old(j, m)
    BY <1>5, <2>1, <2>2
  <2> QED
    BY <1>7, <2>3
<1>12. ASSUME NEW y \in Chunk, size'[y] = s PROVE \E i \in 1 .. n - 1 : w[i] = y
  <2>1. y # x /\ size[y] = s
    BY <1>2, <1>3, <1>12
  <2>2. PICK j \in 1 .. n : l[j] = y
    BY <1>5, <2>1
  <2>3. PICK i \in 1 .. n - 1 : Old(i, m) = j
    BY <1>4, <1>7, <2>1, <2>2
  <2> QED
    BY <1>6, <2>2, <2>3
<1>13. Ring(w, s)'
  <2> DEFINE k == n - 1
  <2>1. Len(w) = k
    BY <1>6
  <2>2. \A i \in 1 .. k : /\ size'[w[i]] = s /\ (parent'[w[i]] # NoChunk <=> i = 1)
                          /\ bk'[w[i]] = w[After(i, k)] /\ fd'[w[After(i, k)]] = w[i]
    BY <1>10
  <2>3. \A i, j \in 1 .. k : w[i] = w[j] => i = j
    BY <1>11
  <2>4. \A y \in Chunk : size'[y] = s => \E i \in 1 .. k : w[i] = y
    BY <1>12
  <2> HIDE DEF k
  <2> QED
    BY <2>1, <2>2, <2>3, <2>4 DEF Ring
<1>14. qq \in Order /\ qq[s] = w /\ \A z \in Indexable : z # s => qq[z] = q[z]
  BY <1>3, <1>6 DEF Order
<1> HIDE DEF qq, l
<1>15. x \in Chunk /\ size[bk[x]] = s /\ size[fd[x]] = s
  BY <1>5, <1>7, <1>8
<1>16. ASSUME NEW z \in Indexable PROVE Ring(qq[z], z)'
  <2>1. CASE z = s
    BY <1>13, <1>14, <2>1
  <2>2. CASE z # s
    <3> DEFINE v == q[z]
    <3>1. v \in Seq(Chunk) /\ Ring(v, z) /\ z # 0
      BY LargeSizesAre DEF Order, Sound
    <3>2. \A y \in Chunk : size'[y] = z <=> size[y] = z
      BY <1>2, <2>2, <3>1
    <3>3. \A y \in Chunk : size[y] = z => /\ parent'[y] # NoChunk <=> parent[y] # NoChunk
                                          /\ fd'[y] = fd[y] /\ bk'[y] = bk[y]
      <4> SUFFICES ASSUME NEW y \in Chunk, size[y] = z
                   PROVE  /\ parent'[y] # NoChunk <=> parent[y] # NoChunk
                          /\ fd'[y] = fd[y] /\ bk'[y] = bk[y]
        OBVIOUS
      <4>1. y # x /\ y # bk[x] /\ y # fd[x]
        BY <1>15, <2>2
      <4>2. parent'[y] # NoChunk <=> parent[y] # NoChunk
        BY <1>9, <2>2, <3>1, <4>1
      <4> QED
        BY <1>2, <4>1, <4>2
    <3> HIDE DEF v
    <3>4. Ring(v, z)'
      BY <3>1, <3>2, <3>3, RingKept
    <3> QED
      BY <1>14, <2>2, <3>4 DEF v
  <2> QED
    BY <2>1, <2>2
<1>17. ASSUME NEW y \in Chunk PROVE Loose(y)'
  <2>1. CASE y = x
    BY <1>2, <2>1 DEF Loose
  <2>2. CASE y # x
    <3> SUFFICES ASSUME size[y] = 0 PROVE fd'[y] = y /\ bk'[y] = y /\ parent'[y] = NoChunk
      BY <1>2, <2>2 DEF Loose
    <3>1. fd[y] = y /\ bk[y] = y /\ parent[y] = NoChunk
      BY DEF Sound, Loose
    <3>2. y # bk[x] /\ y # fd[x]
      BY <1>3, <1>15
    <3>3. ~(node /\ y = r)
      <4> SUFFICES ASSUME node, y = r PROVE FALSE
        OBVIOUS
      <4>1. x \in Nodes
        BY <1>2 DEF Nodes
      <4>2. r # NoChunk => size[r] # 0
        BY <4>1, Replaced DEF r
      <4> QED
        BY <4>2, ChunkAssumption
    <3>4. x # NoChunk
      BY ChunkAssumption
    <3> QED
      BY <1>2, <2>2, <3>1, <3>2, <3>3, <3>4
  <2> QED
    BY <2>1, <2>2
<1> QED
  BY <1>14, <1>16, <1>17 DEF qq, w, l

LEMMA UnlinkKeeps ==
  ASSUME NEW depth \in Depth, NEW q \in Order, Sound(depth, q), NEW x \in Chunk, NEW s, s = size[x], Unlink(x)
  PROVE  /\ [q EXCEPT ![s] = B!Without(q[s], x)] \in Order
         /\ \E d \in Depth : Sound(d, [q EXCEPT ![s] = B!Without(q[s], x)])'
<1> DEFINE r == [q EXCEPT ![s] = B!Without(q[s], x)]
           node == parent[x] # NoChunk
<1>1. Tries(depth) /\ TypeOK
  BY DEF Sound, Tries
<1>2. r \in Order /\ (\A z \in Indexable : Ring(r[z], z)') /\ \A y \in Chunk : Loose(y)'
  BY RingsRemoved
<1>3. /\ size[x] # 0 /\ x \in Binned
      /\ \A y \in Chunk : size'[y] = IF y = x THEN 0 ELSE size[y]
      /\ \A y \in Chunk : index'[y] = IF y = x THEN 0 ELSE index[y]
      /\ \A y \in Chunk : parent'[y] = IF y = x THEN NoChunk
                                       ELSE IF node /\ y = Replacement(x) THEN parent[x]
                                       ELSE IF node /\ parent[y] = x THEN Replacement(x) ELSE parent[y]
      /\ size' \in [Chunk -> {0} \cup ChunkSizes] /\ index' \in [Chunk -> Bins]
      /\ fd' \in [Chunk -> Chunk] /\ bk' \in [Chunk -> Chunk] /\ treemap' \in SUBSET Bins
      /\ Replacement(x) \in Link => parent' \in [Chunk -> Link \cup {Bin}] /\ treebins' \in [Bins -> Link]
      /\ \A y \in Binned' : index'[y] = compute_tree_index(size'[y])
      /\ Binned' = Binned \ {x}
  BY <1>1, Unlinked
<1>4. \E d \in Depth : Tries(d)'
  <2>1. CASE x \in Nodes
    BY <2>1, NodeRemoved
  <2>2. CASE x \notin Nodes
    <3>1. parent[x] = NoChunk
      BY <1>3, <2>2 DEF Nodes
    <3>2. /\ \A t \in Chunk, k \in 0 .. 1 : child[t][k] # x
          /\ \A i \in Bins : treebins[i] # x
          /\ \A t \in Nodes : parent[t] # x
      BY <1>1, <2>2, Outside
    <3>3. child' = child
      BY <3>1 DEF Unlink
    <3>4. index[x] \in Bins
      BY <1>1 DEF TypeOK
    <3>5. treebins' = treebins /\ treemap' = treemap
      BY <3>2, <3>4 DEF Unlink
    <3>6. bk[x] # x
      <4> DEFINE l == q[s]
                 n == Len(l)
      <4>1. Ring(l, s) /\ n \in Nat \ {0} /\ \E j \in 1 .. n : l[j] = x
        BY <1>3, RingOf
      <4>2. PICK j \in 1 .. n : l[j] = x
        BY <4>1
      <4>3. (parent[x] # NoChunk <=> j = 1) /\ bk[x] = l[After(j, n)]
        BY <4>1, <4>2 DEF Ring
      <4>4. After(j, n) \in 1 .. n /\ After(j, n) # j
        BY <3>1, <4>1, <4>3 DEF After
      <4> HIDE DEF n
      <4>5. l[After(j, n)] # l[j]
        BY <4>1, <4>4 DEF Ring, n
      <4> QED
        BY <4>2, <4>3, <4>5
    <3>7. Replacement(x) \in Link
      BY <1>1, <3>6 DEF Replacement, TypeOK, Link
    <3>8. TypeOK'
      BY <1>1, <1>3, <3>3, <3>7 DEF TypeOK
    <3>9. \A y \in Chunk : parent'[y] = parent[y]
      BY <1>3, <3>1
    <3>10. Nodes' = Nodes
      <4>1. \A y \in Chunk : y \in Nodes' <=> y \in Nodes
        BY <1>3, <3>1, <3>9 DEF Nodes
      <4>2. \A y \in Nodes' : y \in Chunk
        BY DEF Nodes, Binned
      <4>3. \A y \in Nodes : y \in Chunk
        BY DEF Nodes, Binned
      <4> QED
        BY <4>1, <4>2, <4>3
    <3>11. \A t \in Nodes : parent'[t] = parent[t] /\ size'[t] = size[t] /\ index'[t] = index[t]
      BY <1>1, <1>3, <2>2, <3>9, NodesAre
    <3>12. Tries(depth)'
      BY <1>1, <3>3, <3>5, <3>8, <3>10, <3>11, TriesKept
    <3> QED
      BY <3>12
  <2> QED
    BY <2>1, <2>2
<1> HIDE DEF r
<1>5. \E d \in Depth : Sound(d, r)'
  BY <1>2, <1>4 DEF Sound
<1> QED
  BY <1>2, <1>5 DEF r

----------------------------------------------------------------------------
(* The invariant holds.                                                    *)

LEMMA InitSound ==
  ASSUME Init, ChunkSizes \subseteq Indexable
  PROVE  TreeSound
<1> DEFINE depth == [x \in Chunk |-> 0]
           q == [s \in Indexable |-> <<>>]
<1>1. depth \in Depth /\ q \in Order
  BY DEF Depth, Order
<1>2. 0 \in Bins
  <2>1. 0 \in 0 .. NTreeBins - 1
    BY Widths
  <2> QED
    BY <2>1 DEF Bins
<1>3. Binned = {} /\ Nodes = {}
  BY DEF Init, Binned, Nodes
<1>4. /\ size \in [Chunk -> {0} \cup ChunkSizes] /\ index \in [Chunk -> Bins]
      /\ parent \in [Chunk -> Link \cup {Bin}] /\ fd \in [Chunk -> Chunk] /\ bk \in [Chunk -> Chunk]
      /\ treebins \in [Bins -> Link] /\ treemap \in SUBSET Bins
  BY <1>2 DEF Init, Link
<1>5. child \in [Chunk -> [0 .. 1 -> Link]] /\ \A t \in Chunk, k \in 0 .. 1 : child[t][k] = NoChunk
  <2>1. child = [x \in Chunk |-> [k \in 0 .. 1 |-> NoChunk]] /\ NoChunk \in Link
    BY DEF Init, Link
  <2> QED
    BY <2>1
<1>6. TypeOK
  BY <1>3, <1>4, <1>5 DEF TypeOK
<1>7. Roots
  BY DEF Init, Roots
<1>8. Tries(depth)
  BY <1>3, <1>5, <1>6, <1>7 DEF Tries, Holds
<1>9. ASSUME NEW s \in Indexable PROVE Ring(q[s], s)
  <2>1. q[s] = <<>> /\ Len(<<>>) = 0 /\ s # 0
    BY LargeSizesAre
  <2>2. \A x \in Chunk : size[x] # s
    BY <2>1 DEF Init
  <2> HIDE DEF q
  <2> QED
    BY <2>1, <2>2 DEF Ring
<1>10. \A x \in Chunk : Loose(x)
  BY DEF Init, Loose
<1> HIDE DEF depth, q
<1>11. Sound(depth, q)
  BY <1>8, <1>9, <1>10 DEF Sound
<1> QED
  BY <1>1, <1>11 DEF TreeSound

LEMMA StepSound == TreeSound /\ [Next]_vars => TreeSound'
<1> SUFFICES ASSUME TreeSound, [Next]_vars PROVE TreeSound'
  OBVIOUS
<1>1. PICK depth \in Depth, q \in Order : Sound(depth, q)
  BY DEF TreeSound
<1>2. CASE UNCHANGED vars
  <2>1. Sound(depth, q)'
    BY <1>1, <1>2 DEF vars, Sound, Tries, TypeOK, Roots, Hangs, Holds, Ring, Loose, Nodes, Binned
  <2> QED
    BY <2>1 DEF TreeSound
<1>3. ASSUME NEW x \in Chunk, NEW s \in ChunkSizes, InsertRoot(x, s) PROVE TreeSound'
  BY <1>1, <1>3, InsertRootKeeps DEF TreeSound
<1>4. ASSUME NEW x \in Chunk, NEW s \in ChunkSizes, InsertLeaf(x, s) PROVE TreeSound'
  BY <1>1, <1>4, InsertLeafKeeps DEF TreeSound
<1>5. ASSUME NEW x \in Chunk, NEW s \in ChunkSizes, InsertRing(x, s) PROVE TreeSound'
  BY <1>1, <1>5, InsertRingKeeps DEF TreeSound
<1>6. ASSUME NEW x \in Chunk, Unlink(x) PROVE TreeSound'
  <2>1. PICK s : s = size[x]
    OBVIOUS
  <2> QED
    BY <1>1, <1>6, <2>1, UnlinkKeeps DEF TreeSound
<1> QED
  BY <1>2, <1>3, <1>4, <1>5, <1>6 DEF Next

\* The tries are tries and the rings are rings, whatever is inserted and removed:
\* no pointer is left behind by the replacement of nodes in unlink_large_chunk.
THEOREM TreesStaySound == ChunkSizes \subseteq Indexable => (Spec => []TreeSound)
<1>1. ASSUME ChunkSizes \subseteq Indexable PROVE Spec => []TreeSound
  <2>1. Init => TreeSound
    BY <1>1, InitSound
  <2>2. TreeSound /\ [Next]_vars => TreeSound'
    BY StepSound
  <2> QED
    BY <2>1, <2>2, PTL DEF Spec
<1> QED
  BY <1>1

----------------------------------------------------------------------------
(* The rings are the lists of HeapChunks.                                  *)

LEMMA QueueIsRing ==
  ASSUME NEW depth \in Depth, NEW q \in Order, Sound(depth, q), NEW s \in Indexable
  PROVE  Queue(s) = q[s]
<1> DEFINE l == q[s]
           n == Len(l)
           S == {x \in Binned : size[x] = s}
           first == CHOOSE t \in Nodes : size[t] = s
           Is(f) == f = [j \in 1 .. Cardinality(S) |-> IF j = 1 THEN first ELSE bk[f[j - 1]]]
<1>1. s # 0 /\ l \in Seq(Chunk) /\ Ring(l, s)
  BY LargeSizesAre DEF Order, Sound
<1>2. n \in Nat /\ l \in [1 .. n -> Chunk] /\ l = [j \in 1 .. n |-> l[j]]
  BY <1>1
<1>3. \A j \in 1 .. n : l[j] \in S
  BY <1>1, <1>2 DEF Ring, Binned
<1>4. Cardinality(S) = n
  <2>1. l \in Bijection(1 .. n, S)
    <3>1. l \in [1 .. n -> S]
      BY <1>2, <1>3
    <3>2. \A j, k \in 1 .. n : l[j] = l[k] => j = k
      BY <1>1 DEF Ring
    <3>3. \A y \in S : \E j \in 1 .. n : l[j] = y
      BY <1>1 DEF Ring, Binned
    <3> HIDE DEF S, n, l
    <3> QED
      BY <3>1, <3>2, <3>3 DEF Bijection, Injection, Surjection, IsInjective
  <2> HIDE DEF S, n, l
  <2> QED
    BY <1>2, <2>1, FS_CountingElements DEF ExistsBijection
<1>5. n # 0 => first = l[1]
  <2> SUFFICES ASSUME n # 0 PROVE first = l[1]
    OBVIOUS
  <2>1. 1 \in 1 .. n /\ l[1] \in S
    BY <1>2, <1>3
  <2>2. l[1] \in Nodes /\ size[l[1]] = s /\ \A t \in Nodes : size[t] = s => t = l[1]
    BY <2>1, RingOf
  <2> HIDE DEF l
  <2> QED
    BY <2>2
<1>6. \A j \in 1 .. n : j # n => bk[l[j]] = l[j + 1]
  BY <1>1 DEF Ring, After
<1>7. \A j \in 1 .. n : l[j] = IF j = 1 THEN first ELSE bk[l[j - 1]]
  <2> SUFFICES ASSUME NEW j \in 1 .. n PROVE l[j] = IF j = 1 THEN first ELSE bk[l[j - 1]]
    OBVIOUS
  <2> HIDE DEF l, first
  <2>1. CASE j = 1
    BY <1>2, <1>5, <2>1
  <2>2. CASE j # 1
    <3>1. j - 1 \in 1 .. n /\ j - 1 # n /\ (j - 1) + 1 = j
      BY <1>2, <2>2
    <3>2. bk[l[j - 1]] = l[(j - 1) + 1]
      BY <1>6, <3>1
    <3> QED
      BY <2>2, <3>1, <3>2
  <2> QED
    BY <2>1, <2>2
<1> HIDE DEF l, n, first, S
<1>8. Is(l)
  BY <1>2, <1>4, <1>7
<1>9. Queue(s) = CHOOSE f : Is(f)
  BY DEF Queue, S, first
<1>10. Is(Queue(s))
  <2> HIDE DEF Is
  <2> QED
    BY <1>8, <1>9
<1>11. \A f : Is(f) => f = [j \in 1 .. n |-> f[j]] /\ \A j \in 1 .. n : f[j] = IF j = 1 THEN first ELSE bk[f[j - 1]]
  BY <1>4
<1> DEFINE w == Queue(s)
<1>12. w = [j \in 1 .. n |-> w[j]] /\ \A j \in 1 .. n : w[j] = IF j = 1 THEN first ELSE bk[w[j - 1]]
  <2> HIDE DEF Is, w
  <2> QED
    BY <1>10, <1>11 DEF w
<1> HIDE DEF w, Is
<1> DEFINE R == {j \in 1 .. n : w[j] = l[j]}
<1>13. \A j \in 1 .. n : j \in R
  <2>1. 1 \in Nat /\ n \in Nat /\ (1 <= n => 1 \in R)
    <3>1. 1 \in 1 .. n => w[1] = first /\ l[1] = first
      BY <1>7, <1>12
    <3> QED
      BY <1>2, <3>1
  <2>2. ASSUME NEW j \in 1 .. n, j \in R, j + 1 <= n PROVE j + 1 \in R
    <3>1. j + 1 \in 1 .. n /\ j + 1 # 1 /\ (j + 1) - 1 = j /\ w[j] = l[j]
      BY <1>2, <2>2
    <3>2. w[j + 1] = bk[w[j]] /\ l[j + 1] = bk[l[j]]
      BY <1>7, <1>12, <3>1
    <3> QED
      BY <3>1, <3>2
  <2> HIDE DEF R
  <2> QED
    BY <2>1, <2>2, Along
<1>14. w = l
  BY <1>2, <1>12, <1>13
<1> QED
  BY <1>14 DEF w, l

\* A size that no chunk has.
LEMMA NoQueue ==
  ASSUME NEW s, \A x \in Binned : size[x] # s
  PROVE  Queue(s) = <<>>
<1> DEFINE S == {x \in Binned : size[x] = s}
           first == CHOOSE t \in Nodes : size[t] = s
           Is(f) == f = [j \in 1 .. Cardinality(S) |-> IF j = 1 THEN first ELSE bk[f[j - 1]]]
<1>1. S = {}
  OBVIOUS
<1>2. Cardinality(S) = 0
  BY <1>1, FS_EmptySet
<1>3. Queue(s) = CHOOSE f : Is(f)
  BY DEF Queue
<1> HIDE DEF S, first
<1>4. 1 .. Cardinality(S) = {}
  BY <1>2
<1>5. \A f : Is(f) <=> f = <<>>
  <2>1. \A f : [j \in 1 .. Cardinality(S) |-> IF j = 1 THEN first ELSE bk[f[j - 1]]] = [j \in {} |-> first]
    BY <1>4
  <2>2. [j \in {} |-> first] = <<>>
    OBVIOUS
  <2> QED
    BY <2>1, <2>2
<1> HIDE DEF Is
<1> QED
  BY <1>3, <1>5

\* The rings as the lists of a heap.
Lists(q) == [bin |-> [s \in B!Sizes |-> IF s \in Indexable THEN q[s] ELSE <<>>], aborted |-> FALSE]

LEMMA AsHeapIs ==
  ASSUME NEW depth \in Depth, NEW q \in Order, Sound(depth, q)
  PROVE  AsHeap = Lists(q)
<1>1. ASSUME NEW s \in B!Sizes PROVE Queue(s) = IF s \in Indexable THEN q[s] ELSE <<>>
  <2>1. CASE s \in Indexable
    BY <2>1, QueueIsRing
  <2>2. CASE s \notin Indexable
    <3>1. \A x \in Binned : size[x] # s
      <4>1. \A x \in Binned : size[x] \in Indexable
        BY SizesAre DEF Sound, Tries, TypeOK, Binned
      <4> QED
        BY <2>2, <4>1
    <3> QED
      BY <2>2, <3>1, NoQueue
  <2> QED
    BY <2>1, <2>2
<1> QED
  BY <1>1 DEF AsHeap, Lists

LEMMA HeapSizes == \A s \in Indexable : s \in B!Sizes
<1>1. Two[Bits] \in Nat
  BY Widths, Twos
<1> QED
  BY <1>1, LargeSizesAre DEF B!Sizes

LEMMA BinOf ==
  ASSUME NEW D, NEW E, NEW h \in [bin : [D -> E], aborted : BOOLEAN], NEW s \in D, NEW l \in E, ~h.aborted
  PROVE  [h EXCEPT !.bin[s] = l] = [bin |-> [h.bin EXCEPT ![s] = l], aborted |-> FALSE]
<1> DEFINE g == [h.bin EXCEPT ![s] = l]
<1>1. [h EXCEPT !.bin[s] = l] = [h EXCEPT !.bin = g]
  OBVIOUS
<1>2. h.aborted = FALSE
  BY ONLY h \in [bin : [D -> E], aborted : BOOLEAN], ~h.aborted
<1>3. [h EXCEPT !.bin = g] = [bin |-> g, aborted |-> h.aborted]
  <2> HIDE DEF g
  <2> QED
    BY ONLY h \in [bin : [D -> E], aborted : BOOLEAN]
<1> QED
  BY <1>1, <1>2, <1>3

\* The list of one size changes with its order.
Follows(q, s, l) == [Lists(q) EXCEPT !.bin[s] = l] = Lists([q EXCEPT ![s] = l])

LEMMA Changed ==
  ASSUME NEW q \in Order, NEW s \in Indexable, NEW l \in Seq(Chunk)
  PROVE  Follows(q, s, l)
<1> DEFINE b == [z \in B!Sizes |-> IF z \in Indexable THEN q[z] ELSE <<>>]
           qq == [q EXCEPT ![s] = l]
           c == [z \in B!Sizes |-> IF z \in Indexable THEN qq[z] ELSE <<>>]
<1>1. s \in B!Sizes
  BY HeapSizes
<1>2. [b EXCEPT ![s] = l] = c
  <2>1. \A z \in Indexable : qq[z] = IF z = s THEN l ELSE q[z]
    BY DEF Order
  <2> HIDE DEF qq
  <2> QED
    BY <1>1, <2>1
<1> HIDE DEF b, c
<1>3. [Lists(q) EXCEPT !.bin[s] = l] = [bin |-> [b EXCEPT ![s] = l], aborted |-> FALSE]
  <2> DEFINE h == Lists(q)
  <2>1. b \in [B!Sizes -> Seq(Chunk)]
    BY DEF b, Order
  <2>2. h = [bin |-> b, aborted |-> FALSE]
    BY DEF Lists, b
  <2>3. h \in [bin : [B!Sizes -> Seq(Chunk)], aborted : BOOLEAN] /\ ~h.aborted /\ h.bin = b
    <3> HIDE DEF h
    <3> QED
      BY <2>1, <2>2
  <2> HIDE DEF h
  <2>4. [h EXCEPT !.bin[s] = l] = [bin |-> [h.bin EXCEPT ![s] = l], aborted |-> FALSE]
    BY <1>1, <2>3, BinOf
  <2> QED
    BY <2>3, <2>4 DEF h
<1>4. Lists(qq) = [bin |-> c, aborted |-> FALSE]
  BY DEF Lists, c
<1>5. [Lists(q) EXCEPT !.bin[s] = l] = Lists(qq)
  BY <1>2, <1>3, <1>4
<1> QED
  BY <1>5 DEF Follows

\* The same in any state.
LEMMA AsHeapWas == \A e \in Depth, v \in Order : Sound(e, v) => AsHeap = Lists(v)
  BY AsHeapIs

LEMMA AsHeapBecomes == \A e \in Depth, v \in Order : Sound(e, v)' => AsHeap' = Lists(v)
<1>1. (\A e \in Depth, v \in Order : Sound(e, v) => AsHeap = Lists(v))'
  BY AsHeapWas, PTL
<1> QED
  BY <1>1

LEMMA InsertsInOrder ==
  ASSUME NEW depth \in Depth, NEW q \in Order, Sound(depth, q), NEW x \in Chunk, NEW s \in ChunkSizes,
         NEW d \in Depth, [q EXCEPT ![s] = Append(q[s], x)] \in Order,
         Sound(d, [q EXCEPT ![s] = Append(q[s], x)])'
  PROVE  AsHeap' = B!insert_large_chunk(AsHeap, x, s)
<1> DEFINE r == [q EXCEPT ![s] = Append(q[s], x)]
<1>1. AsHeap = Lists(q)
  BY AsHeapIs
<1>2. AsHeap' = Lists(r)
  <2> HIDE DEF r
  <2>1. r \in Order /\ Sound(d, r)'
    BY DEF r
  <2> QED
    BY <2>1, AsHeapBecomes
<1>3. s \in Indexable /\ Append(q[s], x) \in Seq(Chunk) /\ s \in B!Sizes
  BY SizesAre, HeapSizes DEF Order
<1>4. Lists(q).bin[s] = q[s]
  BY <1>3 DEF Lists
<1>5. B!insert_large_chunk(Lists(q), x, s) = [Lists(q) EXCEPT !.bin[s] = Append(Lists(q).bin[s], x)]
  BY DEF B!insert_large_chunk
<1>6. B!insert_large_chunk(Lists(q), x, s) = [Lists(q) EXCEPT !.bin[s] = Append(q[s], x)]
  BY <1>4, <1>5
<1>7. [Lists(q) EXCEPT !.bin[s] = Append(q[s], x)] = Lists(r)
  <2> DEFINE l == Append(q[s], x)
  <2>1. s \in Indexable /\ l \in Seq(Chunk)
    BY <1>3
  <2> HIDE DEF l
  <2>2. Follows(q, s, l)
    BY <2>1, Changed
  <2> QED
    BY <2>2 DEF l, Follows
<1> QED
  BY <1>1, <1>2, <1>6, <1>7

LEMMA RemovesFromOrder ==
  ASSUME NEW depth \in Depth, NEW q \in Order, Sound(depth, q), NEW x \in Binned, NEW s, s = size[x],
         NEW d \in Depth, [q EXCEPT ![s] = B!Without(q[s], x)] \in Order,
         Sound(d, [q EXCEPT ![s] = B!Without(q[s], x)])'
  PROVE  AsHeap' = B!unlink_large_chunk(AsHeap, x, s)
<1> DEFINE l == B!Without(q[s], x)
           r == [q EXCEPT ![s] = l]
           h == Lists(q)
<1>1. AsHeap = Lists(q)
  BY AsHeapIs
<1>2. AsHeap' = Lists(r)
  <2> HIDE DEF r
  <2>1. r \in Order /\ Sound(d, r)'
    BY DEF r
  <2> QED
    BY <2>1, AsHeapBecomes
<1>3. /\ s \in Indexable /\ s \in B!Sizes /\ q[s] \in Seq(Chunk)
      /\ \E j \in 1 .. Len(q[s]) : q[s][j] = x
  BY RingOf, HeapSizes
<1>4. l \in Seq(Chunk)
  <2>1. r[s] \in Seq(Chunk) /\ r[s] = l
    <3> HIDE DEF l
    <3>1. r \in Order
      BY DEF l
    <3> QED
      BY <1>3, <3>1 DEF Order
  <2> QED
    BY <2>1
<1>5. h.bin[s] = q[s]
  BY <1>3 DEF Lists
<1>6. B!Require(h, B!Binned(h, x, s)) = h
  <2>1. B!Binned(h, x, s)
    <3> HIDE DEF h
    <3> QED
      BY <1>3, <1>5 DEF B!Binned
  <2> QED
    BY <2>1 DEF B!Require
<1>7. B!unlink_large_chunk(h, x, s) = [h EXCEPT !.bin[s] = B!Without(h.bin[s], x)]
  <2> HIDE DEF h
  <2> QED
    BY <1>6 DEF B!unlink_large_chunk
<1>8. [h EXCEPT !.bin[s] = l] = Lists(r)
  <2>0. s \in Indexable /\ l \in Seq(Chunk)
    BY <1>3, <1>4
  <2> HIDE DEF l, r, h
  <2>1. Follows(q, s, l)
    BY <2>0, Changed
  <2> QED
    BY <2>1 DEF h, r, Follows
<1> QED
  BY <1>1, <1>2, <1>5, <1>7, <1>8

\* Insertion and removal do to the rings what HeapChunks says they do to the
\* lists of a size: first in, first out, and no chunk is lost when nodes are replaced.
THEOREM ImplementsTheBins == ChunkSizes \subseteq Indexable => (Spec => ImplementsBins)
<1> DEFINE Step ==
             \E x \in Chunk :
                \/ \E s \in ChunkSizes : AsHeap' = B!insert_large_chunk(AsHeap, x, s)
                \/ AsHeap' = B!unlink_large_chunk(AsHeap, x, size[x])
<1>1. TreeSound /\ [Next]_vars => [Step]_vars
  <2> SUFFICES ASSUME TreeSound, Next PROVE Step
    OBVIOUS
  <2>1. PICK depth \in Depth, q \in Order : Sound(depth, q)
    BY DEF TreeSound
  <2>2. ASSUME NEW x \in Chunk, NEW s \in ChunkSizes, InsertRoot(x, s) \/ InsertLeaf(x, s) \/ InsertRing(x, s)
        PROVE  Step
    <3>1. PICK d \in Depth : /\ Sound(d, [q EXCEPT ![s] = Append(q[s], x)])'
                             /\ [q EXCEPT ![s] = Append(q[s], x)] \in Order
      BY <2>1, <2>2, InsertRootKeeps, InsertLeafKeeps, InsertRingKeeps
    <3>2. AsHeap' = B!insert_large_chunk(AsHeap, x, s)
      BY <2>1, <3>1, InsertsInOrder
    <3> QED
      BY <3>2
  <2>3. ASSUME NEW x \in Chunk, Unlink(x) PROVE Step
    <3>1. PICK s : s = size[x]
      OBVIOUS
    <3>2. [q EXCEPT ![s] = B!Without(q[s], x)] \in Order
      BY <2>1, <2>3, <3>1, UnlinkKeeps
    <3>3. PICK d \in Depth : Sound(d, [q EXCEPT ![s] = B!Without(q[s], x)])'
      BY <2>1, <2>3, <3>1, UnlinkKeeps
    <3>4. x \in Binned
      BY <2>3 DEF Unlink
    <3>5. AsHeap' = B!unlink_large_chunk(AsHeap, x, s)
      BY <2>1, <3>1, <3>2, <3>3, <3>4, RemovesFromOrder
    <3> QED
      BY <3>1, <3>5
  <2> QED
    BY <2>2, <2>3 DEF Next
<1> QED
  BY <1>1, TreesStaySound, PTL DEF Spec, ImplementsBins

----------------------------------------------------------------------------
(* The trees as do_check_tree walks them.                                  *)

\* The nodes one level below those of a set.
Lower(nodes) == {child[u][k] : u \in nodes, k \in 0 .. 1} \ {NoChunk}

LEMMA Levels ==
  ASSUME TypeOK, NEW t \in Link
  PROVE  \E level \in [0 .. Bits -> SUBSET Chunk] :
            /\ Below(t) = UNION {level[d] : d \in 0 .. Bits}
            /\ \A d \in 0 .. Bits : level[d] = IF d = 0 THEN {t} \ {NoChunk} ELSE Lower(level[d - 1])
<1> DEFINE z == {t} \ {NoChunk}
           g == [l \in SUBSET Chunk |-> [d \in Nat |-> Lower(l)]]
           Is(level) == level = [d \in 0 .. Bits |->
                           (IF d = 0 THEN {t} ELSE {child[u][k] : u \in level[d - 1], k \in 0 .. 1}) \ {NoChunk}]
<1>1. Bits \in Nat /\ z \in SUBSET Chunk
  BY Widths DEF Link
<1>2. \A l \in SUBSET Chunk : Lower(l) \in SUBSET Chunk
  <2>1. \A u \in Chunk, k \in 0 .. 1 : child[u][k] \in Chunk \cup {NoChunk}
    BY DEF TypeOK, Link
  <2> QED
    BY <2>1 DEF Lower
<1>3. PICK f \in [0 .. Bits -> SUBSET Chunk] : Iterates(f, 0, Bits, z, g)
  <2> DEFINE X == SUBSET Chunk
  <2>1. g \in [X -> [Nat -> X]] /\ z \in X
    BY <1>1, <1>2
  <2> HIDE DEF g, z, X
  <2>2. \E f \in [0 .. Bits -> X] : Iterates(f, 0, Bits, z, g)
    BY <1>1, <2>1, Iteration
  <2> QED
    BY <2>2 DEF X
<1>4. \A d \in 0 .. Bits : f[d] = IF d = 0 THEN z ELSE Lower(f[d - 1])
  <2> SUFFICES ASSUME NEW d \in 0 .. Bits PROVE f[d] = IF d = 0 THEN z ELSE Lower(f[d - 1])
    OBVIOUS
  <2>1. f[d] = IF d = 0 THEN z ELSE g[f[d - 1]][d]
    BY <1>3 DEF Iterates
  <2>2. d # 0 => d - 1 \in 0 .. Bits /\ d \in Nat
    BY <1>1
  <2>3. d # 0 => g[f[d - 1]][d] = Lower(f[d - 1])
    BY <2>2
  <2> HIDE DEF g, z
  <2> QED
    BY <2>1, <2>3
<1>5. \A h : Is(h) <=> h = [d \in 0 .. Bits |-> IF d = 0 THEN z ELSE Lower(h[d - 1])]
  BY DEF Lower
<1>6. Is(f)
  <2> HIDE DEF Is, z
  <2>1. f = [d \in 0 .. Bits |-> IF d = 0 THEN z ELSE Lower(f[d - 1])]
    BY <1>4
  <2> QED
    BY <1>5, <2>1
<1>7. Below(t) = UNION {(CHOOSE level : Is(level))[d] : d \in 0 .. Bits}
  BY DEF Below
<1> HIDE DEF Is, z
<1>8. PICK h : Is(h) /\ Below(t) = UNION {h[d] : d \in 0 .. Bits}
  BY <1>6, <1>7
<1>9. h = [d \in 0 .. Bits |-> IF d = 0 THEN z ELSE Lower(h[d - 1])]
  BY <1>5, <1>8
<1>10. \A d \in 0 .. Bits : h[d] = IF d = 0 THEN z ELSE Lower(h[d - 1])
  BY <1>9
<1> DEFINE R == {d \in 0 .. Bits : h[d] \in SUBSET Chunk}
<1>11. \A d \in 0 .. Bits : d \in R
  <2>1. 0 \in R /\ 0 <= Bits /\ 0 \in Nat
    <3>1. h[0] = z
      BY <1>1, <1>10
    <3> QED
      BY <1>1, <3>1
  <2>2. ASSUME NEW d \in 0 .. Bits, d \in R, d + 1 <= Bits PROVE d + 1 \in R
    <3>1. d + 1 \in 0 .. Bits /\ d + 1 # 0 /\ (d + 1) - 1 = d
      BY <1>1, <2>2
    <3>2. h[d + 1] = Lower(h[d])
      BY <1>10, <3>1
    <3> QED
      BY <1>2, <2>2, <3>1, <3>2
  <2> HIDE DEF R
  <2> QED
    BY <1>1, <2>1, <2>2, Along
<1>12. h \in [0 .. Bits -> SUBSET Chunk]
  <2>1. h = [d \in 0 .. Bits |-> h[d]]
    BY <1>9
  <2> QED
    BY <1>11, <2>1
<1> QED
  BY <1>8, <1>10, <1>12 DEF z

LEMMA BelowNothing ==
  ASSUME TypeOK
  PROVE  Below(NoChunk) = {}
<1>1. NoChunk \in Link /\ Bits \in Nat
  BY Widths DEF Link
<1>2. PICK level \in [0 .. Bits -> SUBSET Chunk] :
         /\ Below(NoChunk) = UNION {level[d] : d \in 0 .. Bits}
         /\ \A d \in 0 .. Bits : level[d] = IF d = 0 THEN {NoChunk} \ {NoChunk} ELSE Lower(level[d - 1])
  BY <1>1, Levels
<1> DEFINE R == {d \in 0 .. Bits : level[d] = {}}
<1>3. \A d \in 0 .. Bits : d \in R
  <2>1. 0 \in R /\ 0 <= Bits /\ 0 \in Nat
    BY <1>1, <1>2
  <2>2. ASSUME NEW d \in 0 .. Bits, d \in R, d + 1 <= Bits PROVE d + 1 \in R
    <3>1. d + 1 \in 0 .. Bits /\ d + 1 # 0 /\ (d + 1) - 1 = d /\ level[d] = {}
      BY <1>1, <2>2
    <3>2. level[d + 1] = Lower(level[d])
      BY <1>2, <3>1
    <3>3. Lower({}) = {}
      BY DEF Lower
    <3> QED
      BY <3>1, <3>2, <3>3
  <2> HIDE DEF R
  <2> QED
    BY <1>1, <2>1, <2>2, Along
<1> QED
  BY <1>2, <1>3

\* Above a node that is not the one it descends from is its parent, which also descends.
LEMMA Upward ==
  ASSUME NEW depth \in Depth, Tries(depth), NEW t, NEW u, Descends(depth, u, t), depth[t] # depth[u]
  PROVE  LET p == parent[u]
         IN  /\ p \in Nodes /\ Descends(depth, p, t) /\ depth[u] = depth[p] + 1
             /\ child[p][Side(size[u], depth[p])] = u /\ Side(size[u], depth[p]) \in 0 .. 1
<1> DEFINE p == parent[u]
           a == size[u]
           b == size[p]
<1>1. u \in Nodes /\ t \in Nodes /\ index[u] = index[t] /\ depth[t] <= depth[u] /\ Key(a, depth[t]) = Key(size[t], depth[t])
  BY DEF Descends
<1>2. depth[u] \in Nat /\ depth[t] \in Nat /\ Hangs(depth, u) /\ a \in Indexable
  BY <1>1, NodesAre
<1>3. p # Bin
  <2>1. p = Bin => depth[u] = 0
    BY <1>2 DEF Hangs
  <2> QED
    BY <1>1, <1>2, <2>1
<1>4. /\ p \in Nodes /\ index[p] = index[u] /\ depth[u] = depth[p] + 1
      /\ Key(a, depth[p]) = Key(b, depth[p]) /\ child[p][Side(a, depth[p])] = u
  BY <1>2, <1>3 DEF Hangs
<1>5. /\ depth[p] \in Nat /\ b \in Indexable /\ depth[p] \in 0 .. Top(b) + 1 /\ Top(b) \in Nat
      /\ compute_tree_index(a) = compute_tree_index(b)
  BY <1>1, <1>4, NodesAre
<1>6. depth[t] <= depth[p]
  BY <1>1, <1>2, <1>4, <1>5
<1>7. Key(b, depth[t]) = Key(a, depth[t])
  <2> DEFINE d == depth[t]
             e == depth[p]
  <2>1. d \in 0 .. Top(b) + 1 /\ e \in 0 .. Top(b) + 1 /\ d <= e /\ Key(b, e) = Key(a, e)
    BY <1>2, <1>4, <1>5, <1>6
  <2> HIDE DEF a, b, d, e
  <2> QED
    BY <1>2, <1>5, <2>1, SameBin DEF d
<1>8. Descends(depth, p, t)
  BY <1>1, <1>4, <1>6, <1>7 DEF Descends
<1>9. Side(a, depth[p]) \in 0 .. 1
  BY <1>2, <1>5, Keys, LargeSizesAre
<1> QED
  BY <1>4, <1>8, <1>9

LEMMA BelowIs ==
  ASSUME NEW depth \in Depth, Tries(depth), NEW t \in Nodes
  PROVE  Below(t) = {u \in Nodes : Descends(depth, u, t)}
<1>1. TypeOK /\ t \in Link /\ Bits \in Nat /\ t # NoChunk /\ t \in Chunk
  BY Widths, NodesAre DEF Tries, Link
<1>2. PICK level \in [0 .. Bits -> SUBSET Chunk] :
         /\ Below(t) = UNION {level[d] : d \in 0 .. Bits}
         /\ \A d \in 0 .. Bits : level[d] = IF d = 0 THEN {t} \ {NoChunk} ELSE Lower(level[d - 1])
  BY <1>1, Levels
<1>3. depth[t] \in Nat /\ \A u \in Nodes : depth[u] \in 0 .. Bits /\ u \in Chunk /\ u # NoChunk
  <2>1. \A u \in Nodes : depth[u] \in 0 .. Top(size[u]) + 1 /\ Top(size[u]) + 1 \in 0 .. Bits /\ u \in Chunk /\ u # NoChunk
    BY NodesAre
  <2>2. \A u \in Nodes : depth[u] \in 0 .. Bits
    BY <1>1, <2>1
  <2> QED
    BY <1>1, <2>1, <2>2, NodesAre
<1> DEFINE At(d) == {u \in Nodes : Descends(depth, u, t) /\ depth[u] = depth[t] + d}
           R == {d \in 0 .. Bits : level[d] = At(d)}
<1>4. level[0] = At(0)
  <2>1. level[0] = {t}
    BY <1>1, <1>2
  <2>2. t \in At(0)
    BY <1>3 DEF Descends
  <2>3. ASSUME NEW u \in At(0) PROVE u = t
    <3>1. /\ u \in Nodes /\ index[u] = index[t] /\ depth[u] = depth[t]
          /\ Key(size[u], depth[u]) = Key(size[t], depth[u])
      BY <1>3, <2>3 DEF Descends
    <3> QED
      BY <3>1, OnePlace
  <2> HIDE DEF At
  <2> QED
    BY <2>1, <2>2, <2>3
<1>5. ASSUME NEW d \in 0 .. Bits, level[d] = At(d), d + 1 <= Bits PROVE level[d + 1] = At(d + 1)
  <2>1. d + 1 \in 0 .. Bits /\ d + 1 # 0 /\ (d + 1) - 1 = d
    BY <1>1, <1>5
  <2>2. level[d + 1] = Lower(level[d])
    BY <1>2, <2>1
  <2>3. level[d + 1] = Lower(At(d))
    BY <1>5, <2>2
  <2>4. ASSUME NEW u \in At(d), NEW k \in 0 .. 1, child[u][k] # NoChunk PROVE child[u][k] \in At(d + 1)
    <3>1. u \in Nodes /\ u \in Chunk /\ Descends(depth, u, t) /\ depth[u] = depth[t] + d
      BY <1>3, <2>4
    <3>2. /\ child[u][k] \in Nodes /\ depth[child[u][k]] = depth[u] + 1 /\ Descends(depth, child[u][k], u)
      BY <2>4, <3>1, Children
    <3>3. Descends(depth, child[u][k], t)
      BY <3>1, <3>2, Descent
    <3>4. depth[child[u][k]] = depth[t] + (d + 1)
      BY <1>3, <3>1, <3>2
    <3> QED
      BY <3>2, <3>3, <3>4
  <2>5. ASSUME NEW u \in At(d + 1) PROVE \E v \in At(d), k \in 0 .. 1 : child[v][k] = u /\ u # NoChunk
    <3>1. u \in Nodes /\ u # NoChunk /\ Descends(depth, u, t) /\ depth[u] = depth[t] + (d + 1)
      BY <1>3, <2>5
    <3>2. depth[t] # depth[u]
      BY <1>3, <3>1
    <3> DEFINE p == parent[u]
    <3>3. /\ p \in Nodes /\ Descends(depth, p, t) /\ depth[u] = depth[p] + 1
          /\ child[p][Side(size[u], depth[p])] = u /\ Side(size[u], depth[p]) \in 0 .. 1
      BY <3>1, <3>2, Upward
    <3>4. depth[p] = depth[t] + d
      BY <1>3, <3>1, <3>3
    <3> QED
      BY <3>1, <3>3, <3>4
  <2>6. \A u : u \in Lower(At(d)) <=> \E v \in At(d), k \in 0 .. 1 : child[v][k] = u /\ u # NoChunk
    BY DEF Lower
  <2> DEFINE here == At(d)
             next == At(d + 1)
  <2>7. /\ \A u \in here, k \in 0 .. 1 : child[u][k] # NoChunk => child[u][k] \in next
        /\ \A u \in next : \E v \in here, k \in 0 .. 1 : child[v][k] = u /\ u # NoChunk
        /\ \A u : u \in Lower(here) <=> \E v \in here, k \in 0 .. 1 : child[v][k] = u /\ u # NoChunk
    BY <2>4, <2>5, <2>6
  <2> HIDE DEF here, next
  <2>8. Lower(here) = next
    <3>1. ASSUME NEW u, u \in Lower(here) PROVE u \in next
      <4>1. PICK v \in here, k \in 0 .. 1 : child[v][k] = u /\ u # NoChunk
        BY <2>7, <3>1
      <4> QED
        BY <2>7, <4>1
    <3>2. ASSUME NEW u \in next PROVE u \in Lower(here)
      BY <2>7
    <3> QED
      BY <3>1, <3>2
  <2> QED
    BY <2>3, <2>8 DEF here, next
<1>6. \A d \in 0 .. Bits : d \in R
  <2>1. 0 \in R /\ 0 <= Bits /\ 0 \in Nat
    BY <1>1, <1>4
  <2>2. ASSUME NEW d \in 0 .. Bits, d \in R, d + 1 <= Bits PROVE d + 1 \in R
    <3>1. d + 1 \in 0 .. Bits
      BY <1>1, <2>2
    <3> QED
      BY <1>5, <2>2, <3>1
  <2> HIDE DEF R
  <2> QED
    BY <1>1, <2>1, <2>2, Along
<1>7. ASSUME NEW u \in Nodes, Descends(depth, u, t) PROVE \E d \in 0 .. Bits : u \in At(d)
  <2>1. depth[t] <= depth[u]
    BY <1>7 DEF Descends
  <2>2. depth[u] - depth[t] \in 0 .. Bits /\ depth[u] = depth[t] + (depth[u] - depth[t])
    BY <1>1, <1>3, <2>1
  <2> QED
    BY <1>7, <2>2
<1>8. Below(t) = UNION {At(d) : d \in 0 .. Bits}
  <2>1. \A d \in 0 .. Bits : level[d] = At(d)
    BY <1>6
  <2> HIDE DEF At
  <2> QED
    BY <1>2, <2>1
<1>9. \A d \in 0 .. Bits : \A u \in At(d) : u \in Nodes /\ Descends(depth, u, t)
  OBVIOUS
<1> HIDE DEF At
<1> QED
  BY <1>7, <1>8, <1>9

\* Left of a node all sizes are smaller than right of it.
LEMMA LeftOfRight ==
  ASSUME NEW depth \in Depth, Tries(depth), NEW t \in Nodes, child[t][0] # NoChunk, child[t][1] # NoChunk,
         NEW l, Descends(depth, l, child[t][0]), NEW r, Descends(depth, r, child[t][1])
  PROVE  size[l] < size[r]
<1> DEFINE u == child[t][0]
           v == child[t][1]
           a == size[u]
           b == size[v]
           d == depth[t]
<1>1. /\ u \in Nodes /\ index[u] = index[t] /\ depth[u] = d + 1 /\ Side(a, d) = 0 /\ d \in 0 .. Top(a)
      /\ Key(a, d) = Key(size[t], d)
  BY NodesAre, Children DEF Descends
<1>2. /\ v \in Nodes /\ index[v] = index[t] /\ depth[v] = d + 1 /\ Side(b, d) = 1 /\ d \in 0 .. Top(b)
      /\ Key(b, d) = Key(size[t], d)
  BY NodesAre, Children DEF Descends
<1>3. l \in Nodes /\ index[l] = index[t] /\ Key(size[l], d + 1) = Key(a, d + 1)
  BY <1>1 DEF Descends
<1>4. r \in Nodes /\ index[r] = index[t] /\ Key(size[r], d + 1) = Key(b, d + 1)
  BY <1>2 DEF Descends
<1>5. /\ a \in Indexable /\ b \in Indexable /\ size[l] \in Indexable /\ size[r] \in Indexable
      /\ compute_tree_index(a) = compute_tree_index(b)
      /\ compute_tree_index(size[l]) = compute_tree_index(a)
      /\ compute_tree_index(size[l]) = compute_tree_index(size[r])
      /\ Top(a) \in Nat
  BY <1>1, <1>2, <1>3, <1>4, NodesAre
<1> HIDE DEF a, b, d
<1>6. Key(a, d + 1) < Key(b, d + 1)
  <2>1. d \in 0 .. Top(a) /\ Key(a, d) = Key(b, d) /\ Side(a, d) = 0 /\ Side(b, d) = 1
    BY <1>1, <1>2
  <2>2. Key(a, d) = Key(b, d) /\ Side(a, d) = 0 /\ Side(b, d) = 1 => Key(a, d + 1) < Key(b, d + 1)
    BY <1>5, <2>1, SameSide
  <2> QED
    BY <2>1, <2>2
<1>7. Top(size[l]) = Top(a) /\ d + 1 \in 0 .. Top(a) + 1
  BY <1>1, <1>5, SameBin
<1>8. Key(size[l], d + 1) < Key(size[r], d + 1) /\ d + 1 \in 0 .. Top(size[l]) + 1
  BY <1>3, <1>4, <1>6, <1>7
<1> DEFINE aa == size[l]
           bb == size[r]
           dd == d + 1
<1>9. aa \in Indexable /\ bb \in Indexable /\ compute_tree_index(aa) = compute_tree_index(bb)
      /\ Key(aa, dd) < Key(bb, dd) /\ dd \in 0 .. Top(aa) + 1
  BY <1>5, <1>8
<1> HIDE DEF aa, bb, dd
<1>10. aa < bb
  BY <1>9, SameBin
<1> QED
  BY <1>10 DEF aa, bb

\* What the rings are for each chunk in them.
LEMMA RingChecks ==
  ASSUME NEW depth \in Depth, NEW q \in Order, Sound(depth, q), NEW x \in Binned
  PROVE  /\ bk[fd[x]] = x /\ fd[bk[x]] = x /\ size[fd[x]] = size[x]
         /\ \E t \in Nodes : size[t] = size[x] /\ \A u \in Nodes : size[u] = size[x] => u = t
<1> DEFINE s == size[x]
           l == q[s]
           n == Len(l)
<1>1. Ring(l, s) /\ n \in Nat \ {0} /\ l[1] \in Nodes /\ size[l[1]] = s /\ \A t \in Nodes : size[t] = s => t = l[1]
  BY RingOf
<1>2. PICK j \in 1 .. n : l[j] = x
  BY RingOf
<1> DEFINE o == Before(j, n)
<1>3. o \in 1 .. n /\ After(o, n) = j
  <2> HIDE DEF n
  <2> QED
    BY <1>1, <1>2, RingPlaces
<1> HIDE DEF o
<1>4. \A i \in 1 .. n : size[l[i]] = s /\ bk[l[i]] = l[After(i, n)] /\ fd[l[After(i, n)]] = l[i]
  BY <1>1 DEF Ring
<1> HIDE DEF l, n, s
<1>5. bk[x] = l[After(j, n)] /\ fd[bk[x]] = x
  BY <1>2, <1>4
<1>6. fd[x] = l[o] /\ bk[l[o]] = x /\ size[l[o]] = s
  BY <1>2, <1>3, <1>4
<1> QED
  BY <1>1, <1>5, <1>6 DEF s

LEMMA ChecksHold == TreeSound => TreeChecks
<1> SUFFICES ASSUME TreeSound PROVE TreeChecks
  OBVIOUS
<1>1. PICK depth \in Depth, q \in Order : Sound(depth, q)
  BY DEF TreeSound
<1>2. Tries(depth) /\ TypeOK /\ Roots
  BY <1>1 DEF Sound, Tries
<1>3. \A i \in Bins : i \in treemap <=> treebins[i] # NoChunk
  BY <1>2 DEF Roots
<1>4. Nodes = UNION {Below(treebins[i]) : i \in Bins}
  <2>1. ASSUME NEW t \in Nodes PROVE \E i \in Bins : t \in Below(treebins[i])
    <3>1. index[t] \in Bins
      BY <1>2, NodesAre
    <3>2. treebins[index[t]] \in Nodes /\ Descends(depth, t, treebins[index[t]])
      BY <1>2, RootOf
    <3>3. t \in Below(treebins[index[t]])
      BY <1>2, <3>2, BelowIs
    <3> QED
      BY <3>1, <3>3
  <2>2. ASSUME NEW i \in Bins, NEW t \in Below(treebins[i]) PROVE t \in Nodes
    <3>1. treebins[i] # NoChunk
      BY <1>2, <2>2, BelowNothing
    <3>2. treebins[i] \in Nodes
      BY <1>2, <3>1 DEF Roots
    <3> QED
      BY <1>2, <2>2, <3>2, BelowIs
  <2> QED
    BY <2>1, <2>2
<1>5. ASSUME NEW x \in Binned
      PROVE  /\ bk[fd[x]] = x /\ fd[bk[x]] = x /\ size[fd[x]] = size[x]
             /\ \E t \in Nodes : size[t] = size[x] /\ \A u \in Nodes : size[u] = size[x] => u = t
             /\ index[x] = compute_tree_index(size[x])
  BY <1>1, <1>2, RingChecks DEF TypeOK
<1>6. ASSUME NEW t \in Nodes
      PROVE  IF parent[t] = Bin THEN treebins[index[t]] = t ELSE \E k \in 0 .. 1 : child[parent[t]][k] = t
  <2>1. Hangs(depth, t) /\ size[t] \in Indexable
    BY <1>2, NodesAre
  <2>2. CASE parent[t] = Bin
    BY <2>1, <2>2 DEF Hangs
  <2>3. CASE parent[t] # Bin
    <3>1. parent[t] \in Nodes /\ child[parent[t]][Side(size[t], depth[parent[t]])] = t
      BY <2>1, <2>3 DEF Hangs
    <3>2. Side(size[t], depth[parent[t]]) \in 0 .. 1
      BY <1>2, <2>1, <3>1, NodesAre, Keys, LargeSizesAre
    <3> QED
      BY <2>3, <3>1, <3>2
  <2> QED
    BY <2>2, <2>3
<1>7. ASSUME NEW t \in Nodes, NEW l \in Below(child[t][0]), NEW r \in Below(child[t][1])
      PROVE  size[l] < size[r]
  <2>1. t \in Chunk
    BY <1>2, NodesAre
  <2>2. child[t][0] # NoChunk /\ child[t][1] # NoChunk
    BY <1>2, <1>7, BelowNothing
  <2>3. child[t][0] \in Nodes /\ child[t][1] \in Nodes
    BY <1>2, <2>1, <2>2, Children
  <2>4. Descends(depth, l, child[t][0]) /\ Descends(depth, r, child[t][1])
    BY <1>2, <1>7, <2>3, BelowIs
  <2> QED
    BY <1>2, <2>2, <2>4, LeftOfRight
<1> QED
  BY <1>3, <1>4, <1>5, <1>6, <1>7 DEF TreeChecks

\* do_check_tree and do_check_treebin find nothing wrong with any bin.
THEOREM TreeChecksHold == ChunkSizes \subseteq Indexable => (Spec => []TreeChecks)
  BY TreesStaySound, ChecksHold, PTL

----------------------------------------------------------------------------
(* The searches.                                                           *)

\* The remainder that size_t arithmetic gives is under the limit exactly for the
\* sizes that suffice.
Compares(nb, limit) ==
    /\ nb \in Nat
    /\ \A a \in Indexable : /\ Minus(a, nb) < limit <=> nb <= a
                            /\ nb <= a => Minus(a, nb) = a - nb

LEMMA Remainders ==
  /\ \A nb \in LargeSizes : Compares(nb, Minus(0, nb))
  /\ Compares(0, Two[Bits])
<1> DEFINE w == Two[Bits]
<1>1. w \in Nat \ {0}
  BY Widths, Twos
<1>2. /\ \A a \in LargeSizes : a \in Nat \ {0} /\ a < w
      /\ \A a \in Indexable : a \in Nat \ {0} /\ a < w
  BY LargeSizesAre
<1> HIDE DEF w
<1>3. ASSUME NEW a \in Nat, NEW b \in Nat, a < w, b < w PROVE (a + w - b) % w = IF b <= a THEN a - b ELSE a + w - b
  <2>1. CASE b <= a
    <3>1. 1 \in Nat /\ a - b \in 0 .. w - 1 /\ 1 * w + (a - b) = a + w - b
      BY <1>1, <1>3, <2>1
    <3>2. (1 * w + (a - b)) % w = a - b
      BY <1>1, <3>1, RowAndCell
    <3> QED
      BY <2>1, <3>1, <3>2
  <2>2. CASE ~(b <= a)
    <3>1. 0 \in Nat /\ a + w - b \in 0 .. w - 1 /\ 0 * w + (a + w - b) = a + w - b
      BY <1>1, <1>3, <2>2
    <3>2. (0 * w + (a + w - b)) % w = a + w - b
      BY <1>1, <3>1, RowAndCell
    <3> QED
      BY <2>2, <3>1, <3>2
  <2> QED
    BY <2>1, <2>2
<1>4. \A a, b : Minus(a, b) = (a + w - b) % w
  BY DEF Minus, w
<1>5. ASSUME NEW nb \in LargeSizes PROVE Compares(nb, Minus(0, nb))
  <2>1. nb \in Nat /\ nb # 0 /\ nb < w /\ 0 < w
    BY <1>1, <1>2
  <2>2. Minus(0, nb) = w - nb
    <3> DEFINE z == 0
    <3>1. z \in Nat /\ z < w /\ ~(nb <= z)
      BY <2>1
    <3>2. z + w - nb = w - nb
      BY <1>1, <2>1
    <3> HIDE DEF z
    <3>3. (z + w - nb) % w = z + w - nb
      BY <1>3, <2>1, <3>1
    <3>4. Minus(z, nb) = w - nb
      BY <1>4, <3>2, <3>3
    <3> QED
      BY <3>4 DEF z
  <2>3. ASSUME NEW a \in Indexable
        PROVE (Minus(a, nb) < Minus(0, nb) <=> nb <= a) /\ (nb <= a => Minus(a, nb) = a - nb)
    <3>1. a \in Nat /\ a < w
      BY <1>2
    <3>2. Minus(a, nb) = IF nb <= a THEN a - nb ELSE a + w - nb
      BY <1>3, <1>4, <2>1, <3>1
    <3> QED
      BY <1>1, <2>1, <2>2, <3>1, <3>2
  <2> QED
    BY <2>1, <2>3 DEF Compares
<1>6. Compares(0, w)
  <2>1. 0 \in Nat /\ 0 < w
    BY <1>1
  <2>2. ASSUME NEW a \in Indexable PROVE (Minus(a, 0) < w <=> 0 <= a) /\ (0 <= a => Minus(a, 0) = a - 0)
    <3>1. a \in Nat /\ a < w
      BY <1>2
    <3>2. Minus(a, 0) = a - 0
      BY <1>3, <1>4, <2>1, <3>1
    <3> QED
      BY <3>1, <3>2
  <2> QED
    BY <2>1, <2>2 DEF Compares
<1> QED
  BY <1>5, <1>6 DEF w

\* What a search comes up with: the smallest of the nodes that suffice.
LEMMA BestIs ==
  ASSUME NEW depth \in Depth, Tries(depth), NEW nodes \in SUBSET Nodes, NEW nb, NEW limit, Compares(nb, limit)
  PROVE  LET t == Best(nodes, nb, limit)
         IN  IF \E u \in nodes : nb <= size[u]
             THEN t \in nodes /\ nb <= size[t] /\ \A u \in nodes : nb <= size[u] => size[t] <= size[u]
             ELSE t = NoChunk
<1> DEFINE fits == {t \in nodes : Minus(size[t], nb) < limit}
<1>1. \A t \in nodes : size[t] \in Indexable /\ size[t] \in Nat
  BY NodesAre, LargeSizesAre
<1>2. nb \in Nat /\ \A t \in nodes : /\ Minus(size[t], nb) < limit <=> nb <= size[t]
                                     /\ nb <= size[t] => Minus(size[t], nb) = size[t] - nb
  BY <1>1 DEF Compares
<1>3. \A t : t \in fits <=> t \in nodes /\ nb <= size[t]
  BY <1>2
<1>4. Best(nodes, nb, limit) =
        IF fits = {} THEN NoChunk
        ELSE CHOOSE t \in fits : \A u \in fits : Minus(size[t], nb) <= Minus(size[u], nb)
  BY DEF Best
<1> HIDE DEF fits
<1>5. CASE fits = {}
  BY <1>3, <1>4, <1>5
<1>6. CASE fits # {}
  <2> DEFINE T == {size[t] : t \in fits}
  <2>1. PICK m \in T : \A y \in T : m <= y
    <3>1. T # {} /\ T \in SUBSET Nat
      BY <1>1, <1>3, <1>6
    <3> HIDE DEF T
    <3> QED
      BY <3>1, Least
  <2>2. PICK v \in fits : m = size[v]
    OBVIOUS
  <2>3. \A u \in fits : Minus(size[v], nb) <= Minus(size[u], nb)
    <3> SUFFICES ASSUME NEW u \in fits PROVE Minus(size[v], nb) <= Minus(size[u], nb)
      OBVIOUS
    <3>1. size[v] <= size[u]
      BY <2>1, <2>2
    <3>2. Minus(size[v], nb) = size[v] - nb /\ Minus(size[u], nb) = size[u] - nb
      BY <1>2, <1>3
    <3>3. size[v] \in Nat /\ size[u] \in Nat /\ nb \in Nat
      BY <1>1, <1>2, <1>3
    <3> QED
      BY <3>1, <3>2, <3>3
  <2> DEFINE t == Best(nodes, nb, limit)
  <2>4. t \in fits /\ \A u \in fits : Minus(size[t], nb) <= Minus(size[u], nb)
    BY <1>4, <1>6, <2>3
  <2> HIDE DEF t
  <2>5. ASSUME NEW u \in nodes, nb <= size[u] PROVE size[t] <= size[u]
    <3>1. u \in fits /\ t \in nodes /\ nb <= size[t]
      BY <1>3, <2>4, <2>5
    <3>2. Minus(size[t], nb) <= Minus(size[u], nb) /\ Minus(size[t], nb) = size[t] - nb /\ Minus(size[u], nb) = size[u] - nb
      BY <1>2, <2>4, <2>5, <3>1
    <3>3. size[t] \in Nat /\ size[u] \in Nat /\ nb \in Nat
      BY <1>1, <1>2, <3>1
    <3> QED
      BY <3>2, <3>3
  <2> QED
    BY <1>3, <2>4, <2>5 DEF t
<1> QED
  BY <1>5, <1>6

\* The way down to the left.
LEMMA LeftPathIs ==
  ASSUME TypeOK, NEW t \in Link
  PROVE  \E down \in [0 .. Bits -> Link] :
            /\ LeftPath(t) = {down[d] : d \in 0 .. Bits} \ {NoChunk}
            /\ \A d \in 0 .. Bits : down[d] = IF d = 0 THEN t ELSE IF down[d - 1] = NoChunk THEN NoChunk
                                              ELSE leftmost_child(down[d - 1])
<1> DEFINE Step(r) == IF r = NoChunk THEN NoChunk ELSE leftmost_child(r)
           g == [r \in Link |-> [d \in Nat |-> Step(r)]]
           Is(down) == down = [d \in 0 .. Bits |->
                          IF d = 0 THEN t
                          ELSE LET r == down[d - 1] IN IF r = NoChunk THEN NoChunk ELSE leftmost_child(r)]
<1>1. Bits \in Nat
  BY Widths
<1>2. \A r \in Link : Step(r) \in Link
  <2>1. \A r \in Chunk : child[r][0] \in Link /\ child[r][1] \in Link
    BY DEF TypeOK
  <2> QED
    BY <2>1 DEF leftmost_child, Link
<1>3. PICK f \in [0 .. Bits -> Link] : Iterates(f, 0, Bits, t, g)
  <2> DEFINE X == Link
  <2>1. g \in [X -> [Nat -> X]] /\ t \in X
    BY <1>2
  <2> HIDE DEF g, X
  <2>2. \E f \in [0 .. Bits -> X] : Iterates(f, 0, Bits, t, g)
    BY <1>1, <2>1, Iteration
  <2> QED
    BY <2>2 DEF X
<1>4. \A d \in 0 .. Bits : f[d] = IF d = 0 THEN t ELSE Step(f[d - 1])
  <2> SUFFICES ASSUME NEW d \in 0 .. Bits PROVE f[d] = IF d = 0 THEN t ELSE Step(f[d - 1])
    OBVIOUS
  <2>1. f[d] = IF d = 0 THEN t ELSE g[f[d - 1]][d]
    BY <1>3 DEF Iterates
  <2>2. d # 0 => d - 1 \in 0 .. Bits /\ d \in Nat
    BY <1>1
  <2>3. d # 0 => g[f[d - 1]][d] = Step(f[d - 1])
    BY <2>2
  <2> HIDE DEF g, Step
  <2> QED
    BY <2>1, <2>3
<1>5. \A h : Is(h) <=> h = [d \in 0 .. Bits |-> IF d = 0 THEN t ELSE Step(h[d - 1])]
  OBVIOUS
<1>6. Is(f)
  <2> HIDE DEF Is, Step
  <2>1. f = [d \in 0 .. Bits |-> IF d = 0 THEN t ELSE Step(f[d - 1])]
    BY <1>4
  <2> QED
    BY <1>5, <2>1
<1>7. LeftPath(t) = {(CHOOSE down : Is(down))[d] : d \in 0 .. Bits} \ {NoChunk}
  BY DEF LeftPath
<1>8. PICK h : Is(h) /\ LeftPath(t) = {h[d] : d \in 0 .. Bits} \ {NoChunk}
  <2> HIDE DEF Is
  <2> QED
    BY <1>6, <1>7
<1>9. h = [d \in 0 .. Bits |-> IF d = 0 THEN t ELSE Step(h[d - 1])]
  <2> HIDE DEF Is, Step
  <2> QED
    BY <1>5, <1>8
<1>10. \A d \in 0 .. Bits : h[d] = IF d = 0 THEN t ELSE Step(h[d - 1])
  <2> HIDE DEF Step
  <2> QED
    BY <1>9
<1> DEFINE R == {d \in 0 .. Bits : h[d] \in Link}
<1> HIDE DEF Is, Step
<1>11. \A d \in 0 .. Bits : d \in R
  <2>1. 0 \in R /\ 0 <= Bits /\ 0 \in Nat
    BY <1>1, <1>10
  <2>2. ASSUME NEW d \in 0 .. Bits, d \in R, d + 1 <= Bits PROVE d + 1 \in R
    <3>1. d + 1 \in 0 .. Bits /\ d + 1 # 0 /\ (d + 1) - 1 = d
      BY <1>1, <2>2
    <3>2. h[d + 1] = Step(h[d])
      BY <1>10, <3>1
    <3> QED
      BY <1>2, <2>2, <3>1, <3>2
  <2> HIDE DEF R
  <2> QED
    BY <1>1, <2>1, <2>2, Along
<1>12. h \in [0 .. Bits -> Link]
  <2>1. h = [d \in 0 .. Bits |-> h[d]]
    BY <1>9
  <2> QED
    BY <1>11, <2>1
<1> QED
  BY <1>8, <1>10, <1>12 DEF Step

LEMMA NothingLeft ==
  ASSUME TypeOK
  PROVE  LeftPath(NoChunk) = {}
<1>1. NoChunk \in Link /\ Bits \in Nat
  BY Widths DEF Link
<1>2. PICK down \in [0 .. Bits -> Link] :
         /\ LeftPath(NoChunk) = {down[d] : d \in 0 .. Bits} \ {NoChunk}
         /\ \A d \in 0 .. Bits : down[d] = IF d = 0 THEN NoChunk ELSE IF down[d - 1] = NoChunk THEN NoChunk
                                           ELSE leftmost_child(down[d - 1])
  BY <1>1, LeftPathIs
<1> DEFINE R == {d \in 0 .. Bits : down[d] = NoChunk}
<1>3. \A d \in 0 .. Bits : d \in R
  <2>1. 0 \in R /\ 0 <= Bits /\ 0 \in Nat
    BY <1>1, <1>2
  <2>2. ASSUME NEW d \in 0 .. Bits, d \in R, d + 1 <= Bits PROVE d + 1 \in R
    <3>1. d + 1 \in 0 .. Bits /\ d + 1 # 0 /\ (d + 1) - 1 = d
      BY <1>1, <2>2
    <3> QED
      BY <1>2, <2>2, <3>1
  <2> HIDE DEF R
  <2> QED
    BY <1>1, <2>1, <2>2, Along
<1> QED
  BY <1>2, <1>3

\* The way down to the left passes the smallest node there is below.
LEMMA LeftPathFinds ==
  ASSUME NEW depth \in Depth, Tries(depth), NEW t \in Nodes
  PROVE  /\ t \in LeftPath(t)
         /\ \A u \in LeftPath(t) : Descends(depth, u, t)
         /\ \A u : Descends(depth, u, t) => \E v \in LeftPath(t) : size[v] <= size[u]
<1>1. TypeOK /\ t \in Link /\ Bits \in Nat /\ t # NoChunk
  BY Widths, NodesAre DEF Tries, Link
<1>2. PICK down \in [0 .. Bits -> Link] :
         /\ LeftPath(t) = {down[d] : d \in 0 .. Bits} \ {NoChunk}
         /\ \A d \in 0 .. Bits : down[d] = IF d = 0 THEN t ELSE IF down[d - 1] = NoChunk THEN NoChunk
                                           ELSE leftmost_child(down[d - 1])
  BY <1>1, LeftPathIs
<1>3. depth[t] \in Nat /\ \A u \in Nodes : depth[u] \in 0 .. Bits /\ u \in Chunk /\ u # NoChunk /\ size[u] \in Nat
  <2>1. \A u \in Nodes : /\ depth[u] \in 0 .. Top(size[u]) + 1 /\ Top(size[u]) + 1 \in 0 .. Bits
                         /\ u \in Chunk /\ u # NoChunk /\ size[u] \in Indexable
    BY NodesAre
  <2>2. \A u \in Nodes : depth[u] \in 0 .. Bits /\ size[u] \in Nat
    BY <1>1, <2>1, LargeSizesAre
  <2> QED
    BY <1>1, <2>1, <2>2, NodesAre
<1>4. \A d \in 0 .. Bits : d + 1 <= Bits =>
         down[d + 1] = IF down[d] = NoChunk THEN NoChunk ELSE leftmost_child(down[d])
  <2> SUFFICES ASSUME NEW d \in 0 .. Bits, d + 1 <= Bits
               PROVE  down[d + 1] = IF down[d] = NoChunk THEN NoChunk ELSE leftmost_child(down[d])
    OBVIOUS
  <2>1. d + 1 \in 0 .. Bits /\ d + 1 # 0 /\ (d + 1) - 1 = d
    BY <1>1
  <2> QED
    BY <1>2, <2>1
<1>5. 0 \in 0 .. Bits /\ down[0] = t
  BY <1>1, <1>2
<1> DEFINE Deep(d) == down[d] # NoChunk => Descends(depth, down[d], t) /\ depth[down[d]] = depth[t] + d
           R == {d \in 0 .. Bits : Deep(d)}
<1>6. \A d \in 0 .. Bits : Deep(d)
  <2>1. 0 \in R /\ 0 <= Bits /\ 0 \in Nat
    BY <1>1, <1>3, <1>5 DEF Descends
  <2>2. ASSUME NEW d \in 0 .. Bits, d \in R, d + 1 <= Bits PROVE d + 1 \in R
    <3> DEFINE r == down[d]
               c == down[d + 1]
    <3>1. d + 1 \in 0 .. Bits /\ d \in Nat
      BY <1>1, <2>2
    <3>2. CASE c = NoChunk
      BY <3>1, <3>2
    <3>3. CASE c # NoChunk
      <4>1. r # NoChunk /\ c = leftmost_child(r)
        <5> HIDE DEF r, c
        <5> QED
          BY <1>4, <2>2, <3>3 DEF r, c
      <4>2. Descends(depth, r, t) /\ depth[r] = depth[t] + d
        BY <2>2, <4>1
      <4>3. r \in Chunk
        BY <1>3, <4>2 DEF Descends
      <4>4. PICK k \in 0 .. 1 : c = child[r][k]
        <5> HIDE DEF r, c
        <5> QED
          BY <4>1 DEF leftmost_child
      <4> HIDE DEF r, c
      <4>5. Descends(depth, c, r) /\ depth[c] = depth[r] + 1
        BY <3>3, <4>3, <4>4, Children
      <4>6. Descends(depth, c, t)
        BY <4>2, <4>5, Descent
      <4>7. depth[c] = depth[t] + (d + 1)
        BY ONLY <1>3, <3>1, <4>2, <4>5
      <4> QED
        BY <3>1, <4>6, <4>7 DEF c
    <3> QED
      BY <3>2, <3>3
  <2> HIDE DEF R
  <2>3. \A d \in 0 .. Bits : d \in R
    BY <1>1, <2>1, <2>2, Along
  <2> QED
    BY <2>3 DEF R
<1>7. t \in LeftPath(t)
  BY <1>1, <1>2, <1>5
<1>8. ASSUME NEW u \in LeftPath(t) PROVE Descends(depth, u, t)
  <2>1. PICK d \in 0 .. Bits : u = down[d] /\ u # NoChunk
    BY <1>2, <1>8
  <2> QED
    BY <1>6, <2>1
<1>9. ASSUME NEW u, Descends(depth, u, t) PROVE \E v \in LeftPath(t) : size[v] <= size[u]
  <2> DEFINE S == {d \in 0 .. Bits : down[d] # NoChunk /\ Descends(depth, u, down[d])}
  <2>1. 0 \in S
    BY <1>1, <1>5, <1>9
  <2>2. PICK d \in S : \A e \in S : e <= d
    <3>1. S \in SUBSET (0 .. Bits) /\ S # {}
      BY <2>1
    <3> HIDE DEF S
    <3> QED
      BY <1>1, <3>1, Greatest
  <2>3. d \in 0 .. Bits /\ down[d] # NoChunk
    OBVIOUS
  <2> DEFINE v == down[d]
  <2>4. Descends(depth, u, v) /\ depth[v] = depth[t] + d
    BY <1>6
  <2>5. v \in LeftPath(t)
    BY <1>2, <2>3
  <2>6. u \in Nodes /\ v \in Nodes /\ index[u] = index[v] /\ Key(size[u], depth[v]) = Key(size[v], depth[v])
        /\ depth[v] <= depth[u]
    BY <2>4 DEF Descends
  <2>7. CASE depth[v] = depth[u]
    <3>1. Key(size[u], depth[u]) = Key(size[v], depth[u])
      BY <2>6, <2>7
    <3>2. u = v
      <4> HIDE DEF v
      <4> QED
        BY <2>6, <2>7, <3>1, OnePlace
    <3>3. size[u] \in Nat
      BY <1>3, <2>6
    <3> QED
      BY <2>5, <3>2, <3>3
  <2>8. CASE depth[v] # depth[u]
    <3> DEFINE k == Side(size[u], depth[v])
               c == child[v][k]
    <3>1. c \in Nodes /\ depth[c] = depth[v] + 1 /\ Descends(depth, u, c) /\ k \in 0 .. 1
      <4>1. depth[v] \in Nat /\ size[u] \in Indexable
        BY <2>6, NodesAre
      <4>2. k \in 0 .. 1
        <5> HIDE DEF v
        <5> QED
          BY <4>1, Keys, LargeSizesAre
      <4> HIDE DEF v
      <4> QED
        BY <2>4, <2>8, <4>2, Downward
    <3>2. c # NoChunk /\ d + 1 <= Bits /\ d + 1 \in 0 .. Bits
      <4>1. c # NoChunk /\ depth[c] \in 0 .. Bits /\ depth[c] = depth[t] + d + 1
        <5> HIDE DEF c, v
        <5> QED
          BY <1>3, <2>3, <2>4, <3>1
      <4> HIDE DEF c
      <4> QED
        BY <1>1, <1>3, <2>3, <4>1
    <3>3. down[d + 1] = leftmost_child(v)
      BY <1>4, <2>3, <3>2
    <3>4. leftmost_child(v) # c
      <4> SUFFICES ASSUME leftmost_child(v) = c PROVE FALSE
        OBVIOUS
      <4>1. d + 1 \in S
        <5> HIDE DEF c, v
        <5> QED
          BY <3>1, <3>2, <3>3
      <4>2. d + 1 <= d
        <5> HIDE DEF S
        <5> QED
          BY <2>2, <4>1
      <4> QED
        BY <2>3, <4>2
    <3>5. k = 1 /\ child[v][0] # NoChunk /\ leftmost_child(v) = child[v][0]
      <4> HIDE DEF k, v
      <4> QED
        BY <3>1, <3>2, <3>4 DEF leftmost_child
    <3> DEFINE l == child[v][0]
    <3>6. l \in LeftPath(t)
      BY <1>2, <3>2, <3>3, <3>5
    <3>7. l \in Nodes /\ Descends(depth, l, l)
      <4>1. v \in Chunk
        BY <1>3, <2>6
      <4>2. l \in Nodes
        <5> HIDE DEF v
        <5> QED
          BY <3>5, <4>1, Children
      <4> QED
        BY <1>3, <4>2 DEF Descends
    <3>8. size[l] < size[u]
      <4>1. child[v][1] # NoChunk /\ Descends(depth, u, child[v][1])
        BY <3>1, <3>2, <3>5
      <4> HIDE DEF v
      <4> QED
        BY <2>6, <3>5, <3>7, <4>1, LeftOfRight
    <3>9. size[l] \in Nat /\ size[u] \in Nat
      BY <1>3, <2>6, <3>7
    <3> HIDE DEF l
    <3> QED
      BY <3>6, <3>8, <3>9
  <2> QED
    BY <2>7, <2>8
<1> QED
  BY <1>7, <1>8, <1>9

\* Where the way of a size goes to the left of a subtree.
Left(nb) == {d \in 0 .. Bits : /\ Path(nb)[d] # NoChunk /\ size[Path(nb)[d]] # nb /\ Side(nb, d) = 0
                               /\ child[Path(nb)[d]][1] # NoChunk}

LEMMA UntakenIs ==
  ASSUME NEW depth \in Depth, Tries(depth), NEW nb \in LargeSizes
  PROVE  /\ Left(nb) = {} => Untaken(nb) = NoChunk
         /\ Left(nb) # {} => \E d \in Left(nb) : /\ \A e \in Left(nb) : e <= d
                                                 /\ Untaken(nb) = child[Path(nb)[d]][1]
<1> DEFINE w == Path(nb)
           i == compute_tree_index(nb)
           left == {d \in Depths(w) : /\ size[w[d]] # nb /\ Direction(nb, i, d) = 0 /\ child[w[d]][1] # NoChunk}
<1>1. w \in [0 .. Bits -> Link] /\ Bits \in Nat
  BY PathIs, Widths
<1>2. Depths(w) = {d \in 0 .. Bits : w[d] # NoChunk}
  <2> HIDE DEF w
  <2> QED
    BY <1>1 DEF Depths
<1>3. left = Left(nb)
  BY <1>2 DEF Left, Side
<1>4. Untaken(nb) = IF left = {} THEN NoChunk ELSE child[w[Deepest(left)]][1]
  BY DEF Untaken
<1> HIDE DEF left, w
<1>5. left # {} => \E d \in left : \A e \in left : e <= d
  <2>1. left \in SUBSET (0 .. Bits)
    BY <1>3 DEF Left
  <2> QED
    BY <1>1, <2>1, Greatest
<1>6. left # {} => Deepest(left) \in left /\ \A e \in left : e <= Deepest(left)
  BY <1>5 DEF Deepest
<1> QED
  BY <1>3, <1>4, <1>6 DEF w

\* All that is to the right of the way is larger.
LEMMA RightOfWay ==
  ASSUME NEW depth \in Depth, Tries(depth), NEW nb \in Indexable, NEW d \in Left(nb)
  PROVE  LET g == child[Path(nb)[d]][1]
         IN  /\ g \in Nodes /\ index[g] = compute_tree_index(nb) /\ Descends(depth, g, Path(nb)[d])
             /\ \A u : Descends(depth, u, g) => nb < size[u]
<1> DEFINE v == Path(nb)[d]
           g == child[v][1]
           a == size[g]
<1>1. d \in 0 .. Bits /\ v # NoChunk /\ Side(nb, d) = 0 /\ g # NoChunk
  BY DEF Left
<1>2. v \in Nodes /\ index[v] = compute_tree_index(nb) /\ depth[v] = d /\ d \in 0 .. Top(nb) + 1 /\ Key(size[v], d) = Key(nb, d)
  <2> HIDE DEF g
  <2> QED
    BY <1>1, OnTheWay
<1>3. v \in Chunk /\ size[v] \in Indexable
  BY <1>2, NodesAre
<1> HIDE DEF v
<1>4. /\ g \in Nodes /\ index[g] = index[v] /\ depth[g] = d + 1 /\ Side(a, d) = 1 /\ d \in 0 .. Top(a)
      /\ Descends(depth, g, v)
  BY <1>1, <1>2, <1>3, Children
<1>5. Key(a, d) = Key(nb, d)
  BY <1>2, <1>4 DEF Descends
<1> HIDE DEF g
<1>6. a \in Indexable /\ compute_tree_index(a) = compute_tree_index(nb)
  BY <1>2, <1>4, NodesAre
<1> HIDE DEF a
<1>7. Top(nb) = Top(a) /\ d \in 0 .. Top(nb)
  BY <1>4, <1>6, SameBin
<1>8. Key(nb, d + 1) < Key(a, d + 1)
  <2>1. Key(nb, d) = Key(a, d) /\ Side(nb, d) = 0 /\ Side(a, d) = 1 => Key(nb, d + 1) < Key(a, d + 1)
    BY <1>6, <1>7, SameSide
  <2> QED
    BY <1>1, <1>4, <1>5, <2>1
<1>9. ASSUME NEW u, Descends(depth, u, g) PROVE nb < size[u]
  <2> DEFINE b == size[u]
             e == d + 1
  <2>1. u \in Nodes /\ index[u] = index[g] /\ Key(b, e) = Key(a, e)
    BY <1>4, <1>9 DEF Descends, a
  <2>2. b \in Indexable /\ compute_tree_index(nb) = compute_tree_index(b)
    BY <1>2, <1>4, <2>1, NodesAre
  <2>3. e \in 0 .. Top(nb) + 1 /\ Key(nb, e) < Key(b, e)
    <3>1. Top(nb) \in Nat
      BY Keys, LargeSizesAre
    <3>2. e \in 0 .. Top(nb) + 1
      BY <1>7, <3>1
    <3>3. Key(nb, e) < Key(a, e)
      BY <1>8
    <3> HIDE DEF b, e
    <3> QED
      BY <2>1, <3>2, <3>3
  <2> HIDE DEF b, e
  <2>4. nb < b
    BY <2>2, <2>3, SameBin
  <2> QED
    BY <2>4 DEF b
<1> QED
  BY <1>2, <1>4, <1>9 DEF v, g

\* In the bin of a size, the way of the size and the last subtree that it did not
\* take have the smallest node that suffices.
LEMMA BinSearched ==
  ASSUME NEW depth \in Depth, Tries(depth), NEW nb \in Indexable,
         NEW u \in Nodes, index[u] = compute_tree_index(nb), nb <= size[u]
  PROVE  \/ \E d \in 0 .. Bits : /\ Path(nb)[d] # NoChunk
                                 /\ nb <= size[Path(nb)[d]] /\ size[Path(nb)[d]] <= size[u]
         \/ Untaken(nb) # NoChunk /\ \E t \in LeftPath(Untaken(nb)) : nb <= size[t] /\ size[t] <= size[u]
<1> DEFINE w == Path(nb)
           i == compute_tree_index(nb)
           a == size[u]
           S == {d \in 0 .. Bits : w[d] # NoChunk /\ Descends(depth, u, w[d])}
<1>1. Bits \in Nat /\ nb \in Nat /\ a \in Indexable /\ a \in Nat /\ compute_tree_index(a) = i /\ depth[u] \in Nat
  BY Widths, LargeSizesAre, NodesAre
<1>2. 0 \in S
  <2>1. w[0] = treebins[i]
    BY PathIs, LargeSizesAre
  <2>2. treebins[i] \in Nodes /\ Descends(depth, u, treebins[i])
    BY RootOf
  <2>3. treebins[i] # NoChunk
    BY <2>2, NodesAre
  <2> HIDE DEF w
  <2> QED
    BY <1>1, <2>1, <2>2, <2>3
<1>3. PICK d \in S : \A e \in S : e <= d
  <2>1. S \in SUBSET (0 .. Bits) /\ S # {}
    BY <1>2
  <2> HIDE DEF S
  <2> QED
    BY <1>1, <2>1, Greatest
<1>4. d \in 0 .. Bits /\ w[d] # NoChunk /\ Descends(depth, u, w[d]) /\ d \in Nat
  OBVIOUS
<1> DEFINE v == w[d]
<1>5. v \in Nodes /\ index[v] = i /\ depth[v] = d /\ d \in 0 .. Top(nb) + 1 /\ Key(size[v], d) = Key(nb, d)
  BY <1>4, OnTheWay
<1>6. index[u] = index[v] /\ Key(a, d) = Key(size[v], d) /\ d <= depth[u]
  BY <1>4, <1>5 DEF Descends
<1> DEFINE Found == \E e \in 0 .. Bits : w[e] # NoChunk /\ nb <= size[w[e]] /\ size[w[e]] <= a
           Other == Untaken(nb) # NoChunk /\ \E t \in LeftPath(Untaken(nb)) : nb <= size[t] /\ size[t] <= a
<1> SUFFICES Found \/ Other
  OBVIOUS
<1>7. CASE size[v] = nb
  <2>1. nb <= size[v] /\ size[v] <= a
    BY <1>1, <1>7
  <2> HIDE DEF w
  <2> QED
    BY <1>4, <2>1
<1>8. CASE depth[u] = d
  <2>1. v = u
    <3>1. Key(a, depth[u]) = Key(size[v], depth[u]) /\ depth[v] = depth[u]
      BY <1>5, <1>6, <1>8
    <3> HIDE DEF w
    <3> QED
      BY <1>5, <1>6, <3>1, OnePlace
  <2>2. nb <= size[v] /\ size[v] <= a
    BY <1>1, <2>1
  <2> HIDE DEF w
  <2> QED
    BY <1>4, <2>2
<1>9. CASE size[v] # nb /\ depth[u] # d
  <2> DEFINE k == Side(a, d)
             c == child[v][k]
  <2>1. c \in Nodes /\ depth[c] = d + 1 /\ Descends(depth, u, c) /\ d \in 0 .. Top(a)
    <3>1. depth[v] # depth[u] /\ depth[v] = d
      BY <1>5, <1>9
    <3> HIDE DEF w
    <3> QED
      BY <1>4, <3>1, Downward
  <2>2. c # NoChunk /\ d + 1 \in 0 .. Bits /\ k \in 0 .. 1
    <3>1. c # NoChunk /\ depth[c] \in 0 .. Top(size[c]) + 1 /\ Top(size[c]) + 1 \in 0 .. Bits
      <4> HIDE DEF c
      <4> QED
        BY <2>1, NodesAre
    <3>2. k \in 0 .. 1
      <4> HIDE DEF a
      <4> QED
        BY <1>1, <1>4, Keys, LargeSizesAre
    <3> HIDE DEF c
    <3> QED
      BY <1>1, <1>4, <2>1, <3>1, <3>2
  <2>3. w[d + 1] = child[v][Side(nb, d)]
    <3> DEFINE e == d + 1
    <3>1. e \in 0 .. Bits /\ e # 0 /\ e - 1 = d
      BY <1>4, <2>2
    <3>2. w[e] = IF w[e - 1] = NoChunk THEN NoChunk ELSE IF size[w[e - 1]] = nb THEN NoChunk
                 ELSE child[w[e - 1]][Side(nb, e - 1)]
      <4> HIDE DEF e
      <4> QED
        BY <3>1, PathIs, LargeSizesAre
    <3> HIDE DEF w, e
    <3>3. w[e] = child[v][Side(nb, d)]
      BY <1>4, <1>9, <3>1, <3>2
    <3> QED
      BY <3>3 DEF e
  <2>4. k # Side(nb, d)
    <3> SUFFICES ASSUME k = Side(nb, d) PROVE FALSE
      OBVIOUS
    <3>1. w[d + 1] = c
      <4> HIDE DEF w
      <4> QED
        BY <2>3
    <3>2. d + 1 \in S
      <4> HIDE DEF c, w
      <4> QED
        BY <2>1, <2>2, <3>1
    <3>3. d + 1 <= d
      <4> HIDE DEF S
      <4> QED
        BY <1>3, <3>2
    <3> QED
      BY <1>4, <3>3
  <2>5. Side(nb, d) = 0 /\ k = 1
    <3>1. Side(nb, d) \in 0 .. 1
      BY <1>4, Keys, LargeSizesAre
    <3>2. ASSUME Side(nb, d) = 1, k = 0 PROVE FALSE
      <4>1. Key(a, d) = Key(nb, d)
        BY <1>5, <1>6
      <4>2. Key(a, d) = Key(nb, d) /\ Side(a, d) = 0 /\ Side(nb, d) = 1 => Key(a, d + 1) < Key(nb, d + 1)
        <5> HIDE DEF a
        <5> QED
          BY <1>1, <2>1, SameSide
      <4>3. Key(a, d + 1) < Key(nb, d + 1) /\ d + 1 \in 0 .. Top(a) + 1
        <5>1. Top(a) \in Nat
          <6> HIDE DEF a
          <6> QED
            BY <1>1, Keys, LargeSizesAre
        <5> HIDE DEF a
        <5> QED
          BY <2>1, <3>2, <4>1, <4>2, <5>1
      <4>4. a < nb
        <5> DEFINE e == d + 1
        <5>1. Key(a, e) < Key(nb, e) /\ e \in 0 .. Top(a) + 1
          BY <4>3
        <5> HIDE DEF a, e
        <5> QED
          BY <1>1, <5>1, SameBin
      <4> QED
        BY <1>1, <4>4
    <3> HIDE DEF k
    <3> QED
      BY <2>2, <2>4, <3>1, <3>2
  <2>6. d \in Left(nb)
    <3>1. child[v][1] # NoChunk
      BY <2>2, <2>5
    <3> QED
      BY <1>4, <1>9, <2>5, <3>1 DEF Left
  <2>7. PICK m \in Left(nb) : (\A e \in Left(nb) : e <= m) /\ Untaken(nb) = child[w[m]][1]
    BY <2>6, UntakenIs, LargeSizesAre
  <2> DEFINE g == child[w[m]][1]
  <2>8. /\ g \in Nodes /\ index[g] = i /\ Descends(depth, g, w[m])
        /\ \A x : Descends(depth, x, g) => nb < size[x]
    BY RightOfWay
  <2>9. g # NoChunk
    <3> HIDE DEF g
    <3> QED
      BY <2>8, NodesAre
  <2>10. \E t \in LeftPath(g) : size[t] <= a
    <3>1. CASE m = d
      <4>1. Descends(depth, u, g)
        BY <2>1, <2>5, <3>1
      <4> HIDE DEF g, a
      <4> QED
        BY <2>8, <4>1, LeftPathFinds DEF a
    <3>2. CASE m # d
      <4> DEFINE y == w[m]
                 l == child[v][0]
                 e == d + 1
      <4>1. m \in 0 .. Bits /\ d + 1 <= m /\ e \in 0 .. m /\ e \in 0 .. Bits
        <5>1. m \in 0 .. Bits /\ d <= m
          BY <2>6, <2>7 DEF Left
        <5> QED
          BY <1>1, <1>4, <3>2, <5>1
      <4>2. y # NoChunk
        BY DEF Left
      <4>3. y \in Nodes /\ index[y] = i /\ depth[y] = m /\ Key(size[y], m) = Key(nb, m) /\ m \in 0 .. Top(nb) + 1
            /\ w[e] # NoChunk
        <5> HIDE DEF e
        <5> QED
          BY <4>1, <4>2, OnTheWay
      <4>4. w[e] = l
        BY <2>3, <2>5
      <4>5. l \in Nodes /\ index[l] = i /\ depth[l] = e /\ Key(size[l], e) = Key(nb, e) /\ l # NoChunk
        <5>1. LET t == w[e] IN t \in Nodes /\ index[t] = i /\ depth[t] = e /\ Key(size[t], e) = Key(nb, e) /\ t # NoChunk
          <6> HIDE DEF e
          <6> QED
            BY <4>1, <4>3, OnTheWay
        <5> HIDE DEF w, l, e
        <5> QED
          BY <4>4, <5>1
      <4>6. Descends(depth, y, l)
        <5> DEFINE b == size[y]
        <5>1. b \in Indexable /\ compute_tree_index(b) = compute_tree_index(nb)
          <6> HIDE DEF y
          <6> QED
            BY <4>3, NodesAre
        <5>2. Key(b, e) = Key(nb, e)
          <6>1. Top(b) = Top(nb)
            <7> HIDE DEF b
            <7> QED
              BY <5>1, SameBin
          <6>2. e \in 0 .. Top(b) + 1 /\ m \in 0 .. Top(b) + 1 /\ e <= m /\ Key(b, m) = Key(nb, m)
            <7>1. Top(nb) \in Nat
              BY Keys, LargeSizesAre
            <7>2. e \in 0 .. Top(nb) + 1 /\ m \in 0 .. Top(nb) + 1 /\ e <= m
              BY <4>1, <4>3, <7>1
            <7> HIDE DEF e, b
            <7> QED
              BY <4>3, <6>1, <7>2 DEF b
          <6> HIDE DEF b, e
          <6> QED
            BY <5>1, <6>2, SameBin
        <5>3. e <= m
          BY <4>1
        <5> HIDE DEF y, l, e
        <5> QED
          BY <4>3, <4>5, <5>2, <5>3 DEF Descends
      <4>7. Descends(depth, g, l)
        <5> HIDE DEF g, l
        <5> QED
          BY <2>8, <4>6, Descent
      <4>8. child[v][1] # NoChunk /\ Descends(depth, u, child[v][1])
        BY <2>1, <2>2, <2>5
      <4>9. size[g] < a
        <5> HIDE DEF g, v
        <5> QED
          BY <1>5, <4>5, <4>7, <4>8, LeftOfRight
      <4>10. g \in LeftPath(g) /\ size[g] \in Nat
        <5> HIDE DEF g
        <5> QED
          BY <2>8, LeftPathFinds, NodesAre, LargeSizesAre
      <4> HIDE DEF g, a
      <4> QED
        BY <1>1, <4>9, <4>10
    <3> QED
      BY <3>1, <3>2
  <2>11. PICK t \in LeftPath(g) : size[t] <= a
    BY <2>10
  <2>12. Descends(depth, t, g) /\ t \in Nodes
    <3>1. Descends(depth, t, g)
      <4> HIDE DEF g
      <4> QED
        BY <2>8, LeftPathFinds
    <3> QED
      BY <3>1 DEF Descends
  <2>13. nb <= size[t]
    <3>1. nb < size[t] /\ size[t] \in Nat
      BY <2>8, <2>12, NodesAre, LargeSizesAre
    <3> QED
      BY <1>1, <3>1
  <2> HIDE DEF g, a, w
  <2> QED
    BY <2>7, <2>9, <2>11, <2>13 DEF g
<1> QED
  BY <1>7, <1>8, <1>9

\* A node of a later bin is larger than any of an earlier one.
LEMMA LaterBin ==
  ASSUME NEW a \in Indexable, NEW b \in Indexable, compute_tree_index(a) < compute_tree_index(b)
  PROVE  a < b
<1>1. a \in Nat /\ b \in Nat /\ compute_tree_index(a) \in Nat /\ compute_tree_index(b) \in Nat
  BY LargeSizesAre, IndexIsBin, Widths DEF Bins
<1>2. b <= a => compute_tree_index(b) <= compute_tree_index(a)
  BY IndexOrder
<1> QED
  BY <1>1, <1>2

\* The root of the first marked bin after a bin, and that nothing between is missed.
LEMMA NextRootIs ==
  ASSUME NEW depth \in Depth, Tries(depth), NEW i \in Bins
  PROVE  IF \E u \in Nodes : i < index[u]
         THEN LET r == NextRoot(i)
              IN  /\ r \in Nodes /\ i < index[r]
                  /\ \A u \in Nodes : i < index[u] => index[r] <= index[u] /\ (index[r] = index[u] => Descends(depth, u, r))
         ELSE NextRoot(i) = NoChunk
<1> DEFINE marked == {j \in treemap : j > i}
<1>1. Roots /\ TypeOK /\ i \in Nat
  BY Widths DEF Tries, Bins
<1>2. marked \in SUBSET Nat /\ \A j \in marked : j \in Bins /\ j \in treemap /\ i < j
  <2>1. treemap \subseteq Bins /\ \A j \in Bins : j \in Nat
    BY <1>1, Widths DEF TypeOK, Bins
  <2>2. \A j \in marked : j \in Bins /\ j \in treemap /\ i < j /\ j \in Nat
    BY <1>1, <2>1
  <2> HIDE DEF marked
  <2> QED
    BY <2>2
<1>3. \A j \in treemap : i < j => j \in marked
  <2>1. \A j \in treemap : j \in Nat
    BY <1>1, Widths DEF TypeOK, Bins
  <2> QED
    BY <1>1, <2>1
<1>4. NextRoot(i) = IF marked = {} THEN NoChunk ELSE treebins[CHOOSE j \in marked : \A k \in marked : j <= k]
  BY DEF NextRoot
<1> HIDE DEF marked
<1>5. ASSUME NEW u \in Nodes, i < index[u]
      PROVE  index[u] \in marked /\ index[u] \in Nat /\ Descends(depth, u, treebins[index[u]])
  <2>1. index[u] \in treemap /\ Descends(depth, u, treebins[index[u]])
    BY RootOf
  <2>2. index[u] \in marked
    BY <1>3, <1>5, <2>1
  <2> QED
    BY <1>2, <2>1, <2>2
<1>6. CASE marked = {}
  BY <1>4, <1>5, <1>6
<1>7. CASE marked # {}
  <2>1. \E j \in marked : \A k \in marked : j <= k
    BY <1>2, <1>7, Least
  <2>2. PICK j \in marked : NextRoot(i) = treebins[j] /\ \A k \in marked : j <= k
    BY <1>4, <1>7, <2>1
  <2>3. treebins[j] \in Nodes /\ index[treebins[j]] = j /\ i < j
    BY <1>1, <1>2, <2>2 DEF Roots
  <2>4. \A u \in Nodes : i < index[u] => j <= index[u] /\ (j = index[u] => Descends(depth, u, treebins[j]))
    BY <1>5, <2>2
  <2> QED
    BY <2>2, <2>3, <2>4
<1> QED
  BY <1>6, <1>7

\* What a search for a large request looks at has the smallest node that suffices.
LEMMA AllSearched ==
  ASSUME NEW depth \in Depth, Tries(depth), NEW nb \in Indexable
  PROVE  \E nodes \in SUBSET Nodes :
            /\ tmalloc_large(nb) = Best(nodes, nb, Minus(0, nb))
            /\ \A u \in Nodes : nb <= size[u] => \E t \in nodes : nb <= size[t] /\ size[t] <= size[u]
<1> DEFINE w == Path(nb)
           i == compute_tree_index(nb)
           limit == Minus(0, nb)
           path == {w[d] : d \in Depths(w)}
           onPath == Best(path, nb, limit)
           rest == IF Untaken(nb) # NoChunk THEN Untaken(nb)
                   ELSE IF onPath = NoChunk THEN NextRoot(i) ELSE NoChunk
           nodes == path \cup LeftPath(rest)
<1>1. tmalloc_large(nb) = Best(nodes, nb, limit)
  BY DEF tmalloc_large
<1>2. TypeOK /\ i \in Bins /\ i \in Nat /\ nb \in Nat
  BY IndexIsBin, Widths, LargeSizesAre DEF Tries, Bins
<1>3. \A d \in 0 .. Bits : w[d] # NoChunk => w[d] \in path
  <2>1. w \in [0 .. Bits -> Link]
    BY PathIs, LargeSizesAre
  <2> HIDE DEF w
  <2> QED
    BY <2>1 DEF Depths
<1>4. \A t \in path : t \in Nodes /\ index[t] = i
  <2>1. w \in [0 .. Bits -> Link]
    BY PathIs, LargeSizesAre
  <2>2. ASSUME NEW d \in Depths(w) PROVE w[d] \in Nodes /\ index[w[d]] = i
    <3>1. d \in 0 .. Bits /\ w[d] # NoChunk
      <4> HIDE DEF w
      <4> QED
        BY <2>1, <2>2 DEF Depths
    <3> QED
      BY <3>1, OnTheWay
  <2> HIDE DEF w
  <2> QED
    BY <2>2
<1>5. /\ Compares(nb, limit)
      /\ IF \E u \in path : nb <= size[u] THEN onPath \in path /\ nb <= size[onPath] ELSE onPath = NoChunk
  <2>1. Compares(nb, limit) /\ path \in SUBSET Nodes
    BY <1>4, Remainders, LargeSizesAre
  <2> HIDE DEF path, limit
  <2> QED
    BY <2>1, BestIs
<1>6. Untaken(nb) # NoChunk => /\ Untaken(nb) \in Nodes /\ index[Untaken(nb)] = i
                               /\ \A u : Descends(depth, u, Untaken(nb)) => nb < size[u]
  <2> SUFFICES ASSUME Untaken(nb) # NoChunk
               PROVE  /\ Untaken(nb) \in Nodes /\ index[Untaken(nb)] = i
                      /\ \A u : Descends(depth, u, Untaken(nb)) => nb < size[u]
    OBVIOUS
  <2>1. PICK d \in Left(nb) : Untaken(nb) = child[Path(nb)[d]][1]
    BY UntakenIs, LargeSizesAre
  <2> QED
    BY <2>1, RightOfWay
<1>7. \A u \in Nodes : size[u] \in Indexable /\ size[u] \in Nat /\ index[u] = compute_tree_index(size[u]) /\ index[u] \in Nat
  <2>1. \A u \in Nodes : index[u] \in Bins
    BY NodesAre
  <2> QED
    BY <2>1, NodesAre, LargeSizesAre, Widths DEF Bins
<1>8. rest # NoChunk => rest \in Nodes
  <2>1. NextRoot(i) # NoChunk => NextRoot(i) \in Nodes
    BY <1>2, NextRootIs
  <2> HIDE DEF i, onPath
  <2> QED
    BY <1>6, <2>1
<1>9. nodes \in SUBSET Nodes
  <2>1. LeftPath(rest) \subseteq Nodes
    <3>1. CASE rest = NoChunk
      BY <1>2, <3>1, NothingLeft
    <3>2. CASE rest # NoChunk
      <4> HIDE DEF rest
      <4>1. \A t \in LeftPath(rest) : Descends(depth, t, rest)
        BY <1>8, <3>2, LeftPathFinds
      <4> QED
        BY <4>1 DEF Descends
    <3> QED
      BY <3>1, <3>2
  <2> HIDE DEF path, rest
  <2> QED
    BY <1>4, <2>1
<1>10. rest # NoChunk => rest \in LeftPath(rest)
  <2> HIDE DEF rest
  <2> QED
    BY <1>8, LeftPathFinds
<1>11. ASSUME NEW u \in Nodes, nb <= size[u] PROVE \E t \in nodes : nb <= size[t] /\ size[t] <= size[u]
  <2>1. i <= index[u]
    BY <1>7, <1>11, IndexOrder
  <2>2. CASE index[u] = i
    <3>1. \/ \E d \in 0 .. Bits : w[d] # NoChunk /\ nb <= size[w[d]] /\ size[w[d]] <= size[u]
          \/ Untaken(nb) # NoChunk /\ \E t \in LeftPath(Untaken(nb)) : nb <= size[t] /\ size[t] <= size[u]
      BY <1>11, <2>2, BinSearched
    <3>2. Untaken(nb) # NoChunk => rest = Untaken(nb)
      OBVIOUS
    <3> HIDE DEF path, rest, w
    <3> QED
      BY <1>3, <3>1, <3>2
  <2>3. CASE index[u] # i
    <3>1. i < index[u]
      BY <1>2, <1>7, <2>1, <2>3
    <3>2. ASSUME NEW t \in Nodes, index[t] < index[u] PROVE size[t] <= size[u]
      <4>1. size[t] < size[u]
        BY <1>7, <3>2, LaterBin
      <4> QED
        BY <1>7, <4>1
    <3>3. CASE Untaken(nb) # NoChunk
      <4> DEFINE g == Untaken(nb)
      <4>1. rest = g
        BY <3>3
      <4>2. g \in Nodes /\ index[g] = i /\ Descends(depth, g, g) /\ nb < size[g]
        <5>1. g \in Nodes /\ index[g] = i
          BY <1>6, <3>3
        <5>2. Descends(depth, g, g)
          <6> HIDE DEF g
          <6> QED
            BY <5>1, NodesAre DEF Descends
        <5> QED
          BY <1>6, <3>3, <5>1, <5>2
      <4>3. g \in nodes
        <5> HIDE DEF rest, g
        <5> QED
          BY <1>10, <3>3, <4>1 DEF g
      <4> HIDE DEF g, nodes, i
      <4>4. size[g] <= size[u] /\ nb <= size[g]
        BY <1>2, <1>7, <3>1, <3>2, <4>2
      <4> QED
        BY <4>3, <4>4
    <3>4. CASE Untaken(nb) = NoChunk /\ onPath # NoChunk
      <4>1. onPath \in path /\ nb <= size[onPath]
        BY <1>5, <3>4
      <4> HIDE DEF onPath
      <4>2. onPath \in Nodes /\ index[onPath] = i
        BY <1>4, <4>1
      <4>3. onPath \in nodes
        BY <4>1
      <4> HIDE DEF nodes, i
      <4> QED
        BY <3>1, <3>2, <4>1, <4>2, <4>3
    <3>5. CASE Untaken(nb) = NoChunk /\ onPath = NoChunk
      <4> DEFINE r == NextRoot(i)
      <4>1. rest = r
        BY <3>5
      <4>2. r \in Nodes /\ i < index[r] /\ index[r] <= index[u] /\ (index[r] = index[u] => Descends(depth, u, r))
        <5> HIDE DEF i
        <5> QED
          BY <1>2, <3>1, NextRootIs
      <4> HIDE DEF r
      <4>3. \A t \in LeftPath(r) : t \in nodes /\ t \in Nodes /\ index[t] = index[r] /\ nb <= size[t]
        <5> SUFFICES ASSUME NEW t \in LeftPath(r) PROVE t \in nodes /\ t \in Nodes /\ index[t] = index[r] /\ nb <= size[t]
          OBVIOUS
        <5>1. t \in nodes
          <6> HIDE DEF path, rest
          <6> QED
            BY <4>1
        <5>2. t \in Nodes /\ index[t] = index[r]
          <6>1. Descends(depth, t, r)
            BY <4>2, LeftPathFinds
          <6> QED
            BY <6>1 DEF Descends
        <5>3. nb < size[t]
          <6>1. compute_tree_index(nb) < compute_tree_index(size[t]) /\ size[t] \in Indexable
            BY <1>7, <4>2, <5>2
          <6> DEFINE b == size[t]
          <6>2. b \in Indexable /\ compute_tree_index(nb) < compute_tree_index(b)
            BY <6>1
          <6> HIDE DEF b
          <6>3. nb < b
            BY <6>2, LaterBin
          <6> QED
            BY <6>3 DEF b
        <5> HIDE DEF nodes
        <5> QED
          BY <1>2, <1>7, <5>1, <5>2, <5>3
      <4>4. CASE index[r] = index[u]
        <5>1. PICK t \in LeftPath(r) : size[t] <= size[u]
          BY <4>2, <4>4, LeftPathFinds
        <5> HIDE DEF nodes
        <5> QED
          BY <4>3, <5>1
      <4>5. CASE index[r] # index[u]
        <5>1. r \in LeftPath(r)
          BY <4>2, LeftPathFinds
        <5>2. size[r] <= size[u]
          <6>1. index[r] < index[u]
            BY <1>7, <4>2, <4>5
          <6> QED
            BY <3>2, <4>2, <6>1
        <5> HIDE DEF nodes
        <5> QED
          BY <4>3, <5>1, <5>2
      <4> QED
        BY <4>4, <4>5
    <3> QED
      BY <3>3, <3>4, <3>5
  <2> QED
    BY <2>2, <2>3
<1> HIDE DEF nodes, limit
<1> QED
  BY <1>1, <1>9, <1>11 DEF limit

\* The roots of the marked bins and the smallest chunk of all.
LEMMA SmallSearched ==
  ASSUME NEW depth \in Depth, Tries(depth), Nodes # {}
  PROVE  \E nodes \in SUBSET Nodes :
            /\ tmalloc_small = Best(nodes, 0, Two[Bits])
            /\ \A u \in Nodes : \E t \in nodes : size[t] <= size[u]
<1> DEFINE i == CHOOSE j \in treemap : \A k \in treemap : j <= k
           r == treebins[i]
<1>1. Roots /\ TypeOK
  BY DEF Tries
<1>2. treemap \in SUBSET Nat /\ treemap \subseteq Bins
  <2>1. treemap \subseteq Bins /\ \A j \in Bins : j \in Nat
    BY <1>1, Widths DEF TypeOK, Bins
  <2> QED
    BY <2>1
<1>3. \A u \in Nodes : index[u] \in treemap /\ Descends(depth, u, treebins[index[u]])
  BY RootOf
<1>4. i \in treemap /\ \A k \in treemap : i <= k
  <2>1. treemap # {}
    BY <1>3
  <2> QED
    BY <1>2, <2>1, Least
<1>5. tmalloc_small = Best(LeftPath(r), 0, Two[Bits])
  BY DEF tmalloc_small
<1> HIDE DEF i
<1>6. r \in Nodes /\ index[r] = i
  BY <1>1, <1>2, <1>4 DEF Roots
<1>7. LeftPath(r) \subseteq Nodes
  <2>1. \A t \in LeftPath(r) : Descends(depth, t, r)
    BY <1>6, LeftPathFinds
  <2> QED
    BY <2>1 DEF Descends
<1>8. \A u \in Nodes : size[u] \in Indexable /\ size[u] \in Nat /\ index[u] = compute_tree_index(size[u]) /\ index[u] \in Nat
  BY <1>2, <1>3, NodesAre, LargeSizesAre
<1>9. ASSUME NEW u \in Nodes PROVE \E t \in LeftPath(r) : size[t] <= size[u]
  <2>1. i <= index[u]
    BY <1>3, <1>4
  <2>2. CASE index[u] = i
    <3>1. Descends(depth, u, r)
      BY <1>3, <2>2
    <3> HIDE DEF r
    <3> QED
      BY <1>6, <3>1, LeftPathFinds
  <2>3. CASE index[u] # i
    <3> HIDE DEF r
    <3>1. r \in LeftPath(r)
      BY <1>6, LeftPathFinds
    <3>2. compute_tree_index(size[r]) < compute_tree_index(size[u])
      BY <1>6, <1>8, <2>1, <2>3
    <3>3. size[r] < size[u]
      BY <1>6, <1>8, <3>2, LaterBin
    <3>4. size[r] <= size[u]
      BY <1>6, <1>8, <3>3
    <3> QED
      BY <3>1, <3>4
  <2> QED
    BY <2>2, <2>3
<1> QED
  BY <1>5, <1>7, <1>9

\* A request that has no index of its own takes some way through some tree, and
\* nothing on it is large enough, nor anywhere else.
LEMMA StaysInTrees ==
  ASSUME NEW depth \in Depth, Tries(depth), NEW nb \in LargeSizes
  PROVE  \A d \in 0 .. Bits : Path(nb)[d] # NoChunk => Path(nb)[d] \in Nodes
<1> DEFINE w == Path(nb)
           R == {d \in 0 .. Bits : w[d] # NoChunk => w[d] \in Nodes}
<1>1. Bits \in Nat /\ compute_tree_index(nb) \in Bins
  BY Widths, IndexIsBin
<1>2. w[0] = treebins[compute_tree_index(nb)]
  BY PathIs
<1>3. 0 \in R
  <2>1. w[0] # NoChunk => w[0] \in Nodes
    <3> HIDE DEF w
    <3> QED
      BY <1>1, <1>2 DEF Tries, Roots
  <2> QED
    BY <1>1, <2>1
<1>4. ASSUME NEW d \in 0 .. Bits, d \in R, d + 1 <= Bits PROVE d + 1 \in R
  <2>1. d \in Nat /\ d + 1 \in 0 .. Bits /\ d + 1 # 0 /\ (d + 1) - 1 = d
    BY <1>1, <1>4
  <2>2. w[d + 1] = IF w[d] = NoChunk THEN NoChunk ELSE IF size[w[d]] = nb THEN NoChunk
                   ELSE child[w[d]][Side(nb, d)]
    BY <2>1, PathIs
  <2>3. Side(nb, d) \in 0 .. 1
    BY <2>1, Keys
  <2>4. w[d + 1] # NoChunk => w[d + 1] \in Nodes
    <3> HIDE DEF w
    <3> SUFFICES ASSUME w[d + 1] # NoChunk PROVE w[d + 1] \in Nodes
      OBVIOUS
    <3>1. w[d] # NoChunk /\ w[d + 1] = child[w[d]][Side(nb, d)]
      BY <2>2
    <3>2. w[d] \in Chunk
      BY <1>4, <3>1 DEF Nodes, Binned
    <3> QED
      BY <2>3, <3>1, <3>2 DEF Tries, Holds
  <2> HIDE DEF w
  <2> QED
    BY <2>1, <2>4
<1>5. \A d \in 0 .. Bits : d \in R
  <2>1. 0 <= Bits => 0 \in R
    BY <1>3
  <2>2. \A d \in 0 .. Bits : d \in R /\ d + 1 <= Bits => d + 1 \in R
    BY <1>4
  <2> HIDE DEF R
  <2> QED
    BY <1>1, <2>1, <2>2, Along
<1> QED
  BY <1>5

LEMMA NoneSuffices ==
  ASSUME NEW depth \in Depth, Tries(depth), NEW nb \in LargeSizes, nb \notin Indexable
  PROVE  /\ \A u \in Nodes : ~(nb <= size[u])
         /\ \E nodes \in SUBSET Nodes : tmalloc_large(nb) = Best(nodes, nb, Minus(0, nb))
<1> DEFINE w == Path(nb)
           i == compute_tree_index(nb)
           path == {w[d] : d \in Depths(w)}
           onPath == Best(path, nb, Minus(0, nb))
           rest == IF Untaken(nb) # NoChunk THEN Untaken(nb)
                   ELSE IF onPath = NoChunk THEN NextRoot(i) ELSE NoChunk
           nodes == path \cup LeftPath(rest)
<1>1. ASSUME NEW u \in Nodes PROVE ~(nb <= size[u])
  <2> SUFFICES ASSUME nb <= size[u] PROVE FALSE
    OBVIOUS
  <2> DEFINE a == size[u]
             z == Two[IndexBits]
  <2>1. a \in Indexable /\ a \in Nat /\ nb \in Nat
    BY NodesAre, LargeSizesAre
  <2>2. MinLarge \in Nat \ {0} /\ z \in Nat
    <3>1. Shift \in 0 .. Bits + 1 /\ IndexBits \in 0 .. Bits + 1
      BY Widths
    <3> QED
      BY <3>1, Twos DEF MinLarge
  <2>3. a \div MinLarge < z
    BY <2>1 DEF Indexable
  <2> HIDE DEF a, z
  <2>4. nb \div MinLarge <= a \div MinLarge
    BY <2>1, <2>2, QuotientOrder DEF a
  <2>5. nb \div MinLarge \in Nat /\ a \div MinLarge \in Nat
    BY <2>1, <2>2, Divided
  <2>6. nb \div MinLarge < z
    BY <2>2, <2>3, <2>4, <2>5
  <2> QED
    BY <2>6 DEF Indexable, z
<1>2. tmalloc_large(nb) = Best(nodes, nb, Minus(0, nb))
  BY DEF tmalloc_large
<1>3. TypeOK /\ i \in Bins
  BY IndexIsBin DEF Tries
<1>4. path \in SUBSET Nodes
  <2>1. w \in [0 .. Bits -> Link]
    BY PathIs
  <2>2. \A d \in 0 .. Bits : w[d] # NoChunk => w[d] \in Nodes
    BY StaysInTrees
  <2> HIDE DEF w
  <2> QED
    BY <2>1, <2>2 DEF Depths
<1>5. Untaken(nb) # NoChunk => Untaken(nb) \in Nodes
  <2> SUFFICES ASSUME Untaken(nb) # NoChunk PROVE Untaken(nb) \in Nodes
    OBVIOUS
  <2>1. PICK d \in Left(nb) : Untaken(nb) = child[w[d]][1]
    BY UntakenIs
  <2>2. d \in 0 .. Bits /\ w[d] # NoChunk
    BY DEF Left
  <2>3. w[d] \in Chunk
    BY <2>2, StaysInTrees DEF Nodes, Binned
  <2> HIDE DEF w
  <2> QED
    BY <2>1, <2>3 DEF Tries, Holds
<1>6. NextRoot(i) # NoChunk => NextRoot(i) \in Nodes
  <2> HIDE DEF i
  <2> QED
    BY <1>3, NextRootIs
<1>7. rest # NoChunk => rest \in Nodes
  <2> HIDE DEF onPath, i
  <2> QED
    BY <1>5, <1>6
<1>8. LeftPath(rest) \in SUBSET Nodes
  <2> HIDE DEF rest
  <2>1. CASE rest = NoChunk
    BY <1>3, <2>1, NothingLeft
  <2>2. CASE rest # NoChunk
    <3>1. \A u \in LeftPath(rest) : Descends(depth, u, rest)
      BY <1>7, <2>2, LeftPathFinds
    <3> QED
      BY <3>1 DEF Descends
  <2> QED
    BY <2>1, <2>2
<1>9. nodes \in SUBSET Nodes
  <2> HIDE DEF path, rest
  <2> QED
    BY <1>4, <1>8
<1> HIDE DEF nodes
<1> QED
  BY <1>1, <1>2, <1>9

\* What a search finds is the first chunk of the list of the smallest size.
LEMMA FindsFirst ==
  ASSUME NEW depth \in Depth, NEW q \in Order, Sound(depth, q), NEW nodes \in SUBSET Nodes,
         NEW nb, NEW limit, Compares(nb, limit), NEW lo, \A a \in Indexable : lo <= a <=> nb <= a,
         \A u \in Nodes : nb <= size[u] => \E t \in nodes : nb <= size[t] /\ size[t] <= size[u]
  PROVE  LET sizes == B!LargeFrom(AsHeap, lo)
         IN  /\ sizes = {size[u] : u \in {t \in Nodes : nb <= size[t]}}
             /\ Best(nodes, nb, limit) = IF sizes = {} THEN NoChunk ELSE Head(Queue(B!Smallest(sizes)))
<1> DEFINE sizes == B!LargeFrom(AsHeap, lo)
           enough == {t \in Nodes : nb <= size[t]}
           found == {size[u] : u \in enough}
           b == Best(nodes, nb, limit)
<1>1. Tries(depth)
  BY DEF Sound
<1>2. \A u \in Nodes : size[u] \in Indexable /\ size[u] \in Nat /\ size[u] \in B!Sizes
  BY <1>1, NodesAre, LargeSizesAre, HeapSizes
<1>3. \A s \in B!Sizes : AsHeap.bin[s] = IF s \in Indexable THEN q[s] ELSE <<>>
  <2>1. AsHeap = Lists(q)
    BY AsHeapIs
  <2> QED
    BY <2>1 DEF Lists
<1>4. \A s \in Indexable : s >= MinLarge
  <2>1. MinLarge \in Nat
    BY Widths, Twos DEF MinLarge
  <2> QED
    BY <2>1, LargeSizesAre DEF MinLarge
<1>5. \A s \in Indexable : q[s] # <<>> <=> \E u \in Nodes : size[u] = s
  <2> SUFFICES ASSUME NEW s \in Indexable PROVE q[s] # <<>> <=> \E u \in Nodes : size[u] = s
    OBVIOUS
  <2> DEFINE l == q[s]
  <2>1. l \in Seq(Chunk) /\ Ring(l, s) /\ s # 0
    BY LargeSizesAre DEF Order, Sound
  <2>2. ASSUME l # <<>> PROVE \E u \in Nodes : size[u] = s
    <3>1. 1 \in 1 .. Len(l) /\ l[1] \in Chunk
      <4> HIDE DEF l
      <4> QED
        BY <2>1, <2>2
    <3>2. size[l[1]] = s /\ parent[l[1]] # NoChunk
      <4> HIDE DEF l
      <4> QED
        BY <2>1, <3>1 DEF Ring
    <3> HIDE DEF l
    <3> QED
      BY <2>1, <3>1, <3>2 DEF Nodes, Binned
  <2>3. ASSUME NEW u \in Nodes, size[u] = s PROVE l # <<>>
    <3>1. u \in Binned /\ size[u] = s
      BY <2>3 DEF Nodes
    <3>2. Len(q[size[u]]) \in Nat \ {0}
      BY <3>1, RingOf
    <3> QED
      BY <3>1, <3>2
  <2> QED
    BY <2>2, <2>3
<1>6. sizes = found
  <2>1. ASSUME NEW s \in B!Sizes, s >= MinLarge, s >= lo, AsHeap.bin[s] # <<>> PROVE s \in found
    <3>1. s \in Indexable /\ q[s] # <<>>
      BY <1>3, <2>1
    <3>2. PICK u \in Nodes : size[u] = s
      BY <1>5, <3>1
    <3>3. nb <= s
      <4>1. s >= lo <=> lo <= s
        OBVIOUS
      <4> QED
        BY <2>1, <3>1, <4>1
    <3> QED
      BY <3>2, <3>3
  <2>2. ASSUME NEW u \in enough
        PROVE  size[u] \in B!Sizes /\ size[u] >= MinLarge /\ size[u] >= lo /\ AsHeap.bin[size[u]] # <<>>
    <3>1. size[u] \in Indexable /\ size[u] \in B!Sizes /\ lo <= size[u]
      BY <1>2
    <3>2. q[size[u]] # <<>>
      BY <1>5, <3>1
    <3> QED
      BY <1>3, <1>4, <3>1, <3>2
  <2> HIDE DEF enough
  <2> QED
    BY <2>1, <2>2 DEF B!LargeFrom
<1>7. IF \E u \in nodes : nb <= size[u]
      THEN b \in nodes /\ nb <= size[b] /\ \A u \in nodes : nb <= size[u] => size[b] <= size[u]
      ELSE b = NoChunk
  BY <1>1, BestIs
<1> HIDE DEF b, sizes
<1>8. CASE sizes = {}
  <2>1. ~ \E u \in nodes : nb <= size[u]
    BY <1>6, <1>8
  <2> QED
    BY <1>6, <1>7, <1>8, <2>1 DEF b, sizes
<1>9. CASE sizes # {}
  <2> DEFINE m == B!Smallest(sizes)
  <2>1. m \in found /\ \A s \in found : m <= s
    <3>1. found \in SUBSET Nat /\ found # {}
      BY <1>2, <1>6, <1>9
    <3>2. m = CHOOSE s \in found : \A other \in found : s <= other
      BY <1>6 DEF B!Smallest
    <3> HIDE DEF found, m
    <3> QED
      BY <3>1, <3>2, Least
  <2> HIDE DEF m
  <2>2. PICK u \in Nodes : nb <= size[u] /\ size[u] = m
    BY <2>1
  <2>3. PICK t \in nodes : nb <= size[t] /\ size[t] <= size[u]
    BY <2>2
  <2>4. b \in nodes /\ nb <= size[b] /\ size[b] <= size[t]
    BY <1>7, <2>3
  <2>5. b \in Nodes /\ m <= size[b]
    BY <2>1, <2>4
  <2>6. size[b] = m /\ m \in Indexable
    <3>1. size[b] \in Nat /\ size[t] \in Nat /\ size[u] \in Nat /\ size[u] \in Indexable
      BY <1>2, <2>3, <2>5
    <3> QED
      BY <2>2, <2>3, <2>4, <2>5, <3>1
  <2>7. b = q[m][1] /\ Len(q[m]) \in Nat \ {0} /\ q[m] \in Seq(Chunk)
    <3>1. u \in Binned
      BY DEF Nodes
    <3>2. (\A v \in Nodes : size[v] = m => v = q[m][1]) /\ Len(q[m]) \in Nat \ {0} /\ q[m] \in Seq(Chunk)
      BY <2>2, <3>1, RingOf
    <3> QED
      BY <2>5, <2>6, <3>2
  <2>8. Queue(m) = q[m]
    BY <2>6, QueueIsRing
  <2>9. b = Head(Queue(m))
    BY <2>7, <2>8
  <2> QED
    BY <1>6, <1>9, <2>9 DEF b, sizes, m
<1> QED
  BY <1>8, <1>9

LEMMA FitIsBest == TreeSound => BestFit
<1> SUFFICES ASSUME TreeSound PROVE BestFit
  OBVIOUS
<1>1. PICK depth \in Depth, q \in Order : Sound(depth, q)
  BY DEF TreeSound
<1>2. Tries(depth)
  BY <1>1 DEF Sound
<1>3. ASSUME NEW nb \in LargeSizes
      PROVE  tmalloc_large(nb) = IF B!LargeFrom(AsHeap, nb) = {} THEN NoChunk
                                 ELSE Head(Queue(B!Smallest(B!LargeFrom(AsHeap, nb))))
  <2>1. PICK nodes \in SUBSET Nodes :
            /\ tmalloc_large(nb) = Best(nodes, nb, Minus(0, nb))
            /\ \A u \in Nodes : nb <= size[u] => \E t \in nodes : nb <= size[t] /\ size[t] <= size[u]
    <3>1. CASE nb \in Indexable
      BY <1>2, <3>1, AllSearched
    <3>2. CASE nb \notin Indexable
      BY <1>2, <3>2, NoneSuffices
    <3> QED
      BY <3>1, <3>2
  <2>2. PICK limit : limit = Minus(0, nb)
    OBVIOUS
  <2>3. Compares(nb, limit)
    BY <2>2, Remainders, LargeSizesAre
  <2>4. Best(nodes, nb, limit) = IF B!LargeFrom(AsHeap, nb) = {} THEN NoChunk
                                 ELSE Head(Queue(B!Smallest(B!LargeFrom(AsHeap, nb))))
    BY <1>1, <2>1, <2>3, FindsFirst
  <2> QED
    BY <2>1, <2>2, <2>4
<1>4. ASSUME Binned # {}
      PROVE  tmalloc_small = Head(Queue(B!Smallest(B!LargeFrom(AsHeap, MinLarge))))
  <2>1. PICK y \in Nodes : TRUE
    <3>1. PICK x \in Binned : TRUE
      BY <1>4
    <3>2. q[size[x]][1] \in Nodes
      BY <1>1, RingOf
    <3> QED
      BY <3>2
  <2>2. PICK nodes \in SUBSET Nodes :
            /\ tmalloc_small = Best(nodes, 0, Two[Bits])
            /\ \A u \in Nodes : \E t \in nodes : size[t] <= size[u]
    BY <1>2, <2>1, SmallSearched
  <2>3. PICK nb, limit, lo : nb = 0 /\ limit = Two[Bits] /\ lo = MinLarge
    OBVIOUS
  <2>4. \A a \in Indexable : lo <= a /\ nb <= a
    BY <2>3, LargeSizesAre DEF MinLarge
  <2>5. \A u \in Nodes : nb <= size[u]
    BY <1>2, <2>4, NodesAre
  <2>6. Compares(nb, limit)
    BY <2>3, Remainders
  <2>7. \A u \in Nodes : nb <= size[u] => \E t \in nodes : nb <= size[t] /\ size[t] <= size[u]
    BY <2>2, <2>5
  <2>8. /\ B!LargeFrom(AsHeap, lo) = {size[u] : u \in {t \in Nodes : nb <= size[t]}}
        /\ Best(nodes, nb, limit) = IF B!LargeFrom(AsHeap, lo) = {} THEN NoChunk
                                    ELSE Head(Queue(B!Smallest(B!LargeFrom(AsHeap, lo))))
    BY <1>1, <2>4, <2>6, <2>7, FindsFirst
  <2>9. B!LargeFrom(AsHeap, lo) # {}
    BY <2>1, <2>5, <2>8
  <2> QED
    BY <2>2, <2>3, <2>8, <2>9
<1> QED
  BY <1>3, <1>4 DEF BestFit

\* tmalloc_large and tmalloc_small find the oldest chunk of the smallest size that
\* suffices, wherever in the trees it is, and fail only if there is none.
THEOREM SearchesFindTheBest == ChunkSizes \subseteq Indexable => (Spec => []BestFit)
  BY TreesStaySound, FitIsBest, PTL
=============================================================================
