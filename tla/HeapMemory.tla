---------------------------- MODULE HeapMemory -----------------------------
(***************************************************************************)
(* What the code of the heap does to its memory, for any granularity, size *)
(* of the address space and thresholds: when a heap is sound, and that it  *)
(* stays sound when chunks are split, merged, binned, resized and freed.   *)
(* HeapProofs goes on with segments and with the theorems.                 *)
(***************************************************************************)
EXTENDS Heap, Integers, SequenceTheorems, NaturalsInduction, WellFoundedInduction, TLAPS

----------------------------------------------------------------------------
(* The fields of a heap, and what the primitive operations do to them.     *)

HeadSet == [size : Int, cinuse : BOOLEAN, pinuse : BOOLEAN]
SegSet == [base : Int, size : Int, rec : Int]

HeapSet ==
    [head : [Addr -> HeadSet], foot : [Addr -> Int], bin : [Sizes -> Seq(Int)],
     dv : Int, dvsize : Int, top : Int, topsize : Int, segs : Seq(SegSet),
     footprint : Int, max_footprint : Int, footprint_limit : Int,
     trim_check : Int, release_checks : Int, least_addr : Int, aborted : BOOLEAN]

SameVictim(g, h) == g.dv = h.dv /\ g.dvsize = h.dvsize
SameTop(g, h) == g.top = h.top /\ g.topsize = h.topsize

\* All that the operations on chunks leave alone.
SameSystem(g, h) ==
    /\ g.segs = h.segs /\ g.footprint = h.footprint /\ g.max_footprint = h.max_footprint
    /\ g.footprint_limit = h.footprint_limit /\ g.release_checks = h.release_checks
    /\ g.least_addr = h.least_addr

\* A step that changes headers and feet only.
MemoryStep(g, h) ==
    /\ g \in HeapSet /\ g.bin = h.bin /\ SameVictim(g, h) /\ SameTop(g, h) /\ SameSystem(g, h)
    /\ g.trim_check = h.trim_check /\ g.aborted = h.aborted

\* The heads that are written.
UsedHead(s) == [size |-> s, cinuse |-> TRUE, pinuse |-> TRUE]
FreeHead(s) == [size |-> s, cinuse |-> FALSE, pinuse |-> TRUE]
FakeHead == [size |-> TopFoot, cinuse |-> FALSE, pinuse |-> FALSE]
InUseHead(s, x) == [size |-> s, cinuse |-> TRUE, pinuse |-> x.pinuse]
BehindUsed(x) == [x EXCEPT !.pinuse = TRUE]
BehindFree(x) == [x EXCEPT !.pinuse = FALSE]

LEMMA Heads ==
  /\ \A s \in Int : UsedHead(s) \in HeadSet /\ FreeHead(s) \in HeadSet
  /\ \A s \in Int, x \in HeadSet : InUseHead(s, x) \in HeadSet
  /\ \A x \in HeadSet : BehindUsed(x) \in HeadSet /\ BehindFree(x) \in HeadSet
  /\ FakeHead \in HeadSet /\ Blank \in HeadSet /\ Fence \in HeadSet
<1>1. ASSUME NEW s \in Int
      PROVE  UsedHead(s) \in HeadSet /\ FreeHead(s) \in HeadSet
  BY DEF HeadSet, UsedHead, FreeHead
<1>2. ASSUME NEW s \in Int, NEW x \in HeadSet
      PROVE  InUseHead(s, x) \in HeadSet
  BY DEF HeadSet, InUseHead
<1>3. ASSUME NEW x \in HeadSet
      PROVE  BehindUsed(x) \in HeadSet /\ BehindFree(x) \in HeadSet
  BY DEF HeadSet, BehindUsed, BehindFree
<1>4. FakeHead \in HeadSet /\ Blank \in HeadSet /\ Fence \in HeadSet
  BY DEF HeadSet, FakeHead, Blank, Fence, TopFoot, SegRecord, MinChunk
<1> QED
  BY <1>1, <1>2, <1>3, <1>4

\* A field with another value at one address.
Put(f, p, x) == [f EXCEPT ![p] = x]

LEMMA PutType ==
  ASSUME NEW S, NEW f \in [Addr -> S], NEW p \in Addr, NEW x \in S
  PROVE  Put(f, p, x) \in [Addr -> S]
BY DEF Put

LEMMA PutValue ==
  ASSUME NEW f, NEW S, f \in [Addr -> S], NEW p \in Addr, NEW x
  PROVE  \A a \in Addr : Put(f, p, x)[a] = IF a = p THEN x ELSE f[a]
BY DEF Put

LEMMA Fields ==
  ASSUME NEW h \in HeapSet
  PROVE  h.head \in [Addr -> HeadSet] /\ h.foot \in [Addr -> Int]
BY DEF HeapSet

LEMMA HeadWritten ==
  ASSUME NEW h \in HeapSet, NEW p \in Addr, NEW new \in HeadSet
  PROVE  LET g == [h EXCEPT !.head = Put(h.head, p, new)]
         IN  MemoryStep(g, h) /\ g.foot = h.foot /\ g.head = Put(h.head, p, new)
<1>1. Put(h.head, p, new) \in [Addr -> HeadSet]
  BY PutType, Fields
<1> QED
  BY <1>1 DEF HeapSet, MemoryStep, SameVictim, SameTop, SameSystem

LEMMA FootWritten ==
  ASSUME NEW h \in HeapSet, NEW p \in Addr, NEW new \in Int
  PROVE  LET g == [h EXCEPT !.foot[p] = new]
         IN  MemoryStep(g, h) /\ g.head = h.head /\ g.foot = Put(h.foot, p, new)
<1>1. Put(h.foot, p, new) \in [Addr -> Int]
  BY PutType, Fields
<1>2. [h EXCEPT !.foot[p] = new] = [h EXCEPT !.foot = Put(h.foot, p, new)]
  BY DEF HeapSet, Put
<1> QED
  BY <1>1, <1>2 DEF HeapSet, MemoryStep, SameVictim, SameTop, SameSystem

LEMMA MemoryStepsCompose ==
  ASSUME NEW h, NEW g, NEW k, MemoryStep(g, h), MemoryStep(k, g)
  PROVE  MemoryStep(k, h)
BY DEF MemoryStep, SameVictim, SameTop, SameSystem

LEMMA SetUsedHead ==
  ASSUME NEW h \in HeapSet, NEW p \in Addr, NEW s \in Int
  PROVE  LET g == set_head(h, p, s, TRUE, TRUE)
         IN  MemoryStep(g, h) /\ g.foot = h.foot /\ g.head = Put(h.head, p, UsedHead(s))
<1> DEFINE g == set_head(h, p, s, TRUE, TRUE)
<1>1. g = [h EXCEPT !.head = Put(h.head, p, UsedHead(s))]
  BY DEF set_head, UsedHead, HeapSet, Put
<1>2. h.head[p] \in HeadSet
  BY Fields
<1> HIDE DEF g
<1>3. MemoryStep(g, h) /\ g.foot = h.foot /\ g.head = Put(h.head, p, UsedHead(s))
  BY <1>1, <1>2, HeadWritten, Heads
<1> QED
  BY <1>3 DEF g

LEMMA SetFreeHead ==
  ASSUME NEW h \in HeapSet, NEW p \in Addr, NEW s \in Int
  PROVE  LET g == set_head(h, p, s, FALSE, TRUE)
         IN  MemoryStep(g, h) /\ g.foot = h.foot /\ g.head = Put(h.head, p, FreeHead(s))
<1> DEFINE g == set_head(h, p, s, FALSE, TRUE)
<1>1. g = [h EXCEPT !.head = Put(h.head, p, FreeHead(s))]
  BY DEF set_head, FreeHead, HeapSet, Put
<1>2. h.head[p] \in HeadSet
  BY Fields
<1> HIDE DEF g
<1>3. MemoryStep(g, h) /\ g.foot = h.foot /\ g.head = Put(h.head, p, FreeHead(s))
  BY <1>1, <1>2, HeadWritten, Heads
<1> QED
  BY <1>3 DEF g

LEMMA SetFakeHead ==
  ASSUME NEW h \in HeapSet, NEW p \in Addr
  PROVE  LET g == set_head(h, p, TopFoot, FALSE, FALSE)
         IN  MemoryStep(g, h) /\ g.foot = h.foot /\ g.head = Put(h.head, p, FakeHead)
<1> DEFINE g == set_head(h, p, TopFoot, FALSE, FALSE)
<1>1. g = [h EXCEPT !.head = Put(h.head, p, FakeHead)]
  BY DEF set_head, FakeHead, HeapSet, Put
<1>2. h.head[p] \in HeadSet
  BY Fields
<1> HIDE DEF g
<1>3. MemoryStep(g, h) /\ g.foot = h.foot /\ g.head = Put(h.head, p, FakeHead)
  BY <1>1, <1>2, HeadWritten, Heads
<1> QED
  BY <1>3 DEF g

LEMMA SetInUseHead ==
  ASSUME NEW h \in HeapSet, NEW p \in Addr, NEW s \in Int
  PROVE  LET g == set_head(h, p, s, TRUE, h.head[p].pinuse)
         IN  MemoryStep(g, h) /\ g.foot = h.foot /\ g.head = Put(h.head, p, InUseHead(s, h.head[p]))
<1> DEFINE g == set_head(h, p, s, TRUE, h.head[p].pinuse)
<1>1. g = [h EXCEPT !.head = Put(h.head, p, InUseHead(s, h.head[p]))]
  BY DEF set_head, InUseHead, HeapSet, Put
<1>2. h.head[p] \in HeadSet
  BY Fields
<1> HIDE DEF g
<1>3. MemoryStep(g, h) /\ g.foot = h.foot /\ g.head = Put(h.head, p, InUseHead(s, h.head[p]))
  BY <1>1, <1>2, HeadWritten, Heads
<1> QED
  BY <1>3 DEF g

LEMMA Erase ==
  ASSUME NEW h \in HeapSet, NEW p \in Addr
  PROVE  LET g == erase(h, p)
         IN  MemoryStep(g, h) /\ g.head = Put(h.head, p, Blank) /\ g.foot = Put(h.foot, p, 0)
<1> DEFINE k == [h EXCEPT !.head = Put(h.head, p, Blank)]
<1>2. MemoryStep(k, h) /\ k.foot = h.foot /\ k.head = Put(h.head, p, Blank)
  BY Heads, HeadWritten
<1>3. erase(h, p) = [k EXCEPT !.foot[p] = 0]
  BY DEF erase, HeapSet, Put
<1> HIDE DEF k
<1>4. k \in HeapSet
  BY <1>2 DEF MemoryStep
<1> QED
  BY <1>2, <1>3, <1>4, FootWritten, MemoryStepsCompose

\* What the operations say of the chunk behind.
LEMMA TellUsed ==
  ASSUME NEW h \in HeapSet, NEW p \in Addr
  PROVE  LET g == [h EXCEPT !.head[p].pinuse = TRUE]
         IN  MemoryStep(g, h) /\ g.foot = h.foot /\ g.head = Put(h.head, p, BehindUsed(h.head[p]))
<1>1. h.head[p] \in HeadSet
  BY Fields
<1> DEFINE g == [h EXCEPT !.head[p].pinuse = TRUE]
<1>3. g = [h EXCEPT !.head = Put(h.head, p, BehindUsed(h.head[p]))]
  BY DEF HeapSet, Put, BehindUsed
<1> HIDE DEF g
<1>4. MemoryStep(g, h) /\ g.foot = h.foot /\ g.head = Put(h.head, p, BehindUsed(h.head[p]))
  BY <1>1, <1>3, HeadWritten, Heads
<1> QED
  BY <1>4 DEF g

LEMMA TellFree ==
  ASSUME NEW h \in HeapSet, NEW p \in Addr
  PROVE  LET g == [h EXCEPT !.head[p].pinuse = FALSE]
         IN  MemoryStep(g, h) /\ g.foot = h.foot /\ g.head = Put(h.head, p, BehindFree(h.head[p]))
<1>1. h.head[p] \in HeadSet
  BY Fields
<1> DEFINE g == [h EXCEPT !.head[p].pinuse = FALSE]
<1>3. g = [h EXCEPT !.head = Put(h.head, p, BehindFree(h.head[p]))]
  BY DEF HeapSet, Put, BehindFree
<1> HIDE DEF g
<1>4. MemoryStep(g, h) /\ g.foot = h.foot /\ g.head = Put(h.head, p, BehindFree(h.head[p]))
  BY <1>1, <1>3, HeadWritten, Heads
<1> QED
  BY <1>4 DEF g

LEMMA SetInuse ==
  ASSUME NEW h \in HeapSet, NEW p \in Addr, NEW s \in Int, s > 0, p + s \in Addr
  PROVE  LET g == set_inuse(h, p, s)
         IN  /\ MemoryStep(g, h) /\ g.foot = h.foot
             /\ g.head = Put(Put(h.head, p, InUseHead(s, h.head[p])), p + s, BehindUsed(h.head[p + s]))
<1> DEFINE k == set_head(h, p, s, TRUE, h.head[p].pinuse)
<1>2. MemoryStep(k, h) /\ k.foot = h.foot /\ k.head = Put(h.head, p, InUseHead(s, h.head[p]))
  BY SetInUseHead
<1>3. set_inuse(h, p, s) = [k EXCEPT !.head[p + s].pinuse = TRUE]
  BY DEF set_inuse
<1> HIDE DEF k
<1>4. k \in HeapSet /\ k.head[p + s] = h.head[p + s]
  <2>1. p + s # p
    BY DEF Addr
  <2> QED
    BY <1>2, <2>1, Fields DEF MemoryStep, Put
<1> QED
  BY <1>2, <1>3, <1>4, TellUsed, MemoryStepsCompose

LEMMA SetInuseAndPinuse ==
  ASSUME NEW h \in HeapSet, NEW p \in Addr, NEW s \in Int, s > 0, p + s \in Addr
  PROVE  LET g == set_inuse_and_pinuse(h, p, s)
         IN  /\ MemoryStep(g, h) /\ g.foot = h.foot
             /\ g.head = Put(Put(h.head, p, UsedHead(s)), p + s, BehindUsed(h.head[p + s]))
<1> DEFINE k == set_head(h, p, s, TRUE, TRUE)
<1>2. MemoryStep(k, h) /\ k.foot = h.foot /\ k.head = Put(h.head, p, UsedHead(s))
  BY SetUsedHead
<1>3. set_inuse_and_pinuse(h, p, s) = [k EXCEPT !.head[p + s].pinuse = TRUE]
  BY DEF set_inuse_and_pinuse
<1> HIDE DEF k
<1>4. k \in HeapSet /\ k.head[p + s] = h.head[p + s]
  <2>1. p + s # p
    BY DEF Addr
  <2> QED
    BY <1>2, <2>1, Fields DEF MemoryStep, Put
<1> QED
  BY <1>2, <1>3, <1>4, TellUsed, MemoryStepsCompose

LEMMA SetInuseOnly ==
  ASSUME NEW h \in HeapSet, NEW p \in Addr, NEW s \in Int
  PROVE  LET g == set_size_and_pinuse_of_inuse_chunk(h, p, s)
         IN  MemoryStep(g, h) /\ g.foot = h.foot /\ g.head = Put(h.head, p, UsedHead(s))
BY SetUsedHead DEF set_size_and_pinuse_of_inuse_chunk

LEMMA SetFree ==
  ASSUME NEW h \in HeapSet, NEW p \in Addr, NEW s \in Int, p + s \in Addr
  PROVE  LET g == set_size_and_pinuse_of_free_chunk(h, p, s)
         IN  /\ MemoryStep(g, h) /\ g.head = Put(h.head, p, FreeHead(s))
             /\ g.foot = Put(h.foot, p + s, s)
<1> DEFINE k == set_head(h, p, s, FALSE, TRUE)
<1>2. MemoryStep(k, h) /\ k.foot = h.foot /\ k.head = Put(h.head, p, FreeHead(s))
  BY SetFreeHead
<1>3. set_size_and_pinuse_of_free_chunk(h, p, s) = [k EXCEPT !.foot[p + s] = s]
  BY DEF set_size_and_pinuse_of_free_chunk
<1> HIDE DEF k
<1>4. k \in HeapSet
  BY <1>2 DEF MemoryStep
<1> QED
  BY <1>2, <1>3, <1>4, FootWritten, MemoryStepsCompose

LEMMA SetFreeWithPinuse ==
  ASSUME NEW h \in HeapSet, NEW p \in Addr, NEW s \in Int, NEW n \in Addr, n = p + s
  PROVE  LET g == set_free_with_pinuse(h, p, s, n)
         IN  /\ MemoryStep(g, h)
             /\ g.head = Put(Put(h.head, n, BehindFree(h.head[n])), p, FreeHead(s))
             /\ g.foot = Put(h.foot, n, s)
<1> DEFINE k == [h EXCEPT !.head[n].pinuse = FALSE]
<1>2. MemoryStep(k, h) /\ k.foot = h.foot /\ k.head = Put(h.head, n, BehindFree(h.head[n]))
  BY TellFree
<1>3. set_free_with_pinuse(h, p, s, n) = set_size_and_pinuse_of_free_chunk(k, p, s)
  BY DEF set_free_with_pinuse
<1> HIDE DEF k
<1>4. k \in HeapSet
  BY <1>2 DEF MemoryStep
<1> QED
  BY <1>2, <1>3, <1>4, SetFree, MemoryStepsCompose

----------------------------------------------------------------------------
(* Bins: what is in the list of a size, and that nothing is in it twice.   *)

Elems(list) == {list[i] : i \in DOMAIN list}

OnceEach(list) == \A i, j \in DOMAIN list : i # j => list[i] # list[j]

InBin(h, s, a) == a \in Elems(h.bin[s])

BinsOnce(h) == \A s \in Sizes : OnceEach(h.bin[s])

\* A step that changes bins only.
BinStep(g, h) ==
    /\ g \in HeapSet /\ g.head = h.head /\ g.foot = h.foot
    /\ SameVictim(g, h) /\ SameTop(g, h) /\ SameSystem(g, h)
    /\ g.trim_check = h.trim_check

LEMMA Prepended ==
  ASSUME NEW list \in Seq(Int), NEW p \in Int, p \notin Elems(list), OnceEach(list)
  PROVE  /\ <<p>> \o list \in Seq(Int) /\ OnceEach(<<p>> \o list)
         /\ Elems(<<p>> \o list) = Elems(list) \cup {p}
<1> DEFINE new == <<p>> \o list
<1>1. /\ new \in Seq(Int) /\ Len(new) = Len(list) + 1
      /\ \A i \in 1 .. Len(list) + 1 : new[i] = IF i = 1 THEN p ELSE list[i - 1]
  OBVIOUS
<1>2. DOMAIN new = 1 .. Len(list) + 1 /\ DOMAIN list = 1 .. Len(list) /\ Len(list) \in Nat
  BY <1>1
<1> HIDE DEF new
<1>3. OnceEach(new)
  <2> SUFFICES ASSUME NEW i \in DOMAIN new, NEW j \in DOMAIN new, i < j
               PROVE  new[i] # new[j]
    BY <1>2 DEF OnceEach
  <2>1. j - 1 \in DOMAIN list /\ new[j] = list[j - 1]
    BY <1>1, <1>2, SMTT(60)
  <2>2. CASE i = 1
    BY <1>1, <1>2, <2>1, <2>2 DEF Elems
  <2>3. CASE i # 1
    <3>1. i \in 1 .. Len(list) + 1 /\ j \in 1 .. Len(list) + 1
      BY <1>2
    <3>2. new[i] = list[i - 1]
      BY <1>1, <2>3, <3>1
    <3>3. i - 1 # j - 1 /\ i - 1 \in 1 .. Len(list)
      BY <1>2, <2>3, <3>1
    <3> QED
      BY <1>2, <2>1, <3>2, <3>3 DEF OnceEach
  <2> QED
    BY <2>2, <2>3
<1>4. ASSUME NEW a \in Elems(new)
      PROVE  a \in Elems(list) \cup {p}
  <2>1. PICK i \in DOMAIN new : a = new[i]
    BY DEF Elems
  <2>2. CASE i = 1
    BY <1>1, <1>2, <2>1, <2>2
  <2>3. CASE i # 1
    <3>1. i - 1 \in DOMAIN list /\ a = list[i - 1]
      BY <1>1, <1>2, <2>1, <2>3, SMTT(60)
    <3> QED
      BY <3>1 DEF Elems
  <2> QED
    BY <2>2, <2>3
<1>5. p \in Elems(new)
  <2>1. 1 \in DOMAIN new /\ new[1] = p
    BY <1>1, <1>2
  <2> QED
    BY <2>1 DEF Elems
<1>6. ASSUME NEW a \in Elems(list)
      PROVE  a \in Elems(new)
  <2>1. PICK i \in DOMAIN list : a = list[i]
    BY DEF Elems
  <2>2. i + 1 \in DOMAIN new /\ new[i + 1] = a
    BY <1>1, <1>2, <2>1, SMTT(60)
  <2> QED
    BY <2>2 DEF Elems
<1>7. new \in Seq(Int) /\ OnceEach(new) /\ Elems(new) = Elems(list) \cup {p}
  BY <1>1, <1>3, <1>4, <1>5, <1>6
<1> QED
  BY <1>7 DEF new

LEMMA Appended ==
  ASSUME NEW list \in Seq(Int), NEW p \in Int, p \notin Elems(list), OnceEach(list)
  PROVE  /\ Append(list, p) \in Seq(Int) /\ OnceEach(Append(list, p))
         /\ Elems(Append(list, p)) = Elems(list) \cup {p}
<1> DEFINE new == Append(list, p)
<1>1. /\ new \in Seq(Int) /\ Len(new) = Len(list) + 1
      /\ \A i \in 1 .. Len(list) + 1 : new[i] = IF i = Len(list) + 1 THEN p ELSE list[i]
  OBVIOUS
<1>2. DOMAIN new = 1 .. Len(list) + 1 /\ DOMAIN list = 1 .. Len(list) /\ Len(list) \in Nat
  BY <1>1
<1> HIDE DEF new
<1>3. OnceEach(new)
  <2> SUFFICES ASSUME NEW i \in DOMAIN new, NEW j \in DOMAIN new, i < j
               PROVE  new[i] # new[j]
    BY <1>2 DEF OnceEach
  <2>1. i \in DOMAIN list /\ new[i] = list[i]
    BY <1>1, <1>2, SMTT(60)
  <2>2. CASE j = Len(list) + 1
    BY <1>1, <1>2, <2>1, <2>2 DEF Elems
  <2>3. CASE j # Len(list) + 1
    BY <1>1, <1>2, <2>1, <2>3 DEF OnceEach
  <2> QED
    BY <2>2, <2>3
<1>4. ASSUME NEW a \in Elems(new)
      PROVE  a \in Elems(list) \cup {p}
  <2>1. PICK i \in DOMAIN new : a = new[i]
    BY DEF Elems
  <2>2. CASE i = Len(list) + 1
    BY <1>1, <1>2, <2>1, <2>2
  <2>3. CASE i # Len(list) + 1
    <3>1. i \in DOMAIN list /\ a = list[i]
      BY <1>1, <1>2, <2>1, <2>3
    <3> QED
      BY <3>1 DEF Elems
  <2> QED
    BY <2>2, <2>3
<1>5. p \in Elems(new)
  <2>1. Len(list) + 1 \in DOMAIN new /\ new[Len(list) + 1] = p
    BY <1>1, <1>2
  <2> QED
    BY <2>1 DEF Elems
<1>6. ASSUME NEW a \in Elems(list)
      PROVE  a \in Elems(new)
  <2>1. PICK i \in DOMAIN list : a = list[i]
    BY DEF Elems
  <2>2. i \in DOMAIN new /\ new[i] = a
    BY <1>1, <1>2, <2>1
  <2> QED
    BY <2>2 DEF Elems
<1>7. new \in Seq(Int) /\ OnceEach(new) /\ Elems(new) = Elems(list) \cup {p}
  BY <1>1, <1>3, <1>4, <1>5, <1>6
<1> QED
  BY <1>7 DEF new

LEMMA Removed ==
  ASSUME NEW list \in Seq(Int), NEW p \in Elems(list), OnceEach(list)
  PROVE  /\ Without(list, p) \in Seq(Int) /\ OnceEach(Without(list, p))
         /\ Elems(Without(list, p)) = Elems(list) \ {p}
<1> DEFINE new == Without(list, p)
           n == Len(list)
<1>1. n \in Nat /\ DOMAIN list = 1 .. n
  OBVIOUS
<1>2. PICK k \in 1 .. n : list[k] = p
  BY <1>1 DEF Elems
<1>3. \A i \in 1 .. n : list[i] = p <=> i = k
  BY <1>1, <1>2 DEF OnceEach
<1>4. /\ DOMAIN new = 1 .. n - 1
      /\ \A i \in 1 .. n - 1 : new[i] = IF k <= i THEN list[i + 1] ELSE list[i]
  <2>1. \A i \in 1 .. n - 1 : (\E j \in 1 .. i : list[j] = p) <=> k <= i
    BY <1>1, <1>2, <1>3
  <2> QED
    BY <1>1, <2>1 DEF Without
<1>5. new \in Seq(Int)
  <2>1. \A i \in 1 .. n - 1 : new[i] \in Int
    BY <1>1, <1>4
  <2>2. new = [i \in 1 .. n - 1 |-> new[i]]
    BY <1>4 DEF Without
  <2>3. n - 1 \in Nat
    BY <1>1, <1>2
  <2> HIDE DEF new, n
  <2>4. new \in [1 .. n - 1 -> Int]
    BY <2>1, <2>2
  <2> QED
    BY <2>3, <2>4
<1> HIDE DEF new, n
<1>6. OnceEach(new)
  <2> SUFFICES ASSUME NEW i \in 1 .. n - 1, NEW j \in 1 .. n - 1, i # j
               PROVE  new[i] # new[j]
    BY <1>4 DEF OnceEach
  <2> DEFINE From(x) == IF k <= x THEN x + 1 ELSE x
  <2>1. new[i] = list[From(i)] /\ new[j] = list[From(j)]
    BY <1>4
  <2>2. From(i) \in 1 .. n /\ From(j) \in 1 .. n /\ From(i) # From(j)
    BY <1>1, <1>2
  <2> HIDE DEF From
  <2> QED
    BY <1>1, <2>1, <2>2 DEF OnceEach
<1>7. ASSUME NEW a \in Elems(new)
      PROVE  a \in Elems(list) \ {p}
  <2>1. PICK i \in 1 .. n - 1 : a = new[i]
    BY <1>4 DEF Elems
  <2>2. CASE k <= i
    <3>1. i + 1 \in 1 .. n /\ i + 1 # k /\ a = list[i + 1]
      BY <1>1, <1>2, <1>4, <2>1, <2>2
    <3> QED
      BY <1>1, <1>3, <3>1 DEF Elems
  <2>3. CASE ~(k <= i)
    <3>1. i \in 1 .. n /\ i # k /\ a = list[i]
      BY <1>1, <1>2, <1>4, <2>1, <2>3
    <3> QED
      BY <1>1, <1>3, <3>1 DEF Elems
  <2> QED
    BY <2>2, <2>3
<1>8. ASSUME NEW a \in Elems(list), a # p
      PROVE  a \in Elems(new)
  <2>1. PICK i \in 1 .. n : a = list[i]
    BY <1>1 DEF Elems
  <2>2. i # k
    BY <1>2, <1>8, <2>1
  <2>3. CASE i < k
    <3>1. i \in 1 .. n - 1 /\ new[i] = a
      BY <1>1, <1>2, <1>4, <2>1, <2>3
    <3> QED
      BY <1>4, <3>1 DEF Elems
  <2>4. CASE i > k
    <3>1. i - 1 \in 1 .. n - 1 /\ new[i - 1] = a
      BY <1>1, <1>2, <1>4, <2>1, <2>4
    <3> QED
      BY <1>4, <3>1 DEF Elems
  <2> QED
    BY <1>1, <1>2, <2>2, <2>3, <2>4
<1>9. new \in Seq(Int) /\ OnceEach(new) /\ Elems(new) = Elems(list) \ {p}
  BY <1>5, <1>6, <1>7, <1>8
<1> QED
  BY <1>9 DEF new

LEMMA ListWritten ==
  ASSUME NEW h \in HeapSet, NEW s \in Sizes, NEW list \in Seq(Int)
  PROVE  LET g == [h EXCEPT !.bin = [h.bin EXCEPT ![s] = list]]
         IN  /\ BinStep(g, h) /\ g.aborted = h.aborted
             /\ \A t \in Sizes : g.bin[t] = IF t = s THEN list ELSE h.bin[t]
<1>1. [h.bin EXCEPT ![s] = list] \in [Sizes -> Seq(Int)]
  BY DEF HeapSet
<1>2. \A t \in Sizes : [h.bin EXCEPT ![s] = list][t] = IF t = s THEN list ELSE h.bin[t]
  BY DEF HeapSet
<1> QED
  BY <1>1, <1>2 DEF HeapSet, BinStep, SameVictim, SameTop, SameSystem

LEMMA Requires ==
  ASSUME NEW h \in HeapSet, NEW c, c
  PROVE  Require(h, c) = h
BY DEF Require

LEMMA InsertChunk ==
  ASSUME NEW h \in HeapSet, NEW p \in Int, NEW s \in Sizes, BinsOnce(h), ~InBin(h, s, p)
  PROVE  LET g == insert_chunk(h, p, s)
         IN  /\ BinStep(g, h) /\ g.aborted = h.aborted /\ BinsOnce(g)
             /\ \A t \in Sizes : \A a : InBin(g, t, a) <=> InBin(h, t, a) \/ (t = s /\ a = p)
<1> DEFINE g == insert_chunk(h, p, s)
           list == h.bin[s]
<1>1. list \in Seq(Int) /\ OnceEach(list) /\ p \notin Elems(list)
  BY DEF HeapSet, BinsOnce, InBin
<1>2. \E new \in Seq(Int) : /\ g = [h EXCEPT !.bin = [h.bin EXCEPT ![s] = new]]
                            /\ OnceEach(new) /\ Elems(new) = Elems(list) \cup {p}
  <2>1. CASE is_small(s)
    <3>1. g = [h EXCEPT !.bin = [h.bin EXCEPT ![s] = <<p>> \o list]]
      BY <2>1 DEF insert_chunk, insert_small_chunk, HeapSet
    <3> QED
      BY <1>1, <3>1, Prepended
  <2>2. CASE ~is_small(s)
    <3>1. g = [h EXCEPT !.bin = [h.bin EXCEPT ![s] = Append(list, p)]]
      BY <2>2 DEF insert_chunk, insert_large_chunk, HeapSet
    <3> QED
      BY <1>1, <3>1, Appended
  <2> QED
    BY <2>1, <2>2
<1>3. PICK new \in Seq(Int) : /\ g = [h EXCEPT !.bin = [h.bin EXCEPT ![s] = new]]
                              /\ OnceEach(new) /\ Elems(new) = Elems(list) \cup {p}
  BY <1>2
<1> HIDE DEF g
<1>4. /\ BinStep(g, h) /\ g.aborted = h.aborted
      /\ \A t \in Sizes : g.bin[t] = IF t = s THEN new ELSE h.bin[t]
  BY <1>3, ListWritten, ZenonT(60)
<1>5. BinsOnce(g)
  BY <1>3, <1>4 DEF BinsOnce
<1>6. \A t \in Sizes : \A a : InBin(g, t, a) <=> InBin(h, t, a) \/ (t = s /\ a = p)
  BY <1>3, <1>4 DEF InBin
<1> QED
  BY <1>4, <1>5, <1>6 DEF g

LEMMA UnlinkChunk ==
  ASSUME NEW h \in HeapSet, NEW p, NEW s \in Sizes, BinsOnce(h), InBin(h, s, p)
  PROVE  LET g == unlink_chunk(h, p, s)
         IN  /\ BinStep(g, h) /\ g.aborted = h.aborted /\ BinsOnce(g) /\ g = unlink_large_chunk(h, p, s)
             /\ \A t \in Sizes : \A a : InBin(g, t, a) <=> InBin(h, t, a) /\ ~(t = s /\ a = p)
<1> DEFINE g == unlink_chunk(h, p, s)
           list == h.bin[s]
           new == Without(list, p)
<1>1. list \in Seq(Int) /\ OnceEach(list) /\ p \in Elems(list)
  BY DEF HeapSet, BinsOnce, InBin
<1>2. Binned(h, p, s)
  BY <1>1 DEF Binned, Elems
<1>3. g = [h EXCEPT !.bin = [h.bin EXCEPT ![s] = new]] /\ g = unlink_large_chunk(h, p, s)
  BY <1>2 DEF unlink_chunk, unlink_small_chunk, unlink_large_chunk, Require, HeapSet
<1>4. new \in Seq(Int) /\ OnceEach(new) /\ Elems(new) = Elems(list) \ {p}
  BY <1>1, Removed
<1> HIDE DEF g, new
<1>5. /\ BinStep(g, h) /\ g.aborted = h.aborted
      /\ \A t \in Sizes : g.bin[t] = IF t = s THEN new ELSE h.bin[t]
  BY <1>3, <1>4, ListWritten, SMTT(60)
<1>6. BinsOnce(g)
  BY <1>4, <1>5 DEF BinsOnce
<1>7. \A t \in Sizes : \A a : InBin(g, t, a) <=> InBin(h, t, a) /\ ~(t = s /\ a = p)
  BY <1>4, <1>5 DEF InBin
<1> QED
  BY <1>3, <1>5, <1>6, <1>7 DEF g

----------------------------------------------------------------------------
(* The memory.  A header is the head of a chunk in use, of a free chunk    *)
(* (top is one), of the fence that ends a segment, or of the fake chunk    *)
(* behind top.                                                             *)

\* The end of the address space; its first unit is never mapped.
Limit == (Regions + 1) * Granularity

IsHeader(h, a) == a \in Addr /\ h.head[a] # Blank
IsUsed(h, a) == a \in Addr /\ h.head[a].cinuse /\ h.head[a] # Fence
IsFree(h, a) == a \in Addr /\ ~h.head[a].cinuse /\ h.head[a].pinuse
IsChunk(h, a) == IsUsed(h, a) \/ IsFree(h, a)

Size(h, a) == h.head[a].size
Past(h, a) == a + h.head[a].size
InSeg(h, i, a) == segment_holds(h.segs[i], a)

\* Each segment lies in the address space, apart from all others, at or above
\* least_addr, has room for more than the foot of top and starts with a header.
Segments(h) ==
    /\ h.segs \in Seq(SegSet)
    /\ \A i \in Segs(h) :
          /\ h.segs[i].base >= Granularity /\ h.segs[i].size > 5
          /\ EndOf(h.segs[i]) <= Limit
          /\ h.least_addr <= h.segs[i].base
          /\ IsHeader(h, h.segs[i].base)
    /\ \A i, j \in Segs(h) :
          i # j => EndOf(h.segs[i]) <= h.segs[j].base \/ EndOf(h.segs[j]) <= h.segs[i].base

\* The head of what is neither in use nor behind a chunk in use, and how large
\* chunks are.
Kinds(h) ==
    \A a \in Addr :
        /\ ~h.head[a].cinuse /\ ~h.head[a].pinuse /\ h.head[a] # Blank =>
              h.head[a] = FakeHead /\ h.top # Null /\ a = h.top + h.topsize
        /\ IsChunk(h, a) => Size(h, a) > 0 /\ (a # h.top => Size(h, a) >= MinChunk)

\* Headers lie in segments; behind a chunk there is a header of its segment, and
\* none before; behind another header there is none in its segment.
Tiles(h) ==
    /\ \A a \in Addr : IsHeader(h, a) => \E i \in Segs(h) : InSeg(h, i, a)
    /\ \A a \in Addr : IsChunk(h, a) =>
          /\ IsHeader(h, Past(h, a))
          /\ \A i \in Segs(h) : InSeg(h, i, a) => InSeg(h, i, Past(h, a))
          /\ \A b \in Addr : IsHeader(h, b) /\ a < b => Past(h, a) <= b
    /\ \A a \in Addr : IsHeader(h, a) /\ ~IsChunk(h, a) =>
          \A b \in Addr, i \in Segs(h) :
              IsHeader(h, b) /\ InSeg(h, i, a) /\ InSeg(h, i, b) => b <= a

\* What a chunk says of its neighbours.
TagsAgree(h) ==
    \A a \in Addr :
        /\ IsUsed(h, a) => h.head[Past(h, a)].pinuse
        /\ IsFree(h, a) =>
              /\ ~h.head[Past(h, a)].pinuse
              /\ a # h.top => h.head[Past(h, a)].cinuse /\ h.foot[Past(h, a)] = Size(h, a)
        /\ h.head[a].cinuse /\ ~h.head[a].pinuse =>
              LET b == a - h.foot[a] IN IsFree(h, b) /\ b # h.top /\ Size(h, b) = h.foot[a]

\* Feet are only behind free chunks, and at the addresses in X, which users are
\* about to write to.
FeetIn(h, X) ==
    \A a \in Addr : h.foot[a] # 0 => a \in X \/ (h.head[a].cinuse /\ ~h.head[a].pinuse)

\* Top is the last chunk of the first segment.
TopIn(h) ==
    IF h.segs = <<>> THEN h.top = Null /\ h.topsize = 0
    ELSE /\ IsFree(h, h.top) /\ InSeg(h, 1, h.top) /\ Size(h, h.top) = h.topsize
         /\ h.top + h.topsize = EndOf(h.segs[1]) - TopFoot
         /\ h.head[h.top + h.topsize] = FakeHead

Memory(h, X) ==
    /\ h \in HeapSet
    /\ Segments(h) /\ Kinds(h) /\ Tiles(h) /\ TagsAgree(h) /\ FeetIn(h, X) /\ TopIn(h)

\* From h to g the chunks from header q to header e have become one or two, of
\* which l is the last.
Recut(h, g, q, l, e) ==
    /\ g \in HeapSet /\ g.segs = h.segs /\ g.least_addr = h.least_addr
    /\ q \in Addr /\ l \in Addr /\ e \in Addr /\ q <= l /\ l < e
    /\ Size(g, l) = e - l
    /\ q < l => Size(g, q) = l - q /\ (g.head[l].pinuse <=> g.head[q].cinuse)
    /\ g.head[q].pinuse <=> h.head[q].pinuse
    /\ Size(g, e) = Size(h, e) /\ (g.head[e].cinuse <=> h.head[e].cinuse)
    /\ g.head[e].pinuse <=> g.head[l].cinuse
    /\ \A a \in Addr : /\ q < a /\ a < e /\ a # l => g.head[a] = Blank /\ g.foot[a] = 0
                       /\ a < q \/ e < a => g.head[a] = h.head[a] /\ g.foot[a] = h.foot[a]
    /\ g.foot[q] = h.foot[q]
    /\ q < l => g.foot[l] = IF g.head[q].cinuse THEN 0 ELSE l - q
    /\ ~g.head[l].cinuse /\ g.top # l => g.foot[e] = e - l
    /\ IF q <= h.top /\ h.top < e THEN g.top = l /\ g.topsize = e - l ELSE SameTop(g, h)

\* When that keeps the memory sound.
Recuttable(h, g, q, l, e) ==
    /\ IsChunk(h, q) /\ IsHeader(h, e)
    /\ \A i \in Segs(h) : InSeg(h, i, q) => InSeg(h, i, e)
    /\ q < l => l - q >= MinChunk
    /\ e - l >= MinChunk \/ (q <= h.top /\ h.top < e)
    /\ ~g.head[q].cinuse => h.head[q].pinuse
    /\ q < l => g.head[q].cinuse \/ g.head[l].cinuse
    /\ IF g.head[l].cinuse THEN h.head[e] # FakeHead
       ELSE h.head[e] # Fence /\ (h.head[e].cinuse \/ (q <= h.top /\ h.top < e))

LEMMA Places ==
  /\ Granularity \in Int /\ Granularity > 7 /\ Limit \in Int /\ Limit - Granularity \in Int
  /\ Addr = 0 .. Limit /\ Sizes = 0 .. Limit - Granularity /\ Limit >= Granularity
  /\ MinLarge \in Int /\ MinLarge > 2
<1>1. Granularity \in Int /\ Granularity > 7 /\ Regions \in Nat
  BY GranularityAssumption, RegionsAssumption DEF TopFoot, SegRecord, MinChunk
<1>2. Limit \in Int /\ Regions * Granularity \in Int /\ Regions * Granularity >= 0
  BY <1>1 DEF Limit
<1>3. Regions * Granularity = Limit - Granularity
  BY <1>1 DEF Limit
<1> QED
  BY <1>1, <1>2, <1>3, LargeAssumption DEF Limit, Addr, Sizes, MinChunk

LEMMA HeadTypes ==
  ASSUME NEW h \in HeapSet, NEW a \in Addr
  PROVE  /\ h.head[a] \in HeadSet /\ Size(h, a) \in Int /\ h.foot[a] \in Int
         /\ h.head[a].cinuse \in BOOLEAN /\ h.head[a].pinuse \in BOOLEAN
<1>1. h.head[a] \in HeadSet /\ h.foot[a] \in Int
  BY Fields
<1> QED
  BY <1>1 DEF HeadSet, Size

\* A head is what its three parts are.
LEMMA SameHead ==
  ASSUME NEW x \in HeadSet, NEW y \in HeadSet,
         x.size = y.size, x.cinuse <=> y.cinuse, x.pinuse <=> y.pinuse
  PROVE  x = y
BY DEF HeadSet

LEMMA FixedHeads ==
  /\ Blank \in HeadSet /\ Fence \in HeadSet /\ FakeHead \in HeadSet
  /\ Blank.size = 0 /\ ~Blank.cinuse /\ ~Blank.pinuse
  /\ Fence.size = 0 /\ Fence.cinuse /\ Fence.pinuse
  /\ FakeHead.size = TopFoot /\ ~FakeHead.cinuse /\ ~FakeHead.pinuse /\ TopFoot = 5
<1>1. Blank \in HeadSet /\ Fence \in HeadSet /\ FakeHead \in HeadSet
  BY Heads
<1> QED
  BY <1>1 DEF Blank, Fence, FakeHead, TopFoot, SegRecord, MinChunk

LEMMA ChunkIsHeader ==
  ASSUME NEW h, NEW a, IsChunk(h, a)
  PROVE  a \in Addr /\ IsHeader(h, a) /\ h.head[a] # FakeHead /\ h.head[a] # Fence /\ h.head[a] # Blank
BY FixedHeads DEF IsChunk, IsUsed, IsFree, IsHeader

LEMMA SegTypes ==
  ASSUME NEW h, h.segs \in Seq(SegSet), NEW i \in Segs(h)
  PROVE  /\ h.segs[i] \in SegSet /\ h.segs[i].base \in Int /\ h.segs[i].size \in Int
         /\ h.segs[i].rec \in Int /\ EndOf(h.segs[i]) \in Int /\ i \in Int
<1>1. h.segs[i] \in SegSet /\ i \in Int
  BY DEF Segs
<1> QED
  BY <1>1 DEF SegSet, EndOf

\* An address lies in one segment.
LEMMA OneSegment ==
  ASSUME NEW h, Segments(h), NEW a \in Int, NEW b \in Int, NEW c \in Int, a <= b, b <= c,
         NEW i \in Segs(h), NEW j \in Segs(h), InSeg(h, i, a), InSeg(h, i, c), InSeg(h, j, b)
  PROVE  i = j
<1>1. SUFFICES ASSUME i # j
               PROVE  FALSE
  OBVIOUS
<1>2. EndOf(h.segs[i]) <= h.segs[j].base \/ EndOf(h.segs[j]) <= h.segs[i].base
  BY <1>1 DEF Segments
<1>3. /\ h.segs[i].base \in Int /\ EndOf(h.segs[i]) \in Int
      /\ h.segs[j].base \in Int /\ EndOf(h.segs[j]) \in Int
  BY SegTypes DEF Segments
<1> QED
  BY <1>2, <1>3 DEF InSeg, segment_holds

\* Top is the last chunk in front of e if it is among those that are cut.
LEMMA TopBefore ==
  ASSUME NEW h, NEW X, Memory(h, X), NEW q \in Addr, NEW e \in Addr,
         IsHeader(h, q), IsHeader(h, e),
         \A i \in Segs(h) : InSeg(h, i, q) => InSeg(h, i, e),
         q <= h.top, h.top < e
  PROVE  h.segs # <<>> /\ e = h.top + h.topsize /\ h.head[e] = FakeHead
<1>1. PICK i \in Segs(h) : InSeg(h, i, q) /\ InSeg(h, i, e)
  BY DEF Memory, Tiles
<1>2. h.segs # <<>> /\ h.segs \in Seq(SegSet) /\ 1 \in Segs(h)
  BY <1>1 DEF Segs, Memory, Segments
<1>3. IsFree(h, h.top) /\ InSeg(h, 1, h.top) /\ Past(h, h.top) = h.top + h.topsize
      /\ h.head[h.top + h.topsize] = FakeHead /\ h.top \in Addr
  BY <1>2 DEF Memory, TopIn, Past, Size, IsFree
<1>5. i = 1
  BY <1>1, <1>2, <1>3, OneSegment DEF Memory, Addr
<1>6. IsHeader(h, h.top + h.topsize) /\ h.top + h.topsize <= e /\ InSeg(h, 1, h.top + h.topsize)
  BY <1>2, <1>3 DEF Memory, Tiles, IsChunk
<1>7. ~IsChunk(h, h.top + h.topsize)
  BY <1>3, FixedHeads DEF IsChunk, IsUsed, IsFree
<1>8. e <= h.top + h.topsize
  BY <1>1, <1>2, <1>5, <1>6, <1>7 DEF Memory, Tiles, IsHeader
<1> QED
  BY <1>2, <1>3, <1>6, <1>8 DEF Addr, IsHeader

\* The headers after a cut: those outside, which stay what they were, and the
\* new chunks.
Outside(q, e, a) == a < q \/ e <= a

Kept(h, g, q, e) ==
    \A a \in Addr : Outside(q, e, a) =>
        /\ IsHeader(g, a) <=> IsHeader(h, a)
        /\ IsUsed(g, a) <=> IsUsed(h, a)
        /\ IsFree(g, a) <=> IsFree(h, a)
        /\ Size(g, a) = Size(h, a)
        /\ g.head[a].cinuse <=> h.head[a].cinuse
        /\ g.head[a] = FakeHead <=> h.head[a] = FakeHead
        /\ a # e => g.head[a] = h.head[a]

NewOnes(g, q, l, e) ==
    /\ IsChunk(g, q) /\ IsChunk(g, l)
    /\ \A a \in Addr : IsHeader(g, a) => Outside(q, e, a) \/ a = q \/ a = l

LEMMA RecutPlaces ==
  ASSUME NEW h, NEW g, NEW X, Memory(h, X), NEW q, NEW l, NEW e, Recut(h, g, q, l, e)
  PROVE  /\ q \in Addr /\ l \in Addr /\ e \in Addr /\ q \in Int /\ l \in Int /\ e \in Int
         /\ q <= l /\ l < e /\ g.segs = h.segs /\ g \in HeapSet /\ h \in HeapSet
         /\ h.top \in Int /\ h.topsize \in Int
         /\ \A a \in Addr : a \in Int
<1>1. h \in HeapSet
  BY DEF Memory
<1>2. h.top \in Int /\ h.topsize \in Int
  BY <1>1 DEF HeapSet
<1> QED
  BY <1>1, <1>2 DEF Recut, Addr

LEMMA RecutHeaders ==
  ASSUME NEW h, NEW g, NEW X, Memory(h, X), NEW q, NEW l, NEW e, Recut(h, g, q, l, e), Recuttable(h, g, q, l, e)
  PROVE  NewOnes(g, q, l, e) /\ Kept(h, g, q, e)
<1> USE DEF NewOnes, Kept
<1>1. /\ q \in Addr /\ l \in Addr /\ e \in Addr /\ q \in Int /\ l \in Int /\ e \in Int
      /\ q <= l /\ l < e /\ g \in HeapSet /\ h \in HeapSet
  BY DEF Recut, Addr, Memory
<1>2. \A a \in Addr : a \in Int
  BY DEF Addr
<1>3. Size(g, l) > 0 /\ Size(g, q) > 0 /\ Size(g, q) \in Int /\ Size(g, l) \in Int
  BY <1>1 DEF Recut
<1>4. IsChunk(g, q)
  <2>1. CASE g.head[q].cinuse
    BY <1>1, <1>3, <2>1, FixedHeads DEF IsChunk, IsUsed, Size
  <2>2. CASE ~g.head[q].cinuse
    BY <1>1, <2>2 DEF IsChunk, IsFree, Recut, Recuttable
  <2> QED
    BY <2>1, <2>2
<1>5. IsChunk(g, l)
  <2>1. CASE g.head[l].cinuse
    BY <1>1, <1>3, <2>1, FixedHeads DEF IsChunk, IsUsed, Size
  <2>2. CASE ~g.head[l].cinuse /\ q < l
    BY <1>1, <2>2 DEF IsChunk, IsFree, Recut, Recuttable
  <2>3. CASE q = l
    BY <1>4, <2>3
  <2> QED
    BY <1>1, <2>1, <2>2, <2>3
<1>6. \A a \in Addr : IsHeader(g, a) => Outside(q, e, a) \/ a = q \/ a = l
  BY <1>1, <1>2 DEF Recut, Outside, IsHeader
<1>7. \A a \in Addr : Outside(q, e, a) /\ a # e => g.head[a] = h.head[a]
  BY <1>1, <1>2 DEF Recut, Outside
<1>8. /\ g.head[e] \in HeadSet /\ h.head[e] \in HeadSet
      /\ g.head[e].size = h.head[e].size /\ (g.head[e].cinuse <=> h.head[e].cinuse)
      /\ (g.head[e].pinuse <=> g.head[l].cinuse)
  BY <1>1, HeadTypes DEF Recut, Size
<1>9. h.head[e] # Blank
  BY DEF Recuttable, IsHeader
<1>10. CASE h.head[e] = Fence
  <2>1. g.head[e].pinuse
    BY <1>8, <1>10 DEF Recuttable
  <2>2. g.head[e] = h.head[e]
    BY <1>8, <1>10, <2>1, FixedHeads, SameHead
  <2> QED
    BY <1>1, <1>3, <1>4, <1>5, <1>6, <1>7, <2>2 DEF IsHeader, IsUsed, IsFree, Size
<1>11. CASE h.head[e] = FakeHead
  <2>1. ~g.head[l].cinuse
    BY <1>11 DEF Recuttable
  <2>2. g.head[e] = h.head[e]
    BY <1>8, <1>11, <2>1, FixedHeads, SameHead
  <2> QED
    BY <1>1, <1>3, <1>4, <1>5, <1>6, <1>7, <2>2 DEF IsHeader, IsUsed, IsFree, Size
<1>12. CASE IsUsed(h, e)
  <2>1. h.head[e].cinuse /\ h.head[e].size > 0
    BY <1>12 DEF IsUsed, Memory, Kinds, IsChunk, Size
  <2>2. /\ g.head[e] # Fence /\ g.head[e] # Blank /\ g.head[e] # FakeHead /\ h.head[e] # FakeHead
        /\ g.head[e].cinuse
    BY <1>8, <2>1, FixedHeads
  <2>3. IsHeader(g, e) /\ IsHeader(h, e) /\ IsUsed(g, e) /\ ~IsFree(h, e) /\ ~IsFree(g, e)
    BY <1>1, <1>9, <2>1, <2>2 DEF IsHeader, IsUsed, IsFree
  <2> QED
    BY <1>1, <1>3, <1>4, <1>5, <1>6, <1>7, <1>8, <1>12, <2>2, <2>3 DEF IsHeader, IsUsed, IsFree, Size
<1>13. CASE IsFree(h, e)
  <2>1. g.head[l].cinuse /\ ~h.head[e].cinuse /\ h.head[e].pinuse
    <3>1. ~h.head[e].cinuse /\ h.head[e].pinuse /\ h.head[e] # FakeHead /\ h.head[e] # Fence
      BY <1>13, FixedHeads DEF IsFree
    <3>2. ~(q <= h.top /\ h.top < e)
      BY <1>1, <3>1, TopBefore, ChunkIsHeader DEF Recuttable
    <3> QED
      BY <3>1, <3>2 DEF Recuttable
  <2>2. g.head[e] = h.head[e]
    BY <1>8, <2>1, SameHead
  <2> QED
    BY <1>1, <1>3, <1>4, <1>5, <1>6, <1>7, <2>2 DEF IsHeader, IsUsed, IsFree, Size
<1> QED
  <2>1. h.head[e].cinuse \in BOOLEAN /\ h.head[e].pinuse \in BOOLEAN
    BY <1>1, HeadTypes
  <2>2. h.head[e] = Fence \/ h.head[e] = FakeHead \/ IsUsed(h, e) \/ IsFree(h, e)
    BY <1>1, <1>9, <2>1 DEF IsUsed, IsFree, Memory, Kinds
  <2> QED
    BY <1>10, <1>11, <1>12, <1>13, <2>2

\* Top is the last of the new chunks or has not been touched.
TopMoves(h, g, q, l, e) ==
    \/ /\ q <= h.top /\ h.top < e /\ g.top = l /\ g.topsize = e - l /\ h.segs # <<>>
       /\ e = h.top + h.topsize /\ h.head[e] = FakeHead /\ ~g.head[l].cinuse
    \/ Outside(q, e, h.top) /\ g.top = h.top /\ g.topsize = h.topsize

LEMMA RecutTop ==
  ASSUME NEW h, NEW g, NEW X, Memory(h, X), NEW q, NEW l, NEW e, Recut(h, g, q, l, e), Recuttable(h, g, q, l, e)
  PROVE  TopIn(g) /\ TopMoves(h, g, q, l, e)
<1> USE DEF TopMoves
<1>1. /\ q \in Addr /\ l \in Addr /\ e \in Addr /\ q \in Int /\ l \in Int /\ e \in Int
      /\ q <= l /\ l < e /\ g.segs = h.segs /\ h.top \in Int /\ g \in HeapSet /\ h.topsize \in Int
  BY RecutPlaces
<1>0. NewOnes(g, q, l, e) /\ Kept(h, g, q, e)
  BY RecutHeaders
<1>2. CASE q <= h.top /\ h.top < e
  <2>1. h.segs # <<>> /\ e = h.top + h.topsize /\ h.head[e] = FakeHead
    BY <1>1, <1>2, TopBefore, ChunkIsHeader DEF Recuttable
  <2>2. g.top = l /\ g.topsize = e - l /\ ~g.head[l].cinuse
    BY <1>2, <2>1 DEF Recut, Recuttable
  <2>3. IsFree(g, l)
    BY <1>0, <1>1, <2>2 DEF NewOnes, IsChunk, IsUsed
  <2>4. g.head[e] = FakeHead
    BY <1>0, <1>1, <2>1 DEF Kept, Outside
  <2>5. 1 \in Segs(h) /\ InSeg(h, 1, h.top) /\ e = EndOf(h.segs[1]) - TopFoot
    BY <2>1 DEF Memory, TopIn, Segs, Segments
  <2>6. PICK i \in Segs(h) : InSeg(h, i, q) /\ InSeg(h, i, e)
    BY ChunkIsHeader DEF Memory, Tiles, Recuttable
  <2>7. i = 1
    BY <1>1, <1>2, <2>5, <2>6, OneSegment DEF Memory
  <2>8. InSeg(h, 1, l)
    <3>1. h.segs[1].base \in Int /\ EndOf(h.segs[1]) \in Int
      BY <2>5, SegTypes DEF Memory, Segments
    <3> QED
      BY <1>1, <2>6, <2>7, <3>1 DEF InSeg, segment_holds
  <2>9. Size(g, l) = e - l
    BY DEF Recut
  <2> QED
    BY <1>1, <1>2, <2>1, <2>2, <2>3, <2>4, <2>5, <2>8, <2>9 DEF TopIn, InSeg
<1>3. CASE ~(q <= h.top /\ h.top < e)
  <2>1. g.top = h.top /\ g.topsize = h.topsize /\ Outside(q, e, h.top)
    BY <1>1, <1>3 DEF Recut, SameTop, Outside
  <2>2. CASE h.segs = <<>>
    BY <1>1, <2>1, <2>2 DEF Memory, TopIn
  <2>3. CASE h.segs # <<>>
    <3>1. /\ IsFree(h, h.top) /\ InSeg(h, 1, h.top) /\ Size(h, h.top) = h.topsize
          /\ h.top + h.topsize = EndOf(h.segs[1]) - TopFoot
          /\ h.head[h.top + h.topsize] = FakeHead
      BY <2>3 DEF Memory, TopIn
    <3>2. h.top \in Addr /\ Past(h, h.top) = h.top + h.topsize /\ IsHeader(h, h.top + h.topsize)
      BY <3>1 DEF IsFree, Past, Size, Memory, Tiles, IsChunk
    <3>3. Outside(q, e, h.top + h.topsize)
      <4>1. h.top + h.topsize \in Int /\ h.top + h.topsize \in Addr
        BY <3>2 DEF IsHeader, Addr
      <4>2. CASE h.top < q
        BY <1>1, <3>1, <3>2, <4>1, <4>2, ChunkIsHeader DEF Memory, Tiles, Recuttable, IsChunk, Outside, IsHeader
      <4>3. CASE e <= h.top
        <5>1. Size(h, h.top) > 0
          BY <3>1 DEF Memory, Kinds, IsChunk, IsFree
        <5> QED
          BY <1>1, <3>1, <4>1, <4>3, <5>1 DEF Outside
      <4> QED
        BY <1>1, <2>1, <4>2, <4>3 DEF Outside
    <3>4. IsFree(g, h.top) /\ Size(g, h.top) = h.topsize /\ g.head[h.top + h.topsize] = FakeHead
      BY <1>0, <2>1, <3>1, <3>2, <3>3 DEF Kept, IsHeader
    <3> QED
      BY <1>1, <2>1, <2>3, <3>1, <3>4 DEF TopIn, InSeg
  <2> QED
    BY <2>1, <2>2, <2>3
<1> QED
  BY <1>2, <1>3

LEMMA RecutSegments ==
  ASSUME NEW h, NEW g, NEW X, Memory(h, X), NEW q, NEW l, NEW e, Recut(h, g, q, l, e), Recuttable(h, g, q, l, e)
  PROVE  Segments(g) /\ Kinds(g)
<1>1. /\ q \in Addr /\ l \in Addr /\ e \in Addr /\ q \in Int /\ l \in Int /\ e \in Int
      /\ q <= l /\ l < e /\ g.segs = h.segs /\ g \in HeapSet /\ \A a \in Addr : a \in Int
  BY RecutPlaces
<1>2. NewOnes(g, q, l, e) /\ Kept(h, g, q, e)
  BY RecutHeaders
<1>3. ASSUME NEW i \in Segs(h)
      PROVE  IsHeader(g, h.segs[i].base)
  <2>1. IsHeader(h, h.segs[i].base) /\ h.segs[i].base \in Addr /\ h.segs[i].base \in Int
    BY SegTypes DEF Memory, Segments, IsHeader
  <2>2. PICK j \in Segs(h) : InSeg(h, j, q) /\ InSeg(h, j, e)
    BY ChunkIsHeader DEF Memory, Tiles, Recuttable
  <2>3. CASE Outside(q, e, h.segs[i].base)
    BY <1>2, <2>1, <2>3 DEF Kept
  <2>4. CASE ~Outside(q, e, h.segs[i].base)
    <3>1. q <= h.segs[i].base /\ h.segs[i].base < e /\ h.segs[i].base \in Int
      BY <1>1, <2>1, <2>4 DEF Outside
    <3>2. InSeg(h, i, h.segs[i].base)
      BY <3>1, SegTypes DEF InSeg, segment_holds, Memory, Segments, EndOf
    <3>3. i = j
      BY <1>1, <2>2, <3>1, <3>2, OneSegment DEF Memory
    <3>4. h.segs[i].base = q
      BY <1>1, <2>2, <3>1, <3>3 DEF InSeg, segment_holds
    <3> QED
      BY <1>2, <3>4, ChunkIsHeader DEF NewOnes
  <2> QED
    BY <2>3, <2>4
<1>4. Segments(g)
  <2>1. g.least_addr = h.least_addr /\ Segs(g) = Segs(h)
    BY <1>1 DEF Recut, Segs
  <2> QED
    BY <1>1, <1>3, <2>1 DEF Segments, Memory
<1>5. TopMoves(h, g, q, l, e) /\ h.top \in Int
  BY RecutTop, RecutPlaces
<1>6. ASSUME NEW a \in Addr, ~g.head[a].cinuse, ~g.head[a].pinuse, g.head[a] # Blank
      PROVE  g.head[a] = FakeHead /\ g.top # Null /\ a = g.top + g.topsize
  <2>1. Outside(q, e, a)
    BY <1>2, <1>6 DEF NewOnes, IsHeader, IsChunk, IsUsed, IsFree
  <2>2. IsHeader(h, a) /\ ~IsFree(g, a) /\ ~h.head[a].cinuse
    BY <1>2, <1>6, <2>1 DEF Kept, IsHeader, IsFree
  <2>3. ~h.head[a].pinuse
    BY <1>2, <2>1, <2>2 DEF Kept, IsFree
  <2>4. h.head[a] = FakeHead /\ h.top # Null /\ a = h.top + h.topsize
    BY <2>2, <2>3 DEF Memory, Kinds, IsHeader
  <2>5. g.head[a] = FakeHead
    BY <1>2, <2>1, <2>4 DEF Kept
  <2>6. l # Null
    <3>1. PICK j \in Segs(h) : InSeg(h, j, q)
      BY ChunkIsHeader DEF Memory, Tiles, Recuttable
    <3>2. h.segs[j].base >= Granularity /\ h.segs[j].base \in Int /\ Granularity \in Int /\ Granularity > 0
      BY SegTypes, Places DEF Memory, Segments
    <3> QED
      BY <1>1, <3>1, <3>2 DEF InSeg, segment_holds, Null
  <2> QED
    BY <1>1, <1>5, <2>4, <2>5, <2>6 DEF TopMoves
<1>7. ASSUME NEW a \in Addr, IsChunk(g, a)
      PROVE  Size(g, a) > 0 /\ (a # g.top => Size(g, a) >= MinChunk)
  <2>1. CASE Outside(q, e, a)
    <3>1. IsChunk(h, a) /\ Size(g, a) = Size(h, a)
      BY <1>2, <1>7, <2>1 DEF Kept, IsChunk
    <3>2. a # g.top => a # h.top
      BY <1>1, <1>5, <2>1 DEF Outside, TopMoves
    <3> QED
      BY <3>1, <3>2 DEF Memory, Kinds
  <2>2. CASE a = l
    <3>1. Size(g, l) = e - l
      BY DEF Recut
    <3> QED
      BY <1>1, <1>5, <2>2, <3>1 DEF Recuttable, TopMoves, MinChunk, Outside
  <2>3. CASE a = q /\ q < l
    <3>1. Size(g, q) = l - q /\ l - q >= MinChunk
      BY <2>3 DEF Recut, Recuttable
    <3> QED
      BY <1>1, <2>3, <3>1 DEF MinChunk
  <2> QED
    BY <1>1, <1>2, <1>7, <2>1, <2>2, <2>3, ChunkIsHeader DEF NewOnes
<1> QED
  BY <1>4, <1>6, <1>7 DEF Kinds

LEMMA RecutTiles ==
  ASSUME NEW h, NEW g, NEW X, Memory(h, X), NEW q, NEW l, NEW e, Recut(h, g, q, l, e), Recuttable(h, g, q, l, e)
  PROVE  Tiles(g)
<1>1. /\ q \in Addr /\ l \in Addr /\ e \in Addr /\ q \in Int /\ l \in Int /\ e \in Int
      /\ q <= l /\ l < e /\ g.segs = h.segs /\ g \in HeapSet /\ \A a \in Addr : a \in Int
      /\ Segs(g) = Segs(h)
  BY RecutPlaces DEF Segs
<1>2. NewOnes(g, q, l, e) /\ Kept(h, g, q, e)
  BY RecutHeaders
<1>3. PICK j \in Segs(h) : InSeg(h, j, q) /\ InSeg(h, j, e)
  BY ChunkIsHeader DEF Memory, Tiles, Recuttable
<1>4. /\ \A a : \A i \in Segs(h) : InSeg(g, i, a) <=> InSeg(h, i, a)
      /\ \A a \in Int : q <= a /\ a <= e => InSeg(h, j, a)
  <2>1. h.segs[j].base \in Int /\ EndOf(h.segs[j]) \in Int
    BY SegTypes DEF Memory, Segments
  <2> QED
    BY <1>1, <1>3, <2>1 DEF InSeg, segment_holds
<1>5. IsHeader(g, q) /\ IsHeader(g, l) /\ IsHeader(g, e) /\ IsHeader(h, q) /\ IsHeader(h, e)
  BY <1>1, <1>2, ChunkIsHeader DEF NewOnes, Kept, Outside, Recuttable
<1>6. ASSUME NEW a \in Addr, IsHeader(g, a)
      PROVE  \E i \in Segs(g) : InSeg(g, i, a)
  <2>1. CASE Outside(q, e, a)
    <3>1. IsHeader(h, a)
      BY <1>2, <1>6, <2>1 DEF Kept
    <3> QED
      BY <1>1, <1>4, <3>1 DEF Memory, Tiles
  <2>2. CASE a = q \/ a = l
    BY <1>1, <1>4, <2>2
  <2> QED
    BY <1>2, <1>6, <2>1, <2>2 DEF NewOnes
<1>7. ASSUME NEW a \in Addr, IsChunk(g, a)
      PROVE  /\ IsHeader(g, Past(g, a))
             /\ \A i \in Segs(g) : InSeg(g, i, a) => InSeg(g, i, Past(g, a))
             /\ \A b \in Addr : IsHeader(g, b) /\ a < b => Past(g, a) <= b
  <2>1. CASE Outside(q, e, a)
    <3>1. IsChunk(h, a) /\ Past(g, a) = Past(h, a)
      BY <1>2, <1>7, <2>1 DEF Kept, IsChunk, Past, Size
    <3>2. /\ IsHeader(h, Past(h, a)) /\ Past(h, a) \in Addr
          /\ \A i \in Segs(h) : InSeg(h, i, a) => InSeg(h, i, Past(h, a))
          /\ \A b \in Addr : IsHeader(h, b) /\ a < b => Past(h, a) <= b
      BY <3>1 DEF Memory, Tiles, IsHeader
    <3>3. Size(h, a) > 0 /\ Past(h, a) = a + Size(h, a) /\ Size(h, a) \in Int
      BY <3>1, HeadTypes DEF Memory, Kinds, Past, Size
    <3>4. a < q => Past(h, a) <= q
      BY <1>1, <1>5, <3>2
    <3>5. Outside(q, e, Past(h, a)) \/ Past(h, a) = q
      BY <1>1, <2>1, <3>2, <3>3, <3>4 DEF Outside
    <3>6. IsHeader(g, Past(g, a))
      BY <1>2, <1>5, <3>1, <3>2, <3>5 DEF Kept
    <3>7. ASSUME NEW b \in Addr, IsHeader(g, b), a < b
          PROVE  Past(g, a) <= b
      <4>1. CASE Outside(q, e, b)
        BY <1>2, <3>1, <3>2, <3>7, <4>1 DEF Kept
      <4>2. CASE b = q \/ b = l
        <5>1. a < q /\ q <= b
          BY <1>1, <2>1, <3>7, <4>2 DEF Outside
        <5>2. Past(h, a) \in Int /\ b \in Int /\ Past(h, a) <= q
          BY <1>1, <3>2, <3>4, <5>1
        <5> QED
          BY <1>1, <3>1, <5>1, <5>2
      <4> QED
        BY <1>2, <3>7, <4>1, <4>2 DEF NewOnes
    <3> QED
      BY <1>1, <1>4, <3>1, <3>2, <3>6, <3>7
  <2>2. CASE a = l
    <3>1. Past(g, a) = e
      BY <1>1, <2>2 DEF Recut, Past, Size
    <3>2. ASSUME NEW i \in Segs(g), InSeg(g, i, a)
          PROVE  InSeg(g, i, e)
      BY <1>1, <1>3, <1>4, <2>2, <3>2, OneSegment DEF Memory
    <3>3. \A b \in Addr : IsHeader(g, b) /\ a < b => e <= b
      BY <1>1, <1>2, <2>2 DEF NewOnes, Outside
    <3> QED
      BY <1>5, <3>1, <3>2, <3>3
  <2>3. CASE a = q /\ q < l
    <3>1. Past(g, a) = l
      BY <1>1, <2>3 DEF Recut, Past, Size
    <3>2. ASSUME NEW i \in Segs(g), InSeg(g, i, a)
          PROVE  InSeg(g, i, l)
      BY <1>1, <1>3, <1>4, <2>3, <3>2, OneSegment DEF Memory
    <3>3. \A b \in Addr : IsHeader(g, b) /\ a < b => l <= b
      BY <1>1, <1>2, <2>3 DEF NewOnes, Outside
    <3> QED
      BY <1>5, <3>1, <3>2, <3>3
  <2> QED
    BY <1>1, <1>2, <1>7, <2>1, <2>2, <2>3, ChunkIsHeader DEF NewOnes
<1>8. ASSUME NEW a \in Addr, IsHeader(g, a), ~IsChunk(g, a),
             NEW b \in Addr, NEW i \in Segs(g), IsHeader(g, b), InSeg(g, i, a), InSeg(g, i, b)
      PROVE  b <= a
  <2>1. Outside(q, e, a)
    BY <1>2, <1>8 DEF NewOnes
  <2>2. IsHeader(h, a) /\ ~IsChunk(h, a)
    BY <1>2, <1>8, <2>1 DEF Kept, IsChunk
  <2>3. CASE Outside(q, e, b)
    BY <1>1, <1>2, <1>4, <1>8, <2>2, <2>3 DEF Kept, Memory, Tiles
  <2>4. CASE b = q \/ b = l
    <3>1. i = j
      BY <1>1, <1>3, <1>4, <1>8, <2>4, OneSegment DEF Memory
    <3>2. e <= a
      BY <1>1, <1>3, <1>4, <1>5, <1>8, <2>2, <3>1 DEF Memory, Tiles
    <3> QED
      BY <1>1, <2>4, <3>2
  <2> QED
    BY <1>2, <1>8, <2>3, <2>4 DEF NewOnes
<1> QED
  BY <1>6, <1>7, <1>8 DEF Tiles

LEMMA RecutTags ==
  ASSUME NEW h, NEW g, NEW X, Memory(h, X), NEW q, NEW l, NEW e, Recut(h, g, q, l, e), Recuttable(h, g, q, l, e)
  PROVE  TagsAgree(g)
<1>1. /\ q \in Addr /\ l \in Addr /\ e \in Addr /\ q \in Int /\ l \in Int /\ e \in Int
      /\ q <= l /\ l < e /\ g \in HeapSet /\ h \in HeapSet /\ \A a \in Addr : a \in Int
  BY RecutPlaces
<1>2. NewOnes(g, q, l, e) /\ Kept(h, g, q, e)
  BY RecutHeaders
<1>3. TopMoves(h, g, q, l, e) /\ h.top \in Int
  BY RecutTop, RecutPlaces
<1>4. \A a \in Addr : a < q \/ e < a => g.head[a] = h.head[a] /\ g.foot[a] = h.foot[a]
  BY DEF Recut
<1>5. ASSUME NEW a \in Addr, Outside(q, e, a), IsChunk(h, a)
      PROVE  /\ Past(g, a) = Past(h, a) /\ Past(h, a) \in Addr /\ Size(h, a) > 0
             /\ Past(h, a) < q \/ Past(h, a) = q \/ e < Past(h, a)
  <2>1. Past(g, a) = Past(h, a)
    BY <1>2, <1>5 DEF Kept, Past, Size
  <2>2. Past(h, a) \in Addr /\ Size(h, a) > 0 /\ Past(h, a) = a + Size(h, a) /\ Size(h, a) \in Int
    BY <1>1, <1>5, HeadTypes DEF Memory, Tiles, Kinds, IsHeader, Past, Size
  <2>3. a < q => Past(h, a) <= q
    BY <1>1, <1>5, ChunkIsHeader DEF Memory, Tiles, Recuttable
  <2> QED
    BY <1>1, <1>5, <2>1, <2>2, <2>3 DEF Outside
<1>6. g.head[q].pinuse <=> h.head[q].pinuse
  BY DEF Recut
<1>7. ASSUME NEW a \in Addr, IsUsed(g, a)
      PROVE  g.head[Past(g, a)].pinuse
  <2>1. CASE Outside(q, e, a)
    <3>1. IsUsed(h, a)
      BY <1>2, <1>7, <2>1 DEF Kept
    <3>2. h.head[Past(h, a)].pinuse
      BY <3>1 DEF Memory, TagsAgree
    <3> QED
      BY <1>4, <1>5, <1>6, <2>1, <3>1, <3>2 DEF IsChunk
  <2>2. CASE a = l
    <3>1. Past(g, a) = e /\ g.head[l].cinuse
      BY <1>1, <1>7, <2>2 DEF Recut, Past, Size, IsUsed
    <3> QED
      BY <3>1 DEF Recut
  <2>3. CASE a = q /\ q < l
    <3>1. Past(g, a) = l /\ g.head[q].cinuse
      BY <1>1, <1>7, <2>3 DEF Recut, Past, Size, IsUsed
    <3> QED
      BY <2>3, <3>1 DEF Recut
  <2> QED
    BY <1>1, <1>2, <1>7, <2>1, <2>2, <2>3, ChunkIsHeader DEF NewOnes, IsChunk
<1>8. ASSUME NEW a \in Addr, IsFree(g, a)
      PROVE  /\ ~g.head[Past(g, a)].pinuse
             /\ a # g.top => g.head[Past(g, a)].cinuse /\ g.foot[Past(g, a)] = Size(g, a)
  <2>1. CASE Outside(q, e, a)
    <3>1. IsFree(h, a) /\ Size(g, a) = Size(h, a)
      BY <1>2, <1>8, <2>1 DEF Kept
    <3>2. /\ ~h.head[Past(h, a)].pinuse
          /\ a # h.top => h.head[Past(h, a)].cinuse /\ h.foot[Past(h, a)] = Size(h, a)
      BY <3>1 DEF Memory, TagsAgree
    <3>3. /\ Past(g, a) = Past(h, a) /\ Past(h, a) \in Addr
          /\ Past(h, a) < q \/ Past(h, a) = q \/ e < Past(h, a)
      BY <1>5, <2>1, <3>1 DEF IsChunk
    <3>4. a # g.top => a # h.top
      BY <1>1, <1>3, <2>1 DEF TopMoves, Outside
    <3>5. CASE Past(h, a) = q
      <4>1. ~g.head[q].pinuse /\ g.head[q].cinuse
        BY <1>6, <3>2, <3>5 DEF Recuttable
      <4> QED
        BY <3>1, <3>2, <3>3, <3>4, <3>5, <4>1 DEF Recut
    <3>6. CASE Past(h, a) # q
      BY <1>4, <3>1, <3>2, <3>3, <3>4, <3>6
    <3> QED
      BY <3>5, <3>6
  <2>2. CASE a = l
    <3>1. Past(g, a) = e /\ ~g.head[l].cinuse /\ Size(g, l) = e - l
      BY <1>1, <1>8, <2>2 DEF Recut, Past, Size, IsFree
    <3>2. ~g.head[e].pinuse
      BY <3>1 DEF Recut
    <3>3. l # g.top => g.head[e].cinuse /\ g.foot[e] = e - l
      BY <1>1, <1>3, <3>1 DEF Recut, Recuttable, TopMoves, Outside
    <3> QED
      BY <2>2, <3>1, <3>2, <3>3
  <2>3. CASE a = q /\ q < l
    <3>1. Past(g, a) = l /\ ~g.head[q].cinuse /\ Size(g, q) = l - q
      BY <1>1, <1>8, <2>3 DEF Recut, Past, Size, IsFree
    <3> QED
      BY <2>3, <3>1 DEF Recut, Recuttable
  <2> QED
    BY <1>1, <1>2, <1>8, <2>1, <2>2, <2>3, ChunkIsHeader DEF NewOnes, IsChunk
<1>9. ASSUME NEW a \in Addr, g.head[a].cinuse, ~g.head[a].pinuse
      PROVE  LET b == a - g.foot[a] IN IsFree(g, b) /\ b # g.top /\ Size(g, b) = g.foot[a]
  <2>1. IsUsed(g, a)
    BY <1>9, FixedHeads DEF IsUsed
  <2>2. CASE (Outside(q, e, a) /\ a # e) \/ a = q
    <3> DEFINE b == a - g.foot[a]
    <3>1. g.foot[a] = h.foot[a] /\ ~h.head[a].pinuse
      BY <1>1, <1>4, <1>6, <1>9, <2>2 DEF Outside, Recut
    <3>2. h.head[a].cinuse
      <4>1. CASE a = q
        <5>1. IsUsed(h, q)
          BY <1>1, <3>1, <4>1 DEF Recuttable, IsChunk, IsFree
        <5> QED
          BY <4>1, <5>1 DEF IsUsed
      <4>2. CASE a # q
        <5>1. a < q \/ e < a
          BY <1>1, <2>2, <4>2 DEF Outside
        <5> QED
          BY <1>4, <1>9, <5>1
      <4> QED
        BY <4>1, <4>2
    <3>3. IsFree(h, b) /\ b # h.top /\ Size(h, b) = g.foot[a] /\ b \in Addr
      BY <3>1, <3>2 DEF Memory, TagsAgree, IsFree
    <3>4. Past(h, b) = a /\ b < a /\ b \in Int /\ a \in Int
      <4>1. Size(h, b) > 0 /\ g.foot[a] \in Int /\ a \in Int /\ b = a - g.foot[a]
        BY <1>1, <3>3, HeadTypes DEF Memory, Kinds, IsChunk
      <4>2. Past(h, b) = b + g.foot[a]
        BY <3>3 DEF Past, Size
      <4> HIDE DEF b
      <4> QED
        BY <3>3, <4>1, <4>2
    <3>5. Outside(q, e, b)
      <4> HIDE DEF b
      <4>1. IsChunk(h, b) /\ IsHeader(h, e) /\ IsHeader(h, q)
        BY <3>3, ChunkIsHeader DEF IsChunk, Recuttable
      <4>2. b < e => Past(h, b) <= e
        BY <1>1, <4>1, <3>3 DEF Memory, Tiles
      <4> QED
        BY <1>1, <2>2, <3>4, <4>2 DEF Outside
    <3>6. b # g.top
      BY <1>1, <1>3, <3>3, <3>5 DEF TopMoves, Outside
    <3> QED
      BY <1>2, <3>3, <3>5, <3>6 DEF Kept
  <2>3. CASE a = e
    <3>1. ~g.head[l].cinuse
      BY <1>9, <2>3 DEF Recut
    <3>2. h.head[e] # FakeHead
      BY <1>2, <1>9, <2>3, FixedHeads, <1>1 DEF Kept, Outside
    <3>3. l # g.top
      BY <1>1, <1>3, <3>2, <2>1, <2>3, ChunkIsHeader DEF TopMoves, Outside, Recuttable, Recut
    <3>4. g.foot[e] = e - l /\ Size(g, l) = e - l /\ IsFree(g, l)
      BY <1>2, <3>1, <3>3 DEF Recut, NewOnes, IsChunk, IsUsed
    <3> QED
      BY <1>1, <2>3, <3>3, <3>4
  <2>4. CASE a = l /\ q < l
    <3>1. ~g.head[q].cinuse /\ g.foot[l] = l - q /\ Size(g, q) = l - q
      BY <1>9, <2>4 DEF Recut
    <3>2. IsFree(g, q)
      BY <1>2, <3>1 DEF NewOnes, IsChunk, IsUsed
    <3>3. q # g.top
      BY <1>1, <1>3, <2>4 DEF TopMoves, Outside
    <3> QED
      BY <1>1, <2>4, <3>1, <3>2, <3>3
  <2> QED
    BY <1>1, <1>2, <2>1, <2>2, <2>3, <2>4, ChunkIsHeader DEF NewOnes, IsChunk
<1> QED
  BY <1>7, <1>8, <1>9 DEF TagsAgree

\* Which feet may hold something after a cut.
FeetLeft(g, X, Y, q, l, e) ==
    /\ \A a \in X : a \in Y \/ (q < a /\ a <= e)
    /\ g.foot[e] = 0 \/ e \in Y \/ (~g.head[l].cinuse /\ g.top # l)

LEMMA RecutFeet ==
  ASSUME NEW h, NEW g, NEW X, Memory(h, X), NEW q, NEW l, NEW e, Recut(h, g, q, l, e), Recuttable(h, g, q, l, e),
         NEW Y, FeetLeft(g, X, Y, q, l, e)
  PROVE  FeetIn(g, Y)
<1>1. /\ q \in Addr /\ l \in Addr /\ e \in Addr /\ q \in Int /\ l \in Int /\ e \in Int
      /\ q <= l /\ l < e /\ g \in HeapSet /\ h \in HeapSet /\ \A a \in Addr : a \in Int
  BY RecutPlaces
<1>2. NewOnes(g, q, l, e) /\ Kept(h, g, q, e)
  BY RecutHeaders
<1>3. TopMoves(h, g, q, l, e) /\ h.top \in Int
  BY RecutTop, RecutPlaces
<1>4. SUFFICES ASSUME NEW a \in Addr, g.foot[a] # 0, a \notin Y
               PROVE  g.head[a].cinuse /\ ~g.head[a].pinuse
  BY DEF FeetIn
<1>5. CASE a < q \/ e < a
  <2>1. g.head[a] = h.head[a] /\ h.foot[a] # 0 /\ a \notin X
    BY <1>1, <1>4, <1>5 DEF Recut, FeetLeft
  <2> QED
    BY <2>1 DEF Memory, FeetIn
<1>6. CASE a = q
  <2>1. h.foot[q] # 0 /\ q \notin X
    BY <1>1, <1>4, <1>6 DEF Recut, FeetLeft
  <2>2. h.head[q].cinuse /\ ~h.head[q].pinuse
    BY <1>1, <2>1 DEF Memory, FeetIn
  <2> QED
    BY <1>6, <2>2 DEF Recut, Recuttable
<1>7. CASE a = e
  <2>1. ~g.head[l].cinuse /\ g.top # l
    BY <1>4, <1>7 DEF FeetLeft
  <2>2. g.head[e].cinuse /\ ~g.head[e].pinuse
    BY <1>1, <1>2, <1>3, <2>1 DEF Recut, Recuttable, TopMoves, Outside, Kept
  <2> QED
    BY <1>7, <2>2
<1>8. CASE a = l /\ q < l
  <2>1. ~g.head[q].cinuse
    BY <1>4, <1>8 DEF Recut
  <2> QED
    BY <1>8, <2>1 DEF Recut, Recuttable
<1>9. CASE q < a /\ a < e /\ a # l
  BY <1>4, <1>9 DEF Recut
<1> QED
  BY <1>1, <1>5, <1>6, <1>7, <1>8, <1>9

LEMMA RecutMemory ==
  ASSUME NEW h, NEW g, NEW X, Memory(h, X), NEW q, NEW l, NEW e, Recut(h, g, q, l, e), Recuttable(h, g, q, l, e),
         NEW Y, FeetLeft(g, X, Y, q, l, e)
  PROVE  Memory(g, Y)
<1>1. g \in HeapSet
  BY DEF Recut
<1>2. TopIn(g)
  BY RecutTop
<1>3. Segments(g) /\ Kinds(g)
  BY RecutSegments
<1>4. Tiles(g)
  BY RecutTiles
<1>5. TagsAgree(g)
  BY RecutTags
<1>6. FeetIn(g, Y)
  BY RecutFeet
<1> QED
  BY <1>1, <1>2, <1>3, <1>4, <1>5, <1>6 DEF Memory

----------------------------------------------------------------------------
(* A heap that is sound: the users have the chunks in U, and the feet at X *)
(* may hold what an operation has left there.                              *)

\* The record of a segment other than the first is a chunk in use at the end of
\* the segment, in front of a fence.
Records(h) ==
    /\ h.segs # <<>> => h.segs[1].rec = Null
    /\ \A i \in Segs(h) \ {1} :
          /\ IsUsed(h, h.segs[i].rec) /\ InSeg(h, i, h.segs[i].rec)
          /\ Size(h, h.segs[i].rec) = SegRecord
          /\ h.head[h.segs[i].rec + SegRecord] = Fence
          /\ h.segs[i].rec + TopFoot <= EndOf(h.segs[i])

IsRecord(h, a) == \E i \in Segs(h) \ {1} : h.segs[i].rec = a

\* The chunks in use are those of users and the records.
Users(h, U) == \A a : /\ IsUsed(h, a) <=> a \in U \/ IsRecord(h, a)
                      /\ ~(a \in U /\ IsRecord(h, a))

Victim(h) ==
    IF h.dv = Null THEN h.dvsize = 0
    ELSE IsFree(h, h.dv) /\ h.dv # h.top /\ h.dvsize = Size(h, h.dv)

\* A bin holds the free chunks of its size, once.
Bins(h) ==
    /\ BinsOnce(h)
    /\ \A s \in Sizes : \A a :
          InBin(h, s, a) <=> IsFree(h, a) /\ a # h.dv /\ a # h.top /\ s = Size(h, a)

Sound(h, U, X) ==
    /\ Memory(h, X) /\ Records(h) /\ Users(h, U) /\ Victim(h) /\ Bins(h) /\ h.aborted = FALSE
    /\ \A x \in X : x \in Addr /\ h.head[x].pinuse

\* What a cut does to the designated victim, the bins and the users' chunks.
VictimCut(h, g, q, l, e) ==
    \/ SameVictim(g, h) /\ Outside(q, e, h.dv)
    \/ g.dv = Null /\ g.dvsize = 0
    \/ (g.dv = q \/ g.dv = l) /\ IsFree(g, g.dv) /\ g.dv # g.top /\ g.dvsize = Size(g, g.dv)

BinsCut(h, g, q, l, e) ==
    /\ BinsOnce(g)
    /\ \A s \in Sizes : \A a : InBin(g, s, a) <=>
          \/ InBin(h, s, a) /\ Outside(q, e, a)
          \/ a = h.dv /\ h.dv # Null /\ Outside(q, e, a) /\ g.dv # a /\ s = h.dvsize
          \/ (a = q \/ a = l) /\ IsFree(g, a) /\ a # g.dv /\ a # g.top /\ s = Size(g, a)

UsersCut(h, g, U, V, q, l, e) ==
    /\ \A i \in Segs(h) \ {1} : Outside(q, e, h.segs[i].rec)
    /\ \A a \in Addr : Outside(q, e, a) => (a \in V <=> a \in U)
    /\ \A a : a \in V => Outside(q, e, a) \/ a = q \/ a = l
    /\ \A a : a \in V => a \in Addr
    /\ q \in V <=> g.head[q].cinuse
    /\ l \in V <=> g.head[l].cinuse

\* Headers are above the first unit.
LEMMA HeaderPlace ==
  ASSUME NEW h, NEW X, Memory(h, X), NEW a, IsHeader(h, a)
  PROVE  /\ a \in Addr /\ a \in Int /\ a >= Granularity /\ a < Limit /\ a # Null
         /\ \E i \in Segs(h) : InSeg(h, i, a)
<1>1. PICK i \in Segs(h) : InSeg(h, i, a)
  BY DEF Memory, Tiles, IsHeader
<1>2. h.segs[i].base >= Granularity /\ EndOf(h.segs[i]) <= Limit
      /\ h.segs[i].base \in Int /\ EndOf(h.segs[i]) \in Int
  BY SegTypes DEF Memory, Segments
<1> QED
  BY <1>1, <1>2, Places DEF IsHeader, InSeg, segment_holds, Null

LEMMA RecutBins ==
  ASSUME NEW h, NEW g, NEW X, Memory(h, X), NEW q, NEW l, NEW e, Recut(h, g, q, l, e), Recuttable(h, g, q, l, e),
         Victim(h), Bins(h), VictimCut(h, g, q, l, e), BinsCut(h, g, q, l, e)
  PROVE  Victim(g) /\ Bins(g)
<1>1. /\ q \in Addr /\ l \in Addr /\ e \in Addr /\ q \in Int /\ l \in Int /\ e \in Int
      /\ q <= l /\ l < e /\ \A a \in Addr : a \in Int
  BY RecutPlaces
<1>2. NewOnes(g, q, l, e) /\ Kept(h, g, q, e)
  BY RecutHeaders
<1>3. TopMoves(h, g, q, l, e) /\ h.top \in Int
  BY RecutTop, RecutPlaces
<1>4. q > 0 /\ ~Outside(q, e, q) /\ ~Outside(q, e, l) /\ Outside(q, e, Null)
  BY <1>1, HeaderPlace, ChunkIsHeader, Places DEF Recuttable, Outside, Null
<1>5. Victim(g)
  <2>1. CASE SameVictim(g, h) /\ Outside(q, e, h.dv)
    <3>1. CASE h.dv = Null
      BY <2>1, <3>1 DEF Victim, SameVictim
    <3>2. CASE h.dv # Null
      <4>1. IsFree(h, h.dv) /\ h.dv # h.top /\ h.dvsize = Size(h, h.dv) /\ h.dv \in Addr
        BY <3>2 DEF Victim, IsFree
      <4>2. IsFree(g, h.dv) /\ Size(g, h.dv) = Size(h, h.dv)
        BY <1>2, <2>1, <4>1 DEF Kept
      <4>3. h.dv # g.top
        BY <1>3, <1>4, <2>1, <4>1 DEF TopMoves
      <4> QED
        BY <2>1, <3>2, <4>1, <4>2, <4>3 DEF Victim, SameVictim
    <3> QED
      BY <3>1, <3>2
  <2>2. CASE g.dv = Null /\ g.dvsize = 0
    BY <2>2 DEF Victim
  <2>3. CASE (g.dv = q \/ g.dv = l) /\ IsFree(g, g.dv) /\ g.dv # g.top /\ g.dvsize = Size(g, g.dv)
    <3>1. g.dv # Null
      BY <1>4, <2>3
    <3> QED
      BY <2>3, <3>1 DEF Victim
  <2> QED
    BY <2>1, <2>2, <2>3 DEF VictimCut
<1>6. ASSUME NEW s \in Sizes, NEW a
      PROVE  InBin(g, s, a) <=> IsFree(g, a) /\ a # g.dv /\ a # g.top /\ s = Size(g, a)
  <2>1. CASE a \in Addr /\ Outside(q, e, a)
    <3>1. /\ IsFree(g, a) <=> IsFree(h, a)
          /\ Size(g, a) = Size(h, a)
          /\ a # q /\ a # l
      BY <1>2, <1>4, <2>1 DEF Kept
    <3>2. a # g.top <=> a # h.top
      BY <1>1, <1>3, <2>1, <1>4 DEF TopMoves, Outside
    <3>3. InBin(g, s, a) <=> \/ InBin(h, s, a)
                             \/ a = h.dv /\ h.dv # Null /\ g.dv # a /\ s = h.dvsize
      BY <2>1, <3>1 DEF BinsCut
    <3>4. InBin(h, s, a) <=> IsFree(h, a) /\ a # h.dv /\ a # h.top /\ s = Size(h, a)
      BY DEF Bins
    <3>5. h.dv # Null => IsFree(h, h.dv) /\ h.dv # h.top /\ h.dvsize = Size(h, h.dv)
      BY DEF Victim
    <3>6. IsFree(h, a) => a # Null
      BY HeaderPlace, ChunkIsHeader DEF IsChunk
    <3>7. a = g.dv => a = h.dv \/ a = Null
      BY <3>1 DEF VictimCut, SameVictim
    <3> QED
      BY <3>1, <3>2, <3>3, <3>4, <3>5, <3>6, <3>7
  <2>2. CASE a = q \/ a = l
    BY <1>4, <2>2 DEF BinsCut
  <2>3. CASE ~(a \in Addr /\ Outside(q, e, a)) /\ ~(a = q \/ a = l)
    <3>1. ~IsFree(g, a)
      BY <1>2, <2>3, ChunkIsHeader DEF NewOnes, IsChunk
    <3>2. ~(InBin(h, s, a) /\ Outside(q, e, a))
      BY <2>3 DEF Bins, IsFree
    <3>3. ~(a = h.dv /\ h.dv # Null /\ Outside(q, e, a))
      BY <2>3 DEF Victim, IsFree
    <3> QED
      BY <2>3, <3>1, <3>2, <3>3 DEF BinsCut
  <2> QED
    BY <2>1, <2>2, <2>3
<1> QED
  BY <1>5, <1>6 DEF Bins, BinsCut

LEMMA RecutUsers ==
  ASSUME NEW h, NEW g, NEW X, Memory(h, X), NEW q, NEW l, NEW e, Recut(h, g, q, l, e), Recuttable(h, g, q, l, e),
         NEW U, NEW V, Users(h, U), Records(h), UsersCut(h, g, U, V, q, l, e)
  PROVE  Users(g, V) /\ Records(g)
<1>1. /\ q \in Addr /\ l \in Addr /\ e \in Addr /\ q \in Int /\ l \in Int /\ e \in Int
      /\ q <= l /\ l < e /\ \A a \in Addr : a \in Int
      /\ g.segs = h.segs /\ Segs(g) = Segs(h)
  BY RecutPlaces DEF Segs
<1>2. NewOnes(g, q, l, e) /\ Kept(h, g, q, e)
  BY RecutHeaders
<1>3. ASSUME NEW i \in Segs(h) \ {1}
      PROVE  /\ IsUsed(g, h.segs[i].rec) /\ InSeg(g, i, h.segs[i].rec)
             /\ Size(g, h.segs[i].rec) = SegRecord
             /\ g.head[h.segs[i].rec + SegRecord] = Fence
             /\ h.segs[i].rec + TopFoot <= EndOf(h.segs[i])
  <2> DEFINE r == h.segs[i].rec
  <2>1. /\ IsUsed(h, r) /\ InSeg(h, i, r) /\ Size(h, r) = SegRecord /\ h.head[r + SegRecord] = Fence
        /\ r + TopFoot <= EndOf(h.segs[i])
    BY DEF Records
  <2>2. Outside(q, e, r)
    BY DEF UsersCut
  <2>3. r \in Addr /\ Past(h, r) = r + SegRecord /\ r + SegRecord \in Addr /\ r \in Int /\ SegRecord = 3
    BY <1>1, <2>1 DEF Past, Size, IsUsed, SegRecord, Memory, Tiles, IsChunk, IsHeader
  <2>4. r < q => r + SegRecord <= q
    BY <1>1, <2>1, <2>3, ChunkIsHeader DEF Memory, Tiles, Recuttable, IsChunk
  <2>5. r + SegRecord # q
    BY <2>1, ChunkIsHeader DEF Recuttable
  <2> HIDE DEF r
  <2>6. Outside(q, e, r + SegRecord)
    BY <1>1, <2>2, <2>3, <2>4, <2>5 DEF Outside
  <2>7. g.head[r + SegRecord] = Fence
    <3>1. CASE r + SegRecord # e
      BY <1>2, <2>1, <2>3, <2>6, <3>1 DEF Kept
    <3>2. CASE r + SegRecord = e
      <4>1. FALSE
        BY <1>1, <2>2, <2>3, <3>2, <2>4, <2>5 DEF Outside
      <4> QED
        BY <4>1
    <3> QED
      BY <3>1, <3>2
  <2> QED
    BY <1>1, <1>2, <2>1, <2>2, <2>3, <2>7 DEF Kept, InSeg, r
<1>4. Records(g)
  BY <1>1, <1>3 DEF Records
<1>5. \A a : IsRecord(g, a) <=> IsRecord(h, a)
  BY <1>1 DEF IsRecord
<1>6. \A a : IsRecord(h, a) => a \in Addr /\ Outside(q, e, a)
  BY DEF IsRecord, UsersCut, Records, IsUsed
<1>7. ASSUME NEW a
      PROVE  (IsUsed(g, a) <=> a \in V \/ IsRecord(g, a)) /\ ~(a \in V /\ IsRecord(g, a))
  <2>1. CASE a \in Addr /\ Outside(q, e, a)
    <3>1. (IsUsed(g, a) <=> IsUsed(h, a)) /\ (a \in V <=> a \in U)
      BY <1>2, <2>1 DEF Kept, UsersCut
    <3> QED
      BY <1>5, <3>1 DEF Users
  <2>2. CASE a = q \/ a = l
    <3>1. ~IsRecord(g, a)
      BY <1>1, <1>5, <1>6, <2>2 DEF Outside
    <3>2. IsUsed(g, a) <=> g.head[a].cinuse
      BY <1>1, <1>2, <2>2, ChunkIsHeader DEF NewOnes, IsUsed
    <3> QED
      BY <2>2, <3>1, <3>2 DEF UsersCut
  <2>3. CASE ~(a \in Addr /\ Outside(q, e, a)) /\ ~(a = q \/ a = l)
    <3>1. ~IsUsed(g, a)
      BY <1>2, <2>3, ChunkIsHeader DEF NewOnes, IsChunk
    <3>2. a \notin V /\ ~IsRecord(g, a)
      BY <1>5, <1>6, <2>3 DEF UsersCut
    <3> QED
      BY <3>1, <3>2
  <2> QED
    BY <2>1, <2>2, <2>3
<1> QED
  BY <1>4, <1>7 DEF Users

\* Chunks of users stay as large as they were.
SameSizes(h, g, U) == \A a \in U : Size(g, a) = Size(h, a)

KeptSizes(h, g, U, q, e) == \A a \in U : Outside(q, e, a) => Size(g, a) = Size(h, a)

\* A cut that takes the heap from Sound(h, U, X) to Sound(g, V, Y).
SoundCut(h, g, U, X, V, Y, q, l, e) ==
    /\ Sound(h, U, X) /\ Recut(h, g, q, l, e) /\ Recuttable(h, g, q, l, e)
    /\ FeetLeft(g, X, Y, q, l, e)
    /\ \A y \in Y : y \in Addr /\ g.head[y].pinuse
    /\ VictimCut(h, g, q, l, e) /\ BinsCut(h, g, q, l, e) /\ UsersCut(h, g, U, V, q, l, e)
    /\ g.aborted = FALSE

LEMMA RecutSound ==
  ASSUME NEW h, NEW g, NEW U, NEW X, NEW V, NEW Y, NEW q, NEW l, NEW e, SoundCut(h, g, U, X, V, Y, q, l, e)
  PROVE  Sound(g, V, Y) /\ KeptSizes(h, g, U, q, e)
<1> USE DEF SoundCut
<1>1. Memory(h, X) /\ Records(h) /\ Users(h, U) /\ Victim(h) /\ Bins(h)
  BY DEF Sound
<1>2. Memory(g, Y)
  BY <1>1, RecutMemory
<1>3. Users(g, V) /\ Records(g)
  BY <1>1, RecutUsers
<1>4. Victim(g) /\ Bins(g)
  BY <1>1, RecutBins
<1>5. Kept(h, g, q, e)
  BY <1>1, RecutHeaders
<1>6. ASSUME NEW a \in U, Outside(q, e, a)
      PROVE  Size(g, a) = Size(h, a)
  BY <1>1, <1>5, <1>6 DEF Kept, Users, IsUsed
<1> QED
  BY <1>2, <1>3, <1>4, <1>6 DEF Sound, KeptSizes

\* Between a header and the next there is nothing.
Empty(h, q, e) == \A a \in Addr : q < a /\ a < e => h.head[a] = Blank /\ h.foot[a] = 0

LEMMA ChunkFacts ==
  ASSUME NEW h, NEW X, Memory(h, X), \A x \in X : h.head[x].pinuse, NEW q, IsChunk(h, q)
  PROVE  /\ q \in Addr /\ q \in Int /\ q > 0 /\ h \in HeapSet
         /\ Past(h, q) \in Addr /\ Past(h, q) \in Int /\ Past(h, q) = q + Size(h, q) /\ IsHeader(h, Past(h, q))
         /\ Size(h, q) \in Int /\ Size(h, q) > 0 /\ Size(h, q) \in Sizes /\ IsHeader(h, q)
         /\ (q # h.top => Size(h, q) >= 2)
         /\ Empty(h, q, Past(h, q))
         /\ \A i \in Segs(h) : InSeg(h, i, q) => InSeg(h, i, Past(h, q))
<1>1. q \in Addr /\ q \in Int /\ q >= Granularity /\ IsHeader(h, q)
  BY HeaderPlace, ChunkIsHeader
<1>2. IsHeader(h, Past(h, q)) /\ \A i \in Segs(h) : InSeg(h, i, q) => InSeg(h, i, Past(h, q))
  BY <1>1 DEF Memory, Tiles
<1>3. Past(h, q) \in Addr /\ Past(h, q) \in Int /\ Past(h, q) < Limit
  BY <1>2, HeaderPlace
<1>4. Size(h, q) \in Int /\ Size(h, q) > 0 /\ Past(h, q) = q + Size(h, q) /\ (q # h.top => Size(h, q) >= 2)
  BY <1>1, HeadTypes DEF Memory, Kinds, Past, Size, MinChunk
<1>5. Size(h, q) \in Sizes
  BY <1>1, <1>3, <1>4, Places
<1>6. ASSUME NEW a \in Addr, q < a, a < Past(h, q)
      PROVE  h.head[a] = Blank /\ h.foot[a] = 0
  <2>1. a \in Int
    BY Places
  <2>2. ~IsHeader(h, a)
    BY <1>1, <1>3, <1>6, <2>1 DEF Memory, Tiles
  <2>3. h.head[a] = Blank
    BY <2>2 DEF IsHeader
  <2> QED
    BY <2>3, FixedHeads DEF Memory, FeetIn
<1> QED
  BY <1>1, <1>2, <1>3, <1>4, <1>5, <1>6, Places DEF Empty, Memory

\* The part of a cut that is about heads and feet.
CutHeads(h, g, q, l, e) ==
    /\ q \in Addr /\ l \in Addr /\ e \in Addr /\ q <= l /\ l < e
    /\ Size(g, l) = e - l
    /\ q < l => Size(g, q) = l - q /\ (g.head[l].pinuse <=> g.head[q].cinuse)
    /\ g.head[q].pinuse <=> h.head[q].pinuse
    /\ Size(g, e) = Size(h, e) /\ (g.head[e].cinuse <=> h.head[e].cinuse)
    /\ g.head[e].pinuse <=> g.head[l].cinuse
    /\ \A a \in Addr : /\ q < a /\ a < e /\ a # l => g.head[a] = Blank /\ g.foot[a] = 0
                       /\ a < q \/ e < a => g.head[a] = h.head[a] /\ g.foot[a] = h.foot[a]
    /\ g.foot[q] = h.foot[q]
    /\ q < l => g.foot[l] = IF g.head[q].cinuse THEN 0 ELSE l - q

LEMMA CutIsRecut ==
  ASSUME NEW h, NEW k, NEW q, NEW l, NEW e, CutHeads(h, k, q, l, e),
         NEW g \in HeapSet, g.head = k.head, g.foot = k.foot, SameSystem(g, h),
         ~g.head[l].cinuse /\ g.top # l => g.foot[e] = e - l,
         IF q <= h.top /\ h.top < e THEN g.top = l /\ g.topsize = e - l ELSE SameTop(g, h)
  PROVE  Recut(h, g, q, l, e)
BY DEF CutHeads, Recut, SameSystem, Size

\* Memory between two headers is cut into a chunk in use and a free one, or
\* becomes one chunk in use.
LEMMA FitCut ==
  ASSUME NEW h \in HeapSet, NEW p \in Addr, NEW size \in Int, NEW nb \in Int,
         0 < nb, nb <= size, p + size \in Addr, Empty(h, p, p + size),
         h.head[p].pinuse, ~h.head[p + size].pinuse
  PROVE  LET g == fit(h, p, size, nb)
             l == IF size - nb < MinChunk THEN p ELSE p + nb
         IN  /\ MemoryStep(g, h) /\ CutHeads(h, g, p, l, p + size) /\ g.head[p].cinuse
             /\ IF size - nb < MinChunk THEN g.foot[p + size] = h.foot[p + size]
                ELSE ~g.head[l].cinuse /\ g.foot[p + size] = p + size - l
<1> DEFINE g == fit(h, p, size, nb)
           e == p + size
           r == p + nb
<1>1. p \in Int /\ e \in Int /\ e = p + size /\ MinChunk = 2 /\ \A a \in Addr : a \in Int
  BY Places DEF MinChunk
<1>2. /\ Size(h, p) \in Int /\ Size(h, e) \in Int /\ h.head[p] \in HeadSet /\ h.head[e] \in HeadSet
      /\ h.head \in [Addr -> HeadSet] /\ h.foot \in [Addr -> Int]
  BY HeadTypes, Fields
<1>3. CASE size - nb < MinChunk
  <2>1. g = set_inuse_and_pinuse(h, p, size)
    BY <1>3 DEF fit
  <2>2. MemoryStep(g, h) /\ g.foot = h.foot
        /\ g.head = Put(Put(h.head, p, UsedHead(size)), e, BehindUsed(h.head[e]))
    BY <2>1, SetInuseAndPinuse, <1>1
  <2>3. \A a \in Addr : g.head[a] = IF a = e THEN BehindUsed(h.head[e])
                                    ELSE IF a = p THEN UsedHead(size) ELSE h.head[a]
    BY <2>2, <1>2 DEF Put
  <2>4. /\ g.head[p] = UsedHead(size) /\ g.head[e] = BehindUsed(h.head[e])
        /\ \A a \in Addr : a # p /\ a # e => g.head[a] = h.head[a]
    BY <1>1, <2>3
  <2>5. /\ g.head[p].size = size /\ g.head[p].cinuse /\ g.head[p].pinuse
        /\ g.head[e].size = h.head[e].size /\ (g.head[e].cinuse <=> h.head[e].cinuse) /\ g.head[e].pinuse
    BY <2>4, <1>2 DEF UsedHead, BehindUsed, HeadSet
  <2> HIDE DEF g, e
  <2>6. CutHeads(h, g, p, p, e)
    BY <1>1, <2>2, <2>4, <2>5 DEF CutHeads, Size, Empty, e
  <2> QED
    BY <1>1, <1>3, <2>2, <2>5, <2>6 DEF g, e
<1>4. CASE ~(size - nb < MinChunk)
  <2> DEFINE k == set_size_and_pinuse_of_inuse_chunk(h, p, nb)
  <2>1. g = set_size_and_pinuse_of_free_chunk(k, r, size - nb)
    BY <1>4 DEF fit
  <2>2. MemoryStep(k, h) /\ k.foot = h.foot /\ k.head = Put(h.head, p, UsedHead(nb))
    BY SetInuseOnly
  <2>3. r \in Addr /\ r + (size - nb) = e /\ p < r /\ r < e /\ r \in Int /\ r = p + nb
    BY <1>1, <1>4, Places
  <2> HIDE DEF k, r, e
  <2>4. MemoryStep(g, k) /\ g.head = Put(k.head, r, FreeHead(size - nb)) /\ g.foot = Put(k.foot, e, size - nb)
    <3>1. k \in HeapSet /\ size - nb \in Int /\ r + (size - nb) \in Addr
      BY <2>2, <2>3, <1>1 DEF MemoryStep, e
    <3> HIDE DEF g
    <3> QED
      BY <2>1, <2>3, <3>1, SetFree
  <2>5. /\ \A a \in Addr : g.head[a] = IF a = r THEN FreeHead(size - nb)
                                       ELSE IF a = p THEN UsedHead(nb) ELSE h.head[a]
        /\ \A a \in Addr : g.foot[a] = IF a = e THEN size - nb ELSE h.foot[a]
    BY <2>2, <2>4, <1>2 DEF Put
  <2>6. /\ g.head[p] = UsedHead(nb) /\ g.head[r] = FreeHead(size - nb) /\ g.head[e] = h.head[e]
        /\ g.foot[e] = size - nb
        /\ \A a \in Addr : (a # p /\ a # r => g.head[a] = h.head[a]) /\ (a # e => g.foot[a] = h.foot[a])
    BY <1>1, <2>3, <2>5 DEF e
  <2>7. /\ g.head[p].size = nb /\ g.head[p].cinuse /\ g.head[p].pinuse
        /\ g.head[r].size = size - nb /\ ~g.head[r].cinuse /\ g.head[r].pinuse
    BY <2>6 DEF UsedHead, FreeHead
  <2>8. MemoryStep(g, h)
    BY <2>2, <2>4, MemoryStepsCompose
  <2> HIDE DEF g
  <2>9. CutHeads(h, g, p, r, e)
    BY <1>1, <2>3, <2>6, <2>7 DEF CutHeads, Size, Empty, e
  <2> QED
    BY <1>1, <1>4, <2>3, <2>6, <2>7, <2>8, <2>9 DEF g, e, r
<1> QED
  BY <1>3, <1>4

UsersAre(g, U, V, q, l, e) ==
    \A a : a \in V <=> \/ a \in U /\ Outside(q, e, a)
                       \/ a = q /\ g.head[q].cinuse
                       \/ a = l /\ g.head[l].cinuse

LEMMA UsersOfCut ==
  ASSUME NEW h, NEW g, NEW U, NEW X, Sound(h, U, X), NEW q \in Addr, NEW l \in Addr, NEW e \in Addr, q <= l, l < e,
         \A a : IsHeader(h, a) /\ q <= a /\ a < e => ~IsRecord(h, a),
         NEW V, UsersAre(g, U, V, q, l, e)
  PROVE  UsersCut(h, g, U, V, q, l, e)
<1> USE DEF UsersAre
<1>1. \A a \in Addr : a \in Int
  BY Places
<1>2. \A a \in U : a \in Addr
  BY DEF Sound, Users, IsUsed
<1>3. ASSUME NEW i \in Segs(h) \ {1}
      PROVE  Outside(q, e, h.segs[i].rec)
  <2>1. IsRecord(h, h.segs[i].rec)
    BY DEF IsRecord
  <2>2. IsHeader(h, h.segs[i].rec)
    BY ChunkIsHeader DEF Sound, Records, IsChunk
  <2>3. h.segs[i].rec \in Int
    BY <1>1, <2>2 DEF IsHeader
  <2> HIDE DEF IsRecord
  <2> QED
    BY <1>1, <2>1, <2>2, <2>3 DEF Outside
<1>4. ~Outside(q, e, q) /\ ~Outside(q, e, l)
  BY <1>1 DEF Outside
<1> QED
  BY <1>1, <1>2, <1>3, <1>4 DEF UsersCut

\* An allocation gives a chunk that nobody has, large enough for nb, and
\* leaves all others alone.
Allocated(h, r, U, nb) ==
    LET c == r.chunk
        g == r.heap
    IN  /\ c \notin U /\ c # Null
        /\ Sound(g, U \cup {c}, {Past(g, c)})
        /\ SameSizes(h, g, U) /\ g.head[c].pinuse
        /\ nb <= Size(g, c) /\ Size(g, c) < nb + MinChunk

LEMMA ReplaceDv ==
  ASSUME NEW h \in HeapSet, BinsOnce(h), NEW p \in Int, NEW s \in Int,
         h.dvsize # 0 => h.dvsize \in Sizes /\ h.dvsize < MinLarge /\ ~InBin(h, h.dvsize, h.dv)
  PROVE  LET g == replace_dv(h, p, s)
         IN  /\ g \in HeapSet /\ g.head = h.head /\ g.foot = h.foot /\ SameTop(g, h) /\ SameSystem(g, h)
             /\ g.aborted = h.aborted /\ g.dv = p /\ g.dvsize = s /\ BinsOnce(g)
             /\ \A t \in Sizes : \A a :
                   InBin(g, t, a) <=> InBin(h, t, a) \/ (h.dvsize # 0 /\ t = h.dvsize /\ a = h.dv)
<1> DEFINE k == IF h.dvsize # 0 THEN insert_chunk(h, h.dv, h.dvsize) ELSE h
           g == replace_dv(h, p, s)
<1>1. h.dv \in Int
  BY DEF HeapSet
<1>2. g = [k EXCEPT !.dv = p, !.dvsize = s]
  BY DEF replace_dv, insert_chunk, Require, is_small
<1>3. /\ k \in HeapSet /\ k.head = h.head /\ k.foot = h.foot /\ SameTop(k, h) /\ SameSystem(k, h)
      /\ k.aborted = h.aborted /\ BinsOnce(k)
      /\ \A t \in Sizes : \A a :
            InBin(k, t, a) <=> InBin(h, t, a) \/ (h.dvsize # 0 /\ t = h.dvsize /\ a = h.dv)
  <2>1. CASE h.dvsize # 0
    <3>1. k = insert_chunk(h, h.dv, h.dvsize)
      BY <2>1
    <3> HIDE DEF k
    <3> QED
      BY <1>1, <2>1, <3>1, InsertChunk DEF BinStep
  <2>2. CASE h.dvsize = 0
    BY <2>2 DEF SameTop, SameSystem
  <2> QED
    BY <2>1, <2>2
<1> HIDE DEF k, g
<1>4. /\ g \in HeapSet /\ g.head = k.head /\ g.foot = k.foot /\ SameTop(g, k) /\ SameSystem(g, k)
      /\ g.aborted = k.aborted /\ g.dv = p /\ g.dvsize = s /\ g.bin = k.bin
  BY <1>2, <1>3 DEF HeapSet, SameTop, SameSystem
<1>5. \A t, a : InBin(g, t, a) <=> InBin(k, t, a)
  BY <1>4 DEF InBin
<1>6. BinsOnce(g)
  BY <1>3, <1>4 DEF BinsOnce
<1>7. SameTop(g, h) /\ SameSystem(g, h)
  BY <1>3, <1>4 DEF SameTop, SameSystem
<1> QED
  BY <1>3, <1>4, <1>5, <1>6, <1>7 DEF g

LEMMA AddressOk ==
  ASSUME NEW h, NEW X, Memory(h, X), NEW a, IsHeader(h, a)
  PROVE  ok_address(h, a)
<1>1. PICK i \in Segs(h) : InSeg(h, i, a)
  BY DEF Memory, Tiles, IsHeader
<1>2. h.least_addr <= h.segs[i].base /\ h.segs[i].base \in Int /\ h.segs[i].base <= a
  BY <1>1, SegTypes DEF Memory, Segments, InSeg, segment_holds
<1>3. h.least_addr \in Int /\ a \in Int
  BY Places DEF Memory, HeapSet, IsHeader
<1> QED
  BY <1>2, <1>3 DEF ok_address

LEMMA TopPlace ==
  ASSUME NEW h, NEW X, Memory(h, X)
  PROVE  h.top \in Int /\ h.topsize \in Int /\ (h.top = Null \/ (IsFree(h, h.top) /\ IsHeader(h, h.top)))
<1>1. h.top \in Int /\ h.topsize \in Int
  BY DEF Memory, HeapSet
<1>2. h.top = Null \/ IsFree(h, h.top)
  BY DEF Memory, TopIn
<1> QED
  BY <1>1, <1>2, ChunkIsHeader DEF IsChunk

\* Top is not inside of another chunk.
LEMMA TopOutside ==
  ASSUME NEW h, NEW X, Memory(h, X), \A x \in X : h.head[x].pinuse, NEW q, IsChunk(h, q), q # h.top
  PROVE  Outside(q, Past(h, q), h.top)
<1>1. /\ q \in Int /\ q > 0 /\ Past(h, q) \in Int /\ Empty(h, q, Past(h, q))
  BY ChunkFacts
<1>2. h.top \in Int /\ (h.top = Null \/ IsHeader(h, h.top))
  BY TopPlace
<1> QED
  BY <1>1, <1>2 DEF Empty, Outside, IsHeader, Null

\* The headers of a chunk are its own.
LEMMA HeadersOfChunk ==
  ASSUME NEW h, NEW X, Memory(h, X), \A x \in X : h.head[x].pinuse, NEW q, IsChunk(h, q),
         NEW a, IsHeader(h, a), ~Outside(q, Past(h, q), a)
  PROVE  a = q
<1>1. /\ q \in Int /\ Past(h, q) \in Int /\ Empty(h, q, Past(h, q))
  BY ChunkFacts
<1>2. a \in Int
  BY Places DEF IsHeader
<1> QED
  BY <1>1, <1>2 DEF Empty, Outside, IsHeader

LEMMA SameMemoryCut ==
  ASSUME NEW h, NEW h1, NEW k, NEW q, NEW l, NEW e, CutHeads(h1, k, q, l, e), h1.head = h.head, h1.foot = h.foot
  PROVE  CutHeads(h, k, q, l, e)
<1> QED
  BY DEF CutHeads, Size

LEMMA TakeFree ==
  ASSUME NEW h, NEW U, Sound(h, U, {}), NEW p, IsFree(h, p), p # h.top,
         NEW nb \in Int, 2 <= nb, nb <= Size(h, p),
         NEW h1 \in HeapSet, h1.head = h.head, h1.foot = h.foot,
         NEW k, k = fit(h1, p, Size(h, p), nb), NEW l, l = IF Size(h, p) - nb < MinChunk THEN p ELSE p + nb,
         NEW g \in HeapSet, g.head = k.head, g.foot = k.foot,
         SameSystem(g, h), SameTop(g, h), g.aborted = h.aborted,
         VictimCut(h, g, p, l, Past(h, p)), BinsCut(h, g, p, l, Past(h, p))
  PROVE  Allocated(h, Returns(g, p), U, nb)
<1> DEFINE e == Past(h, p)
           s == Size(h, p)
<1>1. Memory(h, {}) /\ Users(h, U)
  BY DEF Sound
<1>2. IsChunk(h, p)
  BY DEF IsChunk
<1>3. /\ p \in Addr /\ p \in Int /\ p > 0 /\ e \in Addr /\ e \in Int /\ e = p + s /\ IsHeader(h, e)
      /\ s \in Int /\ s >= 2 /\ Empty(h, p, e) /\ MinChunk = 2
      /\ \A i \in Segs(h) : InSeg(h, i, p) => InSeg(h, i, e)
  BY <1>1, <1>2, ChunkFacts DEF MinChunk
<1>4. h.head[e].cinuse /\ ~h.head[e].pinuse /\ h.head[p].pinuse /\ ~h.head[p].cinuse
  BY <1>1, <1>3 DEF Memory, TagsAgree, IsFree
<1>5. h.head[e] # Fence /\ h.head[e] # FakeHead
  BY <1>4, FixedHeads
<1>6. Outside(p, e, h.top)
  BY <1>1, <1>2, TopOutside
<1> HIDE DEF e, s
<1>7. /\ MemoryStep(k, h1) /\ CutHeads(h1, k, p, l, e) /\ k.head[p].cinuse
      /\ IF s - nb < MinChunk THEN k.foot[e] = h1.foot[e]
         ELSE ~k.head[l].cinuse /\ k.foot[e] = e - l
  <2>1. /\ e = p + s /\ h1.head[p].pinuse /\ ~h1.head[p + s].pinuse /\ Empty(h1, p, p + s) /\ k = fit(h1, p, s, nb)
        /\ l = IF s - nb < MinChunk THEN p ELSE p + nb
    BY <1>3, <1>4 DEF Empty, s
  <2> QED
    BY <1>3, <2>1, FitCut DEF s
<1>8. CutHeads(h, k, p, l, e)
  BY <1>7, SameMemoryCut
<1>9. l \in Addr /\ l \in Int /\ p <= l /\ l < e /\ l = (IF s - nb < MinChunk THEN p ELSE p + nb)
  BY <1>8, Places DEF CutHeads, s
<1>10. g.head[p].cinuse /\ (g.head[l].cinuse <=> l = p)
  BY <1>7, <1>9, <1>3
<1>11. Recut(h, g, p, l, e)
  <2>1. ~(p <= h.top /\ h.top < e)
    BY <1>1, <1>3, <1>6, TopPlace DEF Outside
  <2>2. ~g.head[l].cinuse /\ g.top # l => g.foot[e] = e - l
    BY <1>3, <1>7, <1>9, <1>10
  <2> QED
    BY <1>8, <2>1, <2>2, CutIsRecut
<1>12. Recuttable(h, g, p, l, e)
  BY <1>2, <1>3, <1>4, <1>5, <1>9, <1>10 DEF Recuttable, s
<1>13. Size(g, p) = IF l = p THEN e - p ELSE l - p
  <2>1. Size(g, l) = e - l /\ (p < l => Size(g, p) = l - p)
    BY <1>11 DEF Recut
  <2>2. p \in Int /\ l \in Int /\ p <= l
    BY <1>3, <1>9
  <2> QED
    BY <2>1, <2>2
<1> DEFINE y == Past(g, p)
<1>14. y = IF l = p THEN e ELSE l
  <2>1. y = p + Size(g, p)
    BY DEF Past, Size
  <2> HIDE DEF y
  <2> QED
    BY <1>3, <1>9, <1>13, <2>1
<1> HIDE DEF y
<1>15. FeetLeft(g, {}, {y}, p, l, e) /\ \A x \in {y} : x \in Addr /\ g.head[x].pinuse
  <2>1. CASE l = p
    BY <1>3, <1>10, <1>11, <1>14, <2>1 DEF FeetLeft, Recut
  <2>2. CASE l # p
    <3>1. ~g.head[l].cinuse /\ g.top # l
      <4>1. g.top = h.top
        BY DEF SameTop
      <4> QED
        BY <1>1, <1>3, <1>6, <1>9, <1>10, <2>2, <4>1, TopPlace DEF Outside
    <3>2. g.head[l].pinuse
      BY <1>9, <1>10, <1>11, <2>2 DEF Recut
    <3> QED
      BY <1>9, <1>14, <2>2, <3>1, <3>2 DEF FeetLeft
  <2> QED
    BY <2>1, <2>2
<1>16. p \notin U /\ \A a \in U : Outside(p, e, a)
  <2>1. \A a \in U : IsUsed(h, a)
    BY <1>1 DEF Users
  <2>2. ~IsUsed(h, p)
    BY <1>4 DEF IsUsed
  <2> QED
    BY <1>1, <1>2, <2>1, <2>2, HeadersOfChunk, ChunkIsHeader DEF IsChunk, e
<1>17. UsersCut(h, g, U, U \cup {p}, p, l, e)
  <2>1. \A a : IsHeader(h, a) /\ p <= a /\ a < e => ~IsRecord(h, a)
    <3>1. ~IsRecord(h, p)
      BY <1>4 DEF IsRecord, Sound, Records, IsUsed
    <3> QED
      BY <1>1, <1>2, <1>3, <3>1, HeadersOfChunk, Places DEF e, Outside, IsHeader
  <2>2. UsersAre(g, U, U \cup {p}, p, l, e)
    <3>1. g.head[l].cinuse => l = p
      BY <1>10
    <3>2. g.head[p].cinuse
      BY <1>10
    <3> QED
      BY <1>16, <3>1, <3>2 DEF UsersAre
  <2> QED
    BY <1>3, <1>9, <2>1, <2>2, UsersOfCut
<1>18. Sound(g, U \cup {p}, {y}) /\ KeptSizes(h, g, U, p, e)
  <2>1. VictimCut(h, g, p, l, e) /\ BinsCut(h, g, p, l, e) /\ g.aborted = FALSE
    BY DEF e, Sound
  <2> QED
    <3>1. SoundCut(h, g, U, {}, U \cup {p}, {y}, p, l, e)
      BY <1>11, <1>12, <1>15, <1>17, <2>1 DEF SoundCut
    <3> QED
      BY <3>1, RecutSound
<1>19. Allocated(h, [heap |-> g, chunk |-> p], U, nb)
  <2>1. SameSizes(h, g, U)
    BY <1>16, <1>18 DEF SameSizes, KeptSizes
  <2>2. g.head[p].pinuse
    BY <1>4, <1>11 DEF Recut
  <2>3. nb <= Size(g, p) /\ Size(g, p) < nb + MinChunk
    BY <1>3, <1>9, <1>13 DEF s
  <2>4. p # Null
    BY <1>3 DEF Null
  <2> QED
    BY <1>16, <1>18, <2>1, <2>2, <2>3, <2>4 DEF Allocated, y
<1> QED
  BY <1>19 DEF Returns

\* The chunks in bins and the designated victim are p or elsewhere.
LEMMA FreeOutside ==
  ASSUME NEW h, NEW U, NEW X, Sound(h, U, X), NEW p, IsChunk(h, p)
  PROVE  /\ \A a : \A s \in Sizes : InBin(h, s, a) =>
              (a = p /\ s = Size(h, p)) \/ (a # p /\ Outside(p, Past(h, p), a))
         /\ h.dv = p \/ Outside(p, Past(h, p), h.dv)
         /\ \A a : \A s \in Sizes : InBin(h, s, a) => IsFree(h, a) /\ a # h.dv /\ a # h.top /\ s = Size(h, a)
<1>1. Memory(h, X) /\ \A x \in X : h.head[x].pinuse
  BY DEF Sound
<1>2. ASSUME NEW s \in Sizes, NEW a, InBin(h, s, a)
      PROVE  /\ (a = p /\ s = Size(h, p)) \/ (a # p /\ Outside(p, Past(h, p), a))
             /\ IsFree(h, a) /\ a # h.dv /\ a # h.top /\ s = Size(h, a)
  <2>1. IsFree(h, a) /\ a # h.dv /\ a # h.top /\ s = Size(h, a)
    BY <1>2 DEF Sound, Bins
  <2>2. IsHeader(h, a)
    BY <2>1, ChunkIsHeader DEF IsChunk
  <2> QED
    BY <1>1, <2>1, <2>2, HeadersOfChunk
<1>3. h.dv = p \/ Outside(p, Past(h, p), h.dv)
  <2>1. CASE h.dv = Null
    BY <1>1, <2>1, ChunkFacts DEF Outside, Null
  <2>2. CASE h.dv # Null
    <3>1. IsHeader(h, h.dv)
      BY <2>2, ChunkIsHeader DEF IsChunk, Sound, Victim
    <3> QED
      BY <1>1, <3>1, HeadersOfChunk
  <2> QED
    BY <2>1, <2>2
<1> QED
  BY <1>2, <1>3

LEMMA FitHeads ==
  ASSUME NEW h, NEW U, Sound(h, U, {}), NEW p, IsFree(h, p), p # h.top,
         NEW nb \in Int, 2 <= nb, nb <= Size(h, p),
         NEW h1 \in HeapSet, h1.head = h.head, h1.foot = h.foot,
         NEW k, k = fit(h1, p, Size(h, p), nb), NEW l, l = IF Size(h, p) - nb < MinChunk THEN p ELSE p + nb
  PROVE  /\ MemoryStep(k, h1) /\ ~IsFree(k, p) /\ p \in Addr
         /\ l # p => IsFree(k, l) /\ Size(k, l) = Past(h, p) - l /\ l = p + nb /\ ~Outside(p, Past(h, p), l)
                     /\ Size(k, l) = Size(h, p) - nb /\ Size(k, l) \in Sizes /\ l \in Int
<1> DEFINE e == Past(h, p)
           s == Size(h, p)
<1>1. Memory(h, {}) /\ IsChunk(h, p)
  BY DEF IsChunk, Sound
<1>3. /\ p \in Addr /\ p \in Int /\ p > 0 /\ e \in Addr /\ e \in Int /\ e = p + s /\ s \in Sizes
      /\ s \in Int /\ s >= 2 /\ Empty(h, p, e) /\ MinChunk = 2
  BY <1>1, ChunkFacts DEF MinChunk
<1>4. ~h.head[e].pinuse /\ h.head[p].pinuse
  BY <1>1, <1>3 DEF Memory, TagsAgree, IsFree
<1> HIDE DEF e, s
<1>7. /\ MemoryStep(k, h1) /\ CutHeads(h1, k, p, l, e) /\ k.head[p].cinuse
      /\ IF s - nb < MinChunk THEN k.foot[e] = h1.foot[e]
         ELSE ~k.head[l].cinuse /\ k.foot[e] = e - l
  <2>1. /\ e = p + s /\ h1.head[p].pinuse /\ ~h1.head[p + s].pinuse /\ Empty(h1, p, p + s) /\ k = fit(h1, p, s, nb)
        /\ l = IF s - nb < MinChunk THEN p ELSE p + nb
    BY <1>3, <1>4 DEF Empty, s
  <2> QED
    BY <1>3, <2>1, FitCut DEF s
<1>8. l \in Addr /\ l \in Int /\ p <= l /\ l < e /\ l = (IF s - nb < MinChunk THEN p ELSE p + nb)
  BY <1>7, Places DEF CutHeads, s
<1>9. ASSUME l # p
      PROVE  /\ IsFree(k, l) /\ Size(k, l) = e - l /\ l = p + nb /\ ~Outside(p, e, l)
             /\ Size(k, l) = s - nb /\ Size(k, l) \in Sizes /\ l \in Int
  <2>1. ~k.head[l].cinuse /\ k.head[l].pinuse /\ Size(k, l) = e - l
    BY <1>3, <1>7, <1>8, <1>9 DEF CutHeads
  <2>2. l = p + nb /\ e - l \in Sizes /\ e - l = s - nb
    BY <1>3, <1>8, <1>9, Places DEF s
  <2> QED
    BY <1>3, <1>8, <1>9, <2>1, <2>2 DEF IsFree, Outside
<1>10. MemoryStep(k, h1) /\ ~IsFree(k, p)
  BY <1>7 DEF IsFree
<1> QED
  BY <1>3, <1>9, <1>10 DEF e, s

LEMMA FromBin ==
  ASSUME NEW h, NEW U, Sound(h, U, {}), NEW size \in Sizes, h.bin[size] # <<>>, NEW nb \in Int, 2 <= nb, nb <= size,
         NEW remainderToDv \in BOOLEAN, remainderToDv => size - nb < 2 \/ h.dvsize < MinLarge
  PROVE  LET r == from_bin(h, size, nb, remainderToDv)
         IN  Allocated(h, r, U, nb) /\ SameSystem(r.heap, h)
<1> DEFINE p == Head(h.bin[size])
           e == Past(h, p)
           h1 == unlink_chunk(h, p, size)
           k == fit(h1, p, size, nb)
           l == IF Size(h, p) - nb < MinChunk THEN p ELSE p + nb
           r == from_bin(h, size, nb, remainderToDv)
           g == r.heap
<1>1. h \in HeapSet /\ BinsOnce(h) /\ Memory(h, {})
  BY DEF Sound, Memory, Bins
<1>2. InBin(h, size, p)
  BY <1>1 DEF InBin, Elems, HeapSet
<1>3. IsFree(h, p) /\ p # h.dv /\ p # h.top /\ size = Size(h, p) /\ IsChunk(h, p) /\ MinChunk = 2
  BY <1>2 DEF Sound, Bins, IsChunk, MinChunk
<1>4. Require(h, ok_address(h, p)) = h
  BY <1>1, <1>3, AddressOk, ChunkIsHeader DEF Require
<1>5. r = Returns(IF size - nb < MinChunk THEN k
                  ELSE IF remainderToDv THEN replace_dv(k, p + nb, size - nb)
                  ELSE insert_chunk(k, p + nb, size - nb), p)
  BY <1>4 DEF from_bin
<1>6. g = IF size - nb < MinChunk THEN k
          ELSE IF remainderToDv THEN replace_dv(k, p + nb, size - nb)
          ELSE insert_chunk(k, p + nb, size - nb)
  BY <1>5 DEF Returns
<1>7. r = Returns(g, p)
  BY <1>5, <1>6
<1> HIDE DEF r, g, p
<1>8. /\ BinStep(h1, h) /\ h1.aborted = h.aborted /\ BinsOnce(h1)
      /\ \A t \in Sizes : \A a : InBin(h1, t, a) <=> InBin(h, t, a) /\ ~(t = size /\ a = p)
  BY <1>1, <1>2, UnlinkChunk
<1>9. h1 \in HeapSet /\ h1.head = h.head /\ h1.foot = h.foot
  BY <1>8 DEF BinStep
<1> HIDE DEF h1
<1>10. /\ MemoryStep(k, h1) /\ ~IsFree(k, p) /\ p \in Addr
       /\ l # p => IsFree(k, l) /\ Size(k, l) = e - l /\ l = p + nb /\ ~Outside(p, e, l)
                   /\ Size(k, l) = size - nb /\ Size(k, l) \in Sizes /\ l \in Int
  BY <1>3, <1>9, FitHeads
<1>11. /\ k \in HeapSet /\ SameVictim(k, h) /\ SameTop(k, h) /\ SameSystem(k, h) /\ k.aborted = h.aborted
       /\ BinsOnce(k) /\ \A t \in Sizes : \A a : InBin(k, t, a) <=> InBin(h, t, a) /\ ~(t = size /\ a = p)
  BY <1>8, <1>10 DEF MemoryStep, BinStep, SameVictim, SameTop, SameSystem, BinsOnce, InBin
<1>12. /\ \A a : \A t \in Sizes : InBin(h, t, a) =>
              (a = p /\ t = size) \/ (a # p /\ Outside(p, e, a))
       /\ Outside(p, e, h.dv) /\ ~Outside(p, e, p)
       /\ \A a : \A t \in Sizes : InBin(h, t, a) => IsFree(h, a) /\ a # h.dv /\ a # h.top /\ t = Size(h, a)
  <2>1. ~Outside(p, e, p)
    BY <1>1, <1>3, ChunkFacts DEF Outside
  <2> QED
    BY <1>3, <2>1, FreeOutside
<1>13. l = p <=> size - nb < MinChunk
  BY <1>1, <1>3, ChunkFacts
<1> HIDE DEF k, l, e
<1>14. /\ g \in HeapSet /\ g.head = k.head /\ g.foot = k.foot /\ SameSystem(g, h) /\ SameTop(g, h)
       /\ g.aborted = h.aborted /\ VictimCut(h, g, p, l, e) /\ BinsCut(h, g, p, l, e)
  <2>1. CASE size - nb < MinChunk
    <3>1. g = k /\ l = p
      BY <1>6, <1>13, <2>1
    <3>2. VictimCut(h, g, p, l, e)
      BY <1>11, <1>12, <3>1 DEF VictimCut
    <3>3. BinsCut(h, g, p, l, e)
      BY <1>10, <1>11, <1>12, <3>1 DEF BinsCut, SameVictim
    <3> QED
      BY <1>11, <3>1, <3>2, <3>3
  <2>2. CASE ~(size - nb < MinChunk) /\ remainderToDv
    <3>1. g = replace_dv(k, l, Size(k, l)) /\ l # p
      BY <1>6, <1>10, <1>13, <2>2
    <3>2. h.dvsize # 0 => h.dv # Null /\ h.dvsize = Size(h, h.dv) /\ IsFree(h, h.dv)
      BY DEF Sound, Victim
    <3>3. k.dvsize # 0 => k.dvsize \in Sizes /\ k.dvsize < MinLarge /\ ~InBin(k, k.dvsize, k.dv)
      <4>1. h.dvsize # 0 => h.dvsize \in Sizes
        BY <1>1, <3>2, ChunkFacts DEF IsChunk
      <4> QED
        BY <1>3, <1>11, <1>12, <2>2, <4>1 DEF SameVictim
    <3>4. /\ g \in HeapSet /\ g.head = k.head /\ g.foot = k.foot /\ SameTop(g, k) /\ SameSystem(g, k)
          /\ g.aborted = k.aborted /\ g.dv = l /\ g.dvsize = Size(k, l) /\ BinsOnce(g)
          /\ \A t \in Sizes : \A a :
                InBin(g, t, a) <=> InBin(k, t, a) \/ (k.dvsize # 0 /\ t = k.dvsize /\ a = k.dv)
      BY <1>10, <1>11, <3>1, <3>3, Places, ReplaceDv
    <3>5. IsFree(g, l) /\ Size(g, l) = Size(k, l) /\ ~IsFree(g, p)
      BY <1>10, <3>1, <3>4 DEF IsFree, Size
    <3>6. g.top = h.top /\ l # h.top
      <4>1. Outside(p, e, h.top)
        BY <1>1, <1>3, TopOutside DEF e
      <4> QED
        BY <1>10, <1>11, <3>1, <3>4, <4>1 DEF SameTop
    <3>7. VictimCut(h, g, p, l, e)
      BY <3>4, <3>5, <3>6 DEF VictimCut
    <3>8. k.dv = h.dv /\ k.dvsize = h.dvsize /\ (h.dvsize # 0 <=> h.dv # Null) /\ l # h.dv
      <4>1. h.dv # Null => h.dvsize # 0
        BY <1>1, <3>2, ChunkFacts DEF IsChunk, Sound, Victim
      <4> QED
        BY <1>10, <1>11, <1>12, <3>1, <3>2, <4>1 DEF SameVictim
    <3>9. BinsCut(h, g, p, l, e)
      BY <1>11, <1>12, <3>4, <3>5, <3>8 DEF BinsCut
    <3> QED
      BY <1>11, <3>4, <3>7, <3>9 DEF SameTop, SameSystem
  <2>3. CASE ~(size - nb < MinChunk) /\ ~remainderToDv
    <3>1. g = insert_chunk(k, l, Size(k, l)) /\ l # p
      BY <1>6, <1>10, <1>13, <2>3
    <3>2. ~InBin(k, Size(k, l), l)
      BY <1>10, <1>11, <1>12, <3>1
    <3>3. /\ BinStep(g, k) /\ g.aborted = k.aborted /\ BinsOnce(g)
          /\ \A t \in Sizes : \A a : InBin(g, t, a) <=> InBin(k, t, a) \/ (t = Size(k, l) /\ a = l)
      BY <1>10, <1>11, <3>1, <3>2, InsertChunk
    <3>5. IsFree(g, l) /\ Size(g, l) = Size(k, l) /\ ~IsFree(g, p)
      BY <1>10, <3>1, <3>3 DEF IsFree, Size, BinStep
    <3>6. g.top = h.top /\ l # h.top
      <4>1. Outside(p, e, h.top)
        BY <1>1, <1>3, TopOutside DEF e
      <4> QED
        BY <1>10, <1>11, <3>1, <3>3, <4>1 DEF SameTop, BinStep
    <3>7. VictimCut(h, g, p, l, e)
      BY <1>11, <1>12, <3>3 DEF VictimCut, SameVictim, BinStep
    <3>8. g.dv = h.dv /\ l # h.dv
      BY <1>10, <1>11, <1>12, <3>1, <3>3 DEF SameVictim, BinStep
    <3>9. BinsCut(h, g, p, l, e)
      BY <1>11, <1>12, <3>3, <3>5, <3>6, <3>8 DEF BinsCut
    <3> QED
      BY <1>11, <3>3, <3>7, <3>9 DEF SameTop, SameSystem, BinStep
  <2> QED
    BY <2>1, <2>2, <2>3
<1>15. Allocated(h, Returns(g, p), U, nb)
  BY <1>3, <1>9, <1>14, TakeFree DEF k, l, e
<1> QED
  BY <1>7, <1>14, <1>15 DEF r, g

WithVictim(h, p, s) == [h EXCEPT !.dv = p, !.dvsize = s]
WithTop(h, p, s) == [h EXCEPT !.top = p, !.topsize = s]

\* Nothing but the designated victim, or top, is another.
VictimStep(g, h, p, s) ==
    /\ g \in HeapSet /\ g.head = h.head /\ g.foot = h.foot /\ SameSystem(g, h) /\ SameTop(g, h)
    /\ g.aborted = h.aborted /\ g.dv = p /\ g.dvsize = s /\ g.bin = h.bin

TopStep(g, h, p, s) ==
    /\ g \in HeapSet /\ g.head = h.head /\ g.foot = h.foot /\ SameSystem(g, h) /\ SameVictim(g, h)
    /\ g.aborted = h.aborted /\ g.top = p /\ g.topsize = s /\ g.bin = h.bin

LEMMA VictimWritten ==
  ASSUME NEW h \in HeapSet, NEW p \in Int, NEW s \in Int
  PROVE  VictimStep(WithVictim(h, p, s), h, p, s)
BY DEF HeapSet, SameSystem, SameTop, VictimStep, WithVictim

LEMMA TopWritten ==
  ASSUME NEW h \in HeapSet, NEW p \in Int, NEW s \in Int
  PROVE  TopStep(WithTop(h, p, s), h, p, s)
BY DEF HeapSet, SameSystem, SameVictim, TopStep, WithTop

LEMMA FromDv ==
  ASSUME NEW h, NEW U, Sound(h, U, {}), NEW nb \in Int, 2 <= nb, nb <= h.dvsize
  PROVE  LET r == from_dv(h, nb)
         IN  Allocated(h, r, U, nb) /\ SameSystem(r.heap, h)
<1> DEFINE p == h.dv
           e == Past(h, p)
           k == fit(h, p, h.dvsize, nb)
           l == IF Size(h, p) - nb < MinChunk THEN p ELSE p + nb
           r == from_dv(h, nb)
           g == r.heap
<1>1. h \in HeapSet /\ BinsOnce(h) /\ Memory(h, {}) /\ MinChunk = 2
  BY DEF Sound, Memory, Bins, MinChunk
<1>2. h.dv # Null /\ IsFree(h, p) /\ p # h.top /\ h.dvsize = Size(h, p) /\ IsChunk(h, p)
  <2>1. h.dvsize # 0
    OBVIOUS
  <2> QED
    BY <2>1 DEF Sound, Victim, IsChunk
<1>3. r = Returns(g, p) /\ g = IF h.dvsize - nb < MinChunk THEN [k EXCEPT !.dv = Null, !.dvsize = 0]
                               ELSE [k EXCEPT !.dv = h.dv + nb, !.dvsize = h.dvsize - nb]
  BY DEF from_dv, Returns
<1> HIDE DEF r, g, p
<1>4. /\ MemoryStep(k, h) /\ ~IsFree(k, p) /\ p \in Addr
      /\ l # p => IsFree(k, l) /\ Size(k, l) = e - l /\ l = p + nb /\ ~Outside(p, e, l)
                  /\ Size(k, l) = Size(h, p) - nb /\ Size(k, l) \in Sizes /\ l \in Int
  BY <1>1, <1>2, FitHeads
<1>5. /\ k \in HeapSet /\ SameVictim(k, h) /\ SameTop(k, h) /\ SameSystem(k, h) /\ k.aborted = h.aborted
      /\ BinsOnce(k) /\ \A t \in Sizes : \A a : InBin(k, t, a) <=> InBin(h, t, a)
  BY <1>1, <1>4 DEF MemoryStep, SameVictim, SameTop, SameSystem, BinsOnce, InBin
<1>6. /\ \A a : \A t \in Sizes : InBin(h, t, a) => a # p /\ Outside(p, e, a)
      /\ ~Outside(p, e, p)
  <2>1. ~Outside(p, e, p)
    BY <1>1, <1>2, ChunkFacts DEF Outside
  <2> QED
    BY <1>2, <2>1, FreeOutside DEF p
<1>7. (l = p <=> h.dvsize - nb < MinChunk) /\ p \in Int
  BY <1>1, <1>2, ChunkFacts
<1>8. Outside(p, e, h.top)
  BY <1>1, <1>2, TopOutside
<1> HIDE DEF k, l, e
<1>9. p = h.dv
  BY DEF p
<1>14. /\ g \in HeapSet /\ g.head = k.head /\ g.foot = k.foot /\ SameSystem(g, h) /\ SameTop(g, h)
       /\ g.aborted = h.aborted /\ VictimCut(h, g, p, l, e) /\ BinsCut(h, g, p, l, e)
  <2>1. CASE h.dvsize - nb < MinChunk
    <3>1. g = [k EXCEPT !.dv = Null, !.dvsize = 0] /\ l = p
      BY <1>3, <1>7, <2>1
    <3>2. /\ g \in HeapSet /\ g.head = k.head /\ g.foot = k.foot /\ SameSystem(g, k) /\ SameTop(g, k)
          /\ g.aborted = k.aborted /\ g.dv = Null /\ g.dvsize = 0 /\ g.bin = k.bin
      <4>1. g = WithVictim(k, Null, 0)
        BY <3>1 DEF WithVictim
      <4> QED
        BY <1>5, <4>1, VictimWritten DEF Null, VictimStep
    <3>3. VictimCut(h, g, p, l, e)
      BY <3>2 DEF VictimCut
    <3>4. BinsCut(h, g, p, l, e)
      BY <1>4, <1>5, <1>6, <1>9, <3>1, <3>2 DEF BinsCut, InBin, BinsOnce, IsFree
    <3> QED
      BY <1>5, <3>2, <3>3, <3>4 DEF SameSystem, SameTop
  <2>2. CASE ~(h.dvsize - nb < MinChunk)
    <3>1. g = [k EXCEPT !.dv = l, !.dvsize = Size(k, l)] /\ l # p
      BY <1>2, <1>3, <1>4, <1>7, <1>9, <2>2
    <3>2. /\ g \in HeapSet /\ g.head = k.head /\ g.foot = k.foot /\ SameSystem(g, k) /\ SameTop(g, k)
          /\ g.aborted = k.aborted /\ g.dv = l /\ g.dvsize = Size(k, l) /\ g.bin = k.bin
      <4>1. g = WithVictim(k, l, Size(k, l)) /\ Size(k, l) \in Int /\ l \in Int
        BY <1>4, <3>1, Places DEF WithVictim
      <4> QED
        BY <1>5, <4>1, VictimWritten DEF VictimStep
    <3>3. IsFree(g, l) /\ Size(g, l) = Size(k, l) /\ ~IsFree(g, p) /\ l # g.top
      BY <1>4, <1>5, <1>8, <3>1, <3>2 DEF IsFree, Size, SameTop
    <3>4. VictimCut(h, g, p, l, e)
      BY <3>2, <3>3 DEF VictimCut
    <3>5. BinsCut(h, g, p, l, e)
      BY <1>4, <1>5, <1>6, <1>9, <3>1, <3>2, <3>3 DEF BinsCut, InBin, BinsOnce
    <3> QED
      BY <1>5, <3>2, <3>4, <3>5 DEF SameSystem, SameTop
  <2> QED
    BY <2>1, <2>2
<1>15. Allocated(h, Returns(g, p), U, nb)
  <2>1. k = fit(h, p, Size(h, p), nb)
    BY <1>2 DEF k
  <2> QED
    BY <1>1, <1>2, <1>14, <2>1, TakeFree DEF l, e
<1> QED
  BY <1>3, <1>14, <1>15 DEF r, g

LEMMA SplitTop ==
  ASSUME NEW h, NEW U, Sound(h, U, {}), is_initialized(h), NEW nb \in Int, 2 <= nb, nb < h.topsize
  PROVE  LET r == split_top(h, nb)
         IN  Allocated(h, r, U, nb) /\ SameSystem(r.heap, h)
<1> DEFINE p == h.top
           e == Past(h, p)
           l == p + nb
           r == split_top(h, nb)
           g == r.heap
           h1 == set_head(h, l, h.topsize - nb, FALSE, TRUE)
           k == set_size_and_pinuse_of_inuse_chunk(h1, p, nb)
<1>1. h \in HeapSet /\ BinsOnce(h) /\ Memory(h, {}) /\ MinChunk = 2 /\ Users(h, U)
  BY DEF Sound, Memory, Bins, MinChunk
<1>2. /\ h.top # Null /\ IsFree(h, p) /\ h.topsize = Size(h, p) /\ IsChunk(h, p) /\ h.head[e] = FakeHead
      /\ p \in Addr /\ e = h.top + h.topsize
  BY <1>1 DEF Memory, TopIn, IsFree, IsChunk, is_initialized, Past, Size
<1>3. /\ p \in Int /\ p > 0 /\ e \in Addr /\ e \in Int /\ IsHeader(h, e) /\ h.topsize \in Int
      /\ Empty(h, p, e) /\ \A i \in Segs(h) : InSeg(h, i, p) => InSeg(h, i, e)
  BY <1>1, <1>2, ChunkFacts, TopPlace
<1>4. l \in Addr /\ l \in Int /\ p < l /\ l < e /\ e - l = h.topsize - nb
  BY <1>2, <1>3, Places, SMTT(60)
<1>5. r = Returns(g, p) /\ g = [k EXCEPT !.top = l, !.topsize = h.topsize - nb]
  BY DEF split_top, Returns
<1> HIDE DEF r, g, p, l, e
<1>6. MemoryStep(h1, h) /\ h1.foot = h.foot /\ h1.head = Put(h.head, l, FreeHead(h.topsize - nb))
  <2>1. h.topsize - nb \in Int
    BY <1>3
  <2> QED
    BY <1>1, <1>4, <2>1, SetFreeHead
<1>7. MemoryStep(k, h1) /\ k.foot = h1.foot /\ k.head = Put(h1.head, p, UsedHead(nb))
  <2>1. h1 \in HeapSet
    BY <1>6 DEF MemoryStep
  <2> HIDE DEF h1
  <2> QED
    BY <1>2, <2>1, SetInuseOnly
<1>8. MemoryStep(k, h)
  BY <1>6, <1>7, MemoryStepsCompose
<1>9. \A a \in Addr : k.head[a] = IF a = p THEN UsedHead(nb)
                                  ELSE IF a = l THEN FreeHead(h.topsize - nb) ELSE h.head[a]
  BY <1>1, <1>2, <1>4, <1>6, <1>7, Fields DEF Put
<1> HIDE DEF k, h1
<1>10. /\ g \in HeapSet /\ g.head = k.head /\ g.foot = h.foot /\ SameSystem(g, h) /\ SameVictim(g, h)
       /\ g.aborted = h.aborted /\ g.bin = h.bin /\ g.top = l /\ g.topsize = e - l
  <2>1. h.topsize - nb \in Int /\ h.topsize - nb = e - l
    BY <1>3, <1>4
  <2>2. k \in HeapSet
    BY <1>8 DEF MemoryStep
  <2>3. /\ g \in HeapSet /\ g.head = k.head /\ g.foot = k.foot /\ SameSystem(g, k) /\ SameVictim(g, k)
        /\ g.aborted = k.aborted /\ g.top = l /\ g.topsize = e - l /\ g.bin = k.bin
    <3>1. g = WithTop(k, l, e - l)
      BY <1>5, <2>1 DEF WithTop
    <3> QED
      BY <1>4, <2>1, <2>2, <3>1, TopWritten DEF TopStep
  <2> QED
    BY <1>6, <1>7, <1>8, <2>3 DEF MemoryStep, SameSystem, SameVictim
<1>11. /\ g.head[p] = UsedHead(nb) /\ g.head[l] = FreeHead(h.topsize - nb) /\ g.head[e] = h.head[e]
       /\ \A a \in Addr : a # p /\ a # l => g.head[a] = h.head[a]
  BY <1>2, <1>3, <1>4, <1>9, <1>10
<1>12. /\ g.head[p].size = nb /\ g.head[p].cinuse /\ g.head[p].pinuse
       /\ g.head[l].size = e - l /\ ~g.head[l].cinuse /\ g.head[l].pinuse
       /\ ~g.head[e].pinuse /\ ~h.head[e].pinuse /\ ~h.head[e].cinuse /\ h.head[p].pinuse /\ ~h.head[p].cinuse
  BY <1>2, <1>4, <1>11, FixedHeads DEF UsedHead, FreeHead, IsFree
<1>13. p = h.top
  BY DEF p
<1>14. Recut(h, g, p, l, e)
  <2>1. CutHeads(h, g, p, l, e)
    <3>1. \A a \in Addr : /\ p < a /\ a < e /\ a # l => g.head[a] = Blank /\ g.foot[a] = 0
                          /\ a < p \/ e < a => g.head[a] = h.head[a] /\ g.foot[a] = h.foot[a]
      BY <1>3, <1>4, <1>10, <1>11, Places DEF Empty
    <3>2. g.foot[p] = h.foot[p] /\ g.foot[l] = 0 /\ Size(g, l) = e - l /\ Size(g, p) = l - p /\ Size(g, e) = Size(h, e)
      BY <1>3, <1>4, <1>10, <1>11, <1>12 DEF Empty, Size, l
    <3>3. /\ g.head[l].pinuse <=> g.head[p].cinuse
          /\ g.head[p].pinuse <=> h.head[p].pinuse
          /\ g.head[e].cinuse <=> h.head[e].cinuse
          /\ g.head[e].pinuse <=> g.head[l].cinuse
      BY <1>11, <1>12
    <3>4. (g.foot[l] = IF g.head[p].cinuse THEN 0 ELSE l - p) /\ p <= l /\ l < e
      BY <1>3, <1>4, <1>12, <3>2
    <3> QED
      BY <1>2, <1>3, <1>4, <3>1, <3>2, <3>3, <3>4 DEF CutHeads
  <2> QED
    BY <1>3, <1>4, <1>10, <1>13, <2>1, CutIsRecut
<1>15. Recuttable(h, g, p, l, e)
  BY <1>1, <1>2, <1>3, <1>4, <1>12, <1>13, FixedHeads DEF Recuttable, l
<1>16. FeetLeft(g, {}, {l}, p, l, e) /\ \A x \in {l} : x \in Addr /\ g.head[x].pinuse
  <2>1. g.foot[e] = 0
    BY <1>1, <1>3, <1>10, <1>12 DEF Memory, FeetIn
  <2> QED
    BY <1>4, <1>12, <2>1 DEF FeetLeft
<1>17. p \notin U /\ (\A a \in U : Outside(p, e, a)) /\ ~Outside(p, e, p)
  <2>1. \A a \in U : IsUsed(h, a)
    BY <1>1 DEF Users
  <2>2. ~IsUsed(h, p)
    BY <1>12 DEF IsUsed
  <2>3. ~Outside(p, e, p)
    BY <1>3, <1>4 DEF Outside
  <2> QED
    BY <1>1, <1>2, <2>1, <2>2, <2>3, HeadersOfChunk, ChunkIsHeader DEF IsChunk, e
<1>18. UsersCut(h, g, U, U \cup {p}, p, l, e)
  <2>1. \A a : IsHeader(h, a) /\ p <= a /\ a < e => ~IsRecord(h, a)
    <3>1. ~IsRecord(h, p)
      BY <1>12 DEF IsRecord, Sound, Records, IsUsed
    <3> QED
      BY <1>1, <1>2, <1>3, <3>1, HeadersOfChunk, Places DEF e, Outside, IsHeader
  <2>2. UsersAre(g, U, U \cup {p}, p, l, e)
    BY <1>12, <1>17 DEF UsersAre
  <2> QED
    BY <1>2, <1>3, <1>4, <2>1, <2>2, UsersOfCut
<1>19. /\ \A a : \A t \in Sizes : InBin(h, t, a) => a # p /\ Outside(p, e, a)
       /\ Outside(p, e, h.dv)
  <2>1. p # h.dv
    BY <1>2, <1>13 DEF Sound, Victim
  <2> QED
    BY <1>2, <1>13, <2>1, FreeOutside DEF e
<1>20. VictimCut(h, g, p, l, e)
  BY <1>10, <1>19 DEF VictimCut
<1>21. BinsCut(h, g, p, l, e)
  <2>1. ~IsFree(g, p) /\ g.dv = h.dv
    BY <1>10, <1>12 DEF IsFree, SameVictim
  <2> QED
    BY <1>1, <1>10, <1>19, <2>1 DEF BinsCut, InBin, BinsOnce
<1>22. Sound(g, U \cup {p}, {l}) /\ KeptSizes(h, g, U, p, e)
  <2>1. SoundCut(h, g, U, {}, U \cup {p}, {l}, p, l, e)
    BY <1>10, <1>14, <1>15, <1>16, <1>18, <1>20, <1>21 DEF SoundCut, Sound
  <2> QED
    BY <2>1, RecutSound
<1>23. Allocated(h, [heap |-> g, chunk |-> p], U, nb)
  <2>1. Past(g, p) = l /\ Size(g, p) = nb
    BY <1>12 DEF Past, Size, l
  <2>2. SameSizes(h, g, U)
    BY <1>17, <1>22 DEF SameSizes, KeptSizes
  <2>3. p # Null
    BY <1>2, <1>13
  <2> QED
    BY <1>1, <1>12, <1>17, <1>22, <2>1, <2>2, <2>3 DEF Allocated
<1> QED
  BY <1>5, <1>10, <1>23 DEF r, g, Returns

----------------------------------------------------------------------------
(* Consolidation.                                                          *)

\* What is in front of a fence is a record.
LEMMA BeforeFence ==
  ASSUME NEW h, NEW U, NEW X, Sound(h, U, X), NEW p, IsChunk(h, p), h.head[Past(h, p)] = Fence
  PROVE  IsRecord(h, p)
<1> DEFINE n == Past(h, p)
<1>1. Memory(h, X) /\ Records(h) /\ \A x \in X : h.head[x].pinuse
  BY DEF Sound
<1>2. /\ p \in Addr /\ p \in Int /\ n \in Addr /\ n \in Int /\ IsHeader(h, n) /\ IsHeader(h, p)
      /\ \A i \in Segs(h) : InSeg(h, i, p) => InSeg(h, i, n)
  BY <1>1, ChunkFacts
<1>3. ~IsChunk(h, n)
  BY FixedHeads DEF IsChunk, IsUsed, IsFree
<1>4. PICK i \in Segs(h) : InSeg(h, i, p) /\ InSeg(h, i, n)
  BY <1>1, <1>2, HeaderPlace
<1>5. \A b \in Addr : IsHeader(h, b) /\ InSeg(h, i, b) => b <= n
  BY <1>1, <1>2, <1>3, <1>4 DEF Memory, Tiles
<1> HIDE DEF n
<1>6. CASE i = 1
  <2> DEFINE f == h.top + h.topsize
  <2>1. h.segs # <<>>
    BY <1>4 DEF Segs
  <2>2. IsFree(h, h.top) /\ InSeg(h, 1, h.top) /\ Past(h, h.top) = f /\ h.head[f] = FakeHead
    BY <1>1, <2>1 DEF Memory, TopIn, Past, Size
  <2> HIDE DEF f
  <2>3. IsChunk(h, h.top)
    BY <2>2 DEF IsChunk
  <2>4. f \in Addr /\ IsHeader(h, f) /\ InSeg(h, 1, f)
    BY <1>1, <1>4, <1>6, <2>2, <2>3, ChunkFacts
  <2>5. ~IsChunk(h, f)
    BY <2>2, FixedHeads DEF IsChunk, IsUsed, IsFree
  <2>6. f <= n
    BY <1>5, <1>6, <2>4
  <2>7. n <= f
    BY <1>1, <1>2, <1>4, <1>6, <2>4, <2>5 DEF Memory, Tiles
  <2>8. f = n
    BY <1>2, <2>4, <2>6, <2>7, Places
  <2> QED
    BY <2>2, <2>8, FixedHeads DEF n
<1>7. CASE i # 1
  <2> DEFINE r == h.segs[i].rec
             f == r + SegRecord
  <2>1. IsUsed(h, r) /\ InSeg(h, i, r) /\ Size(h, r) = SegRecord /\ h.head[f] = Fence
    BY <1>1, <1>4, <1>7 DEF Records
  <2>2. IsChunk(h, r) /\ Past(h, r) = f
    BY <2>1 DEF IsChunk, Past, Size
  <2>3. IsRecord(h, r)
    BY <1>4, <1>7 DEF IsRecord
  <2> HIDE DEF r, f
  <2>4. f \in Addr /\ f \in Int /\ IsHeader(h, f) /\ InSeg(h, i, f) /\ r \in Addr /\ r \in Int /\ IsHeader(h, r)
    BY <1>1, <1>4, <2>1, <2>2, ChunkFacts
  <2>5. ~IsChunk(h, f)
    BY <2>1, FixedHeads DEF IsChunk, IsUsed, IsFree
  <2>6. f <= n
    BY <1>5, <2>4
  <2>7. n <= f
    BY <1>1, <1>2, <1>4, <2>4, <2>5 DEF Memory, Tiles
  <2>8. f = n
    BY <1>2, <2>4, <2>6, <2>7
  <2>9. ~(p < r) /\ ~(r < p)
    <3>1. p < r => n <= r
      BY <1>1, <1>2, <2>4 DEF Memory, Tiles, n
    <3>2. r < p => f <= p
      BY <1>1, <1>2, <2>2, <2>4 DEF Memory, Tiles
    <3>3. p < n /\ r < f
      BY <1>1, <2>2, ChunkFacts DEF n
    <3> QED
      BY <1>2, <2>4, <2>8, <3>1, <3>2, <3>3
  <2> QED
    BY <1>2, <2>3, <2>4, <2>9
<1> QED
  BY <1>6, <1>7

\* The chunks from q to e are p, which the users have, and the free chunks
\* around it.
MergeRange(h, p, q, e) ==
    /\ IsChunk(h, q) /\ IsHeader(h, e) /\ q <= p /\ q < e
    /\ \A i \in Segs(h) : InSeg(h, i, q) => InSeg(h, i, e)
    /\ h.head[q].pinuse /\ h.head[e] # Fence
    /\ IF q <= h.top /\ h.top < e THEN ~h.head[e].cinuse ELSE h.head[e].cinuse /\ e - q >= 2
    /\ \A a : IsHeader(h, a) /\ ~Outside(q, e, a) => a = p \/ IsFree(h, a)
    /\ \A a : IsHeader(h, a) /\ q < a /\ a <= e => a = Past(h, p) \/ ~h.head[a].pinuse
    /\ q < Past(h, p) /\ Past(h, p) <= e

FrontOf(h, p) == IF ~h.head[p].pinuse THEN p - h.foot[p] ELSE p

BackOf(h, p) == IF h.head[Past(h, p)].cinuse THEN Past(h, p) ELSE Past(h, Past(h, p))

LEMMA Front ==
  ASSUME NEW h, NEW U, NEW X, Sound(h, U, X), NEW p \in U, NEW q, q = FrontOf(h, p)
  PROVE  /\ IsUsed(h, p) /\ p \in Addr /\ ~IsRecord(h, p)
         /\ IsChunk(h, q) /\ h.head[q].pinuse /\ q <= p /\ q # h.top
         /\ IF h.head[p].pinuse THEN q = p
            ELSE q < p /\ IsFree(h, q) /\ Past(h, q) = p /\ Size(h, q) = h.foot[p]
<1>1. Memory(h, X) /\ Users(h, U) /\ \A x \in X : h.head[x].pinuse
  BY DEF Sound
<1>2. IsUsed(h, p) /\ p \in Addr /\ IsChunk(h, p) /\ ~IsRecord(h, p) /\ h.head[p].cinuse
  BY <1>1 DEF Users, IsUsed, IsChunk
<1>3. CASE h.head[p].pinuse
  <2>1. q = p /\ p \in Int
    BY <1>2, <1>3, Places DEF FrontOf
  <2>2. p # h.top
    BY <1>1, <1>2, ChunkFacts, TopPlace DEF IsFree, Null
  <2> QED
    BY <1>2, <1>3, <2>1, <2>2
<1>4. CASE ~h.head[p].pinuse
  <2>1. q = p - h.foot[p] /\ p \in Int /\ h.foot[p] \in Int
    BY <1>1, <1>2, <1>4, HeadTypes, Places DEF FrontOf, Memory
  <2>2. IsFree(h, q) /\ q # h.top /\ Size(h, q) = h.foot[p]
    BY <1>1, <1>2, <1>4, <2>1 DEF Memory, TagsAgree
  <2>3. IsChunk(h, q) /\ h.head[q].pinuse
    BY <2>2 DEF IsChunk, IsFree
  <2>4. q \in Int /\ Past(h, q) = q + Size(h, q) /\ Size(h, q) > 0 /\ Size(h, q) \in Int
    BY <1>1, <2>3, ChunkFacts
  <2> QED
    BY <1>2, <1>4, <2>1, <2>2, <2>3, <2>4
<1> QED
  BY <1>3, <1>4

LEMMA MergedRange ==
  ASSUME NEW h, NEW U, NEW X, Sound(h, U, X), NEW p \in U, NEW q, q = FrontOf(h, p), NEW e, e = BackOf(h, p)
  PROVE  /\ MergeRange(h, p, q, e)
         /\ \A a : IsHeader(h, a) /\ ~Outside(q, e, a) => a = q \/ a = p \/ a = Past(h, p)
         /\ (q <= h.top /\ h.top < e) <=> (~h.head[Past(h, p)].cinuse /\ Past(h, p) = h.top)
         /\ ~h.head[Past(h, p)].cinuse => IsFree(h, Past(h, p)) /\ Past(h, p) < e
<1> DEFINE n == Past(h, p)
<1>1. Memory(h, X) /\ Users(h, U) /\ \A x \in X : h.head[x].pinuse
  BY DEF Sound
<1>2. IsUsed(h, p) /\ IsChunk(h, p) /\ ~IsRecord(h, p) /\ h.head[p].cinuse
  BY <1>1, Front DEF Users, IsUsed, IsChunk
<1>3. /\ p \in Int /\ n \in Addr /\ n \in Int /\ p < n /\ IsHeader(h, n) /\ IsHeader(h, p)
      /\ \A i \in Segs(h) : InSeg(h, i, p) => InSeg(h, i, n)
  BY <1>1, <1>2, ChunkFacts
<1>4. h.head[n].pinuse /\ h.head[n] # Fence
  BY <1>1, <1>2, BeforeFence DEF Memory, TagsAgree, IsUsed
<1>5. /\ IsChunk(h, q) /\ h.head[q].pinuse /\ q <= p /\ q # h.top
      /\ q # p => q < p /\ IsFree(h, q) /\ Past(h, q) = p /\ ~h.head[p].pinuse
  BY Front
<1>6. q \in Int /\ IsHeader(h, q) /\ \A i \in Segs(h) : InSeg(h, i, q) => InSeg(h, i, p)
  <2>1. q # p => \A i \in Segs(h) : InSeg(h, i, q) => InSeg(h, i, p)
    BY <1>1, <1>5, ChunkFacts
  <2> QED
    BY <1>1, <1>5, <2>1, ChunkFacts
<1> HIDE DEF n
<1>7. \A a : IsHeader(h, a) => a \in Int
  BY Places DEF IsHeader
<1>8. ASSUME NEW a, IsHeader(h, a), q <= a, a < n
      PROVE  a = q \/ a = p
  <2>1. CASE p <= a
    BY <1>1, <1>2, <1>3, <1>7, <1>8, <2>1, HeadersOfChunk DEF n, Outside
  <2>2. CASE ~(p <= a)
    BY <1>1, <1>3, <1>5, <1>6, <1>7, <1>8, <2>2, HeadersOfChunk DEF Outside
  <2> QED
    BY <2>1, <2>2
<1>9. h.top \in Int /\ (h.top = Null \/ (IsFree(h, h.top) /\ IsHeader(h, h.top))) /\ h.top # p /\ q > 0
  BY <1>1, <1>2, <1>5, ChunkFacts, TopPlace DEF IsFree, Null
<1>10. ~(q <= h.top /\ h.top < n)
  <2>1. CASE h.top = Null
    BY <1>6, <1>9, <2>1 DEF Null
  <2>2. CASE h.top # Null
    BY <1>5, <1>8, <1>9, <2>2
  <2> QED
    BY <2>1, <2>2
<1>11. CASE h.head[n].cinuse
  <2>1. e = n
    BY <1>11 DEF BackOf, n
  <2>2. MergeRange(h, p, q, e)
    <3>1. n - q >= 2
      <4>1. Size(h, p) >= 2 /\ n = p + Size(h, p) /\ Size(h, p) \in Int
        BY <1>1, <1>2, <1>9, ChunkFacts DEF n
      <4> QED
        BY <1>3, <1>5, <1>6, <4>1
    <3>2. \A a : IsHeader(h, a) /\ ~Outside(q, e, a) => a = p \/ IsFree(h, a)
      BY <1>3, <1>5, <1>6, <1>7, <1>8, <2>1 DEF Outside
    <3>3. \A a : IsHeader(h, a) /\ q < a /\ a <= e => a = Past(h, p) \/ ~h.head[a].pinuse
      BY <1>3, <1>5, <1>6, <1>7, <1>8, <2>1 DEF n
    <3>4. q < n /\ n <= e
      BY <1>3, <1>5, <1>6, <2>1
    <3> QED
      BY <1>3, <1>4, <1>5, <1>6, <1>10, <1>11, <2>1, <3>1, <3>2, <3>3, <3>4 DEF MergeRange, n
  <2> QED
    BY <1>3, <1>6, <1>7, <1>8, <1>10, <1>11, <2>1, <2>2 DEF n, Outside
<1>12. CASE ~h.head[n].cinuse
  <2>1. e = Past(h, n) /\ IsFree(h, n) /\ IsChunk(h, n)
    BY <1>3, <1>4, <1>12 DEF BackOf, n, IsFree, IsChunk
  <2>2. /\ e \in Int /\ e \in Addr /\ n < e /\ IsHeader(h, e) /\ Size(h, n) \in Int /\ e = n + Size(h, n)
        /\ n # h.top => Size(h, n) >= 2
        /\ \A i \in Segs(h) : InSeg(h, i, n) => InSeg(h, i, e)
    BY <1>1, <2>1, ChunkFacts
  <2>3. /\ ~h.head[e].pinuse
        /\ n # h.top => h.head[e].cinuse
        /\ n = h.top => h.head[e] = FakeHead
    <3>1. n = h.top => h.head[e] = FakeHead
      <4>1. n = h.top => h.segs # <<>> /\ Past(h, h.top) = h.top + h.topsize
        BY <1>1, <1>9, <2>1, ChunkFacts DEF Memory, TopIn, Past, Size, Null
      <4> QED
        BY <1>1, <2>1, <4>1 DEF Memory, TopIn
    <3> QED
      BY <1>1, <1>3, <2>1, <3>1 DEF Memory, TagsAgree
  <2>4. ~h.head[e].cinuse <=> n = h.top
    BY <2>3, FixedHeads
  <2>5. h.head[e] # Fence
    BY <2>3, FixedHeads
  <2>6. \A a : IsHeader(h, a) /\ n <= a /\ a < e => a = n
    <3>1. ASSUME NEW a, IsHeader(h, a), n <= a, a < e
          PROVE  a = n
      <4>1. ~Outside(n, Past(h, n), a)
        BY <1>3, <1>7, <2>1, <2>2, <3>1 DEF Outside
      <4> QED
        BY <1>1, <2>1, <3>1, <4>1, HeadersOfChunk
    <3> QED
      BY <3>1
  <2>7. (q <= h.top /\ h.top < e) <=> n = h.top
    BY <1>3, <1>5, <1>6, <1>7, <1>9, <1>10, <2>2, <2>6 DEF Null
  <2>8. MergeRange(h, p, q, e)
    <3>1. n # h.top => e - q >= 2
      BY <1>3, <1>5, <1>6, <2>2
    <3>2. \A a : IsHeader(h, a) /\ ~Outside(q, e, a) => a = p \/ IsFree(h, a)
      BY <1>3, <1>5, <1>6, <1>7, <1>8, <2>1, <2>2, <2>6 DEF Outside
    <3>3. \A a : IsHeader(h, a) /\ q < a /\ a <= e => a = n \/ ~h.head[a].pinuse
      <4>1. ASSUME NEW a, IsHeader(h, a), q < a, a <= e
            PROVE  a = n \/ ~h.head[a].pinuse
        <5>1. a \in Int
          BY <1>7, <4>1
        <5>2. CASE a < n
          BY <1>5, <1>6, <1>8, <4>1, <5>1, <5>2
        <5>3. CASE n <= a /\ a < e
          BY <2>6, <4>1, <5>3
        <5>4. CASE a = e
          BY <2>3, <5>4
        <5> QED
          BY <1>3, <2>2, <4>1, <5>1, <5>2, <5>3, <5>4
      <4> QED
        BY <4>1
    <3>4. q < n /\ n <= e /\ q < e
      BY <1>3, <1>5, <1>6, <2>2
    <3>5. \A i \in Segs(h) : InSeg(h, i, q) => InSeg(h, i, e)
      BY <1>3, <1>6, <2>2
    <3> QED
      BY <1>5, <2>2, <2>4, <2>5, <2>7, <3>1, <3>2, <3>3, <3>4, <3>5 DEF MergeRange, n
  <2>9. \A a : IsHeader(h, a) /\ ~Outside(q, e, a) => a = q \/ a = p \/ a = n
    BY <1>3, <1>6, <1>7, <1>8, <2>2, <2>6 DEF Outside
  <2> QED
    BY <1>12, <2>1, <2>2, <2>7, <2>8, <2>9 DEF n
<1> QED
  BY <1>11, <1>12 DEF n

\* The chunks from q to e have become one free chunk, and g says so everywhere.
MergedMemory(h, g, q, e) ==
    /\ g \in HeapSet /\ SameSystem(g, h) /\ g.aborted = h.aborted
    /\ g.head[q] = FreeHead(e - q)
    /\ Size(g, e) = Size(h, e) /\ (g.head[e].cinuse <=> h.head[e].cinuse) /\ ~g.head[e].pinuse
    /\ \A a \in Addr :
          /\ q < a /\ a < e => g.head[a] = Blank /\ g.foot[a] = 0
          /\ a < q \/ e < a => g.head[a] = h.head[a] /\ g.foot[a] = h.foot[a]
    /\ g.foot[q] = h.foot[q]
    /\ IF q <= h.top /\ h.top < e THEN g.top = q /\ g.topsize = e - q /\ g.foot[e] = h.foot[e]
       ELSE SameTop(g, h) /\ g.foot[e] = e - q

Merged(h, g, q, e) == MergedMemory(h, g, q, e) /\ VictimCut(h, g, q, q, e) /\ BinsCut(h, g, q, q, e)

LEMMA MergedSound ==
  ASSUME NEW h, NEW U, NEW X, Sound(h, U, X), NEW p \in U, NEW q, NEW e, MergeRange(h, p, q, e),
         NEW g, Merged(h, g, q, e)
  PROVE  Sound(g, U \ {p}, X \ {Past(h, p)}) /\ SameSizes(h, g, U \ {p})
<1> DEFINE n == Past(h, p)
           Y == X \ {n}
           V == U \ {p}
<1>1. Memory(h, X) /\ Users(h, U) /\ h.aborted = FALSE /\ \A x \in X : x \in Addr /\ h.head[x].pinuse
  BY DEF Sound
<1>2. /\ q \in Addr /\ q \in Int /\ e \in Addr /\ e \in Int /\ q < e /\ IsHeader(h, e) /\ IsChunk(h, q)
      /\ h.head[q].pinuse /\ h.head[e] # Fence /\ \A a \in Addr : a \in Int
      /\ \A i \in Segs(h) : InSeg(h, i, q) => InSeg(h, i, e)
      /\ IF q <= h.top /\ h.top < e THEN ~h.head[e].cinuse ELSE h.head[e].cinuse /\ e - q >= 2
  BY <1>1, HeaderPlace, ChunkIsHeader, Places DEF MergeRange, IsHeader
<1>3. /\ g.head[q].size = e - q /\ ~g.head[q].cinuse /\ g.head[q].pinuse
      /\ MergedMemory(h, g, q, e)
  BY DEF Merged, MergedMemory, FreeHead
<1>4. Recut(h, g, q, q, e)
  <2>1. CutHeads(h, g, q, q, e)
    BY <1>2, <1>3 DEF MergedMemory, CutHeads, Size
  <2> QED
    BY <1>2, <1>3, <2>1, CutIsRecut DEF MergedMemory
<1>5. Recuttable(h, g, q, q, e)
  BY <1>2, <1>3 DEF Recuttable, MinChunk
<1>6. FeetLeft(g, X, Y, q, q, e)
  <2>1. \A a \in X : a \in Y \/ (q < a /\ a <= e)
    BY DEF MergeRange
  <2>2. g.foot[e] = 0 \/ (~g.head[q].cinuse /\ g.top # q)
    <3>1. CASE q <= h.top /\ h.top < e
      <4>1. h.head[e] = FakeHead
        BY <1>1, <1>2, <3>1, TopBefore, ChunkIsHeader
      <4>2. ~h.head[e].cinuse /\ ~h.head[e].pinuse /\ g.foot[e] = h.foot[e]
        BY <1>3, <3>1, <4>1, FixedHeads DEF MergedMemory
      <4>3. e \notin X
        BY <1>1, <4>2
      <4> QED
        BY <1>1, <1>2, <4>2, <4>3 DEF Memory, FeetIn
    <3>2. CASE ~(q <= h.top /\ h.top < e)
      BY <1>2, <1>3, <3>2, TopPlace, <1>1 DEF MergedMemory, SameTop
    <3> QED
      BY <3>1, <3>2
  <2> QED
    BY <2>1, <2>2 DEF FeetLeft
<1>7. \A y \in Y : y \in Addr /\ g.head[y].pinuse
  <2>1. SUFFICES ASSUME NEW y \in Y
                 PROVE  g.head[y].pinuse
    BY <1>1
  <2>2. y \in Addr /\ h.head[y].pinuse /\ y # n /\ IsHeader(h, y) /\ y \in Int
    BY <1>1, <1>2, FixedHeads DEF IsHeader
  <2>3. ~(q < y /\ y <= e)
    BY <2>2 DEF MergeRange
  <2> HIDE DEF Y
  <2> QED
    BY <1>2, <1>3, <2>2, <2>3 DEF MergedMemory
<1>8. UsersCut(h, g, U, V, q, q, e)
  <2>1. p \in U /\ ~IsRecord(h, p)
    BY <1>1 DEF Users
  <2>2. \A a : IsHeader(h, a) /\ ~Outside(q, e, a) => a = p \/ IsFree(h, a)
    BY DEF MergeRange
  <2>3. \A a : IsFree(h, a) => ~IsUsed(h, a)
    BY DEF IsFree, IsUsed
  <2>4. \A a : IsHeader(h, a) /\ q <= a /\ a < e => ~IsRecord(h, a)
    BY <1>1, <1>2, <2>1, <2>2, <2>3 DEF Users, Outside, IsHeader
  <2>5. ~Outside(q, e, p)
    <3>1. IsHeader(h, p) /\ q <= p /\ p < e /\ p \in Int
      <4>1. IsChunk(h, p)
        BY <1>1 DEF Users, IsChunk
      <4>2. p < n /\ n <= e /\ p \in Int /\ n \in Int
        BY <1>1, <4>1, ChunkFacts DEF MergeRange
      <4> QED
        BY <1>2, <4>1, <4>2, ChunkIsHeader DEF MergeRange
    <3> QED
      BY <1>2, <3>1 DEF Outside, IsHeader
  <2>6. \A a \in U : a = p \/ Outside(q, e, a)
    BY <1>1, <2>2, <2>3, ChunkIsHeader DEF Users, IsChunk
  <2>7. UsersAre(g, U, V, q, q, e)
    BY <1>3, <2>5, <2>6 DEF UsersAre
  <2> QED
    BY <1>2, <2>4, <2>7, UsersOfCut
<1> HIDE DEF Y, V, n
<1>9. Sound(g, V, Y) /\ KeptSizes(h, g, U, q, e)
  <2>1. SoundCut(h, g, U, X, V, Y, q, q, e)
    BY <1>1, <1>3, <1>4, <1>5, <1>6, <1>7, <1>8 DEF SoundCut, Merged, MergedMemory
  <2> QED
    BY <2>1, RecutSound
<1>10. SameSizes(h, g, V)
  <2>1. \A a \in V : a \in U /\ Outside(q, e, a)
    <3>1. \A a : a \in V => (a = q /\ g.head[q].cinuse) \/ Outside(q, e, a)
      BY <1>3, <1>8 DEF UsersCut
    <3> QED
      BY <1>3, <3>1 DEF V
  <2> QED
    BY <1>9, <2>1 DEF SameSizes, KeptSizes
<1> QED
  BY <1>9, <1>10 DEF V, Y, n

\* p's free predecessor leaves its bin, and p's own head is gone.
Detached(h, p) ==
    LET q  == FrontOf(h, p)
        ok == Require(h, ok_address(h, q))
    IN  IF h.head[p].pinuse THEN h
        ELSE erase(IF q = h.dv THEN ok ELSE unlink_chunk(ok, q, h.foot[p]), p)

DetachedStep(h, k, p, q) ==
    /\ k \in HeapSet /\ SameSystem(k, h) /\ SameVictim(k, h) /\ SameTop(k, h) /\ k.aborted = h.aborted
    /\ BinsOnce(k)
    /\ \A a \in Addr : /\ k.head[a] = IF a = p /\ p # q THEN Blank ELSE h.head[a]
                       /\ k.foot[a] = IF a = p /\ p # q THEN 0 ELSE h.foot[a]
    /\ \A t \in Sizes : \A a : InBin(k, t, a) <=> InBin(h, t, a) /\ a # q

LEMMA DetachedPart ==
  ASSUME NEW h, NEW U, NEW X, Sound(h, U, X), NEW p \in U, NEW q, q = FrontOf(h, p)
  PROVE  DetachedStep(h, Detached(h, p), p, q)
<1>1. h \in HeapSet /\ BinsOnce(h) /\ Memory(h, X) /\ \A x \in X : h.head[x].pinuse
  BY DEF Sound, Memory, Bins
<1>2. /\ IsUsed(h, p) /\ p \in Addr /\ IsChunk(h, q) /\ q # h.top
      /\ IF h.head[p].pinuse THEN q = p
         ELSE q < p /\ IsFree(h, q) /\ Past(h, q) = p /\ Size(h, q) = h.foot[p]
  BY Front
<1>3. CASE h.head[p].pinuse
  <2>1. Detached(h, p) = h /\ q = p /\ ~IsFree(h, p)
    BY <1>2, <1>3 DEF Detached, IsFree, IsUsed
  <2>2. \A t \in Sizes : \A a : InBin(h, t, a) => a # q
    BY <2>1 DEF Sound, Bins
  <2> QED
    BY <1>1, <2>1, <2>2 DEF DetachedStep, SameSystem, SameVictim, SameTop
<1>4. CASE ~h.head[p].pinuse
  <2> DEFINE k == IF q = h.dv THEN h ELSE unlink_chunk(h, q, Size(h, q))
             g == Detached(h, p)
  <2>1. Require(h, ok_address(h, q)) = h
    BY <1>1, <1>2, AddressOk, ChunkIsHeader DEF Require
  <2>2. g = erase(k, p)
    BY <1>2, <1>4, <2>1 DEF Detached
  <2>3. Size(h, q) \in Sizes /\ p # q
    BY <1>1, <1>2, <1>4, ChunkFacts
  <2>4. /\ BinStep(k, h) /\ k.aborted = h.aborted /\ BinsOnce(k)
        /\ \A t \in Sizes : \A a : InBin(k, t, a) <=> InBin(h, t, a) /\ a # q
    <3>1. CASE q = h.dv
      <4>1. \A t \in Sizes : \A a : InBin(h, t, a) => a # q
        BY <3>1 DEF Sound, Bins
      <4> QED
        BY <1>1, <3>1, <4>1 DEF BinStep, SameSystem, SameVictim, SameTop
    <3>2. CASE q # h.dv
      <4>1. k = unlink_chunk(h, q, Size(h, q))
        BY <3>2
      <4>2. InBin(h, Size(h, q), q)
        BY <1>2, <1>4, <2>3, <3>2 DEF Sound, Bins
      <4>3. \A t \in Sizes : InBin(h, t, q) => t = Size(h, q)
        BY DEF Sound, Bins
      <4> HIDE DEF k
      <4>4. /\ BinStep(k, h) /\ k.aborted = h.aborted /\ BinsOnce(k)
            /\ \A t \in Sizes : \A a : InBin(k, t, a) <=> InBin(h, t, a) /\ ~(t = Size(h, q) /\ a = q)
        BY <1>1, <2>3, <4>1, <4>2, UnlinkChunk
      <4> QED
        BY <4>3, <4>4
    <3> QED
      BY <3>1, <3>2
  <2> HIDE DEF k, g
  <2>5. k \in HeapSet /\ k.head = h.head /\ k.foot = h.foot
    BY <2>4 DEF BinStep
  <2>6. MemoryStep(g, k) /\ g.head = Put(h.head, p, Blank) /\ g.foot = Put(h.foot, p, 0)
    BY <1>2, <2>2, <2>5, Erase
  <2>7. \A a \in Addr : /\ g.head[a] = IF a = p THEN Blank ELSE h.head[a]
                        /\ g.foot[a] = IF a = p THEN 0 ELSE h.foot[a]
    BY <1>1, <1>2, <2>6, Fields DEF Put
  <2>8. /\ g \in HeapSet /\ SameSystem(g, h) /\ SameVictim(g, h) /\ SameTop(g, h) /\ g.aborted = h.aborted
        /\ g.bin = k.bin
    BY <2>4, <2>6 DEF MemoryStep, BinStep, SameSystem, SameVictim, SameTop
  <2> QED
    BY <2>3, <2>4, <2>7, <2>8 DEF DetachedStep, BinsOnce, InBin, g
<1> QED
  BY <1>3, <1>4

\* The merged chunk is what the designated victim has become, or goes to its bin.
Rebinned(h, k, q, s) ==
    IF q = h.dv THEN [k EXCEPT !.dvsize = s] ELSE insert_chunk(k, q, s)

LEMMA RebinnedMerge ==
  ASSUME NEW h, NEW U, NEW X, Sound(h, U, X), NEW p \in U, NEW q, NEW e, MergeRange(h, p, q, e),
         q # h.top, ~(q <= h.top /\ h.top < e), h.dv = q \/ Outside(q, e, h.dv),
         NEW k, MergedMemory(h, k, q, e), SameVictim(k, h), BinsOnce(k),
         \A t \in Sizes : \A a : InBin(k, t, a) <=> InBin(h, t, a) /\ Outside(q, e, a)
  PROVE  Merged(h, Rebinned(h, k, q, e - q), q, e)
<1> DEFINE g == Rebinned(h, k, q, e - q)
<1>1. /\ q \in Int /\ e \in Int /\ q \in Addr /\ e \in Addr /\ q < e /\ e - q \in Sizes /\ ~Outside(q, e, q) /\ q # Null
      /\ e - q \in Int
  <2>1. IsHeader(h, q) /\ IsHeader(h, e) /\ q < e /\ Memory(h, X)
    BY ChunkIsHeader DEF MergeRange, Sound
  <2>2. q \in Int /\ q \in Addr /\ e \in Int /\ e \in Addr /\ q >= Granularity /\ e < Limit
    BY <2>1, HeaderPlace
  <2> QED
    BY <2>1, <2>2, Places DEF Outside, Null
<1>2. /\ k.head[q] = FreeHead(e - q) /\ k \in HeapSet /\ SameTop(k, h) /\ k.dv = h.dv /\ k.dvsize = h.dvsize
  BY DEF MergedMemory, SameVictim
<1>3. IsFree(k, q) /\ Size(k, q) = e - q
  BY <1>1, <1>2 DEF IsFree, Size, FreeHead
<1>4. CASE q = h.dv
  <2>1. g = WithVictim(k, q, e - q)
    BY <1>2, <1>4 DEF Rebinned, WithVictim, HeapSet
  <2> HIDE DEF g
  <2>2. VictimStep(g, k, q, e - q)
    BY <1>1, <1>2, <2>1, VictimWritten
  <2>3. MergedMemory(h, g, q, e)
    BY <2>2 DEF VictimStep, MergedMemory, SameSystem, SameTop, Size
  <2>4. IsFree(g, q) /\ Size(g, q) = e - q /\ q # g.top /\ g.dv = q /\ g.dvsize = e - q
    BY <1>2, <1>3, <2>2 DEF VictimStep, IsFree, Size, SameTop
  <2>5. VictimCut(h, g, q, q, e)
    BY <2>4 DEF VictimCut
  <2>6. BinsCut(h, g, q, q, e)
    BY <1>1, <1>4, <2>2, <2>4 DEF BinsCut, VictimStep, InBin, BinsOnce
  <2> QED
    BY <2>3, <2>5, <2>6 DEF Merged, g
<1>5. CASE q # h.dv
  <2>1. g = insert_chunk(k, q, e - q)
    BY <1>5 DEF Rebinned
  <2> HIDE DEF g
  <2>2. ~InBin(k, e - q, q)
    BY <1>1
  <2>3. /\ BinStep(g, k) /\ g.aborted = k.aborted /\ BinsOnce(g)
        /\ \A t \in Sizes : \A a : InBin(g, t, a) <=> InBin(k, t, a) \/ (t = e - q /\ a = q)
    BY <1>1, <1>2, <2>1, <2>2, InsertChunk
  <2>4. MergedMemory(h, g, q, e)
    BY <2>3 DEF BinStep, MergedMemory, SameSystem, SameTop, Size
  <2>5. IsFree(g, q) /\ Size(g, q) = e - q /\ q # g.top /\ g.dv = h.dv /\ SameVictim(g, h)
    BY <1>2, <1>3, <2>3 DEF BinStep, IsFree, Size, SameTop, SameVictim
  <2>6. Outside(q, e, h.dv)
    BY <1>5
  <2>7. VictimCut(h, g, q, q, e)
    BY <2>5, <2>6 DEF VictimCut
  <2>8. BinsCut(h, g, q, q, e)
    BY <1>1, <1>5, <2>3, <2>5 DEF BinsCut
  <2> QED
    BY <2>4, <2>7, <2>8 DEF Merged, g
<1> QED
  BY <1>4, <1>5

\* In which heads and feet a merge with the free chunk behind ends.
LEMMA SetFreeTo ==
  ASSUME NEW h \in HeapSet, NEW p \in Addr, NEW e \in Addr
  PROVE  LET g == set_size_and_pinuse_of_free_chunk(h, p, e - p)
         IN  /\ MemoryStep(g, h) /\ g.head = Put(h.head, p, FreeHead(e - p))
             /\ g.foot = Put(h.foot, e, e - p)
<1> DEFINE s == e - p
<1>1. s \in Int /\ p + s = e
  BY Places
<1> HIDE DEF s
<1>2. LET g == set_size_and_pinuse_of_free_chunk(h, p, s)
      IN  /\ MemoryStep(g, h) /\ g.head = Put(h.head, p, FreeHead(s))
          /\ g.foot = Put(h.foot, p + s, s)
  BY <1>1, SetFree
<1> QED
  BY <1>1, <1>2 DEF s

\* The same headers and feet, the same top.
SameMemory(g, h) ==
    /\ g \in HeapSet /\ g.head = h.head /\ g.foot = h.foot /\ SameSystem(g, h) /\ SameTop(g, h)
    /\ g.aborted = h.aborted

LEMMA MergedWithNext ==
  ASSUME NEW h, NEW U, NEW X, Sound(h, U, X), NEW p \in U, NEW q, q = FrontOf(h, p),
         NEW n, n = Past(h, p), IsFree(h, n), n # h.top, NEW e, e = Past(h, n),
         NEW h1, DetachedStep(h, h1, p, q),
         NEW h2, SameMemory(h2, h1)
  PROVE  LET k == set_size_and_pinuse_of_free_chunk(erase(h2, n), q, e - q)
         IN  MergedMemory(h, k, q, e) /\ SameVictim(k, h2) /\ k.bin = h2.bin
<1> DEFINE k == set_size_and_pinuse_of_free_chunk(erase(h2, n), q, e - q)
           h3 == erase(h2, n)
<1> USE DEF SameMemory
<1>1. Memory(h, X) /\ \A x \in X : h.head[x].pinuse
  BY DEF Sound
<1>2. e = BackOf(h, p) /\ IsChunk(h, n) /\ ~h.head[n].cinuse
  BY DEF BackOf, IsFree, IsChunk
<1>3. MergeRange(h, p, q, e) /\ (\A a : IsHeader(h, a) /\ ~Outside(q, e, a) => a = q \/ a = p \/ a = n)
      /\ ~(q <= h.top /\ h.top < e)
  BY <1>2, MergedRange
<1>4. /\ n \in Addr /\ n \in Int /\ e \in Addr /\ e \in Int /\ n < e /\ Size(h, n) \in Int /\ e = n + Size(h, n)
      /\ Empty(h, n, e) /\ ~h.head[e].pinuse
  <2>1. /\ n \in Addr /\ n \in Int /\ e \in Addr /\ e \in Int /\ Size(h, n) \in Int /\ e = n + Size(h, n)
        /\ Empty(h, n, e) /\ Size(h, n) > 0
    BY <1>1, <1>2, ChunkFacts
  <2>2. ~h.head[e].pinuse
    BY <1>1, <2>1 DEF Memory, TagsAgree
  <2> QED
    BY <2>1, <2>2
<1>5. /\ IsUsed(h, p) /\ IsChunk(h, p) /\ p \in Int /\ p \in Addr /\ IsChunk(h, q) /\ q \in Int /\ q \in Addr /\ q <= p
      /\ p < n /\ Empty(h, p, n) /\ (q # p => Empty(h, q, p))
  <2>1. IsUsed(h, p) /\ IsChunk(h, q) /\ (q # p => Past(h, q) = p) /\ q <= p /\ IsChunk(h, p)
    BY Front DEF IsChunk
  <2> QED
    BY <1>1, <2>1, ChunkFacts
<1>6. /\ \A a \in Addr : /\ h1.head[a] = IF a = p /\ p # q THEN Blank ELSE h.head[a]
                         /\ h1.foot[a] = IF a = p /\ p # q THEN 0 ELSE h.foot[a]
      /\ h1 \in HeapSet /\ SameSystem(h1, h) /\ SameTop(h1, h) /\ h1.aborted = h.aborted
  BY DEF DetachedStep
<1>7. MemoryStep(h3, h2) /\ h3.head = Put(h2.head, n, Blank) /\ h3.foot = Put(h2.foot, n, 0)
  BY <1>4, Erase
<1>8. h3 \in HeapSet /\ q + (e - q) = e /\ e - q \in Int
  BY <1>4, <1>5, <1>7 DEF MemoryStep
<1>0. k = set_size_and_pinuse_of_free_chunk(h3, q, e - q)
  OBVIOUS
<1> HIDE DEF h3, k
<1>9. MemoryStep(k, h3) /\ k.head = Put(h3.head, q, FreeHead(e - q)) /\ k.foot = Put(h3.foot, e, e - q)
  BY <1>0, <1>4, <1>5, <1>8, SetFreeTo, SMTT(60)
<1>10. /\ \A a \in Addr : k.head[a] = IF a = q THEN FreeHead(e - q) ELSE IF a = n THEN Blank ELSE h1.head[a]
       /\ \A a \in Addr : k.foot[a] = IF a = e THEN e - q ELSE IF a = n THEN 0 ELSE h1.foot[a]
  BY <1>4, <1>5, <1>6, <1>7, <1>9, Fields DEF Put
<1>11. MemoryStep(k, h2)
  BY <1>7, <1>9, MemoryStepsCompose
<1>12. /\ k.head[q] = FreeHead(e - q) /\ k.foot[e] = e - q /\ k.head[e] = h.head[e]
  BY <1>4, <1>5, <1>6, <1>10
<1>13. \A a \in Addr :
          /\ q < a /\ a < e => k.head[a] = Blank /\ k.foot[a] = 0
          /\ a < q \/ e < a => k.head[a] = h.head[a] /\ k.foot[a] = h.foot[a]
  <2>1. ASSUME NEW a \in Addr, q < a, a < e
        PROVE  k.head[a] = Blank /\ k.foot[a] = 0
    <3>1. a \in Int
      BY Places
    <3>2. CASE a = n \/ (a = p /\ p # q)
      BY <1>4, <1>5, <1>6, <1>10, <2>1, <3>2
    <3>3. CASE a # n /\ a # p
      <4>1. h.head[a] = Blank /\ h.foot[a] = 0
        BY <1>4, <1>5, <2>1, <3>1, <3>3 DEF Empty
      <4> QED
        BY <1>4, <1>5, <1>6, <1>10, <2>1, <3>1, <3>3, <4>1
    <3> QED
      BY <1>5, <2>1, <3>1, <3>2, <3>3
  <2>2. ASSUME NEW a \in Addr, a < q \/ e < a
        PROVE  k.head[a] = h.head[a] /\ k.foot[a] = h.foot[a]
    <3>1. a \in Int
      BY Places
    <3>2. a # q /\ a # p /\ a # n /\ a # e
      BY <1>4, <1>5, <2>2, <3>1
    <3> QED
      BY <1>6, <1>10, <3>2
  <2> QED
    BY <2>1, <2>2
<1>14. k.foot[q] = h.foot[q]
  BY <1>4, <1>5, <1>6, <1>10
<1>15. /\ k \in HeapSet /\ SameSystem(k, h) /\ SameTop(k, h) /\ k.aborted = h.aborted
       /\ SameVictim(k, h2) /\ k.bin = h2.bin
  BY <1>6, <1>11 DEF MemoryStep, SameSystem, SameTop, SameVictim
<1>16. MergedMemory(h, k, q, e)
  BY <1>3, <1>4, <1>12, <1>13, <1>14, <1>15 DEF MergedMemory, Size
<1> QED
  BY <1>15, <1>16 DEF k

MergedIntoTop(h, h1, q, n) ==
    [set_head(erase(h1, n), q, h.topsize + (n - q), FALSE, TRUE) EXCEPT
        !.top = q, !.topsize = h.topsize + (n - q),
        !.dv = IF q = h.dv THEN Null ELSE @,
        !.dvsize = IF q = h.dv THEN 0 ELSE @]

MergedIntoDv(h, h1, q, n) ==
    [set_size_and_pinuse_of_free_chunk(erase(h1, n), q, h.dvsize + (n - q))
        EXCEPT !.dv = q, !.dvsize = h.dvsize + (n - q)]

LEMMA ConsolidateCases ==
  ASSUME NEW h, NEW p \in Int, NEW q \in Int, q = FrontOf(h, p), NEW n \in Int, n = p + Size(h, p),
         Size(h, p) \in Int,
         h.head[p].pinuse => q # h.dv,
         h.head[n].cinuse => h.head[n].pinuse,
         NEW g, g = consolidate(h, p, Size(h, p)).heap
  PROVE  LET h1 == Detached(h, p)
         IN  /\ h.head[n].cinuse => g = Rebinned(h, set_free_with_pinuse(h1, q, n - q, n), q, n - q)
             /\ ~h.head[n].cinuse /\ n = h.top => g = MergedIntoTop(h, h1, q, n)
             /\ ~h.head[n].cinuse /\ n # h.top /\ n = h.dv => g = MergedIntoDv(h, h1, q, n)
             /\ ~h.head[n].cinuse /\ n # h.top /\ n # h.dv =>
                   g = Rebinned(h, set_size_and_pinuse_of_free_chunk(
                                      erase(unlink_chunk(h1, n, h.head[n].size), n),
                                      q, (n - q) + h.head[n].size),
                                q, (n - q) + h.head[n].size)
<1> DEFINE back == ~h.head[p].pinuse
           toDv == back /\ q = h.dv
<1>1. toDv <=> q = h.dv
  OBVIOUS
<1>2. q = IF back THEN p - h.foot[p] ELSE p
  BY DEF FrontOf
<1>3. Detached(h, p) = IF ~back THEN h
                       ELSE LET ok == Require(h, ok_address(h, q))
                            IN  erase(IF toDv THEN ok ELSE unlink_chunk(ok, q, h.foot[p]), p)
  BY DEF Detached
<1> DEFINE h1 == Detached(h, p)
           size == p + Size(h, p) - q
           nsize == h.head[n].size
<1>4. size = n - q
  BY SMTT(60)
<1>5. consolidate(h, p, Size(h, p)) =
         IF h.head[n].cinuse
         THEN LET freed == set_free_with_pinuse(h1, q, size, n)
              IN  IF toDv /\ h.head[n].pinuse
                  THEN [heap |-> [freed EXCEPT !.dvsize = size], into |-> "dv"]
                  ELSE [heap |-> insert_chunk(freed, q, size), into |-> "bin"]
         ELSE IF n = h.top
         THEN [heap |-> [set_head(erase(h1, n), q, h.topsize + size, FALSE, TRUE) EXCEPT
                           !.top = q, !.topsize = h.topsize + size,
                           !.dv = IF toDv THEN Null ELSE @,
                           !.dvsize = IF toDv THEN 0 ELSE @],
               into |-> "top"]
         ELSE IF n = h.dv
         THEN [heap |-> [set_size_and_pinuse_of_free_chunk(erase(h1, n), q, h.dvsize + size)
                           EXCEPT !.dv = q, !.dvsize = h.dvsize + size],
               into |-> "dv"]
         ELSE LET merged == set_size_and_pinuse_of_free_chunk(
                                 erase(unlink_chunk(h1, n, nsize), n), q, size + nsize)
              IN  IF toDv
                  THEN [heap |-> [merged EXCEPT !.dvsize = size + nsize], into |-> "dv"]
                  ELSE [heap |-> insert_chunk(merged, q, size + nsize), into |-> "bin"]
  BY <1>2, <1>3 DEF consolidate
<1> HIDE DEF h1
<1>6. CASE h.head[n].cinuse
  BY <1>1, <1>4, <1>5, <1>6 DEF Rebinned, h1
<1>7. CASE ~h.head[n].cinuse /\ n = h.top
  <2>1. g = [set_head(erase(h1, n), q, h.topsize + size, FALSE, TRUE) EXCEPT
                !.top = q, !.topsize = h.topsize + size,
                !.dv = IF toDv THEN Null ELSE @,
                !.dvsize = IF toDv THEN 0 ELSE @]
    BY <1>5, <1>7
  <2> HIDE DEF size, toDv
  <2>2. CASE toDv
    BY <1>1, <1>4, <1>7, <2>1, <2>2 DEF h1, MergedIntoTop
  <2>3. CASE ~toDv
    BY <1>1, <1>4, <1>7, <2>1, <2>3 DEF h1, MergedIntoTop
  <2> QED
    BY <2>2, <2>3
<1>8. CASE ~h.head[n].cinuse /\ n # h.top /\ n = h.dv
  <2>1. g = [set_size_and_pinuse_of_free_chunk(erase(h1, n), q, h.dvsize + size)
                EXCEPT !.dv = q, !.dvsize = h.dvsize + size]
    BY <1>5, <1>8
  <2> HIDE DEF size
  <2> QED
    BY <1>4, <1>8, <2>1 DEF h1, MergedIntoDv
<1>9. CASE ~h.head[n].cinuse /\ n # h.top /\ n # h.dv
  BY <1>1, <1>4, <1>5, <1>9 DEF Rebinned, h1
<1> QED
  BY <1>6, <1>7, <1>8, <1>9

\* Which free chunks a merge takes in.
LEMMA MergedFree ==
  ASSUME NEW h, NEW U, NEW X, Sound(h, U, X), NEW p \in U, NEW q, q = FrontOf(h, p), NEW e, e = BackOf(h, p),
         NEW n, n = Past(h, p), NEW a, IsFree(h, a)
  PROVE  Outside(q, e, a) <=> a # q /\ ~(a = n /\ ~h.head[n].cinuse)
<1>1. Memory(h, X) /\ \A x \in X : h.head[x].pinuse
  BY DEF Sound
<1>2. /\ MergeRange(h, p, q, e)
      /\ \A b : IsHeader(h, b) /\ ~Outside(q, e, b) => b = q \/ b = p \/ b = n
      /\ ~h.head[n].cinuse => IsFree(h, n) /\ n < e
  BY MergedRange
<1>3. IsHeader(h, a) /\ IsUsed(h, p) /\ IsHeader(h, q) /\ IsHeader(h, e) /\ q < e /\ q <= p /\ q < n
  BY <1>2, Front, ChunkIsHeader DEF IsChunk, MergeRange
<1>4. a \in Int /\ q \in Int /\ e \in Int /\ n \in Int
  <2>1. IsHeader(h, n)
    BY <1>1, <1>3, ChunkFacts DEF IsChunk
  <2> QED
    BY <1>1, <1>3, <2>1, HeaderPlace
<1>5. a # p
  BY <1>3 DEF IsUsed, IsFree
<1>6. ASSUME Outside(q, e, a)
      PROVE  a # q /\ ~(a = n /\ ~h.head[n].cinuse)
  BY <1>2, <1>3, <1>4, <1>6 DEF Outside
<1>7. ASSUME ~Outside(q, e, a)
      PROVE  a = q \/ (a = n /\ ~h.head[n].cinuse)
  BY <1>2, <1>3, <1>5, <1>7 DEF IsFree
<1> QED
  BY <1>6, <1>7

LEMMA Consolidated ==
  ASSUME NEW h, NEW U, NEW X, Sound(h, U, X), NEW p \in U, NEW g, g = consolidate(h, p, Size(h, p)).heap
  PROVE  Sound(g, U \ {p}, X \ {Past(h, p)}) /\ SameSizes(h, g, U \ {p}) /\ SameSystem(g, h)
<1> DEFINE q  == FrontOf(h, p)
           n  == Past(h, p)
           e  == BackOf(h, p)
           h1 == Detached(h, p)
<1>1. Memory(h, X) /\ Bins(h) /\ Victim(h) /\ h \in HeapSet /\ \A x \in X : h.head[x].pinuse
  BY DEF Sound, Memory
<1>2. DetachedStep(h, h1, p, q)
  BY DetachedPart
<1>3. /\ MergeRange(h, p, q, e)
      /\ (q <= h.top /\ h.top < e) <=> (~h.head[n].cinuse /\ n = h.top)
      /\ ~h.head[n].cinuse => IsFree(h, n) /\ n < e
  BY MergedRange
<1>4. /\ IsUsed(h, p) /\ IsChunk(h, p) /\ IsChunk(h, q) /\ q # h.top /\ q <= p
      /\ h.head[p].pinuse => q = p
      /\ ~h.head[p].pinuse => q < p /\ IsFree(h, q) /\ Past(h, q) = p
  BY Front DEF IsChunk
<1>5. /\ p \in Addr /\ p \in Int /\ n \in Addr /\ n \in Int /\ n = p + Size(h, p) /\ Size(h, p) \in Int
      /\ Size(h, p) > 0 /\ Empty(h, p, n) /\ IsHeader(h, n) /\ q \in Int /\ q \in Addr /\ q > 0 /\ p > 0
      /\ q # p => Empty(h, q, p)
  BY <1>1, <1>4, ChunkFacts
<1>6. h.head[n].cinuse => h.head[n].pinuse
  BY <1>1, <1>4, <1>5 DEF Memory, TagsAgree
<1>7. h.head[p].pinuse => q # h.dv
  BY <1>1, <1>4, <1>5 DEF Victim, IsFree, IsUsed, Null
<1>0. q = FrontOf(h, p) /\ n = Past(h, p) /\ e = BackOf(h, p) /\ h1 = Detached(h, p)
  OBVIOUS
<1> HIDE DEF q, n, e, h1
<1>8. /\ h.head[n].cinuse => g = Rebinned(h, set_free_with_pinuse(h1, q, n - q, n), q, n - q)
      /\ ~h.head[n].cinuse /\ n = h.top => g = MergedIntoTop(h, h1, q, n)
      /\ ~h.head[n].cinuse /\ n # h.top /\ n = h.dv => g = MergedIntoDv(h, h1, q, n)
      /\ ~h.head[n].cinuse /\ n # h.top /\ n # h.dv =>
            g = Rebinned(h, set_size_and_pinuse_of_free_chunk(
                               erase(unlink_chunk(h1, n, h.head[n].size), n),
                               q, (n - q) + h.head[n].size),
                         q, (n - q) + h.head[n].size)
  BY <1>0, <1>5, <1>6, <1>7, ConsolidateCases
<1>9. /\ \A t \in Sizes : \A a : InBin(h, t, a) =>
            IsFree(h, a) /\ (Outside(q, e, a) <=> a # q /\ ~(a = n /\ ~h.head[n].cinuse))
      /\ h.dv = Null \/ (IsFree(h, h.dv) /\ (Outside(q, e, h.dv) <=> h.dv # q /\ ~(h.dv = n /\ ~h.head[n].cinuse)))
  BY <1>0, <1>1, MergedFree DEF Bins, Victim
<1>10. h.dv = Null => Outside(q, e, h.dv)
  BY <1>4, <1>1, ChunkFacts DEF Outside, Null
<1>11. e \in Addr /\ e \in Int /\ e < Limit
  BY <1>1, <1>3, HeaderPlace DEF MergeRange
<1>12. e = IF h.head[n].cinuse THEN n ELSE n + Size(h, n)
  BY <1>0 DEF BackOf, Past, Size
<1>13. /\ h1 \in HeapSet /\ SameSystem(h1, h) /\ SameVictim(h1, h) /\ SameTop(h1, h) /\ h1.aborted = h.aborted
       /\ BinsOnce(h1)
       /\ \A a \in Addr : /\ h1.head[a] = IF a = p /\ p # q THEN Blank ELSE h.head[a]
                          /\ h1.foot[a] = IF a = p /\ p # q THEN 0 ELSE h.foot[a]
       /\ \A t \in Sizes : \A a : InBin(h1, t, a) <=> InBin(h, t, a) /\ a # q
  BY <1>2 DEF DetachedStep
<1>14. n - q \in Int /\ q + (n - q) = n /\ q < n
  BY <1>4, <1>5
<1>15. CASE h.head[n].cinuse
  <2> DEFINE k == set_free_with_pinuse(h1, q, n - q, n)
  <2>1. g = Rebinned(h, k, q, e - q) /\ e = n
    BY <1>8, <1>12, <1>15
  <2>2. /\ MemoryStep(k, h1)
        /\ k.head = Put(Put(h1.head, n, BehindFree(h1.head[n])), q, FreeHead(n - q))
        /\ k.foot = Put(h1.foot, n, n - q)
    BY <1>5, <1>13, <1>14, SetFreeWithPinuse
  <2> HIDE DEF k
  <2>3. h1.head[n] = h.head[n] /\ h1.head[n] \in HeadSet
    BY <1>4, <1>5, <1>13, <1>14, HeadTypes
  <2>4. \A a \in Addr : /\ k.head[a] = IF a = q THEN FreeHead(n - q) ELSE IF a = n THEN BehindFree(h.head[n]) ELSE h1.head[a]
                        /\ k.foot[a] = IF a = n THEN n - q ELSE h1.foot[a]
    BY <1>5, <1>13, <2>2, <2>3, Fields DEF Put
  <2>5. /\ BehindFree(h.head[n]).size = h.head[n].size /\ ~BehindFree(h.head[n]).pinuse
        /\ BehindFree(h.head[n]).cinuse <=> h.head[n].cinuse
    BY <2>3 DEF BehindFree, HeadSet
  <2>6. /\ k.head[q] = FreeHead(n - q) /\ k.foot[n] = n - q /\ k.head[n] = BehindFree(h.head[n]) /\ k.foot[q] = h.foot[q]
    BY <1>4, <1>5, <1>13, <1>14, <2>4
  <2>7. ASSUME NEW a \in Addr
        PROVE  /\ q < a /\ a < n => k.head[a] = Blank /\ k.foot[a] = 0
               /\ a < q \/ n < a => k.head[a] = h.head[a] /\ k.foot[a] = h.foot[a]
    <3>1. a \in Int
      BY Places
    <3>2. CASE q < a /\ a < n
      <4>1. CASE a = p
        BY <1>13, <2>4, <3>2, <4>1, <1>5, <1>14
      <4>2. CASE a # p
        <5>1. h.head[a] = Blank /\ h.foot[a] = 0
          BY <1>4, <1>5, <3>1, <3>2, <4>2 DEF Empty
        <5> QED
          BY <1>13, <1>14, <2>4, <3>1, <3>2, <4>2, <5>1, <1>5
      <4> QED
        BY <1>14, <3>2, <4>1, <4>2, <3>1, <1>5
    <3>3. CASE a < q \/ n < a
      <4>1. a # q /\ a # n /\ a # p
        BY <1>4, <1>5, <1>14, <3>1, <3>3
      <4> QED
        BY <1>13, <2>4, <3>1, <3>3, <4>1, <1>5, <1>14
    <3> QED
      BY <3>2, <3>3
  <2>8. SameTop(k, h) /\ SameVictim(k, h) /\ SameSystem(k, h) /\ k.aborted = h.aborted /\ k \in HeapSet /\ k.bin = h1.bin
    BY <1>13, <2>2 DEF MemoryStep, SameTop, SameVictim, SameSystem
  <2>9. MergedMemory(h, k, q, e)
    BY <1>3, <1>15, <2>1, <2>5, <2>6, <2>7, <2>8 DEF MergedMemory, Size
  <2>10. BinsOnce(k) /\ \A t \in Sizes : \A a : InBin(k, t, a) <=> InBin(h, t, a) /\ Outside(q, e, a)
    <3>1. BinsOnce(k)
      BY <1>13, <2>8 DEF BinsOnce
    <3>2. \A t \in Sizes : \A a : InBin(k, t, a) <=> InBin(h, t, a) /\ a # q
      BY <1>13, <2>8 DEF InBin
    <3> QED
      BY <1>9, <1>15, <3>1, <3>2
  <2>11. h.dv = q \/ Outside(q, e, h.dv)
    BY <1>9, <1>10, <1>15
  <2>12. ~(q <= h.top /\ h.top < e)
    BY <1>3, <1>15
  <2>13. Merged(h, Rebinned(h, k, q, e - q), q, e)
    BY <1>3, <1>4, <2>8, <2>9, <2>10, <2>11, <2>12, RebinnedMerge
  <2>14. Merged(h, g, q, e)
    BY <2>1, <2>13
  <2>15. Sound(g, U \ {p}, X \ {Past(h, p)}) /\ SameSizes(h, g, U \ {p})
    BY <1>3, <2>14, MergedSound
  <2> QED
    BY <2>14, <2>15 DEF Merged, MergedMemory
<1>16. ASSUME ~h.head[n].cinuse
       PROVE  /\ IsFree(h, n) /\ n < e /\ e = n + Size(h, n) /\ Size(h, n) \in Int /\ Size(h, n) \in Sizes
              /\ Size(h, n) + (n - q) = e - q /\ (n - q) + Size(h, n) = e - q /\ q # n /\ ~Outside(q, e, n)
              /\ e = Past(h, n) /\ Empty(h, n, e) /\ ~h.head[e].pinuse /\ e - q \in Int
  <2>1. IsFree(h, n) /\ n < e /\ e = n + Size(h, n)
    BY <1>3, <1>12, <1>16
  <2>2. Size(h, n) \in Int /\ e = Past(h, n) /\ Empty(h, n, e) /\ Size(h, n) \in Sizes
    BY <1>1, <2>1, ChunkFacts DEF IsChunk
  <2>3. ~h.head[e].pinuse
    BY <1>1, <1>5, <2>1, <2>2 DEF Memory, TagsAgree
  <2> QED
    BY <1>5, <1>11, <1>14, <2>1, <2>2, <2>3 DEF Outside
<1>17. CASE ~h.head[n].cinuse /\ n = h.top
  <2>1. h.topsize = Size(h, n) /\ h.topsize + (n - q) = e - q
    <3>1. h.topsize = Size(h, n)
      <4>1. h.segs # <<>>
        <5>1. n # Null
          BY <1>5, <1>14 DEF Null
        <5> QED
          BY <1>1, <1>17, <5>1 DEF Memory, TopIn
      <4> QED
        BY <1>1, <1>17, <4>1 DEF Memory, TopIn
    <3> QED
      BY <1>16, <1>17, <3>1
  <2> DEFINE h2 == erase(h1, n)
             k  == set_head(h2, q, e - q, FALSE, TRUE)
             v  == IF q = h.dv THEN Null ELSE h.dv
             vs == IF q = h.dv THEN 0 ELSE h.dvsize
  <2>2. MemoryStep(h2, h1) /\ h2.head = Put(h1.head, n, Blank) /\ h2.foot = Put(h1.foot, n, 0)
    BY <1>5, <1>13, Erase
  <2>0. k = set_head(h2, q, e - q, FALSE, TRUE) /\ h2 = erase(h1, n)
    OBVIOUS
  <2> HIDE DEF h2, k
  <2>3. h2 \in HeapSet
    BY <2>2 DEF MemoryStep
  <2>4. MemoryStep(k, h2) /\ k.head = Put(h2.head, q, FreeHead(e - q)) /\ k.foot = h2.foot
    BY <2>0, <1>5, <1>16, <1>17, <2>3, SetFreeHead
  <2>5. MemoryStep(k, h1)
    BY <2>2, <2>4, MemoryStepsCompose
  <2>6. k \in HeapSet /\ k.dv = h.dv /\ k.dvsize = h.dvsize /\ k.bin = h1.bin /\ SameSystem(k, h) /\ k.aborted = h.aborted
    BY <1>13, <2>5 DEF MemoryStep, SameVictim, SameSystem
  <2>7. v \in Int /\ vs \in Int
    BY <1>1 DEF HeapSet, Null
  <2>8. g = WithTop(WithVictim(k, v, vs), q, e - q)
    <3>1. g = [k EXCEPT !.top = q, !.topsize = e - q,
                        !.dv = IF q = h.dv THEN Null ELSE @,
                        !.dvsize = IF q = h.dv THEN 0 ELSE @]
      BY <1>8, <1>17, <2>0, <2>1 DEF MergedIntoTop
    <3>2. CASE q = h.dv
      <4>1. g = [k EXCEPT !.top = q, !.topsize = e - q, !.dv = v, !.dvsize = vs]
        BY <3>1, <3>2
      <4> QED
        BY <2>6, <4>1 DEF WithTop, WithVictim, HeapSet
    <3>3. CASE q # h.dv
      <4>1. g = [k EXCEPT !.top = q, !.topsize = e - q, !.dv = v, !.dvsize = vs]
        BY <2>6, <3>1, <3>3
      <4> QED
        BY <2>6, <4>1 DEF WithTop, WithVictim, HeapSet
    <3> QED
      BY <3>2, <3>3
  <2> HIDE DEF v, vs
  <2>9. VictimStep(WithVictim(k, v, vs), k, v, vs)
    BY <2>6, <2>7, VictimWritten
  <2>10. TopStep(g, WithVictim(k, v, vs), q, e - q)
    BY <1>5, <1>16, <1>17, <2>8, <2>9, TopWritten DEF VictimStep
  <2>11. /\ g \in HeapSet /\ g.head = k.head /\ g.foot = k.foot /\ g.bin = h1.bin /\ g.top = q /\ g.topsize = e - q
         /\ g.dv = v /\ g.dvsize = vs /\ SameSystem(g, h) /\ g.aborted = h.aborted
    BY <2>6, <2>9, <2>10 DEF VictimStep, TopStep, SameSystem, SameVictim
  <2>12. \A a \in Addr :
            /\ g.head[a] = IF a = q THEN FreeHead(e - q) ELSE IF a = n THEN Blank ELSE h1.head[a]
            /\ g.foot[a] = IF a = n THEN 0 ELSE h1.foot[a]
    BY <1>5, <1>13, <2>2, <2>3, <2>4, <2>11, Fields DEF Put
  <2>13. /\ g.head[q] = FreeHead(e - q) /\ g.head[e] = h.head[e] /\ g.foot[q] = h.foot[q] /\ g.foot[e] = h.foot[e]
    BY <1>4, <1>5, <1>11, <1>13, <1>14, <1>16, <1>17, <2>12
  <2>14. ASSUME NEW a \in Addr
         PROVE  /\ q < a /\ a < e => g.head[a] = Blank /\ g.foot[a] = 0
                /\ a < q \/ e < a => g.head[a] = h.head[a] /\ g.foot[a] = h.foot[a]
    <3>1. a \in Int
      BY Places
    <3>2. CASE q < a /\ a < e
      <4>1. CASE a = p \/ a = n
        BY <1>13, <2>12, <3>2, <4>1, <1>5, <1>14, <1>16, <1>17, <1>11
      <4>2. CASE a # p /\ a # n
        <5>1. h.head[a] = Blank /\ h.foot[a] = 0
          BY <1>4, <1>5, <1>11, <1>16, <1>17, <3>1, <3>2, <4>2 DEF Empty
        <5> QED
          BY <1>13, <1>14, <2>12, <3>1, <3>2, <4>2, <5>1, <1>5
      <4> QED
        BY <4>1, <4>2
    <3>3. CASE a < q \/ e < a
      <4>1. a # q /\ a # n /\ a # p /\ a # e
        BY <1>4, <1>5, <1>11, <1>14, <1>16, <1>17, <3>1, <3>3
      <4> QED
        BY <1>5, <1>11, <1>13, <1>14, <1>16, <1>17, <2>12, <3>3, <4>1
    <3> QED
      BY <3>2, <3>3
  <2>15. q <= h.top /\ h.top < e
    BY <1>3, <1>17
  <2>16. MergedMemory(h, g, q, e)
    BY <1>16, <1>17, <2>11, <2>13, <2>14, <2>15 DEF MergedMemory, Size
  <2>17. VictimCut(h, g, q, q, e)
    <3>1. CASE q = h.dv
      BY <2>11, <3>1 DEF VictimCut, v, vs
    <3>2. CASE q # h.dv
      <4>1. h.dv # h.top
        BY <1>1, <1>14, <1>17, <1>5 DEF Victim, Null
      <4>2. Outside(q, e, h.dv)
        BY <1>9, <1>10, <1>17, <3>2, <4>1
      <4> QED
        BY <2>11, <3>2, <4>2 DEF VictimCut, SameVictim, v, vs
    <3> QED
      BY <3>1, <3>2
  <2>18. BinsCut(h, g, q, q, e)
    <3>1. BinsOnce(g)
      BY <1>13, <2>11 DEF BinsOnce
    <3>2. \A t \in Sizes : \A a : InBin(g, t, a) <=> InBin(h, t, a) /\ a # q
      BY <1>13, <2>11 DEF InBin
    <3>3. \A t \in Sizes : \A a : InBin(h, t, a) => a # n
      BY <1>1, <1>17 DEF Bins
    <3>4. ~Outside(q, e, q)
      BY <1>5, <1>11, <1>14, <1>16, <1>17 DEF Outside
    <3>5. \A a : ~(a = h.dv /\ Outside(q, e, a) /\ g.dv # a)
      BY <2>11, <3>4 DEF v
    <3> QED
      BY <1>9, <2>11, <3>1, <3>2, <3>3, <3>5 DEF BinsCut
  <2>19. Merged(h, g, q, e)
    BY <2>16, <2>17, <2>18 DEF Merged
  <2>20. Sound(g, U \ {p}, X \ {Past(h, p)}) /\ SameSizes(h, g, U \ {p})
    BY <1>3, <2>19, MergedSound
  <2> QED
    BY <2>11, <2>20
<1>18. CASE ~h.head[n].cinuse /\ n # h.top /\ n = h.dv
  <2>1. h.dvsize = Size(h, n) /\ h.dvsize + (n - q) = e - q
    <3>1. h.dvsize = Size(h, n)
      BY <1>1, <1>5, <1>14, <1>18 DEF Victim, Null
    <3> QED
      BY <1>16, <1>18, <3>1
  <2> DEFINE k == set_size_and_pinuse_of_free_chunk(erase(h1, n), q, e - q)
  <2>2. MergedMemory(h, k, q, e) /\ SameVictim(k, h1) /\ k.bin = h1.bin
    <3> DEFINE h2 == h1
    <3>1. IsFree(h, n) /\ e = Past(h, n) /\ n # h.top
      BY <1>16, <1>18
    <3>2. SameMemory(h2, h1)
      BY <1>13 DEF SameMemory, SameSystem, SameTop
    <3> HIDE DEF h2
    <3>3. LET j == set_size_and_pinuse_of_free_chunk(erase(h2, n), q, e - q)
          IN  MergedMemory(h, j, q, e) /\ SameVictim(j, h2) /\ j.bin = h2.bin
      BY <1>0, <1>2, <3>1, <3>2, MergedWithNext
    <3> QED
      BY <3>3 DEF h2
  <2>3. g = WithVictim(k, q, e - q)
    BY <1>8, <1>18, <2>1 DEF MergedIntoDv, WithVictim
  <2> HIDE DEF k
  <2>4. k \in HeapSet /\ e - q \in Int
    BY <2>2, <1>16, <1>18 DEF MergedMemory
  <2>5. VictimStep(g, k, q, e - q)
    BY <1>5, <2>3, <2>4, VictimWritten
  <2>6. MergedMemory(h, g, q, e)
    BY <2>2, <2>5 DEF VictimStep, MergedMemory, SameSystem, SameTop, Size
  <2>7. ~(q <= h.top /\ h.top < e)
    BY <1>3, <1>18
  <2>8. IsFree(g, q) /\ g.dv = q /\ g.dv # g.top /\ g.dvsize = Size(g, q) /\ g.bin = h1.bin
    BY <1>4, <1>5, <2>2, <2>5, <2>6, <2>7 DEF MergedMemory, VictimStep, IsFree, Size, FreeHead, SameTop
  <2>9. VictimCut(h, g, q, q, e)
    BY <2>8 DEF VictimCut
  <2>10. BinsCut(h, g, q, q, e)
    <3>1. BinsOnce(g)
      BY <1>13, <2>8 DEF BinsOnce
    <3>2. \A t \in Sizes : \A a : InBin(g, t, a) <=> InBin(h, t, a) /\ a # q
      BY <1>13, <2>8 DEF InBin
    <3>3. \A t \in Sizes : \A a : InBin(h, t, a) => a # n
      BY <1>1, <1>18 DEF Bins
    <3>4. ~Outside(q, e, h.dv)
      BY <1>16, <1>18
    <3> QED
      BY <1>9, <2>8, <3>1, <3>2, <3>3, <3>4 DEF BinsCut
  <2>11. Merged(h, g, q, e)
    BY <2>6, <2>9, <2>10 DEF Merged
  <2>12. Sound(g, U \ {p}, X \ {Past(h, p)}) /\ SameSizes(h, g, U \ {p})
    BY <1>3, <2>11, MergedSound
  <2> QED
    BY <2>6, <2>12 DEF MergedMemory
<1>19. CASE ~h.head[n].cinuse /\ n # h.top /\ n # h.dv
  <2> DEFINE h2 == unlink_chunk(h1, n, Size(h, n))
             k  == set_size_and_pinuse_of_free_chunk(erase(h2, n), q, e - q)
  <2>1. g = Rebinned(h, k, q, e - q)
    <3>1. (n - q) + h.head[n].size = e - q /\ Size(h, n) = h.head[n].size
      BY <1>16, <1>19 DEF Size
    <3> QED
      BY <1>8, <1>19, <3>1
  <2>2. InBin(h1, Size(h, n), n)
    BY <1>1, <1>13, <1>16, <1>19 DEF Bins
  <2>3. /\ BinStep(h2, h1) /\ h2.aborted = h1.aborted /\ BinsOnce(h2)
        /\ \A t \in Sizes : \A a : InBin(h2, t, a) <=> InBin(h1, t, a) /\ ~(t = Size(h, n) /\ a = n)
    BY <1>13, <1>16, <1>19, <2>2, UnlinkChunk
  <2> HIDE DEF h2
  <2>4. MergedMemory(h, k, q, e) /\ SameVictim(k, h2) /\ k.bin = h2.bin
    <3>1. SameMemory(h2, h1) /\ IsFree(h, n) /\ e = Past(h, n)
      BY <1>16, <1>19, <2>3 DEF BinStep, SameMemory
    <3> QED
      BY <1>0, <1>2, <1>19, <3>1, MergedWithNext
  <2> HIDE DEF k
  <2>5. SameVictim(k, h)
    BY <1>13, <2>3, <2>4 DEF BinStep, SameVictim
  <2>6. BinsOnce(k) /\ \A t \in Sizes : \A a : InBin(k, t, a) <=> InBin(h, t, a) /\ Outside(q, e, a)
    <3>1. BinsOnce(k)
      BY <2>3, <2>4 DEF BinsOnce
    <3>2. \A t \in Sizes : \A a : InBin(k, t, a) <=> InBin(h, t, a) /\ a # q /\ ~(t = Size(h, n) /\ a = n)
      BY <1>13, <2>3, <2>4 DEF InBin
    <3>3. \A t \in Sizes : InBin(h, t, n) => t = Size(h, n)
      BY <1>1 DEF Bins
    <3> QED
      BY <1>9, <1>19, <3>1, <3>2, <3>3
  <2>7. h.dv = q \/ Outside(q, e, h.dv)
    BY <1>9, <1>10, <1>19
  <2>8. ~(q <= h.top /\ h.top < e)
    BY <1>3, <1>19
  <2>9. Merged(h, g, q, e)
    BY <1>3, <1>4, <2>1, <2>4, <2>5, <2>6, <2>7, <2>8, RebinnedMerge
  <2>10. Sound(g, U \ {p}, X \ {Past(h, p)}) /\ SameSizes(h, g, U \ {p})
    BY <1>3, <2>9, MergedSound
  <2> QED
    BY <2>9, <2>10 DEF Merged, MergedMemory
<1> QED
  BY <1>15, <1>17, <1>18, <1>19

----------------------------------------------------------------------------
(* Chunks of users become larger, smaller, two or one.                     *)

\* From a user's chunk p to e there is p, and maybe the chunk behind it, which
\* is free or a user's too.
GrowRange(h, U, p, e) ==
    \/ e = Past(h, p)
    \/ e = Past(h, Past(h, p)) /\ (IsFree(h, Past(h, p)) \/ Past(h, p) \in U)

\* From p to e there is now a chunk in use, and behind it at l maybe another one
\* or the free rest.
GrowCut(h, g, p, l, e) ==
    /\ g \in HeapSet /\ SameSystem(g, h) /\ g.aborted = h.aborted /\ CutHeads(h, g, p, l, e)
    /\ g.head[p].cinuse
    /\ p < l => l - p >= 2
    /\ IF p <= h.top /\ h.top < e THEN g.top = l /\ g.topsize = e - l /\ ~g.head[l].cinuse
       ELSE SameTop(g, h) /\ e - l >= 2
    /\ ~g.head[l].cinuse =>
          /\ IsFree(h, Past(h, p)) /\ e = Past(h, Past(h, p))
          /\ g.foot[e] = IF g.top # l THEN e - l ELSE h.foot[e]

\* The feet that users are about to write to.
FeetKept(g, X, p, l, e) ==
    {x \in X : ~(p < x /\ x <= e)} \cup (IF g.head[l].cinuse THEN {e} ELSE {})

LEMMA GrowPlaces ==
  ASSUME NEW h, NEW U, NEW X, Sound(h, U, X), NEW p \in U, NEW e, GrowRange(h, U, p, e)
  PROVE  /\ Memory(h, X) /\ IsChunk(h, p) /\ IsUsed(h, p) /\ ~IsRecord(h, p) /\ p \in Addr /\ p \in Int
         /\ Past(h, p) \in Addr /\ Past(h, p) \in Int /\ p < Past(h, p) /\ Past(h, p) <= e
         /\ e \in Addr /\ e \in Int /\ IsHeader(h, e)
         /\ \A i \in Segs(h) : InSeg(h, i, p) => InSeg(h, i, e)
         /\ e # Past(h, p) => IsChunk(h, Past(h, p)) /\ ~IsRecord(h, Past(h, p)) /\ e = Past(h, Past(h, p)) /\ Past(h, p) < e
         /\ \A a : IsHeader(h, a) /\ ~Outside(p, e, a) => a = p \/ a = Past(h, p)
<1> DEFINE n == Past(h, p)
<1>1. Memory(h, X) /\ Users(h, U) /\ \A x \in X : h.head[x].pinuse
  BY DEF Sound
<1>2. IsUsed(h, p) /\ IsChunk(h, p) /\ ~IsRecord(h, p)
  BY <1>1 DEF Users, IsChunk
<1>3. /\ p \in Addr /\ p \in Int /\ n \in Addr /\ n \in Int /\ p < n /\ IsHeader(h, n)
      /\ \A i \in Segs(h) : InSeg(h, i, p) => InSeg(h, i, n)
  BY <1>1, <1>2, ChunkFacts
<1>4. \A a : IsHeader(h, a) /\ ~Outside(p, n, a) => a = p
  BY <1>1, <1>2, HeadersOfChunk
<1> HIDE DEF n
<1>5. CASE e = n
  BY <1>1, <1>2, <1>3, <1>4, <1>5 DEF n
<1>6. CASE e # n
  <2>1. IsChunk(h, n) /\ ~IsRecord(h, n) /\ e = Past(h, n)
    <3>1. IsFree(h, n) => ~IsRecord(h, n)
      BY <1>1 DEF Users, IsFree, IsUsed
    <3> QED
      BY <1>1, <1>6, <3>1 DEF GrowRange, Users, IsChunk, n
  <2>2. e \in Addr /\ e \in Int /\ n < e /\ IsHeader(h, e) /\ \A i \in Segs(h) : InSeg(h, i, n) => InSeg(h, i, e)
    BY <1>1, <2>1, ChunkFacts
  <2>3. \A a : IsHeader(h, a) /\ ~Outside(n, e, a) => a = n
    BY <1>1, <2>1, HeadersOfChunk
  <2>4. ASSUME NEW a, IsHeader(h, a), ~Outside(p, e, a)
        PROVE  a = p \/ a = n
    BY <1>1, <1>3, <1>4, <2>2, <2>3, <2>4, HeaderPlace DEF Outside
  <2> QED
    BY <1>1, <1>2, <1>3, <1>6, <2>1, <2>2, <2>4 DEF n
<1> QED
  BY <1>5, <1>6

HeadersBetween(h, p, e) == \A a : IsHeader(h, a) /\ ~Outside(p, e, a) => a = p \/ a = Past(h, p)

LEMMA GrowHeaders ==
  ASSUME NEW h, NEW U, NEW X, Sound(h, U, X), NEW p \in U, NEW e, GrowRange(h, U, p, e)
  PROVE  HeadersBetween(h, p, e)
BY GrowPlaces DEF HeadersBetween

LEMMA Resized ==
  ASSUME NEW h, NEW U, NEW X, Sound(h, U, X), NEW p \in U, NEW e, GrowRange(h, U, p, e),
         NEW l, NEW g, GrowCut(h, g, p, l, e), VictimCut(h, g, p, l, e), BinsCut(h, g, p, l, e),
         NEW V, UsersAre(g, U, V, p, l, e), NEW Y, Y = FeetKept(g, X, p, l, e)
  PROVE  Sound(g, V, Y) /\ SameSizes(h, g, U \ {p, Past(h, p)})
<1> DEFINE n == Past(h, p)
<1>1. /\ Memory(h, X) /\ IsChunk(h, p) /\ IsUsed(h, p) /\ ~IsRecord(h, p) /\ p \in Addr /\ p \in Int
      /\ n \in Addr /\ n \in Int /\ p < n /\ n <= e
      /\ e \in Addr /\ e \in Int /\ IsHeader(h, e)
      /\ \A i \in Segs(h) : InSeg(h, i, p) => InSeg(h, i, e)
      /\ e # n => IsChunk(h, n) /\ ~IsRecord(h, n) /\ e = Past(h, n) /\ n < e
      /\ \A a : IsHeader(h, a) /\ ~Outside(p, e, a) => a = p \/ a = n
  BY GrowPlaces
<1>2. /\ \A x \in X : x \in Addr /\ h.head[x].pinuse
      /\ h.aborted = FALSE
  BY DEF Sound
<1>3. /\ g \in HeapSet /\ SameSystem(g, h) /\ g.aborted = h.aborted /\ CutHeads(h, g, p, l, e)
      /\ g.head[p].cinuse
      /\ p < l => l - p >= 2
      /\ IF p <= h.top /\ h.top < e THEN g.top = l /\ g.topsize = e - l /\ ~g.head[l].cinuse
         ELSE SameTop(g, h) /\ e - l >= 2
      /\ ~g.head[l].cinuse => IsFree(h, n) /\ e = Past(h, n) /\ g.foot[e] = IF g.top # l THEN e - l ELSE h.foot[e]
  BY DEF GrowCut
<1>4. Recut(h, g, p, l, e)
  <2>1. ~g.head[l].cinuse /\ g.top # l => g.foot[e] = e - l
    BY <1>3
  <2>2. IF p <= h.top /\ h.top < e THEN g.top = l /\ g.topsize = e - l ELSE SameTop(g, h)
    BY <1>3
  <2> QED
    BY <1>3, <2>1, <2>2, CutIsRecut
<1>5. l \in Addr /\ l \in Int /\ p <= l /\ l < e
  BY <1>3, Places DEF CutHeads
<1>6. h.head[e] # Fence
  <2>1. IsChunk(h, p) /\ Past(h, p) = e => IsRecord(h, p) \/ h.head[e] # Fence
    BY BeforeFence
  <2>2. IsChunk(h, n) /\ Past(h, n) = e => IsRecord(h, n) \/ h.head[e] # Fence
    BY BeforeFence
  <2> QED
    BY <1>1, <2>1, <2>2
<1>7. Recuttable(h, g, p, l, e)
  <2>1. g.head[l].cinuse => h.head[e] # FakeHead
    <3>1. SUFFICES ASSUME g.head[l].cinuse, h.head[e] = FakeHead
                   PROVE  FALSE
      OBVIOUS
    <3>2. ~(p <= h.top /\ h.top < e)
      BY <1>3, <3>1
    <3>3. ~h.head[e].pinuse /\ ~h.head[e].cinuse
      BY <3>1, FixedHeads
    <3>4. \A a \in Addr : IsUsed(h, a) => h.head[Past(h, a)].pinuse
      BY <1>1 DEF Memory, TagsAgree
    <3>5. e # n /\ IsChunk(h, n)
      BY <1>1, <3>3, <3>4
    <3>6. IsFree(h, n)
      BY <1>1, <3>3, <3>4, <3>5 DEF IsChunk
    <3>7. n # h.top
      BY <1>1, <3>2, <3>5
    <3>8. h.head[Past(h, n)].cinuse
      BY <1>1, <3>6, <3>7 DEF Memory, TagsAgree
    <3> QED
      BY <1>1, <3>3, <3>5, <3>8
  <2>2. ~g.head[l].cinuse => h.head[e].cinuse \/ (p <= h.top /\ h.top < e)
    <3>1. SUFFICES ASSUME ~g.head[l].cinuse, ~(p <= h.top /\ h.top < e)
                   PROVE  h.head[e].cinuse
      OBVIOUS
    <3>2. IsFree(h, n) /\ e = Past(h, n)
      BY <1>3, <3>1
    <3>3. n < e
      BY <1>1, <3>2, ChunkFacts, <1>2 DEF IsChunk
    <3>4. n # h.top
      BY <1>1, <3>1, <3>3
    <3> QED
      BY <1>1, <3>2, <3>4 DEF Memory, TagsAgree
  <2>3. e - l >= MinChunk \/ (p <= h.top /\ h.top < e)
    BY <1>3 DEF MinChunk
  <2>4. p < l => l - p >= MinChunk
    BY <1>3 DEF MinChunk
  <2> QED
    BY <1>1, <1>3, <1>6, <2>1, <2>2, <2>3, <2>4 DEF Recuttable
<1>8. FeetLeft(g, X, Y, p, l, e)
  <2>1. CASE g.head[l].cinuse \/ g.top # l
    BY <2>1 DEF FeetLeft, FeetKept
  <2>2. CASE ~g.head[l].cinuse /\ g.top = l
    <3>1. h.head[e] = FakeHead
      <4>1. p <= h.top /\ h.top < e
        <5>1. ASSUME ~(p <= h.top /\ h.top < e)
              PROVE  FALSE
          <6>1. h.top = l
            BY <1>3, <2>2, <5>1 DEF SameTop
          <6> QED
            BY <1>5, <5>1, <6>1
        <5> QED
          BY <5>1
      <4> QED
        BY <1>1, <4>1, TopBefore, ChunkIsHeader
    <3>2. e \notin X
      BY <1>2, <3>1, FixedHeads
    <3>3. h.foot[e] = 0
      BY <1>1, <3>1, <3>2, FixedHeads DEF Memory, FeetIn
    <3> QED
      BY <1>3, <2>2, <3>3 DEF FeetLeft, FeetKept
  <2> QED
    BY <2>1, <2>2
<1>9. \A y \in Y : y \in Addr /\ g.head[y].pinuse
  <2>1. SUFFICES ASSUME NEW y \in Y
                 PROVE  y \in Addr /\ g.head[y].pinuse
    OBVIOUS
  <2>2. CASE y = e /\ g.head[l].cinuse
    BY <1>1, <1>3, <2>2 DEF CutHeads
  <2>3. CASE y \in X /\ ~(p < y /\ y <= e)
    <3>1. y \in Addr /\ y \in Int /\ h.head[y].pinuse
      BY <1>2, <2>3, Places
    <3>2. CASE y = p
      BY <1>3, <3>1, <3>2 DEF CutHeads
    <3>3. CASE y # p
      <4>1. y < p \/ e < y
        BY <1>1, <2>3, <3>1, <3>3
      <4> QED
        BY <1>3, <3>1, <4>1 DEF CutHeads
    <3> QED
      BY <3>2, <3>3
  <2> QED
    BY <2>1, <2>2, <2>3 DEF FeetKept
<1>10. \A a : IsHeader(h, a) /\ p <= a /\ a < e => ~IsRecord(h, a)
  <2>1. SUFFICES ASSUME NEW a, IsHeader(h, a), p <= a, a < e
                 PROVE  ~IsRecord(h, a)
    OBVIOUS
  <2>2. a \in Int
    BY <1>1, <2>1, HeaderPlace
  <2>3. a = p \/ a = n
    BY <1>1, <2>1, <2>2 DEF Outside
  <2> QED
    BY <1>1, <2>1, <2>3
<1>11. UsersCut(h, g, U, V, p, l, e)
  BY <1>1, <1>5, <1>10, UsersOfCut
<1>12. SoundCut(h, g, U, X, V, Y, p, l, e)
  BY <1>2, <1>3, <1>4, <1>7, <1>8, <1>9, <1>11 DEF SoundCut
<1>13. Sound(g, V, Y) /\ KeptSizes(h, g, U, p, e)
  BY <1>12, RecutSound
<1>14. \A a \in U : a = p \/ a = n \/ Outside(p, e, a)
  BY <1>1, ChunkIsHeader DEF Sound, Users, IsChunk
<1> QED
  BY <1>13, <1>14 DEF KeptSizes, SameSizes

\* One chunk in use from p to e, or two.
LEMMA UsedHeads ==
  ASSUME NEW h \in HeapSet, NEW p \in Addr, NEW e \in Addr, p < e, Empty(h, p, e)
  PROVE  LET g == set_inuse(h, p, e - p)
         IN  MemoryStep(g, h) /\ CutHeads(h, g, p, p, e) /\ g.head[p].cinuse
<1> DEFINE s == e - p
           g == set_inuse(h, p, s)
<1>1. p \in Int /\ e \in Int /\ s \in Int /\ s > 0 /\ p + s = e
  BY Places
<1> HIDE DEF s
<1>2. /\ MemoryStep(g, h) /\ g.foot = h.foot
      /\ g.head = Put(Put(h.head, p, InUseHead(s, h.head[p])), e, BehindUsed(h.head[e]))
  BY <1>1, SetInuse
<1> HIDE DEF g
<1>3. h.head[e] \in HeadSet /\ h.head[p] \in HeadSet
  BY HeadTypes
<1>4. /\ InUseHead(s, h.head[p]).size = s /\ InUseHead(s, h.head[p]).cinuse
      /\ InUseHead(s, h.head[p]).pinuse <=> h.head[p].pinuse
      /\ BehindUsed(h.head[e]).size = h.head[e].size /\ BehindUsed(h.head[e]).pinuse
      /\ BehindUsed(h.head[e]).cinuse <=> h.head[e].cinuse
  BY <1>3 DEF InUseHead, BehindUsed, HeadSet
<1>5. \A a \in Addr : g.head[a] = IF a = e THEN BehindUsed(h.head[e])
                                  ELSE IF a = p THEN InUseHead(s, h.head[p]) ELSE h.head[a]
  BY <1>2, Fields DEF Put
<1>6. CutHeads(h, g, p, p, e)
  BY <1>1, <1>2, <1>4, <1>5, Places DEF CutHeads, Empty, Size, s
<1>7. g.head[p].cinuse
  BY <1>1, <1>4, <1>5
<1> QED
  BY <1>2, <1>6, <1>7 DEF g, s

LEMMA UsedUsedHeads ==
  ASSUME NEW h \in HeapSet, NEW p \in Addr, NEW l \in Addr, NEW e \in Addr, p < l, l < e, Empty(h, p, e)
  PROVE  LET g == set_inuse(set_inuse(h, p, l - p), l, e - l)
         IN  MemoryStep(g, h) /\ CutHeads(h, g, p, l, e) /\ g.head[p].cinuse /\ g.head[l].cinuse
<1> DEFINE s == l - p
           t == e - l
           k == set_inuse(h, p, s)
           g == set_inuse(k, l, t)
<1>1. /\ p \in Int /\ e \in Int /\ l \in Int /\ s \in Int /\ s > 0 /\ p + s = l
      /\ t \in Int /\ t > 0 /\ l + t = e
  BY Places
<1> HIDE DEF s, t
<1>2. /\ MemoryStep(k, h) /\ k.foot = h.foot
      /\ k.head = Put(Put(h.head, p, InUseHead(s, h.head[p])), l, BehindUsed(h.head[l]))
  BY <1>1, SetInuse
<1>0. g = set_inuse(k, l, t)
  OBVIOUS
<1> HIDE DEF k, g
<1>3. k \in HeapSet
  BY <1>2 DEF MemoryStep
<1>4. /\ MemoryStep(g, k) /\ g.foot = k.foot
      /\ g.head = Put(Put(k.head, l, InUseHead(t, k.head[l])), e, BehindUsed(k.head[e]))
  BY <1>0, <1>1, <1>3, SetInuse
<1>5. k.head[l] = BehindUsed(h.head[l]) /\ k.head[e] = h.head[e] /\ k.head[p] = InUseHead(s, h.head[p])
  BY <1>1, <1>2, Fields DEF Put
<1>6. h.head[e] \in HeadSet /\ h.head[p] \in HeadSet /\ h.head[l] \in HeadSet
  BY HeadTypes
<1>7. /\ InUseHead(s, h.head[p]).size = s /\ InUseHead(s, h.head[p]).cinuse
      /\ InUseHead(s, h.head[p]).pinuse <=> h.head[p].pinuse
      /\ BehindUsed(h.head[e]).size = h.head[e].size /\ BehindUsed(h.head[e]).pinuse
      /\ BehindUsed(h.head[e]).cinuse <=> h.head[e].cinuse
      /\ InUseHead(t, BehindUsed(h.head[l])).size = t /\ InUseHead(t, BehindUsed(h.head[l])).cinuse
      /\ InUseHead(t, BehindUsed(h.head[l])).pinuse
  BY <1>6 DEF InUseHead, BehindUsed, HeadSet
<1>8. \A a \in Addr : g.head[a] = IF a = e THEN BehindUsed(h.head[e])
                                  ELSE IF a = l THEN InUseHead(t, BehindUsed(h.head[l]))
                                  ELSE IF a = p THEN InUseHead(s, h.head[p]) ELSE h.head[a]
  BY <1>2, <1>3, <1>4, <1>5, Fields DEF Put
<1>9. /\ g.head[p] = InUseHead(s, h.head[p]) /\ g.head[l] = InUseHead(t, BehindUsed(h.head[l]))
      /\ g.head[e] = BehindUsed(h.head[e]) /\ g.foot = h.foot
      /\ \A a \in Addr : a # e /\ a # l /\ a # p => g.head[a] = h.head[a]
  BY <1>1, <1>2, <1>4, <1>8
<1>10. h.foot[l] = 0
  BY DEF Empty
<1>11. CutHeads(h, g, p, l, e)
  <2>1. ASSUME NEW a \in Addr
        PROVE  /\ p < a /\ a < e /\ a # l => g.head[a] = Blank /\ g.foot[a] = 0
               /\ a < p \/ e < a => g.head[a] = h.head[a] /\ g.foot[a] = h.foot[a]
    BY <1>1, <1>9, Places DEF Empty
  <2>2. g.foot[p] = h.foot[p] /\ g.foot[l] = 0
    BY <1>9, <1>10
  <2> QED
    BY <1>1, <1>7, <1>9, <2>1, <2>2 DEF CutHeads, Size, s, t
<1>12. MemoryStep(g, h)
  BY <1>2, <1>4, MemoryStepsCompose
<1> QED
  BY <1>7, <1>9, <1>11, <1>12 DEF g, k, s, t

\* What lies between p and e has been taken out of the bins and erased.
Taken(h, k, p, e) ==
    /\ k \in HeapSet /\ SameSystem(k, h) /\ SameTop(k, h) /\ SameVictim(k, h) /\ k.aborted = h.aborted
    /\ BinsOnce(k)
    /\ \A a \in Addr : /\ a <= p \/ e <= a => k.head[a] = h.head[a] /\ k.foot[a] = h.foot[a]
                       /\ p < a /\ a < e => k.head[a] = Blank /\ k.foot[a] = 0
    /\ \A t \in Sizes : \A a : InBin(k, t, a) <=> InBin(h, t, a) /\ Outside(p, e, a)
    /\ Outside(p, e, h.dv) /\ Outside(p, e, h.top)

LEMMA TakenSelf ==
  ASSUME NEW h, NEW U, NEW X, Sound(h, U, X), NEW p \in U
  PROVE  Taken(h, h, p, Past(h, p)) /\ GrowRange(h, U, p, Past(h, p))
<1>1. Memory(h, X) /\ Users(h, U) /\ Bins(h) /\ Victim(h) /\ h \in HeapSet /\ \A x \in X : h.head[x].pinuse
  BY DEF Sound, Memory
<1>2. IsUsed(h, p) /\ IsChunk(h, p) /\ ~IsFree(h, p) /\ p \in Addr
  BY <1>1 DEF Users, IsChunk, IsUsed, IsFree
<1>3. p # h.top /\ p # h.dv
  <2>1. p # Null
    BY <1>1, <1>2, ChunkFacts DEF Null
  <2> QED
    BY <1>1, <1>2, <2>1, TopPlace DEF Victim
<1>4. Outside(p, Past(h, p), h.dv) /\ Outside(p, Past(h, p), h.top)
  BY <1>1, <1>2, <1>3, FreeOutside, TopOutside
<1>5. \A t \in Sizes : \A a : InBin(h, t, a) => Outside(p, Past(h, p), a)
  BY <1>1, <1>2, FreeOutside DEF Bins
<1>6. Empty(h, p, Past(h, p))
  BY <1>1, <1>2, ChunkFacts
<1> QED
  BY <1>1, <1>4, <1>5, <1>6 DEF Taken, GrowRange, Empty, SameSystem, SameTop, SameVictim, Bins

LEMMA TakenCut ==
  ASSUME NEW h, NEW k, NEW p \in Addr, NEW e \in Addr, p < e, Taken(h, k, p, e),
         NEW l, NEW g, CutHeads(k, g, p, l, e), MemoryStep(g, k), g.head[p].cinuse, g.head[l].cinuse,
         p < l => l - p >= 2, e - l >= 2
  PROVE  GrowCut(h, g, p, l, e) /\ VictimCut(h, g, p, l, e) /\ BinsCut(h, g, p, l, e)
<1>1. p \in Int /\ e \in Int
  BY Places
<1>2. CutHeads(h, g, p, l, e)
  <2>1. \A a \in Addr : a <= p \/ e <= a => k.head[a] = h.head[a] /\ k.foot[a] = h.foot[a]
    BY DEF Taken
  <2>2. /\ k.head[p] = h.head[p] /\ k.foot[p] = h.foot[p] /\ k.head[e] = h.head[e]
        /\ \A a \in Addr : a < p \/ e < a => k.head[a] = h.head[a] /\ k.foot[a] = h.foot[a]
    BY <1>1, <2>1, Places
  <2> QED
    BY <2>2 DEF CutHeads, Size
<1>3. /\ g \in HeapSet /\ SameSystem(g, h) /\ g.aborted = h.aborted /\ SameTop(g, h) /\ SameVictim(g, h) /\ g.bin = k.bin
  BY DEF Taken, MemoryStep, SameSystem, SameTop, SameVictim
<1>4. ~(p <= h.top /\ h.top < e)
  <2>1. h.top \in Int
    BY <1>3 DEF HeapSet, SameTop
  <2> QED
    BY <1>1, <2>1 DEF Taken, Outside
<1>5. GrowCut(h, g, p, l, e)
  BY <1>2, <1>3, <1>4 DEF GrowCut
<1>6. VictimCut(h, g, p, l, e)
  BY <1>3 DEF VictimCut, Taken
<1>7. BinsCut(h, g, p, l, e)
  <2>1. BinsOnce(g)
    BY <1>3 DEF Taken, BinsOnce
  <2>2. \A t \in Sizes : \A a : InBin(g, t, a) <=> InBin(h, t, a) /\ Outside(p, e, a)
    BY <1>3 DEF Taken, InBin
  <2>3. ~IsFree(g, p) /\ ~IsFree(g, l)
    BY DEF IsFree
  <2> QED
    BY <1>3, <2>1, <2>2, <2>3 DEF BinsCut, SameVictim
<1> QED
  BY <1>5, <1>6, <1>7

\* From a user's chunk p to e there is p, and maybe a free chunk behind it.
FreeRange(h, p, e) == e = Past(h, p) \/ (e = Past(h, Past(h, p)) /\ IsFree(h, Past(h, p)))

LEMMA FreeRangeUsers ==
  ASSUME NEW h, NEW U, NEW X, Sound(h, U, X), NEW p \in U, NEW e, FreeRange(h, p, e)
  PROVE  /\ GrowRange(h, U, p, e) /\ ~Outside(p, e, p) /\ e - p >= 2 /\ Empty(h, p, Past(h, p))
         /\ \A a \in U : a = p \/ Outside(p, e, a)
<1>1. GrowRange(h, U, p, e)
  BY DEF GrowRange, FreeRange
<1>2. /\ Memory(h, X) /\ IsChunk(h, p) /\ IsUsed(h, p) /\ p \in Int /\ e \in Int /\ p < Past(h, p) /\ Past(h, p) <= e
      /\ Past(h, p) \in Int
      /\ \A a : IsHeader(h, a) /\ ~Outside(p, e, a) => a = p \/ a = Past(h, p)
      /\ e # Past(h, p) => e = Past(h, Past(h, p))
  BY <1>1, GrowPlaces
<1>3. \A x \in X : h.head[x].pinuse
  BY DEF Sound
<1>4. p # h.top
  <2>1. p # Null
    BY <1>2, <1>3, ChunkFacts DEF Null
  <2> QED
    BY <1>2, <2>1, TopPlace DEF IsFree, IsUsed
<1>5. Past(h, p) - p >= 2 /\ Empty(h, p, Past(h, p))
  BY <1>2, <1>3, <1>4, ChunkFacts
<1>6. ASSUME NEW a \in U
      PROVE  a = p \/ Outside(p, e, a)
  <2>1. IsUsed(h, a) /\ IsHeader(h, a) /\ ~IsFree(h, a)
    BY ChunkIsHeader DEF Sound, Users, IsUsed, IsFree, IsChunk
  <2>2. CASE e = Past(h, p)
    BY <1>2, <1>3, <2>1, <2>2, HeadersOfChunk
  <2>3. CASE e # Past(h, p)
    BY <1>2, <2>1, <2>3 DEF FreeRange
  <2> QED
    BY <2>2, <2>3
<1> QED
  BY <1>1, <1>2, <1>5, <1>6 DEF Outside

\* Feet that are still to be written to, outside of a chunk and its end.
FeetOutside(X, p, e) == {x \in X : ~(p < x /\ x <= e)}

WholeAt(h, p, e) == set_inuse(h, p, e - p)

\* p has become all that lies in front of e.
IsWhole(h, g, U, X, p, e) ==
    /\ Sound(g, U, FeetOutside(X, p, e) \cup {e}) /\ SameSizes(h, g, U \ {p}) /\ Size(g, p) = e - p
    /\ SameSystem(g, h)

LEMMA TakenWhole ==
  ASSUME NEW h, NEW U, NEW X, Sound(h, U, X), NEW p \in U, NEW e, FreeRange(h, p, e), NEW k, Taken(h, k, p, e),
         NEW g, g = WholeAt(k, p, e)
  PROVE  IsWhole(h, g, U, X, p, e)
<1>1. GrowRange(h, U, p, e) /\ ~Outside(p, e, p) /\ e - p >= 2 /\ \A a \in U : a = p \/ Outside(p, e, a)
  BY FreeRangeUsers
<1>2. p \in Addr /\ e \in Addr /\ p \in Int /\ e \in Int /\ p < e
  BY <1>1, GrowPlaces
<1>3. k \in HeapSet /\ Empty(k, p, e)
  BY DEF Taken, Empty
<1>4. MemoryStep(g, k) /\ CutHeads(k, g, p, p, e) /\ g.head[p].cinuse
  BY <1>2, <1>3, UsedHeads DEF WholeAt
<1>0. ~(p < p)
  BY <1>2
<1>5. GrowCut(h, g, p, p, e) /\ VictimCut(h, g, p, p, e) /\ BinsCut(h, g, p, p, e)
  BY <1>0, <1>1, <1>2, <1>4, TakenCut
<1>6. UsersAre(g, U, U, p, p, e)
  BY <1>1, <1>4 DEF UsersAre
<1> DEFINE Y == FeetKept(g, X, p, p, e)
<1>7. Sound(g, U, Y) /\ SameSizes(h, g, U \ {p, Past(h, p)})
  BY <1>1, <1>5, <1>6, Resized
<1>8. Y = FeetOutside(X, p, e) \cup {e}
  BY <1>4 DEF FeetKept, FeetOutside
<1>9. SameSizes(h, g, U \ {p})
  <2>1. ASSUME NEW a \in U, a # p
        PROVE  Size(g, a) = Size(h, a)
    <3>1. Outside(p, e, a) /\ a \in Addr
      BY <1>1, <2>1 DEF Sound, Users, IsUsed
    <3>2. a < p \/ e <= a
      BY <3>1 DEF Outside
    <3> QED
      BY <1>2, <1>5, <3>1, <3>2, Places DEF GrowCut, CutHeads, Size
  <2> QED
    BY <2>1 DEF SameSizes
<1> QED
  BY <1>4, <1>5, <1>7, <1>8, <1>9 DEF GrowCut, CutHeads, IsWhole

SplitAt(h, p, l, e) == set_inuse(set_inuse(h, p, l - p), l, e - l)

SplitPlace(p, l, e) == l \in Int /\ l - p >= 2 /\ e - l >= 2

\* p has been split at l, and the users have both parts.
IsSplit(h, g, U, X, p, l, e) ==
    /\ Sound(g, U \cup {l}, FeetOutside(X, p, e) \cup {e}) /\ SameSizes(h, g, U \ {p})
    /\ Size(g, p) = l - p /\ Size(g, l) = e - l /\ l \notin U /\ SameSystem(g, h) /\ Past(g, l) = e
    /\ (g.head[p].pinuse <=> h.head[p].pinuse) /\ g.head[l].pinuse

LEMMA TakenSplit ==
  ASSUME NEW h, NEW U, NEW X, Sound(h, U, X), NEW p \in U, NEW e, FreeRange(h, p, e), NEW k, Taken(h, k, p, e),
         NEW l, SplitPlace(p, l, e),
         NEW g, g = SplitAt(k, p, l, e)
  PROVE  IsSplit(h, g, U, X, p, l, e)
<1> USE DEF SplitPlace
<1>1. GrowRange(h, U, p, e) /\ ~Outside(p, e, p) /\ e - p >= 2 /\ \A a \in U : a = p \/ Outside(p, e, a)
  BY FreeRangeUsers
<1>2. p \in Addr /\ e \in Addr /\ p \in Int /\ e \in Int /\ p < e
  BY <1>1, GrowPlaces
<1>3. k \in HeapSet /\ Empty(k, p, e)
  BY DEF Taken, Empty
<1>4. l \in Addr /\ p < l /\ l < e /\ ~Outside(p, e, l)
  BY <1>2, Places DEF Outside
<1>5. MemoryStep(g, k) /\ CutHeads(k, g, p, l, e) /\ g.head[p].cinuse /\ g.head[l].cinuse
  BY <1>2, <1>3, <1>4, UsedUsedHeads DEF SplitAt
<1>6. GrowCut(h, g, p, l, e) /\ VictimCut(h, g, p, l, e) /\ BinsCut(h, g, p, l, e)
  BY <1>1, <1>2, <1>4, <1>5, TakenCut
<1>7. l \notin U
  BY <1>1, <1>4
<1>8. UsersAre(g, U, U \cup {l}, p, l, e)
  BY <1>1, <1>5 DEF UsersAre
<1> DEFINE Y == FeetKept(g, X, p, l, e)
           V == U \cup {l}
<1>9. Sound(g, V, Y)
  <2>1. UsersAre(g, U, V, p, l, e)
    BY <1>8
  <2> HIDE DEF V
  <2> QED
    BY <1>1, <1>6, <2>1, Resized
<1>10. Y = FeetOutside(X, p, e) \cup {e}
  BY <1>5 DEF FeetKept, FeetOutside
<1>11. SameSizes(h, g, U \ {p})
  <2>1. ASSUME NEW a \in U, a # p
        PROVE  Size(g, a) = Size(h, a)
    <3>1. Outside(p, e, a) /\ a \in Addr
      BY <1>1, <2>1 DEF Sound, Users, IsUsed
    <3>2. a < p \/ e <= a
      BY <3>1 DEF Outside
    <3> QED
      BY <1>2, <1>6, <3>1, <3>2, Places DEF GrowCut, CutHeads, Size
  <2> QED
    BY <2>1 DEF SameSizes
<1>12. /\ Size(g, p) = l - p /\ Size(g, l) = e - l /\ (g.head[p].pinuse <=> h.head[p].pinuse)
       /\ (g.head[l].pinuse <=> g.head[p].cinuse) /\ SameSystem(g, h)
  BY <1>4, <1>6 DEF GrowCut, CutHeads
<1>13. Past(g, l) = e
  BY <1>2, <1>12 DEF Past, Size
<1> QED
  BY <1>5, <1>7, <1>9, <1>10, <1>11, <1>12, <1>13 DEF IsSplit

LEMMA Shortened ==
  ASSUME NEW h, NEW U, NEW X, Sound(h, U, X), NEW p \in U, NEW e, FreeRange(h, p, e), NEW k, Taken(h, k, p, e),
         NEW size, size = e - p, NEW nb \in Int, 2 <= nb, 2 <= size - nb,
         NEW g, g = shorten(k, p, size, nb)
  PROVE  /\ Sound(g, U, FeetOutside(X, p, e)) /\ SameSizes(h, g, U \ {p}) /\ Size(g, p) = nb
         /\ SameSystem(g, h)
<1> DEFINE l == p + nb
           j == set_inuse(set_inuse(k, p, nb), l, size - nb)
           Y == FeetOutside(X, p, e) \cup {e}
           V == U \cup {l}
<1>1. GrowRange(h, U, p, e)
  BY FreeRangeUsers
<1>2. p \in Int /\ e \in Int
  BY <1>1, GrowPlaces
<1>3. l \in Int /\ l - p = nb /\ e - l = size - nb /\ nb = l - p /\ size - nb = e - l
  BY <1>2
<1>4. g = consolidate(j, l, size - nb).heap
  BY DEF shorten, dispose_chunk
<1>5. j = SplitAt(k, p, l, e) /\ SplitPlace(p, l, e)
  BY <1>2, <1>3 DEF SplitAt, SplitPlace
<1> HIDE DEF l, j
<1>6. /\ Sound(j, V, Y) /\ SameSizes(h, j, U \ {p}) /\ Size(j, p) = nb /\ Size(j, l) = size - nb /\ l \notin U
      /\ SameSystem(j, h) /\ Past(j, l) = e
  <2>1. IsSplit(h, j, U, X, p, l, e)
    BY <1>5, TakenSplit
  <2> QED
    BY <1>3, <2>1 DEF IsSplit
<1> HIDE DEF Y, V
<1>7. l \in V
  BY DEF V
<1>8. Sound(g, V \ {l}, Y \ {e}) /\ SameSizes(j, g, V \ {l}) /\ SameSystem(g, j)
  BY <1>4, <1>6, <1>7, Consolidated
<1>9. V \ {l} = U /\ Y \ {e} = FeetOutside(X, p, e)
  <2>1. e \notin FeetOutside(X, p, e)
    BY <1>1, GrowPlaces DEF FeetOutside
  <2> QED
    BY <1>6, <2>1 DEF V, Y
<1>10. SameSizes(h, g, U \ {p}) /\ Size(g, p) = nb
  BY <1>6, <1>8, <1>9 DEF SameSizes
<1> QED
  BY <1>6, <1>8, <1>9, <1>10 DEF SameSystem

\* More feet may be waiting to be written to.
LEMMA SoundMore ==
  ASSUME NEW h, NEW U, NEW X, Sound(h, U, X), NEW Y, X \subseteq Y, \A y \in Y : y \in Addr /\ h.head[y].pinuse
  PROVE  Sound(h, U, Y)
<1>1. FeetIn(h, X) => FeetIn(h, Y)
  BY DEF FeetIn
<1> QED
  BY <1>1 DEF Sound, Memory

LEMMA TakenNext ==
  ASSUME NEW h, NEW U, NEW X, Sound(h, U, X), NEW p \in U, NEW n, n = Past(h, p), IsFree(h, n),
         n # h.top, n # h.dv, NEW e, e = Past(h, n),
         NEW k, k = erase(unlink_chunk(h, n, Size(h, n)), n)
  PROVE  Taken(h, k, p, e) /\ FreeRange(h, p, e)
<1>1. Memory(h, X) /\ Bins(h) /\ Victim(h) /\ h \in HeapSet /\ \A x \in X : h.head[x].pinuse
  BY DEF Sound, Memory
<1>2. FreeRange(h, p, e)
  BY DEF FreeRange
<1>3. GrowRange(h, U, p, e) /\ Empty(h, p, n)
  BY <1>2, FreeRangeUsers
<1>4. /\ p \in Addr /\ p \in Int /\ n \in Addr /\ n \in Int /\ p < n /\ e \in Addr /\ e \in Int
      /\ \A a : IsHeader(h, a) /\ ~Outside(p, e, a) => a = p \/ a = n
      /\ IsUsed(h, p) /\ IsChunk(h, p)
  BY <1>3, GrowPlaces
<1>5. IsChunk(h, n) /\ Size(h, n) \in Sizes /\ Empty(h, n, e) /\ n < e
  <2>1. IsChunk(h, n)
    BY DEF IsChunk
  <2> QED
    BY <1>1, <2>1, ChunkFacts
<1>6. InBin(h, Size(h, n), n) /\ \A t \in Sizes : InBin(h, t, n) => t = Size(h, n)
  BY <1>1, <1>5 DEF Bins
<1> DEFINE j == unlink_chunk(h, n, Size(h, n))
<1>7. /\ BinStep(j, h) /\ j.aborted = h.aborted /\ BinsOnce(j)
      /\ \A t \in Sizes : \A a : InBin(j, t, a) <=> InBin(h, t, a) /\ ~(t = Size(h, n) /\ a = n)
  BY <1>1, <1>5, <1>6, UnlinkChunk DEF Bins
<1> HIDE DEF j
<1>8. j \in HeapSet /\ j.head = h.head /\ j.foot = h.foot
  BY <1>7 DEF BinStep
<1>9. MemoryStep(k, j) /\ k.head = Put(j.head, n, Blank) /\ k.foot = Put(j.foot, n, 0)
  BY <1>4, <1>8, Erase DEF j
<1>10. \A a \in Addr : k.head[a] = IF a = n THEN Blank ELSE h.head[a]
  BY <1>1, <1>4, <1>8, <1>9, Fields DEF Put
<1>11. \A a \in Addr : k.foot[a] = IF a = n THEN 0 ELSE h.foot[a]
  BY <1>1, <1>4, <1>8, <1>9, Fields DEF Put
<1>12. ASSUME NEW a \in Addr
       PROVE  /\ a <= p \/ e <= a => k.head[a] = h.head[a] /\ k.foot[a] = h.foot[a]
              /\ p < a /\ a < e => k.head[a] = Blank /\ k.foot[a] = 0
  <2>1. a \in Int
    BY Places
  <2>2. CASE a = n
    BY <1>4, <1>5, <1>10, <1>11, <2>2
  <2>3. CASE a # n
    <3>1. p < a /\ a < e => h.head[a] = Blank /\ h.foot[a] = 0
      BY <1>3, <1>4, <1>5, <2>1, <2>3 DEF Empty
    <3> QED
      BY <1>10, <1>11, <2>3, <3>1
  <2> QED
    BY <2>2, <2>3
<1>13. \A a : IsFree(h, a) => (Outside(p, e, a) <=> a # n)
  <2>1. ASSUME NEW a, IsFree(h, a)
        PROVE  Outside(p, e, a) <=> a # n
    <3>1. IsHeader(h, a) /\ a # p
      BY <1>4, <2>1, ChunkIsHeader DEF IsChunk, IsFree, IsUsed
    <3>2. ~Outside(p, e, n)
      BY <1>4, <1>5 DEF Outside
    <3> QED
      BY <1>4, <3>1, <3>2
  <2> QED
    BY <2>1
<1>14. ASSUME NEW t \in Sizes, NEW a
       PROVE  InBin(k, t, a) <=> InBin(h, t, a) /\ Outside(p, e, a)
  <2>1. InBin(k, t, a) <=> InBin(j, t, a)
    BY <1>9 DEF MemoryStep, InBin
  <2>2. InBin(h, t, a) => IsFree(h, a)
    BY <1>1 DEF Bins
  <2> QED
    BY <1>6, <1>7, <1>13, <2>1, <2>2
<1>15. Outside(p, e, h.dv) /\ Outside(p, e, h.top)
  <2>1. Outside(p, e, Null)
    BY <1>1, <1>4, ChunkFacts DEF Outside, Null
  <2>2. Outside(p, e, h.dv)
    BY <1>1, <1>13, <2>1 DEF Victim
  <2>3. Outside(p, e, h.top)
    BY <1>1, <1>13, <2>1, TopPlace
  <2> QED
    BY <2>2, <2>3
<1>16. BinsOnce(k)
  BY <1>7, <1>9 DEF MemoryStep, BinsOnce
<1>17. k \in HeapSet /\ SameSystem(k, h) /\ SameTop(k, h) /\ SameVictim(k, h) /\ k.aborted = h.aborted
  BY <1>7, <1>9 DEF BinStep, MemoryStep, SameSystem, SameTop, SameVictim
<1> QED
  BY <1>2, <1>12, <1>14, <1>15, <1>16, <1>17 DEF Taken

\* Chunk p is large enough for nb, others are what they were.
Reallocated(h, g, U, p, nb) ==
    /\ Sound(g, U, {Past(g, p)}) /\ SameSizes(h, g, U \ {p}) /\ SameSystem(g, h)
    /\ nb <= Size(g, p) /\ Size(g, p) < nb + MinChunk

LEMMA UsersPast ==
  ASSUME NEW h, NEW U, NEW X, Sound(h, U, X), NEW p \in U
  PROVE  Past(h, p) \in Addr /\ h.head[Past(h, p)].pinuse
<1>1. Memory(h, X) /\ IsUsed(h, p) /\ IsChunk(h, p) /\ p \in Addr /\ \A x \in X : h.head[x].pinuse
  BY DEF Sound, Users, IsChunk, IsUsed
<1> QED
  BY <1>1, ChunkFacts DEF Memory, TagsAgree

LEMMA SoundPast ==
  ASSUME NEW h, NEW U, NEW X, Sound(h, U, X), NEW p \in U, X \subseteq {Past(h, p)}
  PROVE  Sound(h, U, {Past(h, p)})
<1>1. \A y \in {Past(h, p)} : y \in Addr /\ h.head[y].pinuse
  BY UsersPast
<1> QED
  BY <1>1, SoundMore

LEMMA ShortenedSelf ==
  ASSUME NEW h, NEW U, NEW X, Sound(h, U, X), NEW p \in U, NEW size, size = Size(h, p),
         X \subseteq {Past(h, p)}, NEW nb \in Int, 2 <= nb, 2 <= size - nb
  PROVE  Reallocated(h, shorten(h, p, size, nb), U, p, nb)
<1> DEFINE e == Past(h, p)
           g == shorten(h, p, size, nb)
<1>1. Taken(h, h, p, e) /\ FreeRange(h, p, e) /\ size = e - p
  <2>1. GrowRange(h, U, p, e)
    BY DEF GrowRange
  <2>2. p \in Int /\ p \in Addr /\ h \in HeapSet
    BY <2>1, GrowPlaces DEF Memory
  <2>3. Size(h, p) \in Int
    BY <2>2, HeadTypes
  <2>4. size = e - p
    BY <2>2, <2>3 DEF Past, Size
  <2> QED
    BY <2>4, TakenSelf DEF FreeRange
<1> HIDE DEF e
<1>2. Sound(g, U, FeetOutside(X, p, e)) /\ SameSizes(h, g, U \ {p}) /\ Size(g, p) = nb /\ SameSystem(g, h)
  BY <1>1, Shortened
<1> HIDE DEF g
<1>3. FeetOutside(X, p, e) \subseteq {Past(g, p)}
  <2>1. GrowRange(h, U, p, e)
    BY DEF GrowRange, e
  <2>2. p < e /\ e \in Int
    BY <2>1, GrowPlaces DEF e
  <2> QED
    BY <2>2 DEF FeetOutside, e
<1>4. Sound(g, U, {Past(g, p)})
  BY <1>2, <1>3, SoundPast
<1> QED
  BY <1>2, <1>4 DEF Reallocated, MinChunk, g

LEMMA GrownIntoFree ==
  ASSUME NEW h, NEW U, Sound(h, U, {}), NEW p \in U, NEW n, n = Past(h, p), IsFree(h, n),
         n # h.top, n # h.dv, NEW size, size = Size(h, p) + Size(h, n),
         NEW nb \in Int, 2 <= nb, nb <= size
  PROVE  Reallocated(h, grow_into_free(h, p, size, nb), U, p, nb)
<1> DEFINE e == Past(h, n)
           k == erase(unlink_chunk(h, n, Size(h, n)), n)
           g == grow_into_free(h, p, size, nb)
<1>1. g = IF size - nb < MinChunk THEN set_inuse(k, p, size) ELSE shorten(k, p, size, nb)
  BY DEF grow_into_free, Past, Size
<1>2. Taken(h, k, p, e) /\ FreeRange(h, p, e)
  BY TakenNext
<1>3. e - p = size /\ e \in Int /\ p \in Int /\ p < e
  <2>1. GrowRange(h, U, p, e)
    BY <1>2, FreeRangeUsers
  <2>2. p \in Int /\ p \in Addr /\ n \in Int /\ n \in Addr /\ h \in HeapSet /\ e \in Int /\ p < n /\ n <= e
    BY <2>1, GrowPlaces DEF Memory
  <2>3. Size(h, p) \in Int /\ Size(h, n) \in Int
    BY <2>2, HeadTypes
  <2> QED
    BY <2>2, <2>3 DEF Past, Size
<1> HIDE DEF e, k, g
<1>4. CASE size - nb < MinChunk
  <2>1. g = WholeAt(k, p, e)
    BY <1>1, <1>3, <1>4 DEF WholeAt
  <2>2. IsWhole(h, g, U, {}, p, e)
    BY <1>2, <2>1, TakenWhole
  <2>3. Size(g, p) = e - p /\ Past(g, p) = e
    BY <1>3, <2>2 DEF IsWhole, Past, Size
  <2>4. FeetOutside({}, p, e) \cup {e} = {Past(g, p)}
    BY <2>3 DEF FeetOutside
  <2>5. nb <= Size(g, p) /\ Size(g, p) < nb + MinChunk
    BY <1>3, <1>4, <2>3 DEF MinChunk
  <2> QED
    BY <2>2, <2>4, <2>5 DEF IsWhole, Reallocated, g
<1>5. CASE ~(size - nb < MinChunk)
  <2>1. g = shorten(k, p, size, nb) /\ 2 <= size - nb /\ size = e - p
    BY <1>1, <1>3, <1>5 DEF MinChunk
  <2>2. Sound(g, U, FeetOutside({}, p, e)) /\ SameSizes(h, g, U \ {p}) /\ Size(g, p) = nb /\ SameSystem(g, h)
    BY <1>2, <2>1, Shortened
  <2>3. Sound(g, U, {Past(g, p)})
    BY <2>2, SoundPast DEF FeetOutside
  <2> QED
    BY <2>2, <2>3 DEF Reallocated, MinChunk, g
<1> QED
  BY <1>4, <1>5

\* A chunk in use from p to l, and a free one or top from there to e.
UsedFreeAt(h, p, l, e) == set_free_with_pinuse(set_inuse(h, p, l - p), l, e - l, e)
UsedTopAt(h, p, l, e) == set_head(set_inuse(h, p, l - p), l, e - l, FALSE, TRUE)

LEMMA UsedFreeHeads ==
  ASSUME NEW h \in HeapSet, NEW p \in Addr, NEW l \in Addr, NEW e \in Addr, p < l, l < e, Empty(h, p, e),
         NEW g,
         \/ g = UsedFreeAt(h, p, l, e)
         \/ g = UsedTopAt(h, p, l, e) /\ ~h.head[e].pinuse
  PROVE  /\ MemoryStep(g, h) /\ CutHeads(h, g, p, l, e) /\ g.head[p].cinuse /\ g.head[l] = FreeHead(e - l)
         /\ g.foot[e] = IF g = UsedFreeAt(h, p, l, e) THEN e - l ELSE h.foot[e]
<1> DEFINE s == l - p
           t == e - l
           k == set_inuse(h, p, s)
<1>1. /\ p \in Int /\ e \in Int /\ l \in Int /\ s \in Int /\ s > 0 /\ p + s = l
      /\ t \in Int /\ t > 0 /\ l + t = e
  BY Places
<1>0. /\ UsedFreeAt(h, p, l, e) = set_free_with_pinuse(k, l, t, e)
      /\ UsedTopAt(h, p, l, e) = set_head(k, l, t, FALSE, TRUE)
  BY DEF UsedFreeAt, UsedTopAt
<1> HIDE DEF s, t
<1>2. /\ MemoryStep(k, h) /\ k.foot = h.foot
      /\ k.head = Put(Put(h.head, p, InUseHead(s, h.head[p])), l, BehindUsed(h.head[l]))
  BY <1>1, SetInuse
<1> HIDE DEF k
<1>3. k \in HeapSet
  BY <1>2 DEF MemoryStep
<1>4. k.head[e] = h.head[e]
  BY <1>1, <1>2, Fields DEF Put
<1>5. h.head[e] \in HeadSet /\ h.head[p] \in HeadSet
  BY HeadTypes
<1> DEFINE x == g.head[e]
<1>6. /\ MemoryStep(g, k)
      /\ \A a \in Addr : g.head[a] = IF a = l THEN FreeHead(t) ELSE IF a = e THEN x ELSE k.head[a]
      /\ \A a \in Addr : a # e => g.foot[a] = h.foot[a]
      /\ x.size = h.head[e].size /\ (x.cinuse <=> h.head[e].cinuse) /\ ~x.pinuse
      /\ g.foot[e] = IF g = UsedFreeAt(h, p, l, e) THEN t ELSE h.foot[e]
  <2>1. CASE g = UsedFreeAt(h, p, l, e)
    <3>1. /\ MemoryStep(g, k)
          /\ g.head = Put(Put(k.head, e, BehindFree(k.head[e])), l, FreeHead(t))
          /\ g.foot = Put(k.foot, e, t)
      BY <1>0, <1>1, <1>3, <2>1, SetFreeWithPinuse, SMTT(60)
    <3>2. /\ BehindFree(h.head[e]).size = h.head[e].size /\ ~BehindFree(h.head[e]).pinuse
          /\ BehindFree(h.head[e]).cinuse <=> h.head[e].cinuse
      BY <1>5 DEF BehindFree, HeadSet
    <3>3. \A a \in Addr : g.head[a] = IF a = l THEN FreeHead(t) ELSE IF a = e THEN BehindFree(h.head[e]) ELSE k.head[a]
      BY <1>3, <1>4, <3>1, Fields DEF Put
    <3>4. g.head[e] = BehindFree(h.head[e])
      BY <1>1, <3>3
    <3>5. g.foot[e] = t /\ \A a \in Addr : a # e => g.foot[a] = h.foot[a]
      BY <1>2, <1>3, <3>1, Fields DEF Put
    <3> QED
      BY <2>1, <3>1, <3>2, <3>3, <3>4, <3>5
  <2>2. CASE g # UsedFreeAt(h, p, l, e) /\ g = UsedTopAt(h, p, l, e) /\ ~h.head[e].pinuse
    <3>0. g = set_head(k, l, t, FALSE, TRUE)
      BY <1>0, <2>2
    <3>1. MemoryStep(g, k) /\ g.foot = k.foot /\ g.head = Put(k.head, l, FreeHead(t))
      BY <1>1, <1>3, <3>0, SetFreeHead
    <3>2. \A a \in Addr : g.head[a] = IF a = l THEN FreeHead(t) ELSE k.head[a]
      BY <1>3, <3>1, Fields DEF Put
    <3>3. g.head[e] = h.head[e]
      BY <1>1, <1>4, <3>2
    <3> QED
      BY <1>2, <1>5, <2>2, <3>1, <3>2, <3>3
  <2> QED
    BY <2>1, <2>2
<1>7. /\ InUseHead(s, h.head[p]).size = s /\ InUseHead(s, h.head[p]).cinuse
      /\ InUseHead(s, h.head[p]).pinuse <=> h.head[p].pinuse
      /\ FreeHead(t).size = t /\ FreeHead(t).pinuse /\ ~FreeHead(t).cinuse
  BY <1>5 DEF InUseHead, FreeHead, HeadSet
<1>8. \A a \in Addr : a # p /\ a # l => k.head[a] = h.head[a]
  BY <1>2, Fields DEF Put
<1>9. k.head[p] = InUseHead(s, h.head[p])
  BY <1>1, <1>2, Fields DEF Put
<1> HIDE DEF x
<1>10. /\ g.head[p] = InUseHead(s, h.head[p]) /\ g.head[l] = FreeHead(t) /\ g.head[e] = x
       /\ \A a \in Addr : a # e /\ a # l /\ a # p => g.head[a] = h.head[a]
  BY <1>1, <1>6, <1>8, <1>9
<1>11. h.foot[l] = 0
  BY DEF Empty
<1>12. CutHeads(h, g, p, l, e)
  <2>1. ASSUME NEW a \in Addr
        PROVE  /\ p < a /\ a < e /\ a # l => g.head[a] = Blank /\ g.foot[a] = 0
               /\ a < p \/ e < a => g.head[a] = h.head[a] /\ g.foot[a] = h.foot[a]
    BY <1>1, <1>6, <1>10, Places DEF Empty
  <2>2. g.foot[p] = h.foot[p] /\ g.foot[l] = 0
    BY <1>1, <1>6, <1>11
  <2> QED
    BY <1>1, <1>6, <1>7, <1>10, <2>1, <2>2 DEF CutHeads, Size, s, t
<1>13. MemoryStep(g, h)
  BY <1>2, <1>6, MemoryStepsCompose
<1> QED
  BY <1>6, <1>7, <1>10, <1>12, <1>13 DEF t

\* The chunk behind p, free and in no bin, is erased.
NextErased(h, k, p, n, e) ==
    /\ MemoryStep(k, h) /\ FreeRange(h, p, e) /\ Empty(k, p, e) /\ k.head[p] = h.head[p] /\ k.foot[p] = h.foot[p]
    /\ k.head[e] = h.head[e] /\ k.foot[e] = h.foot[e]
    /\ \A a \in Addr : a < p \/ e < a => k.head[a] = h.head[a] /\ k.foot[a] = h.foot[a]
    /\ ~h.head[e].pinuse /\ n < e /\ ~Outside(p, e, n) /\ e - p = Size(h, p) + Size(h, n)
    /\ \A t \in Sizes : \A a : InBin(h, t, a) => (Outside(p, e, a) <=> a # n)
    /\ p \in Int /\ e \in Int /\ n \in Int

LEMMA ErasedNext ==
  ASSUME NEW h, NEW U, Sound(h, U, {}), NEW p \in U, NEW n, n = Past(h, p), IsFree(h, n), NEW e, e = Past(h, n),
         NEW k, k = erase(h, n)
  PROVE  NextErased(h, k, p, n, e)
<1>1. Memory(h, {}) /\ Bins(h) /\ Victim(h) /\ h \in HeapSet
  BY DEF Sound, Memory
<1>2. FreeRange(h, p, e)
  BY DEF FreeRange
<1>3. GrowRange(h, U, p, e) /\ Empty(h, p, n)
  BY <1>2, FreeRangeUsers
<1>4. /\ p \in Addr /\ p \in Int /\ n \in Addr /\ n \in Int /\ p < n /\ e \in Addr /\ e \in Int
      /\ \A a : IsHeader(h, a) /\ ~Outside(p, e, a) => a = p \/ a = n
      /\ IsUsed(h, p) /\ IsChunk(h, p)
  BY <1>3, GrowPlaces
<1>5. IsChunk(h, n) /\ Size(h, n) \in Int /\ Size(h, p) \in Int /\ Empty(h, n, e) /\ n < e /\ e = n + Size(h, n) /\ n = p + Size(h, p)
  <2>1. IsChunk(h, n)
    BY DEF IsChunk
  <2> QED
    BY <1>1, <1>4, <2>1, ChunkFacts
<1>6. MemoryStep(k, h) /\ k.head = Put(h.head, n, Blank) /\ k.foot = Put(h.foot, n, 0)
  BY <1>1, <1>4, Erase
<1>7. \A a \in Addr : k.head[a] = IF a = n THEN Blank ELSE h.head[a]
  BY <1>1, <1>4, <1>6, Fields DEF Put
<1>8. \A a \in Addr : k.foot[a] = IF a = n THEN 0 ELSE h.foot[a]
  BY <1>1, <1>4, <1>6, Fields DEF Put
<1>9. Empty(k, p, e)
  <2>1. ASSUME NEW a \in Addr, p < a, a < e
        PROVE  k.head[a] = Blank /\ k.foot[a] = 0
    <3>1. a \in Int
      BY Places
    <3>2. CASE a = n
      BY <1>7, <1>8, <3>2
    <3>3. CASE a # n
      <4>1. h.head[a] = Blank /\ h.foot[a] = 0
        BY <1>3, <1>4, <1>5, <2>1, <3>1, <3>3 DEF Empty
      <4> QED
        BY <1>7, <1>8, <3>3, <4>1
    <3> QED
      BY <3>2, <3>3
  <2> QED
    BY <2>1 DEF Empty
<1>10. \A a \in Addr : a <= p \/ e <= a => k.head[a] = h.head[a] /\ k.foot[a] = h.foot[a]
  BY <1>4, <1>5, <1>7, <1>8, Places
<1>11. \A t \in Sizes : \A a : InBin(h, t, a) => (Outside(p, e, a) <=> a # n)
  <2>1. ASSUME NEW a, IsFree(h, a)
        PROVE  Outside(p, e, a) <=> a # n
    <3>1. IsHeader(h, a) /\ a # p
      BY <1>4, <2>1, ChunkIsHeader DEF IsChunk, IsFree, IsUsed
    <3>2. ~Outside(p, e, n)
      BY <1>4, <1>5 DEF Outside
    <3> QED
      BY <1>4, <3>1, <3>2
  <2> QED
    BY <1>1, <2>1 DEF Bins
<1>12. ~h.head[e].pinuse
  BY <1>1, <1>4 DEF Memory, TagsAgree
<1>13. e - p = Size(h, p) + Size(h, n) /\ ~Outside(p, e, n)
  BY <1>4, <1>5 DEF Outside
<1>14. /\ k.head[p] = h.head[p] /\ k.foot[p] = h.foot[p] /\ k.head[e] = h.head[e] /\ k.foot[e] = h.foot[e]
  BY <1>4, <1>10
<1>15. \A a \in Addr : a < p \/ e < a => k.head[a] = h.head[a] /\ k.foot[a] = h.foot[a]
  BY <1>4, <1>10, Places
<1> QED
  BY <1>2, <1>4, <1>5, <1>6, <1>9, <1>11, <1>12, <1>13, <1>14, <1>15 DEF NextErased

LEMMA CutOfErased ==
  ASSUME NEW h, NEW k, NEW g, NEW p, NEW l, NEW e, CutHeads(k, g, p, l, e),
         k.head[p] = h.head[p], k.foot[p] = h.foot[p], k.head[e] = h.head[e],
         \A a \in Addr : a < p \/ e < a => k.head[a] = h.head[a] /\ k.foot[a] = h.foot[a]
  PROVE  CutHeads(h, g, p, l, e)
BY DEF CutHeads, Size

LEMMA GrownIntoTop ==
  ASSUME NEW h, NEW U, Sound(h, U, {}), NEW p \in U, NEW n, n = Past(h, p), n = h.top,
         NEW size, size = Size(h, p) + Size(h, n), NEW nb \in Int, Size(h, p) < nb, 2 <= nb, nb < size
  PROVE  Reallocated(h, grow_into_top(h, p, size, nb), U, p, nb)
<1> DEFINE e == Past(h, n)
           k == erase(h, n)
           l == p + nb
           j == UsedTopAt(k, p, l, e)
           g == grow_into_top(h, p, size, nb)
<1>1. Memory(h, {}) /\ Bins(h) /\ Victim(h) /\ h \in HeapSet /\ IsChunk(h, p)
  BY DEF Sound, Memory, Users, IsChunk
<1>2. IsFree(h, n) /\ IsHeader(h, n) /\ h.topsize \in Int
  <2>1. n # Null
    <3>1. IsHeader(h, n)
      BY <1>1, ChunkIsHeader DEF Memory, Tiles
    <3> QED
      BY <1>1, <3>1, HeaderPlace
  <2> QED
    BY <1>1, <2>1, TopPlace
<1>3. /\ MemoryStep(k, h) /\ FreeRange(h, p, e) /\ Empty(k, p, e) /\ k.head[p] = h.head[p] /\ k.foot[p] = h.foot[p]
      /\ k.head[e] = h.head[e] /\ k.foot[e] = h.foot[e]
      /\ \A a \in Addr : a < p \/ e < a => k.head[a] = h.head[a] /\ k.foot[a] = h.foot[a]
      /\ ~h.head[e].pinuse /\ n < e /\ ~Outside(p, e, n) /\ e - p = Size(h, p) + Size(h, n)
      /\ \A t \in Sizes : \A a : InBin(h, t, a) => (Outside(p, e, a) <=> a # n)
      /\ p \in Int /\ e \in Int /\ n \in Int
  <2>1. NextErased(h, k, p, n, e)
    BY <1>2, ErasedNext
  <2> QED
    BY <2>1 DEF NextErased
<1>4. GrowRange(h, U, p, e) /\ \A a \in U : a = p \/ Outside(p, e, a)
  BY <1>3, FreeRangeUsers
<1>5. p \in Addr /\ e \in Addr /\ \A a : IsHeader(h, a) /\ ~Outside(p, e, a) => a = p \/ a = n
  <2>1. HeadersBetween(h, p, e)
    BY <1>4, GrowHeaders
  <2>2. p \in Addr /\ e \in Addr
    BY <1>4, GrowPlaces
  <2> QED
    BY <2>1, <2>2 DEF HeadersBetween
<1>6. l \in Int /\ l \in Addr /\ p < l /\ l < e /\ l - p = nb /\ e - l = size - nb /\ l - p >= 2 /\ ~Outside(p, e, l)
      /\ size - nb \in Int
  <2>1. l \in Int /\ p < l /\ l < e /\ l - p = nb /\ e - l = size - nb /\ l - p >= 2 /\ size - nb \in Int
    BY <1>3
  <2> QED
    BY <1>5, <2>1, Places DEF Outside
<1>7. g = WithTop(j, l, e - l)
  BY <1>6 DEF grow_into_top, WithTop, UsedTopAt
<1>8. j = UsedTopAt(k, p, l, e)
  OBVIOUS
<1> HIDE DEF e, k, l, j, g
<1>9. k \in HeapSet /\ ~k.head[e].pinuse
  BY <1>3 DEF MemoryStep
<1>10. /\ MemoryStep(j, k) /\ CutHeads(k, j, p, l, e) /\ j.head[p].cinuse /\ j.head[l] = FreeHead(e - l)
       /\ j.foot[e] = IF j = UsedFreeAt(k, p, l, e) THEN e - l ELSE k.foot[e]
  BY <1>3, <1>5, <1>6, <1>8, <1>9, UsedFreeHeads
<1>11. j \in HeapSet /\ e - l \in Int
  BY <1>6, <1>10 DEF MemoryStep
<1>12. TopStep(g, j, l, e - l)
  BY <1>6, <1>7, <1>11, TopWritten
<1>13. CutHeads(h, g, p, l, e)
  <2>1. CutHeads(h, j, p, l, e)
    BY <1>3, <1>10, CutOfErased
  <2> QED
    BY <1>12, <2>1 DEF TopStep, CutHeads, Size
<1>14. g.foot[e] = h.foot[e]
  <2>1. j.foot = k.foot \/ j.foot[e] = k.foot[e]
    <3>1. j.foot = k.foot
      <4>1. DEFINE j1 == set_inuse(k, p, l - p)
      <4>2. MemoryStep(j1, k) /\ j1.foot = k.foot
        <5>1. l - p \in Int /\ l - p > 0 /\ p + (l - p) = l
          BY <1>3, <1>6
        <5> QED
          BY <1>5, <1>6, <1>9, <5>1, SetInuse
      <4>0. j = set_head(j1, l, e - l, FALSE, TRUE)
        BY <1>8 DEF UsedTopAt
      <4> HIDE DEF j1
      <4>3. j1 \in HeapSet
        BY <4>2 DEF MemoryStep
      <4>4. j.foot = j1.foot
        BY <1>6, <1>11, <4>0, <4>3, SetFreeHead
      <4> QED
        BY <4>2, <4>4
    <3> QED
      BY <3>1
  <2> QED
    BY <1>3, <1>12, <2>1 DEF TopStep
<1>15. ~g.head[l].cinuse /\ g.head[p].cinuse
  BY <1>10, <1>12 DEF TopStep, FreeHead
<1>16. /\ g \in HeapSet /\ SameSystem(g, h) /\ g.aborted = h.aborted /\ SameVictim(g, h) /\ g.bin = h.bin
       /\ g.top = l /\ g.topsize = e - l
  BY <1>3, <1>10, <1>12 DEF TopStep, MemoryStep, SameSystem, SameVictim
<1>17. p <= h.top /\ h.top < e
  BY <1>3, <1>6 DEF Outside
<1>18. GrowCut(h, g, p, l, e)
  BY <1>2, <1>6, <1>13, <1>14, <1>15, <1>16, <1>17 DEF GrowCut, e
<1>19. Outside(p, e, h.dv)
  <2>1. h.dv = Null \/ (IsFree(h, h.dv) /\ h.dv # n)
    BY <1>1 DEF Victim
  <2>2. p > 0
    BY <1>1, ChunkFacts
  <2>3. ASSUME IsFree(h, h.dv), h.dv # n
        PROVE  Outside(p, e, h.dv)
    <3>2. IsHeader(h, h.dv) /\ h.dv # p
      BY <1>4, <2>3, ChunkIsHeader, GrowPlaces DEF IsChunk, IsFree, IsUsed
    <3> QED
      BY <1>5, <2>3, <3>2
  <2> QED
    BY <1>3, <2>1, <2>2, <2>3 DEF Outside, Null
<1>20. VictimCut(h, g, p, l, e)
  BY <1>16, <1>19 DEF VictimCut
<1>21. BinsCut(h, g, p, l, e)
  <2>1. BinsOnce(g)
    BY <1>1, <1>16 DEF BinsOnce, Bins
  <2>2. \A t \in Sizes : \A a : InBin(h, t, a) => Outside(p, e, a)
    BY <1>1, <1>3 DEF Bins
  <2>3. ~IsFree(g, p)
    BY <1>15 DEF IsFree
  <2>4. \A t \in Sizes : \A a : InBin(g, t, a) <=> InBin(h, t, a)
    BY <1>16 DEF InBin
  <2> QED
    BY <1>16, <2>1, <2>2, <2>3, <2>4 DEF BinsCut, SameVictim
<1>22. UsersAre(g, U, U, p, l, e)
  <2>1. ~Outside(p, e, p)
    BY <1>3, <1>4, FreeRangeUsers
  <2> QED
    BY <1>4, <1>15, <2>1 DEF UsersAre
<1>23. Sound(g, U, {}) /\ SameSizes(h, g, U \ {p, n})
  <2>1. FeetKept(g, {}, p, l, e) = {}
    BY <1>15 DEF FeetKept
  <2> QED
    BY <1>4, <1>18, <1>20, <1>21, <1>22, <2>1, Resized
<1>24. SameSizes(h, g, U \ {p})
  <2>1. n \notin U
    BY <1>2 DEF Sound, Users, IsFree, IsUsed
  <2> QED
    BY <1>23, <2>1 DEF SameSizes
<1>25. Size(g, p) = nb
  BY <1>6, <1>13 DEF CutHeads
<1>26. Sound(g, U, {Past(g, p)})
  BY <1>23, SoundPast
<1> QED
  BY <1>16, <1>24, <1>25, <1>26 DEF Reallocated, MinChunk, g

LEMMA GrownIntoDv ==
  ASSUME NEW h, NEW U, Sound(h, U, {}), NEW p \in U, NEW n, n = Past(h, p), n = h.dv,
         NEW size, size = Size(h, p) + Size(h, n), NEW nb \in Int, 2 <= nb, nb <= size
  PROVE  Reallocated(h, grow_into_dv(h, p, size, nb), U, p, nb)
<1> DEFINE e == Past(h, n)
           k == erase(h, n)
           l == IF size - nb < 2 THEN p ELSE p + nb
           j == IF size - nb < 2 THEN WholeAt(k, p, e) ELSE UsedFreeAt(k, p, l, e)
           v == IF size - nb < 2 THEN Null ELSE l
           vs == IF size - nb < 2 THEN 0 ELSE e - l
           g == grow_into_dv(h, p, size, nb)
<1>1. Memory(h, {}) /\ Bins(h) /\ Victim(h) /\ h \in HeapSet /\ IsChunk(h, p)
  BY DEF Sound, Memory, Users, IsChunk
<1>2. IsFree(h, n) /\ IsHeader(h, n) /\ n # h.top
  <2>1. IsHeader(h, n)
    BY <1>1, ChunkIsHeader DEF Memory, Tiles
  <2>2. n # Null
    BY <1>1, <2>1, HeaderPlace
  <2> QED
    BY <1>1, <2>1, <2>2 DEF Victim
<1>3. /\ MemoryStep(k, h) /\ FreeRange(h, p, e) /\ Empty(k, p, e) /\ k.head[p] = h.head[p] /\ k.foot[p] = h.foot[p]
      /\ k.head[e] = h.head[e] /\ k.foot[e] = h.foot[e]
      /\ \A a \in Addr : a < p \/ e < a => k.head[a] = h.head[a] /\ k.foot[a] = h.foot[a]
      /\ ~h.head[e].pinuse /\ n < e /\ ~Outside(p, e, n) /\ e - p = Size(h, p) + Size(h, n)
      /\ \A t \in Sizes : \A a : InBin(h, t, a) => (Outside(p, e, a) <=> a # n)
      /\ p \in Int /\ e \in Int /\ n \in Int
  <2>1. NextErased(h, k, p, n, e)
    BY <1>2, ErasedNext
  <2> QED
    BY <2>1 DEF NextErased
<1>4. GrowRange(h, U, p, e) /\ ~Outside(p, e, p) /\ \A a \in U : a = p \/ Outside(p, e, a)
  BY <1>3, FreeRangeUsers
<1>5. p \in Addr /\ e \in Addr /\ HeadersBetween(h, p, e)
  <2>1. HeadersBetween(h, p, e)
    BY <1>4, GrowHeaders
  <2> QED
    BY <1>4, <2>1, GrowPlaces
<1>6. /\ l \in Int /\ l \in Addr /\ p <= l /\ l < e /\ ~Outside(p, e, l) /\ e - p = size
      /\ IF size - nb < 2 THEN l = p ELSE l - p = nb /\ p < l /\ e - l = size - nb /\ e - l >= 2
      /\ e - l >= 2 /\ (p < l => l - p >= 2)
  <2>1. CASE size - nb < 2
    BY <1>3, <1>4, <1>5, <2>1, FreeRangeUsers
  <2>2. CASE ~(size - nb < 2)
    <3>1. l = p + nb
      BY <2>2
    <3>2. l \in Int /\ p < l /\ l < e /\ l - p = nb /\ e - l = size - nb /\ l - p >= 2 /\ e - l >= 2
      BY <1>3, <2>2, <3>1
    <3> QED
      BY <1>3, <1>5, <2>2, <3>2, Places DEF Outside
  <2> QED
    BY <2>1, <2>2
<1>7. g = WithVictim(j, v, vs)
  <2>1. CASE size - nb < 2
    BY <1>6, <2>1 DEF grow_into_dv, WithVictim, WholeAt, MinChunk
  <2>2. CASE ~(size - nb < 2)
    <3>1. l = p + nb
      BY <2>2
    <3>2. p + size = e
      BY <1>3
    <3>3. j = set_free_with_pinuse(set_inuse(k, p, nb), p + nb, size - nb, p + size)
      BY <1>6, <2>2, <3>1, <3>2 DEF UsedFreeAt
    <3>4. v = p + nb /\ vs = size - nb
      BY <1>6, <2>2, <3>1
    <3> HIDE DEF j, v, vs, l, e
    <3> QED
      BY <2>2, <3>3, <3>4 DEF grow_into_dv, WithVictim, MinChunk
  <2> QED
    BY <2>1, <2>2
<1>8. /\ size - nb < 2 => l = p /\ j = WholeAt(k, p, e) /\ v = Null /\ vs = 0
      /\ ~(size - nb < 2) => j = UsedFreeAt(k, p, l, e) /\ v = l /\ vs = e - l
  BY <1>6
<1>0. e = Past(h, n)
  OBVIOUS
<1> HIDE DEF e, k, l, j, v, vs, g
<1>9. k \in HeapSet
  BY <1>3 DEF MemoryStep
<1>10. /\ MemoryStep(j, k) /\ CutHeads(k, j, p, l, e) /\ j.head[p].cinuse
       /\ ~(size - nb < 2) => j.head[l] = FreeHead(e - l) /\ j.foot[e] = e - l
  <2>1. CASE size - nb < 2
    <3>1. MemoryStep(j, k) /\ CutHeads(k, j, p, p, e) /\ j.head[p].cinuse
      BY <1>3, <1>5, <1>6, <1>8, <1>9, <2>1, UsedHeads DEF WholeAt
    <3> QED
      BY <1>8, <2>1, <3>1
  <2>2. CASE ~(size - nb < 2)
    <3>1. p < l /\ j = UsedFreeAt(k, p, l, e)
      BY <1>6, <1>8, <2>2
    <3> QED
      BY <1>3, <1>5, <1>6, <1>9, <3>1, UsedFreeHeads
  <2> QED
    BY <2>1, <2>2
<1>11. j \in HeapSet /\ v \in Int /\ vs \in Int
  BY <1>3, <1>6, <1>8, <1>10 DEF MemoryStep, Null
<1>12. VictimStep(g, j, v, vs)
  BY <1>7, <1>11, VictimWritten
<1>13. CutHeads(h, g, p, l, e)
  <2>1. CutHeads(h, j, p, l, e)
    BY <1>3, <1>10, CutOfErased
  <2> QED
    BY <1>12, <2>1 DEF VictimStep, CutHeads, Size
<1>14. /\ g \in HeapSet /\ SameSystem(g, h) /\ g.aborted = h.aborted /\ SameTop(g, h) /\ g.bin = h.bin
       /\ g.dv = v /\ g.dvsize = vs /\ g.head[p].cinuse
  BY <1>3, <1>10, <1>12 DEF VictimStep, MemoryStep, SameSystem, SameTop
<1>15. Outside(p, e, h.top)
  <2>1. h.top = Null \/ (IsHeader(h, h.top) /\ IsFree(h, h.top))
    BY <1>1, TopPlace
  <2>2. p > 0
    BY <1>1, ChunkFacts
  <2>3. ASSUME IsHeader(h, h.top), IsFree(h, h.top)
        PROVE  Outside(p, e, h.top)
    <3>1. IsUsed(h, p)
      BY DEF Sound, Users
    <3>2. h.top # p
      BY <2>3, <3>1 DEF IsFree, IsUsed
    <3> QED
      BY <1>2, <1>5, <2>3, <3>2 DEF HeadersBetween
  <2> QED
    BY <1>3, <2>1, <2>2, <2>3 DEF Outside, Null
<1>16. ~(p <= h.top /\ h.top < e)
  <2>1. h.top \in Int
    BY <1>1, TopPlace
  <2> QED
    BY <1>3, <1>15, <2>1 DEF Outside
<1>17. ~(size - nb < 2) => ~g.head[l].cinuse /\ g.foot[e] = e - l /\ IsFree(g, l) /\ Size(g, l) = e - l
  BY <1>6, <1>10, <1>12 DEF VictimStep, FreeHead, IsFree, Size
<1>18. size - nb < 2 => g.head[l].cinuse
  BY <1>8, <1>14
<1>19. g.top # l
  <2>1. h.top = g.top
    BY <1>14 DEF SameTop
  <2> QED
    BY <1>6, <1>16, <2>1
<1>20. GrowCut(h, g, p, l, e)
  <2>1. p < l => l - p >= 2
    BY <1>6
  <2>2. ~g.head[l].cinuse => IsFree(h, n) /\ e = Past(h, n) /\ g.foot[e] = IF g.top # l THEN e - l ELSE h.foot[e]
    BY <1>0, <1>2, <1>17, <1>18, <1>19
  <2> QED
    BY <1>6, <1>13, <1>14, <1>16, <2>1, <2>2 DEF GrowCut
<1>21. VictimCut(h, g, p, l, e)
  <2>1. CASE size - nb < 2
    BY <1>8, <1>14, <2>1 DEF VictimCut
  <2>2. CASE ~(size - nb < 2)
    BY <1>8, <1>14, <1>17, <1>19, <2>2 DEF VictimCut
  <2> QED
    BY <2>1, <2>2
<1>22. BinsCut(h, g, p, l, e)
  <2>1. BinsOnce(g)
    BY <1>1, <1>14 DEF BinsOnce, Bins
  <2>2. \A t \in Sizes : \A a : InBin(h, t, a) => Outside(p, e, a)
    BY <1>1, <1>3 DEF Bins
  <2>3. ~IsFree(g, p)
    BY <1>14 DEF IsFree
  <2>4. \A t \in Sizes : \A a : InBin(g, t, a) <=> InBin(h, t, a)
    BY <1>14 DEF InBin
  <2>5. ~Outside(p, e, h.dv)
    BY <1>3
  <2>6. ~(IsFree(g, l) /\ l # g.dv)
    <3>1. CASE size - nb < 2
      BY <1>18, <3>1 DEF IsFree
    <3>2. CASE ~(size - nb < 2)
      BY <1>8, <1>14, <3>2
    <3> QED
      BY <3>1, <3>2
  <2> QED
    BY <2>1, <2>2, <2>3, <2>4, <2>5, <2>6 DEF BinsCut
<1>23. UsersAre(g, U, U, p, l, e)
  <2>1. g.head[l].cinuse => l = p
    BY <1>8, <1>17
  <2> QED
    BY <1>4, <1>14, <2>1 DEF UsersAre
<1>24. Size(g, p) = l - p \/ (l = p /\ Size(g, p) = e - p)
  BY <1>6, <1>13 DEF CutHeads
<1>25. nb <= Size(g, p) /\ Size(g, p) < nb + 2
  BY <1>3, <1>6, <1>13 DEF CutHeads
<1> DEFINE Y == FeetKept(g, {}, p, l, e)
<1>26. Sound(g, U, Y) /\ SameSizes(h, g, U \ {p, n})
  BY <1>4, <1>20, <1>21, <1>22, <1>23, Resized
<1>27. Y \subseteq {Past(g, p)}
  <2>1. CASE size - nb < 2
    <3>1. Past(g, p) = e
      BY <1>3, <1>8, <1>13, <2>1 DEF CutHeads, Past, Size
    <3> QED
      BY <3>1 DEF FeetKept
  <2>2. CASE ~(size - nb < 2)
    BY <1>17, <2>2 DEF FeetKept
  <2> QED
    BY <2>1, <2>2
<1>28. SameSizes(h, g, U \ {p})
  <2>1. n \notin U
    BY <1>2 DEF Sound, Users, IsFree, IsUsed
  <2> QED
    BY <1>26, <2>1 DEF SameSizes
<1>29. Sound(g, U, {Past(g, p)})
  BY <1>26, <1>27, SoundPast
<1> QED
  BY <1>14, <1>25, <1>28, <1>29 DEF Reallocated, MinChunk, g

\* A chunk in use is what free and realloc check it to be.
LEMMA UsedOk ==
  ASSUME NEW h, NEW U, NEW X, Sound(h, U, X), NEW p \in U
  PROVE  /\ ok_address(h, p) /\ is_inuse(h, p) /\ h.head[Past(h, p)].pinuse
         /\ h.head[p].cinuse /\ p # Null /\ p \in Int /\ Size(h, p) \in Int /\ Past(h, p) = p + Size(h, p)
         /\ Size(h, p) >= 2 /\ h \in HeapSet
<1>1. Memory(h, X) /\ IsUsed(h, p) /\ IsChunk(h, p) /\ p \in Addr /\ \A x \in X : h.head[x].pinuse
  BY DEF Sound, Users, IsChunk, IsUsed
<1>2. IsHeader(h, p) /\ p \in Int /\ Size(h, p) \in Int /\ Past(h, p) = p + Size(h, p) /\ h \in HeapSet
  BY <1>1, ChunkFacts
<1>3. ok_address(h, p)
  BY <1>1, <1>2, AddressOk
<1>4. p # Null
  BY <1>1, <1>2, HeaderPlace
<1>5. h.head[Past(h, p)].pinuse
  BY UsersPast
<1>6. p # h.top
  BY <1>1, <1>4, TopPlace DEF IsFree, IsUsed
<1>7. Size(h, p) >= 2
  BY <1>1, <1>6, ChunkFacts
<1> QED
  BY <1>1, <1>2, <1>3, <1>4, <1>5, <1>7 DEF is_inuse, IsUsed

\* What a reallocation in place gives: p, now large enough, or nothing.
InPlace(h, r, U, p, nb) ==
    IF r.chunk = Null THEN r.heap = h
    ELSE r.chunk = p /\ Reallocated(h, r.heap, U, p, nb)

LEMMA TriedRealloc ==
  ASSUME NEW h, NEW U, Sound(h, U, {}), NEW p \in U, NEW nb \in Int, 2 <= nb
  PROVE  InPlace(h, try_realloc_chunk(h, p, nb), U, p, nb)
<1> DEFINE n == Past(h, p)
           size == Size(h, p) + Size(h, n)
           r == try_realloc_chunk(h, p, nb)
<1>1. /\ ok_address(h, p) /\ is_inuse(h, p) /\ h.head[n].pinuse /\ p # Null /\ p \in Int
      /\ Size(h, p) \in Int /\ h \in HeapSet
  BY UsedOk
<1>2. Require(h, ok_address(h, p) /\ is_inuse(h, p) /\ h.head[n].pinuse) = h
  BY <1>1, Requires
<1>3. r = IF Size(h, p) >= nb
          THEN Returns(IF Size(h, p) - nb >= MinChunk THEN shorten(h, p, Size(h, p), nb) ELSE h, p)
          ELSE IF n = h.top
          THEN IF size > nb THEN Returns(grow_into_top(h, p, size, nb), p) ELSE Returns(h, Null)
          ELSE IF n = h.dv
          THEN IF size >= nb THEN Returns(grow_into_dv(h, p, size, nb), p) ELSE Returns(h, Null)
          ELSE IF ~h.head[n].cinuse /\ size >= nb
          THEN Returns(grow_into_free(h, p, size, nb), p)
          ELSE Returns(h, Null)
  BY <1>2 DEF try_realloc_chunk, Past, Size
<1>4. n \in Addr /\ n \in Int /\ Size(h, n) \in Int /\ size \in Int
  BY <1>1, UsersPast, HeadTypes, Places
<1> HIDE DEF r, size
<1>5. CASE Size(h, p) >= nb /\ Size(h, p) - nb >= MinChunk
  <2>1. r = Returns(shorten(h, p, Size(h, p), nb), p)
    BY <1>3, <1>5
  <2>2. Reallocated(h, shorten(h, p, Size(h, p), nb), U, p, nb)
    BY <1>5, ShortenedSelf DEF MinChunk
  <2> QED
    BY <1>1, <2>1, <2>2 DEF InPlace, Returns, r
<1>6. CASE Size(h, p) >= nb /\ ~(Size(h, p) - nb >= MinChunk)
  <2>1. r = Returns(h, p)
    BY <1>3, <1>6
  <2>2. Sound(h, U, {Past(h, p)})
    BY SoundPast
  <2>3. Reallocated(h, h, U, p, nb)
    BY <1>1, <1>6, <2>2 DEF Reallocated, SameSizes, SameSystem, MinChunk
  <2> QED
    BY <1>1, <2>1, <2>3 DEF InPlace, Returns, r
<1>7. CASE ~(Size(h, p) >= nb) /\ n = h.top
  <2>1. CASE size > nb
    <3>1. r = Returns(grow_into_top(h, p, size, nb), p)
      BY <1>3, <1>7, <2>1
    <3>2. Size(h, p) < nb /\ nb < size
      BY <1>1, <1>4, <1>7, <2>1
    <3>3. Reallocated(h, grow_into_top(h, p, size, nb), U, p, nb)
      BY <1>7, <3>2, GrownIntoTop DEF size
    <3> QED
      BY <1>1, <3>1, <3>3 DEF InPlace, Returns, r
  <2>2. CASE ~(size > nb)
    BY <1>3, <1>7, <2>2 DEF InPlace, Returns, r
  <2> QED
    BY <2>1, <2>2
<1>8. CASE ~(Size(h, p) >= nb) /\ n # h.top /\ n = h.dv
  <2>1. CASE size >= nb
    <3>1. r = Returns(grow_into_dv(h, p, size, nb), p)
      BY <1>3, <1>8, <2>1
    <3>2. nb <= size
      BY <1>4, <2>1
    <3>3. Reallocated(h, grow_into_dv(h, p, size, nb), U, p, nb)
      BY <1>8, <3>2, GrownIntoDv DEF size
    <3> QED
      BY <1>1, <3>1, <3>3 DEF InPlace, Returns, r
  <2>2. CASE ~(size >= nb)
    BY <1>3, <1>8, <2>2 DEF InPlace, Returns, r
  <2> QED
    BY <2>1, <2>2
<1>9. CASE ~(Size(h, p) >= nb) /\ n # h.top /\ n # h.dv /\ ~h.head[n].cinuse /\ size >= nb
  <2>1. r = Returns(grow_into_free(h, p, size, nb), p)
    BY <1>3, <1>9
  <2>2. IsFree(h, n) /\ nb <= size
    BY <1>1, <1>4, <1>9 DEF IsFree
  <2>3. Reallocated(h, grow_into_free(h, p, size, nb), U, p, nb)
    BY <1>9, <2>2, GrownIntoFree DEF size
  <2> QED
    BY <1>1, <2>1, <2>3 DEF InPlace, Returns, r
<1>10. CASE ~(Size(h, p) >= nb) /\ n # h.top /\ n # h.dv /\ ~(~h.head[n].cinuse /\ size >= nb)
  <2>1. r = Returns(h, Null)
    BY <1>3, <1>10
  <2> QED
    BY <2>1 DEF InPlace, Returns, r
<1> QED
  BY <1>5, <1>6, <1>7, <1>8, <1>9, <1>10

----------------------------------------------------------------------------
(* The operations on memory that the users have.                           *)

\* Users write to all of what they have: nothing is left in the foot behind it.
LEMMA FilledSound ==
  ASSUME NEW h, NEW U, NEW p \in U, Sound(h, U, {Past(h, p)}), NEW g, g = Filled(h, p)
  PROVE  Sound(g, U, {}) /\ g.head = h.head /\ SameSystem(g, h)
<1> DEFINE x == Past(h, p)
<1>1. x \in Addr /\ h.head[x].pinuse
  BY UsersPast
<1>2. Memory(h, {x}) /\ h \in HeapSet
  BY DEF Sound, Memory
<1>3. g = [h EXCEPT !.foot[x] = 0]
  BY DEF Filled, Past
<1> HIDE DEF x
<1>4. MemoryStep(g, h) /\ g.head = h.head /\ g.foot = Put(h.foot, x, 0)
  BY <1>1, <1>2, <1>3, FootWritten
<1>5. \A a \in Addr : g.foot[a] = IF a = x THEN 0 ELSE h.foot[a]
  BY <1>1, <1>2, <1>4, PutValue, Fields
<1>6. /\ g \in HeapSet /\ g.segs = h.segs /\ g.least_addr = h.least_addr /\ g.top = h.top /\ g.topsize = h.topsize
      /\ g.dv = h.dv /\ g.dvsize = h.dvsize /\ g.bin = h.bin /\ g.aborted = h.aborted
  BY <1>4 DEF MemoryStep, SameVictim, SameTop, SameSystem
<1>7. \A a : /\ IsHeader(g, a) <=> IsHeader(h, a)
             /\ IsUsed(g, a) <=> IsUsed(h, a)
             /\ IsFree(g, a) <=> IsFree(h, a)
             /\ IsChunk(g, a) <=> IsChunk(h, a)
             /\ Size(g, a) = Size(h, a) /\ Past(g, a) = Past(h, a)
             /\ IsRecord(g, a) <=> IsRecord(h, a)
             /\ \A i : InSeg(g, i, a) <=> InSeg(h, i, a)
  BY <1>4, <1>6 DEF IsHeader, IsUsed, IsFree, IsChunk, Size, Past, IsRecord, InSeg, Segs
<1>8. Segments(g) /\ Kinds(g) /\ Tiles(g) /\ TopIn(g)
  <2>1. Segments(h) /\ Kinds(h) /\ Tiles(h) /\ TopIn(h)
    BY <1>2 DEF Memory
  <2>2. Segments(g)
    BY <2>1, <1>6, <1>7 DEF Segments, Segs
  <2>3. Kinds(g)
    BY <2>1, <1>4, <1>6, <1>7 DEF Kinds
  <2>4. Tiles(g)
    BY <2>1, <1>6, <1>7 DEF Tiles, Segs
  <2>5. TopIn(g)
    BY <2>1, <1>4, <1>6, <1>7 DEF TopIn
  <2> QED
    BY <2>2, <2>3, <2>4, <2>5
<1>9. TagsAgree(g)
  <2>1. TagsAgree(h)
    BY <1>2 DEF Memory
  <2>2. \A a \in Addr : ~h.head[a].pinuse => g.foot[a] = h.foot[a]
    BY <1>1, <1>5
  <2>3. \A a \in Addr : IsFree(h, a) => Past(h, a) \in Addr
    BY <1>2 DEF Memory, Tiles, IsChunk, IsHeader
  <2> SUFFICES ASSUME NEW a \in Addr
               PROVE  /\ IsUsed(g, a) => g.head[Past(g, a)].pinuse
                      /\ IsFree(g, a) =>
                            /\ ~g.head[Past(g, a)].pinuse
                            /\ a # g.top => g.head[Past(g, a)].cinuse /\ g.foot[Past(g, a)] = Size(g, a)
                      /\ g.head[a].cinuse /\ ~g.head[a].pinuse =>
                            LET b == a - g.foot[a] IN IsFree(g, b) /\ b # g.top /\ Size(g, b) = g.foot[a]
    BY DEF TagsAgree
  <2>5. IsUsed(g, a) => g.head[Past(g, a)].pinuse
    BY <2>1, <1>4, <1>7 DEF TagsAgree
  <2>6. IsFree(g, a) => /\ ~g.head[Past(g, a)].pinuse
                        /\ a # g.top => g.head[Past(g, a)].cinuse /\ g.foot[Past(g, a)] = Size(g, a)
    BY <2>1, <2>2, <2>3, <1>4, <1>6, <1>7 DEF TagsAgree
  <2>7. g.head[a].cinuse /\ ~g.head[a].pinuse =>
              LET b == a - g.foot[a] IN IsFree(g, b) /\ b # g.top /\ Size(g, b) = g.foot[a]
    BY <2>1, <2>2, <1>4, <1>6, <1>7 DEF TagsAgree
  <2> QED
    BY <2>5, <2>6, <2>7
<1>10. FeetIn(g, {})
  BY <1>2, <1>4, <1>5 DEF Memory, FeetIn
<1>11. Records(g) /\ Users(g, U) /\ Victim(g) /\ Bins(g) /\ g.aborted = FALSE
  <2>1. Records(h) /\ Users(h, U) /\ Victim(h) /\ Bins(h) /\ h.aborted = FALSE
    BY DEF Sound
  <2>2. Records(g)
    BY <2>1, <1>4, <1>6, <1>7 DEF Records, Segs
  <2>3. Users(g, U)
    BY <2>1, <1>7 DEF Users
  <2>4. Victim(g)
    BY <2>1, <1>6, <1>7 DEF Victim
  <2>5. Bins(g)
    BY <2>1, <1>6, <1>7 DEF Bins, BinsOnce, InBin
  <2> QED
    BY <2>1, <2>2, <2>3, <2>4, <2>5, <1>6
<1> QED
  BY <1>4, <1>6, <1>8, <1>9, <1>10, <1>11 DEF Sound, Memory, MemoryStep

\* Rounding down to a multiple.
LEMMA Divided ==
  ASSUME NEW x \in Nat, NEW d \in Nat, d > 0
  PROVE  /\ x \div d \in Nat /\ (x \div d) * d \in Nat
         /\ (x \div d) * d <= x /\ x < (x \div d) * d + d
  OBVIOUS

\* Where the aligned memory of a chunk starts.
LEMMA AlignedPlace ==
  ASSUME NEW p \in Nat, NEW al \in Nat, al >= 2
  PROVE  /\ AlignedChunk(p, al) \in Nat /\ p <= AlignedChunk(p, al) /\ AlignedChunk(p, al) <= p + al + 1
         /\ AlignedChunk(p, al) = p \/ AlignedChunk(p, al) - p >= 2
<1> DEFINE x == p + 1 + al - 1
           m == (x \div al) * al
<1>1. x \in Nat /\ x = p + al
  OBVIOUS
<1>2. m \in Nat /\ m <= x /\ x < m + al
  BY <1>1, Divided
<1>3. AlignedChunk(p, al) = IF m - 1 = p \/ (m - 1) - p >= MinChunk THEN m - 1 ELSE (m - 1) + al
  BY DEF AlignedChunk
<1> HIDE DEF x, m
<1> QED
  BY <1>1, <1>2, <1>3 DEF MinChunk

\* What malloc gives: a chunk, or nothing, and then all is as it was.
Malloced(h, r, U, nb) ==
    IF r.chunk = Null THEN Sound(r.heap, U, {}) /\ SameSizes(h, r.heap, U)
    ELSE Allocated(h, r, U, nb)

\* What memalign gives: it need not split a chunk that is larger by MinChunk.
Obtained(h, r, U, nb) ==
    LET c == r.chunk
        g == r.heap
    IN  IF c = Null THEN Sound(g, U, {}) /\ SameSizes(h, g, U)
        ELSE /\ c \notin U
             /\ Sound(g, U \cup {c}, {Past(g, c)}) /\ SameSizes(h, g, U)
             /\ nb <= Size(g, c) /\ Size(g, c) <= nb + MinChunk

LEMMA MallocObtains ==
  ASSUME NEW h, NEW r, NEW U, NEW nb \in Int, Malloced(h, r, U, nb)
  PROVE  Obtained(h, r, U, nb)
<1>1. CASE r.chunk = Null
  BY <1>1 DEF Malloced, Obtained
<1>2. CASE r.chunk # Null
  <2>1. Allocated(h, r, U, nb)
    BY <1>2 DEF Malloced
  <2>2. Sound(r.heap, U \cup {r.chunk}, {Past(r.heap, r.chunk)})
    BY <2>1 DEF Allocated
  <2>3. Size(r.heap, r.chunk) \in Int
    BY <2>2, UsedOk
  <2> QED
    BY <1>2, <2>1, <2>3 DEF Allocated, Obtained, MinChunk
<1> QED
  BY <1>1, <1>2

\* The heap after the space in front of the aligned memory has been freed.
Led(h, p, l, e) == IF l = p THEN h ELSE dispose_chunk(SplitAt(h, p, l, e), p, l - p)

\* The users have what l is the start of, where they had p.
IsLed(h, g, U, l, e) ==
    /\ Sound(g, U \cup {l}, {e}) /\ SameSizes(h, g, U) /\ Past(g, l) = e /\ l \notin U /\ SameSystem(g, h)
    /\ Size(g, l) = e - l

LEMMA LeaderFreed ==
  ASSUME NEW h, NEW U, NEW p, p \notin U, NEW e, e = Past(h, p), Sound(h, U \cup {p}, {e}),
         NEW l \in Int, p = l \/ l - p >= 2, e - l >= 2
  PROVE  IsLed(h, Led(h, p, l, e), U, l, e)
<1>1. p \in Int /\ e = p + Size(h, p) /\ Size(h, p) \in Int /\ h \in HeapSet
  BY UsedOk
<1>2. CASE p = l
  <2>1. Led(h, p, l, e) = h
    BY <1>2 DEF Led
  <2>2. SameSizes(h, h, U) /\ SameSystem(h, h)
    BY DEF SameSizes, SameSystem
  <2> QED
    BY <1>1, <1>2, <2>1, <2>2 DEF IsLed, Past
<1>3. CASE p # l
  <2> DEFINE k == SplitAt(h, p, l, e)
             g == Led(h, p, l, e)
  <2>1. Taken(h, h, p, e) /\ FreeRange(h, p, e)
    BY TakenSelf DEF FreeRange
  <2>2. SplitPlace(p, l, e)
    BY <1>3 DEF SplitPlace
  <2>3. IsSplit(h, k, U \cup {p}, {e}, p, l, e)
    BY <2>1, <2>2, TakenSplit
  <2>4. g = dispose_chunk(k, p, l - p)
    BY <1>3 DEF Led
  <2> HIDE DEF k, g
  <2>5. /\ Sound(k, U \cup {p, l}, {e}) /\ SameSizes(h, k, U) /\ Size(k, p) = l - p /\ Size(k, l) = e - l
        /\ l \notin U /\ SameSystem(k, h) /\ Past(k, l) = e
    <3>1. FeetOutside({e}, p, e) \cup {e} = {e}
      BY DEF FeetOutside
    <3>2. (U \cup {p}) \cup {l} = U \cup {p, l} /\ (U \cup {p}) \ {p} = U
      OBVIOUS
    <3> QED
      BY <2>3, <3>1, <3>2 DEF IsSplit
  <2>6. g = consolidate(k, p, Size(k, p)).heap
    BY <2>4, <2>5 DEF dispose_chunk
  <2>7. /\ Sound(g, (U \cup {p, l}) \ {p}, {e} \ {Past(k, p)}) /\ SameSizes(k, g, (U \cup {p, l}) \ {p})
        /\ SameSystem(g, k)
    BY <2>5, <2>6, Consolidated, SMTT(60)
  <2>8. (U \cup {p, l}) \ {p} = U \cup {l} /\ Past(k, p) = l /\ e # l
    BY <1>1, <1>3, <2>5 DEF Past, Size
  <2>9. Sound(g, U \cup {l}, {e}) /\ SameSizes(k, g, U \cup {l})
    BY <2>7, <2>8
  <2>10. Size(g, l) = e - l /\ Past(g, l) = e /\ SameSizes(h, g, U)
    BY <1>1, <2>5, <2>9 DEF SameSizes, Past, Size
  <2> QED
    BY <2>5, <2>7, <2>9, <2>10 DEF IsLed, SameSystem, g
<1> QED
  BY <1>2, <1>3

\* Two ways to write the same heads and feet.
LEMMA SameRecord ==
  ASSUME NEW g \in HeapSet, NEW k \in HeapSet, g.head = k.head, g.foot = k.foot, g.bin = k.bin,
         SameVictim(g, k), SameTop(g, k), SameSystem(g, k), g.trim_check = k.trim_check, g.aborted = k.aborted
  PROVE  g = k
<1> DEFINE Rec(x) == [head |-> x.head, foot |-> x.foot, bin |-> x.bin,
                      dv |-> x.dv, dvsize |-> x.dvsize, top |-> x.top, topsize |-> x.topsize, segs |-> x.segs,
                      footprint |-> x.footprint, max_footprint |-> x.max_footprint,
                      footprint_limit |-> x.footprint_limit, trim_check |-> x.trim_check,
                      release_checks |-> x.release_checks, least_addr |-> x.least_addr, aborted |-> x.aborted]
<1>1. ASSUME NEW x \in HeapSet PROVE x = Rec(x)
  BY <1>1 DEF HeapSet
<1>2. Rec(g) = Rec(k)
  BY DEF SameVictim, SameTop, SameSystem
<1> HIDE DEF Rec
<1> QED
  BY <1>1, <1>2

LEMMA SameHeap ==
  ASSUME NEW h, NEW g, NEW k, MemoryStep(g, h), MemoryStep(k, h),
         \A a \in Addr : g.head[a] = k.head[a] /\ g.foot[a] = k.foot[a]
  PROVE  g = k
<1>1. g \in HeapSet /\ k \in HeapSet
  BY DEF MemoryStep
<1>2. g.head = k.head /\ g.foot = k.foot
  BY <1>1, Fields
<1>3. /\ g.bin = k.bin /\ SameVictim(g, k) /\ SameTop(g, k) /\ SameSystem(g, k)
      /\ g.trim_check = k.trim_check /\ g.aborted = k.aborted
  BY DEF MemoryStep, SameVictim, SameTop, SameSystem
<1> QED
  BY <1>1, <1>2, <1>3, SameRecord

LEMMA PutPut ==
  ASSUME NEW h \in HeapSet, NEW p \in Addr, NEW q \in Addr, NEW x, NEW y
  PROVE  \A a \in Addr : Put(Put(h.head, p, x), q, y)[a] = IF a = q THEN y ELSE IF a = p THEN x ELSE h.head[a]
  BY Fields DEF Put

LEMMA SplitFromBack ==
  ASSUME NEW h \in HeapSet, NEW p \in Addr, NEW l \in Addr, NEW e \in Addr, p < l, l < e
  PROVE  set_inuse(set_inuse(h, l, e - l), p, l - p) = SplitAt(h, p, l, e)
<1> DEFINE h1 == set_inuse(h, l, e - l)
           g  == set_inuse(h1, p, l - p)
           k1 == set_inuse(h, p, l - p)
           k  == set_inuse(k1, l, e - l)
<1>1. p \in Int /\ l \in Int /\ e \in Int /\ l - p > 0 /\ e - l > 0 /\ p + (l - p) = l /\ l + (e - l) = e
  BY Places
<1>2. /\ MemoryStep(h1, h) /\ h1.foot = h.foot
      /\ h1.head = Put(Put(h.head, l, InUseHead(e - l, h.head[l])), e, BehindUsed(h.head[e]))
  BY <1>1, SetInuse
<1>3. /\ MemoryStep(k1, h) /\ k1.foot = h.foot
      /\ k1.head = Put(Put(h.head, p, InUseHead(l - p, h.head[p])), l, BehindUsed(h.head[l]))
  BY <1>1, SetInuse
<1>4. h1 \in HeapSet /\ k1 \in HeapSet
  BY <1>2, <1>3 DEF MemoryStep
<1>5. /\ MemoryStep(g, h1) /\ g.foot = h1.foot
      /\ g.head = Put(Put(h1.head, p, InUseHead(l - p, h1.head[p])), l, BehindUsed(h1.head[l]))
  <2> HIDE DEF h1
  <2> QED
    BY <1>1, <1>4, SetInuse
<1>6. /\ MemoryStep(k, k1) /\ k.foot = k1.foot
      /\ k.head = Put(Put(k1.head, l, InUseHead(e - l, k1.head[l])), e, BehindUsed(k1.head[e]))
  <2> HIDE DEF k1
  <2> QED
    BY <1>1, <1>4, SetInuse
<1>7. SplitAt(h, p, l, e) = k
  BY DEF SplitAt
<1> HIDE DEF h1, g, k1, k
<1>8. MemoryStep(g, h) /\ MemoryStep(k, h)
  BY <1>2, <1>3, <1>5, <1>6, MemoryStepsCompose
<1>9. \A a \in Addr : h1.head[a] = IF a = e THEN BehindUsed(h.head[e])
                                   ELSE IF a = l THEN InUseHead(e - l, h.head[l]) ELSE h.head[a]
  BY <1>2, Fields DEF Put
<1>10. \A a \in Addr : k1.head[a] = IF a = l THEN BehindUsed(h.head[l])
                                    ELSE IF a = p THEN InUseHead(l - p, h.head[p]) ELSE h.head[a]
  BY <1>1, <1>3, PutPut
<1>11. \A a \in Addr : g.head[a] = IF a = l THEN BehindUsed(h1.head[l])
                                   ELSE IF a = p THEN InUseHead(l - p, h1.head[p]) ELSE h1.head[a]
  BY <1>4, <1>5, Fields DEF Put
<1>12. \A a \in Addr : k.head[a] = IF a = e THEN BehindUsed(k1.head[e])
                                   ELSE IF a = l THEN InUseHead(e - l, k1.head[l]) ELSE k1.head[a]
  BY <1>4, <1>6, Fields DEF Put
<1>13. BehindUsed(InUseHead(e - l, h.head[l])) = InUseHead(e - l, BehindUsed(h.head[l]))
  <2> DEFINE x == h.head[l]
  <2>1. x \in HeadSet
    BY HeadTypes
  <2> HIDE DEF x
  <2>2. BehindUsed(InUseHead(e - l, x)) = InUseHead(e - l, BehindUsed(x))
    <3>1. BehindUsed(x).pinuse = TRUE
      BY <2>1 DEF BehindUsed, HeadSet
    <3>2. InUseHead(e - l, BehindUsed(x)) = UsedHead(e - l)
      BY <3>1 DEF InUseHead, UsedHead
    <3>3. BehindUsed(InUseHead(e - l, x)) = UsedHead(e - l)
      <4> DEFINE y == InUseHead(e - l, x)
      <4>1. y \in HeadSet /\ y.size = e - l /\ y.cinuse = TRUE
        BY <1>1, <2>1, Heads DEF InUseHead, HeadSet
      <4> HIDE DEF y
      <4>2. BehindUsed(y) = UsedHead(e - l)
        <5>1. BehindUsed(y) \in HeadSet /\ UsedHead(e - l) \in HeadSet
          BY <1>1, <4>1, Heads
        <5>2. BehindUsed(y).size = e - l /\ BehindUsed(y).cinuse /\ BehindUsed(y).pinuse
          BY <4>1 DEF BehindUsed, HeadSet
        <5>3. UsedHead(e - l).size = e - l /\ UsedHead(e - l).cinuse /\ UsedHead(e - l).pinuse
          BY DEF UsedHead
        <5> QED
          BY <5>1, <5>2, <5>3, SameHead
      <4> QED
        BY <4>2 DEF y
    <3> QED
      BY <3>2, <3>3
  <2> QED
    BY <2>2 DEF x
<1>14. p # l /\ l # e /\ p # e
  BY <1>1
<1>15. \A a \in Addr : g.head[a] = k.head[a]
  BY <1>9, <1>10, <1>11, <1>12, <1>13, <1>14
<1>16. \A a \in Addr : g.foot[a] = k.foot[a]
  BY <1>2, <1>3, <1>5, <1>6
<1> QED
  BY <1>7, <1>8, <1>15, <1>16, SameHeap DEF g, h1

LEMMA Memaligned ==
  ASSUME NEW h, NEW U, NEW al \in Nat, NEW nb \in Int, 2 <= nb, NEW tbase,
         Malloced(h, dlmalloc(h, AlignedRequest(nb, al), tbase), U, AlignedRequest(nb, al)),
         NEW r, r = internal_memalign(h, al, nb, tbase)
  PROVE  /\ Obtained(h, r, U, nb)
         /\ SameSystem(r.heap, dlmalloc(h, AlignedRequest(nb, al), tbase).heap)
<1> DEFINE a == dlmalloc(h, AlignedRequest(nb, al), tbase)
           p == a.chunk
           k == a.heap
           size == Size(k, p)
           big == Larger(al, MinChunk)
           l == AlignedChunk(p, big)
           e == Past(k, p)
           led == IF l - p = 0 THEN k
                  ELSE dispose_chunk(set_inuse(set_inuse(k, l, size - (l - p)), p, l - p), p, l - p)
           whole == size - (l - p)
           g == IF whole > nb + MinChunk THEN shorten(led, l, whole, nb) ELSE led
<1>1. r = IF p = Null THEN a ELSE Returns(g, l)
  BY DEF internal_memalign, Size
<1>2. Malloced(h, a, U, AlignedRequest(nb, al))
  OBVIOUS
<1>3. big \in Nat /\ big >= 2 /\ AlignedRequest(nb, al) = nb + big + 2
  BY DEF Larger, AlignedRequest, MinChunk
<1> HIDE DEF a, big
<1>4. CASE p = Null
  <2>1. r = a
    BY <1>1, <1>4
  <2>2. SameSystem(r.heap, k)
    BY <2>1 DEF SameSystem
  <2> QED
    BY <1>2, <1>4, <2>1, <2>2 DEF Malloced, Obtained, a
<1>5. CASE p # Null
  <2>1. /\ p \notin U /\ Sound(k, U \cup {p}, {e}) /\ SameSizes(h, k, U)
        /\ nb + big + 2 <= size
    BY <1>2, <1>3, <1>5 DEF Malloced, Allocated
  <2>2. p \in Int /\ e = p + size /\ size \in Int /\ k \in HeapSet /\ Memory(k, {e}) /\ IsUsed(k, p)
    <3>1. p \in U \cup {p}
      OBVIOUS
    <3>2. p \in Int /\ e = p + size /\ size \in Int /\ k \in HeapSet
      <4> HIDE DEF k
      <4> QED
        BY <2>1, <3>1, UsedOk
    <3>3. Memory(k, {e}) /\ Users(k, U \cup {p})
      BY <2>1 DEF Sound
    <3> QED
      BY <3>1, <3>2, <3>3 DEF Users
  <2>3. p \in Nat /\ p \in Addr /\ e \in Addr
    BY <2>1, <2>2, UsersPast, Places DEF IsUsed
  <2> HIDE DEF e, size, p, k
  <2>4. l \in Nat /\ p <= l /\ l <= p + big + 1 /\ (l = p \/ l - p >= 2)
    BY <1>3, <2>3, AlignedPlace
  <2> HIDE DEF l
  <2>5. e - l >= 2 /\ e - l >= nb + 1 /\ whole = e - l /\ l \in Int
    BY <1>3, <2>1, <2>2, <2>4
  <2>6. led = Led(k, p, l, e)
    <3>1. CASE l = p
      BY <2>2, <2>4, <3>1 DEF Led
    <3>2. CASE l # p
      <4>1. p < l /\ l < e /\ l \in Addr
        BY <2>2, <2>3, <2>4, <2>5, <3>2, Places
      <4>2. set_inuse(set_inuse(k, l, e - l), p, l - p) = SplitAt(k, p, l, e)
        BY <2>2, <2>3, <4>1, SplitFromBack
      <4>3. l - p # 0
        BY <2>2, <2>5, <4>1
      <4> QED
        BY <2>5, <3>2, <4>2, <4>3 DEF Led
    <3> QED
      BY <3>1, <3>2
  <2>7. IsLed(k, led, U, l, e)
    <3>1. p = l \/ l - p >= 2
      BY <2>4
    <3> HIDE DEF led
    <3> QED
      BY <2>1, <2>5, <2>6, <3>1, LeaderFreed DEF e
  <2> HIDE DEF led
  <2>8. /\ Sound(led, U \cup {l}, {Past(led, l)}) /\ SameSizes(k, led, U) /\ l \notin U
        /\ SameSystem(led, k) /\ Size(led, l) = whole
    BY <2>5, <2>7 DEF IsLed
  <2>9. l # Null
    BY <2>8, UsedOk
  <2>10. r = Returns(g, l)
    BY <1>1, <1>5
  <2>11. CASE whole > nb + MinChunk
    <3>1. Reallocated(led, g, U \cup {l}, l, nb)
      <4>1. 2 <= whole - nb
        BY <2>5, <2>2, <2>11 DEF MinChunk
      <4> HIDE DEF whole
      <4> QED
        BY <2>8, <2>11, <4>1, ShortenedSelf
    <3> HIDE DEF g
    <3>2. /\ Sound(g, U \cup {l}, {Past(g, l)}) /\ SameSizes(led, g, (U \cup {l}) \ {l}) /\ SameSystem(g, led)
          /\ nb <= Size(g, l) /\ Size(g, l) < nb + MinChunk
      BY <3>1 DEF Reallocated
    <3>3. SameSizes(h, g, U)
      BY <2>1, <2>8, <3>2 DEF SameSizes
    <3>4. Size(g, l) \in Int
      BY <3>2, UsedOk
    <3>5. Size(g, l) <= nb + MinChunk
      BY <3>2, <3>4 DEF MinChunk
    <3>6. SameSystem(g, k)
      BY <2>8, <3>2 DEF SameSystem
    <3> QED
      BY <2>8, <2>9, <2>10, <3>2, <3>3, <3>5, <3>6 DEF Obtained, Returns, a, k
  <2>12. CASE ~(whole > nb + MinChunk)
    <3>1. g = led
      BY <2>12
    <3>2. nb <= whole /\ whole <= nb + MinChunk
      BY <2>2, <2>5, <2>12 DEF MinChunk
    <3>3. SameSizes(h, led, U)
      BY <2>1, <2>8 DEF SameSizes
    <3> HIDE DEF g, whole
    <3> QED
      BY <2>8, <2>9, <2>10, <3>1, <3>2, <3>3 DEF Obtained, Returns, a, k
  <2> QED
    BY <2>11, <2>12
<1> QED
  BY <1>4, <1>5

\* Two chunks that the users have, next to each other, of a given size each.
Paired(h, r, U, first, second) ==
    LET p == r.chunk
        q == r.chunk + first
        g == r.heap
    IN  IF p = Null THEN Sound(g, U, {}) /\ SameSizes(h, g, U)
        ELSE /\ p \notin U /\ q \notin U /\ q # p
             /\ Sound(g, U \cup {p, q}, {Past(g, q)}) /\ SameSizes(h, g, U)
             /\ Size(g, p) = first /\ second <= Size(g, q) /\ Size(g, q) <= second + MinChunk

\* A chunk in use that is behind a chunk in use is split by writing two heads.
LEMMA SplitByHeads ==
  ASSUME NEW h \in HeapSet, NEW p \in Addr, NEW l \in Addr, NEW e \in Addr, p < l, l < e,
         h.head[p].pinuse, h.head[e].pinuse
  PROVE  set_size_and_pinuse_of_inuse_chunk(set_size_and_pinuse_of_inuse_chunk(h, p, l - p), l, e - l)
         = SplitAt(h, p, l, e)
<1> DEFINE h1 == set_size_and_pinuse_of_inuse_chunk(h, p, l - p)
           g  == set_size_and_pinuse_of_inuse_chunk(h1, l, e - l)
           k1 == set_inuse(h, p, l - p)
           k  == set_inuse(k1, l, e - l)
<1>1. p \in Int /\ l \in Int /\ e \in Int /\ l - p > 0 /\ e - l > 0 /\ p + (l - p) = l /\ l + (e - l) = e
  BY Places
<1>2. MemoryStep(h1, h) /\ h1.foot = h.foot /\ h1.head = Put(h.head, p, UsedHead(l - p))
  BY <1>1, SetInuseOnly
<1>3. /\ MemoryStep(k1, h) /\ k1.foot = h.foot
      /\ k1.head = Put(Put(h.head, p, InUseHead(l - p, h.head[p])), l, BehindUsed(h.head[l]))
  BY <1>1, SetInuse
<1>4. h1 \in HeapSet /\ k1 \in HeapSet
  BY <1>2, <1>3 DEF MemoryStep
<1>5. MemoryStep(g, h1) /\ g.foot = h1.foot /\ g.head = Put(h1.head, l, UsedHead(e - l))
  <2> HIDE DEF h1
  <2> QED
    BY <1>1, <1>4, SetInuseOnly
<1>6. /\ MemoryStep(k, k1) /\ k.foot = k1.foot
      /\ k.head = Put(Put(k1.head, l, InUseHead(e - l, k1.head[l])), e, BehindUsed(k1.head[e]))
  <2> HIDE DEF k1
  <2> QED
    BY <1>1, <1>4, SetInuse
<1>7. SplitAt(h, p, l, e) = k
  BY DEF SplitAt
<1> HIDE DEF h1, g, k1, k
<1>8. MemoryStep(g, h) /\ MemoryStep(k, h)
  BY <1>2, <1>3, <1>5, <1>6, MemoryStepsCompose
<1>9. \A a \in Addr : g.head[a] = IF a = l THEN UsedHead(e - l) ELSE IF a = p THEN UsedHead(l - p) ELSE h.head[a]
  BY <1>2, <1>5, Fields DEF Put
<1>10. \A a \in Addr : k1.head[a] = IF a = l THEN BehindUsed(h.head[l])
                                    ELSE IF a = p THEN InUseHead(l - p, h.head[p]) ELSE h.head[a]
  BY <1>3, Fields DEF Put
<1>11. \A a \in Addr : k.head[a] = IF a = e THEN BehindUsed(k1.head[e])
                                   ELSE IF a = l THEN InUseHead(e - l, k1.head[l]) ELSE k1.head[a]
  BY <1>4, <1>6, Fields DEF Put
<1>12. p # l /\ l # e /\ p # e
  BY <1>1
<1>13. BehindUsed(h.head[l]).pinuse = TRUE /\ BehindUsed(h.head[e]) = h.head[e] /\ h.head[p].pinuse = TRUE
  <2>1. h.head[l] \in HeadSet /\ h.head[e] \in HeadSet /\ h.head[p] \in HeadSet
    BY HeadTypes
  <2>2. BehindUsed(h.head[l]).pinuse = TRUE /\ h.head[p].pinuse = TRUE
    BY <2>1 DEF BehindUsed, HeadSet
  <2>3. BehindUsed(h.head[e]) = h.head[e]
    <3> DEFINE y == h.head[e]
    <3>1. y \in HeadSet /\ BehindUsed(y) \in HeadSet
      BY <2>1, Heads
    <3>2. y.pinuse
      OBVIOUS
    <3> HIDE DEF y
    <3>3. BehindUsed(y).size = y.size /\ (BehindUsed(y).cinuse <=> y.cinuse) /\ BehindUsed(y).pinuse
      BY <3>1 DEF BehindUsed, HeadSet
    <3>4. BehindUsed(y) = y
      BY <3>1, <3>2, <3>3, SameHead
    <3> QED
      BY <3>4 DEF y
  <2> QED
    BY <2>2, <2>3
<1>14. \A s : InUseHead(s, h.head[p]) = UsedHead(s) /\ InUseHead(s, BehindUsed(h.head[l])) = UsedHead(s)
  BY <1>13 DEF InUseHead, UsedHead
<1>15. \A a \in Addr : g.head[a] = k.head[a]
  BY <1>9, <1>10, <1>11, <1>12, <1>13, <1>14
<1>16. \A a \in Addr : g.foot[a] = k.foot[a]
  BY <1>2, <1>3, <1>5, <1>6
<1> QED
  BY <1>7, <1>8, <1>15, <1>16, SameHeap DEF g, h1

LEMMA PairAllocated ==
  ASSUME NEW h, NEW U, NEW first \in Int, NEW second \in Int, 2 <= first, 2 <= second, NEW tbase,
         Malloced(h, dlmalloc(h, first + second, tbase), U, first + second),
         NEW r, r = ialloc(h, first, second, tbase)
  PROVE  /\ Paired(h, r, U, first, second)
         /\ SameSystem(r.heap, dlmalloc(h, first + second, tbase).heap)
<1> DEFINE a == dlmalloc(h, first + second, tbase)
           p == a.chunk
           k == a.heap
           l == p + first
           e == Past(k, p)
           g == set_size_and_pinuse_of_inuse_chunk(
                    set_size_and_pinuse_of_inuse_chunk(k, p, first), l, Size(k, p) - first)
<1>1. r = IF p = Null THEN a ELSE Returns(g, p)
  BY DEF ialloc, Size
<1>2. Malloced(h, a, U, first + second)
  OBVIOUS
<1> HIDE DEF a
<1>3. CASE p = Null
  <2>1. r = a
    BY <1>1, <1>3
  <2>2. SameSystem(r.heap, k)
    BY <2>1 DEF SameSystem
  <2> QED
    BY <1>2, <1>3, <2>1, <2>2 DEF Malloced, Paired, a
<1>4. CASE p # Null
  <2>1. /\ p \notin U /\ Sound(k, U \cup {p}, {e}) /\ SameSizes(h, k, U) /\ k.head[p].pinuse
        /\ first + second <= Size(k, p) /\ Size(k, p) < first + second + 2
    BY <1>2, <1>4 DEF Malloced, Allocated, MinChunk
  <2> DEFINE V == U \cup {p}
  <2>2. p \in V
    OBVIOUS
  <2> HIDE DEF p, k
  <2>3. p \in Int /\ e = p + Size(k, p) /\ Size(k, p) \in Int /\ k \in HeapSet /\ k.head[e].pinuse
    BY <2>1, UsedOk
  <2>4. e \in Addr /\ p \in Addr
    <3>1. Users(k, V)
      BY <2>1 DEF Sound
    <3> QED
      BY <2>1, <2>2, <3>1, UsersPast DEF Users, IsUsed
  <2> HIDE DEF e
  <2>5. l \in Int /\ l \in Addr /\ p < l /\ l < e /\ l - p = first /\ e - l = Size(k, p) - first /\ SplitPlace(p, l, e)
    <3> DEFINE size == Size(k, p)
    <3>1. size \in Int /\ first + second <= size /\ p \in Int /\ e = p + size
      BY <2>1, <2>3
    <3> HIDE DEF size, e
    <3>2. l \in Int /\ p < l /\ l < e /\ l - p = first /\ e - l = size - first /\ l - p >= 2 /\ e - l >= 2
      BY <3>1
    <3>3. l \in Addr
      BY <2>4, <3>2, Places
    <3> QED
      BY <3>2, <3>3 DEF SplitPlace, size
  <2> HIDE DEF l, V
  <2>6. g = SplitAt(k, p, l, e)
    <3>1. g = set_size_and_pinuse_of_inuse_chunk(set_size_and_pinuse_of_inuse_chunk(k, p, l - p), l, e - l)
      BY <2>5
    <3> QED
      BY <2>1, <2>3, <2>4, <2>5, <3>1, SplitByHeads
  <2> HIDE DEF g
  <2>7. Taken(k, k, p, e) /\ FreeRange(k, p, e) /\ Sound(k, V, {e})
    BY <2>1, <2>2, TakenSelf DEF FreeRange, e, V
  <2>8. IsSplit(k, g, V, {e}, p, l, e)
    BY <2>2, <2>5, <2>6, <2>7, TakenSplit
  <2>9. V \cup {l} = U \cup {p, l} /\ FeetOutside({e}, p, e) \cup {e} = {e} /\ V \ {p} = U
    BY <2>1 DEF V, FeetOutside
  <2>10. /\ Sound(g, U \cup {p, l}, {Past(g, l)}) /\ SameSizes(k, g, U) /\ Size(g, p) = first
         /\ Size(g, l) = Size(k, p) - first /\ l \notin U /\ l # p /\ SameSystem(g, k)
    BY <2>2, <2>5, <2>8, <2>9 DEF IsSplit, V
  <2>11. SameSizes(h, g, U)
    BY <2>1, <2>10 DEF SameSizes
  <2>12. second <= Size(g, l) /\ Size(g, l) <= second + MinChunk
    BY <2>1, <2>3, <2>10 DEF MinChunk
  <2>13. r = Returns(g, p) /\ p # Null
    BY <1>1, <1>4 DEF g, p, l, k
  <2> QED
    BY <2>1, <2>10, <2>11, <2>12, <2>13 DEF Paired, Returns, l, a, k
<1> QED
  BY <1>3, <1>4

\* Two chunks in use that are neighbours become one.
LEMMA TakenUsed ==
  ASSUME NEW h, NEW U, Sound(h, U, {}), NEW p \in U, NEW n \in U, n = Past(h, p), NEW e, e = Past(h, n),
         NEW k, k = erase(h, n)
  PROVE  /\ Taken(h, k, p, e) /\ GrowRange(h, U, p, e) /\ p \in Int /\ n \in Int /\ e \in Int /\ p < n /\ n < e
         /\ e - p >= 2 /\ e - p = Size(h, p) + Size(h, n) /\ p \in Addr /\ e \in Addr
         /\ \A a \in U : a = p \/ a = n \/ Outside(p, e, a)
<1>1. Memory(h, {}) /\ Bins(h) /\ Victim(h) /\ Users(h, U) /\ h \in HeapSet
  BY DEF Sound, Memory
<1>2. GrowRange(h, U, p, e)
  BY DEF GrowRange
<1>3. /\ p \in Addr /\ p \in Int /\ n \in Addr /\ n \in Int /\ p < n /\ e \in Addr /\ e \in Int
      /\ \A a : IsHeader(h, a) /\ ~Outside(p, e, a) => a = p \/ a = n
      /\ IsUsed(h, p) /\ IsChunk(h, p)
  BY <1>2, GrowPlaces
<1>4. IsUsed(h, n) /\ IsChunk(h, n)
  BY <1>1 DEF Users, IsChunk
<1>5. Empty(h, n, e) /\ Empty(h, p, n) /\ n < e /\ e = n + Size(h, n) /\ n = p + Size(h, p)
      /\ Size(h, n) \in Int /\ Size(h, p) \in Int
  BY <1>1, <1>3, <1>4, ChunkFacts
<1>6. Size(h, p) >= 2 /\ Size(h, n) >= 2
  BY UsedOk
<1>7. MemoryStep(k, h) /\ k.head = Put(h.head, n, Blank) /\ k.foot = Put(h.foot, n, 0)
  BY <1>1, <1>3, Erase
<1>8. \A a \in Addr : /\ k.head[a] = IF a = n THEN Blank ELSE h.head[a]
                      /\ k.foot[a] = IF a = n THEN 0 ELSE h.foot[a]
  BY <1>1, <1>3, <1>7, Fields DEF Put
<1>9. ASSUME NEW a, IsFree(h, a)
      PROVE  Outside(p, e, a)
  <2>1. IsHeader(h, a) /\ a # p /\ a # n
    BY <1>3, <1>4, <1>9, ChunkIsHeader DEF IsChunk, IsFree, IsUsed
  <2> QED
    BY <1>3, <2>1
<1>10. Outside(p, e, h.top) /\ Outside(p, e, h.dv)
  <2>1. h.top = Null \/ IsFree(h, h.top)
    BY <1>1, TopPlace
  <2>2. h.dv = Null \/ IsFree(h, h.dv)
    BY <1>1 DEF Victim
  <2>3. p > 0
    BY <1>1, <1>3, ChunkFacts
  <2>4. Outside(p, e, Null)
    BY <1>3, <2>3 DEF Outside, Null
  <2> QED
    BY <1>9, <2>1, <2>2, <2>4
<1>11. \A a \in Addr : /\ a <= p \/ e <= a => k.head[a] = h.head[a] /\ k.foot[a] = h.foot[a]
                       /\ p < a /\ a < e => k.head[a] = Blank /\ k.foot[a] = 0
  <2> TAKE a \in Addr
  <2>1. a \in Int
    BY Places
  <2>2. CASE a = n
    BY <1>3, <1>5, <1>8, <2>2
  <2>3. CASE a # n
    BY <1>3, <1>5, <1>8, <2>1, <2>3 DEF Empty
  <2> QED
    BY <2>2, <2>3
<1>12. BinsOnce(k) /\ \A t \in Sizes : \A a : InBin(k, t, a) <=> InBin(h, t, a) /\ Outside(p, e, a)
  BY <1>1, <1>7, <1>9 DEF Bins, BinsOnce, InBin, MemoryStep
<1>13. Taken(h, k, p, e)
  BY <1>7, <1>10, <1>11, <1>12 DEF Taken, MemoryStep
<1>14. ASSUME NEW a \in U
       PROVE  a = p \/ a = n \/ Outside(p, e, a)
  <2>1. IsHeader(h, a)
    BY <1>1, ChunkIsHeader DEF Users, IsChunk
  <2> QED
    BY <1>3, <2>1
<1> QED
  BY <1>2, <1>3, <1>5, <1>6, <1>13, <1>14

LEMMA MergedUsed ==
  ASSUME NEW h, NEW U, Sound(h, U, {}), NEW p \in U, NEW n \in U, n = Past(h, p),
         NEW g, g = merge_next(h, p)
  PROVE  Sound(g, U \ {n}, {Past(g, p)}) /\ SameSizes(h, g, U \ {p, n}) /\ SameSystem(g, h) /\ p # n
<1> DEFINE e == Past(h, n)
           k == erase(h, n)
<1>1. /\ Taken(h, k, p, e) /\ GrowRange(h, U, p, e) /\ p \in Int /\ n \in Int /\ e \in Int /\ p < n /\ n < e
      /\ e - p >= 2 /\ e - p = Size(h, p) + Size(h, n) /\ p \in Addr /\ e \in Addr
      /\ \A a \in U : a = p \/ a = n \/ Outside(p, e, a)
  BY TakenUsed, SMTT(60)
<1>2. g = set_inuse(k, p, e - p)
  BY <1>1 DEF merge_next, Past, Size
<1> HIDE DEF e, k
<1>3. k \in HeapSet /\ Empty(k, p, e)
  BY <1>1 DEF Taken, Empty
<1>4. p < e /\ ~(p < p) /\ p # n
  BY <1>1
<1>5. MemoryStep(g, k) /\ CutHeads(k, g, p, p, e) /\ g.head[p].cinuse
  BY <1>1, <1>2, <1>3, <1>4, UsedHeads
<1>6. GrowCut(h, g, p, p, e) /\ VictimCut(h, g, p, p, e) /\ BinsCut(h, g, p, p, e)
  BY <1>1, <1>4, <1>5, TakenCut
<1>7. UsersAre(g, U, U \ {n}, p, p, e)
  <2>1. ~Outside(p, e, p) /\ ~Outside(p, e, n)
    BY <1>1 DEF Outside
  <2> QED
    BY <1>1, <1>4, <1>5, <2>1 DEF UsersAre
<1> DEFINE Y == FeetKept(g, {}, p, p, e)
<1>8. Sound(g, U \ {n}, Y) /\ SameSizes(h, g, U \ {p, n})
  BY <1>1, <1>6, <1>7, Resized
<1>9. Size(g, p) = e - p /\ SameSystem(g, h)
  BY <1>6 DEF GrowCut, CutHeads
<1>10. Y = {Past(g, p)}
  <2>1. Past(g, p) = e
    BY <1>1, <1>9 DEF Past, Size
  <2> QED
    BY <1>5, <2>1 DEF FeetKept
<1> QED
  BY <1>4, <1>8, <1>9, <1>10

\* The recursion of a bulk free over two elements.
NextFreed(array, n, i, g, p) ==
    LET ok == Require(g, ok_address(g, p) /\ is_inuse(g, p))
    IN  IF i < n /\ array[i + 1] = p + g.head[p].size
        THEN Returns(merge_next(ok, p), p)
        ELSE Returns(dispose_chunk(ok, p, g.head[p].size), IF i < n THEN array[i + 1] ELSE Null)

IsFreed(f, h, array) ==
    f = [i \in 0 .. Len(array) |->
            IF i = 0 THEN Returns(h, array[1])
            ELSE NextFreed(array, Len(array), i, f[i - 1].heap, f[i - 1].chunk)]

Freed(h, array) == CHOOSE f : IsFreed(f, h, array)

LEMMA BulkFreeCases ==
  ASSUME NEW h, NEW array, NEW canUnmap
  PROVE  LET done == Freed(h, array)[Len(array)].heap
         IN  internal_bulk_free(h, array, canUnmap)
             = IF should_trim(done, done.topsize) THEN sys_trim(done, 0, canUnmap) ELSE done
  BY DEF internal_bulk_free, Freed, IsFreed, NextFreed

\* An element is merged with the next one, or freed.
MergesNext(array, n, i, h, p) == i < n /\ array[i + 1] = Past(h, p)

OneFreed(h, g, U, p) == Sound(g, U \ {p}, {}) /\ SameSizes(h, g, U \ {p}) /\ SameSystem(g, h)

LEMMA FreedOne ==
  ASSUME NEW array, NEW n, NEW i, NEW h, NEW U, Sound(h, U, {}), NEW p \in U,
         NEW r, r = NextFreed(array, n, i, h, p)
  PROVE  /\ MergesNext(array, n, i, h, p) => r = Returns(merge_next(h, p), p)
         /\ ~MergesNext(array, n, i, h, p) => /\ r.chunk = IF i < n THEN array[i + 1] ELSE Null
                                             /\ OneFreed(h, r.heap, U, p)
<1>1. Require(h, ok_address(h, p) /\ is_inuse(h, p)) = h
  BY UsedOk, Requires
<1> DEFINE g == consolidate(h, p, Size(h, p)).heap
<1>2. r = IF i < n /\ array[i + 1] = Past(h, p) THEN Returns(merge_next(h, p), p)
          ELSE Returns(g, IF i < n THEN array[i + 1] ELSE Null)
  BY <1>1 DEF NextFreed, dispose_chunk, Past, Size
<1>3. Sound(g, U \ {p}, {} \ {Past(h, p)}) /\ SameSizes(h, g, U \ {p}) /\ SameSystem(g, h)
  BY Consolidated
<1>4. {} \ {Past(h, p)} = {}
  OBVIOUS
<1> HIDE DEF g
<1> QED
  BY <1>2, <1>3, <1>4 DEF Returns, MergesNext, OneFreed

LEMMA BulkFreed ==
  ASSUME NEW h, NEW U, Sound(h, U, {}), NEW p \in U, NEW q \in U, p # q,
         NEW g, g = Freed(h, <<p, q>>)[2].heap
  PROVE  Sound(g, U \ {p, q}, {}) /\ SameSizes(h, g, U \ {p, q}) /\ SameSystem(g, h)
<1> DEFINE array == <<p, q>>
           f == Freed(h, array)
           f0 == Returns(h, p)
           f1 == NextFreed(array, 2, 1, f0.heap, f0.chunk)
           f2 == NextFreed(array, 2, 2, f1.heap, f1.chunk)
<1>1. array[1] = p /\ array[2] = q /\ Len(array) = 2
  OBVIOUS
<1> HIDE DEF array
<1>2. IsFreed(f, h, array)
  <2> DEFINE w == [i \in 0 .. 2 |-> IF i = 0 THEN f0 ELSE IF i = 1 THEN f1 ELSE f2]
  <2>1. w[0] = f0 /\ w[1] = f1 /\ w[2] = f2
    OBVIOUS
  <2>2. \A i \in 0 .. 2 : w[i] = IF i = 0 THEN Returns(h, array[1])
                                 ELSE NextFreed(array, Len(array), i, w[i - 1].heap, w[i - 1].chunk)
    <3> HIDE DEF w
    <3> TAKE i \in 0 .. 2
    <3>1. CASE i = 0
      BY <1>1, <2>1, <3>1
    <3>2. CASE i = 1
      BY <1>1, <2>1, <3>2
    <3>3. CASE i = 2
      BY <1>1, <2>1, <3>3
    <3> QED
      BY <3>1, <3>2, <3>3
  <2>3. w = [i \in 0 .. 2 |-> IF i = 0 THEN Returns(h, array[1])
                              ELSE NextFreed(array, Len(array), i, w[i - 1].heap, w[i - 1].chunk)]
    BY <2>2
  <2>4. IsFreed(w, h, array)
    BY <1>1, <2>3 DEF IsFreed
  <2> QED
    BY <2>4 DEF Freed
<1> HIDE DEF f
<1>3. f[0] = f0 /\ f[1] = f1 /\ f[2] = f2
  <2>1. f = [i \in 0 .. 2 |-> IF i = 0 THEN Returns(h, array[1])
                              ELSE NextFreed(array, Len(array), i, f[i - 1].heap, f[i - 1].chunk)]
    BY <1>1, <1>2 DEF IsFreed
  <2>2. f[0] = f0
    BY <1>1, <2>1
  <2>3. f[1] = f1
    BY <1>1, <2>1, <2>2
  <2>4. f[2] = f2
    BY <1>1, <2>1, <2>3
  <2> QED
    BY <2>2, <2>3, <2>4
<1>4. f1 = NextFreed(array, 2, 1, h, p) /\ g = f2.heap
  BY <1>3 DEF Returns, f, array
<1> HIDE DEF f1
<1>5. CASE q = Past(h, p)
  <2> DEFINE k == merge_next(h, p)
  <2>1. f1 = Returns(k, p)
    <3>1. MergesNext(array, 2, 1, h, p)
      BY <1>1, <1>5 DEF MergesNext
    <3> QED
      BY <1>4, <3>1, FreedOne
  <2>2. Sound(k, U \ {q}, {Past(k, p)}) /\ SameSizes(h, k, U \ {p, q}) /\ SameSystem(k, h)
    BY <1>5, MergedUsed
  <2>3. f2 = NextFreed(array, 2, 2, k, p)
    BY <2>1 DEF Returns
  <2> HIDE DEF k, f2
  <2> DEFINE j == consolidate(k, p, Size(k, p)).heap
             V == U \ {q}
  <2>4. Require(k, ok_address(k, p) /\ is_inuse(k, p)) = k
    <3>1. p \in U \ {q}
      OBVIOUS
    <3> QED
      BY <2>2, <3>1, UsedOk, Requires
  <2>5. f2 = Returns(j, Null)
    BY <2>3, <2>4 DEF NextFreed, dispose_chunk, Size
  <2>6. p \in V /\ V \ {p} = U \ {p, q} /\ {Past(k, p)} \ {Past(k, p)} = {}
    OBVIOUS
  <2>7. Sound(k, V, {Past(k, p)})
    BY <2>2
  <2> HIDE DEF V
  <2>8. Sound(j, V \ {p}, {Past(k, p)} \ {Past(k, p)}) /\ SameSizes(k, j, V \ {p}) /\ SameSystem(j, k)
    BY <2>6, <2>7, Consolidated
  <2>9. g = j
    BY <1>4, <2>5 DEF Returns
  <2> QED
    BY <2>2, <2>6, <2>8, <2>9 DEF SameSizes, SameSystem
<1>6. CASE q # Past(h, p)
  <2>1. /\ f1.chunk = q /\ Sound(f1.heap, U \ {p}, {}) /\ SameSizes(h, f1.heap, U \ {p})
        /\ SameSystem(f1.heap, h)
    <3>1. ~MergesNext(array, 2, 1, h, p)
      BY <1>1, <1>6 DEF MergesNext
    <3>2. f1.chunk = q /\ OneFreed(h, f1.heap, U, p)
      BY <1>1, <1>4, <3>1, FreedOne
    <3> QED
      BY <3>2 DEF OneFreed
  <2> DEFINE V == U \ {p}
             k == f1.heap
  <2>2. q \in V /\ V \ {q} = U \ {p, q} /\ Sound(k, V, {})
    BY <2>1
  <2>3. f2 = NextFreed(array, 2, 2, k, q)
    BY <2>1
  <2> HIDE DEF V, k, f2
  <2>4. Sound(f2.heap, V \ {q}, {}) /\ SameSizes(k, f2.heap, V \ {q}) /\ SameSystem(f2.heap, k)
    <3>1. ~MergesNext(array, 2, 2, k, q)
      BY DEF MergesNext
    <3>2. OneFreed(k, f2.heap, V, q)
      BY <2>2, <2>3, <3>1, FreedOne
    <3> QED
      BY <3>2 DEF OneFreed
  <2>5. SameSizes(h, f2.heap, V \ {q}) /\ SameSystem(f2.heap, h)
    BY <2>1, <2>2, <2>4 DEF SameSizes, SameSystem, k
  <2> QED
    BY <1>4, <2>2, <2>4, <2>5
<1> QED
  BY <1>5, <1>6

----------------------------------------------------------------------------
(* malloc, but for memory from the system.                                 *)

\* A set of natural numbers has a least one.
LEMMA LeastNat ==
  ASSUME NEW T \in SUBSET Nat, T # {}
  PROVE  \E x \in T : \A y \in T : x <= y
<1> DEFINE R == {ss \in Nat \X Nat : ss[1] < ss[2]}
<1>1. OpToRel(<, Nat) = R
  BY DEF OpToRel
<1>2. IsWellFoundedOn(R, Nat)
  BY <1>1, NatLessThanWellFounded
<1>3. \E x \in T : \A y \in T : <<y, x>> \notin R
  <2> HIDE DEF R
  <2> QED
    BY <1>2, WFMin
<1>4. PICK x \in T : \A y \in T : <<y, x>> \notin R
  BY <1>3
<1>5. \A y \in T : ~(y < x)
  BY <1>4
<1> QED
  BY <1>5

LEMMA SmallestIn ==
  ASSUME NEW T \in SUBSET Nat, T # {}
  PROVE  Smallest(T) \in T /\ \A y \in T : Smallest(T) <= y
<1>1. \E x \in T : \A y \in T : x <= y
  BY LeastNat
<1> QED
  BY <1>1 DEF Smallest

\* The chunk comes from a bin, from the designated victim or from top, or more
\* memory is needed.
LEMMA MallocCases ==
  ASSUME NEW h, NEW U, Sound(h, U, {}), NEW nb \in Int, 2 <= nb, NEW tbase,
         NEW r, r = dlmalloc(h, nb, tbase)
  PROVE  (Allocated(h, r, U, nb) /\ SameSystem(r.heap, h)) \/ r = sys_alloc(h, nb, tbase)
<1> DEFINE small == SmallFrom(h, nb)
           large == LargeFrom(h, nb)
<1>1. h \in HeapSet /\ h.dvsize \in Int /\ h.topsize \in Int /\ Memory(h, {}) /\ MinLarge \in Int
  BY Places DEF Sound, Memory, HeapSet
<1>2. small \subseteq Sizes /\ large \subseteq Sizes /\ Sizes \subseteq Nat
  BY Places DEF SmallFrom, LargeFrom
<1>3. \A size \in small \cup large : size \in Sizes /\ h.bin[size] # <<>> /\ nb <= size /\ size \in Int
  BY Places DEF SmallFrom, LargeFrom
<1>4. ASSUME NEW size \in small \cup large, NEW toDv \in BOOLEAN, toDv => size - nb < 2 \/ h.dvsize < MinLarge,
             r = from_bin(h, size, nb, toDv)
      PROVE  Allocated(h, r, U, nb) /\ SameSystem(r.heap, h)
  BY <1>3, <1>4, FromBin
<1>5. r = IF is_small(nb) /\ nb \in small
          THEN from_bin(h, nb, nb, TRUE)
          ELSE IF is_small(nb) /\ nb > h.dvsize /\ small # {}
          THEN from_bin(h, Smallest(small), nb, TRUE)
          ELSE IF is_small(nb) /\ nb > h.dvsize /\ large # {}
          THEN from_bin(h, Smallest(large), nb, TRUE)
          ELSE IF ~is_small(nb) /\ large # {} /\ BetterThanDv(h, Smallest(large), nb)
          THEN from_bin(h, Smallest(large), nb, FALSE)
          ELSE IF nb <= h.dvsize THEN from_dv(h, nb)
          ELSE IF nb < h.topsize THEN split_top(h, nb)
          ELSE sys_alloc(h, nb, tbase)
  BY DEF dlmalloc
<1> HIDE DEF small, large
<1>6. CASE is_small(nb) /\ nb \in small
  <2>1. nb \in small \cup large /\ nb - nb < 2
    BY <1>6
  <2>2. r = from_bin(h, nb, nb, TRUE)
    BY <1>5, <1>6
  <2> QED
    BY <1>4, <2>1, <2>2
<1>7. CASE ~(is_small(nb) /\ nb \in small) /\ is_small(nb) /\ nb > h.dvsize /\ small # {}
  <2>1. Smallest(small) \in small \cup large
    BY <1>2, <1>7, SmallestIn
  <2>2. h.dvsize < MinLarge
    BY <1>1, <1>7 DEF is_small
  <2>3. r = from_bin(h, Smallest(small), nb, TRUE)
    BY <1>5, <1>7
  <2> QED
    BY <1>4, <2>1, <2>2, <2>3
<1>8. CASE /\ ~(is_small(nb) /\ nb \in small) /\ ~(is_small(nb) /\ nb > h.dvsize /\ small # {})
           /\ is_small(nb) /\ nb > h.dvsize /\ large # {}
  <2>1. Smallest(large) \in small \cup large
    BY <1>2, <1>8, SmallestIn
  <2>2. h.dvsize < MinLarge
    BY <1>1, <1>8 DEF is_small
  <2>3. r = from_bin(h, Smallest(large), nb, TRUE)
    BY <1>5, <1>8
  <2> QED
    BY <1>4, <2>1, <2>2, <2>3
<1>9. CASE ~is_small(nb) /\ large # {} /\ BetterThanDv(h, Smallest(large), nb)
  <2>1. Smallest(large) \in small \cup large
    BY <1>2, <1>9, SmallestIn
  <2>2. r = from_bin(h, Smallest(large), nb, FALSE)
    BY <1>5, <1>9
  <2> QED
    BY <1>4, <2>1, <2>2
<1>10. CASE r = from_dv(h, nb) /\ nb <= h.dvsize
  BY <1>10, FromDv
<1>11. CASE r = split_top(h, nb) /\ nb < h.topsize
  <2>1. h.segs # <<>> /\ IsFree(h, h.top)
    BY <1>1, <1>11 DEF Memory, TopIn
  <2>2. is_initialized(h)
    BY <1>1, <2>1, HeaderPlace, ChunkIsHeader DEF IsChunk, is_initialized
  <2> QED
    BY <1>11, <2>2, SplitTop
<1> QED
  BY <1>5, <1>6, <1>7, <1>8, <1>9, <1>10, <1>11
=============================================================================
