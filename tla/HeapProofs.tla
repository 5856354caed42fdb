---------------------------- MODULE HeapProofs -----------------------------
(***************************************************************************)
(* Theorems about Heap, for any granularity, size of the address space,    *)
(* thresholds, requests and number of blocks.  HeapMemory has the lemmas   *)
(* about chunks; here are those about segments, the contract of each       *)
(* operation, the invariant of the heap and its users, and the theorems.   *)
(***************************************************************************)
EXTENDS HeapMemory, HeapImpl

----------------------------------------------------------------------------
(* Segments.                                                               *)

\* A segment starts with a header behind which there is nothing.
LEMMA BaseHeader ==
  ASSUME NEW h, NEW X, Memory(h, X), NEW i \in Segs(h), NEW b, b = h.segs[i].base
  PROVE  IsHeader(h, b) /\ InSeg(h, i, b) /\ h.head[b].pinuse /\ b \in Int /\ b \in Addr
<1>1. /\ h \in HeapSet /\ Segments(h) /\ Kinds(h) /\ Tiles(h) /\ TagsAgree(h) /\ TopIn(h)
  BY DEF Memory
<1>2. /\ h.segs \in Seq(SegSet) /\ IsHeader(h, b) /\ b \in Addr /\ b \in Int /\ h.segs[i].size > 0
      /\ h.segs[i].size \in Int /\ EndOf(h.segs[i]) = b + h.segs[i].size /\ b >= Granularity
  BY <1>1, SegTypes, Places DEF Segments, IsHeader, EndOf
<1>3. InSeg(h, i, b)
  BY <1>2 DEF InSeg, segment_holds
<1>4. ASSUME NEW a, IsChunk(h, a), Past(h, a) = b
      PROVE  FALSE
  <2>1. a \in Addr /\ a \in Int /\ Size(h, a) > 0 /\ Size(h, a) \in Int /\ IsHeader(h, a) /\ b = a + Size(h, a)
    BY <1>1, <1>4, ChunkIsHeader, HeadTypes, Places DEF Kinds, Past, Size
  <2>2. PICK j \in Segs(h) : InSeg(h, j, a)
    BY <1>1, <2>1 DEF Tiles
  <2>3. InSeg(h, j, b)
    BY <1>1, <1>4, <2>1, <2>2 DEF Tiles
  <2>4. b <= b
    BY <1>2
  <2>5. i = j
    BY <1>1, <1>2, <1>3, <2>3, <2>4, OneSegment
  <2>6. InSeg(h, i, a)
    BY <2>2, <2>5
  <2>7. b <= a
    BY <2>6 DEF InSeg, segment_holds
  <2> QED
    BY <1>2, <2>1, <2>7
<1>5. CASE h.head[b].cinuse /\ ~h.head[b].pinuse
  <2> DEFINE a == b - h.foot[b]
  <2>1. IsFree(h, a) /\ Size(h, a) = h.foot[b]
    BY <1>1, <1>2, <1>5 DEF TagsAgree
  <2>2. a \in Addr /\ h.foot[b] \in Int
    BY <1>1, <1>2, <2>1, HeadTypes, SMTT(60) DEF IsFree
  <2>3. Past(h, a) = b
    BY <1>2, <2>1, <2>2, Places, SMTT(60) DEF Past, Size
  <2> QED
    BY <1>4, <2>1, <2>3 DEF IsChunk
<1>6. CASE ~h.head[b].cinuse /\ ~h.head[b].pinuse
  <2>1. h.top # Null /\ b = h.top + h.topsize
    BY <1>1, <1>2, <1>6 DEF Kinds, IsHeader
  <2>2. IsFree(h, h.top) /\ Size(h, h.top) = h.topsize
    BY <1>1, <2>1 DEF TopIn
  <2> QED
    BY <1>4, <2>1, <2>2 DEF IsChunk, Past, Size
<1> QED
  BY <1>2, <1>3, <1>5, <1>6

\* Top is in the first segment, and a chunk in another is not top.
LEMMA NotTop ==
  ASSUME NEW h, NEW X, Memory(h, X), NEW i \in Segs(h), i # 1, NEW a \in Int, InSeg(h, i, a)
  PROVE  a # h.top
<1>1. Segments(h) /\ TopIn(h) /\ h.segs \in Seq(SegSet)
  BY DEF Memory, Segments
<1>2. h.segs # <<>> /\ 1 \in Segs(h)
  BY <1>1, LenProperties DEF Segs
<1>3. InSeg(h, 1, h.top)
  BY <1>1, <1>2 DEF TopIn
<1> SUFFICES ASSUME a = h.top
             PROVE  FALSE
  OBVIOUS
<1>4. a <= a
  OBVIOUS
<1> QED
  BY <1>1, <1>2, <1>3, <1>4, OneSegment

\* The headers of a segment that is not in use: its base, the record and a fence.
UnusedSeg(h, i, b, rec) ==
    /\ b = h.segs[i].base /\ rec = h.segs[i].rec
    /\ b \in Int /\ rec \in Int /\ EndOf(h.segs[i]) = rec + TopFoot
    /\ IsFree(h, b) /\ b # h.top /\ Past(h, b) = rec /\ b < rec /\ IsUsed(h, rec) /\ h.head[rec + SegRecord] = Fence
    /\ \A a : IsHeader(h, a) /\ InSeg(h, i, a) => a = b \/ a = rec \/ a = rec + SegRecord

LEMMA UnusedHeaders ==
  ASSUME NEW h, NEW U, NEW X, Sound(h, U, X), NEW i \in Segs(h), i # 1, Unused(h, h.segs[i])
  PROVE  UnusedSeg(h, i, h.segs[i].base, h.segs[i].rec)
<1> DEFINE b == h.segs[i].base
           rec == h.segs[i].rec
           end == EndOf(h.segs[i])
<1>1. Memory(h, X) /\ Records(h) /\ h \in HeapSet /\ Segments(h) /\ Tiles(h) /\ h.segs \in Seq(SegSet)
  BY DEF Sound, Memory, Segments
<1>2. IsHeader(h, b) /\ InSeg(h, i, b) /\ b \in Int /\ b \in Addr /\ rec \in Int /\ end \in Int
  BY <1>1, BaseHeader, SegTypes
<1>3. ~h.head[b].cinuse /\ h.head[b].pinuse /\ b + Size(h, b) >= end - TopFoot
  BY <1>2 DEF Unused, is_inuse, Size
<1>4. /\ IsUsed(h, rec) /\ InSeg(h, i, rec) /\ Size(h, rec) = SegRecord /\ h.head[rec + SegRecord] = Fence
      /\ rec + TopFoot <= end
  BY <1>1 DEF Records
<1> HIDE DEF b, rec, end
<1>5. IsFree(h, b) /\ b # h.top
  BY <1>1, <1>2, <1>3, NotTop DEF IsFree
<1>6. Size(h, b) \in Int /\ Past(h, b) = b + Size(h, b) /\ Size(h, b) > 0
  BY <1>1, <1>2, <1>5, HeadTypes DEF Past, Size, Memory, Kinds, IsChunk
<1>7. b < rec
  BY <1>2, <1>4, <1>5 DEF InSeg, segment_holds, IsFree, IsUsed, b
<1>8. IsHeader(h, rec) /\ rec \in Addr
  BY <1>4, ChunkIsHeader DEF IsChunk
<1>9. Past(h, b) <= rec
  BY <1>1, <1>2, <1>5, <1>7, <1>8 DEF Tiles, IsChunk
<1>10. Past(h, b) = rec /\ end = rec + TopFoot
  BY <1>2, <1>3, <1>4, <1>6, <1>9 DEF TopFoot, SegRecord, MinChunk
<1>11. IsHeader(h, rec + SegRecord) /\ Past(h, rec) = rec + SegRecord /\ rec + SegRecord \in Int /\ rec + SegRecord \in Addr
       /\ InSeg(h, i, rec + SegRecord)
  <2>1. IsChunk(h, rec) /\ Past(h, rec) = rec + SegRecord
    BY <1>4 DEF IsChunk, Past, Size
  <2> QED
    BY <1>1, <1>2, <1>4, <1>8, <2>1 DEF Tiles, IsHeader, SegRecord
<1>12. ~IsChunk(h, rec + SegRecord)
  BY <1>4, ChunkIsHeader
<1>13. ASSUME NEW a, IsHeader(h, a), InSeg(h, i, a)
       PROVE  a = b \/ a = rec \/ a = rec + SegRecord
  <2>1. a \in Addr /\ a \in Int /\ b <= a
    BY <1>2, <1>13, Places DEF IsHeader, InSeg, segment_holds, b
  <2>2. b < a => Past(h, b) <= a
    BY <1>1, <1>2, <1>5, <1>13, <2>1 DEF Tiles, IsChunk
  <2>3. rec < a => Past(h, rec) <= a
    BY <1>1, <1>4, <1>8, <1>13, <2>1 DEF Tiles, IsChunk
  <2>4. a <= rec + SegRecord
    BY <1>1, <1>11, <1>12, <1>13, <2>1 DEF Tiles
  <2> QED
    BY <1>2, <1>10, <1>11, <2>1, <2>2, <2>3, <2>4
<1> QED
  BY <1>2, <1>4, <1>5, <1>7, <1>10, <1>13 DEF UnusedSeg, b, rec, end

\* From h to g segment i has gone, and with it what was in it.
SegGone(h, g, i) ==
    /\ g \in HeapSet /\ SameTop(g, h) /\ g.least_addr = h.least_addr
    /\ Len(g.segs) = Len(h.segs) - 1
    /\ \A k \in Segs(g) : g.segs[k] = h.segs[IF k < i THEN k ELSE k + 1]
    /\ \A a \in Addr : /\ g.head[a] = IF InSeg(h, i, a) THEN Blank ELSE h.head[a]
                       /\ g.foot[a] = IF InSeg(h, i, a) THEN 0 ELSE h.foot[a]

\* The segments of g are those of h, but for i.
LEMMA GoneSegs ==
  ASSUME NEW h, NEW g, NEW i \in Segs(h), i # 1, h.segs \in Seq(SegSet), g.segs \in Seq(SegSet), SegGone(h, g, i)
  PROVE  /\ \A k \in Segs(g) : \E j \in Segs(h) \ {i} : g.segs[k] = h.segs[j] /\ (k = 1 <=> j = 1)
         /\ \A j \in Segs(h) \ {i} : \E k \in Segs(g) : g.segs[k] = h.segs[j] /\ (k = 1 <=> j = 1)
         /\ \A k, m \in Segs(g) : k # m => \E j, n \in Segs(h) : g.segs[k] = h.segs[j] /\ g.segs[m] = h.segs[n] /\ j # n
         /\ g.segs # <<>> /\ h.segs # <<>> /\ g.segs[1] = h.segs[1] /\ 1 \in Segs(g) /\ 1 \in Segs(h)
<1> DEFINE J(k) == IF k < i THEN k ELSE k + 1
<1>1. Len(h.segs) \in Nat /\ Len(g.segs) \in Nat /\ i \in Int /\ 2 <= i /\ i <= Len(h.segs) /\ Len(g.segs) = Len(h.segs) - 1
  BY LenProperties DEF SegGone, Segs
<1>2. \A k \in Segs(g) : J(k) \in Segs(h) \ {i} /\ g.segs[k] = h.segs[J(k)] /\ (k = 1 <=> J(k) = 1)
  BY <1>1 DEF SegGone, Segs
<1>3. ASSUME NEW j \in Segs(h) \ {i}
      PROVE  \E k \in Segs(g) : g.segs[k] = h.segs[j] /\ (k = 1 <=> j = 1)
  <2>1. CASE j < i
    <3>1. j \in Segs(g) /\ J(j) = j
      BY <1>1, <2>1 DEF Segs
    <3> QED
      BY <1>2, <3>1
  <2>2. CASE j > i
    <3>1. j - 1 \in Segs(g) /\ J(j - 1) = j /\ j # 1 /\ j - 1 # 1
      BY <1>1, <2>2 DEF Segs
    <3> QED
      BY <1>2, <3>1
  <2> QED
    BY <1>1, <2>1, <2>2 DEF Segs
<1>4. \A k, m \in Segs(g) : k # m => J(k) # J(m)
  BY <1>1 DEF Segs
<1>5. 1 \in Segs(g) /\ 1 \in Segs(h) /\ J(1) = 1
  BY <1>1 DEF Segs
<1>6. g.segs # <<>> /\ h.segs # <<>> /\ g.segs[1] = h.segs[1]
  BY <1>1, <1>2, <1>5
<1> HIDE DEF J
<1> QED
  BY <1>2, <1>3, <1>4, <1>5, <1>6

\* What is left of an address after segment i has gone.
LEMMA GoneHeaders ==
  ASSUME NEW h, NEW X, Memory(h, X), NEW g, NEW i \in Segs(h), i # 1, SegGone(h, g, i)
  PROVE  /\ \A a : /\ IsHeader(g, a) <=> IsHeader(h, a) /\ ~InSeg(h, i, a)
                   /\ IsUsed(g, a) <=> IsUsed(h, a) /\ ~InSeg(h, i, a)
                   /\ IsFree(g, a) <=> IsFree(h, a) /\ ~InSeg(h, i, a)
                   /\ IsChunk(g, a) <=> IsChunk(h, a) /\ ~InSeg(h, i, a)
                   /\ IsHeader(g, a) => Size(g, a) = Size(h, a) /\ Past(g, a) = Past(h, a) /\ g.head[a] = h.head[a]
                                        /\ g.foot[a] = h.foot[a]
         /\ \A a : IsChunk(h, a) => /\ Past(h, a) \in Addr /\ a < Past(h, a)
                                    /\ InSeg(h, i, a) <=> InSeg(h, i, Past(h, a))
         /\ ~InSeg(h, i, h.top) /\ ~InSeg(h, i, Past(h, h.top))
<1>1. /\ h \in HeapSet /\ Segments(h) /\ Kinds(h) /\ Tiles(h) /\ TopIn(h) /\ h.segs \in Seq(SegSet)
  BY DEF Memory, Segments
<1>2. g \in HeapSet /\ g.segs \in Seq(SegSet)
  BY DEF SegGone, HeapSet
<1>3. \A a : /\ IsHeader(g, a) <=> IsHeader(h, a) /\ ~InSeg(h, i, a)
             /\ IsUsed(g, a) <=> IsUsed(h, a) /\ ~InSeg(h, i, a)
             /\ IsFree(g, a) <=> IsFree(h, a) /\ ~InSeg(h, i, a)
             /\ IsHeader(g, a) => Size(g, a) = Size(h, a) /\ Past(g, a) = Past(h, a) /\ g.head[a] = h.head[a]
                                        /\ g.foot[a] = h.foot[a]
  BY FixedHeads DEF SegGone, IsHeader, IsUsed, IsFree, Size, Past
<1>4. ASSUME NEW a, IsChunk(h, a)
      PROVE  Past(h, a) \in Addr /\ a < Past(h, a) /\ (InSeg(h, i, a) <=> InSeg(h, i, Past(h, a)))
  <2>1. a \in Addr /\ a \in Int /\ IsHeader(h, a)
    BY <1>4, ChunkIsHeader, Places
  <2>2. Size(h, a) \in Int /\ Size(h, a) > 0
    BY <1>1, <1>4, <2>1, HeadTypes DEF Kinds
  <2>3. Past(h, a) \in Addr /\ Past(h, a) \in Int /\ a < Past(h, a)
    BY <1>1, <1>4, <2>1, <2>2, Places, SMTT(60) DEF Tiles, IsHeader, Past, Size
  <2>4. PICK j \in Segs(h) : InSeg(h, j, a)
    BY <1>1, <2>1 DEF Tiles
  <2>5. InSeg(h, j, Past(h, a))
    BY <1>1, <1>4, <2>1, <2>4 DEF Tiles
  <2>6. InSeg(h, i, a) => InSeg(h, i, Past(h, a))
    BY <1>1, <1>4, <2>1 DEF Tiles
  <2>7. ASSUME InSeg(h, i, Past(h, a))
        PROVE  InSeg(h, i, a)
    <3>1. Past(h, a) <= Past(h, a)
      BY <2>3
    <3>2. i = j
      BY <1>1, <2>3, <2>5, <2>7, <3>1, OneSegment
    <3> QED
      BY <2>4, <3>2
  <2> QED
    BY <2>3, <2>6, <2>7
<1>5. IsChunk(h, h.top) /\ ~InSeg(h, i, h.top) /\ h.top \in Int
  <2>1. h.segs # <<>>
    BY <1>1, <1>2, GoneSegs
  <2>2. IsChunk(h, h.top) /\ h.top \in Int
    BY <1>1, <2>1 DEF TopIn, IsChunk, HeapSet
  <2> QED
    BY <2>2, NotTop
<1>6. \A a : IsChunk(g, a) <=> IsChunk(h, a) /\ ~InSeg(h, i, a)
  BY <1>3 DEF IsChunk
<1> QED
  BY <1>3, <1>4, <1>5, <1>6

LEMMA GoneMemory ==
  ASSUME NEW h, NEW X, Memory(h, X), NEW g, NEW i \in Segs(h), i # 1, SegGone(h, g, i),
         NEW Y, Y = {x \in X : ~InSeg(h, i, x)}
  PROVE  Memory(g, Y)
<1>1. /\ h \in HeapSet /\ Segments(h) /\ Kinds(h) /\ Tiles(h) /\ TagsAgree(h) /\ FeetIn(h, X) /\ TopIn(h)
      /\ h.segs \in Seq(SegSet)
  BY DEF Memory, Segments
<1>2. g \in HeapSet /\ g.segs \in Seq(SegSet) /\ g.top = h.top /\ g.topsize = h.topsize /\ g.least_addr = h.least_addr
  BY DEF SegGone, HeapSet, SameTop
<1>3. /\ \A k \in Segs(g) : \E j \in Segs(h) \ {i} : g.segs[k] = h.segs[j] /\ (k = 1 <=> j = 1)
      /\ \A j \in Segs(h) \ {i} : \E k \in Segs(g) : g.segs[k] = h.segs[j] /\ (k = 1 <=> j = 1)
      /\ \A k, m \in Segs(g) : k # m => \E j, n \in Segs(h) : g.segs[k] = h.segs[j] /\ g.segs[m] = h.segs[n] /\ j # n
      /\ g.segs # <<>> /\ h.segs # <<>> /\ g.segs[1] = h.segs[1] /\ 1 \in Segs(g) /\ 1 \in Segs(h)
  BY <1>1, <1>2, GoneSegs
<1>4. /\ \A a : /\ IsHeader(g, a) <=> IsHeader(h, a) /\ ~InSeg(h, i, a)
                /\ IsUsed(g, a) <=> IsUsed(h, a) /\ ~InSeg(h, i, a)
                /\ IsFree(g, a) <=> IsFree(h, a) /\ ~InSeg(h, i, a)
                /\ IsChunk(g, a) <=> IsChunk(h, a) /\ ~InSeg(h, i, a)
                /\ IsHeader(g, a) => Size(g, a) = Size(h, a) /\ Past(g, a) = Past(h, a) /\ g.head[a] = h.head[a]
                                     /\ g.foot[a] = h.foot[a]
      /\ \A a : IsChunk(h, a) => /\ Past(h, a) \in Addr /\ a < Past(h, a)
                                 /\ InSeg(h, i, a) <=> InSeg(h, i, Past(h, a))
      /\ ~InSeg(h, i, h.top) /\ ~InSeg(h, i, Past(h, h.top))
  BY GoneHeaders
<1>5. \A a : \A k \in Segs(g), j \in Segs(h) : g.segs[k] = h.segs[j] => (InSeg(g, k, a) <=> InSeg(h, j, a))
  BY DEF InSeg
<1>6. \A a \in Addr : /\ g.head[a] = IF InSeg(h, i, a) THEN Blank ELSE h.head[a]
                      /\ g.foot[a] = IF InSeg(h, i, a) THEN 0 ELSE h.foot[a]
  BY DEF SegGone
<1>7. Segments(g)
  <2>1. ASSUME NEW k \in Segs(g)
        PROVE  /\ g.segs[k].base >= Granularity /\ g.segs[k].size > 5
               /\ EndOf(g.segs[k]) <= Limit /\ g.least_addr <= g.segs[k].base
               /\ IsHeader(g, g.segs[k].base)
    <3>1. PICK j \in Segs(h) : j # i /\ g.segs[k] = h.segs[j]
      BY <1>3
    <3>2. /\ h.segs[j].base >= Granularity /\ h.segs[j].size > 5
          /\ EndOf(h.segs[j]) <= Limit /\ h.least_addr <= h.segs[j].base
      BY <1>1 DEF Segments
    <3> DEFINE b == h.segs[j].base
    <3>3. IsHeader(h, b) /\ InSeg(h, j, b) /\ b \in Int
      BY BaseHeader
    <3>4. b <= b
      BY <3>3
    <3>5. ~InSeg(h, i, b)
      BY <1>1, <3>1, <3>3, <3>4, OneSegment
    <3> QED
      BY <1>2, <1>4, <3>1, <3>2, <3>3, <3>5
  <2>2. ASSUME NEW k \in Segs(g), NEW m \in Segs(g), k # m
        PROVE  EndOf(g.segs[k]) <= g.segs[m].base \/ EndOf(g.segs[m]) <= g.segs[k].base
    <3>1. \E j, n \in Segs(h) : g.segs[k] = h.segs[j] /\ g.segs[m] = h.segs[n] /\ j # n
      BY <1>3, <2>2
    <3> QED
      BY <1>1, <3>1 DEF Segments
  <2> QED
    BY <1>2, <2>1, <2>2 DEF Segments
<1>8. Kinds(g)
  <2> SUFFICES ASSUME NEW a \in Addr
               PROVE  /\ ~g.head[a].cinuse /\ ~g.head[a].pinuse /\ g.head[a] # Blank =>
                            g.head[a] = FakeHead /\ g.top # Null /\ a = g.top + g.topsize
                      /\ IsChunk(g, a) => Size(g, a) > 0 /\ (a # g.top => Size(g, a) >= MinChunk)
    BY DEF Kinds
  <2>1. ~g.head[a].cinuse /\ ~g.head[a].pinuse /\ g.head[a] # Blank =>
                            g.head[a] = FakeHead /\ g.top # Null /\ a = g.top + g.topsize
    BY <1>1, <1>2, <1>6 DEF Kinds
  <2>2. IsChunk(g, a) => Size(g, a) > 0 /\ (a # g.top => Size(g, a) >= MinChunk)
    BY <1>1, <1>2, <1>4, ChunkIsHeader DEF Kinds
  <2> QED
    BY <2>1, <2>2
<1>9. Tiles(g)
  <2>1. ASSUME NEW a \in Addr, IsHeader(g, a)
        PROVE  \E k \in Segs(g) : InSeg(g, k, a)
    <3>1. PICK j \in Segs(h) : InSeg(h, j, a)
      BY <1>1, <1>4, <2>1 DEF Tiles
    <3>2. j # i
      BY <1>4, <2>1, <3>1
    <3> QED
      BY <1>3, <1>5, <3>1, <3>2
  <2>2. ASSUME NEW a \in Addr, IsChunk(g, a)
        PROVE  /\ IsHeader(g, Past(g, a))
               /\ \A k \in Segs(g) : InSeg(g, k, a) => InSeg(g, k, Past(g, a))
               /\ \A b \in Addr : IsHeader(g, b) /\ a < b => Past(g, a) <= b
    <3>1. IsChunk(h, a) /\ ~InSeg(h, i, a) /\ Past(g, a) = Past(h, a) /\ ~InSeg(h, i, Past(h, a))
      BY <1>4, <2>2, ChunkIsHeader
    <3>2. IsHeader(h, Past(h, a))
      BY <1>1, <3>1 DEF Tiles
    <3>3. ASSUME NEW k \in Segs(g), InSeg(g, k, a)
          PROVE  InSeg(g, k, Past(g, a))
      <4>1. PICK j \in Segs(h) : g.segs[k] = h.segs[j]
        BY <1>3
      <4> QED
        BY <1>1, <1>5, <3>1, <3>3, <4>1 DEF Tiles
    <3>4. \A b \in Addr : IsHeader(g, b) /\ a < b => Past(g, a) <= b
      BY <1>1, <1>4, <3>1 DEF Tiles
    <3> QED
      BY <1>4, <3>1, <3>2, <3>3, <3>4
  <2>3. ASSUME NEW a \in Addr, IsHeader(g, a), ~IsChunk(g, a), NEW b \in Addr, NEW k \in Segs(g),
               IsHeader(g, b), InSeg(g, k, a), InSeg(g, k, b)
        PROVE  b <= a
    <3>1. PICK j \in Segs(h) : g.segs[k] = h.segs[j]
      BY <1>3
    <3>2. IsHeader(h, a) /\ ~IsChunk(h, a) /\ IsHeader(h, b)
      BY <1>4, <2>3
    <3> QED
      BY <1>1, <1>5, <2>3, <3>1, <3>2 DEF Tiles
  <2> QED
    BY <2>1, <2>2, <2>3 DEF Tiles
<1>10. TagsAgree(g)
  <2> SUFFICES ASSUME NEW a \in Addr
               PROVE  /\ IsUsed(g, a) => g.head[Past(g, a)].pinuse
                      /\ IsFree(g, a) =>
                            /\ ~g.head[Past(g, a)].pinuse
                            /\ a # g.top => g.head[Past(g, a)].cinuse /\ g.foot[Past(g, a)] = Size(g, a)
                      /\ g.head[a].cinuse /\ ~g.head[a].pinuse =>
                            LET b == a - g.foot[a] IN IsFree(g, b) /\ b # g.top /\ Size(g, b) = g.foot[a]
    BY DEF TagsAgree
  <2>1. ASSUME IsChunk(g, a)
        PROVE  /\ IsChunk(h, a) /\ Past(g, a) = Past(h, a) /\ Size(g, a) = Size(h, a)
               /\ g.head[Past(h, a)] = h.head[Past(h, a)] /\ g.foot[Past(h, a)] = h.foot[Past(h, a)]
    BY <1>4, <1>6, <2>1, ChunkIsHeader
  <2>2. IsUsed(g, a) => g.head[Past(g, a)].pinuse
    BY <1>1, <1>4, <2>1 DEF TagsAgree, IsChunk
  <2>3. IsFree(g, a) => /\ ~g.head[Past(g, a)].pinuse
                        /\ a # g.top => g.head[Past(g, a)].cinuse /\ g.foot[Past(g, a)] = Size(g, a)
    BY <1>1, <1>2, <1>4, <2>1 DEF TagsAgree, IsChunk
  <2>4. ASSUME g.head[a].cinuse, ~g.head[a].pinuse
        PROVE  LET b == a - g.foot[a] IN IsFree(g, b) /\ b # g.top /\ Size(g, b) = g.foot[a]
    <3>1. ~InSeg(h, i, a) /\ g.head[a] = h.head[a] /\ g.foot[a] = h.foot[a]
      BY <1>6, <2>4, FixedHeads
    <3> DEFINE b == a - h.foot[a]
    <3>2. IsFree(h, b) /\ b # h.top /\ Size(h, b) = h.foot[a]
      BY <1>1, <2>4, <3>1 DEF TagsAgree
    <3>3. Past(h, b) = a
      <4>1. b \in Addr /\ h.foot[a] \in Int /\ a \in Int
        BY <1>1, <3>2, HeadTypes, Places DEF IsFree
      <4> QED
        BY <3>2, <4>1, Places DEF Past, Size
    <3>4. ~InSeg(h, i, b)
      BY <1>4, <3>1, <3>2, <3>3 DEF IsChunk
    <3> HIDE DEF b
    <3>5. IsFree(g, b) /\ Size(g, b) = Size(h, b)
      BY <1>4, <3>2, <3>4, ChunkIsHeader DEF IsChunk
    <3> QED
      BY <1>2, <3>1, <3>2, <3>5 DEF b
  <2> QED
    BY <2>2, <2>3, <2>4
<1>11. FeetIn(g, Y)
  BY <1>1, <1>6 DEF FeetIn
<1>12. TopIn(g)
  <2>1. IsFree(h, h.top) /\ InSeg(h, 1, h.top) /\ Size(h, h.top) = h.topsize
        /\ h.top + h.topsize = EndOf(h.segs[1]) - TopFoot /\ h.head[h.top + h.topsize] = FakeHead
    BY <1>1, <1>3 DEF TopIn
  <2>2. IsHeader(g, h.top) /\ IsFree(g, h.top) /\ Size(g, h.top) = h.topsize
    BY <1>4, <2>1, ChunkIsHeader DEF IsChunk
  <2>3. Past(h, h.top) = h.top + h.topsize /\ Past(h, h.top) \in Addr
    BY <1>4, <2>1 DEF Past, Size, IsChunk
  <2>4. g.head[h.top + h.topsize] = FakeHead
    BY <1>4, <1>6, <2>1, <2>3
  <2> QED
    BY <1>2, <1>3, <1>5, <2>1, <2>2, <2>4 DEF TopIn
<1> QED
  BY <1>2, <1>7, <1>8, <1>9, <1>10, <1>11, <1>12 DEF Memory

\* A free chunk has left the bins, or is no longer the designated victim.
LeftBins(h, g, b) ==
    /\ BinsOnce(g)
    /\ \A t \in Sizes : \A a : InBin(g, t, a) <=> InBin(h, t, a) /\ a # b
    /\ IF b = h.dv THEN g.dv = Null /\ g.dvsize = 0 ELSE SameVictim(g, h)

LEMMA GoneSound ==
  ASSUME NEW h, NEW U, NEW X, Sound(h, U, X), NEW i \in Segs(h), i # 1, NEW b, NEW rec, UnusedSeg(h, i, b, rec),
         NEW g, SegGone(h, g, i), LeftBins(h, g, b), g.aborted = FALSE,
         NEW Y, Y = {x \in X : ~InSeg(h, i, x)}
  PROVE  Sound(g, U, Y) /\ SameSizes(h, g, U)
<1>1. /\ Memory(h, X) /\ Records(h) /\ Users(h, U) /\ Victim(h) /\ Bins(h) /\ h \in HeapSet /\ Segments(h)
      /\ h.segs \in Seq(SegSet) /\ \A x \in X : x \in Addr /\ h.head[x].pinuse
  BY DEF Sound, Memory, Segments
<1>2. g \in HeapSet /\ g.segs \in Seq(SegSet) /\ g.top = h.top
  BY DEF SegGone, HeapSet, SameTop
<1>3. /\ \A k \in Segs(g) : \E j \in Segs(h) \ {i} : g.segs[k] = h.segs[j] /\ (k = 1 <=> j = 1)
      /\ \A j \in Segs(h) \ {i} : \E k \in Segs(g) : g.segs[k] = h.segs[j] /\ (k = 1 <=> j = 1)
      /\ g.segs # <<>> /\ h.segs # <<>> /\ g.segs[1] = h.segs[1] /\ 1 \in Segs(g) /\ 1 \in Segs(h)
  BY <1>1, <1>2, GoneSegs
<1>4. /\ \A a : /\ IsHeader(g, a) <=> IsHeader(h, a) /\ ~InSeg(h, i, a)
                /\ IsUsed(g, a) <=> IsUsed(h, a) /\ ~InSeg(h, i, a)
                /\ IsFree(g, a) <=> IsFree(h, a) /\ ~InSeg(h, i, a)
                /\ IsChunk(g, a) <=> IsChunk(h, a) /\ ~InSeg(h, i, a)
                /\ IsHeader(g, a) => Size(g, a) = Size(h, a) /\ Past(g, a) = Past(h, a) /\ g.head[a] = h.head[a]
      /\ \A a : IsChunk(h, a) => /\ Past(h, a) \in Addr
                                 /\ InSeg(h, i, a) <=> InSeg(h, i, Past(h, a))
  BY <1>1, GoneHeaders
<1>5. /\ b = h.segs[i].base /\ rec = h.segs[i].rec /\ IsFree(h, b) /\ b # h.top /\ h.head[rec + SegRecord] = Fence
      /\ IsUsed(h, rec)
      /\ \A a : IsHeader(h, a) /\ InSeg(h, i, a) => a = b \/ a = rec \/ a = rec + SegRecord
  BY DEF UnusedSeg
<1>6. InSeg(h, i, b) /\ IsHeader(h, b) /\ b # Null
  BY <1>1, <1>5, BaseHeader, HeaderPlace
<1>7. ASSUME NEW a, IsFree(h, a)
      PROVE  InSeg(h, i, a) <=> a = b
  <2>1. IsHeader(h, a)
    BY <1>7, ChunkIsHeader DEF IsChunk
  <2>2. a # rec /\ a # rec + SegRecord
    BY <1>5, <1>7 DEF IsFree, IsUsed, Fence
  <2> QED
    BY <1>5, <1>6, <2>1, <2>2
<1>8. ASSUME NEW a, IsUsed(h, a)
      PROVE  InSeg(h, i, a) => a = rec
  <2>1. IsHeader(h, a)
    BY <1>8, ChunkIsHeader DEF IsChunk
  <2>2. a # b /\ a # rec + SegRecord
    BY <1>5, <1>8 DEF IsFree, IsUsed
  <2> QED
    BY <1>5, <2>1, <2>2
<1>9. InSeg(h, i, rec)
  BY <1>1, <1>5 DEF Records
<1>10. \A a : \A k \in Segs(g), j \in Segs(h) : g.segs[k] = h.segs[j] => (InSeg(g, k, a) <=> InSeg(h, j, a))
  BY DEF InSeg
<1>11. ASSUME NEW j \in Segs(h) \ {i}, NEW a \in Int, InSeg(h, j, a)
       PROVE  ~InSeg(h, i, a)
  <2>1. a <= a
    OBVIOUS
  <2> QED
    BY <1>1, <1>11, <2>1, OneSegment
<1>12. ASSUME NEW j \in Segs(h), j # 1, j # i, NEW r, r = h.segs[j].rec
       PROVE  /\ IsUsed(g, r) /\ IsUsed(h, r) /\ InSeg(h, j, r) /\ Size(g, r) = SegRecord /\ g.head[r + SegRecord] = Fence
              /\ r + TopFoot <= EndOf(h.segs[j]) /\ r # rec /\ ~InSeg(h, i, r)
  <2>1. /\ IsUsed(h, r) /\ InSeg(h, j, r) /\ Size(h, r) = SegRecord /\ h.head[r + SegRecord] = Fence
        /\ r + TopFoot <= EndOf(h.segs[j])
    BY <1>1, <1>12 DEF Records
  <2>2. IsChunk(h, r) /\ r \in Int /\ IsHeader(h, r)
    BY <2>1, ChunkIsHeader, Places DEF IsChunk
  <2>3. ~InSeg(h, i, r)
    BY <1>11, <1>12, <2>1, <2>2
  <2>4. Past(h, r) = r + SegRecord /\ Past(h, r) \in Addr /\ ~InSeg(h, i, Past(h, r))
    BY <1>4, <2>1, <2>2, <2>3 DEF Past, Size
  <2>5. g.head[r + SegRecord] = Fence
    BY <2>1, <2>4 DEF SegGone
  <2>6. IsUsed(g, r) /\ Size(g, r) = SegRecord
    BY <1>4, <2>1, <2>2, <2>3
  <2> QED
    BY <1>9, <2>1, <2>3, <2>5, <2>6
<1>13. Records(g)
  <2>1. g.segs[1].rec = Null
    BY <1>1, <1>3 DEF Records
  <2>2. ASSUME NEW k \in Segs(g) \ {1}
        PROVE  /\ IsUsed(g, g.segs[k].rec) /\ InSeg(g, k, g.segs[k].rec)
               /\ Size(g, g.segs[k].rec) = SegRecord
               /\ g.head[g.segs[k].rec + SegRecord] = Fence
               /\ g.segs[k].rec + TopFoot <= EndOf(g.segs[k])
    <3>1. PICK j \in Segs(h) : j # i /\ j # 1 /\ g.segs[k] = h.segs[j]
      BY <1>3
    <3> QED
      BY <1>10, <1>12, <3>1
  <2> QED
    BY <2>1, <2>2 DEF Records
<1>14. Users(g, U)
  <2>1. ASSUME NEW a
        PROVE  IsRecord(g, a) <=> IsRecord(h, a) /\ ~InSeg(h, i, a)
    <3>1. ASSUME IsRecord(g, a)
          PROVE  IsRecord(h, a) /\ ~InSeg(h, i, a)
      <4>1. PICK k \in Segs(g) \ {1} : g.segs[k].rec = a
        BY <3>1 DEF IsRecord
      <4>2. PICK j \in Segs(h) : j # i /\ j # 1 /\ g.segs[k] = h.segs[j]
        BY <1>3, <4>1
      <4>3. a = h.segs[j].rec
        BY <4>1, <4>2
      <4>4. ~InSeg(h, i, a)
        BY <1>12, <4>2, <4>3
      <4> QED
        BY <4>2, <4>3, <4>4 DEF IsRecord
    <3>2. ASSUME IsRecord(h, a), ~InSeg(h, i, a)
          PROVE  IsRecord(g, a)
      <4>1. PICK j \in Segs(h) \ {1} : h.segs[j].rec = a
        BY <3>2 DEF IsRecord
      <4>2. j # i
        BY <1>5, <1>9, <3>2, <4>1
      <4>3. PICK k \in Segs(g) : g.segs[k] = h.segs[j] /\ k # 1
        BY <1>3, <4>1, <4>2
      <4> QED
        BY <4>1, <4>3 DEF IsRecord
    <3> QED
      BY <3>1, <3>2
  <2>2. \A a \in U : ~InSeg(h, i, a)
    <3> TAKE a \in U
    <3>1. IsUsed(h, a) /\ ~IsRecord(h, a)
      BY <1>1 DEF Users
    <3>2. a # rec
      BY <1>5, <3>1 DEF IsRecord
    <3> QED
      BY <1>8, <3>1, <3>2
  <2> QED
    BY <1>1, <1>4, <2>1, <2>2 DEF Users
<1>15. Victim(g)
  <2>1. CASE b = h.dv
    BY <2>1 DEF LeftBins, Victim
  <2>2. CASE b # h.dv /\ h.dv = Null
    BY <1>1, <2>2 DEF LeftBins, Victim, SameVictim
  <2>3. CASE b # h.dv /\ h.dv # Null
    <3>1. g.dv = h.dv /\ g.dvsize = h.dvsize
      BY <2>3 DEF LeftBins, SameVictim
    <3>2. IsFree(h, h.dv) /\ h.dv # h.top /\ h.dvsize = Size(h, h.dv)
      BY <1>1, <2>3 DEF Victim
    <3>3. ~InSeg(h, i, h.dv)
      BY <1>7, <2>3, <3>2
    <3>4. IsFree(g, h.dv) /\ Size(g, h.dv) = Size(h, h.dv)
      BY <1>4, <3>2, <3>3, ChunkIsHeader DEF IsChunk
    <3> QED
      BY <1>2, <2>3, <3>1, <3>2, <3>4 DEF Victim
  <2> QED
    BY <2>1, <2>2, <2>3
<1>16. Bins(g)
  <2>1. BinsOnce(g)
    BY DEF LeftBins
  <2>2. ASSUME NEW s \in Sizes, NEW a
        PROVE  InBin(g, s, a) <=> IsFree(g, a) /\ a # g.dv /\ a # g.top /\ s = Size(g, a)
    <3>1. InBin(g, s, a) <=> IsFree(h, a) /\ a # h.dv /\ a # h.top /\ s = Size(h, a) /\ a # b
      BY <1>1 DEF LeftBins, Bins
    <3>2. IsFree(g, a) <=> IsFree(h, a) /\ a # b
      BY <1>4, <1>7
    <3>3. IsFree(g, a) => Size(g, a) = Size(h, a) /\ a # Null
      <4>1. IsFree(g, a) => IsHeader(g, a) /\ IsHeader(h, a)
        BY <1>4, ChunkIsHeader DEF IsChunk
      <4> QED
        BY <1>1, <1>4, <4>1, HeaderPlace
    <3>4. IsFree(g, a) => (a # h.dv <=> a # g.dv)
      BY <3>2, <3>3 DEF LeftBins, SameVictim
    <3> QED
      BY <1>2, <3>1, <3>2, <3>3, <3>4
  <2> QED
    BY <2>1, <2>2 DEF Bins
<1>17. Memory(g, Y)
  BY <1>1, GoneMemory
<1>18. \A y \in Y : y \in Addr /\ g.head[y].pinuse
  BY <1>1 DEF SegGone
<1>19. SameSizes(h, g, U)
  <2>1. \A a \in U : IsUsed(g, a)
    BY <1>14 DEF Users
  <2> QED
    BY <1>4, <2>1, ChunkIsHeader DEF SameSizes, IsChunk
<1> QED
  BY <1>13, <1>14, <1>15, <1>16, <1>17, <1>18, <1>19 DEF Sound

\* The sizes of the first segments add up to f.
SumsTo(f, segs, total) ==
    /\ f \in [0 .. Len(segs) -> Int] /\ f[0] = 0 /\ total = f[Len(segs)]
    /\ \A i \in 1 .. Len(segs) : f[i] = f[i - 1] + segs[i].size

\* The segments account for the footprint.
Accounts(h) == h.footprint <= h.max_footprint /\ \E f : SumsTo(f, h.segs, h.footprint)

\* A step from h to g keeps account, and grows only within the limit.
Ledger(h, g) ==
    /\ Accounts(h) => Accounts(g)
    /\ g.footprint \in Int /\ h.footprint \in Int /\ g.footprint_limit = h.footprint_limit
    /\ g.footprint <= h.footprint \/ h.footprint_limit = 0 \/ g.footprint <= h.footprint_limit

LEMMA LedgerSame ==
  ASSUME NEW h \in HeapSet, NEW g, SameSystem(g, h)
  PROVE  Ledger(h, g)
<1>1. g.segs = h.segs /\ g.footprint = h.footprint /\ g.max_footprint = h.max_footprint
      /\ g.footprint_limit = h.footprint_limit
  BY DEF SameSystem
<1>2. h.footprint \in Int
  BY DEF HeapSet
<1> QED
  BY <1>1, <1>2 DEF Ledger, Accounts

LEMMA LedgerSteps ==
  ASSUME NEW h \in HeapSet, NEW k \in HeapSet, NEW g, Ledger(h, k), Ledger(k, g)
  PROVE  Ledger(h, g)
<1>1. h.footprint_limit \in Int
  BY DEF HeapSet
<1> QED
  BY <1>1 DEF Ledger

LEMMA SumWithout ==
  ASSUME NEW segs \in Seq(SegSet), NEW other \in Seq(SegSet), NEW i \in 1 .. Len(segs),
         Len(other) = Len(segs) - 1, \A k \in 1 .. Len(other) : other[k] = segs[IF k < i THEN k ELSE k + 1],
         NEW f, NEW total, SumsTo(f, segs, total)
  PROVE  \E e : SumsTo(e, other, total - segs[i].size)
<1> DEFINE n == Len(segs)
           d == segs[i].size
           e == [k \in 0 .. n - 1 |-> IF k < i THEN f[k] ELSE f[k + 1] - d]
<1>1. n \in Nat /\ i \in 1 .. n /\ Len(other) = n - 1 /\ d \in Int
  <2>1. segs[i] \in SegSet
    BY ElementOfSeq
  <2>2. n \in Nat
    BY LenProperties
  <2> QED
    BY <2>1, <2>2 DEF SegSet
<1>2. f \in [0 .. n -> Int] /\ f[0] = 0 /\ total = f[n] /\ \A k \in 1 .. n : f[k] = f[k - 1] + segs[k].size
  BY DEF SumsTo
<1> HIDE DEF n, d
<1>3. \A k \in 0 .. n - 1 : e[k] = IF k < i THEN f[k] ELSE f[k + 1] - d
  OBVIOUS
<1>4. e \in [0 .. n - 1 -> Int]
  BY <1>1, <1>2, SMTT(60)
<1> HIDE DEF e
<1>5. e[0] = 0
  BY <1>1, <1>2, <1>3
<1>6. e[n - 1] = total - d
  <2>1. CASE i = n
    <3>1. e[n - 1] = f[n - 1]
      BY <1>1, <1>3, <2>1
    <3>2. f[n] = f[n - 1] + d
      BY <1>1, <1>2, <2>1 DEF d
    <3>3. f[n - 1] \in Int
      BY <1>1, <1>2
    <3> QED
      BY <1>1, <1>2, <3>1, <3>2, <3>3, SMTT(60)
  <2>2. CASE i # n
    BY <1>1, <1>2, <1>3, <2>2
  <2> QED
    BY <2>1, <2>2
<1>7. ASSUME NEW k \in 1 .. n - 1
      PROVE  e[k] = e[k - 1] + other[k].size
  <2>1. k \in Int /\ 1 <= k /\ k <= n - 1 /\ k \in 1 .. Len(other)
    BY <1>1
  <2>2. CASE k < i
    <3>1. other[k] = segs[k] /\ e[k] = f[k] /\ e[k - 1] = f[k - 1]
      BY <1>1, <1>3, <2>1, <2>2, SMTT(60)
    <3> QED
      BY <1>1, <1>2, <2>1, <3>1
  <2>3. CASE k = i
    <3>1. other[k] = segs[k + 1] /\ e[k] = f[k + 1] - d /\ e[k - 1] = f[k - 1]
      BY <1>1, <1>3, <2>1, <2>3
    <3>2. f[k + 1] = f[k] + segs[k + 1].size
      <4>1. k + 1 \in 1 .. n /\ (k + 1) - 1 = k
        BY <1>1, <2>1
      <4> QED
        BY <1>2, <4>1
    <3>3. f[k] = f[k - 1] + d
      BY <1>1, <1>2, <2>1, <2>3 DEF d
    <3>4. f[k] \in Int /\ f[k - 1] \in Int /\ f[k + 1] \in Int /\ segs[k + 1].size \in Int
      <4>1. k \in 0 .. n /\ k - 1 \in 0 .. n /\ k + 1 \in 0 .. n /\ k + 1 \in 1 .. n
        BY <1>1, <2>1
      <4>2. segs[k + 1] \in SegSet
        BY <4>1, ElementOfSeq DEF n
      <4> QED
        BY <1>2, <4>1, <4>2 DEF SegSet
    <3> HIDE DEF e
    <3> QED
      BY <1>1, <3>1, <3>2, <3>3, <3>4, SMTT(60)
  <2>4. CASE k > i
    <3>1. other[k] = segs[k + 1] /\ e[k] = f[k + 1] - d /\ e[k - 1] = f[k] - d
      <4>1. k - 1 \in 0 .. n - 1 /\ ~(k - 1 < i) /\ (k - 1) + 1 = k /\ k \in 0 .. n - 1 /\ ~(k < i)
        BY <1>1, <2>1, <2>4
      <4> QED
        BY <1>1, <1>3, <2>1, <4>1
    <3>2. f[k + 1] = f[k] + segs[k + 1].size
      <4>1. k + 1 \in 1 .. n /\ (k + 1) - 1 = k
        BY <1>1, <2>1
      <4> QED
        BY <1>2, <4>1
    <3>4. f[k] \in Int /\ f[k + 1] \in Int /\ segs[k + 1].size \in Int
      <4>1. k \in 0 .. n /\ k + 1 \in 0 .. n /\ k + 1 \in 1 .. n
        BY <1>1, <2>1
      <4>2. segs[k + 1] \in SegSet
        BY <4>1, ElementOfSeq DEF n
      <4> QED
        BY <1>2, <4>1, <4>2 DEF SegSet
    <3> QED
      BY <1>1, <3>1, <3>2, <3>4, SMTT(60)
  <2> QED
    BY <1>1, <2>1, <2>2, <2>3, <2>4
<1>8. SumsTo(e, other, total - d)
  BY <1>1, <1>4, <1>5, <1>6, <1>7 DEF SumsTo
<1> QED
  BY <1>8 DEF d

\* A sequence without its i-th element.
Dropped(s, i) == SubSeq(s, 1, i - 1) \o SubSeq(s, i + 1, Len(s))

LEMMA DroppedSeq ==
  ASSUME NEW S, NEW s \in Seq(S), NEW i \in 1 .. Len(s)
  PROVE  /\ Dropped(s, i) \in Seq(S) /\ Len(Dropped(s, i)) = Len(s) - 1
         /\ \A k \in 1 .. Len(s) - 1 : Dropped(s, i)[k] = s[IF k < i THEN k ELSE k + 1]
<1> DEFINE n == Len(s)
           front == SubSeq(s, 1, i - 1)
           back == SubSeq(s, i + 1, n)
<1>1. n \in Nat /\ i \in Int /\ 1 <= i /\ i <= n
  BY LenProperties
<1>2. \A k \in 1 .. n : s[k] \in S
  BY ElementOfSeq
<1>3. front \in Seq(S) /\ Len(front) = i - 1 /\ \A k \in 1 .. i - 1 : front[k] = s[k]
  BY <1>1, <1>2
<1>4. back \in Seq(S) /\ Len(back) = n - i /\ \A k \in 1 .. n - i : back[k] = s[k + i]
  BY <1>1, <1>2
<1> HIDE DEF front, back
<1>5. Dropped(s, i) = front \o back
  BY DEF Dropped, front, back
<1> DEFINE w == front \o back
<1>6. /\ w \in Seq(S) /\ Len(w) = Len(front) + Len(back)
      /\ \A k \in 1 .. Len(front) + Len(back) : w[k] = IF k <= Len(front) THEN front[k] ELSE back[k - Len(front)]
  BY <1>3, <1>4, ConcatProperties
<1> HIDE DEF w
<1>7. ASSUME NEW k \in 1 .. n - 1
      PROVE  w[k] = s[IF k < i THEN k ELSE k + 1]
  <2>1. w[k] = IF k <= i - 1 THEN front[k] ELSE back[k - (i - 1)]
    BY <1>1, <1>3, <1>4, <1>6
  <2>2. CASE k < i
    BY <1>1, <1>3, <2>1, <2>2
  <2>3. CASE ~(k < i)
    <3>1. k - (i - 1) \in 1 .. n - i /\ (k - (i - 1)) + i = k + 1 /\ ~(k <= i - 1)
      BY <1>1, <2>3
    <3> QED
      BY <1>4, <2>1, <2>3, <3>1
  <2> QED
    BY <2>2, <2>3
<1>8. Len(w) = n - 1
  BY <1>1, <1>3, <1>4, <1>6
<1> QED
  BY <1>5, <1>6, <1>7, <1>8 DEF w

\* Some of the feet at X may still hold something.
SoundIn(h, U, X) == \E Y : Y \subseteq X /\ Sound(h, U, Y)

\* The same headers, feet and segments.
SameChunks(g, h) ==
    /\ g \in HeapSet /\ g.head = h.head /\ g.foot = h.foot /\ g.segs = h.segs /\ g.least_addr = h.least_addr
    /\ SameTop(g, h) /\ g.aborted = h.aborted

\* The bins and the designated victim are others, but not what free chunks are.
LEMMA SameChunksSound ==
  ASSUME NEW h, NEW U, NEW X, Sound(h, U, X), NEW g, SameChunks(g, h), Victim(g), Bins(g)
  PROVE  Sound(g, U, X) /\ SameSizes(h, g, U)
<1>1. /\ Memory(h, X) /\ Records(h) /\ Users(h, U) /\ h.aborted = FALSE
      /\ \A x \in X : x \in Addr /\ h.head[x].pinuse
  BY DEF Sound
<1>2. /\ g \in HeapSet /\ g.head = h.head /\ g.foot = h.foot /\ g.segs = h.segs /\ g.least_addr = h.least_addr
      /\ g.top = h.top /\ g.topsize = h.topsize /\ g.aborted = h.aborted
  BY DEF SameChunks, SameTop
<1>3. \A a : /\ IsHeader(g, a) <=> IsHeader(h, a)
             /\ IsUsed(g, a) <=> IsUsed(h, a)
             /\ IsFree(g, a) <=> IsFree(h, a)
             /\ IsChunk(g, a) <=> IsChunk(h, a)
             /\ Size(g, a) = Size(h, a) /\ Past(g, a) = Past(h, a)
             /\ \A i : InSeg(g, i, a) <=> InSeg(h, i, a)
  BY <1>2 DEF IsHeader, IsUsed, IsFree, IsChunk, Size, Past, InSeg
<1>4. Segs(g) = Segs(h)
  BY <1>2 DEF Segs
<1>5. Segments(g)
  BY <1>1, <1>2, <1>3, <1>4 DEF Memory, Segments
<1>6. Kinds(g)
  BY <1>1, <1>2, <1>3 DEF Memory, Kinds
<1>7. Tiles(g)
  BY <1>1, <1>2, <1>3, <1>4 DEF Memory, Tiles
<1>8. TagsAgree(g)
  BY <1>1, <1>2, <1>3 DEF Memory, TagsAgree
<1>9. FeetIn(g, X)
  BY <1>1, <1>2 DEF Memory, FeetIn
<1>10. TopIn(g)
  BY <1>1, <1>2, <1>3 DEF Memory, TopIn
<1>11. Memory(g, X)
  BY <1>2, <1>5, <1>6, <1>7, <1>8, <1>9, <1>10 DEF Memory
<1>12. Records(g)
  BY <1>1, <1>2, <1>3, <1>4 DEF Records
<1>13. \A a : IsRecord(g, a) <=> IsRecord(h, a)
  BY <1>2, <1>4 DEF IsRecord
<1>14. Users(g, U)
  BY <1>1, <1>3, <1>13 DEF Users
<1>15. \A x \in X : x \in Addr /\ g.head[x].pinuse
  BY <1>1, <1>2
<1> QED
  BY <1>1, <1>2, <1>3, <1>11, <1>12, <1>14, <1>15 DEF Sound, SameSizes

\* Free chunk b leaves its bin, or is no longer the designated victim.
Unbinned(h, b) ==
    IF b = h.dv THEN [h EXCEPT !.dv = Null, !.dvsize = 0]
    ELSE unlink_large_chunk(h, b, h.head[b].size)

LEMMA UnbinnedFree ==
  ASSUME NEW h, NEW U, NEW X, Sound(h, U, X), NEW b, IsFree(h, b), b # h.top,
         NEW f, f = Unbinned(h, b)
  PROVE  SameMemory(f, h) /\ LeftBins(h, f, b)
<1>1. Memory(h, X) /\ Victim(h) /\ Bins(h) /\ h \in HeapSet /\ \A x \in X : h.head[x].pinuse
  BY DEF Sound, Memory
<1>2. IsChunk(h, b)
  BY DEF IsChunk
<1>3. Size(h, b) \in Sizes
  BY <1>1, <1>2, ChunkFacts
<1>4. CASE b = h.dv
  <2>1. f = WithVictim(h, Null, 0)
    BY <1>4 DEF Unbinned, WithVictim
  <2>2. Null \in Int /\ 0 \in Int
    BY DEF Null
  <2>3. VictimStep(f, h, Null, 0)
    BY <1>1, <2>1, <2>2, VictimWritten
  <2>4. f.bin = h.bin /\ f.dv = Null /\ f.dvsize = 0
    BY <2>3 DEF VictimStep
  <2>5. SameMemory(f, h)
    BY <2>3 DEF VictimStep, SameMemory
  <2>6. BinsOnce(f)
    BY <1>1, <2>4 DEF Bins, BinsOnce
  <2>7. \A t \in Sizes : \A a : InBin(f, t, a) <=> InBin(h, t, a) /\ a # b
    BY <1>1, <1>4, <2>4 DEF Bins, InBin
  <2> QED
    BY <1>4, <2>4, <2>5, <2>6, <2>7 DEF LeftBins
<1>5. CASE b # h.dv
  <2>1. InBin(h, Size(h, b), b) /\ BinsOnce(h)
    BY <1>1, <1>3, <1>5 DEF Bins
  <2> DEFINE s == Size(h, b)
  <2>2. f = unlink_large_chunk(h, b, s)
    BY <1>5 DEF Unbinned, Size
  <2> HIDE DEF s
  <2>3. s \in Sizes /\ InBin(h, s, b)
    BY <1>3, <2>1 DEF s
  <2>4. /\ BinStep(f, h) /\ f.aborted = h.aborted /\ BinsOnce(f)
        /\ \A t \in Sizes : \A a : InBin(f, t, a) <=> InBin(h, t, a) /\ ~(t = s /\ a = b)
    BY <1>1, <2>1, <2>2, <2>3, UnlinkChunk
  <2>5. SameMemory(f, h) /\ SameVictim(f, h)
    BY <2>4 DEF BinStep, SameMemory
  <2>6. \A t \in Sizes : \A a : InBin(f, t, a) <=> InBin(h, t, a) /\ a # b
    <3>1. \A t \in Sizes : InBin(h, t, b) => t = s
      BY <1>1 DEF Bins, s
    <3> QED
      BY <2>4, <3>1
  <2> QED
    BY <1>5, <2>4, <2>5, <2>6 DEF LeftBins
<1> QED
  BY <1>4, <1>5

\* A segment that the system does not take back: its chunk goes back to its bin.
LEMMA BinnedAgain ==
  ASSUME NEW h, NEW U, NEW X, Sound(h, U, X), NEW b, IsFree(h, b), b # h.top,
         NEW g, g = insert_large_chunk(Unbinned(h, b), b, h.head[b].size)
  PROVE  Sound(g, U, X) /\ SameSizes(h, g, U) /\ SameSystem(g, h) /\ SameTop(g, h)
<1> DEFINE f == Unbinned(h, b)
           s == Size(h, b)
           list == f.bin[s]
           new == Append(list, b)
<1>1. Memory(h, X) /\ Victim(h) /\ Bins(h) /\ h \in HeapSet /\ \A x \in X : h.head[x].pinuse
  BY DEF Sound, Memory
<1>2. IsChunk(h, b)
  BY DEF IsChunk
<1>3. s \in Sizes /\ b \in Int /\ b > 0
  BY <1>1, <1>2, ChunkFacts
<1>4. SameMemory(f, h) /\ LeftBins(h, f, b)
  BY UnbinnedFree
<1>5. g = [f EXCEPT !.bin[s] = Append(@, b)]
  BY DEF insert_large_chunk, Size
<1> HIDE DEF f, s
<1>6. f \in HeapSet /\ f.head = h.head /\ f.foot = h.foot /\ SameSystem(f, h) /\ SameTop(f, h) /\ f.aborted = h.aborted
  BY <1>4 DEF SameMemory
<1>7. list \in Seq(Int) /\ OnceEach(list) /\ b \notin Elems(list)
  <2>1. f.bin \in [Sizes -> Seq(Int)]
    BY <1>6 DEF HeapSet
  <2>2. list \in Seq(Int)
    BY <1>3, <2>1
  <2>3. ~InBin(f, s, b)
    BY <1>3, <1>4 DEF LeftBins
  <2> QED
    BY <1>3, <1>4, <2>2, <2>3 DEF LeftBins, BinsOnce, InBin
<1>8. new \in Seq(Int) /\ OnceEach(new) /\ Elems(new) = Elems(list) \cup {b}
  BY <1>3, <1>7, Appended
<1>9. g = [f EXCEPT !.bin = [f.bin EXCEPT ![s] = new]]
  BY <1>5, <1>6 DEF HeapSet
<1> HIDE DEF new
<1>10. BinStep(g, f) /\ g.aborted = f.aborted /\ \A t \in Sizes : g.bin[t] = IF t = s THEN new ELSE f.bin[t]
  BY <1>3, <1>6, <1>8, <1>9, ListWritten, SMTT(60) DEF BinStep
<1>11. BinsOnce(g)
  BY <1>4, <1>8, <1>10 DEF BinsOnce, LeftBins
<1>12. \A t \in Sizes : \A a : InBin(g, t, a) <=> InBin(f, t, a) \/ (t = s /\ a = b)
  BY <1>8, <1>10 DEF InBin
<1>13. SameMemory(g, h)
  <2>1. /\ g \in HeapSet /\ g.head = f.head /\ g.foot = f.foot /\ SameTop(g, f) /\ SameSystem(g, f)
        /\ g.aborted = f.aborted
    BY <1>10 DEF BinStep
  <2> QED
    BY <1>6, <2>1 DEF SameMemory, SameTop, SameSystem
<1>14. g.dv = f.dv /\ g.dvsize = f.dvsize
  BY <1>10 DEF BinStep, SameVictim
<1>15. IF b = h.dv THEN f.dv = Null /\ f.dvsize = 0 ELSE f.dv = h.dv /\ f.dvsize = h.dvsize
  BY <1>4 DEF LeftBins, SameVictim
<1>16. g.head = h.head /\ g.top = h.top
  BY <1>13 DEF SameMemory, SameTop
<1>17. Victim(g)
  BY <1>1, <1>14, <1>15, <1>16 DEF Victim, IsFree, Size
<1>18. Bins(g)
  <2>1. ASSUME NEW t \in Sizes, NEW a
        PROVE  InBin(g, t, a) <=> IsFree(g, a) /\ a # g.dv /\ a # g.top /\ t = Size(g, a)
    <3>1. InBin(g, t, a) <=> (InBin(h, t, a) /\ a # b) \/ (t = s /\ a = b)
      BY <1>4, <1>12 DEF LeftBins
    <3>2. InBin(h, t, a) <=> IsFree(h, a) /\ a # h.dv /\ a # h.top /\ t = Size(h, a)
      BY <1>1 DEF Bins
    <3>3. (IsFree(g, a) <=> IsFree(h, a)) /\ Size(g, a) = Size(h, a)
      BY <1>16 DEF IsFree, Size
    <3>4. CASE a = b
      <4>1. a # g.dv
        BY <1>3, <1>14, <1>15, <3>4 DEF Null
      <4>2. t = s <=> t = Size(g, a)
        BY <3>3, <3>4 DEF s
      <4> QED
        BY <1>16, <3>1, <3>3, <3>4, <4>1, <4>2
    <3>5. CASE a # b
      <4>1. IsFree(h, a) => (a # g.dv <=> a # h.dv)
        <5>1. IsFree(h, a) => a # Null
          BY <1>1, HeaderPlace, ChunkIsHeader DEF IsChunk
        <5> QED
          BY <1>14, <1>15, <3>5, <5>1
      <4> QED
        BY <1>16, <3>1, <3>2, <3>3, <3>5, <4>1
    <3> QED
      BY <3>4, <3>5
  <2> QED
    BY <1>11, <2>1 DEF Bins
<1> QED
  BY <1>13, <1>17, <1>18, SameChunksSound DEF SameMemory, SameChunks, SameSystem

LEMMA UnmapFields ==
  ASSUME NEW h \in HeapSet, NEW b \in Int, NEW z \in Int, NEW m, m = unmap(h, b, z)
  PROVE  /\ m \in HeapSet /\ m.segs = h.segs /\ m.bin = h.bin /\ SameVictim(m, h) /\ SameTop(m, h) /\ m.aborted = h.aborted
         /\ m.footprint = h.footprint - z /\ m.max_footprint = h.max_footprint
         /\ m.footprint_limit = h.footprint_limit /\ m.least_addr = h.least_addr
         /\ \A a \in Addr : /\ m.head[a] = IF b <= a /\ a < b + z THEN Blank ELSE h.head[a]
                            /\ m.foot[a] = IF b <= a /\ a < b + z THEN 0 ELSE h.foot[a]
<1> DEFINE hd == [a \in Addr |-> IF b <= a /\ a < b + z THEN Blank ELSE h.head[a]]
           ft == [a \in Addr |-> IF b <= a /\ a < b + z THEN 0 ELSE h.foot[a]]
           left == h.footprint - z
<1>1. hd \in [Addr -> HeadSet] /\ ft \in [Addr -> Int]
  <2>1. h.head \in [Addr -> HeadSet] /\ h.foot \in [Addr -> Int]
    BY Fields
  <2>2. Blank \in HeadSet
    BY FixedHeads
  <2>3. hd \in [Addr -> HeadSet]
    BY <2>1, <2>2
  <2> QED
    BY <2>1, <2>3
<1>2. left \in Int
  BY DEF HeapSet
<1>3. m = [h EXCEPT !.head = hd, !.foot = ft, !.footprint = left]
  BY DEF unmap, HeapSet
<1>4. \A a \in Addr : /\ hd[a] = IF b <= a /\ a < b + z THEN Blank ELSE h.head[a]
                      /\ ft[a] = IF b <= a /\ a < b + z THEN 0 ELSE h.foot[a]
  OBVIOUS
<1> HIDE DEF hd, ft, left
<1>5. /\ m.segs = h.segs /\ m.head = hd /\ m.foot = ft /\ m.footprint = left
      /\ m.bin = h.bin /\ SameVictim(m, h) /\ SameTop(m, h) /\ m.aborted = h.aborted
      /\ m.max_footprint = h.max_footprint /\ m.footprint_limit = h.footprint_limit
      /\ m.least_addr = h.least_addr
  BY <1>1, <1>3 DEF HeapSet, SameVictim, SameTop
<1>6. m \in HeapSet
  BY <1>1, <1>2, <1>3 DEF HeapSet
<1> QED
  BY <1>4, <1>5, <1>6 DEF left

\* A segment whose chunk has left the bins is unmapped.
Unmapped(f, i) ==
    [unmap(f, f.segs[i].base, f.segs[i].size) EXCEPT
        !.segs = SubSeq(@, 1, i - 1) \o SubSeq(@, i + 1, Len(@))]

LEMMA UnmappedFields ==
  ASSUME NEW f \in HeapSet, NEW i \in Segs(f), NEW g, g = Unmapped(f, i)
  PROVE  /\ SegGone(f, g, i) /\ g.bin = f.bin /\ SameVictim(g, f) /\ g.aborted = f.aborted
         /\ g.footprint = f.footprint - f.segs[i].size /\ g.max_footprint = f.max_footprint
         /\ g.footprint_limit = f.footprint_limit /\ g.segs = Dropped(f.segs, i)
<1> DEFINE b == f.segs[i].base
           z == f.segs[i].size
           m == unmap(f, b, z)
<1>1. f.segs \in Seq(SegSet) /\ i \in 1 .. Len(f.segs)
  BY DEF HeapSet, Segs
<1>2. b \in Int /\ z \in Int
  <2>1. f.segs[i] \in SegSet
    BY <1>1, ElementOfSeq
  <2> QED
    BY <2>1 DEF SegSet
<1> HIDE DEF m
<1>3. /\ m \in HeapSet /\ m.segs = f.segs /\ m.bin = f.bin /\ SameVictim(m, f) /\ SameTop(m, f) /\ m.aborted = f.aborted
      /\ m.footprint = f.footprint - z /\ m.max_footprint = f.max_footprint
      /\ m.footprint_limit = f.footprint_limit /\ m.least_addr = f.least_addr
      /\ \A a \in Addr : /\ m.head[a] = IF b <= a /\ a < b + z THEN Blank ELSE f.head[a]
                         /\ m.foot[a] = IF b <= a /\ a < b + z THEN 0 ELSE f.foot[a]
  BY <1>2, UnmapFields, SMTT(60) DEF m
<1>4. g = [m EXCEPT !.segs = Dropped(m.segs, i)]
  BY <1>3 DEF Unmapped, Dropped, HeapSet, m
<1>5. Dropped(f.segs, i) \in Seq(SegSet) /\ Len(Dropped(f.segs, i)) = Len(f.segs) - 1
      /\ \A k \in 1 .. Len(f.segs) - 1 : Dropped(f.segs, i)[k] = f.segs[IF k < i THEN k ELSE k + 1]
  BY <1>1, DroppedSeq
<1>6. /\ g.segs = Dropped(f.segs, i) /\ g.head = m.head /\ g.foot = m.foot /\ g.footprint = f.footprint - z
      /\ g.bin = f.bin /\ SameVictim(g, f) /\ SameTop(g, f) /\ g.aborted = f.aborted
      /\ g.max_footprint = f.max_footprint /\ g.footprint_limit = f.footprint_limit
      /\ g.least_addr = f.least_addr /\ g \in HeapSet
  BY <1>3, <1>4, <1>5, ZenonT(60) DEF HeapSet, SameVictim, SameTop
<1>7. \A a \in Addr : /\ g.head[a] = IF InSeg(f, i, a) THEN Blank ELSE f.head[a]
                      /\ g.foot[a] = IF InSeg(f, i, a) THEN 0 ELSE f.foot[a]
  BY <1>3, <1>6 DEF InSeg, segment_holds, EndOf
<1>8. SegGone(f, g, i)
  <2>1. Len(g.segs) = Len(f.segs) - 1
    BY <1>5, <1>6
  <2>2. \A k \in Segs(g) : g.segs[k] = f.segs[IF k < i THEN k ELSE k + 1]
    BY <1>5, <1>6, <2>1 DEF Segs
  <2> QED
    BY <1>6, <1>7, <2>1, <2>2 DEF SegGone
<1> QED
  BY <1>6, <1>8 DEF z

\* What release_segment promises.
ReleasedTo(h, g, U, X) ==
    /\ SoundIn(g, U, X) /\ SameSizes(h, g, U) /\ SameTop(g, h) /\ Ledger(h, g)
    /\ Len(g.segs) = Len(h.segs) \/ Len(g.segs) = Len(h.segs) - 1

LEMMA SegmentUnmapped ==
  ASSUME NEW h, NEW U, NEW X, Sound(h, U, X), NEW i \in Segs(h), i # 1, NEW b, NEW rec, UnusedSeg(h, i, b, rec),
         NEW g, g = Unmapped(Unbinned(h, b), i)
  PROVE  ReleasedTo(h, g, U, X)
<1> DEFINE f == Unbinned(h, b)
<1>1. IsFree(h, b) /\ b # h.top
  BY DEF UnusedSeg
<1>2. SameMemory(f, h) /\ LeftBins(h, f, b)
  BY <1>1, UnbinnedFree
<1>3. g = Unmapped(f, i)
  OBVIOUS
<1> HIDE DEF f
<1>4. /\ f \in HeapSet /\ f.head = h.head /\ f.foot = h.foot /\ f.segs = h.segs /\ f.least_addr = h.least_addr
      /\ SameTop(f, h) /\ f.aborted = h.aborted /\ f.footprint = h.footprint
      /\ f.max_footprint = h.max_footprint /\ f.footprint_limit = h.footprint_limit
  BY <1>2 DEF SameMemory, SameSystem
<1>5. i \in Segs(f)
  BY <1>4 DEF Segs
<1>6. /\ SegGone(f, g, i) /\ g.bin = f.bin /\ SameVictim(g, f) /\ g.aborted = f.aborted
      /\ g.footprint = f.footprint - f.segs[i].size /\ g.max_footprint = f.max_footprint
      /\ g.footprint_limit = f.footprint_limit /\ g.segs = Dropped(f.segs, i)
  BY <1>3, <1>4, <1>5, UnmappedFields
<1>7. SegGone(h, g, i)
  BY <1>4, <1>6 DEF SegGone, SameTop, InSeg, Segs
<1>8. LeftBins(h, g, b)
  BY <1>2, <1>6 DEF LeftBins, BinsOnce, InBin, SameVictim
<1>9. h.aborted = FALSE /\ h.segs \in Seq(SegSet) /\ h.segs[i] \in SegSet /\ h.segs[i].size > 0 /\ h \in HeapSet
  BY SegTypes DEF Sound, Memory, Segments
<1>10. g.aborted = FALSE
  BY <1>4, <1>6, <1>9
<1> DEFINE Y == {x \in X : ~InSeg(h, i, x)}
<1>11. Sound(g, U, Y) /\ SameSizes(h, g, U)
  BY <1>7, <1>8, <1>10, GoneSound
<1>12. SoundIn(g, U, X)
  BY <1>11 DEF SoundIn
<1>13. Ledger(h, g)
  <2>1. h.footprint \in Int /\ h.segs[i].size \in Int /\ h.max_footprint \in Int
    BY <1>9 DEF HeapSet, SegSet
  <2>2. g.footprint = h.footprint - h.segs[i].size /\ g.max_footprint = h.max_footprint
        /\ g.footprint_limit = h.footprint_limit
    BY <1>4, <1>6
  <2>3. ASSUME Accounts(h)
        PROVE  Accounts(g)
    <3>1. PICK e : SumsTo(e, h.segs, h.footprint)
      BY <2>3 DEF Accounts
    <3>2. i \in 1 .. Len(h.segs)
      BY DEF Segs
    <3>3. g.segs \in Seq(SegSet) /\ Len(g.segs) = Len(h.segs) - 1
          /\ \A k \in 1 .. Len(h.segs) - 1 : g.segs[k] = h.segs[IF k < i THEN k ELSE k + 1]
      <4>1. g.segs = Dropped(h.segs, i)
        BY <1>4, <1>6
      <4> DEFINE s == h.segs
      <4>2. s \in Seq(SegSet) /\ i \in 1 .. Len(s)
        BY <1>9, <3>2
      <4> HIDE DEF s
      <4>3. /\ Dropped(s, i) \in Seq(SegSet) /\ Len(Dropped(s, i)) = Len(s) - 1
            /\ \A k \in 1 .. Len(s) - 1 : Dropped(s, i)[k] = s[IF k < i THEN k ELSE k + 1]
        BY <4>2, DroppedSeq
      <4> QED
        BY <4>1, <4>3 DEF s
    <3>4. \E d : SumsTo(d, g.segs, h.footprint - h.segs[i].size)
      BY <1>9, <3>1, <3>2, <3>3, SumWithout
    <3>5. h.footprint <= h.max_footprint
      BY <2>3 DEF Accounts
    <3> QED
      BY <1>9, <2>1, <2>2, <3>4, <3>5 DEF Accounts
  <2> QED
    BY <1>9, <2>1, <2>2, <2>3 DEF Ledger
<1>14. SameTop(g, h) /\ Len(g.segs) = Len(h.segs) - 1
  BY <1>7 DEF SegGone
<1> QED
  BY <1>11, <1>12, <1>13, <1>14 DEF ReleasedTo

LEMMA SegmentReleased ==
  ASSUME NEW h, NEW U, NEW X, SoundIn(h, U, X), NEW i \in Segs(h), i # 1, NEW canUnmap,
         NEW g, g = release_segment(h, i, canUnmap)
  PROVE  ReleasedTo(h, g, U, X)
<1>1. PICK Y : Y \subseteq X /\ Sound(h, U, Y)
  BY DEF SoundIn
<1>2. h \in HeapSet
  BY <1>1 DEF Sound, Memory
<1>3. SameSystem(h, h) /\ SameSizes(h, h, U) /\ SameTop(h, h)
  BY DEF SameSystem, SameSizes, SameTop
<1>4. CASE ~Unused(h, h.segs[i])
  <2>1. g = h
    BY <1>4 DEF release_segment
  <2>2. Ledger(h, h)
    BY <1>2, <1>3, LedgerSame
  <2> QED
    BY <1>3, <2>1, <2>2 DEF ReleasedTo
<1>5. CASE Unused(h, h.segs[i])
  <2> DEFINE b == h.segs[i].base
             rec == h.segs[i].rec
  <2>1. UnusedSeg(h, i, b, rec)
    BY <1>1, <1>5, UnusedHeaders
  <2>2. IsFree(h, b) /\ b # h.top
    BY <2>1 DEF UnusedSeg
  <2>3. CASE canUnmap
    <3>1. Unbinned(h, b).segs = h.segs
      BY <1>1, <2>2, UnbinnedFree, SMTT(60) DEF SameMemory, SameSystem
    <3>2. g = Unmapped(Unbinned(h, b), i)
      BY <1>5, <2>3, <3>1 DEF release_segment, Unmapped, Unbinned
    <3> HIDE DEF b, rec
    <3>3. ReleasedTo(h, g, U, Y)
      BY <1>1, <2>1, <3>2, SegmentUnmapped
    <3> QED
      BY <1>1, <3>3 DEF ReleasedTo, SoundIn
  <2>4. CASE ~canUnmap
    <3>1. g = insert_large_chunk(Unbinned(h, b), b, h.head[b].size)
      BY <1>5, <2>4 DEF release_segment, Unbinned
    <3> HIDE DEF b, rec
    <3>2. Sound(g, U, Y) /\ SameSizes(h, g, U) /\ SameSystem(g, h) /\ SameTop(g, h)
      BY <1>1, <2>2, <3>1, BinnedAgain
    <3>3. Ledger(h, g)
      BY <1>2, <3>2, LedgerSame
    <3> QED
      BY <1>1, <3>2, <3>3 DEF ReleasedTo, SoundIn, SameSystem
  <2> QED
    BY <2>3, <2>4
<1> QED
  BY <1>4, <1>5

\* The same chunks, bins and victim: only counters and limits are others.
SameParts(g, h) == SameChunks(g, h) /\ g.bin = h.bin /\ SameVictim(g, h)

LEMMA SamePartsSound ==
  ASSUME NEW h, NEW U, NEW X, Sound(h, U, X), NEW g, SameParts(g, h)
  PROVE  Sound(g, U, X) /\ SameSizes(h, g, U)
<1>1. Victim(h) /\ Bins(h)
  BY DEF Sound
<1>2. SameChunks(g, h) /\ g.head = h.head /\ g.top = h.top /\ g.bin = h.bin /\ g.dv = h.dv /\ g.dvsize = h.dvsize
  BY DEF SameParts, SameChunks, SameTop, SameVictim
<1>3. Victim(g)
  BY <1>1, <1>2 DEF Victim, IsFree, Size
<1>4. Bins(g)
  BY <1>1, <1>2 DEF Bins, BinsOnce, InBin, IsFree, Size
<1> QED
  BY <1>2, <1>3, <1>4, SameChunksSound

\* The scan of the segments from the second on.
NextScanned(g, n, k, canUnmap) == release_segment(g, k - (n - Len(g.segs)), canUnmap)

IsScanned(f, h, m, canUnmap) ==
    f = [k \in 0 .. m |-> IF k < 2 THEN h ELSE NextScanned(f[k - 1], Len(h.segs), k, canUnmap)]

Scanned(h, canUnmap) == CHOOSE f : IsScanned(f, h, Len(h.segs), canUnmap)

LEMMA ReleaseCases ==
  ASSUME NEW h, NEW canUnmap
  PROVE  release_unused_segments(h, canUnmap)
         = [Scanned(h, canUnmap)[Len(h.segs)] EXCEPT !.release_checks = Larger(Len(h.segs) - 1, ReleaseRate)]
  BY DEF release_unused_segments, Scanned, IsScanned, NextScanned

LEMMA ScannedFrom ==
  ASSUME NEW h, NEW canUnmap, NEW m \in Nat, m # 0, NEW e, IsScanned(e, h, m - 1, canUnmap)
  PROVE  \E f : IsScanned(f, h, m, canUnmap)
<1> DEFINE last == IF m < 2 THEN h ELSE NextScanned(e[m - 1], Len(h.segs), m, canUnmap)
           f == [k \in 0 .. m |-> IF k = m THEN last ELSE e[k]]
           F == [k \in 0 .. m |-> IF k < 2 THEN h ELSE NextScanned(f[k - 1], Len(h.segs), k, canUnmap)]
<1>1. \A k \in 0 .. m - 1 : e[k] = IF k < 2 THEN h ELSE NextScanned(e[k - 1], Len(h.segs), k, canUnmap)
  BY DEF IsScanned
<1>2. \A k \in 0 .. m : f[k] = IF k = m THEN last ELSE e[k]
  OBVIOUS
<1>3. ASSUME NEW k \in 0 .. m
      PROVE  f[k] = F[k]
  <2>1. F[k] = IF k < 2 THEN h ELSE NextScanned(f[k - 1], Len(h.segs), k, canUnmap)
    OBVIOUS
  <2> HIDE DEF f, F
  <2>2. CASE k < 2
    <3>1. f[k] = h
      BY <1>1, <1>2, <2>2
    <3> QED
      BY <2>1, <2>2, <3>1
  <2>3. CASE ~(k < 2)
    <3>1. k - 1 \in 0 .. m /\ k - 1 # m
      BY <2>3
    <3>2. f[k - 1] = e[k - 1]
      BY <1>2, <3>1
    <3>3. CASE k = m
      BY <1>2, <2>1, <2>3, <3>2, <3>3
    <3>4. CASE k # m
      <4>1. k \in 0 .. m - 1
        BY <3>4
      <4> QED
        BY <1>1, <1>2, <2>1, <2>3, <3>2, <3>4, <4>1
    <3> QED
      BY <3>3, <3>4
  <2> QED
    BY <2>2, <2>3
<1>4. f = F
  <2> DEFINE H(k) == IF k < 2 THEN h ELSE NextScanned(f[k - 1], Len(h.segs), k, canUnmap)
  <2>1. \A k \in 0 .. m : f[k] = H(k)
    BY <1>3
  <2>2. f = [k \in 0 .. m |-> f[k]]
    OBVIOUS
  <2> QED
    BY <2>1, <2>2
<1> QED
  BY <1>4 DEF IsScanned

LEMMA ScannedExists ==
  ASSUME NEW h, NEW canUnmap, NEW n \in Nat
  PROVE  \E f : IsScanned(f, h, n, canUnmap)
<1> DEFINE T == {m \in Nat : ~\E f : IsScanned(f, h, m, canUnmap)}
<1>1. T = {}
  <2> SUFFICES ASSUME T # {}
               PROVE  FALSE
    OBVIOUS
  <2>1. PICK m \in T : \A k \in T : m <= k
    BY LeastNat
  <2>2. m \in Nat /\ ~\E f : IsScanned(f, h, m, canUnmap)
    OBVIOUS
  <2>3. m # 0
    <3> DEFINE f == [k \in 0 .. 0 |-> h]
    <3>1. f = [k \in 0 .. 0 |-> IF k < 2 THEN h ELSE NextScanned(f[k - 1], Len(h.segs), k, canUnmap)]
      <4>1. \A k \in 0 .. 0 : k < 2
        OBVIOUS
      <4> QED
        BY <4>1
    <3>2. IsScanned(f, h, 0, canUnmap)
      BY <3>1 DEF IsScanned
    <3> QED
      BY <2>2, <3>2
  <2>4. m - 1 \in Nat /\ m - 1 \notin T
    <3>1. m - 1 \in Nat /\ ~(m <= m - 1)
      BY <2>2, <2>3
    <3> QED
      BY <2>1, <3>1
  <2>5. PICK e : IsScanned(e, h, m - 1, canUnmap)
    BY <2>4
  <2> QED
    BY <2>2, <2>3, <2>5, ScannedFrom
<1> QED
  BY <1>1

\* From h to g the users' chunks have stayed, and segments may have gone.
Trimmed(h, g, U, X) == SoundIn(g, U, X) /\ SameSizes(h, g, U) /\ Ledger(h, g)

\* After k steps of the scan over n segments.
ScanOk(h, g, U, X, n, k) ==
    /\ Trimmed(h, g, U, X)
    /\ Len(g.segs) <= n /\ n - Len(g.segs) <= IF k < 2 THEN 0 ELSE k - 1

LEMMA TrimmedSteps ==
  ASSUME NEW h \in HeapSet, NEW k, NEW g, NEW U, NEW X, NEW Z, Trimmed(h, k, U, X), Trimmed(k, g, U, Z), Z \subseteq X
  PROVE  Trimmed(h, g, U, X)
<1>1. k \in HeapSet
  BY DEF Trimmed, SoundIn, Sound, Memory
<1>2. Ledger(h, g)
  BY <1>1, LedgerSteps DEF Trimmed
<1>3. SameSizes(h, g, U)
  BY DEF Trimmed, SameSizes
<1>4. SoundIn(g, U, X)
  BY DEF Trimmed, SoundIn
<1> QED
  BY <1>2, <1>3, <1>4 DEF Trimmed

LEMMA ScanStep ==
  ASSUME NEW h \in HeapSet, NEW g, NEW U, NEW X, NEW n \in Nat, NEW k \in 2 .. n, ScanOk(h, g, U, X, n, k - 1),
         NEW canUnmap, NEW new, new = NextScanned(g, n, k, canUnmap)
  PROVE  ScanOk(h, new, U, X, n, k)
<1> DEFINE i == k - (n - Len(g.segs))
<1>1. SoundIn(g, U, X) /\ g \in HeapSet
  BY DEF ScanOk, Trimmed, SoundIn, Sound, Memory
<1>2. Len(g.segs) \in Nat
  BY <1>1, LenProperties DEF HeapSet
<1>3. Len(g.segs) <= n /\ n - Len(g.segs) <= IF k - 1 < 2 THEN 0 ELSE k - 1 - 1
  BY DEF ScanOk
<1>4. n - Len(g.segs) <= k - 2
  <2>1. k \in Int /\ 2 <= k
    OBVIOUS
  <2>2. CASE k - 1 < 2
    BY <1>2, <1>3, <2>1, <2>2
  <2>3. CASE ~(k - 1 < 2)
    BY <1>2, <1>3, <2>1, <2>3
  <2> QED
    BY <2>2, <2>3
<1>5. i \in Segs(g) /\ i # 1
  BY <1>2, <1>3, <1>4 DEF Segs
<1>6. new = release_segment(g, i, canUnmap)
  BY DEF NextScanned
<1> HIDE DEF i
<1>7. ReleasedTo(g, new, U, X)
  BY <1>1, <1>5, <1>6, SegmentReleased
<1>8. Trimmed(h, new, U, X)
  <2>1. Trimmed(g, new, U, X)
    BY <1>7 DEF ReleasedTo, Trimmed
  <2> QED
    BY <2>1, TrimmedSteps DEF ScanOk
<1>9. Len(new.segs) = Len(g.segs) \/ Len(new.segs) = Len(g.segs) - 1
  BY <1>7 DEF ReleasedTo
<1>10. Len(new.segs) <= n /\ n - Len(new.segs) <= k - 1 /\ ~(k < 2)
  BY <1>2, <1>3, <1>4, <1>9
<1> QED
  BY <1>8, <1>10 DEF ScanOk

LEMMA ScannedOk ==
  ASSUME NEW h, NEW U, NEW X, Sound(h, U, X), NEW canUnmap, NEW f, NEW n \in Nat, n = Len(h.segs),
         IsScanned(f, h, n, canUnmap), NEW k \in 0 .. n
  PROVE  ScanOk(h, f[k], U, X, n, k)
<1>1. h \in HeapSet
  BY DEF Sound, Memory
<1>2. \A j \in 0 .. n : f[j] = IF j < 2 THEN h ELSE NextScanned(f[j - 1], n, j, canUnmap)
  BY DEF IsScanned
<1> DEFINE T == {j \in 0 .. n : ~ScanOk(h, f[j], U, X, n, j)}
<1>3. T = {}
  <2> SUFFICES ASSUME T # {}
               PROVE  FALSE
    OBVIOUS
  <2>1. T \in SUBSET Nat
    OBVIOUS
  <2>2. PICK j \in T : \A i \in T : j <= i
    BY <2>1, LeastNat
  <2>3. j \in 0 .. n /\ ~ScanOk(h, f[j], U, X, n, j)
    OBVIOUS
  <2>4. CASE j < 2
    <3>1. f[j] = h
      BY <1>2, <2>3, <2>4
    <3>2. Ledger(h, h)
      BY <1>1, LedgerSame DEF SameSystem
    <3>3. Trimmed(h, h, U, X)
      BY <3>2 DEF Trimmed, SoundIn, SameSizes
    <3>4. ScanOk(h, h, U, X, n, j)
      BY <2>4, <3>3 DEF ScanOk
    <3> QED
      BY <2>3, <3>1, <3>4
  <2>5. CASE ~(j < 2)
    <3>1. j - 1 \in 0 .. n /\ ~(j <= j - 1) /\ j \in 2 .. n
      BY <2>3, <2>5
    <3>2. j - 1 \notin T
      BY <2>2, <3>1
    <3>3. ScanOk(h, f[j - 1], U, X, n, j - 1)
      BY <3>1, <3>2
    <3>4. f[j] = NextScanned(f[j - 1], n, j, canUnmap)
      BY <1>2, <2>3, <2>5
    <3> HIDE DEF T
    <3>5. ScanOk(h, f[j], U, X, n, j)
      BY <1>1, <3>1, <3>3, <3>4, ScanStep
    <3> QED
      BY <2>3, <3>5
  <2> QED
    BY <2>4, <2>5
<1> QED
  BY <1>3

LEMMA LedgerParts ==
  ASSUME NEW h \in HeapSet, NEW g, g.segs = h.segs, g.footprint = h.footprint, g.max_footprint = h.max_footprint,
         g.footprint_limit = h.footprint_limit
  PROVE  Ledger(h, g)
<1>1. h.footprint \in Int
  BY DEF HeapSet
<1> QED
  BY <1>1 DEF Ledger, Accounts

LEMMA SegmentsReleased ==
  ASSUME NEW h, NEW U, NEW X, Sound(h, U, X), NEW canUnmap, NEW g, g = release_unused_segments(h, canUnmap)
  PROVE  Trimmed(h, g, U, X)
<1> DEFINE n == Len(h.segs)
           f == Scanned(h, canUnmap)
           k == f[n]
           x == Larger(n - 1, ReleaseRate)
<1>1. h \in HeapSet /\ n \in Nat
  <2>1. h \in HeapSet
    BY DEF Sound, Memory
  <2> QED
    BY <2>1, LenProperties DEF HeapSet
<1>2. IsScanned(f, h, n, canUnmap)
  BY <1>1, ScannedExists DEF Scanned
<1>3. g = [k EXCEPT !.release_checks = x]
  BY ReleaseCases
<1>4. x \in Int
  BY <1>1, RateAssumption DEF Larger
<1> HIDE DEF f, n, x
<1>5. ScanOk(h, k, U, X, n, n)
  BY <1>1, <1>2, ScannedOk DEF n
<1> HIDE DEF k
<1>6. Trimmed(h, k, U, X)
  BY <1>5 DEF ScanOk
<1>7. PICK Y : Y \subseteq X /\ Sound(k, U, Y)
  BY <1>6 DEF Trimmed, SoundIn
<1>8. k \in HeapSet
  BY <1>7 DEF Sound, Memory
<1>9. SameParts(g, k)
  BY <1>3, <1>4, <1>8 DEF HeapSet, SameParts, SameChunks, SameTop, SameVictim
<1>10. Sound(g, U, Y) /\ SameSizes(k, g, U)
  BY <1>7, <1>9, SamePartsSound
<1>11. Ledger(k, g)
  BY <1>3, <1>8, LedgerParts DEF HeapSet
<1>12. Trimmed(k, g, U, X)
  BY <1>7, <1>10, <1>11 DEF Trimmed, SoundIn
<1> QED
  BY <1>1, <1>6, <1>12, TrimmedSteps

----------------------------------------------------------------------------
(* The end of top moves: its segment grows or shrinks.                     *)

\* Where top is: end is the fake chunk behind it.
TopAt(h, end) ==
    /\ 1 \in Segs(h) /\ IsChunk(h, h.top) /\ IsFree(h, h.top) /\ InSeg(h, 1, h.top) /\ InSeg(h, 1, end)
    /\ h.top \in Addr /\ end \in Addr /\ h.top \in Int /\ h.topsize \in Int /\ end \in Int
    /\ h.topsize > 0 /\ end = h.top + h.topsize /\ Past(h, h.top) = end /\ h.top < end
    /\ h.head[h.top] = FreeHead(h.topsize) /\ h.head[end] = FakeHead /\ IsHeader(h, end)
    /\ EndOf(h.segs[1]) = end + TopFoot /\ h.segs[1].base \in Int /\ h.segs[1].base <= h.top
    /\ \A a : IsHeader(h, a) /\ InSeg(h, 1, a) => a <= h.top \/ a = end

LEMMA TopChunk ==
  ASSUME NEW h, NEW X, Memory(h, X), h.segs # <<>>
  PROVE  TopAt(h, h.top + h.topsize)
<1> DEFINE end == h.top + h.topsize
<1>1. /\ h \in HeapSet /\ Segments(h) /\ Kinds(h) /\ Tiles(h) /\ TopIn(h) /\ h.segs \in Seq(SegSet)
  BY DEF Memory, Segments
<1>2. 1 \in Segs(h)
  BY <1>1, LenProperties DEF Segs
<1>3. /\ IsFree(h, h.top) /\ InSeg(h, 1, h.top) /\ Size(h, h.top) = h.topsize
      /\ end = EndOf(h.segs[1]) - TopFoot /\ h.head[end] = FakeHead
  BY <1>1 DEF TopIn
<1>4. IsChunk(h, h.top) /\ h.top \in Addr /\ h.top \in Int /\ h.topsize \in Int /\ end \in Int
  BY <1>1, <1>3 DEF IsChunk, IsFree, HeapSet
<1>5. h.topsize > 0
  BY <1>1, <1>3, <1>4 DEF Kinds
<1>6. Past(h, h.top) = end
  BY <1>3 DEF Past, Size
<1> HIDE DEF end
<1>7. IsHeader(h, end) /\ InSeg(h, 1, end) /\ end \in Addr
  BY <1>1, <1>2, <1>3, <1>4, <1>6 DEF Tiles, IsHeader
<1>8. h.head[h.top] = FreeHead(h.topsize)
  <2>1. h.head[h.top] \in HeadSet
    BY <1>1, <1>4, HeadTypes
  <2>2. FreeHead(h.topsize) \in HeadSet
    BY <1>4, Heads
  <2>3. h.head[h.top].size = h.topsize /\ ~h.head[h.top].cinuse /\ h.head[h.top].pinuse
    BY <1>3 DEF IsFree, Size
  <2>4. FreeHead(h.topsize).size = h.topsize /\ ~FreeHead(h.topsize).cinuse /\ FreeHead(h.topsize).pinuse
    BY DEF FreeHead
  <2> QED
    BY <2>1, <2>2, <2>3, <2>4, SameHead
<1>9. h.segs[1].base \in Int /\ EndOf(h.segs[1]) \in Int /\ TopFoot = 5
  BY <1>1, <1>2, SegTypes, FixedHeads
<1>10. EndOf(h.segs[1]) = end + TopFoot /\ h.segs[1].base <= h.top /\ h.top < end
  BY <1>3, <1>4, <1>5, <1>9 DEF InSeg, segment_holds, end
<1>11. ~IsChunk(h, end)
  BY <1>3, FixedHeads DEF IsChunk, IsUsed, IsFree
<1>12. ASSUME NEW a, IsHeader(h, a), InSeg(h, 1, a)
       PROVE  a <= h.top \/ a = end
  <2>1. a \in Addr /\ a \in Int
    BY <1>12, Places DEF IsHeader
  <2>2. a <= end
    BY <1>1, <1>2, <1>7, <1>11, <1>12, <2>1 DEF Tiles
  <2>3. h.top < a => end <= a
    BY <1>1, <1>4, <1>6, <1>12, <2>1 DEF Tiles
  <2> QED
    BY <1>4, <2>1, <2>2, <2>3
<1> QED
  BY <1>2, <1>3, <1>4, <1>5, <1>6, <1>7, <1>8, <1>9, <1>10, <1>12 DEF TopAt, end

\* From h to g the end of top has moved from old to end.
TopMoved(h, g, n, old, end) ==
    /\ g \in HeapSet /\ g.least_addr = h.least_addr /\ SameVictim(g, h) /\ g.bin = h.bin /\ g.aborted = h.aborted
    /\ g.top = h.top /\ g.topsize = n /\ n \in Int /\ n > 0 /\ end = h.top + n /\ end # old /\ end \in Int
    /\ Len(g.segs) = Len(h.segs)
    /\ \A i \in Segs(h) \ {1} : g.segs[i] = h.segs[i]
    /\ g.segs[1].base = h.segs[1].base /\ g.segs[1].rec = h.segs[1].rec /\ EndOf(g.segs[1]) = end + TopFoot
    /\ \A a \in Addr :
          /\ g.head[a] = IF a = h.top THEN FreeHead(n) ELSE IF a = end THEN FakeHead
                         ELSE IF a = old THEN Blank ELSE h.head[a]
          /\ g.foot[a] = h.foot[a] \/ (g.foot[a] = 0 /\ InSeg(h, 1, a) /\ a > h.top)

\* The new end of the segment is not where others are.
RoomForTop(h, end) ==
    /\ end + TopFoot <= Limit
    /\ \A i \in Segs(h) \ {1} : end + TopFoot <= h.segs[i].base \/ EndOf(h.segs[i]) <= h.segs[1].base

\* What headers become.
MovedHeaders(h, g, old, end) ==
    \A a : IF a = h.top \/ a = old \/ a = end THEN TRUE
           ELSE /\ IsHeader(g, a) <=> IsHeader(h, a)
                /\ IsUsed(g, a) <=> IsUsed(h, a)
                /\ IsFree(g, a) <=> IsFree(h, a)
                /\ IsChunk(g, a) <=> IsChunk(h, a)
                /\ IsHeader(h, a) => /\ g.head[a] = h.head[a] /\ g.foot[a] = h.foot[a]
                                     /\ Size(g, a) = Size(h, a) /\ Past(g, a) = Past(h, a)
                                     /\ \A i \in Segs(h) : InSeg(g, i, a) <=> InSeg(h, i, a)

LEMMA MovedOthers ==
  ASSUME NEW h, NEW X, Memory(h, X), NEW g, NEW n, NEW old, TopAt(h, old), NEW end, TopMoved(h, g, n, old, end),
         RoomForTop(h, end)
  PROVE  /\ MovedHeaders(h, g, old, end) /\ ~IsHeader(h, end) /\ ~IsHeader(g, old) /\ end \in Addr
         /\ \A a, i : i \in Segs(h) /\ i # 1 => (InSeg(g, i, a) <=> InSeg(h, i, a))
         /\ \A a \in Int : IsHeader(h, a) /\ a > h.top /\ a # old => a > end
<1>1. /\ h \in HeapSet /\ Segments(h) /\ Tiles(h) /\ h.segs \in Seq(SegSet)
  BY DEF Memory, Segments
<1>2. /\ 1 \in Segs(h) /\ InSeg(h, 1, h.top) /\ InSeg(h, 1, old) /\ h.top \in Int /\ old \in Int /\ h.top < old
      /\ h.segs[1].base \in Int /\ h.segs[1].base <= h.top /\ EndOf(h.segs[1]) = old + TopFoot /\ TopFoot = 5
      /\ \A a : IsHeader(h, a) /\ InSeg(h, 1, a) => a <= h.top \/ a = old
      /\ h.top \in Addr /\ old \in Addr
  BY FixedHeads DEF TopAt
<1>3. /\ n \in Int /\ n > 0 /\ end = h.top + n /\ end # old /\ g.segs[1].base = h.segs[1].base
      /\ EndOf(g.segs[1]) = end + TopFoot /\ \A i \in Segs(h) \ {1} : g.segs[i] = h.segs[i]
      /\ end \in Int
  BY DEF TopMoved
<1>4. end \in Addr
  BY <1>2, <1>3, Places, SMTT(60) DEF RoomForTop
<1>5. \A a, i : i \in Segs(h) /\ i # 1 => (InSeg(g, i, a) <=> InSeg(h, i, a))
  BY <1>3 DEF InSeg
<1>6. ASSUME NEW a \in Int, IsHeader(h, a), a > h.top, a # old
      PROVE  a > end
  <2>1. PICK i \in Segs(h) : InSeg(h, i, a)
    BY <1>1, <1>6 DEF Tiles, IsHeader
  <2>2. i # 1
    BY <1>2, <1>6, <2>1
  <2>3. h.segs[i].base \in Int /\ EndOf(h.segs[i]) \in Int
    BY <1>1, SegTypes
  <2>4. h.segs[i].base <= a /\ a < EndOf(h.segs[i])
    BY <2>1 DEF InSeg, segment_holds
  <2>5. end + TopFoot <= h.segs[i].base \/ EndOf(h.segs[i]) <= h.segs[1].base
    BY <2>2 DEF RoomForTop
  <2> QED
    BY <1>2, <1>3, <1>6, <2>3, <2>4, <2>5
<1>7. ~IsHeader(h, end)
  BY <1>2, <1>3, <1>6
<1>8. \A a \in Addr : g.head[a] = IF a = h.top THEN FreeHead(n) ELSE IF a = end THEN FakeHead
                                  ELSE IF a = old THEN Blank ELSE h.head[a]
  BY DEF TopMoved
<1>9. ~IsHeader(g, old)
  BY <1>2, <1>3, <1>8 DEF IsHeader
<1>10. ASSUME NEW a, a # h.top, a # old, a # end
       PROVE  /\ IsHeader(g, a) <=> IsHeader(h, a)
              /\ IsUsed(g, a) <=> IsUsed(h, a)
              /\ IsFree(g, a) <=> IsFree(h, a)
              /\ IsChunk(g, a) <=> IsChunk(h, a)
              /\ IsHeader(h, a) => /\ g.head[a] = h.head[a] /\ g.foot[a] = h.foot[a]
                                   /\ Size(g, a) = Size(h, a) /\ Past(g, a) = Past(h, a)
                                   /\ \A i \in Segs(h) : InSeg(g, i, a) <=> InSeg(h, i, a)
  <2>1. a \in Addr => g.head[a] = h.head[a]
    BY <1>8, <1>10
  <2>2. /\ IsHeader(g, a) <=> IsHeader(h, a)
        /\ IsUsed(g, a) <=> IsUsed(h, a)
        /\ IsFree(g, a) <=> IsFree(h, a)
    BY <2>1 DEF IsHeader, IsUsed, IsFree
  <2>3. ASSUME IsHeader(h, a)
        PROVE  g.head[a] = h.head[a] /\ g.foot[a] = h.foot[a] /\ \A i \in Segs(h) : InSeg(g, i, a) <=> InSeg(h, i, a)
    <3>1. a \in Addr /\ a \in Int
      BY <2>3, Places DEF IsHeader
    <3>2. ~(InSeg(h, 1, a) /\ a > h.top)
      BY <1>2, <1>10, <2>3, <3>1
    <3>3. g.foot[a] = h.foot[a]
      BY <3>1, <3>2 DEF TopMoved
    <3>4. InSeg(g, 1, a) <=> InSeg(h, 1, a)
      <4>1. a < h.top \/ a > end
        BY <1>2, <1>6, <1>10, <2>3, <3>1
      <4>2. a > end => ~InSeg(h, 1, a)
        BY <1>2, <1>3, <3>1, <3>2
      <4>3. a > end => ~InSeg(g, 1, a)
        <5> SUFFICES ASSUME a > end
                     PROVE  ~InSeg(g, 1, a)
          OBVIOUS
        <5>1. PICK i \in Segs(h) : InSeg(h, i, a)
          BY <1>1, <2>3, <3>1 DEF Tiles
        <5>2. i # 1
          BY <4>2, <5>1
        <5>3. h.segs[i].base \in Int /\ EndOf(h.segs[i]) \in Int
          BY <1>1, SegTypes
        <5>4. h.segs[i].base <= a /\ a < EndOf(h.segs[i])
          BY <5>1 DEF InSeg, segment_holds
        <5>5. end + TopFoot <= h.segs[i].base \/ EndOf(h.segs[i]) <= h.segs[1].base
          BY <5>2 DEF RoomForTop
        <5> QED
          BY <1>2, <1>3, <3>1, <5>3, <5>4, <5>5 DEF InSeg, segment_holds
      <4>4. a < h.top => (InSeg(g, 1, a) <=> InSeg(h, 1, a))
        BY <1>2, <1>3, <3>1 DEF InSeg, segment_holds
      <4> QED
        BY <4>1, <4>2, <4>3, <4>4
    <3> QED
      BY <1>5, <2>1, <3>1, <3>3, <3>4
  <2> QED
    BY <2>2, <2>3 DEF IsChunk, Size, Past
<1>11. MovedHeaders(h, g, old, end)
  BY <1>10 DEF MovedHeaders
<1> QED
  BY <1>4, <1>5, <1>6, <1>7, <1>9, <1>11

\* Where top is now.
MovedTopAt(h, g, n, old, end) ==
    /\ IsFree(g, g.top) /\ IsChunk(g, g.top) /\ Size(g, g.top) = n /\ Past(g, g.top) = end /\ g.head[end] = FakeHead
    /\ g.head[g.top] = FreeHead(n) /\ IsHeader(g, end) /\ ~IsChunk(g, end) /\ ~IsChunk(g, old)
    /\ InSeg(g, 1, g.top) /\ InSeg(g, 1, end) /\ Segs(g) = Segs(h) /\ g.foot[g.top] = h.foot[g.top]
    /\ \A i \in Segs(h) \ {1} : ~InSeg(g, i, g.top) /\ ~InSeg(g, i, end)
    /\ g.top = h.top /\ h.top < end /\ g.segs \in Seq(SegSet) /\ g.segs # <<>>

LEMMA MovedTop ==
  ASSUME NEW h, NEW X, Memory(h, X), NEW g, NEW n, NEW old, TopAt(h, old), NEW end, TopMoved(h, g, n, old, end),
         RoomForTop(h, end)
  PROVE  MovedTopAt(h, g, n, old, end)
<1>1. /\ h \in HeapSet /\ Segments(h) /\ h.segs \in Seq(SegSet)
  BY DEF Memory, Segments
<1>2. /\ 1 \in Segs(h) /\ InSeg(h, 1, h.top) /\ h.top \in Int /\ old \in Int /\ h.top < old
      /\ h.segs[1].base \in Int /\ h.segs[1].base <= h.top /\ EndOf(h.segs[1]) = old + TopFoot /\ TopFoot = 5
      /\ h.top \in Addr /\ old \in Addr
  BY FixedHeads DEF TopAt
<1>3. /\ n \in Int /\ n > 0 /\ end = h.top + n /\ end # old /\ g.segs[1].base = h.segs[1].base
      /\ EndOf(g.segs[1]) = end + TopFoot /\ end \in Int /\ g.top = h.top /\ Len(g.segs) = Len(h.segs)
      /\ g \in HeapSet
  BY DEF TopMoved
<1>4. end \in Addr /\ \A a, i : i \in Segs(h) /\ i # 1 => (InSeg(g, i, a) <=> InSeg(h, i, a))
  BY MovedOthers
<1>5. \A a \in Addr : g.head[a] = IF a = h.top THEN FreeHead(n) ELSE IF a = end THEN FakeHead
                                  ELSE IF a = old THEN Blank ELSE h.head[a]
  BY DEF TopMoved
<1>6. g.head[h.top] = FreeHead(n) /\ g.head[end] = FakeHead /\ g.head[old] = Blank
  BY <1>2, <1>3, <1>4, <1>5, SMTT(60)
<1>7. FreeHead(n).size = n /\ ~FreeHead(n).cinuse /\ FreeHead(n).pinuse
  BY DEF FreeHead
<1>8. IsFree(g, g.top) /\ IsChunk(g, g.top) /\ Size(g, g.top) = n /\ Past(g, g.top) = end
  BY <1>2, <1>3, <1>6, <1>7 DEF IsFree, IsChunk, Size, Past
<1>9. IsHeader(g, end) /\ ~IsChunk(g, end) /\ ~IsChunk(g, old)
  BY <1>4, <1>6, FixedHeads DEF IsHeader, IsChunk, IsUsed, IsFree
<1>10. InSeg(g, 1, g.top) /\ InSeg(g, 1, end)
  BY <1>2, <1>3, SMTT(60) DEF InSeg, segment_holds
<1>11. Segs(g) = Segs(h) /\ g.segs \in Seq(SegSet) /\ g.segs # <<>>
  BY <1>2, <1>3, LenProperties DEF HeapSet, Segs
<1>12. g.foot[g.top] = h.foot[g.top]
  BY <1>2, <1>3, SMTT(60) DEF TopMoved
<1>13. ASSUME NEW i \in Segs(h) \ {1}
       PROVE  ~InSeg(g, i, g.top) /\ ~InSeg(g, i, end)
  <2>1. ~InSeg(h, i, h.top)
    BY <1>1, <1>2, NotTop
  <2>2. h.segs[i].base \in Int /\ EndOf(h.segs[i]) \in Int
    BY <1>1, SegTypes
  <2>3. end + TopFoot <= h.segs[i].base \/ EndOf(h.segs[i]) <= h.segs[1].base
    BY DEF RoomForTop
  <2>4. ~InSeg(h, i, end)
    <3>1. end \in Int /\ h.top < end /\ h.segs[1].base < end /\ end < end + TopFoot /\ TopFoot \in Int
      BY <1>2, <1>3, SMTT(60)
    <3>2. end < h.segs[i].base \/ EndOf(h.segs[i]) <= end
      BY <1>2, <2>2, <2>3, <3>1
    <3> QED
      BY <2>2, <3>1, <3>2 DEF InSeg, segment_holds
  <2> QED
    BY <1>3, <1>4, <2>1, <2>4
<1> QED
  BY <1>2, <1>3, <1>6, <1>8, <1>9, <1>10, <1>11, <1>12, <1>13 DEF MovedTopAt

LEMMA MovedMemory ==
  ASSUME NEW h, NEW X, Memory(h, X), NEW g, NEW n, NEW old, TopAt(h, old), NEW end, TopMoved(h, g, n, old, end),
         RoomForTop(h, end)
  PROVE  Memory(g, X)
<1>1. /\ h \in HeapSet /\ Segments(h) /\ Kinds(h) /\ Tiles(h) /\ TagsAgree(h) /\ FeetIn(h, X) /\ TopIn(h)
      /\ h.segs \in Seq(SegSet)
  BY DEF Memory, Segments
<1>2. /\ 1 \in Segs(h) /\ InSeg(h, 1, h.top) /\ h.top \in Int /\ old \in Int /\ h.top < old
      /\ h.segs[1].base \in Int /\ h.segs[1].base <= h.top /\ EndOf(h.segs[1]) = old + TopFoot /\ TopFoot = 5
      /\ h.top \in Addr /\ old \in Addr /\ InSeg(h, 1, old) /\ h.head[old] = FakeHead /\ h.head[h.top] = FreeHead(h.topsize)
      /\ IsFree(h, h.top) /\ Past(h, h.top) = old /\ old = h.top + h.topsize /\ IsHeader(h, old) /\ IsChunk(h, h.top)
      /\ \A a : IsHeader(h, a) /\ InSeg(h, 1, a) => a <= h.top \/ a = old
  BY FixedHeads DEF TopAt
<1>3. /\ n \in Int /\ n > 0 /\ end = h.top + n /\ end # old /\ g.segs[1].base = h.segs[1].base
      /\ EndOf(g.segs[1]) = end + TopFoot /\ end \in Int /\ g.top = h.top /\ Len(g.segs) = Len(h.segs)
      /\ g \in HeapSet /\ g.topsize = n /\ g.least_addr = h.least_addr
      /\ \A i \in Segs(h) \ {1} : g.segs[i] = h.segs[i]
  BY DEF TopMoved
<1>4. /\ MovedHeaders(h, g, old, end) /\ ~IsHeader(h, end) /\ ~IsHeader(g, old) /\ end \in Addr
      /\ \A a, i : i \in Segs(h) /\ i # 1 => (InSeg(g, i, a) <=> InSeg(h, i, a))
      /\ \A a \in Int : IsHeader(h, a) /\ a > h.top /\ a # old => a > end
  BY MovedOthers
<1>5. MovedTopAt(h, g, n, old, end)
  BY MovedTop
<1>6. /\ IsFree(g, h.top) /\ IsChunk(g, h.top) /\ Size(g, h.top) = n /\ Past(g, h.top) = end /\ g.head[end] = FakeHead
      /\ g.head[h.top] = FreeHead(n) /\ IsHeader(g, end) /\ ~IsChunk(g, end) /\ ~IsChunk(g, old)
      /\ InSeg(g, 1, h.top) /\ InSeg(g, 1, end) /\ Segs(g) = Segs(h) /\ g.foot[h.top] = h.foot[h.top]
      /\ \A i \in Segs(h) \ {1} : ~InSeg(g, i, h.top) /\ ~InSeg(g, i, end)
      /\ g.segs \in Seq(SegSet) /\ g.segs # <<>> /\ h.top < end
  BY <1>3, <1>5 DEF MovedTopAt
<1>7. ASSUME NEW a, a # h.top, a # old, a # end
      PROVE  /\ IsHeader(g, a) <=> IsHeader(h, a)
             /\ IsUsed(g, a) <=> IsUsed(h, a)
             /\ IsFree(g, a) <=> IsFree(h, a)
             /\ IsChunk(g, a) <=> IsChunk(h, a)
             /\ IsHeader(h, a) => /\ g.head[a] = h.head[a] /\ g.foot[a] = h.foot[a]
                                  /\ Size(g, a) = Size(h, a) /\ Past(g, a) = Past(h, a)
                                  /\ \A i \in Segs(h) : InSeg(g, i, a) <=> InSeg(h, i, a)
  BY <1>4, <1>7 DEF MovedHeaders
<1>8. ~IsChunk(h, old) /\ ~IsChunk(h, end)
  BY <1>2, <1>4, ChunkIsHeader
\* What chunks other than top have behind them.
<1>9. ASSUME NEW a, IsChunk(h, a), a # h.top
      PROVE  /\ a # old /\ a # end /\ a \in Addr /\ a \in Int /\ IsHeader(h, a) /\ IsHeader(h, Past(h, a))
             /\ Past(h, a) # old /\ Past(h, a) # end /\ Past(h, a) \in Addr
             /\ a < h.top => Past(h, a) <= h.top
             /\ Past(h, a) = h.top \/ (g.head[Past(h, a)] = h.head[Past(h, a)] /\ g.foot[Past(h, a)] = h.foot[Past(h, a)])
             /\ IsHeader(g, Past(h, a)) /\ Past(h, a) \in Int
  <2>1. a # old /\ a # end /\ a \in Addr /\ a \in Int /\ IsHeader(h, a) /\ IsHeader(h, Past(h, a))
    BY <1>1, <1>8, <1>9, ChunkIsHeader, Places DEF Tiles
  <2>2. a < h.top => Past(h, a) <= h.top
    BY <1>1, <1>2, <1>9, <2>1, ChunkIsHeader DEF Tiles
  <2>3. Past(h, a) \in Addr /\ Past(h, a) \in Int
    BY <2>1, Places DEF IsHeader
  <2>4. Past(h, a) # old
    <3>1. CASE a < h.top
      BY <1>2, <2>2, <2>3, <3>1
    <3>2. CASE a > h.top
      <4>1. PICK i \in Segs(h) : InSeg(h, i, a)
        BY <1>1, <2>1 DEF Tiles
      <4>2. i # 1
        BY <1>2, <2>1, <3>2, <4>1
      <4>3. InSeg(h, i, Past(h, a))
        BY <1>1, <1>9, <2>1, <4>1 DEF Tiles
      <4>4. old <= old
        BY <1>2
      <4>5. ~InSeg(h, i, old)
        BY <1>1, <1>2, <4>2, <4>4, OneSegment
      <4> QED
        BY <4>3, <4>5
    <3> QED
      BY <1>2, <1>9, <2>1, <3>1, <3>2
  <2>5. Past(h, a) # end
    BY <1>4, <2>1
  <2>6. Past(h, a) = h.top \/ (g.head[Past(h, a)] = h.head[Past(h, a)] /\ g.foot[Past(h, a)] = h.foot[Past(h, a)])
    BY <1>7, <2>1, <2>4, <2>5
  <2>7. IsHeader(g, Past(h, a))
    BY <1>6, <1>7, <2>1, <2>4, <2>5, ChunkIsHeader
  <2> QED
    BY <2>1, <2>2, <2>3, <2>4, <2>5, <2>6, <2>7
<1>10. ASSUME NEW a, IsChunk(g, a), a # h.top
       PROVE  IsChunk(h, a) /\ a # old /\ a # end /\ Size(g, a) = Size(h, a) /\ Past(g, a) = Past(h, a)
  BY <1>6, <1>7, <1>10, ChunkIsHeader
<1>11. Segments(g)
  <2>1. ASSUME NEW i \in Segs(h)
        PROVE  /\ g.segs[i].base >= Granularity /\ g.segs[i].size > 5
               /\ EndOf(g.segs[i]) <= Limit /\ g.least_addr <= g.segs[i].base
               /\ IsHeader(g, g.segs[i].base)
    <3>1. /\ h.segs[i].base >= Granularity /\ h.segs[i].size > 5
          /\ EndOf(h.segs[i]) <= Limit /\ h.least_addr <= h.segs[i].base
      BY <1>1 DEF Segments
    <3> DEFINE b == h.segs[i].base
    <3>2. IsHeader(h, b) /\ InSeg(h, i, b) /\ b \in Int
      BY BaseHeader
    <3>3. g.segs[i].base = b
      BY <1>3
    <3> HIDE DEF b
    <3>4. b # old
      <4>1. CASE i = 1
        BY <1>2, <3>2, <4>1 DEF b
      <4>2. CASE i # 1
        <5>1. old <= old
          BY <1>2
        <5> QED
          BY <1>1, <1>2, <3>2, <4>2, <5>1, OneSegment
      <4> QED
        BY <4>1, <4>2
    <3>5. IsHeader(g, b)
      BY <1>6, <1>7, <3>2, <3>4, ChunkIsHeader
    <3>6. g.segs[i].size > 5 /\ EndOf(g.segs[i]) <= Limit
      <4>1. CASE i = 1
        <5>1. EndOf(g.segs[1]) = g.segs[1].base + g.segs[1].size /\ g.segs[1].size \in Int
          BY <1>2, <1>6, SegTypes DEF EndOf, SegSet
        <5>2. end + TopFoot <= Limit /\ Limit \in Int
          BY Places DEF RoomForTop
        <5>3. g.segs[1].size > 5
          <6>1. /\ g.segs[1].base = h.segs[1].base /\ g.segs[1].base \in Int /\ g.segs[1].base <= h.top
                /\ EndOf(g.segs[1]) = end + 5 /\ end = h.top + n /\ n > 0 /\ n \in Int /\ h.top \in Int
            BY <1>2, <1>3
          <6> DEFINE base == g.segs[1].base
                     size == g.segs[1].size
          <6>2. base + size = h.top + n + 5 /\ size \in Int /\ base \in Int /\ base <= h.top
            BY <5>1, <6>1
          <6> HIDE DEF base, size
          <6>3. size > 5
            BY <6>1, <6>2
          <6> QED
            BY <6>3 DEF size
        <5> QED
          BY <1>3, <4>1, <5>2, <5>3
      <4>2. CASE i # 1
        BY <1>3, <3>1, <4>2
      <4> QED
        BY <4>1, <4>2
    <3> QED
      BY <1>3, <3>1, <3>3, <3>5, <3>6 DEF b
  <2>2. ASSUME NEW i \in Segs(h), NEW j \in Segs(h), i # j
        PROVE  EndOf(g.segs[i]) <= g.segs[j].base \/ EndOf(g.segs[j]) <= g.segs[i].base
    <3>1. CASE i = 1
      BY <1>3, <2>2, <3>1 DEF RoomForTop
    <3>2. CASE j = 1
      BY <1>3, <2>2, <3>2 DEF RoomForTop
    <3>3. CASE i # 1 /\ j # 1
      BY <1>1, <1>3, <2>2, <3>3 DEF Segments
    <3> QED
      BY <3>1, <3>2, <3>3
  <2> QED
    BY <1>6, <2>1, <2>2 DEF Segments
<1>12. Kinds(g)
  <2> SUFFICES ASSUME NEW a \in Addr
               PROVE  /\ ~g.head[a].cinuse /\ ~g.head[a].pinuse /\ g.head[a] # Blank =>
                            g.head[a] = FakeHead /\ g.top # Null /\ a = g.top + g.topsize
                      /\ IsChunk(g, a) => Size(g, a) > 0 /\ (a # g.top => Size(g, a) >= MinChunk)
    BY DEF Kinds
  <2>1. h.top # Null
    BY <1>2, HeaderPlace, ChunkIsHeader
  <2>2. ASSUME ~g.head[a].cinuse, ~g.head[a].pinuse, g.head[a] # Blank
        PROVE  g.head[a] = FakeHead /\ g.top # Null /\ a = g.top + g.topsize
    <3>1. a # h.top
      BY <1>6, <2>2 DEF FreeHead
    <3>2. a # old
      BY <1>4, <2>2 DEF IsHeader
    <3>3. CASE a = end
      BY <1>3, <1>6, <2>1, <3>3
    <3>4. CASE a # end
      <4>1. g.head[a] = h.head[a]
        BY <1>7, <2>2, <3>1, <3>2, <3>4 DEF IsHeader
      <4>2. a = h.top + h.topsize
        BY <1>1, <2>2, <4>1 DEF Kinds
      <4> QED
        BY <1>2, <3>2, <4>2
    <3> QED
      BY <3>3, <3>4
  <2>3. ASSUME IsChunk(g, a)
        PROVE  Size(g, a) > 0 /\ (a # g.top => Size(g, a) >= MinChunk)
    <3>1. CASE a = h.top
      BY <1>3, <1>6, <3>1
    <3>2. CASE a # h.top
      BY <1>1, <1>10, <2>3, <3>2 DEF Kinds
    <3> QED
      BY <3>1, <3>2
  <2> QED
    BY <2>2, <2>3
<1>13. Tiles(g)
  <2>1. ASSUME NEW a \in Addr, IsHeader(g, a)
        PROVE  \E i \in Segs(g) : InSeg(g, i, a)
    <3>1. CASE a = h.top \/ a = end
      BY <1>2, <1>6, <3>1
    <3>2. CASE a # h.top /\ a # end
      <4>1. a # old
        BY <1>4, <2>1
      <4> QED
        BY <1>1, <1>6, <1>7, <2>1, <3>2, <4>1 DEF Tiles
    <3> QED
      BY <3>1, <3>2
  <2>2. ASSUME NEW a \in Addr, IsChunk(g, a)
        PROVE  /\ IsHeader(g, Past(g, a))
               /\ \A i \in Segs(g) : InSeg(g, i, a) => InSeg(g, i, Past(g, a))
               /\ \A b \in Addr : IsHeader(g, b) /\ a < b => Past(g, a) <= b
    <3>1. CASE a = h.top
      <4>1. ASSUME NEW b \in Addr, IsHeader(g, b), a < b
            PROVE  Past(g, a) <= b
        <5>1. b # old /\ b # h.top /\ b \in Int
          BY <1>2, <1>4, <3>1, <4>1, Places
        <5>2. b # end => b > end
          BY <1>4, <1>7, <3>1, <4>1, <5>1
        <5> QED
          BY <1>3, <1>6, <3>1, <5>1, <5>2
      <4> QED
        BY <1>6, <3>1, <4>1
    <3>2. CASE a # h.top
      <4>1. IsChunk(h, a) /\ a # old /\ a # end /\ Past(g, a) = Past(h, a) /\ IsHeader(h, a)
        BY <1>10, <2>2, <3>2, ChunkIsHeader
      <4>2. /\ IsHeader(g, Past(h, a)) /\ IsHeader(h, Past(h, a)) /\ Past(h, a) # old /\ Past(h, a) # end
            /\ a \in Int /\ Past(h, a) \in Int /\ (a < h.top => Past(h, a) <= h.top)
        BY <1>9, <3>2, <4>1
      <4>3. ASSUME NEW i \in Segs(g), InSeg(g, i, a)
            PROVE  InSeg(g, i, Past(g, a))
        <5>1. InSeg(h, i, a)
          BY <1>6, <1>7, <3>2, <4>1, <4>3
        <5>2. InSeg(h, i, Past(h, a))
          BY <1>1, <1>6, <4>1, <5>1 DEF Tiles
        <5>3. CASE Past(h, a) = h.top
          <6>1. h.top <= h.top
            BY <1>2
          <6>2. i = 1
            BY <1>1, <1>2, <1>6, <5>2, <5>3, <6>1, OneSegment
          <6> QED
            BY <1>6, <4>1, <5>3, <6>2
        <5>4. CASE Past(h, a) # h.top
          BY <1>6, <1>7, <4>1, <4>2, <5>2, <5>4
        <5> QED
          BY <5>3, <5>4
      <4>4. ASSUME NEW b \in Addr, IsHeader(g, b), a < b
            PROVE  Past(h, a) <= b
        <5>1. CASE b # h.top /\ b # end
          <6>1. b # old
            BY <1>4, <4>4
          <6>2. IsHeader(h, b)
            BY <1>7, <4>4, <5>1, <6>1
          <6> QED
            BY <1>1, <4>1, <4>4, <6>2 DEF Tiles
        <5>2. CASE b = h.top
          BY <1>1, <1>2, <4>1, <4>4, <5>2, ChunkIsHeader DEF Tiles
        <5>3. CASE b = end
          <6>1. CASE a < h.top
            BY <1>2, <1>3, <4>2, <5>3, <6>1
          <6>2. CASE a > h.top
            BY <1>3, <1>4, <4>1, <4>2, <4>4, <5>3, <6>2
          <6> QED
            BY <1>2, <3>2, <4>2, <6>1, <6>2
        <5> QED
          BY <5>1, <5>2, <5>3
      <4> QED
        BY <4>1, <4>2, <4>3, <4>4
    <3> QED
      BY <3>1, <3>2
  <2>3. ASSUME NEW a \in Addr, IsHeader(g, a), ~IsChunk(g, a), NEW b \in Addr, NEW i \in Segs(g),
               IsHeader(g, b), InSeg(g, i, a), InSeg(g, i, b)
        PROVE  b <= a
    <3>1. a # old /\ b # old /\ a # h.top /\ a \in Int /\ b \in Int
      BY <1>4, <1>6, <2>3, Places
    <3>2. CASE a = end
      <4>1. i = 1
        BY <1>6, <2>3, <3>2
      <4>2. CASE b = h.top \/ b = end
        BY <1>2, <1>3, <3>2, <4>2
      <4>3. CASE b # h.top /\ b # end
        <5>1. IsHeader(h, b) /\ InSeg(h, 1, b)
          BY <1>2, <1>7, <2>3, <3>1, <4>1, <4>3
        <5>2. b <= h.top
          BY <1>2, <3>1, <5>1
        <5> QED
          BY <1>2, <1>3, <3>1, <3>2, <5>2
      <4> QED
        BY <4>2, <4>3
    <3>3. CASE a # end
      <4>1. IsHeader(h, a) /\ ~IsChunk(h, a) /\ InSeg(h, i, a)
        BY <1>6, <1>7, <2>3, <3>1, <3>3
      <4>2. i # 1
        <5> SUFFICES ASSUME i = 1
                     PROVE  FALSE
          OBVIOUS
        <5>1. a < h.top
          BY <1>2, <3>1, <4>1
        <5>2. IsHeader(h, h.top)
          BY <1>2, ChunkIsHeader
        <5>3. h.top <= a
          BY <1>1, <1>2, <4>1, <5>2 DEF Tiles
        <5> QED
          BY <1>2, <3>1, <5>1, <5>3
      <4>3. b # h.top /\ b # end
        BY <1>6, <2>3, <4>2
      <4>4. IsHeader(h, b) /\ InSeg(h, i, b)
        BY <1>6, <1>7, <2>3, <3>1, <4>3
      <4> QED
        BY <1>1, <1>6, <4>1, <4>4 DEF Tiles
    <3> QED
      BY <3>2, <3>3
  <2> QED
    BY <2>1, <2>2, <2>3 DEF Tiles
<1>14. TagsAgree(g)
  <2> SUFFICES ASSUME NEW a \in Addr
               PROVE  /\ IsUsed(g, a) => g.head[Past(g, a)].pinuse
                      /\ IsFree(g, a) =>
                            /\ ~g.head[Past(g, a)].pinuse
                            /\ a # g.top => g.head[Past(g, a)].cinuse /\ g.foot[Past(g, a)] = Size(g, a)
                      /\ g.head[a].cinuse /\ ~g.head[a].pinuse =>
                            LET b == a - g.foot[a] IN IsFree(g, b) /\ b # g.top /\ Size(g, b) = g.foot[a]
    BY DEF TagsAgree
  <2>1. ASSUME IsUsed(g, a)
        PROVE  g.head[Past(g, a)].pinuse
    <3>1. a # h.top
      BY <1>6, <2>1 DEF IsUsed, IsFree
    <3>2. IsChunk(h, a) /\ Past(g, a) = Past(h, a) /\ IsUsed(h, a)
      BY <1>7, <1>10, <2>1, <3>1 DEF IsChunk
    <3>3. h.head[Past(h, a)].pinuse
      BY <1>1, <3>2 DEF TagsAgree
    <3>4. Past(h, a) = h.top \/ g.head[Past(h, a)] = h.head[Past(h, a)]
      BY <1>9, <3>1, <3>2
    <3>5. g.head[h.top].pinuse
      BY <1>6 DEF FreeHead
    <3> QED
      BY <3>2, <3>3, <3>4, <3>5
  <2>2. ASSUME IsFree(g, a)
        PROVE  /\ ~g.head[Past(g, a)].pinuse
               /\ a # g.top => g.head[Past(g, a)].cinuse /\ g.foot[Past(g, a)] = Size(g, a)
    <3>1. CASE a = h.top
      BY <1>3, <1>6, <3>1, FixedHeads
    <3>2. CASE a # h.top
      <4>1. IsChunk(h, a) /\ Past(g, a) = Past(h, a) /\ IsFree(h, a) /\ Size(g, a) = Size(h, a)
        BY <1>7, <1>10, <2>2, <3>2 DEF IsChunk
      <4>2. ~h.head[Past(h, a)].pinuse /\ h.head[Past(h, a)].cinuse /\ h.foot[Past(h, a)] = Size(h, a)
        BY <1>1, <3>2, <4>1 DEF TagsAgree
      <4>3. Past(h, a) # h.top
        BY <1>2, <4>2 DEF IsFree
      <4>4. g.head[Past(h, a)] = h.head[Past(h, a)] /\ g.foot[Past(h, a)] = h.foot[Past(h, a)]
        BY <1>9, <3>2, <4>1, <4>3
      <4> QED
        BY <4>1, <4>2, <4>4
    <3> QED
      BY <3>1, <3>2
  <2>3. ASSUME g.head[a].cinuse, ~g.head[a].pinuse
        PROVE  LET b == a - g.foot[a] IN IsFree(g, b) /\ b # g.top /\ Size(g, b) = g.foot[a]
    <3>1. a # h.top /\ a # end /\ a # old
      BY <1>4, <1>6, <2>3, FixedHeads DEF FreeHead, IsHeader
    <3>2. IsHeader(h, a)
      BY <1>7, <2>3, <3>1, FixedHeads DEF IsHeader
    <3>3. g.head[a] = h.head[a] /\ g.foot[a] = h.foot[a]
      BY <1>7, <3>1, <3>2
    <3> DEFINE b == a - h.foot[a]
    <3>4. IsFree(h, b) /\ b # h.top /\ Size(h, b) = h.foot[a]
      BY <1>1, <2>3, <3>3 DEF TagsAgree
    <3> HIDE DEF b
    <3>5. IsFree(g, b) /\ Size(g, b) = Size(h, b)
      BY <1>7, <1>8, <3>4, ChunkIsHeader DEF IsChunk
    <3> QED
      BY <1>3, <3>3, <3>4, <3>5 DEF b
  <2> QED
    BY <2>1, <2>2, <2>3
<1>15. FeetIn(g, X)
  <2> SUFFICES ASSUME NEW a \in Addr, g.foot[a] # 0
               PROVE  a \in X \/ (g.head[a].cinuse /\ ~g.head[a].pinuse)
    BY DEF FeetIn
  <2>1. h.foot[a] = g.foot[a]
    BY DEF TopMoved
  <2>2. CASE h.head[a].cinuse /\ ~h.head[a].pinuse
    <3>1. IsHeader(h, a) /\ a # h.top /\ a # old
      BY <1>2, <2>2, FixedHeads DEF IsHeader, FreeHead
    <3>2. a # end
      BY <1>4, <3>1
    <3> QED
      BY <1>7, <2>2, <3>1, <3>2
  <2> QED
    BY <1>1, <2>1, <2>2 DEF FeetIn
<1>16. TopIn(g)
  <2>1. EndOf(g.segs[1]) = end + 5 /\ TopFoot = 5 /\ end = g.top + g.topsize
    BY <1>2, <1>3
  <2> QED
    BY <1>3, <1>6, <2>1 DEF TopIn
<1> QED
  BY <1>3, <1>11, <1>12, <1>13, <1>14, <1>15, <1>16 DEF Memory

LEMMA MovedSound ==
  ASSUME NEW h, NEW U, NEW X, Sound(h, U, X), NEW g, NEW n, NEW old, TopAt(h, old), NEW end, TopMoved(h, g, n, old, end),
         RoomForTop(h, end)
  PROVE  Sound(g, U, X) /\ SameSizes(h, g, U)
<1>1. /\ Memory(h, X) /\ Records(h) /\ Users(h, U) /\ Victim(h) /\ Bins(h) /\ h.aborted = FALSE /\ h \in HeapSet
      /\ \A x \in X : x \in Addr /\ h.head[x].pinuse
  BY DEF Sound, Memory
<1>2. /\ 1 \in Segs(h) /\ h.head[old] = FakeHead /\ h.head[h.top] = FreeHead(h.topsize)
      /\ IsFree(h, h.top) /\ IsChunk(h, h.top)
  BY DEF TopAt
<1>3. /\ g.top = h.top /\ Len(g.segs) = Len(h.segs) /\ g.bin = h.bin /\ g.dv = h.dv /\ g.dvsize = h.dvsize
      /\ \A i \in Segs(h) \ {1} : g.segs[i] = h.segs[i]
      /\ g.aborted = h.aborted /\ g.segs[1].rec = h.segs[1].rec
  BY DEF TopMoved, SameVictim
<1>4. /\ MovedHeaders(h, g, old, end) /\ ~IsHeader(h, end) /\ ~IsHeader(g, old)
  BY <1>1, MovedOthers
<1>5. MovedTopAt(h, g, n, old, end)
  BY <1>1, MovedTop
<1>6. /\ IsFree(g, h.top) /\ g.head[end] = FakeHead
      /\ g.head[h.top] = FreeHead(n) /\ ~IsChunk(g, end) /\ ~IsChunk(g, old) /\ Segs(g) = Segs(h)
      /\ g.segs # <<>>
  BY <1>3, <1>5 DEF MovedTopAt
<1>7. ASSUME NEW a, a # h.top, a # old, a # end
      PROVE  /\ IsUsed(g, a) <=> IsUsed(h, a)
             /\ IsFree(g, a) <=> IsFree(h, a)
             /\ IsHeader(h, a) => /\ g.head[a] = h.head[a] /\ Size(g, a) = Size(h, a)
                                  /\ \A i \in Segs(h) : InSeg(g, i, a) <=> InSeg(h, i, a)
  BY <1>4, <1>7 DEF MovedHeaders
<1>8. ~IsChunk(h, old) /\ ~IsChunk(h, end)
  BY <1>2, <1>4, ChunkIsHeader
<1>9. ASSUME NEW a
      PROVE  /\ IsUsed(g, a) <=> IsUsed(h, a)
             /\ IsFree(g, a) <=> IsFree(h, a)
             /\ IsUsed(h, a) \/ (IsFree(h, a) /\ a # h.top) =>
                  /\ g.head[a] = h.head[a] /\ Size(g, a) = Size(h, a)
                  /\ \A i \in Segs(h) : InSeg(g, i, a) <=> InSeg(h, i, a)
  <2>1. CASE a = h.top
    BY <1>2, <1>6, <2>1 DEF IsUsed, IsFree
  <2>2. CASE a = old \/ a = end
    BY <1>6, <1>8, <2>2 DEF IsChunk
  <2>3. CASE a # h.top /\ a # old /\ a # end
    BY <1>7, <2>3, ChunkIsHeader DEF IsChunk
  <2> QED
    BY <2>1, <2>2, <2>3
<1>10. Records(g)
  <2>1. g.segs[1].rec = Null
    BY <1>1, <1>2, <1>3 DEF Records, Segs
  <2>2. ASSUME NEW i \in Segs(h) \ {1}
        PROVE  /\ IsUsed(g, g.segs[i].rec) /\ InSeg(g, i, g.segs[i].rec)
               /\ Size(g, g.segs[i].rec) = SegRecord
               /\ g.head[g.segs[i].rec + SegRecord] = Fence
               /\ g.segs[i].rec + TopFoot <= EndOf(g.segs[i])
    <3> DEFINE r == h.segs[i].rec
    <3>1. /\ IsUsed(h, r) /\ InSeg(h, i, r) /\ Size(h, r) = SegRecord
          /\ h.head[r + SegRecord] = Fence /\ r + TopFoot <= EndOf(h.segs[i])
      BY <1>1 DEF Records
    <3>2. g.segs[i] = h.segs[i]
      BY <1>3
    <3> HIDE DEF r
    <3>3. Past(h, r) = r + SegRecord
      BY <3>1 DEF Past, Size
    <3>4. IsHeader(h, r + SegRecord)
      BY <1>1, <3>1, <3>3 DEF Memory, Tiles, IsChunk, IsUsed
    <3>5. r + SegRecord # h.top /\ r + SegRecord # old /\ r + SegRecord # end
      BY <1>2, <1>4, <3>1, <3>4 DEF FakeHead, FreeHead, Fence
    <3>6. g.head[r + SegRecord] = Fence
      BY <1>7, <3>1, <3>4, <3>5
    <3> QED
      BY <1>9, <3>1, <3>2, <3>6 DEF r
  <2> QED
    BY <1>6, <2>1, <2>2 DEF Records
<1>11. \A a : IsRecord(g, a) <=> IsRecord(h, a)
  BY <1>3, <1>6 DEF IsRecord
<1>12. Users(g, U)
  BY <1>1, <1>9, <1>11 DEF Users
<1>13. Victim(g)
  BY <1>1, <1>3, <1>9 DEF Victim
<1>14. Bins(g)
  <2>1. BinsOnce(g)
    BY <1>1, <1>3 DEF Bins, BinsOnce
  <2>2. \A s \in Sizes : \A a : InBin(g, s, a) <=> InBin(h, s, a)
    BY <1>3 DEF InBin
  <2> QED
    BY <1>1, <1>3, <1>9, <2>1, <2>2 DEF Bins
<1>15. Memory(g, X)
  BY <1>1, MovedMemory
<1>16. ASSUME NEW x \in X
       PROVE  x \in Addr /\ g.head[x].pinuse
  <2>1. x \in Addr /\ h.head[x].pinuse
    BY <1>1
  <2>2. x # old /\ x # end
    BY <1>2, <1>4, <2>1, FixedHeads DEF IsHeader
  <2>3. CASE x = h.top
    BY <1>6, <2>1, <2>3 DEF FreeHead
  <2>4. CASE x # h.top
    BY <1>7, <2>1, <2>2, <2>4, FixedHeads DEF IsHeader
  <2> QED
    BY <2>3, <2>4
<1>17. SameSizes(h, g, U)
  BY <1>1, <1>9 DEF Users, SameSizes
<1> QED
  BY <1>1, <1>3, <1>10, <1>12, <1>13, <1>14, <1>15, <1>16, <1>17 DEF Sound

\* One segment has another size.
LEMMA SumChanged ==
  ASSUME NEW segs \in Seq(SegSet), NEW other \in Seq(SegSet), NEW i \in 1 .. Len(segs), NEW d \in Int,
         Len(other) = Len(segs), \A k \in 1 .. Len(segs) : other[k].size = IF k = i THEN segs[k].size + d ELSE segs[k].size,
         NEW f, NEW total, SumsTo(f, segs, total)
  PROVE  \E e : SumsTo(e, other, total + d)
<1> DEFINE n == Len(segs)
           e == [k \in 0 .. n |-> IF k < i THEN f[k] ELSE f[k] + d]
<1>1. n \in Nat /\ i \in 1 .. n /\ Len(other) = n
  BY LenProperties
<1>2. f \in [0 .. n -> Int] /\ f[0] = 0 /\ total = f[n] /\ \A k \in 1 .. n : f[k] = f[k - 1] + segs[k].size
  BY DEF SumsTo
<1>3. \A k \in 1 .. n : segs[k].size \in Int
  <2>1. \A k \in 1 .. n : segs[k] \in SegSet
    BY ElementOfSeq
  <2> QED
    BY <2>1 DEF SegSet
<1> HIDE DEF n
<1>4. \A k \in 0 .. n : e[k] = IF k < i THEN f[k] ELSE f[k] + d
  OBVIOUS
<1>5. e \in [0 .. n -> Int]
  BY <1>2
<1> HIDE DEF e
<1>6. e[0] = 0 /\ e[n] = total + d
  BY <1>1, <1>2, <1>4
<1>7. ASSUME NEW k \in 1 .. n
      PROVE  e[k] = e[k - 1] + other[k].size
  <2>1. k \in 0 .. n /\ k - 1 \in 0 .. n /\ k \in Int /\ f[k] \in Int /\ f[k - 1] \in Int
    BY <1>1, <1>2
  <2>2. f[k] = f[k - 1] + segs[k].size /\ segs[k].size \in Int
    BY <1>2, <1>3
  <2>3. other[k].size = IF k = i THEN segs[k].size + d ELSE segs[k].size
    BY DEF n
  <2>4. e[k] = (IF k < i THEN f[k] ELSE f[k] + d) /\ e[k - 1] = IF k - 1 < i THEN f[k - 1] ELSE f[k - 1] + d
    BY <1>4, <2>1
  <2>5. CASE k < i
    BY <1>1, <2>1, <2>2, <2>3, <2>4, <2>5
  <2>6. CASE k = i
    BY <1>1, <2>1, <2>2, <2>3, <2>4, <2>6
  <2>7. CASE k > i
    BY <1>1, <2>1, <2>2, <2>3, <2>4, <2>7
  <2> QED
    BY <1>1, <2>1, <2>5, <2>6, <2>7
<1>8. SumsTo(e, other, total + d)
  BY <1>1, <1>5, <1>6, <1>7 DEF SumsTo
<1> QED
  BY <1>8

\* A new top.
TopSet(h, g, p, n) ==
    /\ g \in HeapSet /\ g.foot = h.foot /\ g.bin = h.bin /\ SameVictim(g, h) /\ SameSystem(g, h)
    /\ g.aborted = h.aborted /\ g.top = p /\ g.topsize = n
    /\ \A a \in Addr : g.head[a] = IF a = p THEN FreeHead(n) ELSE IF a = p + n THEN FakeHead ELSE h.head[a]

LEMMA InitTop ==
  ASSUME NEW h \in HeapSet, NEW p \in Addr, NEW n \in Int, n > 0, p + n \in Addr, NEW g, g = init_top(h, p, n)
  PROVE  TopSet(h, g, p, n)
<1> DEFINE m == set_head(h, p, n, FALSE, TRUE)
           k == set_head(m, p + n, TopFoot, FALSE, FALSE)
<1>1. MemoryStep(m, h) /\ m.foot = h.foot /\ m.head = Put(h.head, p, FreeHead(n))
  BY SetFreeHead
<1> DEFINE q == p + n
<1>2. q \in Addr /\ p # q /\ p \in Int
  BY Places
<1>3. g = [k EXCEPT !.top = p, !.topsize = n, !.trim_check = TrimThreshold]
  BY DEF init_top
<1>4. m \in HeapSet
  BY <1>1 DEF MemoryStep
<1>5. k = set_head(m, q, TopFoot, FALSE, FALSE)
  OBVIOUS
<1> HIDE DEF m, k, q
<1>6. MemoryStep(k, m) /\ k.foot = m.foot /\ k.head = Put(m.head, q, FakeHead)
  BY <1>2, <1>4, <1>5, SetFakeHead
<1>7. MemoryStep(k, h)
  BY <1>1, <1>6, MemoryStepsCompose
<1>8. k \in HeapSet /\ k.foot = h.foot /\ k.head = Put(Put(h.head, p, FreeHead(n)), q, FakeHead)
  BY <1>1, <1>6 DEF MemoryStep
<1>9. \A a \in Addr : k.head[a] = IF a = q THEN FakeHead ELSE IF a = p THEN FreeHead(n) ELSE h.head[a]
  BY <1>2, <1>8, Fields DEF Put
<1>10. TrimThreshold \in Int /\ p \in Int
  BY <1>2, RateAssumption
<1>11. g \in HeapSet /\ g.head = k.head /\ g.foot = k.foot /\ g.bin = k.bin /\ SameVictim(g, k) /\ SameSystem(g, k)
       /\ g.aborted = k.aborted /\ g.top = p /\ g.topsize = n
  BY <1>3, <1>8, <1>10, ZenonT(60) DEF HeapSet, SameVictim, SameSystem
<1>12. \A a \in Addr : g.head[a] = IF a = p THEN FreeHead(n) ELSE IF a = q THEN FakeHead ELSE h.head[a]
  BY <1>2, <1>9, <1>11
<1> QED
  BY <1>7, <1>8, <1>11, <1>12 DEF TopSet, MemoryStep, SameVictim, SameSystem, q

\* The first segment is the one that holds top.
LEMMA HoldsTop ==
  ASSUME NEW h, NEW X, Memory(h, X), h.segs # <<>>
  PROVE  segment_holding(h, h.top) = 1
<1>1. Segments(h) /\ TopAt(h, h.top + h.topsize)
  BY TopChunk DEF Memory
<1>2. 1 \in Segs(h) /\ InSeg(h, 1, h.top) /\ h.top \in Int
  BY <1>1 DEF TopAt
<1>3. \E i \in Segs(h) : segment_holds(h.segs[i], h.top)
  BY <1>2 DEF InSeg
<1> DEFINE j == segment_holding(h, h.top)
<1>4. j \in Segs(h) /\ segment_holds(h.segs[j], h.top)
  BY <1>3 DEF segment_holding
<1> HIDE DEF j
<1>5. h.top <= h.top /\ InSeg(h, j, h.top)
  BY <1>2, <1>4 DEF InSeg
<1>6. j = 1
  BY <1>1, <1>2, <1>4, <1>5, OneSegment
<1> QED
  BY <1>6 DEF j

\* A segment with another base or size.
Resegged(h, i, b, z) == [h EXCEPT !.segs[i].base = b, !.segs[i].size = z]

LEMMA ReseggedFields ==
  ASSUME NEW h \in HeapSet, NEW i \in Segs(h), NEW b \in Int, NEW z \in Int, NEW g, g = Resegged(h, i, b, z)
  PROVE  /\ g \in HeapSet /\ g.head = h.head /\ g.foot = h.foot /\ g.bin = h.bin /\ SameVictim(g, h) /\ SameTop(g, h)
         /\ g.aborted = h.aborted /\ g.footprint = h.footprint /\ g.max_footprint = h.max_footprint
         /\ g.footprint_limit = h.footprint_limit /\ g.least_addr = h.least_addr /\ g.release_checks = h.release_checks
         /\ Len(g.segs) = Len(h.segs) /\ g.segs \in Seq(SegSet)
         /\ \A k \in Segs(h) : /\ k # i => g.segs[k] = h.segs[k]
                               /\ k = i => g.segs[k].base = b /\ g.segs[k].size = z /\ g.segs[k].rec = h.segs[k].rec
<1>1. h.segs \in Seq(SegSet) /\ i \in 1 .. Len(h.segs) /\ Len(h.segs) \in Nat
  BY LenProperties DEF HeapSet, Segs
<1>2. h.segs[i] \in SegSet
  BY <1>1, ElementOfSeq
<1> DEFINE s == [h.segs[i] EXCEPT !.base = b, !.size = z]
           list == [h.segs EXCEPT ![i] = s]
<1>3. s \in SegSet /\ s.base = b /\ s.size = z /\ s.rec = h.segs[i].rec
  BY <1>2 DEF SegSet
<1>4. g = [h EXCEPT !.segs = list]
  <2>1. [h.segs EXCEPT ![i].base = b, ![i].size = z] = list
    BY <1>1
  <2> QED
    BY <2>1 DEF Resegged, HeapSet
<1> HIDE DEF s
<1>5. list \in Seq(SegSet) /\ Len(list) = Len(h.segs) /\ \A k \in 1 .. Len(h.segs) : list[k] = IF k = i THEN s ELSE h.segs[k]
  <2>1. list \in [1 .. Len(h.segs) -> SegSet]
    BY <1>1, <1>3, ElementOfSeq
  <2>2. list \in Seq(SegSet)
    BY <1>1, <2>1
  <2> QED
    BY <1>1, <2>1, <2>2
<1> HIDE DEF list
<1>6. /\ g \in HeapSet /\ g.head = h.head /\ g.foot = h.foot /\ g.bin = h.bin /\ SameVictim(g, h) /\ SameTop(g, h)
      /\ g.aborted = h.aborted /\ g.footprint = h.footprint /\ g.max_footprint = h.max_footprint
      /\ g.footprint_limit = h.footprint_limit /\ g.least_addr = h.least_addr /\ g.release_checks = h.release_checks
      /\ g.segs = list
  BY <1>4, <1>5 DEF HeapSet, SameVictim, SameTop
<1> QED
  BY <1>3, <1>5, <1>6 DEF Segs

Shrunk(h, extra) ==
    init_top([unmap(h, EndOf(h.segs[1]) - extra, extra) EXCEPT !.segs[1].size = @ - extra],
             h.top, h.topsize - extra)

LEMMA TopShrunk ==
  ASSUME NEW h, NEW U, NEW X, Sound(h, U, X), h.segs # <<>>,
         NEW extra \in Int, Granularity <= extra, extra < h.topsize, NEW g, g = Shrunk(h, extra)
  PROVE  Trimmed(h, g, U, X) /\ g.topsize = h.topsize - extra
<1> DEFINE old == h.top + h.topsize
           n == h.topsize - extra
           end == h.top + n
           start == EndOf(h.segs[1]) - extra
           m == unmap(h, start, extra)
           b == h.segs[1].base
           z == h.segs[1].size - extra
           k == Resegged(m, 1, b, z)
<1>1. Memory(h, X) /\ h \in HeapSet /\ h.segs \in Seq(SegSet) /\ Segments(h)
  BY DEF Sound, Memory, Segments
<1>2. TopAt(h, old)
  BY <1>1, TopChunk
<1>3. /\ 1 \in Segs(h) /\ h.top \in Int /\ h.top \in Addr /\ old \in Int /\ h.topsize \in Int /\ h.topsize > 0
      /\ EndOf(h.segs[1]) = old + 5 /\ old \in Addr /\ TopFoot = 5 /\ b <= h.top /\ Granularity > 7 /\ Granularity \in Int
      /\ \A a : IsHeader(h, a) /\ InSeg(h, 1, a) => a <= h.top \/ a = old
  BY <1>2, FixedHeads, Places DEF TopAt
<1>4. b \in Int /\ h.segs[1].size \in Int /\ EndOf(h.segs[1]) = b + h.segs[1].size
  BY <1>1, <1>3, SegTypes DEF EndOf
<1>5. n \in Int /\ n > 0 /\ end \in Int /\ end \in Addr /\ end + extra = old /\ start = end + 5 /\ start \in Int /\ z \in Int
      /\ start + extra = old + 5 /\ end + 7 < old /\ h.top < end
  <2>1. n \in Int /\ n > 0 /\ n < h.topsize /\ z \in Int
    BY <1>3, <1>4, SMTT(60)
  <2>2. start = old + 5 - extra
    BY <1>3
  <2> HIDE DEF start, z
  <2>3. end \in Int /\ end + extra = old /\ h.top < end /\ end < old
    BY <1>3, <2>1, SMTT(60)
  <2> HIDE DEF end, old, n
  <2>4. start = end + 5 /\ start \in Int /\ start + extra = old + 5 /\ end + 7 < old
    <3>1. Granularity \in Int /\ Granularity > 7 /\ old \in Int
      BY <1>3
    <3> QED
      BY <2>2, <2>3, <3>1
  <2>5. end \in Addr
    BY <1>3, <2>3, Places
  <2> QED
    BY <2>1, <2>3, <2>4, <2>5
<1>6. g = init_top([m EXCEPT !.segs[1].size = @ - extra], h.top, n)
  BY DEF Shrunk
<1> HIDE DEF m
<1>7. /\ m \in HeapSet /\ m.segs = h.segs /\ m.bin = h.bin /\ SameVictim(m, h) /\ SameTop(m, h) /\ m.aborted = h.aborted
      /\ m.footprint = h.footprint - extra /\ m.max_footprint = h.max_footprint
      /\ m.footprint_limit = h.footprint_limit /\ m.least_addr = h.least_addr
      /\ \A a \in Addr : /\ m.head[a] = IF start <= a /\ a < start + extra THEN Blank ELSE h.head[a]
                         /\ m.foot[a] = IF start <= a /\ a < start + extra THEN 0 ELSE h.foot[a]
  BY <1>1, <1>5, UnmapFields, SMTT(60) DEF m
<1>8. [m EXCEPT !.segs[1].size = @ - extra] = k
  <2>1. m.segs \in Seq(SegSet) /\ 1 \in 1 .. Len(m.segs) /\ m.segs = h.segs
    BY <1>1, <1>3, <1>7 DEF Segs
  <2>2. m.segs[1] \in SegSet
    BY <2>1, ElementOfSeq
  <2>3. [m.segs[1] EXCEPT !.size = @ - extra] = [m.segs[1] EXCEPT !.base = b, !.size = z]
    BY <2>1, <2>2 DEF SegSet
  <2>4. [m.segs EXCEPT ![1].size = @ - extra] = [m.segs EXCEPT ![1].base = b, ![1].size = z]
    BY <2>1, <2>3
  <2> HIDE DEF b, z
  <2> QED
    BY <1>7, <2>4 DEF Resegged, HeapSet
<1>9. g = init_top(k, h.top, n)
  BY <1>6, <1>8
<1>10. 1 \in Segs(m)
  BY <1>3, <1>7 DEF Segs
<1> HIDE DEF k, n, start, end, old, b, z
<1>11. /\ k \in HeapSet /\ k.head = m.head /\ k.foot = m.foot /\ k.bin = m.bin /\ SameVictim(k, m) /\ SameTop(k, m)
       /\ k.aborted = m.aborted /\ k.footprint = m.footprint /\ k.max_footprint = m.max_footprint
       /\ k.footprint_limit = m.footprint_limit /\ k.least_addr = m.least_addr
       /\ Len(k.segs) = Len(m.segs) /\ k.segs \in Seq(SegSet)
       /\ \A j \in Segs(m) : /\ j # 1 => k.segs[j] = m.segs[j]
                             /\ j = 1 => k.segs[j].base = b /\ k.segs[j].size = z /\ k.segs[j].rec = m.segs[j].rec
  BY <1>4, <1>5, <1>7, <1>10, ReseggedFields, SMTT(60) DEF k
<1>12. TopSet(k, g, h.top, n)
  <2>1. h.top + n = end
    BY DEF end
  <2> QED
    BY <1>3, <1>5, <1>9, <1>11, <2>1, InitTop
<1>13. /\ g \in HeapSet /\ g.foot = k.foot /\ g.bin = k.bin /\ SameVictim(g, k) /\ g.segs = k.segs
       /\ g.footprint = k.footprint /\ g.max_footprint = k.max_footprint
       /\ g.footprint_limit = k.footprint_limit /\ g.least_addr = k.least_addr
       /\ g.aborted = k.aborted /\ g.top = h.top /\ g.topsize = n
       /\ \A a \in Addr : g.head[a] = IF a = h.top THEN FreeHead(n) ELSE IF a = end THEN FakeHead ELSE k.head[a]
  BY <1>12 DEF TopSet, SameSystem, end
<1>14. TopMoved(h, g, n, old, end)
  <2>1. /\ g \in HeapSet /\ g.least_addr = h.least_addr /\ SameVictim(g, h) /\ g.bin = h.bin /\ g.aborted = h.aborted
        /\ g.top = h.top /\ g.topsize = n /\ n \in Int /\ n > 0 /\ end = h.top + n /\ end # old /\ end \in Int
        /\ Len(g.segs) = Len(h.segs)
    BY <1>3, <1>5, <1>7, <1>11, <1>13 DEF SameVictim, end
  <2>2. \A i \in Segs(h) \ {1} : g.segs[i] = h.segs[i]
    BY <1>7, <1>11, <1>13 DEF Segs
  <2>3. g.segs[1].base = h.segs[1].base /\ g.segs[1].rec = h.segs[1].rec /\ g.segs[1].size = z
    BY <1>7, <1>10, <1>11, <1>13 DEF b
  <2>4. EndOf(g.segs[1]) = end + TopFoot
    <3>1. EndOf(g.segs[1]) = b + z
      BY <2>3 DEF EndOf, b
    <3>2. z = h.segs[1].size - extra
      BY DEF z
    <3>3. b + h.segs[1].size = old + 5 /\ b \in Int /\ h.segs[1].size \in Int
      BY <1>3, <1>4
    <3>4. end + extra = old /\ end \in Int
      BY <1>5
    <3>5. EndOf(g.segs[1]) = end + 5
      BY <3>1, <3>2, <3>3, <3>4, SMTT(60)
    <3> QED
      BY <1>3, <3>5
  <2>5. ASSUME NEW a \in Addr
        PROVE  /\ g.head[a] = IF a = h.top THEN FreeHead(n) ELSE IF a = end THEN FakeHead
                              ELSE IF a = old THEN Blank ELSE h.head[a]
               /\ g.foot[a] = h.foot[a] \/ (g.foot[a] = 0 /\ InSeg(h, 1, a) /\ a > h.top)
    <3>1. a \in Int
      BY Places
    <3>2. start <= a /\ a < start + extra => InSeg(h, 1, a) /\ a > h.top
      <4> SUFFICES ASSUME start <= a, a < start + extra
                   PROVE  InSeg(h, 1, a) /\ a > h.top
        OBVIOUS
      <4>1. h.top < a /\ b <= a
        <5>1. h.top \in Int /\ end \in Int /\ start \in Int /\ b \in Int /\ b <= h.top /\ h.top < end /\ start = end + 5
          BY <1>3, <1>4, <1>5
        <5> QED
          BY <3>1, <5>1
      <4>2. a < EndOf(h.segs[1])
        BY <1>3, <1>5
      <4>3. h.segs[1].base <= a
        BY <4>1 DEF b
      <4> QED
        BY <4>1, <4>2, <4>3 DEF InSeg, segment_holds
    <3>3. start <= a /\ a < start + extra /\ a # old => h.head[a] = Blank
      BY <1>3, <1>5, <3>1, <3>2 DEF IsHeader
    <3>4. start <= old /\ old < start + extra
      BY <1>3, <1>5
    <3> QED
      BY <1>7, <1>11, <1>13, <3>2, <3>3, <3>4
  <2> QED
    BY <2>1, <2>2, <2>3, <2>4, <2>5 DEF TopMoved
<1>15. RoomForTop(h, end)
  <2>1. end + TopFoot <= EndOf(h.segs[1]) /\ end + TopFoot \in Int
    BY <1>3, <1>5
  <2>2. EndOf(h.segs[1]) <= Limit /\ EndOf(h.segs[1]) \in Int /\ Limit \in Int
    BY <1>1, <1>3, SegTypes, Places DEF Segments
  <2>3. ASSUME NEW i \in Segs(h) \ {1}
        PROVE  end + TopFoot <= h.segs[i].base \/ EndOf(h.segs[i]) <= h.segs[1].base
    <3>1. EndOf(h.segs[1]) <= h.segs[i].base \/ EndOf(h.segs[i]) <= h.segs[1].base
      BY <1>1, <1>3 DEF Segments
    <3>2. h.segs[i].base \in Int
      BY <1>1, SegTypes
    <3> QED
      BY <2>1, <2>2, <3>1, <3>2
  <2> QED
    BY <2>1, <2>2, <2>3 DEF RoomForTop
<1>16. Sound(g, U, X) /\ SameSizes(h, g, U)
  BY <1>2, <1>14, <1>15, MovedSound
<1>17. Ledger(h, g)
  <2>1. h.footprint \in Int /\ h.max_footprint \in Int /\ g.footprint = h.footprint - extra
        /\ g.max_footprint = h.max_footprint /\ g.footprint_limit = h.footprint_limit
    BY <1>1, <1>7, <1>11, <1>13 DEF HeapSet
  <2>2. ASSUME Accounts(h)
        PROVE  Accounts(g)
    <3>1. PICK f : SumsTo(f, h.segs, h.footprint)
      BY <2>2 DEF Accounts
    <3>2. g.segs \in Seq(SegSet) /\ Len(g.segs) = Len(h.segs) /\ 1 \in 1 .. Len(h.segs) /\ 0 - extra \in Int
      BY <1>3, <1>7, <1>11, <1>13 DEF Segs
    <3>3. \A i \in 1 .. Len(h.segs) : g.segs[i].size = IF i = 1 THEN h.segs[i].size + (0 - extra) ELSE h.segs[i].size
      BY <1>4, <1>7, <1>11, <1>13 DEF z, Segs
    <3>4. \E e : SumsTo(e, g.segs, h.footprint + (0 - extra))
      BY <1>1, <3>1, <3>2, <3>3, SumChanged
    <3>5. h.footprint + (0 - extra) = g.footprint
      BY <2>1
    <3>6. h.footprint <= h.max_footprint
      BY <2>2 DEF Accounts
    <3>7. g.footprint <= g.max_footprint
      BY <1>3, <2>1, <3>6
    <3> QED
      BY <3>4, <3>5, <3>7 DEF Accounts
  <2>3. g.footprint <= h.footprint /\ g.footprint \in Int
    BY <1>3, <2>1
  <2> QED
    BY <2>1, <2>2, <2>3 DEF Ledger
<1> QED
  BY <1>13, <1>16, <1>17 DEF Trimmed, SoundIn, n

LEMMA TrimmedSame ==
  ASSUME NEW h, NEW U, NEW X, Sound(h, U, X)
  PROVE  Trimmed(h, h, U, X)
<1>1. h \in HeapSet
  BY DEF Sound, Memory
<1>2. Ledger(h, h)
  BY <1>1, LedgerParts
<1> QED
  BY <1>2 DEF Trimmed, SoundIn, SameSizes

\* How much of top goes.
LEMMA ExtraPart ==
  ASSUME NEW size \in Nat, size > 5, NEW k, k = (size - 5 + Granularity - 1) \div Granularity - 1, k * Granularity # 0
  PROVE  /\ k * Granularity \in Int /\ Granularity <= k * Granularity /\ k * Granularity < size
<1> DEFINE x == size - 5 + Granularity - 1
           j == x \div Granularity
<1>1. Granularity \in Nat /\ Granularity > 7
  BY GranularityAssumption DEF TopFoot, SegRecord, MinChunk
<1>2. x \in Nat /\ x >= Granularity
  BY <1>1
<1>3. x < size + Granularity
  BY <1>1
<1> HIDE DEF x
<1>4. j \in Nat /\ j * Granularity \in Nat /\ j * Granularity <= x /\ x < j * Granularity + Granularity
  BY <1>1, <1>2, Divided
<1>5. k = j - 1
  BY DEF x
<1> HIDE DEF j
<1>6. j # 0
  BY <1>1, <1>2, <1>4
<1>7. k \in Nat
  BY <1>4, <1>5, <1>6
<1>8. k * Granularity = j * Granularity - Granularity
  BY <1>1, <1>4, <1>5
<1>9. k # 0
  BY <1>1
<1>10. \E m \in Nat : k = m + 1
  <2>1. \A z \in Nat : z # 0 => \E m \in Nat : z = m + 1
    <3>1. \A z \in Nat : z # 0 => z - 1 \in Nat /\ z = (z - 1) + 1
      OBVIOUS
    <3> QED
      BY <3>1
  <2> QED
    BY <1>7, <1>9, <2>1, Zenon
<1>11. PICK m \in Nat : k = m + 1
  BY <1>10
<1>12. k * Granularity = m * Granularity + Granularity /\ m * Granularity \in Nat
  BY <1>1, <1>11
<1> QED
  BY <1>1, <1>2, <1>3, <1>4, <1>7, <1>8, <1>12

\* sys_trim with no pad: what it does to the top chunk, and what it ends with.
TopTrimmed(h, canUnmap) ==
    IF /\ h.topsize > 5 /\ Extra(h, 5) # 0 /\ canUnmap
       /\ h.segs[1].size >= Extra(h, 5) /\ ~has_segment_link(h, h.segs[1])
    THEN Shrunk(h, Extra(h, 5)) ELSE h

AllTrimmed(h, trimmed) ==
    IF trimmed.footprint = h.footprint /\ trimmed.topsize > trimmed.trim_check
    THEN [trimmed EXCEPT !.trim_check = MaxSize] ELSE trimmed

LEMMA SysTrimSteps ==
  ASSUME NEW h, is_initialized(h), segment_holding(h, h.top) = 1, NEW canUnmap
  PROVE  sys_trim(h, 0, canUnmap) =
             AllTrimmed(h, release_unused_segments(TopTrimmed(h, canUnmap), canUnmap))
<1> DEFINE shrunk(keep, top) ==
             IF /\ h.topsize > keep /\ Extra(h, keep) # 0 /\ canUnmap
                /\ h.segs[top].size >= Extra(h, keep) /\ ~has_segment_link(h, h.segs[top])
             THEN init_top([unmap(h, EndOf(h.segs[top]) - Extra(h, keep), Extra(h, keep))
                              EXCEPT !.segs[top].size = @ - Extra(h, keep)],
                           h.top, h.topsize - Extra(h, keep))
             ELSE h
           before == shrunk(0 + TopFoot, segment_holding(h, h.top))
<1>1. sys_trim(h, 0, canUnmap) = AllTrimmed(h, release_unused_segments(before, canUnmap))
  BY Zenon DEF sys_trim, AllTrimmed
<1>2. 0 + TopFoot = 5
  BY FixedHeads
<1>3. shrunk(5, 1) = TopTrimmed(h, canUnmap)
  BY Zenon DEF TopTrimmed, Shrunk
<1> HIDE DEF shrunk
<1> QED
  BY <1>1, <1>2, <1>3

LEMMA SysTrimmed ==
  ASSUME NEW h, NEW U, NEW X, Sound(h, U, X), NEW canUnmap, NEW g, g = sys_trim(h, 0, canUnmap)
  PROVE  Trimmed(h, g, U, X)
<1>1. Memory(h, X) /\ h \in HeapSet /\ TopIn(h)
  BY DEF Sound, Memory
<1>2. CASE ~is_initialized(h)
  BY <1>2, TrimmedSame DEF sys_trim
<1>3. CASE is_initialized(h)
  <2>1. h.segs # <<>>
    BY <1>1, <1>3 DEF is_initialized, TopIn
  <2>2. segment_holding(h, h.top) = 1
    BY <1>1, <2>1, HoldsTop, Zenon
  <2> DEFINE extra == Extra(h, 5)
             shrink == /\ h.topsize > 5 /\ extra # 0 /\ canUnmap
                       /\ h.segs[1].size >= extra /\ ~has_segment_link(h, h.segs[1])
             shrunk == IF shrink THEN Shrunk(h, extra) ELSE h
             trimmed == release_unused_segments(shrunk, canUnmap)
  <2>3. g = IF trimmed.footprint = h.footprint /\ trimmed.topsize > trimmed.trim_check
            THEN [trimmed EXCEPT !.trim_check = MaxSize] ELSE trimmed
    <3>1. shrunk = TopTrimmed(h, canUnmap)
      BY DEF TopTrimmed
    <3> HIDE DEF shrunk
    <3>2. g = AllTrimmed(h, trimmed)
      BY <1>3, <2>2, <3>1, SysTrimSteps
    <3> HIDE DEF trimmed
    <3> QED
      BY <3>2 DEF AllTrimmed
  <2>4. TopAt(h, h.top + h.topsize)
    BY <1>1, <2>1, TopChunk
  <2>5. h.topsize \in Nat
    BY <2>4 DEF TopAt
  <2>6. Trimmed(h, shrunk, U, X)
    <3>1. CASE shrink
      <4>1. extra = ((h.topsize - 5 + Granularity - 1) \div Granularity - 1) * Granularity
        BY DEF Extra
      <4>2. extra \in Int /\ Granularity <= extra /\ extra < h.topsize
        BY <2>5, <3>1, <4>1, ExtraPart
      <4> HIDE DEF extra
      <4>3. Trimmed(h, Shrunk(h, extra), U, X)
        BY <2>1, <4>2, TopShrunk
      <4> QED
        BY <3>1, <4>3
    <3>2. CASE ~shrink
      BY <3>2, TrimmedSame
    <3> QED
      BY <3>1, <3>2
  <2> HIDE DEF shrunk
  <2>7. PICK Y : Y \subseteq X /\ Sound(shrunk, U, Y)
    BY <2>6 DEF Trimmed, SoundIn
  <2>8. Trimmed(shrunk, trimmed, U, Y)
    BY <2>7, SegmentsReleased
  <2>9. Trimmed(h, trimmed, U, X)
    BY <1>1, <2>6, <2>7, <2>8, TrimmedSteps
  <2> HIDE DEF trimmed
  <2>10. CASE g = trimmed
    BY <2>9, <2>10
  <2>11. CASE g = [trimmed EXCEPT !.trim_check = MaxSize]
    <3>1. PICK Z : Z \subseteq X /\ Sound(trimmed, U, Z)
      BY <2>9 DEF Trimmed, SoundIn
    <3>2. trimmed \in HeapSet
      BY <3>1 DEF Sound, Memory
    <3>3. MaxSize \in Int
      BY Places DEF MaxSize, Limit
    <3>4. SameParts(g, trimmed)
      BY <2>11, <3>2, <3>3 DEF HeapSet, SameParts, SameChunks, SameTop, SameVictim
    <3>5. Sound(g, U, Z) /\ SameSizes(trimmed, g, U)
      BY <3>1, <3>4, SamePartsSound
    <3>6. Ledger(trimmed, g)
      BY <2>11, <3>2, LedgerParts DEF HeapSet
    <3>7. Trimmed(trimmed, g, U, Z)
      BY <3>5, <3>6 DEF Trimmed, SoundIn
    <3> QED
      BY <1>1, <2>9, <3>1, <3>7, TrimmedSteps
  <2> QED
    BY <2>3, <2>10, <2>11
<1> QED
  BY <1>2, <1>3

----------------------------------------------------------------------------
(* free.                                                                   *)

LEMMA FreedByUser ==
  ASSUME NEW h, NEW U, NEW X, Sound(h, U, X), NEW p \in U, NEW canUnmap, NEW g, g = dlfree(h, p, canUnmap)
  PROVE  Trimmed(h, g, U \ {p}, X \ {Past(h, p)})
<1> DEFINE V == U \ {p}
           Y == X \ {Past(h, p)}
           done == consolidate(h, p, Size(h, p))
           k == done.heap
           counted == [k EXCEPT !.release_checks = @ - 1]
<1>1. h \in HeapSet
  BY DEF Sound, Memory
<1>2. ok_address(h, p) /\ is_inuse(h, p) /\ h.head[p + h.head[p].size].pinuse
  BY UsedOk DEF Past
<1>3. Require(h, ok_address(h, p) /\ is_inuse(h, p) /\ h.head[p + h.head[p].size].pinuse) = h
  BY <1>2, SMTT(60) DEF Require
<1>4. \/ g = k
      \/ g = sys_trim(k, 0, canUnmap)
      \/ g = counted
      \/ g = release_unused_segments(counted, canUnmap)
  BY <1>3 DEF dlfree, Size
<1>5. Sound(k, V, Y) /\ SameSizes(h, k, V) /\ SameSystem(k, h)
  BY Consolidated
<1> HIDE DEF V, Y, done, k
<1>6. k \in HeapSet
  BY <1>5 DEF Sound, Memory
<1>7. Ledger(h, k)
  BY <1>1, <1>5, LedgerSame
<1>8. Trimmed(h, k, V, Y)
  BY <1>5, <1>7 DEF Trimmed, SoundIn
<1>9. SameParts(counted, k)
  <2>1. k.release_checks - 1 \in Int
    BY <1>6 DEF HeapSet
  <2> QED
    BY <1>6, <2>1 DEF HeapSet, SameParts, SameChunks, SameTop, SameVictim
<1>10. Ledger(k, counted)
  <2>1. /\ counted.segs = k.segs /\ counted.footprint = k.footprint /\ counted.max_footprint = k.max_footprint
        /\ counted.footprint_limit = k.footprint_limit
    BY <1>6 DEF HeapSet
  <2> HIDE DEF counted
  <2> QED
    BY <1>6, <2>1, LedgerParts
<1> HIDE DEF counted
<1>11. Sound(counted, V, Y) /\ SameSizes(k, counted, V)
  BY <1>5, <1>9, SamePartsSound
<1>12. Trimmed(k, counted, V, Y)
  BY <1>10, <1>11 DEF Trimmed, SoundIn
<1>13. Trimmed(h, counted, V, Y)
  BY <1>1, <1>8, <1>12, TrimmedSteps
<1>14. CASE g = sys_trim(k, 0, canUnmap)
  <2>1. Trimmed(k, g, V, Y)
    BY <1>5, <1>14, SysTrimmed
  <2> QED
    BY <1>1, <1>8, <2>1, TrimmedSteps DEF V, Y
<1>15. CASE g = release_unused_segments(counted, canUnmap)
  <2>1. Trimmed(counted, g, V, Y)
    BY <1>11, <1>15, SegmentsReleased
  <2> QED
    BY <1>1, <1>13, <2>1, TrimmedSteps DEF V, Y
<1> QED
  BY <1>4, <1>8, <1>13, <1>14, <1>15 DEF V, Y

----------------------------------------------------------------------------
(* Memory from the system.                                                 *)

\* A place for a segment: in the address space, apart from all others.
PlacedAt(h, b, z) ==
    /\ b \in Int /\ z \in Int /\ b >= Granularity /\ b + z <= Limit
    /\ \A i \in Segs(h) : b + z <= h.segs[i].base \/ EndOf(h.segs[i]) <= b

LEMMA AskedFor ==
  ASSUME NEW nb \in Int, 2 <= nb
  PROVE  asize(nb) \in Int /\ nb + 6 <= asize(nb)
<1> DEFINE x == nb + 6 + Granularity - 1
           j == x \div Granularity
<1>1. Granularity \in Nat /\ Granularity > 0
  BY GranularityAssumption DEF TopFoot, SegRecord, MinChunk
<1>2. asize(nb) = j * Granularity
  BY DEF asize, granularity_align, TopFoot, SegRecord, MinChunk
<1>3. x \in Nat /\ x = nb + 6 + Granularity - 1
  BY <1>1
<1> HIDE DEF x
<1>4. j * Granularity \in Nat /\ x < j * Granularity + Granularity
  BY <1>1, <1>3, Divided
<1> DEFINE y == j * Granularity
<1> HIDE DEF j
<1>5. y \in Nat /\ x < y + Granularity
  BY <1>4
<1> HIDE DEF y
<1>6. nb + 6 <= y
  BY <1>1, <1>3, <1>5
<1> QED
  BY <1>2, <1>5, <1>6 DEF y

LEMMA PlaceOf ==
  ASSUME NEW h, NEW z \in Int, NEW b \in Placements(h, z)
  PROVE  PlacedAt(h, b, z) /\ b # Null
<1>1. Granularity \in Nat /\ Granularity > 0 /\ Regions \in Nat
  BY GranularityAssumption, RegionsAssumption DEF TopFoot, SegRecord, MinChunk
<1>2. PICK u \in 1 .. Regions : b = u * Granularity
  BY DEF Placements
<1>3. u \in Nat /\ u >= 1
  BY <1>1
<1>4. \E m \in Nat : u = m + 1
  <2>1. u - 1 \in Nat /\ u = (u - 1) + 1
    BY <1>3
  <2> QED
    BY <2>1
<1>5. PICK m \in Nat : u = m + 1
  BY <1>4
<1>6. b = m * Granularity + Granularity /\ m * Granularity \in Nat
  BY <1>1, <1>2, <1>5
<1>7. b \in Int /\ b >= Granularity
  BY <1>1, <1>6
<1>8. b + z <= Limit /\ \A i \in Segs(h) : b + z <= h.segs[i].base \/ EndOf(h.segs[i]) <= b
  BY DEF Placements, Limit
<1> QED
  BY <1>1, <1>7, <1>8 DEF PlacedAt, Null

\* A segment in front of all others in the list.
LEMMA SumPrepended ==
  ASSUME NEW segs \in Seq(SegSet), NEW other \in Seq(SegSet), Len(other) = Len(segs) + 1,
         \A k \in 1 .. Len(segs) : other[k + 1].size = segs[k].size,
         NEW f, NEW total, SumsTo(f, segs, total)
  PROVE  \E e : SumsTo(e, other, total + other[1].size)
<1> DEFINE n == Len(segs)
           d == other[1].size
           e == [k \in 0 .. n + 1 |-> IF k = 0 THEN 0 ELSE f[k - 1] + d]
<1>1. n \in Nat /\ Len(other) = n + 1
  BY LenProperties
<1>2. f \in [0 .. n -> Int] /\ f[0] = 0 /\ total = f[n] /\ \A k \in 1 .. n : f[k] = f[k - 1] + segs[k].size
  BY DEF SumsTo
<1>3. d \in Int
  <2>1. other[1] \in SegSet
    BY <1>1, ElementOfSeq
  <2> QED
    BY <2>1 DEF SegSet
<1>4. \A k \in 1 .. n : other[k + 1].size = segs[k].size /\ segs[k].size \in Int
  <2>1. \A k \in 1 .. n : segs[k] \in SegSet
    BY ElementOfSeq
  <2> QED
    BY <2>1 DEF SegSet
<1> HIDE DEF n
<1>5. \A k \in 0 .. n + 1 : e[k] = IF k = 0 THEN 0 ELSE f[k - 1] + d
  OBVIOUS
<1>6. e \in [0 .. n + 1 -> Int]
  <2>1. \A k \in 0 .. n + 1 : k # 0 => k - 1 \in 0 .. n
    BY <1>1
  <2> QED
    BY <1>2, <1>3, <2>1
<1> HIDE DEF e
<1>7. e[0] = 0 /\ e[n + 1] = total + d
  BY <1>1, <1>2, <1>5
<1>8. ASSUME NEW k \in 1 .. n + 1
      PROVE  e[k] = e[k - 1] + other[k].size
  <2>1. k \in 0 .. n + 1 /\ k - 1 \in 0 .. n + 1 /\ k \in Int /\ k # 0
    BY <1>1
  <2>2. e[k] = f[k - 1] + d
    BY <1>5, <2>1
  <2>3. CASE k = 1
    <3>1. e[k - 1] = 0 /\ f[k - 1] = 0
      BY <1>2, <1>7, <2>3
    <3> QED
      BY <1>3, <2>2, <2>3, <3>1 DEF d
  <2>4. CASE k # 1
    <3> DEFINE j == k - 1
    <3>1. j \in 1 .. n /\ j \in Int /\ k = j + 1 /\ j - 1 \in 0 .. n /\ j \in 0 .. n
      BY <1>1, <2>1, <2>4
    <3> HIDE DEF j
    <3>2. e[j] = f[j - 1] + d
      BY <1>5, <2>1, <3>1
    <3>3. f[j] = f[j - 1] + segs[j].size /\ other[j + 1].size = segs[j].size /\ segs[j].size \in Int
      BY <1>2, <1>4, <3>1
    <3>4. f[j - 1] \in Int /\ f[j] \in Int
      BY <1>2, <3>1
    <3>5. k - 1 = j
      BY <3>1
    <3> QED
      BY <1>3, <2>2, <3>1, <3>2, <3>3, <3>4, <3>5
  <2> QED
    BY <2>3, <2>4
<1>9. SumsTo(e, other, total + d)
  BY <1>1, <1>6, <1>7, <1>8 DEF SumsTo
<1> QED
  BY <1>9 DEF d

\* The footprint has grown by z, and the segments with it.
GrownBy(h, g, z) ==
    /\ g.footprint = h.footprint + z /\ g.max_footprint = Larger(h.max_footprint, h.footprint + z)
    /\ g.footprint_limit = h.footprint_limit

SumGrows(h, g, z) == \A f : SumsTo(f, h.segs, h.footprint) => \E e : SumsTo(e, g.segs, h.footprint + z)

LEMMA GrownLedger ==
  ASSUME NEW h \in HeapSet, NEW g, NEW z \in Int, WithinLimit(h, z), GrownBy(h, g, z), SumGrows(h, g, z)
  PROVE  Ledger(h, g)
<1>1. h.footprint \in Int /\ h.max_footprint \in Int /\ h.footprint_limit \in Int
  BY DEF HeapSet
<1>2. g.footprint = h.footprint + z /\ g.max_footprint = Larger(h.max_footprint, h.footprint + z)
      /\ g.footprint_limit = h.footprint_limit
  BY DEF GrownBy
<1>3. h.footprint_limit = 0 \/ g.footprint <= h.footprint_limit
  BY <1>2 DEF WithinLimit
<1>4. g.footprint <= g.max_footprint
  BY <1>1, <1>2 DEF Larger
<1>5. Accounts(h) => Accounts(g)
  BY <1>2, <1>4 DEF SumGrows, Accounts
<1> QED
  BY <1>1, <1>2, <1>3, <1>5 DEF Ledger

\* What an allocation that may ask the system promises.
Provided(h, r, U, nb) == Malloced(h, r, U, nb) /\ Ledger(h, r.heap)

\* From a heap g that has grown to have enough top space.
LEMMA FromNewTop ==
  ASSUME NEW h \in HeapSet, NEW U, NEW g, Sound(g, U, {}), SameSizes(h, g, U), Ledger(h, g), g.top # Null,
         NEW nb \in Int, 2 <= nb, nb < g.topsize, NEW r, r = split_top(g, nb)
  PROVE  Provided(h, r, U, nb)
<1>1. is_initialized(g) /\ g \in HeapSet
  BY DEF is_initialized, Sound, Memory
<1>2. Allocated(g, r, U, nb) /\ SameSystem(r.heap, g)
  BY <1>1, SplitTop
<1>3. r.heap \in HeapSet
  BY <1>2 DEF Allocated, Sound, Memory
<1>4. Ledger(g, r.heap)
  BY <1>1, <1>2, LedgerSame
<1>5. Ledger(h, r.heap)
  BY <1>1, <1>4, LedgerSteps
<1>6. SameSizes(h, r.heap, U)
  BY <1>2 DEF Allocated, SameSizes
<1>7. Allocated(h, r, U, nb)
  BY <1>2, <1>6 DEF Allocated
<1>8. Malloced(h, r, U, nb)
  BY <1>7 DEF Malloced, Allocated
<1> QED
  BY <1>5, <1>8 DEF Provided

\* An empty heap.
LEMMA NoSegments ==
  ASSUME NEW h, NEW U, Sound(h, U, {}), ~is_initialized(h)
  PROVE  /\ h.segs = <<>> /\ U = {} /\ h.dv = Null /\ h.dvsize = 0
         /\ \A a \in Addr : h.head[a] = Blank /\ h.foot[a] = 0
         /\ \A s \in Sizes : \A a : ~InBin(h, s, a)
         /\ BinsOnce(h)
<1>1. Memory(h, {}) /\ Users(h, U) /\ Victim(h) /\ Bins(h)
  BY DEF Sound
<1>2. Tiles(h) /\ FeetIn(h, {}) /\ TopIn(h)
  BY <1>1 DEF Memory
<1>3. h.segs = <<>>
  <2> SUFFICES ASSUME h.segs # <<>>
               PROVE  FALSE
    OBVIOUS
  <2>1. IsFree(h, h.top)
    BY <1>2 DEF TopIn
  <2>2. h.top # Null
    BY <1>1, <2>1, ChunkIsHeader, HeaderPlace DEF IsChunk
  <2> QED
    BY <2>2 DEF is_initialized
<1>4. ASSUME NEW a \in Addr
      PROVE  h.head[a] = Blank
  <2>1. Segs(h) = {}
    BY <1>3 DEF Segs
  <2> QED
    BY <1>2, <2>1 DEF Tiles, IsHeader
<1>5. \A a : ~IsUsed(h, a) /\ ~IsFree(h, a)
  BY <1>4, FixedHeads DEF IsUsed, IsFree
<1>6. \A a \in Addr : h.foot[a] = 0
  BY <1>2, <1>4, FixedHeads DEF FeetIn
<1>7. U = {}
  BY <1>1, <1>5 DEF Users
<1>8. h.dv = Null /\ h.dvsize = 0
  BY <1>1, <1>5 DEF Victim
<1>9. \A s \in Sizes : \A a : ~InBin(h, s, a)
  BY <1>1, <1>5 DEF Bins
<1> QED
  BY <1>1, <1>3, <1>4, <1>6, <1>7, <1>8, <1>9 DEF Bins

\* A heap of one segment, from b to b + z, which is all top.
OneTop(g, b, z, n) ==
    /\ g \in HeapSet /\ Len(g.segs) = 1 /\ g.segs[1].base = b /\ g.segs[1].size = z /\ g.segs[1].rec = Null
    /\ g.least_addr = b /\ g.dv = Null /\ g.dvsize = 0 /\ g.aborted = FALSE
    /\ BinsOnce(g) /\ (\A s \in Sizes : \A a : ~InBin(g, s, a))
    /\ n \in Int /\ n > 0 /\ z = n + TopFoot /\ b \in Int /\ b >= Granularity /\ b + z <= Limit
    /\ g.top = b /\ g.topsize = n
    /\ \A a \in Addr : /\ g.head[a] = IF a = b THEN FreeHead(n) ELSE IF a = b + n THEN FakeHead ELSE Blank
                       /\ g.foot[a] = 0

LEMMA OneTopSound ==
  ASSUME NEW g, NEW b, NEW z, NEW n, OneTop(g, b, z, n)
  PROVE  Sound(g, {}, {})
<1> DEFINE e == b + n
<1>1. /\ g \in HeapSet /\ g.segs \in Seq(SegSet) /\ Segs(g) = {1} /\ g.segs # <<>> /\ 1 \in Segs(g)
      /\ g.segs[1].base = b /\ g.segs[1].size = z /\ g.segs[1].rec = Null /\ EndOf(g.segs[1]) = b + z
  BY LenProperties DEF OneTop, HeapSet, Segs, EndOf
<1>2. /\ g.least_addr = b /\ g.dv = Null /\ g.dvsize = 0 /\ g.aborted = FALSE
      /\ BinsOnce(g) /\ (\A s \in Sizes : \A a : ~InBin(g, s, a)) /\ g.top = b /\ g.topsize = n
      /\ n \in Int /\ n > 0 /\ b \in Int /\ b >= Granularity /\ b + z <= Limit /\ z = n + 5
      /\ Granularity \in Int /\ Limit \in Int /\ Granularity > 7 /\ Addr = 0 .. Limit /\ TopFoot = 5
  BY Places, FixedHeads DEF OneTop
<1>3. /\ e \in Int /\ b < e /\ e + 5 = b + z /\ e \in Addr /\ b \in Addr /\ b # Null /\ e # Null
  BY <1>2 DEF Null
<1>4. /\ \A a \in Addr : g.head[a] = IF a = b THEN FreeHead(n) ELSE IF a = e THEN FakeHead ELSE Blank
      /\ \A a \in Addr : g.foot[a] = 0
  BY DEF OneTop
<1> HIDE DEF e
<1>5. /\ g.head[b] = FreeHead(n) /\ g.head[e] = FakeHead /\ FreeHead(n).size = n /\ ~FreeHead(n).cinuse
      /\ FreeHead(n).pinuse /\ FreeHead(n) # Blank /\ FreeHead(n) # FakeHead
      /\ FakeHead # Blank /\ FakeHead # Fence
  <2>1. FreeHead(n).size = n /\ FreeHead(n).cinuse = FALSE /\ FreeHead(n).pinuse = TRUE
    BY DEF FreeHead
  <2>2. g.head[b] = FreeHead(n) /\ g.head[e] = FakeHead
    BY <1>2, <1>3, <1>4
  <2>3. FakeHead # Blank /\ FakeHead # Fence
    BY FixedHeads
  <2>4. FreeHead(n) # Blank /\ FreeHead(n) # FakeHead
    BY <2>1, FixedHeads
  <2> QED
    BY <2>1, <2>2, <2>3, <2>4
<1>6. \A a : /\ IsHeader(g, a) <=> a = b \/ a = e
             /\ IsChunk(g, a) <=> a = b
             /\ IsFree(g, a) <=> a = b
             /\ ~IsUsed(g, a)
  BY <1>2, <1>3, <1>4, <1>5, FixedHeads DEF IsHeader, IsChunk, IsFree, IsUsed
<1>7. InSeg(g, 1, b) /\ InSeg(g, 1, e)
  BY <1>1, <1>2, <1>3 DEF InSeg, segment_holds
<1>8. Size(g, b) = n /\ Past(g, b) = e
  BY <1>5 DEF Size, Past, e
<1>9. Segments(g)
  <2>1. b \in Int /\ z > 0 /\ Limit \in Int
    BY <1>2
  <2> QED
    BY <1>1, <1>2, <1>6, <2>1 DEF Segments
<1>10. Kinds(g)
  <2>1. ASSUME NEW a \in Addr, ~g.head[a].cinuse, ~g.head[a].pinuse, g.head[a] # Blank
        PROVE  g.head[a] = FakeHead /\ g.top # Null /\ a = g.top + g.topsize
    BY <1>2, <1>3, <1>4, <1>5, <2>1 DEF e
  <2> QED
    BY <1>2, <1>6, <1>8, <2>1 DEF Kinds
<1>11. Tiles(g)
  BY <1>1, <1>3, <1>6, <1>7, <1>8 DEF Tiles
<1>12. TagsAgree(g)
  BY <1>2, <1>4, <1>5, <1>6, <1>8, FixedHeads DEF TagsAgree
<1>13. FeetIn(g, {})
  BY <1>4 DEF FeetIn
<1>14. TopIn(g)
  <2>1. g.top + g.topsize = e /\ EndOf(g.segs[1]) - TopFoot = e
    BY <1>1, <1>2, <1>3 DEF e
  <2> QED
    BY <1>1, <1>2, <1>5, <1>6, <1>7, <1>8, <2>1 DEF TopIn
<1>15. Records(g)
  BY <1>1 DEF Records
<1>16. Users(g, {})
  BY <1>1, <1>6 DEF Users, IsRecord
<1>17. Victim(g)
  BY <1>2 DEF Victim
<1>18. Bins(g)
  BY <1>2, <1>6 DEF Bins
<1> QED
  BY <1>1, <1>2, <1>9, <1>10, <1>11, <1>12, <1>13, <1>14, <1>15, <1>16, <1>17, <1>18 DEF Sound, Memory

\* The parts of sys_alloc.
Take(g, nb) == IF nb < g.topsize THEN split_top(g, nb) ELSE Returns(g, Null)

Got(h, z) == [h EXCEPT !.footprint = @ + z, !.max_footprint = Larger(@, h.footprint + z)]

OneSeg(h, b, z) == [h EXCEPT !.least_addr = b, !.segs = <<[base |-> b, size |-> z, rec |-> Null]>>,
                             !.release_checks = ReleaseRate]

Longer(h, i, z) == [h EXCEPT !.segs[i].size = @ + z]

Lower(h, i, b, z) == [h EXCEPT !.segs[i].base = b, !.segs[i].size = @ + z]

SegBehind(h, b) == FirstSeg({i \in Segs(h) : EndOf(h.segs[i]) = b})

SegAt(h, b) == FirstSeg({i \in Segs(h) : h.segs[i].base = b})

LEMMA SysAllocCases ==
  ASSUME NEW h, NEW nb, NEW b, NEW z, z = asize(nb)
  PROVE  sys_alloc(h, nb, b)
         = IF b = Null \/ ~WithinLimit(h, z) THEN Returns(h, Null)
           ELSE IF ~is_initialized(h)
           THEN Take(init_top(OneSeg(Got(h, z), b, z), b, z - TopFoot), nb)
           ELSE IF SegBehind(h, b) # 0 /\ segment_holds(h.segs[SegBehind(h, b)], h.top)
           THEN Take(init_top(Longer(erase(Got(h, z), h.top + h.topsize), SegBehind(h, b), z), h.top, h.topsize + z), nb)
           ELSE IF SegAt(h, b + z) # 0
           THEN prepend_alloc(Lower(lower_least_addr(Got(h, z), b), SegAt(h, b + z), b, z), b, b + z, nb)
           ELSE Take(add_segment(lower_least_addr(Got(h, z), b), b, z), nb)
  BY DEF sys_alloc, Take, Got, OneSeg, Longer, Lower, SegBehind, SegAt

\* The footprint counts a region of size z.
GotStep(h, g, z) ==
    /\ g \in HeapSet /\ g.head = h.head /\ g.foot = h.foot /\ g.bin = h.bin /\ SameVictim(g, h) /\ SameTop(g, h)
    /\ g.aborted = h.aborted /\ g.segs = h.segs
    /\ g.footprint = h.footprint + z /\ g.max_footprint = Larger(h.max_footprint, h.footprint + z)
    /\ g.footprint_limit = h.footprint_limit

LEMMA GotFields ==
  ASSUME NEW h \in HeapSet, NEW z \in Int
  PROVE  GotStep(h, Got(h, z), z) /\ Got(h, z).least_addr = h.least_addr
<1>1. h.footprint + z \in Int /\ Larger(h.max_footprint, h.footprint + z) \in Int
  BY DEF HeapSet, Larger
<1> DEFINE f == h.footprint + z
           m == Larger(h.max_footprint, f)
           g == [h EXCEPT !.footprint = f, !.max_footprint = m]
<1>2. Got(h, z) = g
  BY DEF Got, HeapSet
<1>3. f \in Int /\ m \in Int
  BY <1>1
<1> HIDE DEF f, m
<1>4. /\ g \in HeapSet /\ g.head = h.head /\ g.foot = h.foot /\ g.bin = h.bin /\ SameVictim(g, h) /\ SameTop(g, h)
      /\ g.aborted = h.aborted /\ g.segs = h.segs /\ g.footprint = f /\ g.max_footprint = m
      /\ g.footprint_limit = h.footprint_limit /\ g.least_addr = h.least_addr
  BY <1>3 DEF HeapSet, SameVictim, SameTop
<1> QED
  BY <1>2, <1>4 DEF GotStep, f, m

LEMMA LowerLeast ==
  ASSUME NEW h \in HeapSet, NEW z \in Int, NEW b \in Int, NEW g, g = lower_least_addr(Got(h, z), b)
  PROVE  GotStep(h, g, z) /\ g.least_addr \in Int /\ g.least_addr <= h.least_addr /\ g.least_addr <= b
<1> DEFINE k == Got(h, z)
           l == IF b < h.least_addr THEN b ELSE h.least_addr
<1>1. GotStep(h, k, z) /\ k.least_addr = h.least_addr /\ h.least_addr \in Int
  BY GotFields DEF HeapSet
<1>2. k \in HeapSet
  BY <1>1 DEF GotStep
<1>3. g = [k EXCEPT !.least_addr = IF b < @ THEN b ELSE @]
  BY DEF lower_least_addr
<1> HIDE DEF k
<1>4. g = [k EXCEPT !.least_addr = l]
  BY <1>1, <1>2, <1>3 DEF HeapSet
<1>5. l \in Int /\ l <= h.least_addr /\ l <= b
  BY <1>1
<1> HIDE DEF l
<1>6. /\ g \in HeapSet /\ g.head = k.head /\ g.foot = k.foot /\ g.bin = k.bin /\ SameVictim(g, k) /\ SameTop(g, k)
      /\ g.aborted = k.aborted /\ g.segs = k.segs /\ g.footprint = k.footprint /\ g.max_footprint = k.max_footprint
      /\ g.footprint_limit = k.footprint_limit /\ g.least_addr = l
  BY <1>2, <1>4, <1>5 DEF HeapSet, SameVictim, SameTop
<1> QED
  BY <1>1, <1>5, <1>6 DEF GotStep, SameVictim, SameTop

LEMMA OneSegFields ==
  ASSUME NEW h \in HeapSet, NEW b \in Int, NEW z \in Int, NEW g, g = OneSeg(h, b, z)
  PROVE  /\ g \in HeapSet /\ g.head = h.head /\ g.foot = h.foot /\ g.bin = h.bin /\ SameVictim(g, h) /\ SameTop(g, h)
         /\ g.aborted = h.aborted /\ g.footprint = h.footprint /\ g.max_footprint = h.max_footprint
         /\ g.footprint_limit = h.footprint_limit /\ g.least_addr = b
         /\ Len(g.segs) = 1 /\ g.segs[1].base = b /\ g.segs[1].size = z /\ g.segs[1].rec = Null
<1> DEFINE s == [base |-> b, size |-> z, rec |-> Null]
           list == <<s>>
<1>1. s \in SegSet /\ s.base = b /\ s.size = z /\ s.rec = Null
  BY DEF SegSet, Null
<1> HIDE DEF s
<1>2. list \in Seq(SegSet) /\ Len(list) = 1 /\ list[1] = s
  BY <1>1
<1>3. ReleaseRate \in Int
  BY RateAssumption
<1>4. g = [h EXCEPT !.least_addr = b, !.segs = list, !.release_checks = ReleaseRate]
  BY DEF OneSeg, s
<1> HIDE DEF list
<1>5. /\ g \in HeapSet /\ g.head = h.head /\ g.foot = h.foot /\ g.bin = h.bin /\ SameVictim(g, h) /\ SameTop(g, h)
      /\ g.aborted = h.aborted /\ g.footprint = h.footprint /\ g.max_footprint = h.max_footprint
      /\ g.footprint_limit = h.footprint_limit /\ g.least_addr = b /\ g.segs = list
  BY <1>2, <1>3, <1>4, ZenonT(60) DEF HeapSet, SameVictim, SameTop
<1> QED
  BY <1>1, <1>2, <1>5

\* Enough of a region has been asked for.
LEMMA TakesTop ==
  ASSUME NEW h \in HeapSet, NEW U, NEW g, Sound(g, U, {}), SameSizes(h, g, U), Ledger(h, g), g.top # Null,
         NEW nb \in Int, 2 <= nb, nb < g.topsize
  PROVE  Provided(h, Take(g, nb), U, nb)
  BY FromNewTop DEF Take

\* The first region.
LEMMA FirstRegion ==
  ASSUME NEW h, NEW U, Sound(h, U, {}), ~is_initialized(h), NEW nb \in Int, 2 <= nb, NEW z, z = asize(nb),
         NEW b, PlacedAt(h, b, z), b # Null, WithinLimit(h, z),
         NEW g, g = init_top(OneSeg(Got(h, z), b, z), b, z - TopFoot)
  PROVE  Provided(h, Take(g, nb), U, nb)
<1> DEFINE n == z - 5
           m == Got(h, z)
           k == OneSeg(m, b, z)
<1>1. h \in HeapSet /\ h.aborted = FALSE /\ z \in Int /\ nb + 6 <= z /\ b \in Int /\ b >= Granularity /\ b + z <= Limit
      /\ TopFoot = 5 /\ h.footprint \in Int
  BY AskedFor, FixedHeads DEF Sound, Memory, PlacedAt, HeapSet
<1>2. /\ h.segs = <<>> /\ U = {} /\ h.dv = Null /\ h.dvsize = 0
      /\ \A a \in Addr : h.head[a] = Blank /\ h.foot[a] = 0
      /\ \A s \in Sizes : \A a : ~InBin(h, s, a)
      /\ BinsOnce(h)
  BY NoSegments
<1>3. n \in Int /\ n > 0 /\ z = n + 5 /\ nb < n /\ b \in Addr /\ b + n \in Addr
  <2>1. n \in Int /\ n > 0 /\ z = n + 5 /\ nb < n
    BY <1>1
  <2> HIDE DEF n
  <2> QED
    BY <1>1, <2>1, Places
<1>4. GotStep(h, m, z)
  BY <1>1, GotFields
<1> HIDE DEF m
<1>5. m \in HeapSet /\ k = OneSeg(m, b, z) /\ g = init_top(k, b, n)
  BY <1>1, <1>4 DEF GotStep, m
<1> HIDE DEF k
<1>6. /\ k \in HeapSet /\ k.head = m.head /\ k.foot = m.foot /\ k.bin = m.bin /\ SameVictim(k, m) /\ SameTop(k, m)
      /\ k.aborted = m.aborted /\ k.footprint = m.footprint /\ k.max_footprint = m.max_footprint
      /\ k.footprint_limit = m.footprint_limit /\ k.least_addr = b
      /\ Len(k.segs) = 1 /\ k.segs[1].base = b /\ k.segs[1].size = z /\ k.segs[1].rec = Null
  BY <1>1, <1>5, OneSegFields
<1>8. TopSet(k, g, b, n)
  BY <1>3, <1>5, <1>6, InitTop
<1>9. /\ g \in HeapSet /\ g.foot = h.foot /\ g.bin = h.bin /\ g.dv = Null /\ g.dvsize = 0 /\ g.segs = k.segs
      /\ g.footprint = h.footprint + z /\ g.max_footprint = Larger(h.max_footprint, h.footprint + z)
      /\ g.footprint_limit = h.footprint_limit /\ g.least_addr = b /\ g.aborted = FALSE /\ g.top = b /\ g.topsize = n
      /\ \A a \in Addr : g.head[a] = IF a = b THEN FreeHead(n) ELSE IF a = b + n THEN FakeHead ELSE h.head[a]
  BY <1>1, <1>2, <1>4, <1>6, <1>8 DEF TopSet, GotStep, SameVictim, SameSystem
<1>10. OneTop(g, b, z, n)
  <2>1. BinsOnce(g) /\ \A s \in Sizes : \A a : ~InBin(g, s, a)
    BY <1>2, <1>9 DEF BinsOnce, InBin
  <2> HIDE DEF n
  <2>2. z = n + TopFoot
    BY <1>1, <1>3
  <2>3. Len(g.segs) = 1 /\ g.segs[1].base = b /\ g.segs[1].size = z /\ g.segs[1].rec = Null
    BY <1>6, <1>9
  <2>4. ASSUME NEW a \in Addr
        PROVE  /\ g.head[a] = IF a = b THEN FreeHead(n) ELSE IF a = b + n THEN FakeHead ELSE Blank
               /\ g.foot[a] = 0
    BY <1>2, <1>9
  <2> QED
    BY <1>1, <1>3, <1>9, <2>1, <2>2, <2>3, <2>4 DEF OneTop
<1>11. Sound(g, U, {})
  BY <1>2, <1>10, OneTopSound
<1>12. SameSizes(h, g, U)
  BY <1>2 DEF SameSizes
<1>13. Ledger(h, g)
  <2>1. GrownBy(h, g, z)
    BY <1>9 DEF GrownBy
  <2>2. ASSUME NEW f, SumsTo(f, h.segs, h.footprint)
        PROVE  \E e : SumsTo(e, g.segs, h.footprint + z)
    <3>1. h.segs \in Seq(SegSet) /\ g.segs \in Seq(SegSet) /\ Len(h.segs) = 0 /\ Len(g.segs) = Len(h.segs) + 1
      BY <1>1, <1>2, <1>6, <1>9 DEF HeapSet
    <3>2. \A j \in 1 .. Len(h.segs) : g.segs[j + 1].size = h.segs[j].size
      BY <3>1
    <3>3. \E e : SumsTo(e, g.segs, h.footprint + g.segs[1].size)
      BY <2>2, <3>1, <3>2, SumPrepended
    <3> QED
      BY <1>6, <1>9, <3>3
  <2> QED
    BY <1>1, <2>1, <2>2, GrownLedger DEF SumGrows
<1> QED
  <2>1. g.top # Null /\ nb < g.topsize
    BY <1>3, <1>9
  <2> QED
    BY <1>1, <1>11, <1>12, <1>13, <2>1, TakesTop

LEMMA LongerResegged ==
  ASSUME NEW h \in HeapSet, NEW i \in Segs(h), NEW b \in Int, NEW z \in Int
  PROVE  /\ Longer(h, i, z) = Resegged(h, i, h.segs[i].base, h.segs[i].size + z)
         /\ Lower(h, i, b, z) = Resegged(h, i, b, h.segs[i].size + z)
<1>1. h.segs \in Seq(SegSet) /\ i \in 1 .. Len(h.segs)
  BY DEF HeapSet, Segs
<1>2. h.segs[i] \in SegSet
  BY <1>1, ElementOfSeq
<1> DEFINE c == h.segs[i].base
           s == h.segs[i].size + z
<1>3. [h.segs[i] EXCEPT !.size = @ + z] = [h.segs[i] EXCEPT !.base = c, !.size = s]
  BY <1>2 DEF SegSet
<1>4. [h.segs EXCEPT ![i].size = @ + z] = [h.segs EXCEPT ![i].base = c, ![i].size = s]
  BY <1>1, <1>3
<1>5. [h.segs[i] EXCEPT !.base = b, !.size = @ + z] = [h.segs[i] EXCEPT !.base = b, !.size = s]
  BY <1>2 DEF SegSet
<1>6. [h.segs EXCEPT ![i].base = b, ![i].size = @ + z] = [h.segs EXCEPT ![i].base = b, ![i].size = s]
  BY <1>1, <1>5
<1> HIDE DEF c, s
<1>7. Longer(h, i, z) = Resegged(h, i, c, s)
  BY <1>4 DEF Longer, Resegged, HeapSet
<1>8. Lower(h, i, b, z) = Resegged(h, i, b, s)
  BY <1>6 DEF Lower, Resegged, HeapSet
<1> QED
  BY <1>7, <1>8 DEF c, s

LEMMA SegFound ==
  ASSUME NEW h, NEW found \in SUBSET Segs(h), Len(h.segs) \in Nat, NEW i, i = FirstSeg(found), i # 0
  PROVE  i \in found
<1>1. found # {}
  BY DEF FirstSeg
<1>2. found \in SUBSET Nat
  BY DEF Segs
<1> QED
  BY <1>1, <1>2, SmallestIn DEF FirstSeg

OneGrows(segs, other, i, d) ==
    Len(other) = Len(segs) /\ \A k \in 1 .. Len(segs) : other[k].size = IF k = i THEN segs[k].size + d ELSE segs[k].size

LEMMA OneGrowsSum ==
  ASSUME NEW h, NEW g, h.segs \in Seq(SegSet), g.segs \in Seq(SegSet), NEW i \in 1 .. Len(h.segs), NEW z \in Int,
         OneGrows(h.segs, g.segs, i, z)
  PROVE  SumGrows(h, g, z)
  BY SumChanged DEF OneGrows, SumGrows

\* A region right behind the segment with top makes top larger.
LEMMA RegionBehind ==
  ASSUME NEW h, NEW U, Sound(h, U, {}), is_initialized(h), NEW nb \in Int, 2 <= nb, NEW z, z = asize(nb),
         NEW b, PlacedAt(h, b, z), WithinLimit(h, z),
         NEW i, i = SegBehind(h, b), i # 0, segment_holds(h.segs[i], h.top),
         NEW g, g = init_top(Longer(erase(Got(h, z), h.top + h.topsize), i, z), h.top, h.topsize + z)
  PROVE  Provided(h, Take(g, nb), U, nb)
<1> DEFINE old == h.top + h.topsize
           n == h.topsize + z
           end == h.top + n
           m == Got(h, z)
           x == erase(m, old)
           k == Longer(x, 1, z)
           c == h.segs[1].base
           s == h.segs[1].size + z
<1>1. Memory(h, {}) /\ h \in HeapSet /\ h.segs \in Seq(SegSet) /\ Segments(h) /\ TopIn(h)
  BY DEF Sound, Memory, Segments
<1>2. h.segs # <<>>
  BY <1>1 DEF TopIn, is_initialized
<1>3. TopAt(h, old)
  BY <1>1, <1>2, TopChunk
<1>4. /\ 1 \in Segs(h) /\ h.top \in Int /\ h.top \in Addr /\ old \in Int /\ h.topsize \in Int /\ h.topsize > 0
      /\ EndOf(h.segs[1]) = old + 5 /\ old \in Addr /\ TopFoot = 5 /\ c <= h.top
      /\ InSeg(h, 1, h.top) /\ InSeg(h, 1, old) /\ h.top < old
  BY <1>3, FixedHeads, Places DEF TopAt
<1>5. c \in Int /\ h.segs[1].size \in Int /\ EndOf(h.segs[1]) = c + h.segs[1].size
  BY <1>1, <1>4, SegTypes DEF EndOf
<1>6. z \in Int /\ nb + 6 <= z /\ b \in Int /\ b + z <= Limit /\ Limit \in Int
      /\ \A j \in Segs(h) : b + z <= h.segs[j].base \/ EndOf(h.segs[j]) <= b
  BY AskedFor, Places DEF PlacedAt
<1>7. i = 1 /\ EndOf(h.segs[1]) = b
  <2>1. i \in {j \in Segs(h) : EndOf(h.segs[j]) = b}
    BY <1>1, SegFound, LenProperties DEF SegBehind
  <2>2. h.top <= h.top /\ InSeg(h, i, h.top)
    BY <1>4 DEF InSeg
  <2>3. i = 1
    BY <1>1, <1>4, <2>1, <2>2, OneSegment
  <2> QED
    BY <2>1, <2>3
<1>8. /\ n \in Int /\ n > 0 /\ nb < n /\ end \in Int /\ end = old + z /\ end + 5 = b + z /\ old < end /\ s \in Int /\ c + s = b + z
      /\ end \in Addr
  <2>1. n \in Int /\ n > 0 /\ nb < n /\ s \in Int
    BY <1>4, <1>5, <1>6
  <2>2. end = old + z /\ end \in Int
    BY <1>4, <1>6
  <2>3. c + s = b + z
    <3>1. c + h.segs[1].size = b
      BY <1>5, <1>7
    <3> QED
      BY <1>5, <1>6, <3>1
  <2>4. old + 5 = b
    BY <1>4, <1>7
  <2> HIDE DEF end, old, s, n
  <2>5. end + 5 = b + z /\ old < end
    BY <1>4, <1>6, <2>2, <2>4
  <2>6. end \in Addr
    BY <1>4, <1>6, <2>2, <2>5, Places, SMTT(60)
  <2> QED
    BY <2>1, <2>2, <2>3, <2>5, <2>6
<1>9. m \in HeapSet /\ GotStep(h, m, z) /\ m.least_addr = h.least_addr
  BY <1>1, <1>6, GotFields DEF GotStep
<1>10. x = erase(m, old) /\ k = Longer(x, 1, z) /\ g = init_top(k, h.top, n)
  BY <1>7 DEF m, x, k, n, old
<1> HIDE DEF k, x, m, n, end, old, s, c
<1>11. MemoryStep(x, m) /\ x.head = Put(m.head, old, Blank) /\ x.foot = Put(m.foot, old, 0)
  BY <1>4, <1>9, <1>10, Erase
<1>12. /\ x \in HeapSet /\ x.bin = h.bin /\ SameVictim(x, h) /\ x.top = h.top /\ x.aborted = h.aborted /\ x.segs = h.segs
       /\ x.footprint = h.footprint + z /\ x.max_footprint = Larger(h.max_footprint, h.footprint + z)
       /\ x.footprint_limit = h.footprint_limit /\ x.least_addr = h.least_addr
       /\ \A a \in Addr : /\ x.head[a] = IF a = old THEN Blank ELSE h.head[a]
                          /\ x.foot[a] = IF a = old THEN 0 ELSE h.foot[a]
  <2>1. /\ x \in HeapSet /\ x.bin = h.bin /\ SameVictim(x, h) /\ x.top = h.top /\ x.aborted = h.aborted /\ x.segs = h.segs
        /\ x.footprint = h.footprint + z /\ x.max_footprint = Larger(h.max_footprint, h.footprint + z)
        /\ x.footprint_limit = h.footprint_limit /\ x.least_addr = h.least_addr
    BY <1>9, <1>11 DEF MemoryStep, GotStep, SameVictim, SameTop, SameSystem
  <2>2. m.head = h.head /\ m.foot = h.foot
    BY <1>9 DEF GotStep
  <2>3. ASSUME NEW a \in Addr
        PROVE  /\ x.head[a] = IF a = old THEN Blank ELSE h.head[a]
               /\ x.foot[a] = IF a = old THEN 0 ELSE h.foot[a]
    BY <1>1, <1>4, <1>11, <2>2, Fields DEF Put
  <2> QED
    BY <2>1, <2>3
<1>13. 1 \in Segs(x)
  BY <1>4, <1>12 DEF Segs
<1>14. k = Resegged(x, 1, c, s)
  <2>1. x \in HeapSet /\ 1 \in Segs(x) /\ z \in Int /\ 0 \in Int
    BY <1>6, <1>12, <1>13
  <2>2. Longer(x, 1, z) = Resegged(x, 1, x.segs[1].base, x.segs[1].size + z)
    BY <2>1, LongerResegged
  <2> QED
    BY <1>10, <1>12, <2>2 DEF c, s
<1>15. /\ k \in HeapSet /\ k.head = x.head /\ k.foot = x.foot /\ k.bin = x.bin /\ SameVictim(k, x) /\ SameTop(k, x)
       /\ k.aborted = x.aborted /\ k.footprint = x.footprint /\ k.max_footprint = x.max_footprint
       /\ k.footprint_limit = x.footprint_limit /\ k.least_addr = x.least_addr
       /\ Len(k.segs) = Len(x.segs) /\ k.segs \in Seq(SegSet)
       /\ \A j \in Segs(x) : /\ j # 1 => k.segs[j] = x.segs[j]
                             /\ j = 1 => k.segs[j].base = c /\ k.segs[j].size = s /\ k.segs[j].rec = x.segs[j].rec
  <2>1. x \in HeapSet /\ 1 \in Segs(x) /\ c \in Int /\ s \in Int
    BY <1>5, <1>8, <1>12, <1>13 DEF c
  <2> QED
    BY <1>14, <2>1, ReseggedFields
<1>16. TopSet(k, g, h.top, n)
  <2>1. h.top + n = end
    BY DEF end
  <2> QED
    BY <1>4, <1>8, <1>10, <1>15, <2>1, InitTop
<1>17. /\ g \in HeapSet /\ g.foot = k.foot /\ g.bin = k.bin /\ SameVictim(g, k) /\ g.segs = k.segs
       /\ g.footprint = k.footprint /\ g.max_footprint = k.max_footprint
       /\ g.footprint_limit = k.footprint_limit /\ g.least_addr = k.least_addr
       /\ g.aborted = k.aborted /\ g.top = h.top /\ g.topsize = n
       /\ \A a \in Addr : g.head[a] = IF a = h.top THEN FreeHead(n) ELSE IF a = end THEN FakeHead ELSE k.head[a]
  BY <1>16, SMTT(60) DEF TopSet, SameSystem, end
<1>18. TopMoved(h, g, n, old, end)
  <2>1. /\ g \in HeapSet /\ g.least_addr = h.least_addr /\ SameVictim(g, h) /\ g.bin = h.bin /\ g.aborted = h.aborted
        /\ g.top = h.top /\ g.topsize = n /\ n \in Int /\ n > 0 /\ end = h.top + n /\ end # old /\ end \in Int
        /\ Len(g.segs) = Len(h.segs)
    BY <1>4, <1>8, <1>12, <1>15, <1>17, SMTT(60) DEF SameVictim, end
  <2>2. \A j \in Segs(h) \ {1} : g.segs[j] = h.segs[j]
    BY <1>12, <1>15, <1>17 DEF Segs
  <2>3. g.segs[1].base = h.segs[1].base /\ g.segs[1].rec = h.segs[1].rec /\ g.segs[1].size = s
    BY <1>12, <1>13, <1>15, <1>17 DEF c
  <2>4. EndOf(g.segs[1]) = end + TopFoot
    BY <1>4, <1>8, <2>3 DEF EndOf, c
  <2>5. ASSUME NEW a \in Addr
        PROVE  /\ g.head[a] = IF a = h.top THEN FreeHead(n) ELSE IF a = end THEN FakeHead
                              ELSE IF a = old THEN Blank ELSE h.head[a]
               /\ g.foot[a] = h.foot[a] \/ (g.foot[a] = 0 /\ InSeg(h, 1, a) /\ a > h.top)
    BY <1>4, <1>12, <1>15, <1>17
  <2> QED
    BY <2>1, <2>2, <2>3, <2>4, <2>5 DEF TopMoved
<1>19. RoomForTop(h, end)
  <2>1. ASSUME NEW j \in Segs(h) \ {1}
        PROVE  b + z <= h.segs[j].base \/ EndOf(h.segs[j]) <= h.segs[1].base
    <3>1. EndOf(h.segs[j]) <= h.segs[1].base \/ EndOf(h.segs[1]) <= h.segs[j].base
      BY <1>1, <1>4 DEF Segments
    <3>2. b + z <= h.segs[j].base \/ EndOf(h.segs[j]) <= b
      BY <1>6
    <3>3. h.segs[j].base \in Int /\ h.segs[j].size > 0 /\ h.segs[j].size \in Int /\ EndOf(h.segs[j]) = h.segs[j].base + h.segs[j].size
      BY <1>1, SegTypes DEF Segments, EndOf
    <3> QED
      BY <1>6, <1>7, <3>1, <3>2, <3>3
  <2> QED
    BY <1>4, <1>6, <1>8, <2>1 DEF RoomForTop
<1>20. Sound(g, U, {}) /\ SameSizes(h, g, U)
  BY <1>3, <1>18, <1>19, MovedSound
<1>21. Ledger(h, g)
  <2>1. GrownBy(h, g, z)
    BY <1>12, <1>15, <1>17 DEF GrownBy
  <2>2. g.segs \in Seq(SegSet) /\ Len(g.segs) = Len(h.segs) /\ 1 \in 1 .. Len(h.segs)
    BY <1>4, <1>12, <1>15, <1>17 DEF Segs
  <2>3. \A j \in 1 .. Len(h.segs) : g.segs[j].size = IF j = 1 THEN h.segs[j].size + z ELSE h.segs[j].size
    BY <1>12, <1>15, <1>17 DEF s, Segs
  <2>4. SumGrows(h, g, z)
    BY <1>1, <1>6, <2>2, <2>3, OneGrowsSum, ZenonT(60) DEF OneGrows
  <2> QED
    BY <1>1, <1>6, <2>1, <2>4, GrownLedger
<1> QED
  <2>1. g.top # Null /\ nb < g.topsize
    BY <1>8, <1>17 DEF is_initialized
  <2> QED
    BY <1>1, <1>20, <1>21, <2>1, TakesTop

\* A region in front of segment i has been added to it as a chunk that is in use.
Extended(h, v, i, b, z) ==
    /\ v \in HeapSet /\ v.bin = h.bin /\ SameVictim(v, h) /\ SameTop(v, h) /\ v.aborted = h.aborted
    /\ v.least_addr <= h.least_addr /\ v.least_addr <= b
    /\ Len(v.segs) = Len(h.segs)
    /\ \A j \in Segs(h) : j # i => v.segs[j] = h.segs[j]
    /\ v.segs[i].base = b /\ EndOf(v.segs[i]) = EndOf(h.segs[i]) /\ v.segs[i].rec = h.segs[i].rec
    /\ v.segs[i].size = h.segs[i].size + z
    /\ \A a \in Addr : v.head[a] = IF a = b THEN UsedHead(z) ELSE h.head[a]
    /\ v.foot = h.foot

\* Nothing is where the region is; where segments are after it.
ExtendedPlaces(h, v, i, b, z) ==
    /\ b \in Addr /\ b \in Int /\ b # Null /\ b + z \in Addr /\ b < b + z /\ ~IsHeader(h, b)
    /\ IsHeader(h, b + z) /\ h.head[b + z].pinuse
    /\ Segs(v) = Segs(h) /\ InSeg(v, i, b) /\ InSeg(v, i, b + z)
    /\ \A j \in Segs(h) : j # i => ~InSeg(v, j, b)
    /\ \A a \in Addr : IsHeader(h, a) => a < b \/ b + z <= a
    /\ \A a \in Addr, j \in Segs(h) : IsHeader(h, a) => (InSeg(v, j, a) <=> InSeg(h, j, a))
    /\ \A a \in Addr : IsChunk(h, a) => a < Past(h, a) /\ (Past(h, a) <= b \/ b <= a)

LEMMA ExtendedApart ==
  ASSUME NEW h, NEW X, Memory(h, X), NEW i \in Segs(h), NEW z \in Int, z >= 2, NEW b, PlacedAt(h, b, z),
         h.segs[i].base = b + z, NEW v, Extended(h, v, i, b, z)
  PROVE  ExtendedPlaces(h, v, i, b, z) /\ Segments(v)
<1> DEFINE o == b + z
<1>1. /\ h \in HeapSet /\ Segments(h) /\ Kinds(h) /\ Tiles(h) /\ h.segs \in Seq(SegSet) /\ h.least_addr \in Int
      /\ v.segs \in Seq(SegSet) /\ v.least_addr \in Int
  BY DEF Memory, Segments, HeapSet, Extended
<1>2. /\ b \in Int /\ b >= Granularity /\ o <= Limit /\ \A j \in Segs(h) : o <= h.segs[j].base \/ EndOf(h.segs[j]) <= b
  BY DEF PlacedAt
<1>3. Granularity \in Int /\ Granularity > 7 /\ Limit \in Int /\ Addr = 0 .. Limit
  BY Places
<1>4. o \in Int /\ b < o /\ b \in Addr /\ o \in Addr /\ b # Null
  BY <1>2, <1>3 DEF Null
<1>5. h.segs[i].base = o /\ i \in Int
  BY DEF Segs
<1>6. IsHeader(h, o) /\ InSeg(h, i, o) /\ h.head[o].pinuse
  BY <1>5, BaseHeader
<1>7. /\ Len(v.segs) = Len(h.segs) /\ Segs(v) = Segs(h)
      /\ \A j \in Segs(h) : j # i => v.segs[j] = h.segs[j]
      /\ v.segs[i].base = b /\ EndOf(v.segs[i]) = EndOf(h.segs[i])
      /\ \A a \in Addr : v.head[a] = IF a = b THEN UsedHead(z) ELSE h.head[a]
      /\ v.least_addr <= h.least_addr /\ v.least_addr <= b
      /\ v.segs[i].size = h.segs[i].size + z
  BY DEF Extended, Segs
<1> HIDE DEF o
<1>8. \A j \in Segs(h) : /\ h.segs[j].base \in Int /\ h.segs[j].size \in Int /\ h.segs[j].size > 0
                         /\ EndOf(h.segs[j]) = h.segs[j].base + h.segs[j].size /\ EndOf(h.segs[j]) \in Int
  BY <1>1, SegTypes, SMTT(60) DEF Segments, EndOf
<1>9. \A j \in Segs(h) : ~InSeg(h, j, b)
  BY <1>2, <1>4, <1>8 DEF InSeg, segment_holds
<1>10. ~IsHeader(h, b)
  BY <1>1, <1>9 DEF Tiles, IsHeader
<1>11. \A j \in Segs(h) : j # i => ~InSeg(v, j, b)
  BY <1>7, <1>9 DEF InSeg
<1>12. EndOf(h.segs[i]) > o
  BY <1>4, <1>5, <1>8
<1>13. InSeg(v, i, b) /\ InSeg(v, i, o)
  BY <1>2, <1>4, <1>7, <1>8, <1>12 DEF InSeg, segment_holds
<1>14. ASSUME NEW a \in Addr, IsHeader(h, a)
       PROVE  a < b \/ o <= a
  <2>1. PICK j \in Segs(h) : InSeg(h, j, a)
    BY <1>1, <1>14 DEF Tiles
  <2>2. a \in Int /\ h.segs[j].base <= a /\ a < EndOf(h.segs[j])
    BY <1>3, <2>1 DEF InSeg, segment_holds
  <2> QED
    BY <1>2, <1>4, <1>8, <2>2
<1>15. ASSUME NEW a \in Addr, NEW j \in Segs(h), IsHeader(h, a)
       PROVE  InSeg(v, j, a) <=> InSeg(h, j, a)
  <2>1. CASE j # i
    BY <1>7, <2>1 DEF InSeg
  <2>2. CASE j = i
    <3>1. a \in Int /\ (a < b \/ o <= a)
      BY <1>3, <1>14, <1>15
    <3> QED
      BY <1>2, <1>4, <1>5, <1>7, <1>8, <2>2, <3>1, SMTT(60) DEF InSeg, segment_holds
  <2> QED
    BY <2>1, <2>2
<1>16. ASSUME NEW a \in Addr, IsChunk(h, a)
       PROVE  a < Past(h, a) /\ (Past(h, a) <= b \/ b <= a)
  <2>1. IsHeader(h, a) /\ Size(h, a) > 0 /\ Size(h, a) \in Int /\ Past(h, a) = a + Size(h, a) /\ a \in Int
    BY <1>1, <1>3, <1>16, HeadTypes, ChunkIsHeader DEF Kinds, Past, Size
  <2>2. IsHeader(h, Past(h, a)) /\ Past(h, a) \in Addr
    BY <1>1, <1>16 DEF Tiles, IsHeader
  <2>3. PICK j \in Segs(h) : InSeg(h, j, a)
    BY <1>1, <2>1 DEF Tiles
  <2>4. InSeg(h, j, Past(h, a))
    BY <1>1, <1>16, <2>3 DEF Tiles
  <2>5. ~InSeg(h, j, b)
    BY <1>9
  <2>6. ~(a < b /\ b < Past(h, a))
    BY <1>2, <1>8, <2>1, <2>3, <2>4, <2>5 DEF InSeg, segment_holds
  <2> QED
    BY <1>2, <2>1, <2>6
<1>17. ExtendedPlaces(h, v, i, b, z)
  <2> USE DEF o
  <2> QED
    BY <1>2, <1>4, <1>6, <1>7, <1>10, <1>11, <1>13, <1>14, <1>15, <1>16 DEF ExtendedPlaces
<1>18. Segments(v)
  <2>1. ASSUME NEW j \in Segs(v)
        PROVE  /\ v.segs[j].base >= Granularity /\ v.segs[j].size > 5
               /\ EndOf(v.segs[j]) <= Limit
               /\ v.least_addr <= v.segs[j].base
               /\ IsHeader(v, v.segs[j].base)
    <3>1. /\ h.segs[j].base >= Granularity /\ h.segs[j].size > 5
          /\ EndOf(h.segs[j]) <= Limit
          /\ h.least_addr <= h.segs[j].base
          /\ IsHeader(h, h.segs[j].base)
      BY <1>1, <1>7, <2>1 DEF Segments
    <3>2. CASE j = i
      <4>1. UsedHead(z) # Blank
        BY FixedHeads DEF UsedHead
      <4>2. IsHeader(v, b)
        BY <1>4, <1>7, <4>1 DEF IsHeader
      <4>3. h.segs[i].size + z > 5
        BY <1>8, <3>1, <3>2
      <4> QED
        BY <1>2, <1>7, <3>1, <3>2, <4>2, <4>3
    <3>3. CASE j # i
      <4> DEFINE c == h.segs[j].base
      <4>1. v.segs[j] = h.segs[j]
        BY <1>7, <2>1, <3>3
      <4>2. IsHeader(h, c) /\ c \in Int
        BY <1>7, <1>8, <2>1, <3>1
      <4> HIDE DEF c
      <4>3. IsHeader(v, c)
        BY <1>7, <1>10, <4>2 DEF IsHeader
      <4>4. v.least_addr <= h.segs[j].base
        BY <1>1, <1>7, <1>8, <2>1, <3>1, SMTT(60)
      <4> QED
        BY <3>1, <4>1, <4>3, <4>4 DEF c
    <3> QED
      BY <3>2, <3>3
  <2>2. ASSUME NEW j \in Segs(v), NEW k \in Segs(v), j # k
        PROVE  EndOf(v.segs[j]) <= v.segs[k].base \/ EndOf(v.segs[k]) <= v.segs[j].base
    <3>1. j \in Segs(h) /\ k \in Segs(h) /\ (EndOf(h.segs[j]) <= h.segs[k].base \/ EndOf(h.segs[k]) <= h.segs[j].base)
      BY <1>1, <1>7, <2>2 DEF Segments
    <3>2. ASSUME NEW m \in Segs(h), m # i
          PROVE  EndOf(h.segs[i]) <= h.segs[m].base \/ EndOf(h.segs[m]) <= b
      <4>1. EndOf(h.segs[i]) <= h.segs[m].base \/ EndOf(h.segs[m]) <= o
        BY <1>1, <1>5, <3>2 DEF Segments
      <4>2. o <= h.segs[m].base \/ EndOf(h.segs[m]) <= b
        BY <1>2 DEF o
      <4> QED
        BY <1>2, <1>4, <1>8, <4>1, <4>2
    <3>3. CASE j # i /\ k # i
      BY <1>7, <3>1, <3>3
    <3>4. CASE j = i
      BY <1>7, <2>2, <3>1, <3>2, <3>4
    <3>5. CASE k = i
      BY <1>7, <2>2, <3>1, <3>2, <3>5
    <3> QED
      BY <3>3, <3>4, <3>5
  <2> QED
    BY <1>1, <2>1, <2>2 DEF Segments
<1> QED
  BY <1>17, <1>18

LEMMA ExtendedSound ==
  ASSUME NEW h, NEW U, Sound(h, U, {}), NEW i \in Segs(h), NEW z \in Int, z >= 2, NEW b, PlacedAt(h, b, z),
         h.segs[i].base = b + z, NEW v, Extended(h, v, i, b, z)
  PROVE  Sound(v, U \cup {b}, {}) /\ SameSizes(h, v, U) /\ b \notin U
<1> DEFINE o == b + z
           V == U \cup {b}
<1>1. /\ Memory(h, {}) /\ Records(h) /\ Users(h, U) /\ Victim(h) /\ Bins(h) /\ h.aborted = FALSE /\ h \in HeapSet
      /\ Segments(h) /\ Kinds(h) /\ Tiles(h) /\ TagsAgree(h) /\ FeetIn(h, {}) /\ TopIn(h)
  BY DEF Sound, Memory
<1>2. ExtendedPlaces(h, v, i, b, z) /\ Segments(v)
  BY <1>1, ExtendedApart
<1>3. /\ b \in Addr /\ b \in Int /\ b # Null /\ o \in Addr /\ b < o /\ ~IsHeader(h, b)
      /\ IsHeader(h, o) /\ h.head[o].pinuse
      /\ Segs(v) = Segs(h) /\ InSeg(v, i, b) /\ InSeg(v, i, o)
      /\ \A j \in Segs(h) : j # i => ~InSeg(v, j, b)
      /\ \A a \in Addr : IsHeader(h, a) => a < b \/ o <= a
      /\ \A a \in Addr, j \in Segs(h) : IsHeader(h, a) => (InSeg(v, j, a) <=> InSeg(h, j, a))
      /\ \A a \in Addr : IsChunk(h, a) => a < Past(h, a) /\ (Past(h, a) <= b \/ b <= a)
      /\ Addr \subseteq Int /\ o \in Int
  BY <1>2, Places DEF ExtendedPlaces
<1>4. /\ v \in HeapSet /\ v.bin = h.bin /\ v.dv = h.dv /\ v.dvsize = h.dvsize /\ v.top = h.top /\ v.topsize = h.topsize
      /\ v.aborted = h.aborted /\ Len(v.segs) = Len(h.segs)
      /\ \A j \in Segs(h) : j # i => v.segs[j] = h.segs[j]
      /\ v.segs[i].base = b /\ EndOf(v.segs[i]) = EndOf(h.segs[i]) /\ v.segs[i].rec = h.segs[i].rec
      /\ \A a \in Addr : v.head[a] = IF a = b THEN UsedHead(z) ELSE h.head[a]
      /\ v.foot = h.foot
  BY DEF Extended, SameVictim, SameTop
<1>5. UsedHead(z).size = z /\ UsedHead(z).cinuse /\ UsedHead(z).pinuse /\ UsedHead(z) # Blank /\ UsedHead(z) # Fence
      /\ Blank.size = 0 /\ ~Blank.cinuse /\ MinChunk = 2
  BY FixedHeads DEF UsedHead, MinChunk
<1>6. o = b + z
  OBVIOUS
<1> HIDE DEF o
<1>7. v.head[b] = UsedHead(z) /\ Size(v, b) = z /\ Past(v, b) = o /\ IsUsed(v, b) /\ ~IsFree(v, b) /\ IsChunk(v, b) /\ IsHeader(v, b)
  BY <1>3, <1>4, <1>5, <1>6 DEF Size, Past, IsUsed, IsFree, IsChunk, IsHeader
<1>8. \A a : a # b => /\ IsHeader(v, a) <=> IsHeader(h, a)
                      /\ IsUsed(v, a) <=> IsUsed(h, a)
                      /\ IsFree(v, a) <=> IsFree(h, a)
                      /\ IsChunk(v, a) <=> IsChunk(h, a)
                      /\ a \in Addr => v.head[a] = h.head[a] /\ Size(v, a) = Size(h, a) /\ Past(v, a) = Past(h, a)
  BY <1>4 DEF IsHeader, IsUsed, IsFree, IsChunk, Size, Past
<1>9. ~IsUsed(h, b) /\ ~IsFree(h, b) /\ ~IsChunk(h, b)
  BY <1>3, ChunkIsHeader DEF IsChunk
<1>10. ASSUME NEW a, IsChunk(h, a)
       PROVE  a \in Addr /\ a # b /\ IsHeader(h, a) /\ IsHeader(h, Past(h, a)) /\ Past(h, a) # b /\ Past(h, a) \in Addr
              /\ v.head[Past(h, a)] = h.head[Past(h, a)]
  <2>1. a \in Addr /\ IsHeader(h, a) /\ IsHeader(h, Past(h, a))
    BY <1>1, <1>10, ChunkIsHeader DEF Tiles
  <2>2. Past(h, a) # b /\ Past(h, a) \in Addr
    BY <1>3, <2>1 DEF IsHeader
  <2> QED
    BY <1>4, <1>9, <1>10, <2>1, <2>2
<1>11. Kinds(v)
  <2>1. ASSUME NEW a \in Addr, ~v.head[a].cinuse, ~v.head[a].pinuse, v.head[a] # Blank
        PROVE  v.head[a] = FakeHead /\ v.top # Null /\ a = v.top + v.topsize
    <3>1. a # b
      BY <1>5, <1>7, <2>1
    <3>2. v.head[a] = h.head[a]
      BY <1>8, <3>1
    <3> QED
      BY <1>1, <1>4, <2>1, <3>2 DEF Kinds
  <2>2. ASSUME NEW a \in Addr, IsChunk(v, a)
        PROVE  Size(v, a) > 0 /\ (a # v.top => Size(v, a) >= MinChunk)
    <3>1. CASE a = b
      BY <1>5, <1>7, <3>1
    <3>2. CASE a # b
      <4>1. IsChunk(h, a) /\ Size(v, a) = Size(h, a)
        BY <1>8, <2>2, <3>2
      <4> QED
        BY <1>1, <1>4, <4>1 DEF Kinds
    <3> QED
      BY <3>1, <3>2
  <2> QED
    BY <2>1, <2>2 DEF Kinds
<1>12. Tiles(v)
  <2>1. ASSUME NEW a \in Addr, IsHeader(v, a)
        PROVE  \E j \in Segs(v) : InSeg(v, j, a)
    <3>1. CASE a = b
      BY <1>3, <3>1
    <3>2. CASE a # b
      BY <1>1, <1>3, <1>8, <2>1, <3>2 DEF Tiles
    <3> QED
      BY <3>1, <3>2
  <2>2. ASSUME NEW a \in Addr, IsChunk(v, a)
        PROVE  /\ IsHeader(v, Past(v, a))
               /\ \A j \in Segs(v) : InSeg(v, j, a) => InSeg(v, j, Past(v, a))
               /\ \A c \in Addr : IsHeader(v, c) /\ a < c => Past(v, a) <= c
    <3>1. CASE a = b
      <4>1. IsHeader(v, o)
        BY <1>3, <1>8
      <4>2. \A j \in Segs(v) : InSeg(v, j, b) => InSeg(v, j, o)
        BY <1>3
      <4>3. \A c \in Addr : IsHeader(v, c) /\ b < c => o <= c
        BY <1>3, <1>8
      <4> QED
        BY <1>7, <3>1, <4>1, <4>2, <4>3
    <3>2. CASE a # b
      <4>1. IsChunk(h, a) /\ Past(v, a) = Past(h, a)
        BY <1>8, <2>2, <3>2
      <4>2. a \in Addr /\ IsHeader(h, a) /\ IsHeader(h, Past(h, a)) /\ Past(h, a) # b /\ Past(h, a) \in Addr
        BY <1>10, <4>1
      <4>3. IsHeader(v, Past(h, a))
        BY <1>8, <4>2
      <4>4. \A j \in Segs(v) : InSeg(v, j, a) => InSeg(v, j, Past(h, a))
        BY <1>1, <1>3, <4>1, <4>2 DEF Tiles
      <4>5. ASSUME NEW c \in Addr, IsHeader(v, c), a < c
            PROVE  Past(h, a) <= c
        <5>1. CASE c = b
          BY <1>3, <4>1, <4>2, <4>5, <5>1
        <5>2. CASE c # b
          BY <1>1, <1>8, <4>1, <4>2, <4>5, <5>2 DEF Tiles
        <5> QED
          BY <5>1, <5>2
      <4> QED
        BY <4>1, <4>3, <4>4, <4>5
    <3> QED
      BY <3>1, <3>2
  <2>3. ASSUME NEW a \in Addr, IsHeader(v, a), ~IsChunk(v, a), NEW c \in Addr, NEW j \in Segs(v),
               IsHeader(v, c), InSeg(v, j, a), InSeg(v, j, c)
        PROVE  c <= a
    <3>1. a # b
      BY <1>7, <2>3
    <3>2. IsHeader(h, a) /\ ~IsChunk(h, a) /\ InSeg(h, j, a)
      BY <1>3, <1>8, <2>3, <3>1
    <3>3. CASE c = b
      <4>1. j = i
        BY <1>3, <2>3, <3>3
      <4> QED
        BY <1>3, <1>4, <2>3, <3>3, <4>1 DEF InSeg, segment_holds
    <3>4. CASE c # b
      <4>1. IsHeader(h, c) /\ InSeg(h, j, c)
        BY <1>3, <1>8, <2>3, <3>4
      <4> QED
        BY <1>1, <1>3, <3>2, <4>1 DEF Tiles
    <3> QED
      BY <3>3, <3>4
  <2> QED
    BY <2>1, <2>2, <2>3 DEF Tiles
<1>13. TagsAgree(v)
  <2>1. ASSUME NEW a \in Addr, IsUsed(v, a)
        PROVE  v.head[Past(v, a)].pinuse
    <3>1. CASE a = b
      <4>1. v.head[o] = h.head[o]
        BY <1>3, <1>8
      <4> QED
        BY <1>3, <1>7, <3>1, <4>1
    <3>2. CASE a # b
      <4>1. IsUsed(h, a) /\ Past(v, a) = Past(h, a) /\ IsChunk(h, a)
        BY <1>8, <2>1, <3>2 DEF IsChunk
      <4> QED
        BY <1>1, <1>10, <4>1 DEF TagsAgree
    <3> QED
      BY <3>1, <3>2
  <2>2. ASSUME NEW a \in Addr, IsFree(v, a)
        PROVE  /\ ~v.head[Past(v, a)].pinuse
               /\ a # v.top => v.head[Past(v, a)].cinuse /\ v.foot[Past(v, a)] = Size(v, a)
    <3>1. a # b
      BY <1>7, <2>2
    <3>2. IsFree(h, a) /\ Past(v, a) = Past(h, a) /\ IsChunk(h, a) /\ Size(v, a) = Size(h, a)
      BY <1>8, <2>2, <3>1 DEF IsChunk
    <3> QED
      BY <1>1, <1>4, <1>10, <3>2 DEF TagsAgree
  <2>3. ASSUME NEW a \in Addr, v.head[a].cinuse, ~v.head[a].pinuse
        PROVE  LET c == a - v.foot[a] IN IsFree(v, c) /\ c # v.top /\ Size(v, c) = v.foot[a]
    <3>1. a # b
      BY <1>5, <1>7, <2>3
    <3>2. v.head[a] = h.head[a] /\ v.foot[a] = h.foot[a]
      BY <1>4, <3>1
    <3> DEFINE c == a - h.foot[a]
    <3>3. IsFree(h, c) /\ c # h.top /\ Size(h, c) = h.foot[a]
      BY <1>1, <2>3, <3>2 DEF TagsAgree
    <3> HIDE DEF c
    <3>4. c # b /\ c \in Addr
      BY <1>9, <3>3 DEF IsFree
    <3>5. IsFree(v, c) /\ c # v.top /\ Size(v, c) = h.foot[a]
      BY <1>4, <1>8, <3>3, <3>4
    <3> QED
      BY <3>2, <3>5 DEF c
  <2> QED
    BY <2>1, <2>2, <2>3 DEF TagsAgree
<1>14. FeetIn(v, {})
  <2> SUFFICES ASSUME NEW a \in Addr, v.foot[a] # 0
               PROVE  v.head[a].cinuse /\ ~v.head[a].pinuse
    BY DEF FeetIn
  <2>1. h.head[a].cinuse /\ ~h.head[a].pinuse
    BY <1>1, <1>4 DEF FeetIn
  <2>2. a # b
    BY <1>3, <1>5, <2>1 DEF IsHeader
  <2> QED
    BY <1>8, <2>1, <2>2
<1>15. TopIn(v)
  <2>1. h.segs # <<>> /\ v.segs # <<>> /\ 1 \in Segs(h)
    BY <1>4, LenProperties DEF Segs, HeapSet
  <2> DEFINE t == h.top
             e == h.top + h.topsize
  <2>2. IsFree(h, t) /\ InSeg(h, 1, t) /\ Size(h, t) = h.topsize /\ e = EndOf(h.segs[1]) - TopFoot /\ h.head[e] = FakeHead
    BY <1>1, <2>1 DEF TopIn
  <2>3. TopAt(h, e)
    BY <1>1, <2>1, TopChunk
  <2> HIDE DEF e, t
  <2>4. t # b /\ t \in Addr /\ IsHeader(h, t)
    BY <1>3, <1>9, <2>2, ChunkIsHeader DEF IsChunk
  <2>5. e # b /\ e \in Addr
    BY <1>3, <2>3 DEF TopAt
  <2>6. EndOf(v.segs[1]) = EndOf(h.segs[1])
    BY <1>4, <2>1
  <2>7. IsFree(v, t) /\ InSeg(v, 1, t) /\ Size(v, t) = h.topsize /\ v.head[e] = FakeHead
    BY <1>3, <1>8, <2>1, <2>2, <2>4, <2>5
  <2> QED
    BY <1>4, <2>1, <2>2, <2>6, <2>7 DEF TopIn, t, e
<1>16. Records(v)
  <2>1. h.segs # <<>> /\ v.segs # <<>> /\ 1 \in Segs(h)
    BY <1>4, LenProperties DEF Segs, HeapSet
  <2>2. v.segs[1].rec = Null
    BY <1>1, <1>4, <2>1 DEF Records
  <2>3. ASSUME NEW j \in Segs(h) \ {1}
        PROVE  /\ IsUsed(v, v.segs[j].rec) /\ InSeg(v, j, v.segs[j].rec)
               /\ Size(v, v.segs[j].rec) = SegRecord
               /\ v.head[v.segs[j].rec + SegRecord] = Fence
               /\ v.segs[j].rec + TopFoot <= EndOf(v.segs[j])
    <3> DEFINE r == h.segs[j].rec
    <3>1. /\ IsUsed(h, r) /\ InSeg(h, j, r) /\ Size(h, r) = SegRecord
          /\ h.head[r + SegRecord] = Fence /\ r + TopFoot <= EndOf(h.segs[j])
      BY <1>1 DEF Records
    <3>2. v.segs[j].rec = r /\ EndOf(v.segs[j]) = EndOf(h.segs[j])
      BY <1>4
    <3> HIDE DEF r
    <3>3. Past(h, r) = r + SegRecord
      BY <3>1 DEF Past, Size
    <3>4. r \in Addr /\ r # b /\ IsHeader(h, r) /\ v.head[r + SegRecord] = Fence
      BY <1>10, <3>1, <3>3 DEF IsChunk
    <3> QED
      BY <1>3, <1>8, <3>1, <3>2, <3>4
  <2> QED
    BY <1>3, <2>1, <2>2, <2>3 DEF Records
<1>17. \A a : IsRecord(v, a) <=> IsRecord(h, a)
  BY <1>3, <1>4 DEF IsRecord
<1>18. b \notin U /\ ~IsRecord(h, b)
  BY <1>1, <1>9 DEF Users
<1>19. Users(v, V)
  BY <1>1, <1>7, <1>8, <1>17, <1>18 DEF Users
<1>20. h.dv # b
  BY <1>1, <1>3, <1>9 DEF Victim
<1>21. Victim(v)
  BY <1>1, <1>4, <1>8, <1>20 DEF Victim, IsFree
<1>22. Bins(v)
  <2>1. BinsOnce(v) /\ \A s \in Sizes : \A a : InBin(v, s, a) <=> InBin(h, s, a)
    BY <1>1, <1>4 DEF Bins, BinsOnce, InBin
  <2>2. ASSUME NEW s \in Sizes, NEW a
        PROVE  InBin(v, s, a) <=> IsFree(v, a) /\ a # v.dv /\ a # v.top /\ s = Size(v, a)
    <3>1. InBin(h, s, a) <=> IsFree(h, a) /\ a # h.dv /\ a # h.top /\ s = Size(h, a)
      BY <1>1 DEF Bins
    <3>2. CASE a = b
      BY <1>7, <1>9, <2>1, <3>1, <3>2
    <3>3. CASE a # b
      BY <1>4, <1>8, <2>1, <3>1, <3>3 DEF IsFree
    <3> QED
      BY <3>2, <3>3
  <2> QED
    BY <2>1, <2>2 DEF Bins
<1>23. SameSizes(h, v, U)
  BY <1>1, <1>8, <1>18 DEF SameSizes, Users, IsUsed
<1>24. Memory(v, {})
  BY <1>2, <1>4, <1>11, <1>12, <1>13, <1>14, <1>15 DEF Memory
<1> QED
  BY <1>1, <1>4, <1>16, <1>18, <1>19, <1>21, <1>22, <1>23, <1>24 DEF Sound

\* Two heaps that are the same but for the head at q.
AlikeBut(x, w, q) ==
    /\ x \in HeapSet /\ w \in HeapSet /\ q \in Addr
    /\ (\A a \in Addr : a # q => x.head[a] = w.head[a])
    /\ x.foot = w.foot /\ x.bin = w.bin
    /\ SameVictim(x, w) /\ SameTop(x, w) /\ SameSystem(x, w)
    /\ x.trim_check = w.trim_check /\ x.aborted = w.aborted

LEMMA AlikeSteps ==
  ASSUME NEW x, NEW w, NEW q, AlikeBut(x, w, q), NEW y, NEW v, MemoryStep(y, x), MemoryStep(v, w),
         \A a \in Addr : a # q => y.head[a] = v.head[a], \A a \in Addr : y.foot[a] = v.foot[a]
  PROVE  AlikeBut(y, v, q)
<1>1. y \in HeapSet /\ v \in HeapSet
  BY DEF MemoryStep
<1>2. y.foot = v.foot
  BY <1>1, Fields
<1>3. /\ y.bin = v.bin /\ SameVictim(y, v) /\ SameTop(y, v) /\ SameSystem(y, v)
      /\ y.trim_check = v.trim_check /\ y.aborted = v.aborted /\ q \in Addr
  BY DEF MemoryStep, AlikeBut, SameVictim, SameTop, SameSystem
<1> QED
  BY <1>1, <1>2, <1>3 DEF AlikeBut

LEMMA AlikeErased ==
  ASSUME NEW x, NEW w, NEW q, AlikeBut(x, w, q), NEW n \in Addr
  PROVE  AlikeBut(erase(x, n), erase(w, n), q)
<1> DEFINE y == erase(x, n)
           v == erase(w, n)
<1>1. x \in HeapSet /\ w \in HeapSet /\ x.foot = w.foot /\ \A a \in Addr : a # q => x.head[a] = w.head[a]
  BY DEF AlikeBut
<1>2. MemoryStep(y, x) /\ y.head = Put(x.head, n, Blank) /\ y.foot = Put(x.foot, n, 0)
  BY <1>1, Erase
<1>3. MemoryStep(v, w) /\ v.head = Put(w.head, n, Blank) /\ v.foot = Put(w.foot, n, 0)
  BY <1>1, Erase
<1> HIDE DEF y, v
<1>4. \A a \in Addr : a # q => y.head[a] = v.head[a]
  BY <1>1, <1>2, <1>3, Fields DEF Put
<1>5. \A a \in Addr : y.foot[a] = v.foot[a]
  BY <1>1, <1>2, <1>3, Fields DEF Put
<1>6. AlikeBut(y, v, q)
  BY <1>2, <1>3, <1>4, <1>5, AlikeSteps
<1> QED
  BY <1>6 DEF y, v

LEMMA AlikeFreed ==
  ASSUME NEW x, NEW w, NEW q, AlikeBut(x, w, q), NEW s \in Int, q + s \in Addr
  PROVE  set_size_and_pinuse_of_free_chunk(x, q, s) = set_size_and_pinuse_of_free_chunk(w, q, s)
<1> DEFINE y == set_size_and_pinuse_of_free_chunk(x, q, s)
           v == set_size_and_pinuse_of_free_chunk(w, q, s)
<1>1. x \in HeapSet /\ w \in HeapSet /\ x.foot = w.foot /\ (\A a \in Addr : a # q => x.head[a] = w.head[a]) /\ q \in Addr
  BY DEF AlikeBut
<1>2. MemoryStep(y, x) /\ y.head = Put(x.head, q, FreeHead(s)) /\ y.foot = Put(x.foot, q + s, s)
  BY <1>1, SetFree
<1>3. MemoryStep(v, w) /\ v.head = Put(w.head, q, FreeHead(s)) /\ v.foot = Put(w.foot, q + s, s)
  BY <1>1, SetFree
<1> HIDE DEF y, v
<1>4. \A a \in Addr : y.head[a] = v.head[a]
  BY <1>1, <1>2, <1>3, Fields DEF Put
<1>5. \A a \in Addr : y.foot[a] = v.foot[a]
  BY <1>1, <1>2, <1>3
<1>6. AlikeBut(y, v, q)
  BY <1>2, <1>3, <1>4, <1>5, AlikeSteps
<1>7. y = v
  <2>1. y.head = v.head
    BY <1>4, <1>6, Fields DEF AlikeBut
  <2> QED
    BY <1>6, <2>1, SameRecord DEF AlikeBut
<1> QED
  BY <1>7 DEF y, v

LEMMA AlikeTop ==
  ASSUME NEW x, NEW w, NEW q, AlikeBut(x, w, q), NEW s \in Int
  PROVE  set_head(x, q, s, FALSE, TRUE) = set_head(w, q, s, FALSE, TRUE)
<1>1. x \in HeapSet /\ w \in HeapSet /\ x.foot = w.foot /\ (\A a \in Addr : a # q => x.head[a] = w.head[a]) /\ q \in Addr
  BY DEF AlikeBut
<1> DEFINE y == set_head(x, q, s, FALSE, TRUE)
           v == set_head(w, q, s, FALSE, TRUE)
<1>2. MemoryStep(y, x) /\ y.foot = x.foot /\ y.head = Put(x.head, q, FreeHead(s))
  BY <1>1, SetFreeHead
<1>3. MemoryStep(v, w) /\ v.foot = w.foot /\ v.head = Put(w.head, q, FreeHead(s))
  BY <1>1, SetFreeHead
<1> HIDE DEF y, v
<1>4. \A a \in Addr : y.head[a] = v.head[a]
  BY <1>1, <1>2, <1>3, Fields DEF Put
<1>5. \A a \in Addr : y.foot[a] = v.foot[a]
  BY <1>1, <1>2, <1>3
<1>6. AlikeBut(y, v, q)
  BY <1>2, <1>3, <1>4, <1>5, AlikeSteps
<1>7. y = v
  <2>1. y.head = v.head
    BY <1>4, <1>6, Fields DEF AlikeBut
  <2> QED
    BY <1>6, <2>1, SameRecord DEF AlikeBut
<1> QED
  BY <1>7 DEF y, v

LEMMA AlikeTold ==
  ASSUME NEW x, NEW w, NEW q, AlikeBut(x, w, q), NEW n \in Addr, n # q
  PROVE  AlikeBut([x EXCEPT !.head[n].pinuse = FALSE], [w EXCEPT !.head[n].pinuse = FALSE], q)
<1> DEFINE y == [x EXCEPT !.head[n].pinuse = FALSE]
           v == [w EXCEPT !.head[n].pinuse = FALSE]
<1>1. x \in HeapSet /\ w \in HeapSet /\ x.foot = w.foot /\ \A a \in Addr : a # q => x.head[a] = w.head[a]
  BY DEF AlikeBut
<1>2. MemoryStep(y, x) /\ y.foot = x.foot /\ y.head = Put(x.head, n, BehindFree(x.head[n]))
  BY <1>1, TellFree
<1>3. MemoryStep(v, w) /\ v.foot = w.foot /\ v.head = Put(w.head, n, BehindFree(w.head[n]))
  BY <1>1, TellFree
<1> HIDE DEF y, v
<1>4. \A a \in Addr : a # q => y.head[a] = v.head[a]
  BY <1>1, <1>2, <1>3, Fields DEF Put
<1>5. \A a \in Addr : y.foot[a] = v.foot[a]
  BY <1>1, <1>2, <1>3
<1>6. AlikeBut(y, v, q)
  BY <1>2, <1>3, <1>4, <1>5, AlikeSteps
<1> QED
  BY <1>6 DEF y, v

\* pinuse is cleared that has not been set.
LEMMA AlreadyTold ==
  ASSUME NEW h \in HeapSet, NEW n \in Addr, ~h.head[n].pinuse
  PROVE  [h EXCEPT !.head[n].pinuse = FALSE] = h
<1> DEFINE g == [h EXCEPT !.head[n].pinuse = FALSE]
<1>1. MemoryStep(g, h) /\ g.foot = h.foot /\ g.head = Put(h.head, n, BehindFree(h.head[n]))
  BY TellFree
<1> HIDE DEF g
<1>2. BehindFree(h.head[n]) = h.head[n]
  <2> DEFINE x == h.head[n]
  <2>1. x \in HeadSet /\ ~x.pinuse
    BY HeadTypes
  <2> HIDE DEF x
  <2>2. BehindFree(x) = x
    BY <2>1 DEF BehindFree, HeadSet
  <2> QED
    BY <2>2 DEF x
<1>3. g.head = h.head /\ g \in HeapSet
  BY <1>1, <1>2, Fields DEF Put, MemoryStep
<1>4. g = h
  BY <1>1, <1>3, SameRecord DEF MemoryStep
<1> QED
  BY <1>4 DEF g

LEMMA AlikeUnlinked ==
  ASSUME NEW x, NEW w, NEW q, AlikeBut(x, w, q), NEW n, NEW s \in Sizes, BinsOnce(x), InBin(x, s, n)
  PROVE  AlikeBut(unlink_chunk(x, n, s), unlink_chunk(w, n, s), q)
<1>1. x \in HeapSet /\ w \in HeapSet /\ x.bin = w.bin /\ q \in Addr
  BY DEF AlikeBut
<1>2. BinsOnce(w) /\ InBin(w, s, n)
  BY <1>1 DEF BinsOnce, InBin
<1> DEFINE list == Without(x.bin[s], n)
           y == [x EXCEPT !.bin = [x.bin EXCEPT ![s] = list]]
           v == [w EXCEPT !.bin = [w.bin EXCEPT ![s] = list]]
<1>3. x.bin[s] \in Seq(Int) /\ list \in Seq(Int)
  <2>1. x.bin[s] \in Seq(Int)
    BY <1>1 DEF HeapSet
  <2> QED
    BY <2>1, Removed DEF InBin, BinsOnce
<1>4. unlink_chunk(x, n, s) = y
  <2>1. Binned(x, n, s)
    BY DEF InBin, Elems, Binned
  <2>2. Require(x, Binned(x, n, s)) = x
    BY <1>1, <2>1, Requires
  <2>3. unlink_chunk(x, n, s) = [x EXCEPT !.bin[s] = Without(@, n)]
    BY <2>2 DEF unlink_chunk, unlink_small_chunk, unlink_large_chunk
  <2> QED
    BY <1>1, <2>3 DEF HeapSet
<1>5. unlink_chunk(w, n, s) = v
  <2>1. Binned(w, n, s)
    BY <1>2 DEF InBin, Elems, Binned
  <2>2. Require(w, Binned(w, n, s)) = w
    BY <1>1, <2>1, Requires
  <2>3. unlink_chunk(w, n, s) = [w EXCEPT !.bin[s] = Without(@, n)]
    BY <2>2 DEF unlink_chunk, unlink_small_chunk, unlink_large_chunk
  <2> QED
    BY <1>1, <2>3 DEF HeapSet
<1> HIDE DEF list
<1>6. BinStep(y, x) /\ y.aborted = x.aborted
  BY <1>1, <1>3, ListWritten
<1>7. BinStep(v, w) /\ v.aborted = w.aborted
  BY <1>1, <1>3, ListWritten
<1>8. y.bin = v.bin
  BY <1>1 DEF HeapSet
<1> HIDE DEF y, v
<1>9. AlikeBut(y, v, q)
  BY <1>6, <1>7, <1>8 DEF AlikeBut, BinStep, SameVictim, SameTop, SameSystem
<1> QED
  BY <1>4, <1>5, <1>9

\* set_inuse, by the heap it leads to.
LEMMA InuseOf ==
  ASSUME NEW h \in HeapSet, NEW p \in Addr, NEW s \in Int, s > 0, NEW e \in Addr, e = p + s,
         NEW g, g = set_inuse(h, p, s)
  PROVE  /\ MemoryStep(g, h) /\ g.foot = h.foot
         /\ g.head = Put(Put(h.head, p, InUseHead(s, h.head[p])), e, BehindUsed(h.head[e]))
BY SetInuse

\* What prepend_alloc starts from: a chunk in use from b to o, cut at q.
PrependParts(h, v, k, V, b, q, o) ==
    /\ h \in HeapSet /\ v \in HeapSet /\ v = set_size_and_pinuse_of_inuse_chunk(h, b, o - b)
    /\ k = SplitAt(v, b, q, o) /\ b \in Addr /\ q \in Addr /\ o \in Addr /\ b < q /\ q < o
    /\ b \in Int /\ q \in Int /\ o \in Int /\ 2 <= o - q
    /\ v.head[o].pinuse /\ Empty(v, b, o)
    /\ Sound(k, V, {o}) /\ q \in V /\ Past(k, q) = o /\ Size(k, q) = o - q /\ k.head[q].pinuse

LEMMA PrependHeads ==
  ASSUME NEW h, NEW v, NEW k, NEW V, NEW b, NEW q, NEW o, PrependParts(h, v, k, V, b, q, o),
         NEW w, w = set_size_and_pinuse_of_inuse_chunk(h, b, q - b)
  PROVE  /\ AlikeBut(w, k, q) /\ k.head[o] = h.head[o] /\ k.top = h.top /\ k.topsize = h.topsize
         /\ k.dv = h.dv /\ k.dvsize = h.dvsize /\ k.bin = h.bin
<1>1. /\ h \in HeapSet /\ v \in HeapSet /\ b \in Addr /\ q \in Addr /\ o \in Addr /\ b < q /\ q < o
      /\ b \in Int /\ q \in Int /\ o \in Int /\ v.head[o].pinuse /\ Empty(v, b, o)
      /\ v = set_size_and_pinuse_of_inuse_chunk(h, b, o - b) /\ k = SplitAt(v, b, q, o)
  BY DEF PrependParts
<1>2. MemoryStep(w, h) /\ w.foot = h.foot /\ w.head = Put(h.head, b, UsedHead(q - b))
  BY <1>1, SetInuseOnly
<1>3. MemoryStep(v, h) /\ v.foot = h.foot /\ v.head = Put(h.head, b, UsedHead(o - b))
  BY <1>1, SetInuseOnly
<1> DEFINE k1 == set_inuse(v, b, q - b)
<1>4. b + (q - b) = q /\ q + (o - q) = o /\ q - b > 0 /\ o - q > 0 /\ q - b \in Int /\ o - q \in Int
      /\ b # q /\ q # o /\ b # o
  BY <1>1
<1>5. /\ MemoryStep(k1, v) /\ k1.foot = v.foot
      /\ k1.head = Put(Put(v.head, b, InUseHead(q - b, v.head[b])), q, BehindUsed(v.head[q]))
  BY <1>1, <1>4, SetInuse, ZenonT(60)
<1>6. k = set_inuse(k1, q, o - q) /\ k1 \in HeapSet
  BY <1>1, <1>5 DEF SplitAt, MemoryStep
<1> HIDE DEF k1
<1>7. /\ MemoryStep(k, k1) /\ k.foot = k1.foot
      /\ k.head = Put(Put(k1.head, q, InUseHead(o - q, k1.head[q])), o, BehindUsed(k1.head[o]))
  <2>1. k1 \in HeapSet /\ q \in Addr /\ o \in Addr /\ o - q \in Int /\ o - q > 0 /\ o = q + (o - q)
    BY <1>1, <1>4, <1>6
  <2>2. k = set_inuse(k1, q, o - q)
    BY <1>6
  <2> QED
    BY <2>1, <2>2, InuseOf
<1>8. \A a \in Addr : /\ k1.head[a] = IF a = q THEN BehindUsed(v.head[q])
                                      ELSE IF a = b THEN InUseHead(q - b, v.head[b]) ELSE v.head[a]
                      /\ k.head[a] = IF a = o THEN BehindUsed(k1.head[o])
                                     ELSE IF a = q THEN InUseHead(o - q, k1.head[q]) ELSE k1.head[a]
                      /\ v.head[a] = IF a = b THEN UsedHead(o - b) ELSE h.head[a]
                      /\ w.head[a] = IF a = b THEN UsedHead(q - b) ELSE h.head[a]
  <2> SUFFICES ASSUME NEW a \in Addr
               PROVE  /\ k1.head[a] = IF a = q THEN BehindUsed(v.head[q])
                                      ELSE IF a = b THEN InUseHead(q - b, v.head[b]) ELSE v.head[a]
                      /\ k.head[a] = IF a = o THEN BehindUsed(k1.head[o])
                                     ELSE IF a = q THEN InUseHead(o - q, k1.head[q]) ELSE k1.head[a]
                      /\ v.head[a] = IF a = b THEN UsedHead(o - b) ELSE h.head[a]
                      /\ w.head[a] = IF a = b THEN UsedHead(q - b) ELSE h.head[a]
    OBVIOUS
  <2>1. k1.head[a] = IF a = q THEN BehindUsed(v.head[q])
                     ELSE IF a = b THEN InUseHead(q - b, v.head[b]) ELSE v.head[a]
    BY <1>1, <1>5, Fields DEF Put
  <2>2. k.head[a] = IF a = o THEN BehindUsed(k1.head[o])
                    ELSE IF a = q THEN InUseHead(o - q, k1.head[q]) ELSE k1.head[a]
    BY <1>1, <1>6, <1>7, Fields DEF Put
  <2>3. v.head[a] = IF a = b THEN UsedHead(o - b) ELSE h.head[a]
    BY <1>1, <1>3, Fields DEF Put
  <2>4. w.head[a] = IF a = b THEN UsedHead(q - b) ELSE h.head[a]
    BY <1>1, <1>2, Fields DEF Put
  <2> QED
    BY <2>1, <2>2, <2>3, <2>4
<1>9. InUseHead(q - b, v.head[b]) = UsedHead(q - b)
  <2>1. v.head[b] = UsedHead(o - b)
    BY <1>1, <1>8
  <2>2. v.head[b].pinuse = TRUE
    BY <2>1 DEF UsedHead
  <2> QED
    BY <2>2 DEF InUseHead, UsedHead
<1>10. BehindUsed(k1.head[o]) = h.head[o]
  <2>1. k1.head[o] = h.head[o] /\ h.head[o] = v.head[o]
    BY <1>1, <1>4, <1>8
  <2> DEFINE y == h.head[o]
  <2>2. y \in HeadSet /\ y.pinuse
    BY <1>1, <2>1, HeadTypes
  <2> HIDE DEF y
  <2>3. BehindUsed(y) = y
    BY <2>2 DEF BehindUsed, HeadSet
  <2> QED
    BY <2>1, <2>3 DEF y
<1>11. k.head[o] = h.head[o]
  BY <1>1, <1>8, <1>10
<1>12. \A a \in Addr : a # q => w.head[a] = k.head[a]
  <2> SUFFICES ASSUME NEW a \in Addr, a # q
               PROVE  w.head[a] = k.head[a]
    OBVIOUS
  <2>1. CASE a = o
    BY <1>4, <1>8, <1>11, <2>1
  <2>2. CASE a = b
    <3>1. k.head[a] = InUseHead(q - b, v.head[b])
      BY <1>4, <1>8, <2>2
    <3> QED
      BY <1>8, <1>9, <2>2, <3>1
  <2>3. CASE a # o /\ a # b
    BY <1>8, <2>3
  <2> QED
    BY <2>1, <2>2, <2>3
<1>13. /\ w \in HeapSet /\ k \in HeapSet /\ w.foot = k.foot /\ w.bin = k.bin
       /\ SameVictim(w, k) /\ SameTop(w, k) /\ SameSystem(w, k)
       /\ w.trim_check = k.trim_check /\ w.aborted = k.aborted
       /\ k.top = h.top /\ k.topsize = h.topsize /\ k.dv = h.dv /\ k.dvsize = h.dvsize /\ k.bin = h.bin
  BY <1>2, <1>3, <1>5, <1>7 DEF MemoryStep, SameVictim, SameTop, SameSystem
<1> QED
  BY <1>1, <1>11, <1>12, <1>13 DEF AlikeBut

\* What prepend_alloc does is what freeing the rest would do.
LEMMA PrependFrees ==
  ASSUME NEW h, NEW v, NEW k, NEW V, NEW b, NEW q, NEW o, PrependParts(h, v, k, V, b, q, o)
  PROVE  prepend_alloc(h, b, o, q - b) = Returns(consolidate(k, q, Size(k, q)).heap, b)
<1> DEFINE s == o - q
           m == h.head[o].size
           w == set_size_and_pinuse_of_inuse_chunk(h, b, q - b)
           g == consolidate(k, q, Size(k, q)).heap
<1>1. /\ h \in HeapSet /\ b \in Addr /\ q \in Addr /\ o \in Addr /\ b < q /\ q < o
      /\ b \in Int /\ q \in Int /\ o \in Int /\ 2 <= o - q
      /\ Sound(k, V, {o}) /\ q \in V /\ Past(k, q) = o /\ Size(k, q) = o - q /\ k.head[q].pinuse
  BY DEF PrependParts
<1>2. /\ AlikeBut(w, k, q) /\ k.head[o] = h.head[o] /\ k.top = h.top /\ k.topsize = h.topsize
      /\ k.dv = h.dv /\ k.dvsize = h.dvsize /\ k.bin = h.bin
  BY PrependHeads
<1>3. /\ Memory(k, {o}) /\ k \in HeapSet /\ Users(k, V) /\ Victim(k) /\ Bins(k) /\ TagsAgree(k) /\ k.head[o].pinuse
      /\ Kinds(k)
  BY <1>1 DEF Sound, Memory
<1>4. IsUsed(k, q) /\ q # k.dv
  <2>1. IsUsed(k, q)
    BY <1>1, <1>3 DEF Users
  <2>2. q # Null
    BY <1>1, <1>3, <2>1, ChunkIsHeader, HeaderPlace DEF IsChunk
  <2> QED
    BY <1>3, <2>1, <2>2 DEF Victim, IsUsed, IsFree
<1>5. FrontOf(k, q) = q /\ Detached(k, q) = k
  BY <1>1 DEF FrontOf, Detached
<1>6. s \in Int /\ q + s = o /\ s = (q - b) + 0 + s - (q - b)
  BY <1>1
<1> HIDE DEF g
<1>7. /\ k.head[o].cinuse => g = Rebinned(k, set_free_with_pinuse(k, q, s, o), q, s)
      /\ ~k.head[o].cinuse /\ o = k.top => g = MergedIntoTop(k, k, q, o)
      /\ ~k.head[o].cinuse /\ o # k.top /\ o = k.dv => g = MergedIntoDv(k, k, q, o)
      /\ ~k.head[o].cinuse /\ o # k.top /\ o # k.dv =>
            g = Rebinned(k, set_size_and_pinuse_of_free_chunk(
                               erase(unlink_chunk(k, o, k.head[o].size), o),
                               q, s + k.head[o].size),
                         q, s + k.head[o].size)
  <2>1. g = consolidate(k, q, Size(k, q)).heap
    BY DEF g
  <2>2. q = FrontOf(k, q) /\ o = q + Size(k, q) /\ Size(k, q) \in Int
    BY <1>1, <1>5
  <2> QED
    BY <1>1, <1>3, <1>4, <1>5, <2>1, <2>2, ConsolidateCases
<1>8. \A x, t : Rebinned(k, x, q, t) = insert_chunk(x, q, t)
  BY <1>4 DEF Rebinned
<1>9. Require(h, o - (b + (q - b)) >= MinChunk /\ h.head[o].pinuse) = h
  <2>1. o - (b + (q - b)) >= MinChunk
    BY <1>1 DEF MinChunk
  <2>2. h.head[o].pinuse
    BY <1>2, <1>3
  <2> QED
    BY <1>1, <2>1, <2>2, Requires
<1>10. b + (q - b) = q
  BY <1>1
<1>11. prepend_alloc(h, b, o, q - b)
       = Returns(
          IF o = h.top
          THEN [set_head(erase(w, o), q, h.topsize + s, FALSE, TRUE)
                  EXCEPT !.top = q, !.topsize = h.topsize + s]
          ELSE IF o = h.dv
          THEN [set_size_and_pinuse_of_free_chunk(erase(w, o), q, h.dvsize + s)
                  EXCEPT !.dv = q, !.dvsize = h.dvsize + s]
          ELSE IF ~is_inuse(h, o)
          THEN insert_chunk(set_free_with_pinuse(erase(unlink_chunk(w, o, m), o), q, s + m, o + m), q, s + m)
          ELSE insert_chunk(set_free_with_pinuse(w, q, s, o), q, s),
          b)
  BY <1>9, <1>10 DEF prepend_alloc
<1>12. m \in Int /\ h.topsize \in Int /\ h.dvsize \in Int
  BY <1>1, HeadTypes DEF HeapSet, Size
<1>13. is_inuse(h, o) <=> k.head[o].cinuse
  BY <1>2, <1>3 DEF is_inuse
<1>14. o = k.top \/ o = k.dv => ~k.head[o].cinuse
  <2>1. o # Null
    BY <1>1, Places DEF Null
  <2>2. k.top = Null \/ IsFree(k, k.top)
    BY <1>3, TopPlace
  <2> QED
    BY <1>3, <2>1, <2>2 DEF Victim, IsFree
<1> HIDE DEF s, m, w
<1>15. w \in HeapSet /\ AlikeBut(w, k, q)
  BY <1>2 DEF AlikeBut
<1>16. CASE o = h.top
  <2> DEFINE t == h.topsize + s
             x == set_head(erase(w, o), q, t, FALSE, TRUE)
             y == set_head(erase(k, o), q, t, FALSE, TRUE)
  <2>1. t \in Int
    BY <1>6, <1>12
  <2>2. AlikeBut(erase(w, o), erase(k, o), q)
    BY <1>1, <1>15, AlikeErased
  <2> HIDE DEF t
  <2>3. x = y
    BY <2>1, <2>2, AlikeTop
  <2>4. y \in HeapSet /\ y.dv = k.dv /\ y.dvsize = k.dvsize
    <3>1. MemoryStep(erase(k, o), k)
      BY <1>1, <1>3, Erase
    <3>2. erase(k, o) \in HeapSet
      BY <3>1 DEF MemoryStep
    <3>3. MemoryStep(y, erase(k, o))
      BY <1>1, <2>1, <3>2, SetFreeHead
    <3> QED
      BY <3>1, <3>3 DEF MemoryStep, SameVictim
  <2>5. g = [y EXCEPT !.top = q, !.topsize = t, !.dv = @, !.dvsize = @]
    <3>1. g = MergedIntoTop(k, k, q, o)
      BY <1>2, <1>7, <1>14, <1>16
    <3>2. MergedIntoTop(k, k, q, o) = [y EXCEPT !.top = q, !.topsize = t, !.dv = @, !.dvsize = @]
      BY <1>2, <1>4 DEF MergedIntoTop, t, s
    <3> QED
      BY <3>1, <3>2
  <2>6. prepend_alloc(h, b, o, q - b) = Returns([x EXCEPT !.top = q, !.topsize = t], b)
    BY <1>11, <1>16 DEF t
  <2> HIDE DEF x, y
  <2>7. [y EXCEPT !.top = q, !.topsize = t, !.dv = @, !.dvsize = @] = [y EXCEPT !.top = q, !.topsize = t]
    BY <2>4 DEF HeapSet
  <2> QED
    BY <2>3, <2>5, <2>6, <2>7 DEF g
<1>17. CASE o # h.top /\ o = h.dv
  <2> DEFINE t == h.dvsize + s
             x == set_size_and_pinuse_of_free_chunk(erase(w, o), q, t)
             y == set_size_and_pinuse_of_free_chunk(erase(k, o), q, t)
  <2>1. t \in Int /\ q + t \in Addr
    <3>1. IsFree(k, o) /\ k.dvsize = Size(k, o) /\ o # Null
      <4>1. o # Null
        BY <1>1, Places DEF Null
      <4> QED
        BY <1>2, <1>3, <1>17, <4>1 DEF Victim
    <3>2. Past(k, o) \in Addr /\ Past(k, o) = o + Size(k, o)
      BY <1>3, <3>1, ChunkFacts DEF IsChunk
    <3>3. h.dvsize = Size(k, o) /\ Size(k, o) \in Int
      BY <1>2, <1>12, <3>1
    <3>4. q + (h.dvsize + s) = o + Size(k, o)
      BY <1>1, <1>6, <3>3
    <3> QED
      BY <1>6, <1>12, <3>2, <3>4
  <2>2. AlikeBut(erase(w, o), erase(k, o), q)
    BY <1>1, <1>15, AlikeErased
  <2>3. g = MergedIntoDv(k, k, q, o)
    BY <1>2, <1>7, <1>14, <1>17
  <2>4. MergedIntoDv(k, k, q, o) = [y EXCEPT !.dv = q, !.dvsize = t]
    BY <1>2 DEF MergedIntoDv, s
  <2>5. prepend_alloc(h, b, o, q - b) = Returns([x EXCEPT !.dv = q, !.dvsize = t], b)
    BY <1>11, <1>17
  <2> HIDE DEF t
  <2>6. x = y
    BY <2>1, <2>2, AlikeFreed
  <2> QED
    BY <2>3, <2>4, <2>5, <2>6 DEF g
<1>18. CASE o # h.top /\ o # h.dv /\ is_inuse(h, o)
  <2> DEFINE x0 == [w EXCEPT !.head[o].pinuse = FALSE]
             y0 == [k EXCEPT !.head[o].pinuse = FALSE]
  <2>1. AlikeBut(x0, y0, q)
    BY <1>1, <1>15, AlikeTold
  <2>2. set_free_with_pinuse(w, q, s, o) = set_size_and_pinuse_of_free_chunk(x0, q, s)
        /\ set_free_with_pinuse(k, q, s, o) = set_size_and_pinuse_of_free_chunk(y0, q, s)
    BY DEF set_free_with_pinuse
  <2> HIDE DEF x0, y0
  <2>3. set_size_and_pinuse_of_free_chunk(x0, q, s) = set_size_and_pinuse_of_free_chunk(y0, q, s)
    BY <1>1, <1>6, <2>1, AlikeFreed
  <2>4. g = insert_chunk(set_free_with_pinuse(k, q, s, o), q, s)
    BY <1>7, <1>8, <1>13, <1>18
  <2>5. prepend_alloc(h, b, o, q - b) = Returns(insert_chunk(set_free_with_pinuse(w, q, s, o), q, s), b)
    BY <1>11, <1>18
  <2> QED
    BY <2>2, <2>3, <2>4, <2>5 DEF g
<1>19. CASE o # h.top /\ o # h.dv /\ ~is_inuse(h, o)
  <2> DEFINE e == o + m
             x0 == erase(unlink_chunk(w, o, m), o)
             y0 == erase(unlink_chunk(k, o, m), o)
  <2>1. k.head[o].size = m /\ Size(k, o) = m
    BY <1>2 DEF m, Size
  <2>2. IsFree(k, o)
    BY <1>1, <1>3, <1>13, <1>19 DEF IsFree
  <2>3. m \in Sizes /\ e \in Addr /\ e = Past(k, o) /\ m > 0
    BY <1>3, <2>1, <2>2, ChunkFacts DEF IsChunk
  <2>4. InBin(k, m, o) /\ BinsOnce(k)
    BY <1>2, <1>3, <1>19, <2>1, <2>2, <2>3 DEF Bins
  <2>5. ~k.head[e].pinuse
    BY <1>1, <1>3, <2>2, <2>3 DEF TagsAgree
  <2>6. InBin(w, m, o) /\ BinsOnce(w)
    BY <1>15, <2>4 DEF InBin, BinsOnce, AlikeBut
  <2>7. AlikeBut(unlink_chunk(w, o, m), unlink_chunk(k, o, m), q)
    BY <1>15, <2>3, <2>6, AlikeUnlinked
  <2>8. AlikeBut(x0, y0, q)
    BY <1>1, <2>7, AlikeErased
  <2>9. e \in Int /\ e # q /\ e # o /\ s + m \in Int /\ q + (s + m) = e
    <3>1. e = o + m /\ s \in Int /\ q + s = o /\ m \in Int
      BY <1>6, <1>12
    <3> QED
      BY <1>1, <2>3, <3>1
  <2>10. ~x0.head[e].pinuse
    <3>1. BinStep(unlink_chunk(k, o, m), k)
      BY <1>3, <2>3, <2>4, UnlinkChunk
    <3> DEFINE u == unlink_chunk(k, o, m)
    <3>2. u \in HeapSet /\ u.head = k.head
      BY <3>1 DEF BinStep
    <3> HIDE DEF u
    <3>3. erase(u, o).head = Put(u.head, o, Blank)
      BY <1>1, <3>2, Erase
    <3>4. erase(u, o).head[e] = k.head[e]
      BY <2>3, <2>9, <3>2, <3>3, Fields DEF Put
    <3>5. y0.head[e] = k.head[e]
      BY <3>4 DEF u
    <3>6. x0.head[e] = y0.head[e]
      BY <2>3, <2>8, <2>9 DEF AlikeBut
    <3> QED
      BY <2>5, <3>5, <3>6
  <2>11. g = insert_chunk(set_size_and_pinuse_of_free_chunk(y0, q, s + m), q, s + m)
    BY <1>2, <1>7, <1>8, <1>13, <1>19, <2>1
  <2>12. prepend_alloc(h, b, o, q - b) = Returns(insert_chunk(set_free_with_pinuse(x0, q, s + m, e), q, s + m), b)
    BY <1>11, <1>19
  <2> HIDE DEF x0, y0, e
  <2>13. [x0 EXCEPT !.head[e].pinuse = FALSE] = x0
    BY <2>3, <2>8, <2>10, AlreadyTold DEF AlikeBut
  <2>14. set_free_with_pinuse(x0, q, s + m, e) = set_size_and_pinuse_of_free_chunk(x0, q, s + m)
    BY <2>13 DEF set_free_with_pinuse
  <2> DEFINE t == s + m
  <2>15. t \in Int /\ q + t \in Addr
    BY <2>3, <2>9
  <2> HIDE DEF t
  <2>16. set_size_and_pinuse_of_free_chunk(x0, q, t) = set_size_and_pinuse_of_free_chunk(y0, q, t)
    BY <2>8, <2>15, AlikeFreed
  <2> QED
    BY <2>11, <2>12, <2>14, <2>16 DEF g, t
<1> QED
  BY <1>16, <1>17, <1>18, <1>19

\* A region in front of a segment is used from its start; the rest is freed.
LEMMA RegionInFront ==
  ASSUME NEW h, NEW U, Sound(h, U, {}), NEW nb \in Int, 2 <= nb, NEW z, z = asize(nb),
         NEW b, PlacedAt(h, b, z), b # Null, WithinLimit(h, z),
         NEW i, i = SegAt(h, b + z), i # 0,
         NEW f, f = Lower(lower_least_addr(Got(h, z), b), i, b, z)
  PROVE  Provided(h, prepend_alloc(f, b, b + z, nb), U, nb)
<1> DEFINE m == lower_least_addr(Got(h, z), b)
           s == h.segs[i].size + z
           v == set_size_and_pinuse_of_inuse_chunk(f, b, z)
           q == b + nb
           o == b + z
           k == SplitAt(v, b, q, o)
           g == consolidate(k, q, Size(k, q)).heap
           V == (U \cup {b}) \cup {q}
<1>1. Memory(h, {}) /\ h \in HeapSet /\ h.segs \in Seq(SegSet) /\ Segments(h)
  BY DEF Sound, Memory, Segments
<1>2. z \in Int /\ nb + 6 <= z /\ b \in Int /\ z >= 2
  BY AskedFor DEF PlacedAt
<1>3. i \in Segs(h) /\ h.segs[i].base = b + z
  <2>1. i \in {j \in Segs(h) : h.segs[j].base = b + z}
    BY <1>1, SegFound, LenProperties DEF SegAt
  <2> QED
    BY <2>1
<1>4. h.segs[i].base \in Int /\ h.segs[i].size \in Int /\ h.segs[i].rec \in Int /\ s \in Int
  BY <1>1, <1>2, <1>3, SegTypes, SMTT(60)
<1>5. m = lower_least_addr(Got(h, z), b) /\ f = Lower(m, i, b, z) /\ v = set_size_and_pinuse_of_inuse_chunk(f, b, z)
      /\ q = b + nb /\ o = b + z /\ k = SplitAt(v, b, q, o) /\ g = consolidate(k, q, Size(k, q)).heap
      /\ V = (U \cup {b}) \cup {q}
  OBVIOUS
<1> HIDE DEF m, s, v, q, o, k, g, V
<1>6. GotStep(h, m, z) /\ m.least_addr \in Int /\ m.least_addr <= h.least_addr /\ m.least_addr <= b
  BY <1>1, <1>2, <1>5, LowerLeast
<1>7. f = Resegged(m, i, b, s)
  <2>1. m \in HeapSet /\ m.segs = h.segs /\ i \in Segs(m)
    BY <1>3, <1>6 DEF GotStep, Segs
  <2>2. Lower(m, i, b, z) = Resegged(m, i, b, m.segs[i].size + z)
    BY <1>2, <2>1, LongerResegged
  <2> QED
    BY <1>5, <2>1, <2>2 DEF s
<1>8. /\ f \in HeapSet /\ f.head = m.head /\ f.foot = m.foot /\ f.bin = m.bin /\ SameVictim(f, m) /\ SameTop(f, m)
      /\ f.aborted = m.aborted /\ f.footprint = m.footprint /\ f.max_footprint = m.max_footprint
      /\ f.footprint_limit = m.footprint_limit /\ f.least_addr = m.least_addr
      /\ Len(f.segs) = Len(m.segs) /\ f.segs \in Seq(SegSet)
      /\ \A j \in Segs(m) : /\ j # i => f.segs[j] = m.segs[j]
                            /\ j = i => f.segs[j].base = b /\ f.segs[j].size = s /\ f.segs[j].rec = m.segs[j].rec
  <2>1. m \in HeapSet /\ i \in Segs(m)
    BY <1>3, <1>6 DEF GotStep, Segs
  <2> QED
    BY <1>2, <1>4, <1>7, <2>1, ReseggedFields, SMTT(60)
<1>9. /\ f.head = h.head /\ f.foot = h.foot /\ f.bin = h.bin /\ SameVictim(f, h) /\ SameTop(f, h) /\ f.aborted = h.aborted
      /\ f.footprint = h.footprint + z /\ f.max_footprint = Larger(h.max_footprint, h.footprint + z)
      /\ f.footprint_limit = h.footprint_limit /\ f.least_addr <= h.least_addr /\ f.least_addr <= b
      /\ Len(f.segs) = Len(h.segs)
      /\ (\A j \in Segs(h) : j # i => f.segs[j] = h.segs[j])
      /\ f.segs[i].base = b /\ f.segs[i].size = s /\ f.segs[i].rec = h.segs[i].rec
  <2>1. m.segs = h.segs /\ Segs(m) = Segs(h)
    BY <1>6 DEF GotStep, Segs
  <2>2. (\A j \in Segs(h) : j # i => f.segs[j] = h.segs[j])
        /\ f.segs[i].base = b /\ f.segs[i].size = s /\ f.segs[i].rec = h.segs[i].rec
    BY <1>3, <1>8, <2>1
  <2> QED
    BY <1>6, <1>8, <2>1, <2>2 DEF GotStep, SameVictim, SameTop
<1>10. b \in Addr /\ o \in Addr /\ q \in Addr /\ o \in Int /\ q \in Int /\ b < q /\ q < o /\ o - q >= 2 /\ q - b = nb /\ o - b = z
  <2>1. o \in Addr /\ o \in Int
    BY <1>1, <1>3, <1>5, BaseHeader
  <2>2. b > 0
    BY Places DEF PlacedAt
  <2> QED
    BY <1>2, <1>5, <2>1, <2>2, Places
<1>11. MemoryStep(v, f) /\ v.foot = f.foot /\ v.head = Put(f.head, b, UsedHead(z))
  BY <1>2, <1>5, <1>8, <1>10, SetInuseOnly, SMTT(60)
<1>12. Extended(h, v, i, b, z)
  <2>1. /\ v \in HeapSet /\ v.bin = h.bin /\ SameVictim(v, h) /\ SameTop(v, h) /\ v.aborted = h.aborted
        /\ v.least_addr <= h.least_addr /\ v.least_addr <= b /\ v.segs = f.segs /\ v.foot = h.foot
    BY <1>9, <1>11 DEF MemoryStep, SameVictim, SameTop, SameSystem
  <2>2. EndOf(v.segs[i]) = EndOf(h.segs[i])
    <3>1. EndOf(v.segs[i]) = b + s
      BY <1>9, <2>1 DEF EndOf
    <3>2. EndOf(h.segs[i]) = (b + z) + h.segs[i].size
      BY <1>3 DEF EndOf
    <3>3. s = h.segs[i].size + z
      BY DEF s
    <3> QED
      BY <1>2, <1>4, <3>1, <3>2, <3>3
  <2>3. v.segs[i].size = h.segs[i].size + z
    BY <1>9, <2>1 DEF s
  <2>4. ASSUME NEW a \in Addr
        PROVE  v.head[a] = IF a = b THEN UsedHead(z) ELSE h.head[a]
    BY <1>1, <1>9, <1>10, <1>11, Fields DEF Put
  <2> QED
    BY <1>9, <2>1, <2>2, <2>3, <2>4 DEF Extended
<1>13. Sound(v, U \cup {b}, {}) /\ SameSizes(h, v, U) /\ b \notin U
  BY <1>2, <1>3, <1>12, ExtendedSound
<1>14. b \in U \cup {b} /\ Past(v, b) = o
  <2>1. v.head[b] = UsedHead(z)
    BY <1>10, <1>12 DEF Extended
  <2>2. v.head[b].size = z
    BY <2>1 DEF UsedHead
  <2> QED
    BY <1>5, <2>2 DEF Past
<1>15. Taken(v, v, b, o) /\ FreeRange(v, b, o)
  BY <1>13, <1>14, TakenSelf DEF FreeRange
<1>16. SplitPlace(b, q, o)
  BY <1>10 DEF SplitPlace
<1>17. IsSplit(v, k, U \cup {b}, {}, b, q, o)
  BY <1>5, <1>13, <1>14, <1>15, <1>16, TakenSplit
<1>18. /\ Sound(k, V, {o}) /\ SameSizes(v, k, (U \cup {b}) \ {b}) /\ Size(k, b) = nb /\ Size(k, q) = o - q
       /\ q \notin U \cup {b} /\ SameSystem(k, v) /\ Past(k, q) = o /\ k.head[q].pinuse /\ q \in V
  <2>1. FeetOutside({}, b, o) \cup {o} = {o}
    BY DEF FeetOutside
  <2>2. q \in V
    BY <1>5
  <2>3. /\ Sound(k, (U \cup {b}) \cup {q}, FeetOutside({}, b, o) \cup {o}) /\ SameSizes(v, k, (U \cup {b}) \ {b})
        /\ Size(k, b) = q - b /\ Size(k, q) = o - q
        /\ q \notin U \cup {b} /\ SameSystem(k, v) /\ Past(k, q) = o /\ k.head[q].pinuse
    BY <1>17 DEF IsSplit
  <2> QED
    BY <1>5, <1>10, <2>1, <2>2, <2>3
<1>19. v.head[o].pinuse /\ Empty(v, b, o)
  <2>1. IsChunk(v, b)
    BY <1>13 DEF Sound, Users, IsChunk
  <2>2. Memory(v, {})
    BY <1>13 DEF Sound
  <2> QED
    BY <1>13, <1>14, <2>1, <2>2, ChunkFacts, UsersPast
<1>20. PrependParts(f, v, k, V, b, q, o)
  <2>1. f \in HeapSet /\ v \in HeapSet
    BY <1>8, <1>11 DEF MemoryStep
  <2>2. v = set_size_and_pinuse_of_inuse_chunk(f, b, o - b)
    BY <1>5, <1>10
  <2>3. k = SplitAt(v, b, q, o)
    BY <1>5
  <2> QED
    BY <1>2, <1>10, <1>18, <1>19, <2>1, <2>2, <2>3 DEF PrependParts
<1>21. prepend_alloc(f, b, b + z, nb) = Returns(g, b)
  <2>1. prepend_alloc(f, b, o, q - b) = Returns(consolidate(k, q, Size(k, q)).heap, b)
    BY <1>20, PrependFrees
  <2> QED
    BY <1>5, <1>10, <2>1
<1>22. Sound(g, U \cup {b}, {}) /\ SameSizes(k, g, U \cup {b}) /\ SameSystem(g, k)
  <2>1. Sound(g, V \ {q}, {o} \ {Past(k, q)}) /\ SameSizes(k, g, V \ {q}) /\ SameSystem(g, k)
    BY <1>5, <1>18, Consolidated
  <2>2. V \ {q} = U \cup {b} /\ {o} \ {Past(k, q)} = {}
    BY <1>5, <1>18
  <2> QED
    BY <2>1, <2>2
<1>23. Sound(g, U \cup {b}, {Past(g, b)})
  BY <1>14, <1>22, SoundPast
<1>24. SameSizes(h, g, U) /\ Size(g, b) = nb
  BY <1>13, <1>18, <1>22 DEF SameSizes
<1>25. g.segs = f.segs /\ g.footprint = f.footprint /\ g.max_footprint = f.max_footprint
       /\ g.footprint_limit = f.footprint_limit
  BY <1>11, <1>18, <1>22 DEF MemoryStep, SameSystem
<1>26. g.head[b].pinuse
  <2>1. i \in Segs(g) /\ b = g.segs[i].base
    BY <1>3, <1>9, <1>25 DEF Segs
  <2>2. Memory(g, {})
    BY <1>22 DEF Sound
  <2> QED
    BY <2>1, <2>2, BaseHeader
<1>27. Allocated(h, Returns(g, b), U, nb)
  <2>1. Returns(g, b).heap = g /\ Returns(g, b).chunk = b
    BY DEF Returns
  <2> QED
    BY <1>13, <1>23, <1>24, <1>26, <2>1 DEF Allocated, MinChunk
<1>28. Ledger(h, g)
  <2>1. GrownBy(h, g, z)
    BY <1>9, <1>25 DEF GrownBy
  <2>2. \A j \in 1 .. Len(h.segs) : g.segs[j].size = IF j = i THEN h.segs[j].size + z ELSE h.segs[j].size
    BY <1>9, <1>25 DEF s, Segs
  <2>3. g.segs \in Seq(SegSet) /\ Len(g.segs) = Len(h.segs) /\ i \in 1 .. Len(h.segs)
    BY <1>3, <1>8, <1>9, <1>25 DEF Segs
  <2>4. SumGrows(h, g, z)
    BY <1>1, <1>2, <2>2, <2>3, OneGrowsSum DEF OneGrows
  <2> QED
    BY <1>1, <1>2, <2>1, <2>4, GrownLedger
<1> QED
  BY <1>21, <1>27, <1>28 DEF Provided, Malloced, Allocated, Returns

AddedHeads(h, w, b, n, f, t, old) ==
    \A a \in Addr :
        /\ w.head[a] = IF a = b THEN FreeHead(n) ELSE IF a = b + n THEN FakeHead
                       ELSE IF a = t THEN UsedHead(f - t) ELSE IF a = f THEN Fence
                       ELSE IF a = old THEN Blank ELSE h.head[a]
        /\ w.foot[a] = h.foot[a]

\* A segment apart from all others has been added in front of the list, with the
\* new top; the old top and what was behind it is one chunk in use, up to a fence
\* behind c, and c is the record of the old first segment.
Added(h, w, b, n, c) ==
    /\ w \in HeapSet /\ w.bin = h.bin /\ SameVictim(w, h) /\ w.aborted = h.aborted
    /\ w.least_addr <= h.least_addr /\ w.least_addr <= b
    /\ Len(w.segs) = Len(h.segs) + 1
    /\ w.segs[1].base = b /\ w.segs[1].size = n + TopFoot /\ w.segs[1].rec = Null
    /\ w.segs[2].base = h.segs[1].base /\ w.segs[2].size = h.segs[1].size /\ w.segs[2].rec = c
    /\ \A j \in Segs(h) \ {1} : w.segs[j + 1] = h.segs[j]
    /\ w.top = b /\ w.topsize = n
    /\ AddedHeads(h, w, b, n, c + SegRecord, h.top, h.top + h.topsize)

\* Where the record may be, and the region.
AddedAt(h, b, n, c) ==
    /\ c \in Int /\ c >= h.top /\ c <= h.top + h.topsize /\ c + SegRecord # h.top + h.topsize
    /\ n \in Int /\ n > 0 /\ PlacedAt(h, b, n + TopFoot)

\* The segments of h follow the new one.
AddedPlaces(h, w, b, n, f, t, old) ==
    /\ b \in Addr /\ b \in Int /\ b # Null /\ b + n \in Addr /\ b + n \in Int /\ b < b + n
    /\ t \in Addr /\ t \in Int /\ f \in Addr /\ f \in Int /\ old \in Addr /\ old \in Int /\ t < f /\ t < old /\ f # old
    /\ ~IsHeader(h, b) /\ ~IsHeader(h, b + n) /\ ~IsHeader(h, f)
    /\ b # t /\ b # f /\ b # old /\ b + n # t /\ b + n # f /\ b + n # old
    /\ 1 \in Segs(h) /\ InSeg(h, 1, t) /\ InSeg(h, 1, f) /\ InSeg(h, 1, old)
    /\ \A a : IsHeader(h, a) /\ InSeg(h, 1, a) => a <= t \/ a = old
    /\ \A a : IsHeader(h, a) => a < b \/ b + n < a
    /\ f < b \/ b + n < f
    /\ \A a, j : j \in Segs(h) => (InSeg(w, j + 1, a) <=> InSeg(h, j, a))
    /\ InSeg(w, 1, b) /\ InSeg(w, 1, b + n)
    /\ \A a : IsHeader(h, a) => ~InSeg(w, 1, a)
    /\ ~InSeg(w, 1, f)
    /\ \A j \in Segs(h) : ~InSeg(h, j, b) /\ ~InSeg(h, j, b + n)
    /\ 1 \in Segs(w) /\ \A j \in Segs(h) : j + 1 \in Segs(w)
    /\ \A j \in Segs(w) : j = 1 \/ (\E k \in Segs(h) : j = k + 1)

LEMMA AddedApart ==
  ASSUME NEW h, NEW X, Memory(h, X), h.segs # <<>>, NEW b, NEW n, NEW c, AddedAt(h, b, n, c),
         NEW w, Added(h, w, b, n, c), NEW f, f = c + SegRecord, NEW t, t = h.top, NEW old, old = h.top + h.topsize
  PROVE  AddedPlaces(h, w, b, n, f, t, old)
<1>1. /\ h \in HeapSet /\ Segments(h) /\ Kinds(h) /\ Tiles(h) /\ h.segs \in Seq(SegSet) /\ w.segs \in Seq(SegSet)
  BY DEF Memory, Segments, HeapSet, Added
<1>2. Granularity \in Int /\ Granularity > 7 /\ Limit \in Int /\ Addr = 0 .. Limit /\ TopFoot = 5 /\ SegRecord = 3
  BY Places, FixedHeads DEF SegRecord
<1>3. /\ b \in Int /\ b >= Granularity /\ b + (n + 5) <= Limit
      /\ \A j \in Segs(h) : b + (n + 5) <= h.segs[j].base \/ EndOf(h.segs[j]) <= b
      /\ c \in Int /\ c >= t /\ c <= old /\ c + 3 # old /\ n \in Int /\ n > 0
  <2>1. n + TopFoot = n + 5
    BY <1>2
  <2>2. c \in Int /\ c >= t /\ c <= old /\ c + SegRecord # old /\ n \in Int /\ n > 0 /\ PlacedAt(h, b, n + TopFoot)
    BY DEF AddedAt
  <2>3. PlacedAt(h, b, n + 5)
    BY <2>1, <2>2
  <2>4. c + 3 # old
    BY <1>2, <2>2
  <2> QED
    BY <2>2, <2>3, <2>4 DEF PlacedAt
<1>4. /\ 1 \in Segs(h) /\ InSeg(h, 1, t) /\ InSeg(h, 1, old) /\ t \in Addr /\ t \in Int /\ old \in Addr /\ old \in Int
      /\ t < old /\ EndOf(h.segs[1]) = old + 5 /\ h.segs[1].base \in Int /\ h.segs[1].base <= t
      /\ IsHeader(h, t) /\ IsHeader(h, old)
      /\ \A a : IsHeader(h, a) /\ InSeg(h, 1, a) => a <= t \/ a = old
  <2>1. TopAt(h, old)
    BY TopChunk
  <2>2. IsHeader(h, t)
    BY <2>1, ChunkIsHeader DEF TopAt
  <2> QED
    BY <1>2, <2>1, <2>2 DEF TopAt
<1>5. \A j \in Segs(h) : /\ h.segs[j].base \in Int /\ h.segs[j].size \in Int /\ h.segs[j].size > 0
                         /\ EndOf(h.segs[j]) = h.segs[j].base + h.segs[j].size /\ EndOf(h.segs[j]) \in Int
                         /\ EndOf(h.segs[j]) <= Limit
  BY <1>1, SegTypes DEF Segments, EndOf
<1>6. f \in Int /\ t < f /\ f # old /\ f < old + 5 /\ f \in Addr
  <2>1. f \in Int /\ t < f /\ f # old /\ f < old + 5
    BY <1>2, <1>3, <1>4
  <2>2. old + 5 <= Limit
    BY <1>4, <1>5
  <2> QED
    BY <1>2, <1>4, <2>1, <2>2
<1>7. InSeg(h, 1, f)
  BY <1>4, <1>6 DEF InSeg, segment_holds
<1>8. ~IsHeader(h, f)
  BY <1>4, <1>6, <1>7
<1>9. b \in Addr /\ b # Null /\ b + n \in Addr /\ b + n \in Int /\ b < b + n
  BY <1>2, <1>3 DEF Null
<1>10. ASSUME NEW a \in Int, NEW j \in Segs(h), InSeg(h, j, a)
       PROVE  a < b \/ b + (n + 5) <= a
  BY <1>3, <1>5, <1>10 DEF InSeg, segment_holds
<1>11. \A j \in Segs(h) : ~InSeg(h, j, b) /\ ~InSeg(h, j, b + n)
  BY <1>3, <1>9, <1>10
<1>12. ~IsHeader(h, b) /\ ~IsHeader(h, b + n)
  BY <1>1, <1>11 DEF Tiles, IsHeader
<1>13. b # t /\ b # f /\ b # old /\ b + n # t /\ b + n # f /\ b + n # old
  BY <1>4, <1>7, <1>11
<1>14. ASSUME NEW a, IsHeader(h, a)
       PROVE  a \in Int /\ (a < b \/ b + (n + 5) <= a)
  <2>1. a \in Int /\ a \in Addr
    BY <1>2, <1>14 DEF IsHeader
  <2>2. PICK j \in Segs(h) : InSeg(h, j, a)
    BY <1>1, <1>14, <2>1 DEF Tiles
  <2> QED
    BY <1>10, <2>1, <2>2
<1>15. /\ w.segs[1].base = b /\ EndOf(w.segs[1]) = b + (n + 5) /\ Len(w.segs) = Len(h.segs) + 1
       /\ w.segs[2].base = h.segs[1].base /\ EndOf(w.segs[2]) = EndOf(h.segs[1])
       /\ \A j \in Segs(h) \ {1} : w.segs[j + 1] = h.segs[j]
  BY <1>2 DEF Added, EndOf
<1>16. \A a, j : j \in Segs(h) => (InSeg(w, j + 1, a) <=> InSeg(h, j, a))
  <2> SUFFICES ASSUME NEW a, NEW j \in Segs(h)
               PROVE  InSeg(w, j + 1, a) <=> InSeg(h, j, a)
    OBVIOUS
  <2>1. CASE j = 1
    <3>1. j + 1 = 2
      BY <2>1
    <3> QED
      BY <1>15, <2>1, <3>1 DEF InSeg, segment_holds
  <2>2. CASE j # 1
    BY <1>15, <2>2 DEF InSeg
  <2> QED
    BY <2>1, <2>2
<1>17. InSeg(w, 1, b) /\ InSeg(w, 1, b + n)
  BY <1>3, <1>9, <1>15 DEF InSeg, segment_holds
<1>18. \A a \in Int : a < b \/ b + (n + 5) <= a => ~InSeg(w, 1, a)
  BY <1>3, <1>15 DEF InSeg, segment_holds
<1>19. (\A a : IsHeader(h, a) => ~InSeg(w, 1, a)) /\ ~InSeg(w, 1, f)
  BY <1>4, <1>6, <1>7, <1>10, <1>14, <1>18
<1>20. \A a : IsHeader(h, a) => a < b \/ b + n < a
  BY <1>3, <1>9, <1>14
<1>21. f < b \/ b + n < f
  BY <1>3, <1>4, <1>6, <1>7, <1>9, <1>10
<1>22. Len(h.segs) \in Nat
  BY <1>1, LenProperties
<1>23. 1 \in Segs(w) /\ \A j \in Segs(h) : j + 1 \in Segs(w)
  BY <1>15, <1>22 DEF Segs
<1>24. ASSUME NEW j \in Segs(w)
       PROVE  j = 1 \/ (\E k \in Segs(h) : j = k + 1)
  <2>1. j \in Int /\ j >= 1 /\ j <= Len(h.segs) + 1
    BY <1>15, <1>22 DEF Segs
  <2>2. j # 1 => j - 1 \in Segs(h) /\ j = (j - 1) + 1
    BY <1>22, <2>1 DEF Segs
  <2> QED
    BY <2>2
<1> QED
  BY <1>3, <1>4, <1>6, <1>7, <1>8, <1>9, <1>11, <1>12, <1>13, <1>16, <1>17, <1>19, <1>20, <1>21, <1>23, <1>24 DEF AddedPlaces

LEMMA AddedSegments ==
  ASSUME NEW h, NEW X, Memory(h, X), h.segs # <<>>, NEW b, NEW n, NEW c, AddedAt(h, b, n, c),
         NEW w, Added(h, w, b, n, c)
  PROVE  Segments(w)
<1> DEFINE f == c + SegRecord
           t == h.top
           old == h.top + h.topsize
<1>1. /\ h \in HeapSet /\ Segments(h) /\ Kinds(h) /\ Tiles(h) /\ h.segs \in Seq(SegSet) /\ w.segs \in Seq(SegSet)
      /\ h.least_addr \in Int /\ w.least_addr \in Int
  BY DEF Memory, Segments, HeapSet, Added
<1>2. AddedPlaces(h, w, b, n, f, t, old)
  BY AddedApart
<1>3. /\ b \in Addr /\ b \in Int /\ b + n \in Int /\ t \in Int /\ old \in Int /\ t < old
      /\ ~IsHeader(h, b) /\ ~IsHeader(h, b + n) /\ ~IsHeader(h, f) /\ b + n # b
      /\ 1 \in Segs(h) /\ InSeg(h, 1, t) /\ InSeg(h, 1, old)
      /\ 1 \in Segs(w) /\ (\A j \in Segs(h) : j + 1 \in Segs(w))
      /\ \A j \in Segs(w) : j = 1 \/ (\E k \in Segs(h) : j = k + 1)
  BY <1>2 DEF AddedPlaces
<1>4. /\ n \in Int /\ n > 0 /\ TopFoot = 5 /\ b >= Granularity /\ b + (n + 5) <= Limit
      /\ \A j \in Segs(h) : b + (n + 5) <= h.segs[j].base \/ EndOf(h.segs[j]) <= b
      /\ Granularity \in Int /\ Limit \in Int /\ Addr \subseteq Int
  BY Places, FixedHeads DEF AddedAt, PlacedAt
<1>5. /\ w.least_addr <= h.least_addr /\ w.least_addr <= b
      /\ w.segs[1].base = b /\ w.segs[1].size = n + TopFoot
      /\ w.segs[2].base = h.segs[1].base /\ w.segs[2].size = h.segs[1].size
      /\ \A j \in Segs(h) \ {1} : w.segs[j + 1] = h.segs[j]
      /\ AddedHeads(h, w, b, n, f, t, old)
  BY DEF Added
<1> HIDE DEF f, t, old
<1>6. \A j \in Segs(h) : /\ h.segs[j].base \in Int /\ h.segs[j].size \in Int /\ h.segs[j].size > 5 /\ j \in Int
                         /\ EndOf(h.segs[j]) = h.segs[j].base + h.segs[j].size /\ EndOf(h.segs[j]) \in Int
                         /\ EndOf(h.segs[j]) <= Limit /\ h.segs[j].base >= Granularity /\ h.least_addr <= h.segs[j].base
                         /\ IsHeader(h, h.segs[j].base)
  BY <1>1, SegTypes DEF Segments, EndOf
<1>7. \A j \in Segs(h) : w.segs[j + 1].base = h.segs[j].base /\ w.segs[j + 1].size = h.segs[j].size
                         /\ EndOf(w.segs[j + 1]) = EndOf(h.segs[j])
  <2> SUFFICES ASSUME NEW j \in Segs(h)
               PROVE  w.segs[j + 1].base = h.segs[j].base /\ w.segs[j + 1].size = h.segs[j].size
    BY DEF EndOf
  <2>1. CASE j = 1
    <3>1. j + 1 = 2
      BY <2>1
    <3> QED
      BY <1>5, <2>1, <3>1
  <2>2. CASE j # 1
    BY <1>5, <2>2
  <2> QED
    BY <2>1, <2>2
<1>8. EndOf(w.segs[1]) = b + (n + 5)
  BY <1>4, <1>5 DEF EndOf
<1>9. \A a \in Addr : IsHeader(h, a) /\ a # old => IsHeader(w, a)
  <2> SUFFICES ASSUME NEW a \in Addr, h.head[a] # Blank, a # old
               PROVE  w.head[a] # Blank
    BY DEF IsHeader
  <2>1. FreeHead(n) # Blank /\ FakeHead # Blank /\ UsedHead(f - t) # Blank /\ Fence # Blank
    <3>1. FreeHead(n).pinuse /\ UsedHead(f - t).pinuse /\ Fence.pinuse /\ ~Blank.pinuse
      BY FixedHeads DEF FreeHead, UsedHead
    <3>2. FakeHead.size = 5 /\ Blank.size = 0
      BY FixedHeads
    <3> QED
      BY <3>1, <3>2
  <2> QED
    BY <1>5, <2>1 DEF AddedHeads
<1>10. IsHeader(w, b)
  <2>1. FreeHead(n).pinuse /\ ~Blank.pinuse
    BY FixedHeads DEF FreeHead
  <2>2. w.head[b] = FreeHead(n)
    BY <1>3, <1>5 DEF AddedHeads
  <2> QED
    BY <1>3, <2>1, <2>2 DEF IsHeader
<1>11. ASSUME NEW j \in Segs(h)
       PROVE  IsHeader(w, h.segs[j].base)
  <2> DEFINE x == h.segs[j].base
  <2>1. IsHeader(h, x) /\ x \in Addr /\ x \in Int
    BY <1>6 DEF IsHeader
  <2>2. InSeg(h, j, x)
    BY <1>6 DEF InSeg, segment_holds
  <2>3. x # old
    <3>1. CASE j = 1
      BY <1>3, <1>6, <3>1 DEF InSeg, segment_holds
    <3>2. CASE j # 1
      <4>1. SUFFICES ASSUME x = old PROVE FALSE
        OBVIOUS
      <4>2. old <= old /\ InSeg(h, j, old)
        BY <1>3, <2>2, <4>1
      <4> HIDE DEF x
      <4> QED
        BY <1>1, <1>3, <3>2, <4>2, OneSegment
    <3> QED
      BY <3>1, <3>2
  <2> HIDE DEF x
  <2>4. IsHeader(w, x)
    BY <1>9, <2>1, <2>3
  <2> QED
    BY <2>4 DEF x
<1>12. ASSUME NEW j \in Segs(w)
       PROVE  /\ w.segs[j].base >= Granularity /\ w.segs[j].size > 5 /\ EndOf(w.segs[j]) <= Limit
              /\ w.least_addr <= w.segs[j].base /\ IsHeader(w, w.segs[j].base)
  <2>1. CASE j = 1
    BY <1>4, <1>5, <1>8, <1>10, <2>1
  <2>2. CASE j # 1
    <3>1. PICK k \in Segs(h) : j = k + 1
      BY <1>3, <2>2
    <3>2. w.least_addr <= h.segs[k].base
      BY <1>1, <1>5, <1>6
    <3>3. w.segs[j].base = h.segs[k].base /\ w.segs[j].size = h.segs[k].size /\ EndOf(w.segs[j]) = EndOf(h.segs[k])
      BY <1>7, <3>1
    <3> QED
      BY <1>6, <1>11, <3>2, <3>3
  <2> QED
    BY <2>1, <2>2
<1>13. ASSUME NEW j \in Segs(w), NEW k \in Segs(w), j # k
       PROVE  EndOf(w.segs[j]) <= w.segs[k].base \/ EndOf(w.segs[k]) <= w.segs[j].base
  <2>1. \A m \in Segs(h) : EndOf(w.segs[1]) <= w.segs[m + 1].base \/ EndOf(w.segs[m + 1]) <= w.segs[1].base
    BY <1>4, <1>5, <1>7, <1>8
  <2>2. CASE j = 1
    BY <1>3, <1>13, <2>1, <2>2
  <2>3. CASE k = 1
    BY <1>3, <1>13, <2>1, <2>3
  <2>4. CASE j # 1 /\ k # 1
    <3>1. PICK p \in Segs(h) : j = p + 1
      BY <1>3, <2>4
    <3>2. PICK r \in Segs(h) : k = r + 1
      BY <1>3, <2>4
    <3>3. p # r
      BY <1>13, <3>1, <3>2
    <3>4. EndOf(h.segs[p]) <= h.segs[r].base \/ EndOf(h.segs[r]) <= h.segs[p].base
      BY <1>1, <3>3 DEF Segments
    <3> QED
      BY <1>7, <3>1, <3>2, <3>4
  <2> QED
    BY <2>2, <2>3, <2>4
<1> QED
  BY <1>1, <1>12, <1>13 DEF Segments

\* What headers are then.
AddedOthers(h, w, b, e, f, t, old) ==
    \A a : IF a = b \/ a = e \/ a = f \/ a = t \/ a = old THEN TRUE
           ELSE /\ IsHeader(w, a) <=> IsHeader(h, a)
                /\ IsUsed(w, a) <=> IsUsed(h, a)
                /\ IsFree(w, a) <=> IsFree(h, a)
                /\ IsChunk(w, a) <=> IsChunk(h, a)
                /\ a \in Addr => /\ w.head[a] = h.head[a] /\ Size(w, a) = Size(h, a) /\ Past(w, a) = Past(h, a)

AddedOnes(h, w, b, e, f, t, old) ==
    /\ IsFree(w, b) /\ IsChunk(w, b) /\ ~IsUsed(w, b) /\ Size(w, b) = e - b /\ Past(w, b) = e /\ IsHeader(w, b)
    /\ IsHeader(w, e) /\ w.head[e] = FakeHead /\ ~IsChunk(w, e)
    /\ IsUsed(w, t) /\ IsChunk(w, t) /\ ~IsFree(w, t) /\ Size(w, t) = f - t /\ Past(w, t) = f /\ IsHeader(w, t)
    /\ w.head[t] = UsedHead(f - t) /\ w.head[b] = FreeHead(e - b)
    /\ IsHeader(w, f) /\ w.head[f] = Fence /\ ~IsChunk(w, f)
    /\ ~IsHeader(w, old) /\ ~IsChunk(w, old)
    /\ IsFree(h, t) /\ h.head[t].pinuse /\ IsHeader(h, t) /\ IsHeader(h, old) /\ h.head[old] = FakeHead
    /\ ~IsChunk(h, b) /\ ~IsChunk(h, e) /\ ~IsChunk(h, f) /\ ~IsChunk(h, old)

LEMMA AddedHeaders ==
  ASSUME NEW h, NEW X, Memory(h, X), h.segs # <<>>, NEW b, NEW n, NEW c, AddedAt(h, b, n, c),
         NEW w, Added(h, w, b, n, c), NEW f, f = c + SegRecord, NEW t, t = h.top, NEW old, old = h.top + h.topsize,
         NEW e, e = b + n
  PROVE  AddedOthers(h, w, b, e, f, t, old) /\ AddedOnes(h, w, b, e, f, t, old)
<1>1. AddedPlaces(h, w, b, n, f, t, old)
  BY AddedApart
<1>2. /\ b \in Addr /\ e \in Addr /\ f \in Addr /\ t \in Addr /\ old \in Addr
      /\ b \in Int /\ e \in Int /\ f \in Int /\ t \in Int /\ n \in Int
      /\ b # e /\ b # t /\ b # f /\ b # old /\ e # t /\ e # f /\ e # old /\ t # f /\ t # old /\ f # old
      /\ ~IsHeader(h, b) /\ ~IsHeader(h, e) /\ ~IsHeader(h, f)
  BY <1>1 DEF AddedPlaces, AddedAt
<1>3. AddedHeads(h, w, b, n, f, t, old)
  BY DEF Added
<1>4. \A a \in Addr : /\ w.head[a] = IF a = b THEN FreeHead(n) ELSE IF a = e THEN FakeHead
                                     ELSE IF a = t THEN UsedHead(f - t) ELSE IF a = f THEN Fence
                                     ELSE IF a = old THEN Blank ELSE h.head[a]
  BY <1>3 DEF AddedHeads
<1>5. n = e - b
  BY <1>2
<1>6. /\ w.head[b] = FreeHead(e - b) /\ w.head[e] = FakeHead /\ w.head[t] = UsedHead(f - t) /\ w.head[f] = Fence
      /\ w.head[old] = Blank
  BY <1>2, <1>4, <1>5
<1>7. /\ FreeHead(e - b).size = e - b /\ ~FreeHead(e - b).cinuse /\ FreeHead(e - b).pinuse
      /\ UsedHead(f - t).size = f - t /\ UsedHead(f - t).cinuse /\ UsedHead(f - t).pinuse
      /\ FakeHead.size = 5 /\ ~FakeHead.cinuse /\ ~FakeHead.pinuse
      /\ Fence.cinuse /\ Fence.size = 0 /\ Blank.size = 0 /\ ~Blank.cinuse /\ ~Blank.pinuse
  BY FixedHeads DEF FreeHead, UsedHead
<1>8. TopAt(h, old)
  BY TopChunk
<1>9. IsFree(h, t) /\ h.head[t].pinuse /\ IsHeader(h, t) /\ IsHeader(h, old) /\ h.head[old] = FakeHead
  BY <1>8, ChunkIsHeader DEF TopAt, IsFree
<1>10. ~IsChunk(h, b) /\ ~IsChunk(h, e) /\ ~IsChunk(h, f) /\ ~IsChunk(h, old)
  BY <1>2, <1>9, ChunkIsHeader
<1>11. f - t # 0
  BY <1>2
<1>12. /\ IsFree(w, b) /\ IsChunk(w, b) /\ ~IsUsed(w, b) /\ Size(w, b) = e - b /\ Past(w, b) = e /\ IsHeader(w, b)
  BY <1>2, <1>6, <1>7 DEF IsFree, IsChunk, IsUsed, Size, Past, IsHeader
<1>13. /\ IsHeader(w, e) /\ w.head[e] = FakeHead /\ ~IsChunk(w, e)
  BY <1>2, <1>6, <1>7 DEF IsFree, IsChunk, IsUsed, IsHeader
<1>14. IsUsed(w, t) /\ IsChunk(w, t) /\ ~IsFree(w, t) /\ Size(w, t) = f - t /\ Past(w, t) = f /\ IsHeader(w, t)
  BY <1>2, <1>6, <1>7, <1>11 DEF IsFree, IsChunk, IsUsed, Size, Past, IsHeader
<1>15. IsHeader(w, f) /\ ~IsChunk(w, f) /\ ~IsHeader(w, old) /\ ~IsChunk(w, old)
  BY <1>2, <1>6, <1>7 DEF IsFree, IsChunk, IsUsed, IsHeader
<1>16. AddedOnes(h, w, b, e, f, t, old)
  BY <1>6, <1>9, <1>10, <1>12, <1>13, <1>14, <1>15 DEF AddedOnes
<1>17. AddedOthers(h, w, b, e, f, t, old)
  <2> SUFFICES ASSUME NEW a, ~(a = b \/ a = e \/ a = f \/ a = t \/ a = old)
               PROVE  /\ IsHeader(w, a) <=> IsHeader(h, a)
                      /\ IsUsed(w, a) <=> IsUsed(h, a)
                      /\ IsFree(w, a) <=> IsFree(h, a)
                      /\ IsChunk(w, a) <=> IsChunk(h, a)
                      /\ a \in Addr => /\ w.head[a] = h.head[a] /\ Size(w, a) = Size(h, a) /\ Past(w, a) = Past(h, a)
    BY DEF AddedOthers
  <2>1. a \in Addr => w.head[a] = h.head[a]
    BY <1>4
  <2> QED
    BY <2>1 DEF IsHeader, IsUsed, IsFree, IsChunk, Size, Past
<1> QED
  BY <1>16, <1>17

\* A chunk but the old top, and what is behind it, is as before.
AddedChunks(h, w, b, e, f, t, old) ==
    \A a : IsChunk(h, a) /\ a # t =>
        /\ a # b /\ a # e /\ a # f /\ a # old /\ a \in Addr /\ a \in Int /\ IsHeader(h, a)
        /\ IsHeader(h, Past(h, a)) /\ Past(h, a) \in Addr /\ Past(h, a) \in Int
        /\ Past(h, a) # b /\ Past(h, a) # e /\ Past(h, a) # f /\ Past(h, a) # old /\ IsHeader(w, Past(h, a))
        /\ a < Past(h, a) /\ (a < t => Past(h, a) <= t)
        /\ (w.head[Past(h, a)].pinuse <=> h.head[Past(h, a)].pinuse)
        /\ Past(h, a) # t => w.head[Past(h, a)] = h.head[Past(h, a)]

LEMMA AddedBetween ==
  ASSUME NEW h, NEW X, Memory(h, X), h.segs # <<>>, NEW b, NEW n, NEW c, AddedAt(h, b, n, c),
         NEW w, Added(h, w, b, n, c), NEW f, f = c + SegRecord, NEW t, t = h.top, NEW old, old = h.top + h.topsize,
         NEW e, e = b + n
  PROVE  AddedChunks(h, w, b, e, f, t, old)
<1>1. AddedOthers(h, w, b, e, f, t, old) /\ AddedOnes(h, w, b, e, f, t, old) /\ AddedPlaces(h, w, b, n, f, t, old)
  BY AddedHeaders, AddedApart
<1>2. /\ h \in HeapSet /\ Segments(h) /\ Kinds(h) /\ Tiles(h) /\ Addr \subseteq Int
  BY Places DEF Memory
<1>3. /\ t \in Int /\ t \in Addr /\ old \in Int /\ t < old /\ 1 \in Segs(h) /\ InSeg(h, 1, t) /\ InSeg(h, 1, old)
      /\ ~IsHeader(h, b) /\ ~IsHeader(h, e) /\ ~IsHeader(h, f)
      /\ \A a : IsHeader(h, a) /\ InSeg(h, 1, a) => a <= t \/ a = old
  BY <1>1 DEF AddedPlaces
<1>4. /\ ~IsChunk(h, b) /\ ~IsChunk(h, e) /\ ~IsChunk(h, f) /\ ~IsChunk(h, old) /\ IsHeader(h, t) /\ IsHeader(w, t)
      /\ h.head[t].pinuse /\ w.head[t].pinuse
  BY <1>1 DEF AddedOnes, UsedHead
<1> SUFFICES ASSUME NEW a, IsChunk(h, a), a # t
             PROVE  /\ a # b /\ a # e /\ a # f /\ a # old /\ a \in Addr /\ a \in Int /\ IsHeader(h, a)
                    /\ IsHeader(h, Past(h, a)) /\ Past(h, a) \in Addr /\ Past(h, a) \in Int
                    /\ Past(h, a) # b /\ Past(h, a) # e /\ Past(h, a) # f /\ Past(h, a) # old /\ IsHeader(w, Past(h, a))
                    /\ a < Past(h, a) /\ (a < t => Past(h, a) <= t)
                    /\ (w.head[Past(h, a)].pinuse <=> h.head[Past(h, a)].pinuse)
                    /\ Past(h, a) # t => w.head[Past(h, a)] = h.head[Past(h, a)]
  BY DEF AddedChunks
<1>5. a # b /\ a # e /\ a # f /\ a # old /\ a \in Addr /\ a \in Int /\ IsHeader(h, a)
  BY <1>2, <1>4, ChunkIsHeader
<1> DEFINE p == Past(h, a)
<1>6. IsHeader(h, p) /\ p \in Addr /\ p \in Int
  BY <1>2, <1>5 DEF Tiles, IsHeader
<1>7. p # b /\ p # e /\ p # f
  BY <1>3, <1>6
<1>8. a < t => p <= t
  BY <1>2, <1>3, <1>4, <1>5 DEF Tiles
<1>9. a < p
  <2>1. Size(h, a) > 0 /\ Size(h, a) \in Int /\ p = a + Size(h, a)
    BY <1>2, <1>5, HeadTypes DEF Kinds, Past, Size
  <2> QED
    BY <1>5, <2>1
<1>10. p # old
  <2>1. SUFFICES ASSUME p = old PROVE FALSE
    OBVIOUS
  <2>2. PICK j \in Segs(h) : InSeg(h, j, a)
    BY <1>2, <1>5 DEF Tiles
  <2>3. InSeg(h, j, old)
    BY <1>2, <1>5, <2>1, <2>2 DEF Tiles
  <2>4. old <= old
    BY <1>3
  <2>5. j = 1
    BY <1>2, <1>3, <2>3, <2>4, OneSegment
  <2>6. a <= t
    BY <1>3, <1>5, <2>2, <2>5
  <2> HIDE DEF p
  <2> QED
    BY <1>3, <1>5, <1>8, <2>1, <2>6
<1> HIDE DEF p
<1>11. p # t => w.head[p] = h.head[p] /\ IsHeader(w, p)
  BY <1>1, <1>6, <1>7, <1>10 DEF AddedOthers
<1>12. (w.head[p].pinuse <=> h.head[p].pinuse) /\ IsHeader(w, p)
  BY <1>4, <1>11
<1>13. p = Past(h, a)
  BY DEF p
<1> QED
  BY <1>5, <1>6, <1>7, <1>8, <1>9, <1>10, <1>11, <1>12, <1>13

LEMMA AddedMemory ==
  ASSUME NEW h, Memory(h, {}), h.segs # <<>>, NEW b, NEW n, NEW c, AddedAt(h, b, n, c),
         NEW w, Added(h, w, b, n, c)
  PROVE  Memory(w, {})
<1> DEFINE f == c + SegRecord
           t == h.top
           old == h.top + h.topsize
           e == b + n
<1>1. /\ AddedOthers(h, w, b, e, f, t, old) /\ AddedOnes(h, w, b, e, f, t, old) /\ AddedChunks(h, w, b, e, f, t, old)
      /\ AddedPlaces(h, w, b, n, f, t, old) /\ Segments(w)
  BY AddedHeaders, AddedBetween, AddedApart, AddedSegments
<1>2. /\ h \in HeapSet /\ Segments(h) /\ Kinds(h) /\ Tiles(h) /\ TagsAgree(h) /\ FeetIn(h, {}) /\ Addr \subseteq Int
  BY Places DEF Memory
<1>3. /\ w \in HeapSet /\ w.top = b /\ w.topsize = n /\ AddedHeads(h, w, b, n, f, t, old)
      /\ w.segs[1].base = b /\ w.segs[1].size = n + TopFoot /\ Len(w.segs) = Len(h.segs) + 1
      /\ TopFoot = 5 /\ n \in Int /\ n > 0
  BY FixedHeads DEF Added, AddedAt
<1>4. h.top = t /\ h.top + h.topsize = old /\ f - t >= 3 /\ e = b + n
  <2>1. f - t >= 3
    <3>1. c \in Int /\ c >= t /\ t \in Int
      BY <1>1 DEF AddedAt, AddedPlaces
    <3> QED
      BY <3>1 DEF SegRecord
  <2> QED
    BY <2>1
<1> HIDE DEF f, t, old, e
<1>5. /\ b \in Addr /\ b \in Int /\ b # Null /\ e \in Addr /\ e \in Int /\ b < e
      /\ t \in Addr /\ t \in Int /\ f \in Addr /\ f \in Int /\ old \in Addr /\ old \in Int /\ t < f /\ t < old /\ f # old
      /\ ~IsHeader(h, b) /\ ~IsHeader(h, e) /\ ~IsHeader(h, f)
      /\ b # t /\ b # f /\ b # old /\ e # t /\ e # f /\ e # old
      /\ 1 \in Segs(h) /\ InSeg(h, 1, t) /\ InSeg(h, 1, f) /\ InSeg(h, 1, old)
      /\ (\A a : IsHeader(h, a) /\ InSeg(h, 1, a) => a <= t \/ a = old)
      /\ (\A a : IsHeader(h, a) => a < b \/ e < a)
      /\ (f < b \/ e < f)
      /\ (\A a, j : j \in Segs(h) => (InSeg(w, j + 1, a) <=> InSeg(h, j, a)))
      /\ InSeg(w, 1, b) /\ InSeg(w, 1, e)
      /\ (\A a : IsHeader(h, a) => ~InSeg(w, 1, a))
      /\ ~InSeg(w, 1, f)
      /\ (\A j \in Segs(h) : ~InSeg(h, j, b) /\ ~InSeg(h, j, e))
      /\ 1 \in Segs(w) /\ (\A j \in Segs(h) : j + 1 \in Segs(w))
      /\ \A j \in Segs(w) : j = 1 \/ (\E k \in Segs(h) : j = k + 1)
  BY <1>1, <1>4 DEF AddedPlaces
<1>6. /\ IsFree(w, b) /\ IsChunk(w, b) /\ ~IsUsed(w, b) /\ Size(w, b) = e - b /\ Past(w, b) = e /\ IsHeader(w, b)
      /\ IsHeader(w, e) /\ w.head[e] = FakeHead /\ ~IsChunk(w, e)
      /\ IsUsed(w, t) /\ IsChunk(w, t) /\ ~IsFree(w, t) /\ Size(w, t) = f - t /\ Past(w, t) = f /\ IsHeader(w, t)
      /\ w.head[t] = UsedHead(f - t) /\ w.head[b] = FreeHead(e - b)
      /\ IsHeader(w, f) /\ w.head[f] = Fence /\ ~IsChunk(w, f)
      /\ ~IsHeader(w, old) /\ ~IsChunk(w, old)
      /\ IsFree(h, t) /\ h.head[t].pinuse /\ IsHeader(h, t) /\ IsHeader(h, old) /\ h.head[old] = FakeHead
      /\ ~IsChunk(h, b) /\ ~IsChunk(h, e) /\ ~IsChunk(h, f) /\ ~IsChunk(h, old)
  BY <1>1 DEF AddedOnes
<1>7. ASSUME NEW a, a # b, a # e, a # f, a # t, a # old
      PROVE  /\ IsHeader(w, a) <=> IsHeader(h, a)
             /\ IsUsed(w, a) <=> IsUsed(h, a)
             /\ IsFree(w, a) <=> IsFree(h, a)
             /\ IsChunk(w, a) <=> IsChunk(h, a)
             /\ a \in Addr => /\ w.head[a] = h.head[a] /\ Size(w, a) = Size(h, a) /\ Past(w, a) = Past(h, a)
  BY <1>1, <1>7 DEF AddedOthers
<1>8. ASSUME NEW a, IsChunk(h, a), a # t
      PROVE  /\ a # b /\ a # e /\ a # f /\ a # old /\ a \in Addr /\ a \in Int /\ IsHeader(h, a)
             /\ IsHeader(h, Past(h, a)) /\ Past(h, a) \in Addr /\ Past(h, a) \in Int
             /\ Past(h, a) # b /\ Past(h, a) # e /\ Past(h, a) # f /\ Past(h, a) # old /\ IsHeader(w, Past(h, a))
             /\ a < Past(h, a) /\ (a < t => Past(h, a) <= t)
             /\ (w.head[Past(h, a)].pinuse <=> h.head[Past(h, a)].pinuse)
             /\ Past(h, a) # t => w.head[Past(h, a)] = h.head[Past(h, a)]
  BY <1>1, <1>8 DEF AddedChunks
\* Chunks of w: the new top, the old one, and others of h.
<1>9. ASSUME NEW a, IsChunk(w, a)
      PROVE  a = b \/ a = t \/ (a # b /\ a # t /\ a # e /\ a # f /\ a # old /\ IsChunk(h, a))
  BY <1>6, <1>7, <1>9
<1>10. FreeHead(e - b).pinuse /\ ~FreeHead(e - b).cinuse /\ UsedHead(f - t).pinuse /\ UsedHead(f - t).cinuse
       /\ Fence.cinuse /\ Fence.pinuse /\ Blank.size = 0 /\ ~Blank.cinuse /\ ~Blank.pinuse
       /\ ~FakeHead.cinuse /\ ~FakeHead.pinuse /\ FakeHead.size = 5
  BY FixedHeads DEF FreeHead, UsedHead
<1>11. w.head[old] = Blank
  BY <1>5, <1>6 DEF IsHeader
<1>12. Kinds(w)
  <2>1. ASSUME NEW a \in Addr, ~w.head[a].cinuse, ~w.head[a].pinuse, w.head[a] # Blank
        PROVE  w.head[a] = FakeHead /\ w.top # Null /\ a = w.top + w.topsize
    <3>1. a # b /\ a # t /\ a # f /\ a # old
      BY <1>6, <1>10, <1>11, <2>1
    <3>2. CASE a = e
      BY <1>3, <1>4, <1>5, <1>6, <3>2
    <3>3. CASE a # e
      <4>1. w.head[a] = h.head[a]
        BY <1>7, <3>1, <3>3
      <4>2. a = old
        BY <1>2, <1>4, <2>1, <4>1 DEF Kinds
      <4> QED
        BY <3>1, <4>2
    <3> QED
      BY <3>2, <3>3
  <2>2. ASSUME NEW a \in Addr, IsChunk(w, a)
        PROVE  Size(w, a) > 0 /\ (a # w.top => Size(w, a) >= MinChunk)
    <3>1. CASE a = b
      BY <1>3, <1>5, <1>6, <3>1
    <3>2. CASE a = t
      BY <1>4, <1>5, <1>6, <3>2 DEF MinChunk
    <3>3. CASE a # b /\ a # t
      <4>1. IsChunk(h, a) /\ Size(w, a) = Size(h, a) /\ a # h.top
        BY <1>4, <1>7, <1>9, <2>2, <3>3
      <4> QED
        BY <1>2, <4>1 DEF Kinds
    <3> QED
      BY <3>1, <3>2, <3>3
  <2> QED
    BY <2>1, <2>2 DEF Kinds
<1>13. ASSUME NEW a \in Addr, IsHeader(w, a)
       PROVE  a = b \/ a = e \/ a = f \/ (a # b /\ a # e /\ a # f /\ a # old /\ IsHeader(h, a))
  BY <1>6, <1>7, <1>13
<1>14. Tiles(w)
  <2>1. ASSUME NEW a \in Addr, IsHeader(w, a)
        PROVE  \E j \in Segs(w) : InSeg(w, j, a)
    <3>1. CASE a = b \/ a = e
      BY <1>5, <3>1
    <3>2. CASE a = f
      BY <1>5, <3>2
    <3>3. CASE IsHeader(h, a)
      <4>1. PICK j \in Segs(h) : InSeg(h, j, a)
        BY <1>2, <3>3 DEF Tiles
      <4> QED
        BY <1>5, <4>1
    <3> QED
      BY <1>13, <2>1, <3>1, <3>2, <3>3
  <2>2. ASSUME NEW a \in Addr, IsChunk(w, a)
        PROVE  /\ IsHeader(w, Past(w, a))
               /\ \A j \in Segs(w) : InSeg(w, j, a) => InSeg(w, j, Past(w, a))
               /\ \A x \in Addr : IsHeader(w, x) /\ a < x => Past(w, a) <= x
    <3>1. CASE a = b
      <4>1. \A j \in Segs(w) : InSeg(w, j, b) => InSeg(w, j, e)
        BY <1>5
      <4>2. ASSUME NEW x \in Addr, IsHeader(w, x), b < x
            PROVE  e <= x
        <5>1. x = e \/ x = f \/ IsHeader(h, x)
          BY <1>5, <1>13, <4>2
        <5>2. x \in Int
          BY <1>2
        <5> QED
          BY <1>5, <4>2, <5>1, <5>2
      <4> QED
        BY <1>6, <3>1, <4>1, <4>2
    <3>2. CASE a = t
      <4>1. ASSUME NEW j \in Segs(w), InSeg(w, j, t)
            PROVE  InSeg(w, j, f)
        <5>1. PICK k \in Segs(h) : j = k + 1
          BY <1>5, <1>6, <4>1
        <5>2. InSeg(h, k, t) /\ t <= t
          BY <1>5, <4>1, <5>1
        <5>3. k = 1
          BY <1>2, <1>5, <5>2, OneSegment
        <5> QED
          BY <1>5, <5>1, <5>3
      <4>2. ASSUME NEW x \in Addr, IsHeader(w, x), t < x
            PROVE  f <= x
        <5>0. x \in Int
          BY <1>2
        <5>1. CASE x = f
          BY <1>5, <5>1
        <5>2. CASE x = b \/ x = e
          <6>1. ~(t < x /\ x < f)
            <7>1. ~InSeg(h, 1, x)
              BY <1>5, <5>2
            <7>2. h.segs[1].base \in Int /\ EndOf(h.segs[1]) \in Int
              BY <1>2, <1>5, SegTypes DEF Segments
            <7> QED
              BY <1>5, <5>0, <7>1, <7>2 DEF InSeg, segment_holds
          <6> QED
            BY <1>5, <4>2, <5>0, <6>1
        <5>3. CASE IsHeader(h, x) /\ x # old
          <6>1. ~InSeg(h, 1, x)
            BY <1>5, <4>2, <5>0, <5>3
          <6>2. h.segs[1].base \in Int /\ EndOf(h.segs[1]) \in Int
            BY <1>2, <1>5, SegTypes DEF Segments
          <6> QED
            BY <1>5, <4>2, <5>0, <6>1, <6>2 DEF InSeg, segment_holds
        <5> QED
          BY <1>13, <4>2, <5>1, <5>2, <5>3
      <4> QED
        BY <1>6, <3>2, <4>1, <4>2
    <3>3. CASE a # b /\ a # t
      <4>1. IsChunk(h, a) /\ Past(w, a) = Past(h, a) /\ a # h.top /\ a \in Int
        BY <1>2, <1>4, <1>7, <1>9, <2>2, <3>3
      <4>2. /\ IsHeader(h, a) /\ IsHeader(h, Past(h, a)) /\ Past(h, a) \in Int /\ IsHeader(w, Past(h, a))
            /\ a < Past(h, a) /\ (a < t => Past(h, a) <= t)
        BY <1>8, <3>3, <4>1
      <4>3. ASSUME NEW j \in Segs(w), InSeg(w, j, a)
            PROVE  InSeg(w, j, Past(h, a))
        <5>1. PICK k \in Segs(h) : j = k + 1
          BY <1>5, <4>2, <4>3
        <5>2. InSeg(h, k, a)
          BY <1>5, <4>3, <5>1
        <5>3. InSeg(h, k, Past(h, a))
          BY <1>2, <4>1, <5>2 DEF Tiles
        <5> QED
          BY <1>5, <5>1, <5>3
      <4>4. ASSUME NEW x \in Addr, IsHeader(w, x), a < x
            PROVE  Past(h, a) <= x
        <5> DEFINE p == Past(h, a)
        <5>0. x \in Int /\ p \in Int
          BY <1>2, <4>2
        <5>1. CASE IsHeader(h, x)
          BY <1>2, <4>1, <4>4, <5>1 DEF Tiles
        <5>2. PICK k \in Segs(h) : InSeg(h, k, a)
          BY <1>2, <4>2 DEF Tiles
        <5>3. InSeg(h, k, p)
          BY <1>2, <4>1, <5>2 DEF Tiles
        <5>4. h.segs[k].base \in Int /\ EndOf(h.segs[k]) \in Int
          BY <1>2, SegTypes DEF Segments
        <5> HIDE DEF p
        <5>5. CASE x = b \/ x = e
          <6>1. ~InSeg(h, k, x)
            BY <1>5, <5>5
          <6>2. p <= x
            BY <4>1, <4>4, <5>0, <5>2, <5>3, <5>4, <6>1 DEF InSeg, segment_holds
          <6> QED
            BY <6>2 DEF p
        <5>6. CASE x = f
          <6>1. CASE k = 1
            <7>1. a <= t
              BY <1>5, <1>8, <3>3, <4>1, <4>2, <5>2, <6>1
            <7>2. p <= t
              BY <1>5, <3>3, <4>1, <4>2, <7>1 DEF p
            <7>3. p <= x
              BY <1>5, <5>0, <5>6, <7>2
            <7> QED
              BY <7>3 DEF p
          <6>2. CASE k # 1
            <7>0. f <= f
              BY <1>5
            <7>1. ~InSeg(h, k, f)
              BY <1>2, <1>5, <6>2, <7>0, OneSegment
            <7>2. p <= x
              BY <4>1, <4>4, <5>0, <5>2, <5>3, <5>4, <5>6, <7>1 DEF InSeg, segment_holds
            <7> QED
              BY <7>2 DEF p
          <6> QED
            BY <6>1, <6>2
        <5> QED
          BY <1>13, <4>4, <5>1, <5>5, <5>6
      <4> QED
        BY <4>1, <4>2, <4>3, <4>4
    <3> QED
      BY <3>1, <3>2, <3>3
  <2>3. ASSUME NEW a \in Addr, IsHeader(w, a), ~IsChunk(w, a), NEW x \in Addr, NEW j \in Segs(w),
               IsHeader(w, x), InSeg(w, j, a), InSeg(w, j, x)
        PROVE  x <= a
    <3>0. a \in Int /\ x \in Int
      BY <1>2
    <3>1. CASE j = 1
      <4>1. a = e
        BY <1>5, <1>6, <1>13, <2>3, <3>1
      <4>2. x = b \/ x = e
        BY <1>5, <1>13, <2>3, <3>1
      <4> QED
        BY <1>5, <4>1, <4>2
    <3>2. CASE j # 1
      <4>1. PICK k \in Segs(h) : j = k + 1
        BY <1>5, <3>2
      <4>2. InSeg(h, k, a) /\ InSeg(h, k, x)
        BY <1>5, <2>3, <4>1
      <4>3. a # b /\ a # e /\ x # b /\ x # e
        BY <1>5, <4>2
      <4>4. f <= f /\ old <= old /\ t <= t
        BY <1>5
      <4>5. CASE k = 1
        <5>1. x = f \/ x <= t
          BY <1>5, <1>13, <2>3, <4>2, <4>3, <4>5
        <5>2. a = f
          <6>1. SUFFICES ASSUME a # f PROVE FALSE
            OBVIOUS
          <6>2. IsHeader(h, a) /\ a # old /\ a # t /\ ~IsChunk(h, a)
            BY <1>6, <1>7, <1>13, <2>3, <4>3, <6>1
          <6>3. t <= a
            BY <1>2, <1>5, <1>6, <4>2, <4>5, <6>2 DEF Tiles
          <6> QED
            BY <1>5, <3>0, <4>2, <4>5, <6>2, <6>3
        <5> QED
          BY <1>5, <3>0, <5>1, <5>2
      <4>6. CASE k # 1
        <5>1. ~InSeg(h, k, f) /\ ~InSeg(h, k, old) /\ ~InSeg(h, k, t)
          BY <1>2, <1>5, <4>4, <4>6, OneSegment
        <5>2. a # f /\ a # t /\ a # old /\ x # f /\ x # t /\ x # old
          BY <4>2, <5>1
        <5>3. IsHeader(h, a) /\ ~IsChunk(h, a) /\ IsHeader(h, x)
          BY <1>7, <2>3, <4>3, <5>2
        <5> QED
          BY <1>2, <4>2, <5>3 DEF Tiles
      <4> QED
        BY <4>5, <4>6
    <3> QED
      BY <3>1, <3>2
  <2> QED
    BY <2>1, <2>2, <2>3 DEF Tiles
<1>15. TagsAgree(w)
  <2>1. ASSUME NEW a \in Addr, IsUsed(w, a)
        PROVE  w.head[Past(w, a)].pinuse
    <3>1. a # b
      BY <1>6, <2>1
    <3>2. CASE a = t
      BY <1>6, <1>10, <3>2
    <3>3. CASE a # t
      <4>1. IsUsed(h, a) /\ Past(w, a) = Past(h, a) /\ IsChunk(h, a)
        BY <1>7, <1>9, <2>1, <3>1, <3>3 DEF IsChunk
      <4> QED
        BY <1>2, <1>8, <3>3, <4>1 DEF TagsAgree
    <3> QED
      BY <3>2, <3>3
  <2>2. ASSUME NEW a \in Addr, IsFree(w, a)
        PROVE  /\ ~w.head[Past(w, a)].pinuse
               /\ a # w.top => w.head[Past(w, a)].cinuse /\ w.foot[Past(w, a)] = Size(w, a)
    <3>1. a # t
      BY <1>6, <2>2
    <3>2. CASE a = b
      BY <1>3, <1>6, <1>10, <3>2
    <3>3. CASE a # b
      <4>1. IsFree(h, a) /\ Past(w, a) = Past(h, a) /\ IsChunk(h, a) /\ Size(w, a) = Size(h, a) /\ a # h.top
        BY <1>4, <1>7, <1>9, <2>2, <3>1, <3>3 DEF IsChunk
      <4>2. ~h.head[Past(h, a)].pinuse /\ h.head[Past(h, a)].cinuse /\ h.foot[Past(h, a)] = Size(h, a)
        BY <1>2, <4>1 DEF TagsAgree, IsFree
      <4>3. Past(h, a) # t /\ Past(h, a) \in Addr
        BY <1>6, <1>8, <3>1, <4>1, <4>2
      <4>4. w.head[Past(h, a)] = h.head[Past(h, a)]
        BY <1>8, <3>1, <4>1, <4>3
      <4>5. w.foot[Past(h, a)] = h.foot[Past(h, a)]
        BY <1>3, <4>3 DEF AddedHeads
      <4> QED
        BY <4>1, <4>2, <4>4, <4>5
    <3> QED
      BY <3>2, <3>3
  <2>3. ASSUME NEW a \in Addr, w.head[a].cinuse, ~w.head[a].pinuse
        PROVE  LET x == a - w.foot[a] IN IsFree(w, x) /\ x # w.top /\ Size(w, x) = w.foot[a]
    <3>1. a # b /\ a # e /\ a # f /\ a # t /\ a # old
      BY <1>6, <1>10, <1>11, <2>3
    <3>2. w.head[a] = h.head[a] /\ w.foot[a] = h.foot[a]
      BY <1>3, <1>7, <3>1 DEF AddedHeads
    <3> DEFINE x == a - h.foot[a]
    <3>3. IsFree(h, x) /\ x # h.top /\ Size(h, x) = h.foot[a]
      BY <1>2, <2>3, <3>2 DEF TagsAgree
    <3> HIDE DEF x
    <3>4. x # t /\ x # b /\ x # e /\ x # f /\ x # old /\ x \in Addr
      BY <1>4, <1>6, <3>3 DEF IsChunk, IsFree
    <3>5. IsFree(w, x) /\ x # w.top /\ Size(w, x) = h.foot[a]
      BY <1>3, <1>7, <3>3, <3>4
    <3> QED
      BY <3>2, <3>5 DEF x
  <2> QED
    BY <2>1, <2>2, <2>3 DEF TagsAgree
<1>16. FeetIn(w, {})
  <2> SUFFICES ASSUME NEW a \in Addr, w.foot[a] # 0
               PROVE  w.head[a].cinuse /\ ~w.head[a].pinuse
    BY DEF FeetIn
  <2>1. h.head[a].cinuse /\ ~h.head[a].pinuse
    BY <1>2, <1>3 DEF FeetIn, AddedHeads
  <2>2. a # b /\ a # e /\ a # f /\ a # t /\ a # old
    BY <1>5, <1>6, <1>10, <2>1 DEF IsHeader
  <2> QED
    BY <1>7, <2>1, <2>2
<1>17. TopIn(w)
  <2>1. w.segs # <<>>
    BY <1>5, LenProperties DEF Segs
  <2>2. e = EndOf(w.segs[1]) - TopFoot
    BY <1>3, <1>4, <1>5 DEF EndOf
  <2>3. Size(w, b) = n
    BY <1>3, <1>4, <1>5, <1>6
  <2> QED
    BY <1>3, <1>4, <1>5, <1>6, <2>1, <2>2, <2>3 DEF TopIn
<1> QED
  BY <1>1, <1>3, <1>12, <1>14, <1>15, <1>16, <1>17 DEF Memory

LEMMA AddedBins ==
  ASSUME NEW h, NEW U, Sound(h, U, {}), h.segs # <<>>, NEW b, NEW n, NEW c, AddedAt(h, b, n, c),
         NEW w, Added(h, w, b, n, c)
  PROVE  Victim(w) /\ Bins(w)
<1> DEFINE f == c + SegRecord
           t == h.top
           old == h.top + h.topsize
           e == b + n
<1>1. Memory(h, {}) /\ Victim(h) /\ Bins(h)
  BY DEF Sound
<1>2. AddedOthers(h, w, b, e, f, t, old) /\ AddedOnes(h, w, b, e, f, t, old) /\ AddedPlaces(h, w, b, n, f, t, old)
  BY <1>1, AddedHeaders, AddedApart
<1>3. w.bin = h.bin /\ w.dv = h.dv /\ w.dvsize = h.dvsize /\ w.top = b /\ h.top = t
  BY DEF Added, SameVictim
<1> HIDE DEF f, t, old, e
<1>4. ASSUME NEW a, IsFree(h, a), a # t
      PROVE  a # b /\ IsFree(w, a) /\ Size(w, a) = Size(h, a)
  <2>1. a # b /\ a # e /\ a # f /\ a # old /\ a \in Addr
    BY <1>2, <1>4 DEF AddedOnes, IsChunk, IsFree
  <2> QED
    BY <1>2, <1>4, <2>1 DEF AddedOthers
<1>5. ASSUME NEW a, IsFree(w, a), a # b
      PROVE  a # t /\ IsFree(h, a)
  <2>1. a # t /\ a # e /\ a # f /\ a # old
    BY <1>2, <1>5 DEF AddedOnes, IsChunk
  <2> QED
    BY <1>2, <1>5, <2>1 DEF AddedOthers
<1>6. h.dv # Null => h.dv # b
  BY <1>1, <1>3, <1>4 DEF Victim
<1>7. Victim(w)
  BY <1>1, <1>3, <1>4 DEF Victim
<1>8. BinsOnce(w) /\ \A s \in Sizes : \A a : InBin(w, s, a) <=> InBin(h, s, a)
  BY <1>1, <1>3 DEF Bins, BinsOnce, InBin
<1>9. ASSUME NEW s \in Sizes, NEW a
      PROVE  InBin(w, s, a) <=> IsFree(w, a) /\ a # w.dv /\ a # w.top /\ s = Size(w, a)
  <2>1. InBin(h, s, a) <=> IsFree(h, a) /\ a # h.dv /\ a # h.top /\ s = Size(h, a)
    BY <1>1 DEF Bins
  <2>2. IsFree(h, a) /\ a # t <=> IsFree(w, a) /\ a # b
    BY <1>4, <1>5
  <2>3. IsFree(h, a) /\ a # t => Size(w, a) = Size(h, a)
    BY <1>4
  <2> QED
    BY <1>3, <1>8, <2>1, <2>2, <2>3
<1> QED
  BY <1>7, <1>8, <1>9 DEF Bins

\* From w to g the record of the old first segment has been set apart from the old top.
AddedRecord(w, g, t, old, c) ==
    /\ g.segs = w.segs
    /\ \A a \in Addr : a # t /\ a # old => g.head[a] = w.head[a]
    /\ IsUsed(g, c) /\ Size(g, c) = SegRecord /\ (c = t \/ c = old)
    /\ c # t => ~IsUsed(g, t)
    /\ c # old => ~IsUsed(g, old)

LEMMA AddedUsers ==
  ASSUME NEW h, NEW U, Sound(h, U, {}), h.segs # <<>>, NEW b, NEW n, NEW c, AddedAt(h, b, n, c),
         NEW w, Added(h, w, b, n, c), NEW t, t = h.top, NEW old, old = h.top + h.topsize,
         NEW g, AddedRecord(w, g, t, old, c)
  PROVE  Records(g) /\ Users(g, U) /\ SameSizes(h, g, U)
<1> DEFINE f == c + SegRecord
           e == b + n
<1>1. Memory(h, {}) /\ Records(h) /\ Users(h, U) /\ h \in HeapSet
  BY DEF Sound, Memory
<1>2. /\ AddedOthers(h, w, b, e, f, t, old) /\ AddedOnes(h, w, b, e, f, t, old) /\ AddedChunks(h, w, b, e, f, t, old)
      /\ AddedPlaces(h, w, b, n, f, t, old) /\ TopAt(h, old)
  BY <1>1, AddedHeaders, AddedBetween, AddedApart, TopChunk
<1>3. /\ c + SegRecord = f /\ b + n = e /\ w.segs[1].rec = Null /\ w.segs[2].rec = c /\ Len(w.segs) = Len(h.segs) + 1
      /\ EndOf(w.segs[2]) = EndOf(h.segs[1])
      /\ \A j \in Segs(h) \ {1} : w.segs[j + 1] = h.segs[j]
  BY DEF Added, EndOf
<1> HIDE DEF f, e
<1>4. /\ b # t /\ b # f /\ b # old /\ e # t /\ e # f /\ e # old /\ t # f /\ f # old /\ b # e /\ t # old
      /\ b \in Addr /\ e \in Addr /\ f \in Addr /\ t \in Addr /\ old \in Addr /\ old \in Int /\ t \in Int
      /\ 1 \in Segs(h) /\ InSeg(h, 1, t) /\ InSeg(h, 1, old) /\ t < old
      /\ (\A a, j : j \in Segs(h) => (InSeg(w, j + 1, a) <=> InSeg(h, j, a)))
      /\ 1 \in Segs(w)
  <2>1. \A a, j : j \in Segs(h) => (InSeg(w, j + 1, a) <=> InSeg(h, j, a))
    BY <1>2 DEF AddedPlaces
  <2> QED
    BY <1>2, <1>3, <2>1 DEF AddedPlaces
<1>19. \A j \in Segs(h) : j + 1 \in Segs(w)
  BY <1>2 DEF AddedPlaces
<1>20. \A j \in Segs(w) : j = 1 \/ (\E k \in Segs(h) : j = k + 1)
  BY <1>2, <1>19 DEF AddedPlaces
<1>5. /\ ~IsUsed(w, b) /\ ~IsChunk(w, e) /\ ~IsChunk(w, f) /\ w.head[f] = Fence
      /\ IsFree(h, t) /\ h.head[old] = FakeHead /\ h.head[t].pinuse
      /\ ~IsChunk(h, b) /\ ~IsChunk(h, e) /\ ~IsChunk(h, f) /\ ~IsChunk(h, old)
  BY <1>2 DEF AddedOnes
<1>6. /\ g.segs = w.segs /\ (\A a \in Addr : a # t /\ a # old => g.head[a] = w.head[a])
      /\ IsUsed(g, c) /\ Size(g, c) = SegRecord /\ (c = t \/ c = old)
      /\ (c # t => ~IsUsed(g, t)) /\ (c # old => ~IsUsed(g, old))
  BY DEF AddedRecord
<1>7. Segs(g) = Segs(w) /\ \A a, j : InSeg(g, j, a) <=> InSeg(w, j, a)
  BY <1>6 DEF Segs, InSeg
<1>8. ~IsUsed(h, t) /\ ~IsUsed(h, old) /\ ~IsUsed(h, b) /\ ~IsUsed(h, e) /\ ~IsUsed(h, f)
  BY <1>5 DEF IsFree, IsUsed, IsChunk
<1>9. ASSUME NEW a, a # t, a # old
      PROVE  (IsUsed(g, a) <=> IsUsed(h, a)) /\ (IsUsed(h, a) => Size(g, a) = Size(h, a))
  <2>1. IsUsed(g, a) <=> IsUsed(w, a)
    BY <1>6, <1>9 DEF IsUsed
  <2>2. CASE a = b \/ a = e \/ a = f
    BY <1>5, <1>8, <2>1, <2>2 DEF IsChunk
  <2>3. CASE a # b /\ a # e /\ a # f
    <3>1. (IsUsed(w, a) <=> IsUsed(h, a)) /\ (a \in Addr => w.head[a] = h.head[a])
      BY <1>2, <1>9, <2>3 DEF AddedOthers
    <3> QED
      BY <1>6, <1>9, <2>1, <3>1 DEF IsUsed, Size
  <2> QED
    BY <2>2, <2>3
<1>10. \A a : IsUsed(g, a) <=> IsUsed(h, a) \/ a = c
  BY <1>6, <1>8, <1>9
<1>11. ASSUME NEW j \in Segs(h) \ {1}
       PROVE  /\ g.segs[j + 1] = h.segs[j] /\ IsUsed(g, h.segs[j].rec) /\ InSeg(g, j + 1, h.segs[j].rec)
              /\ Size(g, h.segs[j].rec) = SegRecord
              /\ g.head[h.segs[j].rec + SegRecord] = Fence
              /\ h.segs[j].rec + TopFoot <= EndOf(h.segs[j])
  <2> DEFINE r == h.segs[j].rec
  <2>1. /\ IsUsed(h, r) /\ InSeg(h, j, r) /\ Size(h, r) = SegRecord
        /\ h.head[r + SegRecord] = Fence /\ r + TopFoot <= EndOf(h.segs[j])
    BY <1>1 DEF Records
  <2>2. g.segs[j + 1] = h.segs[j]
    BY <1>3, <1>6
  <2> HIDE DEF r
  <2>3. r # t /\ r # old /\ IsChunk(h, r)
    BY <1>8, <2>1 DEF IsChunk
  <2>4. Past(h, r) = r + SegRecord
    BY <2>1 DEF Past, Size
  <2> DEFINE p == Past(h, r)
  <2>5. p \in Addr /\ p # old /\ h.head[p] = Fence /\ (p # t => w.head[p] = h.head[p])
    BY <1>2, <2>1, <2>3, <2>4 DEF AddedChunks
  <2>6. p # t
    BY <1>5, <2>5, FixedHeads DEF IsFree
  <2>7. g.head[p] = Fence
    BY <1>6, <2>5, <2>6
  <2> HIDE DEF p
  <2>8. InSeg(g, j + 1, r)
    BY <1>4, <1>7, <2>1
  <2>9. IsUsed(g, r) /\ Size(g, r) = SegRecord
    BY <1>9, <2>1, <2>3
  <2>10. g.head[r + SegRecord] = Fence
    BY <2>4, <2>7 DEF p
  <2> QED
    BY <2>1, <2>2, <2>8, <2>9, <2>10 DEF r
<1>12. /\ IsUsed(g, c) /\ InSeg(g, 2, c) /\ Size(g, c) = SegRecord /\ g.head[c + SegRecord] = Fence
       /\ c + TopFoot <= EndOf(g.segs[2])
  <2>1. 1 + 1 = 2
    OBVIOUS
  <2>2. InSeg(g, 2, c)
    BY <1>4, <1>6, <1>7, <2>1
  <2>3. g.head[f] = Fence
    BY <1>4, <1>5, <1>6
  <2>4. EndOf(g.segs[2]) = old + TopFoot
    BY <1>2, <1>3, <1>6 DEF TopAt
  <2>5. c <= old /\ c \in Int
    BY <1>4, <1>6
  <2>6. c + TopFoot <= old + TopFoot
    BY <1>4, <2>5, FixedHeads
  <2> QED
    BY <1>3, <1>6, <2>2, <2>3, <2>4, <2>6
<1>13. ASSUME NEW j \in Segs(g) \ {1}
       PROVE  (j = 2 /\ g.segs[j].rec = c) \/ \E k \in Segs(h) \ {1} : j = k + 1 /\ g.segs[j].rec = h.segs[k].rec
  <2>1. PICK k \in Segs(h) : j = k + 1
    BY <1>20, <1>7
  <2>2. CASE k = 1
    BY <1>3, <1>6, <2>1, <2>2
  <2>3. CASE k # 1
    BY <1>11, <2>1, <2>3
  <2> QED
    BY <2>2, <2>3
<1>14. Records(g)
  <2>1. g.segs[1].rec = Null
    BY <1>3, <1>6
  <2>2. ASSUME NEW j \in Segs(g) \ {1}
        PROVE  /\ IsUsed(g, g.segs[j].rec) /\ InSeg(g, j, g.segs[j].rec)
               /\ Size(g, g.segs[j].rec) = SegRecord
               /\ g.head[g.segs[j].rec + SegRecord] = Fence
               /\ g.segs[j].rec + TopFoot <= EndOf(g.segs[j])
    <3>1. CASE j = 2 /\ g.segs[j].rec = c
      BY <1>12, <3>1
    <3>2. ASSUME NEW k \in Segs(h) \ {1}, j = k + 1
          PROVE  /\ IsUsed(g, g.segs[j].rec) /\ InSeg(g, j, g.segs[j].rec)
                 /\ Size(g, g.segs[j].rec) = SegRecord
                 /\ g.head[g.segs[j].rec + SegRecord] = Fence
                 /\ g.segs[j].rec + TopFoot <= EndOf(g.segs[j])
      BY <1>11, <3>2
    <3> QED
      BY <1>13, <3>1, <3>2
  <2> QED
    BY <2>1, <2>2 DEF Records
<1>15. \A a : IsRecord(g, a) <=> IsRecord(h, a) \/ a = c
  <2>1. ASSUME NEW a, IsRecord(g, a)
        PROVE  IsRecord(h, a) \/ a = c
    BY <1>13, <2>1 DEF IsRecord
  <2>2. ASSUME NEW a, IsRecord(h, a)
        PROVE  IsRecord(g, a)
    <3>1. PICK j \in Segs(h) \ {1} : h.segs[j].rec = a
      BY <2>2 DEF IsRecord
    <3>2. j + 1 \in Segs(g) \ {1} /\ g.segs[j + 1].rec = a
      <4>1. j \in Int /\ j >= 1
        BY <3>1 DEF Segs
      <4> QED
        BY <1>7, <1>19, <1>11, <3>1, <4>1
    <3> QED
      BY <3>2 DEF IsRecord
  <2>3. IsRecord(g, c)
    <3>1. 1 + 1 = 2 /\ 2 \in Segs(g) \ {1}
      BY <1>4, <1>7, <1>19
    <3> QED
      BY <1>3, <1>6, <3>1 DEF IsRecord
  <2> QED
    BY <2>1, <2>2, <2>3
<1>16. c \notin U
  BY <1>1, <1>6, <1>8 DEF Users
<1>17. Users(g, U)
  <2> SUFFICES ASSUME NEW a
               PROVE  /\ IsUsed(g, a) <=> a \in U \/ IsRecord(g, a)
                      /\ ~(a \in U /\ IsRecord(g, a))
    BY DEF Users
  <2>1. (IsUsed(h, a) <=> a \in U \/ IsRecord(h, a)) /\ ~(a \in U /\ IsRecord(h, a))
    BY <1>1 DEF Users
  <2> QED
    BY <1>10, <1>15, <1>16, <2>1
<1>18. SameSizes(h, g, U)
  BY <1>1, <1>8, <1>9 DEF SameSizes, Users
<1> QED
  BY <1>14, <1>17, <1>18

\* The segments after one has been added.
LinkedSegs(segs, b, z, c) ==
    <<[base |-> b, size |-> z, rec |-> Null]>> \o <<[segs[1] EXCEPT !.rec = c]>> \o Tail(segs)

LEMMA SegsLinked ==
  ASSUME NEW segs \in Seq(SegSet), segs # <<>>, NEW b \in Int, NEW z \in Int, NEW c \in Int,
         NEW list, list = LinkedSegs(segs, b, z, c)
  PROVE  /\ list \in Seq(SegSet) /\ Len(list) = Len(segs) + 1
         /\ list[1].base = b /\ list[1].size = z /\ list[1].rec = Null
         /\ list[2].base = segs[1].base /\ list[2].size = segs[1].size /\ list[2].rec = c
         /\ \A j \in 2 .. Len(segs) : list[j + 1] = segs[j]
<1> DEFINE x == [base |-> b, size |-> z, rec |-> Null]
           y == [segs[1] EXCEPT !.rec = c]
           rest == Tail(segs)
<1>1. Len(segs) \in Nat /\ 1 \in 1 .. Len(segs)
  BY LenProperties, EmptySeq
<1>2. segs[1] \in SegSet
  BY <1>1, ElementOfSeq
<1>3. x \in SegSet /\ x.base = b /\ x.size = z /\ x.rec = Null
  BY DEF SegSet, Null
<1>4. y \in SegSet /\ y.base = segs[1].base /\ y.size = segs[1].size /\ y.rec = c
  BY <1>2 DEF SegSet
<1>5. /\ rest \in Seq(SegSet) /\ Len(rest) = Len(segs) - 1
      /\ \A i \in 1 .. Len(rest) : rest[i] = segs[i + 1]
  BY HeadTailProperties
<1>6. list = (<<x>> \o <<y>>) \o rest
  BY DEF LinkedSegs
<1> HIDE DEF x, y, rest
<1> DEFINE two == <<x>> \o <<y>>
<1>7. two \in Seq(SegSet) /\ Len(two) = 2 /\ two[1] = x /\ two[2] = y
  <2>1. <<x>> \in Seq(SegSet) /\ <<y>> \in Seq(SegSet) /\ Len(<<x>>) = 1 /\ Len(<<y>>) = 1
        /\ <<x>>[1] = x /\ <<y>>[1] = y
    BY <1>3, <1>4
  <2>2. /\ two \in Seq(SegSet) /\ Len(two) = 1 + 1
        /\ \A i \in 1 .. 1 + 1 : two[i] = IF i <= 1 THEN <<x>>[i] ELSE <<y>>[i - 1]
    BY <2>1, ConcatProperties
  <2> QED
    BY <2>1, <2>2
<1>8. list = two \o rest
  BY <1>6
<1> HIDE DEF two
<1>9. /\ list \in Seq(SegSet) /\ Len(list) = 2 + Len(rest)
      /\ \A i \in 1 .. 2 + Len(rest) : list[i] = IF i <= 2 THEN two[i] ELSE rest[i - 2]
  <2>1. /\ two \o rest \in Seq(SegSet) /\ Len(two \o rest) = Len(two) + Len(rest)
        /\ \A i \in 1 .. Len(two) + Len(rest) : (two \o rest)[i] = IF i <= Len(two) THEN two[i] ELSE rest[i - Len(two)]
    BY <1>5, <1>7, ConcatProperties
  <2> QED
    BY <1>7, <1>8, <2>1
<1>10. list[1] = x /\ list[2] = y /\ Len(list) = Len(segs) + 1
  BY <1>1, <1>5, <1>7, <1>9
<1>11. ASSUME NEW j \in 2 .. Len(segs)
       PROVE  list[j + 1] = segs[j]
  <2>1. j + 1 \in 1 .. 2 + Len(rest) /\ ~(j + 1 <= 2) /\ j + 1 - 2 = j - 1 /\ j - 1 \in 1 .. Len(rest) /\ j - 1 + 1 = j
    BY <1>1, <1>5
  <2>2. list[j + 1] = rest[j + 1 - 2]
    BY <1>9, <2>1
  <2>3. rest[j - 1] = segs[j - 1 + 1]
    BY <1>5, <2>1
  <2> QED
    BY <2>1, <2>2, <2>3
<1> QED
  BY <1>3, <1>4, <1>9, <1>10, <1>11

\* add_segment up to where the rest of the old top is freed.
Linked(m, b, z, c) ==
    LET moved == init_top(erase(m, m.top + m.topsize), b, z - TopFoot)
    IN  [set_size_and_pinuse_of_inuse_chunk(moved, c, SegRecord) EXCEPT
            !.head[c + SegRecord] = Fence, !.segs = LinkedSegs(m.segs, b, z, c)]

LEMMA AddSegmentCases ==
  ASSUME NEW m, NEW b, NEW z, segment_holding(m, m.top) = 1, NEW asp, asp = EndOf(m.segs[1]) - TopFoot,
         NEW c, c = IF asp < m.top + MinChunk THEN m.top ELSE asp
  PROVE  add_segment(m, b, z)
         = IF c # m.top
           THEN insert_chunk(set_free_with_pinuse(Linked(m, b, z, c), m.top, c - m.top, c), m.top, c - m.top)
           ELSE Linked(m, b, z, c)
  BY DEF add_segment, Linked, LinkedSegs

\* The heads it has written.
LinkedHeads(h, g, b, e, c, f, old) ==
    \A a \in Addr :
        /\ g.head[a] = IF a = f THEN Fence ELSE IF a = c THEN UsedHead(SegRecord) ELSE IF a = b THEN FreeHead(e - b)
                       ELSE IF a = e THEN FakeHead ELSE IF a = old THEN Blank ELSE h.head[a]
        /\ g.foot[a] = h.foot[a]

LinkedStep(h, g, b, n, c) ==
    /\ g \in HeapSet /\ g.bin = h.bin /\ SameVictim(g, h) /\ g.aborted = h.aborted
    /\ g.segs = LinkedSegs(h.segs, b, n + TopFoot, c)
    /\ g.top = b /\ g.topsize = n
    /\ LinkedHeads(h, g, b, b + n, c, c + SegRecord, h.top + h.topsize)

LEMMA LinkedFields ==
  ASSUME NEW h, Memory(h, {}), h.segs # <<>>, NEW b, NEW n, NEW c, AddedAt(h, b, n, c), NEW z, z = n + TopFoot,
         NEW m, GotStep(h, m, z), NEW g, g = Linked(m, b, z, c)
  PROVE  LinkedStep(h, g, b, n, c) /\ GrownBy(h, g, z) /\ g.least_addr = m.least_addr
<1> DEFINE old == h.top + h.topsize
           e == b + n
           f == c + SegRecord
           x == erase(m, old)
           k == init_top(x, b, n)
           u == set_size_and_pinuse_of_inuse_chunk(k, c, SegRecord)
           list == LinkedSegs(h.segs, b, z, c)
<1>1. TopAt(h, old) /\ h \in HeapSet /\ h.segs \in Seq(SegSet) /\ FeetIn(h, {}) /\ Limit \in Int /\ Addr = 0 .. Limit
  BY TopChunk, Places DEF Memory, Segments
<1>2. old \in Addr /\ old \in Int /\ h.topsize \in Int /\ h.top \in Int /\ h.top \in Addr /\ h.top < old /\ EndOf(h.segs[1]) = old + 5
      /\ 1 \in Segs(h) /\ h.head[old] = FakeHead
  BY <1>1, FixedHeads DEF TopAt
<1>3. TopFoot = 5 /\ SegRecord = 3 /\ Granularity \in Int /\ Granularity > 7
  BY FixedHeads, Places DEF SegRecord
<1>4. n \in Int /\ n > 0 /\ c \in Int /\ c >= h.top /\ c <= old /\ z \in Int /\ z = n + 5 /\ PlacedAt(h, b, z)
  BY <1>3 DEF AddedAt
<1>5. b \in Int /\ b >= Granularity /\ b + z <= Limit
  BY <1>4 DEF PlacedAt
<1>6. EndOf(h.segs[1]) <= Limit
  BY <1>2 DEF Memory, Segments
<1>7. /\ m \in HeapSet /\ m.head = h.head /\ m.foot = h.foot /\ m.bin = h.bin /\ SameVictim(m, h) /\ SameTop(m, h)
      /\ m.aborted = h.aborted /\ m.segs = h.segs
      /\ GrownBy(h, m, z)
  BY DEF GotStep, GrownBy
<1>8. b \in Addr /\ e \in Addr /\ c \in Addr /\ f \in Addr /\ f \in Int /\ e = b + n /\ z - TopFoot = n
  <2>1. 0 <= b /\ b <= Limit
    BY <1>1, <1>3, <1>4, <1>5
  <2>2. 0 <= b + n /\ b + n <= Limit
    BY <1>1, <1>3, <1>4, <1>5
  <2>3. 0 <= c /\ c <= Limit /\ 0 <= c + 3 /\ c + 3 <= Limit
    BY <1>1, <1>2, <1>4, <1>6
  <2> QED
    BY <1>1, <1>3, <1>4, <1>5, <2>1, <2>2, <2>3
<1>9. /\ x = erase(m, old) /\ k = init_top(x, b, n) /\ u = set_size_and_pinuse_of_inuse_chunk(k, c, SegRecord)
      /\ g = [u EXCEPT !.head[f] = Fence, !.segs = list]
  <2>1. m.top + m.topsize = old /\ m.segs = h.segs
    BY <1>7 DEF SameTop
  <2> QED
    BY <1>8, <2>1 DEF Linked
<1>10. b + n \in Addr
  BY <1>8
<1>18. g = [u EXCEPT !.head[f] = Fence, !.segs = list] /\ e - b = n /\ SegRecord \in Int
  BY <1>3, <1>4, <1>5, <1>9
<1> HIDE DEF x, k, u, old, e, f
<1>11. MemoryStep(x, m) /\ x.head = Put(m.head, old, Blank) /\ x.foot = Put(m.foot, old, 0)
  BY <1>2, <1>7, <1>9, Erase
<1>12. x \in HeapSet
  BY <1>11 DEF MemoryStep
<1>13. TopSet(x, k, b, n)
  BY <1>4, <1>8, <1>9, <1>10, <1>12, InitTop
<1>14. k \in HeapSet
  BY <1>13 DEF TopSet
<1>15. MemoryStep(u, k) /\ u.foot = k.foot /\ u.head = Put(k.head, c, UsedHead(SegRecord))
  BY <1>8, <1>9, <1>14, <1>18, SetInuseOnly
<1>16. u \in HeapSet
  BY <1>15 DEF MemoryStep
<1>17. list \in Seq(SegSet)
  BY <1>1, <1>4, <1>5, SegsLinked
<1> HIDE DEF list
<1>19. /\ g \in HeapSet /\ g.head = Put(u.head, f, Fence) /\ g.foot = u.foot /\ g.bin = u.bin /\ SameVictim(g, u)
       /\ SameTop(g, u) /\ g.aborted = u.aborted /\ g.segs = list /\ g.footprint = u.footprint
       /\ g.max_footprint = u.max_footprint /\ g.footprint_limit = u.footprint_limit /\ g.least_addr = u.least_addr
  <2>1. Put(u.head, f, Fence) \in [Addr -> HeadSet] /\ g = [u EXCEPT !.head = Put(u.head, f, Fence), !.segs = list]
    <3>1. Put(u.head, f, Fence) \in [Addr -> HeadSet]
      BY <1>8, <1>16, Fields, Heads, PutType
    <3>2. g = [u EXCEPT !.head = Put(u.head, f, Fence), !.segs = list]
      BY <1>16, <1>18 DEF Put, HeapSet
    <3> QED
      BY <3>1, <3>2
  <2> DEFINE hh == Put(u.head, f, Fence)
  <2> HIDE DEF hh
  <2>2. hh \in [Addr -> HeadSet] /\ g = [u EXCEPT !.head = hh, !.segs = list]
    BY <2>1 DEF hh
  <2>3. /\ g \in HeapSet /\ g.head = hh /\ g.foot = u.foot /\ g.bin = u.bin /\ SameVictim(g, u)
        /\ SameTop(g, u) /\ g.aborted = u.aborted /\ g.segs = list /\ g.footprint = u.footprint
        /\ g.max_footprint = u.max_footprint /\ g.footprint_limit = u.footprint_limit /\ g.least_addr = u.least_addr
    BY <1>16, <1>17, <2>2 DEF HeapSet, SameVictim, SameTop
  <2> QED
    BY <2>3 DEF hh
<1>20. /\ u.bin = m.bin /\ SameVictim(u, m) /\ u.aborted = m.aborted /\ u.top = b /\ u.topsize = n
       /\ u.footprint = m.footprint /\ u.max_footprint = m.max_footprint /\ u.footprint_limit = m.footprint_limit
       /\ u.least_addr = m.least_addr /\ u.foot = x.foot
  BY <1>11, <1>13, <1>15 DEF MemoryStep, TopSet, SameVictim, SameTop, SameSystem
<1>21. ASSUME NEW a \in Addr
       PROVE  k.head[a] = IF a = b THEN FreeHead(n) ELSE IF a = e THEN FakeHead ELSE IF a = old THEN Blank ELSE h.head[a]
  <2>1. x.head[a] = IF a = old THEN Blank ELSE h.head[a]
    BY <1>1, <1>2, <1>7, <1>11, Fields DEF Put
  <2>2. k.head[a] = IF a = b THEN FreeHead(n) ELSE IF a = b + n THEN FakeHead ELSE x.head[a]
    BY <1>13 DEF TopSet
  <2> QED
    BY <1>8, <2>1, <2>2
<1>22. ASSUME NEW a \in Addr
       PROVE  g.head[a] = IF a = f THEN Fence ELSE IF a = c THEN UsedHead(SegRecord) ELSE k.head[a]
  <2>1. g.head[a] = IF a = f THEN Fence ELSE u.head[a]
    BY <1>8, <1>16, <1>19, Fields DEF Put
  <2>2. u.head[a] = IF a = c THEN UsedHead(SegRecord) ELSE k.head[a]
    BY <1>8, <1>14, <1>15, Fields DEF Put
  <2> QED
    BY <2>1, <2>2
<1>23. ASSUME NEW a \in Addr
       PROVE  g.foot[a] = h.foot[a]
  <2>1. x.foot[a] = IF a = old THEN 0 ELSE h.foot[a]
    BY <1>1, <1>2, <1>7, <1>11, Fields DEF Put
  <2>2. h.foot[old] = 0
    BY <1>1, <1>2, FixedHeads DEF FeetIn
  <2> QED
    BY <1>19, <1>20, <2>1, <2>2
<1>24. LinkedHeads(h, g, b, e, c, f, old)
  BY <1>18, <1>21, <1>22, <1>23 DEF LinkedHeads
<1>25. LinkedHeads(h, g, b, b + n, c, c + SegRecord, h.top + h.topsize)
  BY <1>24 DEF e, f, old
<1>26. g.segs = LinkedSegs(h.segs, b, n + TopFoot, c)
  BY <1>19 DEF list
<1> QED
  BY <1>7, <1>19, <1>20, <1>25, <1>26 DEF LinkedStep, GrownBy, SameVictim, SameTop

\* The region, the old top and the record's chunk are apart.
ApartPlaces(b, e, c, f, t, old) ==
    /\ b \in Addr /\ e \in Addr /\ c \in Addr /\ f \in Addr /\ t \in Addr /\ old \in Addr
    /\ b \in Int /\ e \in Int /\ c \in Int /\ f \in Int /\ t \in Int /\ old \in Int
    /\ b # e /\ b # c /\ b # f /\ b # t /\ b # old /\ e # c /\ e # f /\ e # t /\ e # old
    /\ t <= c /\ c <= old /\ c < f /\ f # old /\ t < old /\ f = c + 3

LEMMA PlacesApart ==
  ASSUME NEW h, Memory(h, {}), h.segs # <<>>, NEW b, NEW n, NEW c, AddedAt(h, b, n, c)
  PROVE  ApartPlaces(b, b + n, c, c + SegRecord, h.top, h.top + h.topsize)
<1> DEFINE old == h.top + h.topsize
           e == b + n
           f == c + SegRecord
           t == h.top
<1>1. TopAt(h, old) /\ Limit \in Int /\ Addr = 0 .. Limit /\ h.segs \in Seq(SegSet)
  BY TopChunk, Places DEF Memory, Segments
<1>2. old \in Addr /\ old \in Int /\ t \in Int /\ t \in Addr /\ t < old /\ EndOf(h.segs[1]) = old + 5
      /\ 1 \in Segs(h) /\ h.segs[1].base \in Int /\ h.segs[1].base <= t
  BY <1>1, FixedHeads DEF TopAt
<1>3. TopFoot = 5 /\ SegRecord = 3 /\ Granularity \in Int /\ Granularity > 7
  BY FixedHeads, Places DEF SegRecord
<1>4. n \in Int /\ n > 0 /\ c \in Int /\ c >= t /\ c <= old /\ PlacedAt(h, b, n + 5) /\ c + 3 # old
  BY <1>3 DEF AddedAt
<1>5. b \in Int /\ b >= Granularity /\ b + (n + 5) <= Limit
      /\ \A i \in Segs(h) : b + (n + 5) <= h.segs[i].base \/ EndOf(h.segs[i]) <= b
  BY <1>4 DEF PlacedAt
<1>6. EndOf(h.segs[1]) <= Limit
  BY <1>2 DEF Memory, Segments
<1>7. f = c + 3 /\ e = b + n
  BY <1>3
<1> HIDE DEF old, e, f, t
<1>8. b + (n + 5) <= h.segs[1].base \/ old + 5 <= b
  BY <1>2, <1>5
<1>9. e \in Int /\ f \in Int /\ b < e /\ c < f /\ f <= old + 3
  BY <1>2, <1>4, <1>5, <1>7
<1>10. /\ b # e /\ b # c /\ b # f /\ b # t /\ b # old /\ e # c /\ e # f /\ e # t /\ e # old
  <2>1. CASE b + (n + 5) <= h.segs[1].base
    BY <1>2, <1>4, <1>5, <1>7, <1>9, <2>1
  <2>2. CASE old + 5 <= b
    BY <1>2, <1>4, <1>5, <1>7, <1>9, <2>2
  <2> QED
    BY <1>8, <2>1, <2>2
<1>11. b \in Addr /\ e \in Addr /\ c \in Addr /\ f \in Addr
  <2>1. 0 <= b /\ b <= Limit /\ 0 <= e /\ e <= Limit
    BY <1>1, <1>3, <1>4, <1>5, <1>7
  <2>2. 0 <= c /\ c <= Limit /\ 0 <= f /\ f <= Limit
    BY <1>1, <1>2, <1>4, <1>6, <1>7
  <2> QED
    BY <1>1, <1>4, <1>5, <1>9, <2>1, <2>2
<1>12. ApartPlaces(b, e, c, f, t, old)
  BY <1>2, <1>4, <1>5, <1>7, <1>9, <1>10, <1>11 DEF ApartPlaces
<1> QED
  BY <1>12 DEF old, e, f, t

\* All but heads as in g.
SameButHeads(w, g) ==
    /\ w \in HeapSet /\ w.foot = g.foot /\ w.bin = g.bin /\ SameVictim(w, g) /\ SameTop(w, g) /\ SameSystem(w, g)
    /\ w.aborted = g.aborted

LEMMA AddedFrom ==
  ASSUME NEW h, Memory(h, {}), h.segs # <<>>, NEW b, NEW n, NEW c, AddedAt(h, b, n, c),
         NEW g, LinkedStep(h, g, b, n, c), g.least_addr <= h.least_addr, g.least_addr <= b,
         NEW w, SameButHeads(w, g), AddedHeads(h, w, b, n, c + SegRecord, h.top, h.top + h.topsize)
  PROVE  Added(h, w, b, n, c)
<1>1. /\ w \in HeapSet /\ w.bin = h.bin /\ SameVictim(w, h) /\ w.aborted = h.aborted
      /\ w.least_addr <= h.least_addr /\ w.least_addr <= b /\ w.top = b /\ w.topsize = n
      /\ w.segs = LinkedSegs(h.segs, b, n + TopFoot, c)
  BY DEF SameButHeads, LinkedStep, SameVictim, SameTop, SameSystem
<1>2. h.segs \in Seq(SegSet) /\ b \in Int /\ c \in Int /\ n + TopFoot \in Int
  BY DEF Memory, Segments, AddedAt, PlacedAt
<1> DEFINE z == n + TopFoot
<1>3. z \in Int /\ w.segs = LinkedSegs(h.segs, b, z, c)
  BY <1>1, <1>2
<1> HIDE DEF z
<1>4. /\ Len(w.segs) = Len(h.segs) + 1
      /\ w.segs[1].base = b /\ w.segs[1].size = z /\ w.segs[1].rec = Null
      /\ w.segs[2].base = h.segs[1].base /\ w.segs[2].size = h.segs[1].size /\ w.segs[2].rec = c
      /\ \A j \in 2 .. Len(h.segs) : w.segs[j + 1] = h.segs[j]
  BY <1>2, <1>3, SegsLinked
<1>5. \A j \in Segs(h) \ {1} : w.segs[j + 1] = h.segs[j]
  BY <1>4 DEF Segs
<1> QED
  BY <1>1, <1>4, <1>5 DEF Added, z

\* If there is no room for a chunk in front of the fence, the record takes all of it.
LEMMA AddedWhole ==
  ASSUME NEW h, Memory(h, {}), h.segs # <<>>, NEW b, NEW n, NEW c, AddedAt(h, b, n, c), c = h.top,
         NEW g, LinkedStep(h, g, b, n, c), g.least_addr <= h.least_addr, g.least_addr <= b
  PROVE  Added(h, g, b, n, c) /\ AddedRecord(g, g, h.top, h.top + h.topsize, c)
<1> DEFINE old == h.top + h.topsize
           e == b + n
           f == c + SegRecord
           t == h.top
<1>1. ApartPlaces(b, e, c, f, t, old)
  BY PlacesApart
<1>2. LinkedHeads(h, g, b, e, c, f, old) /\ g \in HeapSet
  BY DEF LinkedStep
<1>3. f = c + SegRecord /\ SegRecord = 3 /\ e = b + n /\ n \in Int /\ c = t
  BY DEF SegRecord, AddedAt
<1> HIDE DEF old, e, f, t
<1>4. e - b = n /\ f - t = SegRecord
  BY <1>1, <1>3 DEF ApartPlaces
<1>5. ASSUME NEW a \in Addr
      PROVE  /\ g.head[a] = IF a = b THEN FreeHead(n) ELSE IF a = e THEN FakeHead
                            ELSE IF a = t THEN UsedHead(f - t) ELSE IF a = f THEN Fence
                            ELSE IF a = old THEN Blank ELSE h.head[a]
             /\ g.foot[a] = h.foot[a]
  <2>1. /\ g.head[a] = IF a = f THEN Fence ELSE IF a = c THEN UsedHead(SegRecord) ELSE IF a = b THEN FreeHead(e - b)
                       ELSE IF a = e THEN FakeHead ELSE IF a = old THEN Blank ELSE h.head[a]
        /\ g.foot[a] = h.foot[a]
    BY <1>2 DEF LinkedHeads
  <2>2. b # e /\ b # c /\ b # f /\ e # c /\ e # f /\ c # f
    BY <1>1 DEF ApartPlaces
  <2> QED
    BY <1>3, <1>4, <2>1, <2>2
<1>6. AddedHeads(h, g, b, n, f, t, old)
  BY <1>3, <1>5 DEF AddedHeads
<1>7. SameButHeads(g, g)
  BY <1>2 DEF SameButHeads, SameVictim, SameTop, SameSystem
<1>8. Added(h, g, b, n, c)
  BY <1>6, <1>7, AddedFrom DEF f, t, old
<1>9. t \in Addr /\ old \in Addr /\ t # old /\ t # b /\ t # e /\ old # b /\ old # e /\ old # f /\ f # t
  BY <1>1, <1>3 DEF ApartPlaces
<1>10. g.head[t] = UsedHead(SegRecord) /\ g.head[old] = Blank
  BY <1>4, <1>5, <1>9
<1>11. IsUsed(g, t) /\ Size(g, t) = SegRecord /\ ~IsUsed(g, old)
  BY <1>3, <1>9, <1>10, FixedHeads DEF IsUsed, Size, UsedHead, Fence, Blank
<1>12. AddedRecord(g, g, t, old, c)
  BY <1>3, <1>11 DEF AddedRecord
<1> QED
  BY <1>8, <1>12 DEF t, old

\* From w, where the old top and what is behind it is one chunk in use, the rest
\* of the old top has been cut off and freed.
AddedCut(w, r, t, old, f) ==
    /\ r \in HeapSet /\ SameSystem(r, w) /\ SameVictim(r, w) /\ SameTop(r, w) /\ r.aborted = w.aborted
    /\ BinsOnce(r) /\ \A s \in Sizes : \A a : InBin(r, s, a) <=> InBin(w, s, a) \/ (s = old - t /\ a = t)
    /\ \A a \in Addr : a # t /\ a # old => r.head[a] = w.head[a] /\ r.foot[a] = w.foot[a]
    /\ r.head[t] = FreeHead(old - t) /\ r.foot[t] = w.foot[t]
    /\ Size(r, old) = f - old /\ r.head[old].cinuse /\ ~r.head[old].pinuse /\ r.foot[old] = old - t
    /\ old - t >= 2 /\ f - old >= 2
    /\ w.top # t /\ w.top # old

LEMMA AddedCutSound ==
  ASSUME NEW w, Memory(w, {}), Victim(w), Bins(w), NEW t, NEW old \in Addr, NEW f, IsUsed(w, t), Past(w, t) = f,
         w.head[t].pinuse, w.head[f] = Fence, t < old, old < f, NEW r, AddedCut(w, r, t, old, f)
  PROVE  Memory(r, {}) /\ Victim(r) /\ Bins(r)
<1>1. IsChunk(w, t)
  BY DEF IsChunk
<1>2. /\ t \in Addr /\ t \in Int /\ f \in Addr /\ f \in Int /\ IsHeader(w, f) /\ Empty(w, t, f)
      /\ t > 0
      /\ \A i \in Segs(w) : InSeg(w, i, t) => InSeg(w, i, f)
  BY <1>1, ChunkFacts
<1>3. old \in Int /\ \A a \in Addr : a \in Int
  BY Places
<1>4. /\ r \in HeapSet /\ SameSystem(r, w) /\ SameVictim(r, w) /\ SameTop(r, w) /\ r.aborted = w.aborted
      /\ BinsOnce(r) /\ (\A s \in Sizes : \A a : InBin(r, s, a) <=> InBin(w, s, a) \/ (s = old - t /\ a = t))
      /\ (\A a \in Addr : a # t /\ a # old => r.head[a] = w.head[a] /\ r.foot[a] = w.foot[a])
      /\ r.head[t] = FreeHead(old - t) /\ r.foot[t] = w.foot[t]
      /\ Size(r, old) = f - old /\ r.head[old].cinuse /\ ~r.head[old].pinuse /\ r.foot[old] = old - t
      /\ old - t >= 2 /\ f - old >= 2
      /\ w.top # t /\ w.top # old
  BY DEF AddedCut
<1>5. Outside(t, f, w.top)
  <2>1. w.top \in Int /\ (w.top = Null \/ IsHeader(w, w.top))
    BY TopPlace
  <2>2. CASE w.top = Null
    BY <1>2, <2>2 DEF Outside, Null
  <2>3. CASE IsHeader(w, w.top)
    BY <1>1, <1>4, <2>3, HeadersOfChunk
  <2> QED
    BY <2>1, <2>2, <2>3
<1>6. ~(t <= w.top /\ w.top < f)
  BY <1>2, <1>5, TopPlace DEF Outside
<1>7. /\ Size(r, t) = old - t /\ ~r.head[t].cinuse /\ r.head[t].pinuse
      /\ r.head[f] = Fence /\ r.foot[f] = w.foot[f]
  BY <1>2, <1>3, <1>4 DEF Size, FreeHead
<1>8. \A a \in Addr : /\ t < a /\ a < f /\ a # old => r.head[a] = Blank /\ r.foot[a] = 0
                      /\ a < t \/ f < a => r.head[a] = w.head[a] /\ r.foot[a] = w.foot[a]
  <2>1. ASSUME NEW a \in Addr, t < a, a < f, a # old
        PROVE  r.head[a] = Blank /\ r.foot[a] = 0
    <3>1. a # t
      BY <1>2, <1>3, <2>1
    <3>2. w.head[a] = Blank /\ w.foot[a] = 0
      BY <1>2, <2>1 DEF Empty
    <3> QED
      BY <1>4, <2>1, <3>1, <3>2
  <2>2. ASSUME NEW a \in Addr, a < t \/ f < a
        PROVE  r.head[a] = w.head[a] /\ r.foot[a] = w.foot[a]
    <3>1. a # t /\ a # old
      BY <1>2, <1>3, <2>2
    <3> QED
      BY <1>4, <3>1
  <2> QED
    BY <2>1, <2>2
<1>9. Recut(w, r, t, old, f)
  <2>1. r.segs = w.segs /\ r.least_addr = w.least_addr
    BY <1>4 DEF SameSystem
  <2>2. t <= old
    BY <1>2, <1>3
  <2>3. /\ Size(r, old) = f - old
        /\ Size(r, t) = old - t /\ (r.head[old].pinuse <=> r.head[t].cinuse)
        /\ (r.head[t].pinuse <=> w.head[t].pinuse)
        /\ Size(r, f) = Size(w, f) /\ (r.head[f].cinuse <=> w.head[f].cinuse)
        /\ (r.head[f].pinuse <=> r.head[old].cinuse)
        /\ r.foot[t] = w.foot[t] /\ r.foot[old] = (IF r.head[t].cinuse THEN 0 ELSE old - t)
    BY <1>4, <1>7, FixedHeads DEF Size
  <2> QED
    BY <1>2, <1>4, <1>6, <1>7, <1>8, <2>1, <2>2, <2>3 DEF Recut
<1>10. Recuttable(w, r, t, old, f)
  <2>1. /\ old - t >= MinChunk /\ f - old >= MinChunk
    BY <1>4 DEF MinChunk
  <2>2. Fence # FakeHead
    BY FixedHeads
  <2> QED
    BY <1>1, <1>2, <1>4, <1>7, <2>1, <2>2 DEF Recuttable
<1>11. FeetLeft(r, {}, {}, t, old, f)
  <2>1. w.foot[f] = 0
    <3>1. FeetIn(w, {})
      BY DEF Memory
    <3> QED
      BY <1>2, <3>1, FixedHeads DEF FeetIn
  <2> QED
    BY <1>7, <2>1 DEF FeetLeft
<1>12. Memory(r, {})
  BY <1>9, <1>10, <1>11, RecutMemory
<1>13. \A a : IsHeader(w, a) /\ a # t => Outside(t, f, a)
  BY <1>1, HeadersOfChunk
<1>14. ~IsFree(w, t)
  BY DEF IsFree, IsUsed
<1>15. w.dv # t /\ Outside(t, f, w.dv)
  <2>1. CASE w.dv = Null
    BY <1>2, <2>1 DEF Outside, Null
  <2>2. CASE w.dv # Null
    <3>1. IsFree(w, w.dv)
      BY <2>2 DEF Victim
    <3>2. IsHeader(w, w.dv)
      BY <3>1, ChunkIsHeader DEF IsChunk
    <3> QED
      BY <1>13, <1>14, <3>1, <3>2
  <2> QED
    BY <2>1, <2>2
<1>16. VictimCut(w, r, t, old, f)
  BY <1>4, <1>15 DEF VictimCut
<1>17. BinsCut(w, r, t, old, f)
  <2>1. IsFree(r, t) /\ ~IsFree(r, old) /\ t # r.dv /\ t # r.top /\ r.dv = w.dv
    BY <1>2, <1>4, <1>7, <1>15 DEF IsFree, SameTop, SameVictim
  <2>2. ASSUME NEW s \in Sizes, NEW a
        PROVE  InBin(r, s, a) <=>
                 \/ InBin(w, s, a) /\ Outside(t, f, a)
                 \/ a = w.dv /\ w.dv # Null /\ Outside(t, f, a) /\ r.dv # a /\ s = w.dvsize
                 \/ (a = t \/ a = old) /\ IsFree(r, a) /\ a # r.dv /\ a # r.top /\ s = Size(r, a)
    <3>1. InBin(w, s, a) => Outside(t, f, a)
      <4>1. InBin(w, s, a) => IsFree(w, a)
        BY DEF Bins
      <4>2. IsFree(w, a) => IsHeader(w, a)
        BY ChunkIsHeader DEF IsChunk
      <4> QED
        BY <1>13, <1>14, <4>1, <4>2
    <3>2. InBin(r, s, a) <=> InBin(w, s, a) \/ (s = old - t /\ a = t)
      BY <1>4
    <3>3. ~(a = w.dv /\ r.dv # a)
      BY <2>1
    <3>4. (a = t \/ a = old) /\ IsFree(r, a) /\ a # r.dv /\ a # r.top /\ s = Size(r, a) <=> s = old - t /\ a = t
      BY <1>7, <2>1
    <3> QED
      BY <3>1, <3>2, <3>3, <3>4
  <2> QED
    BY <1>4, <2>2 DEF BinsCut
<1>18. Victim(r) /\ Bins(r)
  BY <1>9, <1>10, <1>16, <1>17, RecutBins
<1> QED
  BY <1>12, <1>18

\* Else the record is behind what is left of the old top.
SplitParts(h, b, n, c, t, old, g, k, r) ==
    /\ h.segs # <<>> /\ AddedAt(h, b, n, c) /\ t = h.top /\ old = h.top + h.topsize /\ c = old /\ 2 <= old - t
    /\ LinkedStep(h, g, b, n, c) /\ g.least_addr <= h.least_addr /\ g.least_addr <= b
    /\ k = set_free_with_pinuse(g, t, old - t, old) /\ r = insert_chunk(k, t, old - t)

SplitDone(h, b, n, c, t, old, g, r) ==
    /\ Memory(r, {}) /\ Victim(r) /\ Bins(r) /\ r.aborted = h.aborted
    /\ SameSystem(r, g) /\ SameTop(r, g)
    /\ \E w : Added(h, w, b, n, c) /\ AddedRecord(w, r, t, old, c)

LEMMA AddedSplit ==
  ASSUME NEW h, NEW U, Sound(h, U, {}), NEW b, NEW n, NEW c, NEW t, NEW old, NEW g, NEW k, NEW r,
         SplitParts(h, b, n, c, t, old, g, k, r)
  PROVE  SplitDone(h, b, n, c, t, old, g, r)
<1> SUFFICES ASSUME h.segs # <<>>, AddedAt(h, b, n, c), t = h.top, old = h.top + h.topsize, c = old, 2 <= old - t,
                    LinkedStep(h, g, b, n, c), g.least_addr <= h.least_addr, g.least_addr <= b,
                    k = set_free_with_pinuse(g, t, old - t, old), r = insert_chunk(k, t, old - t)
             PROVE  SplitDone(h, b, n, c, t, old, g, r)
  BY DEF SplitParts
<1> DEFINE e == b + n
           f == c + SegRecord
           s == old - t
           w1 == [g EXCEPT !.head = Put(g.head, t, UsedHead(f - t))]
           w == [w1 EXCEPT !.head = Put(w1.head, old, Blank)]
<1>1. Memory(h, {}) /\ h \in HeapSet
  BY DEF Sound, Memory
<1>2. ApartPlaces(b, e, c, f, t, old)
  BY <1>1, PlacesApart
<1>3. LinkedHeads(h, g, b, e, c, f, old) /\ g \in HeapSet
  BY DEF LinkedStep
<1>4. f = c + SegRecord /\ SegRecord = 3 /\ e = b + n /\ n \in Int
  BY DEF SegRecord, AddedAt
<1> HIDE DEF e, f
<1>5. /\ t \in Addr /\ t \in Int /\ old \in Addr /\ old \in Int /\ f \in Addr /\ f \in Int /\ t < old /\ old < f
      /\ f - old = 3 /\ f - t \in Int /\ e - b = n /\ b # e /\ b # t /\ b # old /\ b # f /\ e # t /\ e # old /\ e # f
      /\ b \in Addr /\ e \in Addr /\ t # old /\ f # t /\ f # old
  BY <1>2, <1>4 DEF ApartPlaces
<1>6. /\ MemoryStep(w1, g) /\ w1.foot = g.foot /\ w1.head = Put(g.head, t, UsedHead(f - t)) /\ w1 \in HeapSet
  BY <1>3, <1>5, HeadWritten, Heads DEF MemoryStep
<1> HIDE DEF w1
<1>7. MemoryStep(w, w1) /\ w.foot = w1.foot /\ w.head = Put(w1.head, old, Blank) /\ w \in HeapSet
  BY <1>5, <1>6, HeadWritten, Heads DEF MemoryStep
<1> HIDE DEF w
<1>8. MemoryStep(w, g) /\ w.foot = g.foot
  BY <1>6, <1>7, MemoryStepsCompose
<1>9. ASSUME NEW a \in Addr
      PROVE  w.head[a] = IF a = old THEN Blank ELSE IF a = t THEN UsedHead(f - t) ELSE g.head[a]
  <2>1. w.head[a] = IF a = old THEN Blank ELSE w1.head[a]
    BY <1>5, <1>6, <1>7, Fields DEF Put
  <2>2. w1.head[a] = IF a = t THEN UsedHead(f - t) ELSE g.head[a]
    BY <1>3, <1>5, <1>6, Fields DEF Put
  <2> QED
    BY <2>1, <2>2
<1>10. ASSUME NEW a \in Addr
       PROVE  /\ g.head[a] = IF a = f THEN Fence ELSE IF a = old THEN UsedHead(SegRecord) ELSE IF a = b THEN FreeHead(n)
                             ELSE IF a = e THEN FakeHead ELSE h.head[a]
              /\ g.foot[a] = h.foot[a]
  <2>1. /\ g.head[a] = IF a = f THEN Fence ELSE IF a = c THEN UsedHead(SegRecord) ELSE IF a = b THEN FreeHead(e - b)
                       ELSE IF a = e THEN FakeHead ELSE IF a = old THEN Blank ELSE h.head[a]
        /\ g.foot[a] = h.foot[a]
    BY <1>3 DEF LinkedHeads
  <2> QED
    BY <1>5, <2>1
<1>11. AddedHeads(h, w, b, n, f, t, old)
  <2>1. ASSUME NEW a \in Addr
        PROVE  /\ w.head[a] = IF a = b THEN FreeHead(n) ELSE IF a = b + n THEN FakeHead
                              ELSE IF a = t THEN UsedHead(f - t) ELSE IF a = f THEN Fence
                              ELSE IF a = old THEN Blank ELSE h.head[a]
               /\ w.foot[a] = h.foot[a]
    BY <1>4, <1>5, <1>8, <1>9, <1>10, ZenonT(60)
  <2> QED
    BY <2>1 DEF AddedHeads
<1>12. SameButHeads(w, g)
  BY <1>7, <1>8 DEF MemoryStep, SameButHeads
<1>13. Added(h, w, b, n, c)
  BY <1>1, <1>11, <1>12, AddedFrom DEF f
<1>14. Memory(w, {}) /\ Victim(w) /\ Bins(w)
  BY <1>1, <1>13, AddedMemory, AddedBins
<1>15. w.head[t] = UsedHead(f - t) /\ w.head[old] = Blank /\ w.head[f] = Fence /\ g.head[old] = UsedHead(SegRecord)
  BY <1>5, <1>9, <1>10
<1>16. IsUsed(w, t) /\ Past(w, t) = f /\ w.head[t].pinuse
  <2>1. UsedHead(f - t).size = f - t /\ UsedHead(f - t).cinuse /\ UsedHead(f - t).pinuse
    BY DEF UsedHead
  <2>2. t + (f - t) = f /\ f - t # 0
    BY <1>5
  <2> QED
    BY <1>5, <1>15, <2>1, <2>2, FixedHeads DEF IsUsed, Past
<1>17. old = t + s /\ s \in Int /\ s \in Sizes /\ 2 <= s /\ s = old - t
  <2>1. s \in Int /\ old = t + s /\ 2 <= s
    BY <1>5
  <2>2. s \in Sizes
    <3>1. IsChunk(h, t) /\ Past(h, t) = old
      BY <1>1, TopChunk DEF TopAt
    <3>2. Size(h, t) \in Sizes /\ Past(h, t) = t + Size(h, t) /\ Size(h, t) \in Int
      BY <1>1, <3>1, ChunkFacts
    <3>3. Size(h, t) = s
      BY <1>5, <3>1, <3>2
    <3> QED
      BY <3>2, <3>3
  <2> QED
    BY <2>1, <2>2
<1>18. k = set_free_with_pinuse(g, t, s, old) /\ r = insert_chunk(k, t, s)
  OBVIOUS
<1> HIDE DEF s
<1>19. /\ MemoryStep(k, g)
       /\ k.head = Put(Put(g.head, old, BehindFree(g.head[old])), t, FreeHead(s))
       /\ k.foot = Put(g.foot, old, s)
  BY <1>3, <1>5, <1>17, <1>18, SetFreeWithPinuse
<1>20. k \in HeapSet /\ k.bin = g.bin /\ g.bin = w.bin /\ SameVictim(k, w) /\ SameTop(k, w) /\ SameSystem(k, w) /\ k.aborted = w.aborted
  BY <1>8, <1>19 DEF MemoryStep, SameVictim, SameTop, SameSystem
<1>21. ASSUME NEW a \in Addr
       PROVE  /\ k.head[a] = IF a = t THEN FreeHead(s) ELSE IF a = old THEN BehindFree(g.head[old]) ELSE g.head[a]
              /\ k.foot[a] = IF a = old THEN s ELSE g.foot[a]
  <2>1. k.head[a] = IF a = t THEN FreeHead(s) ELSE IF a = old THEN BehindFree(g.head[old]) ELSE g.head[a]
    <3> DEFINE x == BehindFree(g.head[old])
               y == FreeHead(s)
    <3>1. k.head = Put(Put(g.head, old, x), t, y)
      BY <1>19
    <3> HIDE DEF x, y
    <3>2. k.head[a] = IF a = t THEN y ELSE IF a = old THEN x ELSE g.head[a]
      BY <1>3, <1>5, <3>1, Fields DEF Put
    <3> QED
      BY <3>2 DEF x, y
  <2>2. k.foot[a] = IF a = old THEN s ELSE g.foot[a]
    BY <1>3, <1>5, <1>19, Fields DEF Put
  <2> QED
    BY <2>1, <2>2
<1>22. BinsOnce(k) /\ ~InBin(k, s, t)
  <2>1. ~IsFree(w, t)
    BY <1>16 DEF IsFree, IsUsed
  <2>2. BinsOnce(w) /\ ~InBin(w, s, t)
    BY <1>14, <1>17, <2>1 DEF Bins
  <2> QED
    BY <1>20, <2>2 DEF BinsOnce, InBin
<1>23. /\ BinStep(r, k) /\ r.aborted = k.aborted /\ BinsOnce(r)
       /\ \A u \in Sizes : \A a : InBin(r, u, a) <=> InBin(k, u, a) \/ (u = s /\ a = t)
  BY <1>5, <1>17, <1>18, <1>20, <1>22, InsertChunk, SMTT(60)
<1>24. r \in HeapSet /\ r.head = k.head /\ r.foot = k.foot /\ SameVictim(r, k) /\ SameTop(r, k) /\ SameSystem(r, k)
  BY <1>23 DEF BinStep
<1>25. r.head[old] = BehindFree(UsedHead(SegRecord)) /\ r.foot[old] = s /\ r.head[t] = FreeHead(s) /\ r.foot[t] = w.foot[t]
       /\ \A a \in Addr : a # t /\ a # old => r.head[a] = w.head[a] /\ r.foot[a] = w.foot[a]
  <2>1. r.head[old] = BehindFree(UsedHead(SegRecord)) /\ r.foot[old] = s /\ r.head[t] = FreeHead(s) /\ r.foot[t] = w.foot[t]
    BY <1>5, <1>8, <1>15, <1>21, <1>24, SMTT(60)
  <2>2. ASSUME NEW a \in Addr, a # t, a # old
        PROVE  r.head[a] = w.head[a] /\ r.foot[a] = w.foot[a]
    BY <1>8, <1>9, <1>21, <1>24, <2>2
  <2> QED
    BY <2>1, <2>2
<1>26. Size(r, old) = 3 /\ r.head[old].cinuse /\ ~r.head[old].pinuse
  BY <1>4, <1>25, SMTT(60) DEF Size, BehindFree, UsedHead
<1>27. AddedCut(w, r, t, old, f)
  <2>1. w.top # t /\ w.top # old
    BY <1>5, <1>13 DEF Added
  <2>2. SameSystem(r, w) /\ SameVictim(r, w) /\ SameTop(r, w) /\ r.aborted = w.aborted
    BY <1>20, <1>23, <1>24 DEF SameSystem, SameVictim, SameTop
  <2>3. \A u \in Sizes : \A a : InBin(r, u, a) <=> InBin(w, u, a) \/ (u = old - t /\ a = t)
    <3>1. \A u \in Sizes : \A a : InBin(k, u, a) <=> InBin(w, u, a)
      BY <1>20 DEF InBin
    <3> QED
      BY <1>17, <1>23, <3>1
  <2>4. r.foot[old] = old - t /\ r.head[t] = FreeHead(old - t) /\ Size(r, old) = f - old /\ f - old >= 2 /\ old - t >= 2
    BY <1>5, <1>17, <1>25, <1>26
  <2> QED
    BY <1>23, <1>24, <1>25, <1>26, <2>1, <2>2, <2>3, <2>4 DEF AddedCut
<1>28. Memory(r, {}) /\ Victim(r) /\ Bins(r)
  BY <1>5, <1>14, <1>15, <1>16, <1>27, AddedCutSound
<1>29. AddedRecord(w, r, t, old, c)
  <2>1. r.segs = w.segs
    BY <1>27 DEF AddedCut, SameSystem
  <2>2. ~IsUsed(r, t)
    BY <1>25 DEF IsUsed, FreeHead
  <2>3. IsUsed(r, old) /\ Size(r, old) = SegRecord
    BY <1>4, <1>5, <1>26, FixedHeads DEF IsUsed
  <2> QED
    BY <1>25, <2>1, <2>2, <2>3, SMTT(60) DEF AddedRecord
<1>30. SameSystem(r, g) /\ SameTop(r, g) /\ r.aborted = h.aborted
  <2>1. g.aborted = h.aborted
    BY DEF LinkedStep
  <2> QED
    BY <1>19, <1>23, <1>24, <2>1 DEF MemoryStep, SameSystem, SameTop
<1> QED
  BY <1>13, <1>28, <1>29, <1>30 DEF SplitDone

\* A region apart from all others becomes the new top.
LEMMA NewSegment ==
  ASSUME NEW h, NEW U, Sound(h, U, {}), is_initialized(h), NEW nb \in Int, 2 <= nb, NEW z, z = asize(nb),
         NEW b, PlacedAt(h, b, z), b # Null, WithinLimit(h, z),
         NEW g, g = add_segment(lower_least_addr(Got(h, z), b), b, z)
  PROVE  Provided(h, Take(g, nb), U, nb)
<1> DEFINE m == lower_least_addr(Got(h, z), b)
           t == h.top
           old == h.top + h.topsize
           n == z - TopFoot
           asp == EndOf(h.segs[1]) - TopFoot
           c == IF asp < t + MinChunk THEN t ELSE asp
           k == Linked(m, b, z, c)
           r == insert_chunk(set_free_with_pinuse(k, t, c - t, c), t, c - t)
<1>1. Memory(h, {}) /\ h \in HeapSet /\ h.segs \in Seq(SegSet) /\ TopIn(h) /\ h.aborted = FALSE
  BY DEF Sound, Memory, Segments
<1>2. h.segs # <<>>
  BY <1>1 DEF TopIn, is_initialized
<1>3. /\ t \in Int /\ old \in Int /\ t < old /\ EndOf(h.segs[1]) = old + 5 /\ TopFoot = 5 /\ MinChunk = 2
      /\ old \in Addr /\ SegRecord = 3
  <2>1. TopAt(h, old)
    BY <1>1, <1>2, TopChunk
  <2> QED
    BY <2>1, FixedHeads DEF TopAt, MinChunk, SegRecord
<1>4. z \in Int /\ nb + 6 <= z /\ b \in Int
  BY AskedFor DEF PlacedAt
<1>5. GotStep(h, m, z) /\ m.least_addr <= h.least_addr /\ m.least_addr <= b
  BY <1>1, <1>4, LowerLeast
<1>6. m.segs = h.segs /\ m.top = h.top
  BY <1>5 DEF GotStep, SameTop
<1>7. segment_holding(m, m.top) = 1 /\ asp = EndOf(m.segs[1]) - TopFoot
  <2>1. segment_holding(h, h.top) = 1
    BY <1>1, <1>2, HoldsTop
  <2>2. segment_holding(m, m.top) = segment_holding(h, h.top)
    BY <1>6 DEF segment_holding, Segs
  <2> QED
    BY <1>6, <2>1, <2>2
<1>8. asp = old /\ n \in Int /\ n + TopFoot = z /\ nb < n /\ n > 0
  BY <1>3, <1>4
<1>9. /\ c = IF asp < m.top + MinChunk THEN m.top ELSE asp
      /\ c = IF old < t + 2 THEN t ELSE old
  BY <1>3, <1>6, <1>8
<1>10. m = lower_least_addr(Got(h, z), b) /\ g = add_segment(m, b, z)
  OBVIOUS
<1> HIDE DEF m, asp, c, n
<1>11. g = IF c # t THEN r ELSE k
  BY <1>6, <1>7, <1>9, <1>10, AddSegmentCases
<1>12. k = Linked(m, b, z, c)
  OBVIOUS
<1>13. AddedAt(h, b, n, c)
  <2>1. c \in Int /\ c >= h.top /\ c <= h.top + h.topsize
    BY <1>3, <1>9
  <2>2. c + SegRecord # h.top + h.topsize
    BY <1>3, <1>9
  <2>3. PlacedAt(h, b, n + TopFoot)
    BY <1>8
  <2> QED
    BY <1>8, <2>1, <2>2, <2>3 DEF AddedAt
<1> HIDE DEF k
<1>14. LinkedStep(h, k, b, n, c) /\ GrownBy(h, k, z) /\ k.least_addr = m.least_addr
  BY <1>1, <1>2, <1>5, <1>8, <1>12, <1>13, LinkedFields
<1>15. k.aborted = h.aborted /\ k.top = b /\ k.topsize = n /\ k.segs = LinkedSegs(h.segs, b, n + TopFoot, c) /\ k \in HeapSet
  BY <1>14 DEF LinkedStep
<1> HIDE DEF t, old, r
<1>16. /\ Memory(g, {}) /\ Victim(g) /\ Bins(g) /\ g.aborted = FALSE
       /\ SameSystem(g, k) /\ SameTop(g, k)
       /\ \E w : Added(h, w, b, n, c) /\ AddedRecord(w, g, t, old, c)
  <2>1. CASE c = t
    <3>1. g = k
      BY <1>11, <2>1
    <3>2. Added(h, g, b, n, c) /\ AddedRecord(g, g, t, old, c)
      BY <1>1, <1>2, <1>5, <1>13, <1>14, <2>1, <3>1, AddedWhole DEF t, old
    <3>3. Memory(g, {}) /\ Victim(g) /\ Bins(g)
      BY <1>1, <1>2, <1>13, <3>2, AddedMemory, AddedBins
    <3>4. SameSystem(g, k) /\ SameTop(g, k) /\ g.aborted = FALSE
      BY <1>1, <1>15, <3>1 DEF SameSystem, SameTop
    <3> QED
      BY <3>2, <3>3, <3>4
  <2>2. CASE c # t
    <3>1. c = old /\ 2 <= old - t
      BY <1>3, <1>9, <2>2
    <3> DEFINE kk == set_free_with_pinuse(k, t, old - t, old)
    <3>2. g = insert_chunk(kk, t, old - t)
      BY <1>11, <2>2, <3>1 DEF r
    <3>3. kk = set_free_with_pinuse(k, t, old - t, old)
      OBVIOUS
    <3> HIDE DEF kk
    <3>4. t = h.top /\ old = h.top + h.topsize
      BY DEF t, old
    <3>5. k.least_addr <= h.least_addr /\ k.least_addr <= b
      BY <1>5, <1>14
    <3>6. /\ Memory(g, {}) /\ Victim(g) /\ Bins(g) /\ g.aborted = h.aborted
          /\ SameSystem(g, k) /\ SameTop(g, k)
          /\ \E w : Added(h, w, b, n, c) /\ AddedRecord(w, g, t, old, c)
      <4>1. SplitParts(h, b, n, c, t, old, k, kk, g)
        BY <1>2, <1>13, <1>14, <3>1, <3>2, <3>3, <3>4, <3>5 DEF SplitParts
      <4>2. SplitDone(h, b, n, c, t, old, k, g)
        BY <4>1, AddedSplit
      <4> QED
        BY <4>2 DEF SplitDone
    <3> QED
      BY <1>1, <3>6
  <2> QED
    BY <2>1, <2>2
<1>17. Records(g) /\ Users(g, U) /\ SameSizes(h, g, U)
  <2>1. PICK w : Added(h, w, b, n, c) /\ AddedRecord(w, g, t, old, c)
    BY <1>16
  <2>2. t = h.top /\ old = h.top + h.topsize
    BY DEF t, old
  <2> QED
    BY <1>2, <1>13, <2>1, <2>2, AddedUsers
<1>18. Sound(g, U, {})
  BY <1>16, <1>17 DEF Sound
<1>19. Ledger(h, g)
  <2>1. GrownBy(h, g, z)
    BY <1>14, <1>16 DEF GrownBy, SameSystem
  <2>2. g.segs = LinkedSegs(h.segs, b, z, c)
    <3>1. g.segs = k.segs
      BY <1>16 DEF SameSystem
    <3>2. z = n + TopFoot
      BY <1>8
    <3> QED
      BY <1>15, <3>1, <3>2, Zenon
  <2>3. c \in Int
    BY <1>13 DEF AddedAt
  <2>4. /\ g.segs \in Seq(SegSet) /\ Len(g.segs) = Len(h.segs) + 1 /\ g.segs[1].size = z
        /\ g.segs[2].size = h.segs[1].size
        /\ \A j \in 2 .. Len(h.segs) : g.segs[j + 1] = h.segs[j]
    <3>1. h.segs \in Seq(SegSet) /\ h.segs # <<>> /\ b \in Int /\ z \in Int /\ c \in Int
      BY <1>1, <1>2, <1>4, <2>3
    <3> QED
      BY <2>2, <3>1, SegsLinked
  <2>5. ASSUME NEW j \in 1 .. Len(h.segs)
        PROVE  g.segs[j + 1].size = h.segs[j].size
    <3>1. CASE j = 1
      BY <2>4, <3>1
    <3>2. CASE j # 1
      BY <2>4, <3>2
    <3> QED
      BY <3>1, <3>2
  <2>6. SumGrows(h, g, z)
    <3>1. ASSUME NEW f, SumsTo(f, h.segs, h.footprint)
          PROVE  \E e : SumsTo(e, g.segs, h.footprint + z)
      BY <1>1, <2>4, <2>5, <3>1, SumPrepended
    <3> QED
      BY <3>1 DEF SumGrows
  <2> QED
    BY <1>1, <1>4, <2>1, <2>6, GrownLedger
<1> QED
  <2>1. g.top # Null /\ nb < g.topsize
    BY <1>8, <1>15, <1>16 DEF SameTop
  <2> QED
    BY <1>1, <1>17, <1>18, <1>19, <2>1, TakesTop

\* Memory from the system, if it gives any.
LEMMA SysAllocated ==
  ASSUME NEW h, NEW U, Sound(h, U, {}), NEW nb \in Int, 2 <= nb, NEW b, b \in Placements(h, asize(nb)) \cup {Null}
  PROVE  Provided(h, sys_alloc(h, nb, b), U, nb)
<1> DEFINE z == asize(nb)
<1>1. z \in Int /\ nb + 6 <= z /\ z >= 2
  BY AskedFor
<1>2. Memory(h, {}) /\ h \in HeapSet /\ h.segs \in Seq(SegSet) /\ Len(h.segs) \in Nat
  BY LenProperties DEF Sound, Memory, Segments
<1>3. CASE b = Null \/ ~WithinLimit(h, z)
  <2>1. sys_alloc(h, nb, b) = Returns(h, Null)
    BY <1>3 DEF sys_alloc
  <2>2. Ledger(h, h)
    BY <1>2, LedgerSame DEF SameSystem
  <2> QED
    BY <2>1, <2>2, SMTT(60) DEF Provided, Malloced, Returns, SameSizes
<1>4. CASE b # Null /\ WithinLimit(h, z)
  <2>1. PlacedAt(h, b, z)
    BY <1>1, <1>4, PlaceOf
  <2>2. sys_alloc(h, nb, b)
        = IF ~is_initialized(h)
          THEN Take(init_top(OneSeg(Got(h, z), b, z), b, z - TopFoot), nb)
          ELSE IF SegBehind(h, b) # 0 /\ segment_holds(h.segs[SegBehind(h, b)], h.top)
          THEN Take(init_top(Longer(erase(Got(h, z), h.top + h.topsize), SegBehind(h, b), z), h.top, h.topsize + z), nb)
          ELSE IF SegAt(h, b + z) # 0
          THEN prepend_alloc(Lower(lower_least_addr(Got(h, z), b), SegAt(h, b + z), b, z), b, b + z, nb)
          ELSE Take(add_segment(lower_least_addr(Got(h, z), b), b, z), nb)
    BY <1>4, SysAllocCases
  <2>3. CASE ~is_initialized(h)
    BY <1>4, <2>1, <2>2, <2>3, FirstRegion
  <2>4. CASE is_initialized(h) /\ SegBehind(h, b) # 0 /\ segment_holds(h.segs[SegBehind(h, b)], h.top)
    BY <1>4, <2>1, <2>2, <2>4, RegionBehind
  <2>5. CASE is_initialized(h) /\ ~(SegBehind(h, b) # 0 /\ segment_holds(h.segs[SegBehind(h, b)], h.top)) /\ SegAt(h, b + z) # 0
    <3> DEFINE f == Lower(lower_least_addr(Got(h, z), b), SegAt(h, b + z), b, z)
    <3>1. Provided(h, prepend_alloc(f, b, b + z, nb), U, nb)
      BY <1>4, <2>1, <2>5, RegionInFront
    <3> QED
      BY <2>2, <2>5, <3>1
  <2>6. CASE is_initialized(h) /\ ~(SegBehind(h, b) # 0 /\ segment_holds(h.segs[SegBehind(h, b)], h.top)) /\ SegAt(h, b + z) = 0
    BY <1>4, <2>1, <2>2, <2>6, NewSegment
  <2> QED
    BY <2>3, <2>4, <2>5, <2>6
<1> QED
  BY <1>3, <1>4

----------------------------------------------------------------------------
(* What each operation promises.                                           *)

\* malloc: a chunk that is large enough and not much larger, or nothing.
LEMMA MallocProvides ==
  ASSUME NEW h, NEW U, Sound(h, U, {}), NEW nb \in Int, 2 <= nb, NEW b, b \in Placements(h, asize(nb)) \cup {Null},
         NEW r, r = dlmalloc(h, nb, b)
  PROVE  Provided(h, r, U, nb)
<1>1. CASE Allocated(h, r, U, nb) /\ SameSystem(r.heap, h)
  <2>1. Malloced(h, r, U, nb)
    BY <1>1 DEF Malloced, Allocated
  <2>2. h \in HeapSet
    BY DEF Sound, Memory
  <2>3. Ledger(h, r.heap)
    BY <1>1, <2>2, LedgerSame
  <2> QED
    BY <2>1, <2>3 DEF Provided
<1>2. CASE r = sys_alloc(h, nb, b)
  BY <1>2, SysAllocated
<1> QED
  BY <1>1, <1>2, MallocCases

\* A step that keeps the system's part of the heap keeps account.
LEMMA LedgerThenSame ==
  ASSUME NEW h \in HeapSet, NEW k \in HeapSet, NEW g, Ledger(h, k), SameSystem(g, k)
  PROVE  Ledger(h, g)
<1>1. Ledger(k, g)
  BY LedgerSame
<1> QED
  BY <1>1, LedgerSteps

LEMMA ProvidedHeap ==
  ASSUME NEW h, NEW U, Sound(h, U, {}), NEW nb, NEW r, Provided(h, r, U, nb)
  PROVE  h \in HeapSet /\ r.heap \in HeapSet /\ Malloced(h, r, U, nb) /\ Ledger(h, r.heap)
<1>1. h \in HeapSet
  BY DEF Sound, Memory
<1>2. Malloced(h, r, U, nb) /\ Ledger(h, r.heap)
  BY DEF Provided
<1>3. CASE r.chunk = Null
  BY <1>1, <1>2, <1>3 DEF Malloced, Sound, Memory
<1>4. CASE r.chunk # Null
  BY <1>1, <1>2, <1>4 DEF Malloced, Allocated, Sound, Memory
<1> QED
  BY <1>3, <1>4

\* memalign asks for more and gives back what is in front and behind.
LEMMA MemalignProvides ==
  ASSUME NEW h, NEW U, Sound(h, U, {}), NEW nb \in Int, 2 <= nb, NEW al \in Nat, al >= 2,
         NEW b, b \in Placements(h, asize(AlignedRequest(nb, al))) \cup {Null},
         NEW r, r = internal_memalign(h, al, nb, b)
  PROVE  Obtained(h, r, U, nb) /\ Ledger(h, r.heap)
<1> DEFINE n == AlignedRequest(nb, al)
           m == dlmalloc(h, n, b)
<1>1. n \in Int /\ 2 <= n
  BY DEF AlignedRequest, Larger, MinChunk
<1> HIDE DEF n
<1>2. b \in Placements(h, asize(n)) \cup {Null}
  BY DEF n
<1>3. Provided(h, m, U, n)
  BY <1>1, <1>2, MallocProvides
<1> HIDE DEF m
<1>4. h \in HeapSet /\ m.heap \in HeapSet /\ Malloced(h, m, U, n) /\ Ledger(h, m.heap)
  BY <1>3, ProvidedHeap
<1>5. Malloced(h, dlmalloc(h, AlignedRequest(nb, al), b), U, AlignedRequest(nb, al))
  BY <1>4 DEF m, n
<1>6. Obtained(h, r, U, nb) /\ SameSystem(r.heap, dlmalloc(h, AlignedRequest(nb, al), b).heap)
  BY <1>5, Memaligned
<1>7. SameSystem(r.heap, m.heap)
  BY <1>6 DEF m, n
<1> QED
  BY <1>4, <1>6, <1>7, LedgerThenSame

LEMMA PairProvides ==
  ASSUME NEW h, NEW U, Sound(h, U, {}), NEW first \in Int, NEW second \in Int, 2 <= first, 2 <= second,
         NEW b, b \in Placements(h, asize(first + second)) \cup {Null},
         NEW r, r = ialloc(h, first, second, b)
  PROVE  Paired(h, r, U, first, second) /\ Ledger(h, r.heap)
<1> DEFINE n == first + second
           m == dlmalloc(h, n, b)
<1>1. n \in Int /\ 2 <= n
  OBVIOUS
<1> HIDE DEF n
<1>2. b \in Placements(h, asize(n)) \cup {Null}
  BY DEF n
<1>3. Provided(h, m, U, n)
  BY <1>1, <1>2, MallocProvides
<1> HIDE DEF m
<1>4. h \in HeapSet /\ m.heap \in HeapSet /\ Malloced(h, m, U, n) /\ Ledger(h, m.heap)
  BY <1>3, ProvidedHeap
<1>5. Malloced(h, dlmalloc(h, first + second, b), U, first + second)
  BY <1>4 DEF m, n
<1>6. Paired(h, r, U, first, second) /\ SameSystem(r.heap, dlmalloc(h, first + second, b).heap)
  BY <1>5, PairAllocated
<1>7. SameSystem(r.heap, m.heap)
  BY <1>6 DEF m, n
<1> QED
  BY <1>4, <1>6, <1>7, LedgerThenSame

\* Users' chunks are headers.
LEMMA UserPlaces ==
  ASSUME NEW h, NEW U, NEW X, Sound(h, U, X), NEW a \in U
  PROVE  IsUsed(h, a) /\ a \in Addr /\ a \in Int /\ IsHeader(h, a) /\ IsChunk(h, a)
<1>1. IsUsed(h, a)
  BY DEF Sound, Users
<1>2. IsChunk(h, a) /\ a \in Addr
  BY <1>1 DEF IsChunk, IsUsed
<1> QED
  BY <1>1, <1>2, ChunkIsHeader, Places

\* Of two chunks that users have, one is behind the other.
LEMMA ChunksApart ==
  ASSUME NEW g, NEW V, NEW X, Sound(g, V, X), NEW c \in V, NEW q \in V, q # c
  PROVE  Past(g, c) <= q \/ Past(g, q) <= c
<1>1. IsChunk(g, c) /\ IsChunk(g, q) /\ c \in Addr /\ q \in Addr /\ Tiles(g)
  BY DEF Sound, Memory, Users, IsUsed, IsChunk
<1>2. IsHeader(g, c) /\ IsHeader(g, q)
  BY <1>1, ChunkIsHeader
<1>3. c \in Int /\ q \in Int
  BY <1>1, Places
<1>4. CASE c < q
  BY <1>1, <1>2, <1>4 DEF Tiles
<1>5. CASE q < c
  BY <1>1, <1>2, <1>5 DEF Tiles
<1> QED
  BY <1>3, <1>4, <1>5

\* What was given is behind or in front of all other blocks.
ApartFrom(h, g, c, U) == \A q \in U : q # c => Past(g, c) <= q \/ Past(h, q) <= c

\* Users have got chunk c for nb, in exchange for old, and written to it; or
\* nothing, and they keep what they have.
Given(h, r, U, old, nb) ==
    LET c == r.chunk
        g == r.heap
    IN  IF c = Null THEN Sound(g, U, {}) /\ SameSizes(h, g, U)
        ELSE /\ c \notin U \ old
             /\ Sound(Filled(g, c), (U \ old) \cup {c}, {}) /\ Filled(g, c).head = g.head
             /\ SameSystem(Filled(g, c), g)
             /\ SameSizes(h, g, U \ old) /\ ApartFrom(h, g, c, U)
             /\ nb <= Size(g, c) /\ Size(g, c) <= nb + MinChunk

LEMMA ObtainedGiven ==
  ASSUME NEW h, NEW U, NEW nb, NEW r, Obtained(h, r, U, nb)
  PROVE  Given(h, r, U, {}, nb)
<1> DEFINE c == r.chunk
           g == r.heap
           V == U \cup {c}
<1>1. CASE c = Null
  BY <1>1 DEF Given, Obtained
<1>2. CASE c # Null
  <2>1. /\ c \notin U /\ Sound(g, V, {Past(g, c)}) /\ SameSizes(h, g, U)
        /\ nb <= Size(g, c) /\ Size(g, c) <= nb + MinChunk
    BY <1>2 DEF Obtained
  <2>2. c \in V
    OBVIOUS
  <2>3. Sound(Filled(g, c), V, {}) /\ Filled(g, c).head = g.head /\ SameSystem(Filled(g, c), g)
    BY <2>1, <2>2, FilledSound
  <2>4. ASSUME NEW q \in U, q # c
        PROVE  Past(g, c) <= q \/ Past(h, q) <= c
    <3>1. q \in V /\ Size(g, q) = Size(h, q)
      BY <2>1 DEF SameSizes
    <3>2. Past(g, c) <= q \/ Past(g, q) <= c
      BY <2>1, <2>2, <2>4, <3>1, ChunksApart
    <3> QED
      BY <3>1, <3>2 DEF Past, Size
  <2>5. ApartFrom(h, g, c, U)
    BY <2>4 DEF ApartFrom
  <2>6. U \ {} = U
    OBVIOUS
  <2> QED
    BY <1>2, <2>1, <2>3, <2>5, <2>6 DEF Given
<1> QED
  BY <1>1, <1>2

LEMMA InPlaceGiven ==
  ASSUME NEW h, NEW U, Sound(h, U, {}), NEW p \in U, NEW nb \in Int, NEW r, InPlace(h, r, U, p, nb)
  PROVE  Given(h, r, U, {p}, nb) /\ Ledger(h, r.heap)
<1>1. h \in HeapSet
  BY DEF Sound, Memory
<1>2. CASE r.chunk = Null
  <2>1. r.heap = h
    BY <1>2 DEF InPlace
  <2>2. SameSystem(h, h) /\ SameSizes(h, h, U)
    BY DEF SameSystem, SameSizes
  <2> QED
    BY <1>1, <1>2, <2>1, <2>2, LedgerSame DEF Given
<1>3. CASE r.chunk # Null
  <2> DEFINE g == r.heap
             V == U \ {p}
  <2>1. /\ r.chunk = p /\ Sound(g, U, {Past(g, p)}) /\ SameSizes(h, g, V) /\ SameSystem(g, h)
        /\ nb <= Size(g, p) /\ Size(g, p) < nb + MinChunk
    BY <1>3 DEF InPlace, Reallocated
  <2>2. Sound(Filled(g, p), U, {}) /\ Filled(g, p).head = g.head /\ SameSystem(Filled(g, p), g)
    BY <2>1, FilledSound
  <2>3. V \cup {p} = U /\ p \notin V
    OBVIOUS
  <2>4. ASSUME NEW q \in U, q # p
        PROVE  Past(g, p) <= q \/ Past(h, q) <= p
    <3>1. Size(g, q) = Size(h, q)
      BY <2>1, <2>4 DEF SameSizes
    <3>2. Past(g, p) <= q \/ Past(g, q) <= p
      BY <2>1, <2>4, ChunksApart
    <3> QED
      BY <3>1, <3>2 DEF Past, Size
  <2>5. ApartFrom(h, g, p, U)
    BY <2>4 DEF ApartFrom
  <2>6. Size(g, p) \in Int
    BY <2>1, UsedOk
  <2>7. Size(g, p) <= nb + MinChunk
    BY <2>1, <2>6 DEF MinChunk
  <2>8. Ledger(h, g)
    BY <1>1, <2>1, LedgerSame
  <2> QED
    BY <1>3, <2>1, <2>2, <2>3, <2>5, <2>7, <2>8 DEF Given
<1> QED
  BY <1>2, <1>3

\* realloc: in place, or the block moves and the old chunk is freed.
LEMMA ReallocProvides ==
  ASSUME NEW h, NEW U, Sound(h, U, {}), NEW p \in U, NEW nb \in Int, 2 <= nb,
         NEW b, b \in Placements(h, asize(nb)) \cup {Null}, NEW canUnmap,
         NEW r, r = dlrealloc(h, p, nb, b, canUnmap)
  PROVE  Given(h, r, U, {p}, nb) /\ Ledger(h, r.heap)
<1> DEFINE i == try_realloc_chunk(h, p, nb)
           m == dlmalloc(i.heap, nb, b)
           c == m.chunk
           k == m.heap
           g == dlfree(k, p, canUnmap)
<1>1. r = IF i.chunk # Null THEN i ELSE IF c = Null THEN m ELSE Returns(g, c)
  BY DEF dlrealloc
<1>2. InPlace(h, i, U, p, nb)
  BY TriedRealloc
<1>3. CASE i.chunk # Null
  <2> HIDE DEF i, m, k, c, g
  <2>1. r = i
    BY <1>1, <1>3
  <2> QED
    BY <1>2, <2>1, InPlaceGiven
<1>4. CASE i.chunk = Null
  <2>1. i.heap = h
    BY <1>2, <1>4 DEF InPlace
  <2> HIDE DEF i
  <2>2. m = dlmalloc(h, nb, b)
    BY <2>1
  <2> HIDE DEF m
  <2>3. Provided(h, m, U, nb)
    BY <2>2, MallocProvides
  <2>4. h \in HeapSet /\ k \in HeapSet /\ Malloced(h, m, U, nb) /\ Ledger(h, k)
    BY <2>3, ProvidedHeap
  <2>5. CASE c = Null
    <3>1. r = m
      BY <1>1, <1>4, <2>5
    <3>2. Sound(k, U, {}) /\ SameSizes(h, k, U)
      BY <2>4, <2>5 DEF Malloced
    <3> QED
      BY <2>4, <2>5, <3>1, <3>2 DEF Given
  <2>6. CASE c # Null
    <3> DEFINE V == U \cup {c}
               W == (U \ {p}) \cup {c}
    <3>1. r.chunk = c /\ r.heap = g
      BY <1>1, <1>4, <2>6 DEF Returns
    <3>2. /\ c \notin U /\ Sound(k, V, {Past(k, c)}) /\ SameSizes(h, k, U)
          /\ nb <= Size(k, c) /\ Size(k, c) < nb + MinChunk
      BY <2>4, <2>6 DEF Malloced, Allocated
    <3> HIDE DEF k, c
    <3>3. p \in V /\ c \in V /\ V \ {p} = W /\ c \in W /\ p # c
      BY <3>2
    <3> DEFINE X == {Past(k, c)}
    <3>4. Trimmed(k, g, V \ {p}, X \ {Past(k, p)})
      BY <3>2, <3>3, FreedByUser
    <3> HIDE DEF g
    <3>5. PICK Y : Y \subseteq X \ {Past(k, p)} /\ Sound(g, W, Y)
      BY <3>3, <3>4 DEF Trimmed, SoundIn
    <3>6. SameSizes(k, g, W) /\ Ledger(k, g) /\ g \in HeapSet
      BY <3>3, <3>4, <3>5 DEF Trimmed, Sound, Memory
    <3>7. Size(g, c) = Size(k, c) /\ Past(g, c) = Past(k, c)
      BY <3>3, <3>6 DEF SameSizes, Past, Size
    <3>8. Sound(g, W, {Past(g, c)})
      BY <3>3, <3>5, <3>7, SoundPast
    <3>9. Sound(Filled(g, c), W, {}) /\ Filled(g, c).head = g.head /\ SameSystem(Filled(g, c), g)
      BY <3>3, <3>8, FilledSound
    <3>10. SameSizes(h, g, U \ {p})
      BY <3>2, <3>6 DEF SameSizes
    <3>11. ASSUME NEW q \in U, q # c
           PROVE  Past(g, c) <= q \/ Past(h, q) <= c
      <4>1. Past(k, q) = Past(h, q) /\ q \in V
        BY <3>2 DEF SameSizes, Past, Size
      <4>2. Past(k, c) <= q \/ Past(k, q) <= c
        BY <3>2, <3>3, <3>11, <4>1, ChunksApart
      <4> QED
        BY <3>7, <4>1, <4>2
    <3>12. ApartFrom(h, g, c, U)
      BY <3>11 DEF ApartFrom
    <3>13. Size(k, c) \in Int
      BY <3>2, <3>3, UsedOk
    <3>14. nb <= Size(g, c) /\ Size(g, c) <= nb + MinChunk
      BY <3>2, <3>7, <3>13 DEF MinChunk
    <3>15. Ledger(h, g)
      BY <2>4, <3>6, LedgerSteps DEF k
    <3>16. c \notin U \ {p}
      BY <3>2
    <3>17. c # Null
      BY <2>6 DEF c
    <3> QED
      BY <3>1, <3>9, <3>10, <3>12, <3>14, <3>15, <3>16, <3>17 DEF Given
  <2> QED
    BY <2>5, <2>6
<1> QED
  BY <1>3, <1>4

----------------------------------------------------------------------------
(* The invariant of the heap and its users, and that every operation keeps *)
(* it.                                                                     *)

\* Every block is as large as was asked for, and not much larger.
Fits(h, b) ==
    \A p \in DOMAIN b : b[p] \in Requests /\ b[p] <= Size(h, p) /\ Size(h, p) <= b[p] + MinChunk

HeapInv(h, b) == Sound(h, DOMAIN b, {}) /\ Fits(h, b) /\ Accounts(h)

\* The inductive invariant.
HInv == HeapInv(heap, blocks)

\* What an operation does to the footprint.
Limited(h, g) == g.footprint > h.footprint => h.footprint_limit = 0 \/ g.footprint <= h.footprint_limit

LEMMA RequestTypes ==
  /\ \A nb \in Requests : nb \in Int /\ 2 <= nb
  /\ \A al \in Alignments : al \in Nat /\ al >= 2
<1>1. \A nb \in Sizes \ {0, 1} : nb \in Int /\ 2 <= nb
  BY Places
<1>2. \A al \in Nat \ {0, 1} : al >= 2
  OBVIOUS
<1> QED
  BY <1>1, <1>2, RequestAssumption, AlignmentAssumption

LEMMA LedgerLimited ==
  ASSUME NEW h, NEW g, Ledger(h, g)
  PROVE  Limited(h, g) /\ (Accounts(h) => Accounts(g))
  BY DEF Ledger, Limited

\* What does not change the system's part changes neither account nor footprint.
LEMMA SameLedger ==
  ASSUME NEW h, NEW k, NEW g, SameSystem(g, k), Limited(h, k), Accounts(k)
  PROVE  Limited(h, g) /\ Accounts(g)
  BY DEF SameSystem, Limited, Accounts

\* The block in exchange for old.
Exchanged(b, old, c, nb) == [p \in (DOMAIN b \ old) \cup {c} |-> IF p = c THEN nb ELSE b[p]]

LEMMA ExchangeKeeps ==
  ASSUME HInv, NEW old, old \subseteq InUse, NEW nb \in Requests, NEW r, Given(heap, r, InUse, old, nb),
         Ledger(heap, r.heap), Exchange(r, old, nb)
  PROVE  HInv' /\ Limited(heap, heap')
<1>1. Sound(heap, InUse, {}) /\ Fits(heap, blocks) /\ Accounts(heap)
  BY DEF HInv, HeapInv, InUse
<1>2. Limited(heap, r.heap) /\ Accounts(r.heap)
  BY <1>1, LedgerLimited
<1>3. CASE r.chunk = Null
  <2>1. heap' = r.heap /\ blocks' = blocks
    BY <1>3 DEF Exchange
  <2>2. Sound(r.heap, InUse, {}) /\ SameSizes(heap, r.heap, InUse)
    BY <1>3 DEF Given
  <2>3. Fits(r.heap, blocks)
    BY <1>1, <2>2 DEF Fits, SameSizes, InUse
  <2>4. HeapInv(r.heap, blocks)
    BY <1>2, <2>2, <2>3 DEF HeapInv, InUse
  <2> QED
    BY <1>2, <2>1, <2>4 DEF HInv
<1>4. CASE r.chunk # Null
  <2> DEFINE c == r.chunk
             g == r.heap
             f == Filled(g, c)
             b == Exchanged(blocks, old, c, nb)
  <2>1. heap' = f /\ blocks' = b
    BY <1>4 DEF Exchange, Exchanged, InUse
  <2>2. /\ c \notin InUse \ old
        /\ Sound(f, (InUse \ old) \cup {c}, {}) /\ f.head = g.head
        /\ SameSystem(f, g)
        /\ SameSizes(heap, g, InUse \ old)
        /\ nb <= Size(g, c) /\ Size(g, c) <= nb + MinChunk
    BY <1>4 DEF Given
  <2> HIDE DEF c, g, f
  <2>3. DOMAIN b = (InUse \ old) \cup {c}
    BY DEF Exchanged, InUse
  <2>4. ASSUME NEW p \in DOMAIN b
        PROVE  b[p] \in Requests /\ b[p] <= Size(f, p) /\ Size(f, p) <= b[p] + MinChunk
    <3>1. CASE p = c
      BY <2>2, <2>3, <3>1 DEF Exchanged, Size, InUse
    <3>2. CASE p # c
      <4>1. p \in InUse \ old
        BY <2>3, <3>2
      <4>2. b[p] = blocks[p] /\ Size(f, p) = Size(heap, p)
        BY <2>2, <3>2, <4>1 DEF Exchanged, SameSizes, Size, InUse
      <4> QED
        BY <1>1, <4>1, <4>2 DEF Fits, InUse
    <3> QED
      BY <3>1, <3>2
  <2>5. Fits(f, b)
    BY <2>4 DEF Fits
  <2>6. Limited(heap, f) /\ Accounts(f)
    BY <1>2, <2>2, SameLedger DEF g
  <2>7. HeapInv(f, b)
    BY <2>2, <2>3, <2>5, <2>6 DEF HeapInv
  <2> HIDE DEF b
  <2> QED
    BY <2>1, <2>6, <2>7 DEF HInv
<1> QED
  BY <1>3, <1>4

\* Blocks go back: those in gone.
LEMMA GoneKeeps ==
  ASSUME HInv, NEW V, V \subseteq InUse, NEW g, Trimmed(heap, g, V, {}),
         heap' = g, blocks' = [q \in V |-> blocks[q]]
  PROVE  HInv' /\ Limited(heap, heap')
<1>1. Fits(heap, blocks) /\ Accounts(heap)
  BY DEF HInv, HeapInv, InUse
<1>2. SoundIn(g, V, {}) /\ SameSizes(heap, g, V) /\ Ledger(heap, g)
  BY DEF Trimmed
<1>3. Sound(g, V, {})
  <2>1. PICK Y : Y \subseteq {} /\ Sound(g, V, Y)
    BY <1>2 DEF SoundIn
  <2>2. Y = {}
    BY <2>1
  <2> QED
    BY <2>1, <2>2
<1>4. Limited(heap, g) /\ Accounts(g)
  BY <1>1, <1>2, LedgerLimited
<1> DEFINE b == [q \in V |-> blocks[q]]
<1>5. Fits(g, b)
  BY <1>1, <1>2 DEF Fits, SameSizes, InUse
<1>6. HeapInv(g, b)
  BY <1>3, <1>4, <1>5 DEF HeapInv
<1> HIDE DEF b
<1>7. blocks' = b
  BY DEF b
<1> QED
  BY <1>4, <1>6, <1>7 DEF HInv

----------------------------------------------------------------------------
(* What users see of a step: one of Allocator, or none.                    *)

Held == [p \in InUse |-> heap.head[p].size]

HeldIn(h, b) == [p \in DOMAIN b |-> Size(h, p)]

LEMMA HeldNow ==
  /\ Held = HeldIn(heap, blocks)
  /\ DOMAIN Held = InUse
  /\ \A p \in InUse : Held[p] = Size(heap, p)
  BY DEF Held, HeldIn, InUse, Size

LEMMA HeldNext ==
  ASSUME NEW g, NEW b, heap' = g, blocks' = b
  PROVE  Held' = HeldIn(g, b)
<1>1. Held' = [p \in DOMAIN blocks' |-> heap'.head[p].size]
  BY DEF Held, InUse
<1> QED
  BY <1>1 DEF HeldIn, Size

\* The steps of Allocator, from held to new.
Spanned(p, s) == p .. p + s - 1

ClearIn(held, p, s, except) ==
    /\ Spanned(p, s) \subseteq Addr
    /\ \A q \in DOMAIN held \ except : Spanned(p, s) \cap Spanned(q, held[q]) = {}

Less(held, ps) == [q \in DOMAIN held \ ps |-> held[q]]
More(held, p, s) == [q \in DOMAIN held \cup {p} |-> IF q = p THEN s ELSE held[q]]

Allocs(held, new, q) == ClearIn(held, q, new[q], {}) /\ new = More(held, q, new[q])
Resizes(held, new, q) == q \in DOMAIN held /\ ClearIn(held, q, new[q], {q}) /\ new = More(held, q, new[q])
Moves(held, new, p, q) == ClearIn(held, q, new[q], {}) /\ new = More(Less(held, {p}), q, new[q])
AllocsPair(held, new, q, r) ==
    ClearIn(held, q, new[q] + new[r], {}) /\ new = More(More(held, q, new[q]), q + new[q], new[r])

NextOf(held, new) ==
    \/ \E ps \in SUBSET DOMAIN held : new = Less(held, ps)
    \/ \E q \in DOMAIN new :
          \/ Allocs(held, new, q)
          \/ Resizes(held, new, q)
          \/ \E p \in DOMAIN held : Moves(held, new, p, q)
          \/ \E r \in DOMAIN new : AllocsPair(held, new, q, r)

LEMMA NextIsNextOf ==
  A!Next <=> NextOf(Held, Held')
  BY DEF A!Next, A!Free, A!Alloc, A!Resize, A!Move, A!AllocPair, A!Clear, A!Span, A!Without, A!With,
         NextOf, Less, More, Allocs, Resizes, Moves, AllocsPair, ClearIn, Spanned, Held

SeenAs(held, new) == NextOf(held, new) \/ new = held

LEMMA SpansApart ==
  ASSUME NEW c \in Int, NEW s \in Int, NEW q \in Int, NEW t \in Int, c + s <= q \/ q + t <= c
  PROVE  Spanned(c, s) \cap Spanned(q, t) = {}
  BY DEF Spanned

\* The memory of c is clear of all blocks but those in except.
LEMMA IsClear ==
  ASSUME HInv, NEW c \in Addr, NEW s \in Int, c + s \in Addr, NEW except,
         \A q \in InUse \ except : c + s <= q \/ Past(heap, q) <= c
  PROVE  ClearIn(Held, c, s, except)
<1>1. c \in Int /\ Addr = 0 .. Limit /\ Limit \in Int
  BY Places
<1>2. Spanned(c, s) \subseteq Addr
  BY <1>1 DEF Spanned
<1>3. Sound(heap, InUse, {})
  BY DEF HInv, HeapInv, InUse
<1>4. ASSUME NEW q \in InUse \ except
      PROVE  Spanned(c, s) \cap Spanned(q, Held[q]) = {}
  <2>1. q \in Int /\ Size(heap, q) \in Int /\ Past(heap, q) = q + Size(heap, q)
    BY <1>3, UsedOk
  <2>2. c + s <= q \/ q + Size(heap, q) <= c
    BY <2>1
  <2>3. Held[q] = Size(heap, q)
    BY HeldNow
  <2> QED
    BY <1>1, <2>1, <2>2, <2>3, SpansApart
<1> QED
  BY <1>2, <1>4, HeldNow DEF ClearIn

LEMMA SameHeld ==
  ASSUME NEW g, NEW b, DOMAIN b = InUse, SameSizes(heap, g, InUse), heap' = g, blocks' = b
  PROVE  SeenAs(Held, Held')
<1>1. HeldIn(g, b) = HeldIn(heap, blocks)
  BY DEF HeldIn, SameSizes, InUse
<1> QED
  BY <1>1, HeldNow, HeldNext DEF SeenAs

LEMMA ExchangeSeen ==
  ASSUME HInv, NEW old, old = {} \/ (\E p \in InUse : old = {p}), NEW nb, NEW r, Given(heap, r, InUse, old, nb),
         Exchange(r, old, nb)
  PROVE  SeenAs(Held, Held')
<1>1. CASE r.chunk = Null
  <2>1. heap' = r.heap /\ blocks' = blocks
    BY <1>1 DEF Exchange
  <2>2. SameSizes(heap, r.heap, InUse)
    BY <1>1 DEF Given
  <2> QED
    BY <2>1, <2>2, SameHeld DEF InUse
<1>2. CASE r.chunk # Null
  <2> DEFINE c == r.chunk
             g == r.heap
             f == Filled(g, c)
             V == (InUse \ old) \cup {c}
             b == Exchanged(blocks, old, c, nb)
             new == HeldIn(f, b)
  <2>1. heap' = f /\ blocks' = b
    BY <1>2 DEF Exchange, Exchanged, InUse
  <2>2. /\ c \notin InUse \ old /\ Sound(f, V, {}) /\ f.head = g.head
        /\ SameSizes(heap, g, InUse \ old) /\ ApartFrom(heap, g, c, InUse)
    BY <1>2 DEF Given
  <2> HIDE DEF c, g, f
  <2>3. DOMAIN b = V
    BY DEF Exchanged, InUse
  <2> HIDE DEF b
  <2>4. Held' = new /\ DOMAIN new = V /\ \A q \in V : new[q] = Size(g, q)
    <3>1. Held' = new
      BY <2>1, HeldNext
    <3> QED
      BY <2>2, <2>3, <3>1 DEF HeldIn, Size
  <2> HIDE DEF new
  <2>5. c \in V
    OBVIOUS
  <2>6. c \in Addr /\ Size(f, c) \in Int /\ Past(f, c) \in Addr
    BY <2>2, <2>5, UserPlaces, UsedOk, UsersPast
  <2>7. new[c] \in Int /\ c + new[c] \in Addr /\ c + new[c] = Past(g, c)
    BY <2>2, <2>4, <2>5, <2>6 DEF Size, Past
  <2>8. \A q \in InUse : q # c => c + new[c] <= q \/ Past(heap, q) <= c
    BY <2>2, <2>7 DEF ApartFrom
  <2>9. \A q \in InUse \ old : new[q] = Held[q]
    <3> SUFFICES ASSUME NEW q \in InUse \ old
                 PROVE  new[q] = Held[q]
      OBVIOUS
    <3>1. q \in V /\ Size(g, q) = Size(heap, q)
      BY <2>2 DEF SameSizes
    <3> QED
      BY <2>4, <3>1, HeldNow
  <2>10. c \in InUse => old = {c}
    BY <2>2
  <2>11. new = [q \in V |-> new[q]]
    BY <2>4 DEF new, HeldIn
  <2>12. CASE c \notin InUse
    <3>1. \A q \in InUse \ {} : c + new[c] <= q \/ Past(heap, q) <= c
      BY <2>8, <2>12
    <3>2. ClearIn(Held, c, new[c], {})
      BY <2>6, <2>7, <3>1, IsClear
    <3>3. CASE old = {}
      <4>1. V = DOMAIN Held \cup {c}
        BY <3>3, HeldNow
      <4>2. \A q \in V : new[q] = IF q = c THEN new[c] ELSE Held[q]
        BY <2>9, <3>3
      <4>3. new = More(Held, c, new[c])
        BY <2>11, <4>1, <4>2 DEF More
      <4>4. Allocs(Held, new, c)
        BY <3>2, <4>3 DEF Allocs
      <4>5. NextOf(Held, new)
        BY <2>4, <2>5, <4>4 DEF NextOf
      <4> QED
        BY <2>4, <4>5 DEF SeenAs
    <3>4. CASE \E p \in InUse : old = {p}
      <4>1. PICK p \in InUse : old = {p}
        BY <3>4
      <4> DEFINE e == Less(Held, {p})
      <4>2. DOMAIN e = InUse \ {p} /\ \A q \in InUse \ {p} : e[q] = Held[q]
        BY HeldNow DEF Less
      <4> HIDE DEF e
      <4>3. V = DOMAIN e \cup {c}
        BY <4>1, <4>2
      <4>4. \A q \in V : new[q] = IF q = c THEN new[c] ELSE e[q]
        BY <2>9, <4>1, <4>2
      <4>5. new = More(e, c, new[c])
        BY <2>11, <4>3, <4>4 DEF More
      <4>6. Moves(Held, new, p, c)
        BY <3>2, <4>5 DEF Moves, e
      <4>7. NextOf(Held, new)
        BY <2>4, <2>5, <4>1, <4>6, HeldNow DEF NextOf
      <4> QED
        BY <2>4, <4>7 DEF SeenAs
    <3> QED
      BY <3>3, <3>4
  <2>13. CASE c \in InUse
    <3>1. \A q \in InUse \ {c} : c + new[c] <= q \/ Past(heap, q) <= c
      BY <2>8
    <3>2. ClearIn(Held, c, new[c], {c})
      BY <2>6, <2>7, <3>1, IsClear
    <3>3. V = DOMAIN Held \cup {c}
      BY <2>10, <2>13, HeldNow
    <3>4. \A q \in V : new[q] = IF q = c THEN new[c] ELSE Held[q]
      BY <2>9, <2>10, <2>13
    <3>5. new = More(Held, c, new[c])
      BY <2>11, <3>3, <3>4 DEF More
    <3>6. Resizes(Held, new, c)
      BY <2>13, <3>2, <3>5, HeldNow DEF Resizes
    <3>7. NextOf(Held, new)
      BY <2>4, <2>5, <3>6 DEF NextOf
    <3> QED
      BY <2>4, <3>7 DEF SeenAs
  <2> QED
    BY <2>12, <2>13
<1> QED
  BY <1>1, <1>2

LEMMA GoneSeen ==
  ASSUME HInv, NEW V, V \subseteq InUse, NEW g, SameSizes(heap, g, V),
         heap' = g, blocks' = [q \in V |-> blocks[q]]
  PROVE  SeenAs(Held, Held')
<1> DEFINE b == [q \in V |-> blocks[q]]
           ps == InUse \ V
           new == HeldIn(g, b)
<1>1. Held' = new
  BY HeldNext
<1>2. DOMAIN b = V /\ InUse \ ps = V
  OBVIOUS
<1>3. new = Less(Held, ps)
  <2>1. \A q \in V : Held[q] = Size(g, q)
    BY HeldNow DEF SameSizes
  <2> QED
    BY <1>2, <2>1, HeldNow DEF HeldIn, Less
<1>4. NextOf(Held, new)
  <2>1. ps \in SUBSET DOMAIN Held
    BY HeldNow
  <2> QED
    BY <1>3, <2>1 DEF NextOf
<1> QED
  BY <1>1, <1>4 DEF SeenAs

\* Two blocks next to each other.
LEMMA PairSeen ==
  ASSUME HInv, NEW p, NEW first \in Int, NEW n, n = p + first, NEW V, V = InUse \cup {p, n},
         p \notin InUse, n \notin InUse, n # p,
         NEW g, NEW X, Sound(g, V, X), SameSizes(heap, g, InUse), Size(g, p) = first,
         NEW f, f.head = g.head, NEW b, DOMAIN b = V, heap' = f, blocks' = b
  PROVE  SeenAs(Held, Held')
<1> DEFINE new == HeldIn(f, b)
<1>1. Held' = new
  BY HeldNext
<1>2. DOMAIN new = V /\ \A q \in V : new[q] = Size(g, q)
  BY DEF HeldIn, Size
<1>3. new = [q \in V |-> new[q]]
  BY DEF HeldIn
<1> HIDE DEF new
<1>4. p \in V /\ n \in V
  OBVIOUS
<1>5. /\ p \in Addr /\ p \in Int /\ Past(g, p) = n /\ n \in Int /\ Size(g, n) \in Int
      /\ Past(g, n) = n + Size(g, n) /\ Past(g, n) \in Addr /\ Size(g, n) >= 2
  BY <1>4, UserPlaces, UsedOk, UsersPast
<1> DEFINE s == new[p] + new[n]
<1>6. s \in Int /\ p + s = Past(g, n)
  BY <1>2, <1>4, <1>5
<1>7. \A q \in InUse \ {} : p + s <= q \/ Past(heap, q) <= p
  <2> SUFFICES ASSUME NEW q \in InUse
               PROVE  p + s <= q \/ Past(heap, q) <= p
    OBVIOUS
  <2>1. q \in V /\ q # p /\ q # n
    OBVIOUS
  <2>2. q \in Int /\ Size(g, q) \in Int /\ Past(g, q) = q + Size(g, q) /\ Size(g, q) >= 2
    BY <2>1, UsedOk
  <2>3. n <= q \/ Past(g, q) <= p
    BY <1>4, <1>5, <2>1, ChunksApart
  <2>4. Past(g, n) <= q \/ Past(g, q) <= n
    BY <1>4, <2>1, ChunksApart
  <2>5. Past(heap, q) = Past(g, q)
    BY DEF SameSizes, Past, Size
  <2> QED
    BY <1>5, <1>6, <2>2, <2>3, <2>4, <2>5
<1>8. ClearIn(Held, p, s, {})
  BY <1>5, <1>6, <1>7, IsClear
<1> DEFINE one == More(Held, p, new[p])
<1>9. new[p] = first /\ n = p + new[p]
  BY <1>2, <1>4
<1>10. \A q \in InUse : new[q] = Held[q]
  BY <1>2, HeldNow DEF SameSizes
<1>11. DOMAIN one = InUse \cup {p} /\ \A q \in InUse \cup {p} : one[q] = new[q]
  BY <1>10, HeldNow DEF More
<1> HIDE DEF one
<1>12. V = DOMAIN one \cup {n}
  BY <1>11
<1>13. \A q \in V : new[q] = IF q = n THEN new[n] ELSE one[q]
  BY <1>11
<1>14. new = More(one, n, new[n])
  BY <1>3, <1>12, <1>13 DEF More
<1>15. AllocsPair(Held, new, p, n)
  BY <1>8, <1>9, <1>14 DEF AllocsPair, one
<1>16. NextOf(Held, new)
  BY <1>2, <1>4, <1>15 DEF NextOf
<1> QED
  BY <1>1, <1>16 DEF SeenAs

----------------------------------------------------------------------------
(* The actions.                                                            *)

LEMMA MallocKeeps ==
  ASSUME HInv, NEW nb \in Requests, Malloc(nb)
  PROVE  HInv' /\ Limited(heap, heap') /\ SeenAs(Held, Held')
<1>1. PICK b \in Mapped(nb) : Exchange(dlmalloc(heap, nb, b), {}, nb)
  BY DEF Malloc
<1>2. Sound(heap, InUse, {}) /\ nb \in Int /\ 2 <= nb
  BY RequestTypes DEF HInv, HeapInv, InUse
<1>3. b \in Placements(heap, asize(nb)) \cup {Null}
  BY DEF Mapped
<1> DEFINE r == dlmalloc(heap, nb, b)
<1>4. Provided(heap, r, InUse, nb)
  BY <1>2, <1>3, MallocProvides
<1> HIDE DEF r
<1>5. Malloced(heap, r, InUse, nb) /\ Ledger(heap, r.heap)
  BY <1>4 DEF Provided
<1>6. Given(heap, r, InUse, {}, nb)
  <2>1. Obtained(heap, r, InUse, nb)
    BY <1>2, <1>5, MallocObtains
  <2> QED
    BY <2>1, ObtainedGiven
<1>7. Exchange(r, {}, nb)
  BY <1>1 DEF r
<1> QED
  BY <1>5, <1>6, <1>7, ExchangeKeeps, ExchangeSeen

LEMMA MemalignKeeps ==
  ASSUME HInv, NEW al \in Alignments, NEW nb \in Requests, Memalign(al, nb)
  PROVE  HInv' /\ Limited(heap, heap') /\ SeenAs(Held, Held')
<1>1. PICK b \in Mapped(AlignedRequest(nb, al)) : Exchange(internal_memalign(heap, al, nb, b), {}, nb)
  BY DEF Memalign
<1>2. Sound(heap, InUse, {}) /\ nb \in Int /\ 2 <= nb /\ al \in Nat /\ al >= 2
  BY RequestTypes DEF HInv, HeapInv, InUse
<1>3. b \in Placements(heap, asize(AlignedRequest(nb, al))) \cup {Null}
  BY DEF Mapped
<1> DEFINE r == internal_memalign(heap, al, nb, b)
<1>4. Obtained(heap, r, InUse, nb) /\ Ledger(heap, r.heap)
  BY <1>2, <1>3, MemalignProvides
<1> HIDE DEF r
<1>5. Given(heap, r, InUse, {}, nb)
  BY <1>4, ObtainedGiven
<1>6. Exchange(r, {}, nb)
  BY <1>1 DEF r
<1> QED
  BY <1>4, <1>5, <1>6, ExchangeKeeps, ExchangeSeen

LEMMA ReallocKeeps ==
  ASSUME HInv, NEW p \in InUse, NEW nb \in Requests, Realloc(p, nb)
  PROVE  HInv' /\ Limited(heap, heap') /\ SeenAs(Held, Held')
<1>1. PICK b \in Mapped(nb), canUnmap \in BOOLEAN : Exchange(dlrealloc(heap, p, nb, b, canUnmap), {p}, nb)
  BY DEF Realloc
<1>2. Sound(heap, InUse, {}) /\ nb \in Int /\ 2 <= nb
  BY RequestTypes DEF HInv, HeapInv, InUse
<1>3. b \in Placements(heap, asize(nb)) \cup {Null}
  BY DEF Mapped
<1> DEFINE r == dlrealloc(heap, p, nb, b, canUnmap)
<1>4. Given(heap, r, InUse, {p}, nb) /\ Ledger(heap, r.heap)
  BY <1>2, <1>3, ReallocProvides
<1> HIDE DEF r
<1>5. Exchange(r, {p}, nb)
  BY <1>1 DEF r
<1> QED
  BY <1>4, <1>5, ExchangeKeeps, ExchangeSeen

LEMMA ReallocInPlaceKeeps ==
  ASSUME HInv, NEW p \in InUse, NEW nb \in Requests, ReallocInPlace(p, nb)
  PROVE  HInv' /\ Limited(heap, heap') /\ SeenAs(Held, Held')
<1>1. Sound(heap, InUse, {}) /\ nb \in Int /\ 2 <= nb
  BY RequestTypes DEF HInv, HeapInv, InUse
<1> DEFINE r == try_realloc_chunk(heap, p, nb)
<1>2. InPlace(heap, r, InUse, p, nb)
  BY <1>1, TriedRealloc
<1>3. Exchange(r, {p}, nb)
  BY DEF ReallocInPlace
<1> HIDE DEF r
<1>4. Given(heap, r, InUse, {p}, nb) /\ Ledger(heap, r.heap)
  BY <1>1, <1>2, InPlaceGiven
<1> QED
  BY <1>3, <1>4, ExchangeKeeps, ExchangeSeen

LEMMA FreeKeeps ==
  ASSUME HInv, NEW p \in InUse, Free(p)
  PROVE  HInv' /\ Limited(heap, heap') /\ SeenAs(Held, Held')
<1>1. PICK canUnmap \in BOOLEAN :
         heap' = dlfree(heap, p, canUnmap) /\ blocks' = [q \in InUse \ {p} |-> blocks[q]]
  BY DEF Free
<1>2. Sound(heap, InUse, {})
  BY DEF HInv, HeapInv, InUse
<1> DEFINE g == dlfree(heap, p, canUnmap)
           V == InUse \ {p}
<1>3. Trimmed(heap, g, V, {} \ {Past(heap, p)})
  BY <1>2, FreedByUser
<1>4. {} \ {Past(heap, p)} = {} /\ V \subseteq InUse
  OBVIOUS
<1>5. heap' = g /\ blocks' = [q \in V |-> blocks[q]]
  BY <1>1
<1> HIDE DEF g, V
<1>6. Trimmed(heap, g, V, {})
  BY <1>3, <1>4
<1> QED
  BY <1>4, <1>5, <1>6, GoneKeeps, GoneSeen DEF Trimmed

LEMMA BulkFreeKeeps ==
  ASSUME HInv, NEW p \in InUse, NEW q \in InUse \ {p}, BulkFree(<<p, q>>)
  PROVE  HInv' /\ Limited(heap, heap') /\ SeenAs(Held, Held')
<1> DEFINE V == InUse \ {p, q}
           f == Freed(heap, <<p, q>>)[2].heap
<1>1. PICK canUnmap \in BOOLEAN :
         /\ heap' = internal_bulk_free(heap, <<p, q>>, canUnmap)
         /\ blocks' = [a \in {r \in InUse : \A i \in DOMAIN <<p, q>> : <<p, q>>[i] # r} |-> blocks[a]]
  BY DEF BulkFree
<1>2. {r \in InUse : \A i \in DOMAIN <<p, q>> : <<p, q>>[i] # r} = V
  <2>1. DOMAIN <<p, q>> = {1, 2} /\ <<p, q>>[1] = p /\ <<p, q>>[2] = q
    OBVIOUS
  <2> QED
    BY <2>1
<1>3. Sound(heap, InUse, {}) /\ p # q /\ q \in InUse
  BY DEF HInv, HeapInv, InUse
<1> DEFINE g == IF should_trim(f, f.topsize) THEN sys_trim(f, 0, canUnmap) ELSE f
<1>4. heap' = g
  <2>1. Len(<<p, q>>) = 2
    OBVIOUS
  <2> QED
    BY <1>1, <2>1, BulkFreeCases
<1>5. Sound(f, V, {}) /\ SameSizes(heap, f, V) /\ SameSystem(f, heap)
  BY <1>3, BulkFreed
<1> HIDE DEF V, f
<1>6. heap \in HeapSet
  BY <1>3 DEF Sound, Memory
<1>7. Trimmed(heap, f, V, {})
  BY <1>5, <1>6, LedgerSame DEF Trimmed, SoundIn
<1>8. Trimmed(heap, g, V, {})
  <2>1. CASE should_trim(f, f.topsize)
    <3>1. g = sys_trim(f, 0, canUnmap)
      BY <2>1
    <3>2. Trimmed(f, g, V, {})
      BY <1>5, <3>1, SysTrimmed
    <3> QED
      BY <1>6, <1>7, <3>2, TrimmedSteps
  <2>2. CASE ~should_trim(f, f.topsize)
    BY <1>7, <2>2
  <2> QED
    BY <2>1, <2>2
<1>9. blocks' = [a \in V |-> blocks[a]] /\ V \subseteq InUse
  BY <1>1, <1>2 DEF V
<1> HIDE DEF g
<1> QED
  BY <1>4, <1>8, <1>9, GoneKeeps, GoneSeen DEF Trimmed

LEMMA TrimKeeps ==
  ASSUME HInv, Trim
  PROVE  HInv' /\ Limited(heap, heap') /\ SeenAs(Held, Held')
<1>1. PICK canUnmap \in BOOLEAN : heap' = sys_trim(heap, 0, canUnmap) /\ blocks' = blocks
  BY DEF Trim
<1>2. Sound(heap, InUse, {}) /\ Fits(heap, blocks) /\ Accounts(heap)
  BY DEF HInv, HeapInv, InUse
<1> DEFINE g == sys_trim(heap, 0, canUnmap)
<1>3. Trimmed(heap, g, InUse, {})
  BY <1>2, SysTrimmed
<1>4. heap' = g
  BY <1>1
<1> HIDE DEF g
<1>5. SoundIn(g, InUse, {}) /\ SameSizes(heap, g, InUse) /\ Ledger(heap, g)
  BY <1>3 DEF Trimmed
<1>6. Sound(g, InUse, {})
  <2>1. PICK Y : Y \subseteq {} /\ Sound(g, InUse, Y)
    BY <1>5 DEF SoundIn
  <2>2. Y = {}
    BY <2>1
  <2> QED
    BY <2>1, <2>2
<1>7. Limited(heap, g) /\ Accounts(g)
  BY <1>2, <1>5, LedgerLimited
<1>8. Fits(g, blocks)
  BY <1>2, <1>5 DEF Fits, SameSizes, InUse
<1>9. HeapInv(g, blocks)
  BY <1>6, <1>7, <1>8 DEF HeapInv, InUse
<1>10. SeenAs(Held, Held')
  BY <1>1, <1>4, <1>5, SameHeld DEF InUse
<1> QED
  BY <1>1, <1>4, <1>7, <1>9, <1>10 DEF HInv

LEMMA SetFootprintLimitKeeps ==
  ASSUME HInv, NEW bytes \in Limits, SetFootprintLimit(bytes)
  PROVE  HInv' /\ Limited(heap, heap') /\ SeenAs(Held, Held')
<1> DEFINE l == IF bytes = MaxSize THEN 0 ELSE granularity_align(bytes)
           g == [heap EXCEPT !.footprint_limit = l]
<1>1. heap' = g /\ blocks' = blocks
  BY DEF SetFootprintLimit
<1>2. Sound(heap, InUse, {}) /\ Fits(heap, blocks) /\ Accounts(heap)
  BY DEF HInv, HeapInv, InUse
<1>3. heap \in HeapSet
  BY <1>2 DEF Sound, Memory
<1>4. l \in Int
  <2>1. bytes + Granularity - 1 \in Nat /\ Granularity \in Nat /\ Granularity > 0
    BY Places, LimitAssumption
  <2>2. granularity_align(bytes) \in Nat
    BY <2>1, Divided DEF granularity_align
  <2> QED
    BY <2>2
<1> HIDE DEF l
<1>5. SameParts(g, heap) /\ g.footprint = heap.footprint /\ g.max_footprint = heap.max_footprint /\ g.head = heap.head
  BY <1>3, <1>4 DEF HeapSet, SameParts, SameChunks, SameTop, SameVictim
<1> HIDE DEF g
<1>6. Sound(g, InUse, {}) /\ g.segs = heap.segs
  BY <1>2, <1>5, SamePartsSound DEF SameParts, SameChunks
<1>7. Fits(g, blocks) /\ Accounts(g)
  BY <1>2, <1>5, <1>6 DEF Fits, Accounts, Size
<1>8. Limited(heap, g)
  <2>1. heap.footprint \in Int
    BY <1>3 DEF HeapSet
  <2> QED
    BY <1>5, <2>1 DEF Limited
<1>9. HeapInv(g, blocks)
  BY <1>6, <1>7 DEF HeapInv, InUse
<1>10. SeenAs(Held, Held')
  <2>1. SameSizes(heap, g, InUse)
    BY <1>5 DEF SameSizes, Size
  <2> QED
    BY <1>1, <2>1, SameHeld DEF InUse
<1> QED
  BY <1>1, <1>8, <1>9, <1>10 DEF HInv

LEMMA IndependentAllocKeeps ==
  ASSUME HInv, NEW first \in Requests, NEW second \in Requests, IndependentAlloc(first, second)
  PROVE  HInv' /\ Limited(heap, heap') /\ SeenAs(Held, Held')
<1>1. Sound(heap, InUse, {}) /\ first \in Int /\ 2 <= first /\ second \in Int /\ 2 <= second
  BY RequestTypes DEF HInv, HeapInv, InUse
<1>2. Fits(heap, blocks) /\ Accounts(heap)
  BY DEF HInv, HeapInv
<1>3. PICK b \in Mapped(first + second) :
          LET r == ialloc(heap, first, second, b)
              p == r.chunk
          IN  IF p = Null THEN heap' = r.heap /\ blocks' = blocks
              ELSE /\ heap' = Filled(r.heap, p + first)
                   /\ blocks' = [q \in InUse \cup {p, p + first} |->
                                    IF q = p THEN first ELSE IF q = p + first THEN second ELSE blocks[q]]
  BY DEF IndependentAlloc
<1>4. b \in Placements(heap, asize(first + second)) \cup {Null}
  BY DEF Mapped
<1> DEFINE r == ialloc(heap, first, second, b)
           p == r.chunk
           g == r.heap
           n == p + first
<1>5. Paired(heap, r, InUse, first, second) /\ Ledger(heap, r.heap)
  BY <1>1, <1>4, PairProvides
<1>6. /\ p = Null => heap' = g /\ blocks' = blocks
      /\ p # Null => /\ heap' = Filled(g, n)
                     /\ blocks' = [q \in InUse \cup {p, n} |->
                                     IF q = p THEN first ELSE IF q = n THEN second ELSE blocks[q]]
  BY <1>3
<1> HIDE DEF r
<1>7. Limited(heap, g) /\ Accounts(g)
  BY <1>2, <1>5, LedgerLimited
<1>8. CASE p = Null
  <2>1. Sound(g, InUse, {}) /\ SameSizes(heap, g, InUse)
    BY <1>5, <1>8 DEF Paired
  <2>2. Fits(g, blocks)
    BY <1>2, <2>1 DEF Fits, SameSizes, InUse
  <2>3. HeapInv(g, blocks)
    BY <1>7, <2>1, <2>2 DEF HeapInv, InUse
  <2>4. SeenAs(Held, Held')
    BY <1>6, <1>8, <2>1, SameHeld DEF InUse
  <2> QED
    BY <1>6, <1>7, <1>8, <2>3, <2>4 DEF HInv
<1>9. CASE p # Null
  <2> DEFINE V == InUse \cup {p, n}
             f == Filled(g, n)
             w == [q \in V |-> IF q = p THEN first ELSE IF q = n THEN second ELSE blocks[q]]
  <2>1. /\ p \notin InUse /\ n \notin InUse /\ n # p
        /\ Sound(g, V, {Past(g, n)}) /\ SameSizes(heap, g, InUse)
        /\ Size(g, p) = first /\ second <= Size(g, n) /\ Size(g, n) <= second + MinChunk
    BY <1>5, <1>9 DEF Paired
  <2>2. heap' = f /\ blocks' = w
    BY <1>6, <1>9
  <2> HIDE DEF n, p, g
  <2>3. n \in V
    OBVIOUS
  <2>4. Sound(f, V, {}) /\ f.head = g.head /\ SameSystem(f, g)
    BY <2>1, <2>3, FilledSound
  <2> HIDE DEF f
  <2>5. ASSUME NEW q \in V
        PROVE  w[q] \in Requests /\ w[q] <= Size(f, q) /\ Size(f, q) <= w[q] + MinChunk
    <3>1. CASE q = p
      <4>1. w[q] = first /\ Size(f, q) = first
        BY <2>1, <2>4, <3>1 DEF Size
      <4> QED
        BY <1>1, <4>1 DEF MinChunk
    <3>2. CASE q # p /\ q = n
      BY <2>1, <2>4, <3>2 DEF Size
    <3>3. CASE q # p /\ q # n
      <4>1. q \in InUse
        BY <3>3
      <4>2. w[q] = blocks[q] /\ Size(f, q) = Size(heap, q)
        BY <2>1, <2>4, <3>3, <4>1 DEF SameSizes, Size
      <4> QED
        BY <1>2, <4>1, <4>2 DEF Fits, InUse
    <3> QED
      BY <3>1, <3>2, <3>3
  <2>6. DOMAIN w = V
    OBVIOUS
  <2> HIDE DEF w, V
  <2>7. Fits(f, w)
    BY <2>5, <2>6 DEF Fits
  <2>8. Limited(heap, f) /\ Accounts(f)
    BY <1>7, <2>4, SameLedger DEF g
  <2>9. HeapInv(f, w)
    BY <2>4, <2>6, <2>7, <2>8 DEF HeapInv
  <2>10. SeenAs(Held, Held')
    <3>1. n = p + first /\ V = InUse \cup {p, n}
      BY DEF n, V
    <3> QED
      BY <1>1, <2>1, <2>2, <2>4, <2>6, <3>1, PairSeen
  <2> QED
    BY <2>2, <2>8, <2>9, <2>10 DEF HInv
<1> QED
  BY <1>8, <1>9

\* An empty address space, and no segments.
LEMMA ZeroSound ==
  Sound(ZeroHeap, {}, {}) /\ Accounts(ZeroHeap)
<1> DEFINE z == ZeroHeap
<1>1. /\ z.segs = <<>> /\ z.dv = 0 /\ z.dvsize = 0 /\ z.top = 0 /\ z.topsize = 0 /\ z.aborted = FALSE
      /\ z.footprint = 0 /\ z.max_footprint = 0
      /\ \A a \in Addr : z.head[a] = Blank /\ z.foot[a] = 0
      /\ \A s \in Sizes : z.bin[s] = <<>>
  BY DEF ZeroHeap, Null
<1>2. z \in HeapSet
  <2>1. [a \in Addr |-> Blank] \in [Addr -> HeadSet] /\ [a \in Addr |-> 0] \in [Addr -> Int]
    BY FixedHeads
  <2>2. [s \in Sizes |-> <<>>] \in [Sizes -> Seq(Int)] /\ <<>> \in Seq(SegSet)
    OBVIOUS
  <2> QED
    BY <2>1, <2>2 DEF ZeroHeap, HeapSet, Null
<1> HIDE DEF z
<1>3. Segs(z) = {} /\ Len(z.segs) = 0
  BY <1>1 DEF Segs
<1>4. \A a : ~IsHeader(z, a) /\ ~IsUsed(z, a) /\ ~IsFree(z, a) /\ ~IsChunk(z, a)
  BY <1>1, FixedHeads DEF IsHeader, IsUsed, IsFree, IsChunk
<1>5. Segments(z)
  BY <1>1, <1>3 DEF Segments
<1>6. Kinds(z) /\ Tiles(z)
  BY <1>1, <1>4 DEF Kinds, Tiles
<1>7. TagsAgree(z)
  BY <1>1, <1>4, FixedHeads DEF TagsAgree
<1>8. FeetIn(z, {}) /\ TopIn(z)
  BY <1>1 DEF FeetIn, TopIn, Null
<1>9. Records(z) /\ \A a : ~IsRecord(z, a)
  BY <1>1, <1>3 DEF Records, IsRecord
<1>10. Users(z, {})
  BY <1>4, <1>9 DEF Users
<1>11. Victim(z)
  BY <1>1 DEF Victim, Null
<1>12. \A s \in Sizes : DOMAIN z.bin[s] = {}
  BY <1>1
<1>13. Bins(z)
  <2>1. BinsOnce(z)
    BY <1>12 DEF BinsOnce, OnceEach
  <2>2. \A s \in Sizes : \A a : ~InBin(z, s, a)
    BY <1>12 DEF InBin, Elems
  <2> QED
    BY <1>4, <2>1, <2>2 DEF Bins
<1>14. Sound(z, {}, {})
  BY <1>1, <1>2, <1>5, <1>6, <1>7, <1>8, <1>9, <1>10, <1>11, <1>13 DEF Sound, Memory
<1>15. Accounts(z)
  <2> DEFINE f == [i \in 0 .. 0 |-> 0]
  <2>1. f \in [0 .. 0 -> Int] /\ f[0] = 0
    OBVIOUS
  <2> HIDE DEF f
  <2>2. SumsTo(f, z.segs, z.footprint)
    BY <1>1, <1>3, <2>1 DEF SumsTo
  <2> QED
    BY <1>1, <2>2 DEF Accounts
<1> QED
  BY <1>14, <1>15 DEF z

LEMMA InitHInv ==
  Init => HInv
<1> SUFFICES ASSUME Init
             PROVE  HeapInv(heap, blocks)
  BY DEF HInv
<1>1. heap = ZeroHeap /\ DOMAIN blocks = {}
  BY DEF Init
<1>2. Fits(heap, blocks)
  BY <1>1 DEF Fits
<1> QED
  BY <1>1, <1>2, ZeroSound DEF HeapInv

LEMMA NextKeeps ==
  ASSUME HInv, Next
  PROVE  HInv' /\ Limited(heap, heap') /\ SeenAs(Held, Held')
<1>1. CASE \E nb \in Requests : Malloc(nb)
  BY <1>1, MallocKeeps
<1>2. CASE \E nb \in Requests, alignment \in Alignments : Memalign(alignment, nb)
  BY <1>2, MemalignKeeps
<1>3. CASE \E p \in InUse, nb \in Requests : Realloc(p, nb) \/ ReallocInPlace(p, nb)
  BY <1>3, ReallocKeeps, ReallocInPlaceKeeps
<1>4. CASE \E p \in InUse : Free(p)
  BY <1>4, FreeKeeps
<1>5. CASE \E first, second \in Requests : IndependentAlloc(first, second)
  BY <1>5, IndependentAllocKeeps
<1>6. CASE \E p \in InUse : \E q \in InUse \ {p} : BulkFree(<<p, q>>)
  BY <1>6, BulkFreeKeeps
<1>7. CASE Trim
  BY <1>7, TrimKeeps
<1>8. CASE \E bytes \in Limits : SetFootprintLimit(bytes)
  BY <1>8, SetFootprintLimitKeeps
<1> QED
  BY <1>1, <1>2, <1>3, <1>4, <1>5, <1>6, <1>7, <1>8 DEF Next

\* The heap is sound in every state: segments are tiled by chunks whose tags and
\* feet agree, top, the designated victim and the bins have the free chunks, the
\* chunks in use are the users' blocks and the segments' records, no check has
\* failed, and the segments account for the footprint.
THEOREM HeapSound == Spec => []HInv
<1>1. HInv /\ [Next]_vars => HInv'
  <2> SUFFICES ASSUME HInv, [Next]_vars
               PROVE  HInv'
    OBVIOUS
  <2>1. CASE Next
    BY <2>1, NextKeeps
  <2>2. CASE UNCHANGED vars
    BY <2>2 DEF vars, HInv
  <2> QED
    BY <2>1, <2>2
<1> QED
  BY <1>1, InitHInv, PTL DEF Spec

----------------------------------------------------------------------------
(* What that means for the properties of the heap.                         *)

HeapIs(h, U) == h = heap /\ U = InUse /\ Sound(h, U, {})

LEMMA HInvSound ==
  HInv => HeapIs(heap, InUse)
  BY DEF HInv, HeapInv, HeapIs, InUse

\* No runtime check and no assertion ever fails.
THEOREM HeapNeverAborts == Spec => []NeverAborts
<1>1. HInv => NeverAborts
  BY DEF HInv, HeapInv, Sound, NeverAborts
<1> QED
  BY <1>1, HeapSound, PTL

\* The chunks proper are what is in use or free.
LEMMA ChunksAre ==
  ASSUME NEW h, NEW U, HeapIs(h, U)
  PROVE  \A a : /\ a \in Headers <=> IsHeader(h, a)
                /\ a \in Chunks <=> IsChunk(h, a)
                /\ a \in FreeChunks <=> IsFree(h, a)
<1>1. h = heap /\ Memory(h, {})
  BY DEF HeapIs, Sound
<1>2. \A a : a \in Headers <=> IsHeader(h, a)
  BY <1>1 DEF Headers, IsHeader
<1>3. ASSUME NEW a
      PROVE  a \in Chunks <=> IsChunk(h, a)
  <2>1. ASSUME a \in Chunks
        PROVE  IsChunk(h, a)
    <3>1. a \in Addr /\ h.head[a] # Blank /\ h.head[a] # Fence /\ a # h.top + h.topsize
      BY <1>1, <2>1 DEF Chunks, Headers
    <3>2. h.head[a].cinuse \/ h.head[a].pinuse
      BY <1>1, <3>1 DEF Memory, Kinds
    <3> QED
      BY <3>1, <3>2 DEF IsChunk, IsUsed, IsFree
  <2>2. ASSUME IsChunk(h, a)
        PROVE  a \in Chunks
    <3>1. a \in Addr /\ IsHeader(h, a) /\ h.head[a] # FakeHead /\ h.head[a] # Fence
      BY <2>2, ChunkIsHeader
    <3>2. h.segs # <<>>
      <4>1. \E i \in Segs(h) : InSeg(h, i, a)
        BY <1>1, <3>1, HeaderPlace
      <4>2. h.segs = <<>> => Segs(h) = {}
        BY DEF Segs
      <4> QED
        BY <4>1, <4>2
    <3>3. a # h.top + h.topsize
      BY <1>1, <3>1, <3>2 DEF Memory, TopIn
    <3> QED
      BY <1>1, <3>1, <3>3 DEF Chunks, Headers, IsHeader
  <2> QED
    BY <2>1, <2>2
<1>4. ASSUME NEW a
      PROVE  a \in FreeChunks <=> IsFree(h, a)
  <2>1. IsFree(h, a) => a \in FreeChunks
    BY <1>1, <1>3 DEF FreeChunks, IsChunk, IsFree
  <2>2. a \in FreeChunks => IsFree(h, a)
    BY <1>1, <1>3 DEF FreeChunks, IsChunk, IsFree, IsUsed
  <2> QED
    BY <2>1, <2>2
<1> QED
  BY <1>2, <1>3, <1>4

LEMMA SegmentHolding ==
  ASSUME NEW h, NEW X, Memory(h, X), NEW a \in Int, NEW i \in Segs(h), InSeg(h, i, a)
  PROVE  segment_holding(h, a) = i
<1>1. Segments(h)
  BY DEF Memory
<1>2. \A j \in Segs(h) : InSeg(h, j, a) => j = i
  BY <1>1, OneSegment
<1> QED
  BY <1>2 DEF segment_holding, InSeg

\* Nothing that is in the segment of a is behind a: then the next header is
\* behind the segment.
LEMMA LastOfSegment ==
  ASSUME NEW h, NEW X, Memory(h, X), NEW a, IsHeader(h, a), ~IsChunk(h, a), NEW i \in Segs(h), InSeg(h, i, a),
         NEW b, IsHeader(h, b)
  PROVE  b <= a \/ EndOf(h.segs[i]) <= b
<1>1. a \in Addr /\ b \in Addr /\ a \in Int /\ b \in Int
  BY Places DEF IsHeader
<1>2. PICK j \in Segs(h) : InSeg(h, j, b)
  BY HeaderPlace
<1>3. CASE j = i
  <2>1. b <= a
    BY <1>1, <1>2, <1>3 DEF Memory, Tiles
  <2> QED
    BY <2>1
<1>4. CASE j # i
  <2>1. EndOf(h.segs[i]) <= h.segs[j].base \/ EndOf(h.segs[j]) <= h.segs[i].base
    BY <1>4 DEF Memory, Segments
  <2>2. h.segs \in Seq(SegSet)
    BY DEF Memory, Segments
  <2>3. /\ h.segs[i].base \in Int /\ h.segs[j].base \in Int /\ EndOf(h.segs[i]) \in Int /\ EndOf(h.segs[j]) \in Int
    BY <2>2, SegTypes
  <2>4. h.segs[j].base <= b /\ b < EndOf(h.segs[j]) /\ h.segs[i].base <= a
    BY <1>2 DEF InSeg, segment_holds
  <2> QED
    BY <1>1, <2>1, <2>3, <2>4
<1> QED
  BY <1>3, <1>4

\* Following sizes leads from header to header.
LEMMA TiledHeader ==
  ASSUME NEW h, NEW U, HeapIs(h, U), NEW a \in Headers,
         NEW end, end = IF heap.head[a] = Fence THEN EndOf(SegOf(a)) ELSE Behind(a)
  PROVE  /\ end = EndOf(SegOf(a)) \/ (end \in Headers /\ end < EndOf(SegOf(a)))
         /\ \A b \in Headers : b <= a \/ end <= b
<1>1. h = heap /\ Memory(h, {}) /\ h.segs \in Seq(SegSet)
  BY DEF HeapIs, Sound, Memory, Segments
<1>2. IsHeader(h, a) /\ \A b \in Headers : IsHeader(h, b)
  BY ChunksAre
<1>3. a \in Addr /\ a \in Int
  BY <1>2, Places DEF IsHeader
<1>4. PICK i \in Segs(h) : InSeg(h, i, a)
  BY <1>1, <1>2, HeaderPlace
<1>5. SegOf(a) = h.segs[i]
  BY <1>1, <1>3, <1>4, SegmentHolding DEF SegOf
<1>6. CASE IsChunk(h, a)
  <2>1. end = Past(h, a)
    BY <1>1, <1>6, ChunkIsHeader DEF Behind, Past
  <2>2. IsHeader(h, Past(h, a)) /\ InSeg(h, i, Past(h, a))
    BY <1>1, <1>3, <1>4, <1>6 DEF Memory, Tiles
  <2>3. end < EndOf(h.segs[i])
    BY <2>1, <2>2 DEF InSeg, segment_holds
  <2>4. end \in Headers
    BY <2>1, <2>2, ChunksAre
  <2>5. ASSUME NEW b \in Headers
        PROVE  b <= a \/ end <= b
    <3>1. b \in Addr /\ b \in Int /\ IsHeader(h, b)
      BY <1>2, Places DEF IsHeader
    <3>2. a < b => Past(h, a) <= b
      BY <1>1, <1>3, <1>6, <3>1 DEF Memory, Tiles
    <3> QED
      BY <1>3, <2>1, <3>1, <3>2
  <2> QED
    BY <1>5, <2>3, <2>4, <2>5
<1>7. CASE ~IsChunk(h, a)
  <2>1. end = EndOf(h.segs[i])
    <3>1. CASE h.head[a] = Fence
      BY <1>1, <1>5, <3>1
    <3>2. CASE h.head[a] # Fence
      <4>1. h.head[a] = FakeHead /\ h.top # Null /\ a = h.top + h.topsize
        <5>1. ~h.head[a].cinuse /\ ~h.head[a].pinuse /\ h.head[a] # Blank
          BY <1>2, <1>3, <1>7, <3>2 DEF IsChunk, IsUsed, IsFree, IsHeader
        <5> QED
          BY <1>1, <1>3, <5>1 DEF Memory, Kinds
      <4>2. end = a + 5
        BY <1>1, <3>2, <4>1, FixedHeads DEF Behind
      <4>3. h.segs # <<>>
        BY <1>1, <4>1 DEF Memory, TopIn
      <4>4. h.top + h.topsize = EndOf(h.segs[1]) - TopFoot /\ InSeg(h, 1, h.top + h.topsize)
            /\ 1 \in Segs(h)
        BY <1>1, <4>3, TopChunk DEF Memory, TopIn, TopAt
      <4>5. i = 1
        BY <1>1, <1>3, <1>4, <4>1, <4>4, OneSegment DEF Memory
      <4>6. EndOf(h.segs[1]) \in Int
        BY <1>1, <4>4, SegTypes
      <4> QED
        BY <1>3, <4>1, <4>2, <4>4, <4>5, <4>6, FixedHeads
    <3> QED
      BY <3>1, <3>2
  <2>2. \A b \in Headers : b <= a \/ end <= b
    BY <1>1, <1>2, <1>4, <1>7, <2>1, LastOfSegment
  <2> QED
    BY <1>5, <2>1, <2>2
<1> QED
  BY <1>6, <1>7

\* Each segment is tiled by its chunks.
THEOREM HeapTiled == Spec => []Tiled
<1>1. HInv => Tiled
  <2> SUFFICES ASSUME HInv
               PROVE  Tiled
    OBVIOUS
  <2>1. HeapIs(heap, InUse) /\ Memory(heap, {})
    BY HInvSound DEF HeapIs, Sound
  <2>2. \A a \in Chunks \ {heap.top} : heap.head[a].size >= MinChunk
    <3> SUFFICES ASSUME NEW a \in Chunks \ {heap.top}
                 PROVE  heap.head[a].size >= MinChunk
      OBVIOUS
    <3>1. IsChunk(heap, a) /\ a \in Addr
      BY <2>1, ChunksAre DEF Chunks, Headers
    <3> QED
      BY <2>1, <3>1 DEF Memory, Kinds, Size
  <2>3. \A i \in Segs(heap) : heap.segs[i].base \in Headers
    BY <2>1, ChunksAre DEF Memory, Segments
  <2>4. \A a \in Headers : \E i \in Segs(heap) : segment_holds(heap.segs[i], a)
    BY <2>1, ChunksAre, HeaderPlace DEF InSeg
  <2> QED
    BY <2>1, <2>2, <2>3, <2>4, TiledHeader DEF Tiled
<1> QED
  BY <1>1, HeapSound, PTL

\* What a chunk says of its neighbour is what the neighbour is, no two free chunks
\* are adjacent, and no foot is left behind a block in use.
THEOREM HeapBoundaryTags == Spec => []BoundaryTags
<1>1. HInv => BoundaryTags
  <2> SUFFICES ASSUME HInv, NEW a \in Chunks
               PROVE  IF heap.head[a].cinuse
                      THEN heap.head[Behind(a)].pinuse /\ heap.foot[Behind(a)] = 0
                      ELSE /\ heap.head[a].pinuse /\ ~heap.head[Behind(a)].pinuse
                           /\ a # heap.top => heap.foot[Behind(a)] = heap.head[a].size
                                             /\ heap.head[Behind(a)].cinuse
    BY DEF BoundaryTags
  <2>1. HeapIs(heap, InUse) /\ Memory(heap, {})
    BY HInvSound DEF HeapIs, Sound
  <2>2. IsChunk(heap, a) /\ a \in Addr /\ Behind(a) = Past(heap, a)
    BY <2>1, ChunksAre DEF Chunks, Headers, Behind, Past
  <2>3. Past(heap, a) \in Addr
    BY <2>1, <2>2, ChunkFacts
  <2>4. CASE heap.head[a].cinuse
    <3>1. IsUsed(heap, a)
      BY <2>2, <2>4 DEF IsChunk, IsFree
    <3>2. heap.head[Past(heap, a)].pinuse
      BY <2>1, <2>2, <3>1 DEF Memory, TagsAgree
    <3>3. heap.foot[Past(heap, a)] = 0
      BY <2>1, <2>3, <3>2 DEF Memory, FeetIn
    <3> QED
      BY <2>2, <2>4, <3>2, <3>3
  <2>5. CASE ~heap.head[a].cinuse
    <3>1. IsFree(heap, a)
      BY <2>2, <2>5 DEF IsChunk, IsUsed
    <3>2. /\ ~heap.head[Past(heap, a)].pinuse
          /\ a # heap.top => heap.head[Past(heap, a)].cinuse /\ heap.foot[Past(heap, a)] = Size(heap, a)
      BY <2>1, <2>2, <3>1 DEF Memory, TagsAgree
    <3> QED
      BY <2>2, <2>5, <3>1, <3>2 DEF IsFree, Size
  <2> QED
    BY <2>4, <2>5
<1> QED
  BY <1>1, HeapSound, PTL

\* Every free chunk is top, the designated victim or in the bin of its size, once,
\* and the bins hold nothing else.
THEOREM HeapBinsHoldFreeChunks == Spec => []BinsHoldFreeChunks
<1>1. HInv => BinsHoldFreeChunks
  <2> SUFFICES ASSUME HInv
               PROVE  BinsHoldFreeChunks
    OBVIOUS
  <2>1. HeapIs(heap, InUse) /\ Memory(heap, {}) /\ Bins(heap) /\ Victim(heap)
    BY HInvSound DEF HeapIs, Sound
  <2>2. ASSUME NEW a \in FreeChunks \ {heap.dv, heap.top}
        PROVE  Binned(heap, a, heap.head[a].size)
    <3>1. IsFree(heap, a) /\ IsChunk(heap, a)
      BY <2>1, ChunksAre DEF IsChunk
    <3>2. Size(heap, a) \in Sizes
      BY <2>1, <3>1, ChunkFacts
    <3>3. InBin(heap, Size(heap, a), a)
      BY <2>1, <2>2, <3>1, <3>2 DEF Bins
    <3> QED
      BY <3>3 DEF InBin, Elems, Binned, Size
  <2>3. ASSUME NEW s \in Sizes, NEW i \in DOMAIN heap.bin[s]
        PROVE  heap.bin[s][i] \in FreeChunks \ {heap.dv, heap.top} /\ heap.head[heap.bin[s][i]].size = s
    <3>1. InBin(heap, s, heap.bin[s][i])
      BY <2>3 DEF InBin, Elems
    <3>2. LET a == heap.bin[s][i] IN IsFree(heap, a) /\ a # heap.dv /\ a # heap.top /\ s = Size(heap, a)
      BY <2>1, <3>1 DEF Bins
    <3> QED
      BY <2>1, <3>2, ChunksAre DEF Size
  <2>4. ASSUME NEW s \in Sizes, NEW i \in DOMAIN heap.bin[s], NEW j \in DOMAIN heap.bin[s], i # j
        PROVE  heap.bin[s][i] # heap.bin[s][j]
    BY <2>1, <2>4 DEF Bins, BinsOnce, OnceEach
  <2>5. heap.dv # Null => heap.dv \in FreeChunks /\ heap.head[heap.dv].size = heap.dvsize
    BY <2>1, ChunksAre DEF Victim, Size
  <2>6. heap.dv = Null <=> heap.dvsize = 0
    <3>1. CASE heap.dv = Null
      BY <2>1, <3>1 DEF Victim
    <3>2. CASE heap.dv # Null
      <4>1. IsChunk(heap, heap.dv) /\ heap.dvsize = Size(heap, heap.dv)
        BY <2>1, <3>2 DEF Victim, IsChunk
      <4>2. Size(heap, heap.dv) \in Int /\ Size(heap, heap.dv) > 0
        BY <2>1, <4>1, ChunkFacts
      <4> QED
        BY <3>2, <4>1, <4>2
    <3> QED
      BY <3>1, <3>2
  <2> QED
    BY <2>2, <2>3, <2>4, <2>5, <2>6 DEF BinsHoldFreeChunks
<1> QED
  BY <1>1, HeapSound, PTL

\* The sum of the sizes of the first segments, as SegmentList writes it.
IsSum(f, segs) == f = [i \in 0 .. Len(segs) |-> IF i = 0 THEN 0 ELSE f[i - 1] + segs[i].size]

SumOf(segs) == CHOOSE f : IsSum(f, segs)

LEMMA SumIs ==
  ASSUME NEW segs, NEW f, NEW total, SumsTo(f, segs, total), Len(segs) \in Nat
  PROVE  SumOf(segs)[Len(segs)] = total
<1> DEFINE n == Len(segs)
           e == SumOf(segs)
<1>1. f \in [0 .. n -> Int] /\ f[0] = 0 /\ total = f[n] /\ \A i \in 1 .. n : f[i] = f[i - 1] + segs[i].size
  BY DEF SumsTo
<1>2. IsSum(f, segs)
  <2>1. ASSUME NEW i \in 0 .. n
        PROVE  f[i] = IF i = 0 THEN 0 ELSE f[i - 1] + segs[i].size
    <3>1. CASE i = 0
      BY <1>1, <3>1
    <3>2. CASE i # 0
      <4>1. i \in 1 .. n
        BY <3>2
      <4> QED
        BY <1>1, <3>2, <4>1
    <3> QED
      BY <3>1, <3>2
  <2>2. f = [i \in 0 .. n |-> f[i]]
    BY <1>1
  <2>3. [i \in 0 .. n |-> f[i]] = [i \in 0 .. n |-> IF i = 0 THEN 0 ELSE f[i - 1] + segs[i].size]
    BY <2>1
  <2> QED
    BY <2>2, <2>3 DEF IsSum
<1>3. IsSum(e, segs)
  BY <1>2 DEF SumOf
<1>4. \A i \in 0 .. n : e[i] = IF i = 0 THEN 0 ELSE e[i - 1] + segs[i].size
  <2> HIDE DEF e
  <2>1. e = [i \in 0 .. n |-> IF i = 0 THEN 0 ELSE e[i - 1] + segs[i].size]
    BY <1>3 DEF IsSum
  <2> DEFINE v == [i \in 0 .. n |-> IF i = 0 THEN 0 ELSE e[i - 1] + segs[i].size]
  <2>2. \A i \in 0 .. n : v[i] = IF i = 0 THEN 0 ELSE e[i - 1] + segs[i].size
    OBVIOUS
  <2>3. e = v
    BY <2>1
  <2> HIDE DEF v
  <2> QED
    BY <2>2, <2>3
<1> HIDE DEF e
<1> DEFINE T == {i \in 0 .. n : e[i] # f[i]}
<1>5. T = {}
  <2> SUFFICES ASSUME T # {}
               PROVE  FALSE
    OBVIOUS
  <2>1. T \in SUBSET Nat
    OBVIOUS
  <2>2. PICK i \in T : \A y \in T : i <= y
    BY <2>1, LeastNat
  <2>3. i \in 0 .. n /\ e[i] # f[i]
    BY <2>2
  <2>4. i # 0
    BY <1>1, <1>4, <2>3
  <2>5. i \in 1 .. n /\ i - 1 \in 0 .. n /\ ~(i <= i - 1)
    BY <2>3, <2>4
  <2>6. i - 1 \notin T
    BY <2>2, <2>5
  <2>7. e[i - 1] = f[i - 1]
    BY <2>5, <2>6
  <2> HIDE DEF T
  <2> QED
    BY <1>1, <1>4, <2>3, <2>4, <2>5, <2>7
<1>6. n \in 0 .. n
  OBVIOUS
<1>7. e[n] = f[n]
  BY <1>5, <1>6
<1> QED
  BY <1>1, <1>7 DEF e

\* The first segment ends with top, the others with their record, and the segments
\* account for the footprint.
THEOREM HeapSegmentList == Spec => []SegmentList
<1>1. HInv => SegmentList
  <2> DEFINE h == heap
  <2> SUFFICES ASSUME HInv, is_initialized(h)
               PROVE  SegmentList
    BY DEF SegmentList
  <2>1. Memory(h, {}) /\ Records(h) /\ Accounts(h) /\ h \in HeapSet
    BY DEF HInv, HeapInv, Sound, Memory
  <2>2. h.segs # <<>>
    BY <2>1 DEF is_initialized, Memory, TopIn
  <2>3. TopAt(h, h.top + h.topsize)
    BY <2>1, <2>2, TopChunk
  <2>4. segment_holds(h.segs[1], h.top) /\ h.segs[1].rec = Null
    BY <2>1, <2>2, <2>3 DEF Records, TopAt, InSeg
  <2>5. h.head[h.top] = [size |-> h.topsize, cinuse |-> FALSE, pinuse |-> TRUE]
    BY <2>3 DEF TopAt, FreeHead
  <2>6. h.topsize > 0 /\ h.top + h.topsize = EndOf(h.segs[1]) - TopFoot
    BY <2>1, <2>2, <2>3 DEF TopAt, Memory, TopIn
  <2>7. \A i \in Segs(h) \ {1} :
              /\ segment_holds(h.segs[i], h.segs[i].rec)
              /\ h.head[h.segs[i].rec].size = SegRecord
              /\ h.head[h.segs[i].rec + SegRecord] = Fence
    BY <2>1 DEF Records, InSeg, Size
  <2>8. \A i \in Segs(h) : h.least_addr <= h.segs[i].base
    BY <2>1 DEF Memory, Segments
  <2>9. h.footprint <= h.max_footprint
    BY <2>1 DEF Accounts
  <2>10. h.footprint = SumOf(h.segs)[Len(h.segs)]
    <3>1. PICK f : SumsTo(f, h.segs, h.footprint)
      BY <2>1 DEF Accounts
    <3>2. Len(h.segs) \in Nat
      BY <2>1, LenProperties DEF Memory, Segments
    <3> QED
      BY <3>1, <3>2, SumIs
  <2>11. h.footprint = LET sum[i \in 0 .. Len(heap.segs)] ==
                                  IF i = 0 THEN 0 ELSE sum[i - 1] + heap.segs[i].size
                       IN  sum[Len(heap.segs)]
    BY <2>10 DEF SumOf, IsSum
  <2> QED
    BY <2>4, <2>5, <2>6, <2>7, <2>8, <2>9, <2>11 DEF SegmentList
<1> QED
  BY <1>1, HeapSound, PTL

\* The walk of internal_malloc_stats over the chunks of a segment.
NextWalked(h, seg, q, w) ==
    IF ~segment_holds(seg, q) \/ q = h.top \/ h.head[q] = Fence THEN {}
    ELSE w[q + h.head[q].size]
         \cup (IF is_inuse(h, q) /\ q # seg.rec THEN {q} ELSE {})

IsWalked(w, h, seg) == w = [q \in Addr |-> NextWalked(h, seg, q, w)]

Walked(h, seg) == CHOOSE w : IsWalked(w, h, seg)

LEMMA CountedCases ==
  ASSUME NEW h
  PROVE  Counted(h) = UNION {Walked(h, h.segs[i])[h.segs[i].base] : i \in Segs(h)}
  BY DEF Counted, Walked, IsWalked, NextWalked

LEMMA WalkedAt ==
  ASSUME NEW h, NEW seg, NEW w, IsWalked(w, h, seg), NEW q \in Addr
  PROVE  w[q] = NextWalked(h, seg, q, w)
<1> DEFINE v == [a \in Addr |-> NextWalked(h, seg, a, w)]
<1>1. w = v
  BY DEF IsWalked
<1>2. \A a \in Addr : v[a] = NextWalked(h, seg, a, w)
  OBVIOUS
<1> HIDE DEF v
<1> QED
  BY <1>1, <1>2

\* The users' chunks of segment i from q on.
From(h, U, i, q) == {a \in U : InSeg(h, i, a) /\ q <= a}

\* What the walk finds from q on, wherever q is.
FoundAt(h, U, i, q) ==
    IF ~InSeg(h, i, q) \/ q = h.top \/ h.head[q] = Fence THEN {}
    ELSE IF IsChunk(h, q) THEN From(h, U, i, q) ELSE {q}

\* The fake chunk is behind top only.
LEMMA FakeBehindTop ==
  ASSUME NEW h, NEW X, Memory(h, X), \A x \in X : h.head[x].pinuse, NEW q, IsChunk(h, q), q # h.top
  PROVE  h.head[Past(h, q)] # FakeHead
<1> SUFFICES ASSUME h.head[Past(h, q)] = FakeHead
             PROVE  FALSE
  OBVIOUS
<1> DEFINE n == Past(h, q)
<1>1. q \in Addr /\ q \in Int /\ n \in Addr /\ n \in Int /\ IsHeader(h, n) /\ IsHeader(h, q) /\ q < n
  <2>1. /\ q \in Addr /\ q \in Int /\ q > 0 /\ n \in Addr /\ n \in Int /\ n = q + Size(h, q) /\ IsHeader(h, n)
        /\ Size(h, q) \in Int /\ Size(h, q) > 0 /\ IsHeader(h, q)
    BY ChunkFacts
  <2> QED
    BY <2>1
<1>2. ~h.head[n].cinuse /\ ~h.head[n].pinuse /\ h.head[n] # Blank
  BY <1>1, FixedHeads DEF IsHeader
<1>3. h.top # Null /\ n = h.top + h.topsize
  BY <1>1, <1>2 DEF Memory, Kinds
<1>4. h.segs # <<>>
  BY <1>3 DEF Memory, TopIn
<1>5. TopAt(h, h.top + h.topsize)
  BY <1>4, TopChunk
<1>6. h.top \in Addr /\ h.top \in Int /\ Past(h, h.top) = n /\ h.top < n /\ IsChunk(h, h.top) /\ IsHeader(h, h.top)
  BY <1>3, <1>5, ChunkIsHeader DEF TopAt
<1>7. ~(q < h.top)
  BY <1>1, <1>6 DEF Memory, Tiles
<1>8. ~(h.top < q)
  BY <1>1, <1>6 DEF Memory, Tiles
<1> QED
  BY <1>1, <1>6, <1>7, <1>8

\* From a header on the walk finds what users have there: where it ends, nothing
\* is left.
LEMMA FoundFrom ==
  ASSUME NEW h, NEW U, Sound(h, U, {}), NEW i \in Segs(h), NEW n, IsHeader(h, n), InSeg(h, i, n), h.head[n] # FakeHead
  PROVE  FoundAt(h, U, i, n) = From(h, U, i, n)
<1>1. Memory(h, {}) /\ n \in Addr /\ n \in Int
  BY Places DEF Sound, IsHeader
<1>2. \A a \in U : IsUsed(h, a) /\ a \in Addr /\ a \in Int /\ IsHeader(h, a) /\ IsChunk(h, a)
  BY UserPlaces
<1>3. ASSUME ~IsChunk(h, n)
      PROVE  From(h, U, i, n) = {}
  <2>1. ASSUME NEW a \in U, InSeg(h, i, a), n <= a
        PROVE  FALSE
    <3>1. a <= n
      BY <1>1, <1>2, <1>3, <2>1 DEF Memory, Tiles
    <3>2. a = n
      BY <1>1, <1>2, <2>1, <3>1
    <3> QED
      BY <1>2, <1>3, <3>2
  <2> QED
    BY <2>1 DEF From
<1>4. ASSUME n = h.top
      PROVE  From(h, U, i, n) = {}
  <2>1. h.segs # <<>>
    BY DEF Segs
  <2>2. TopAt(h, h.top + h.topsize)
    BY <1>1, <2>1, TopChunk
  <2>3. ASSUME NEW a \in U, InSeg(h, i, a), n <= a
        PROVE  FALSE
    <3> DEFINE f == h.top + h.topsize
    <3>1. /\ IsFree(h, h.top) /\ IsChunk(h, h.top) /\ InSeg(h, 1, h.top) /\ InSeg(h, 1, f) /\ f \in Addr /\ f \in Int
          /\ h.head[f] = FakeHead /\ IsHeader(h, f) /\ Past(h, h.top) = f /\ 1 \in Segs(h)
      BY <2>2 DEF TopAt
    <3> HIDE DEF f
    <3>2. i = 1
      <4>1. Segments(h)
        BY <1>1 DEF Memory
      <4> QED
        BY <1>1, <1>4, <3>1, <4>1, OneSegment
    <3>3. a # h.top
      BY <1>2, <2>3, <3>1 DEF IsUsed, IsFree
    <3>4. h.top < a
      BY <1>1, <1>2, <1>4, <2>3, <3>3
    <3>5. f <= a
      BY <1>1, <1>2, <1>4, <2>3, <3>1, <3>4 DEF Memory, Tiles
    <3>6. ~IsChunk(h, f)
      BY <3>1, ChunkIsHeader
    <3>7. a <= f
      BY <1>1, <1>2, <2>3, <3>1, <3>2, <3>6 DEF Memory, Tiles
    <3>8. a = f
      BY <1>2, <2>3, <3>1, <3>5, <3>7
    <3> QED
      BY <1>2, <2>3, <3>6, <3>8
  <2> QED
    BY <2>3 DEF From
<1>5. CASE n = h.top
  BY <1>4, <1>5 DEF FoundAt
<1>6. CASE n # h.top /\ IsChunk(h, n)
  <2>1. h.head[n] # Fence
    BY <1>6, ChunkIsHeader
  <2> QED
    BY <1>1, <1>6, <2>1 DEF FoundAt
<1>7. CASE n # h.top /\ ~IsChunk(h, n)
  <2>1. From(h, U, i, n) = {}
    BY <1>3, <1>7
  <2>2. h.head[n] = Fence
    <3> SUFFICES ASSUME h.head[n] # Fence
                 PROVE  FALSE
      OBVIOUS
    <3>1. ~h.head[n].cinuse /\ ~h.head[n].pinuse /\ h.head[n] # Blank
      BY <1>1, <1>7 DEF IsHeader, IsChunk, IsUsed, IsFree
    <3>2. h.head[n] = FakeHead
      BY <1>1, <3>1 DEF Memory, Kinds
    <3> QED
      BY <3>2
  <2> QED
    BY <2>1, <2>2 DEF FoundAt
<1> QED
  BY <1>5, <1>6, <1>7

\* Chunk q is one of those of its segment, and the rest are from the next one on.
LEMMA FromNext ==
  ASSUME NEW h, NEW U, Sound(h, U, {}), NEW i \in Segs(h), NEW q, IsChunk(h, q), InSeg(h, i, q), q # h.top
  PROVE  /\ FoundAt(h, U, i, Past(h, q)) = From(h, U, i, Past(h, q))
         /\ From(h, U, i, q) = From(h, U, i, Past(h, q))
                               \cup (IF is_inuse(h, q) /\ q # h.segs[i].rec THEN {q} ELSE {})
         /\ Past(h, q) \in Addr /\ Past(h, q) \in Int /\ q \in Int /\ q < Past(h, q)
         /\ IsHeader(h, Past(h, q)) /\ InSeg(h, i, Past(h, q)) /\ h.head[Past(h, q)] # FakeHead
<1> DEFINE n == Past(h, q)
<1>1. Memory(h, {}) /\ Users(h, U) /\ Records(h)
  BY DEF Sound
<1>2. q \in Addr /\ q \in Int /\ n \in Addr /\ n \in Int /\ IsHeader(h, n) /\ InSeg(h, i, n) /\ IsHeader(h, q)
      /\ q < n
  <2>1. /\ q \in Addr /\ q \in Int /\ q > 0 /\ n \in Addr /\ n \in Int /\ n = q + Size(h, q) /\ IsHeader(h, n)
        /\ Size(h, q) \in Int /\ Size(h, q) > 0 /\ IsHeader(h, q)
    BY <1>1, ChunkFacts
  <2>2. InSeg(h, i, n)
    BY <1>1, <2>1 DEF Memory, Tiles
  <2> QED
    BY <2>1, <2>2
<1>3. \A a \in U : IsUsed(h, a) /\ a \in Addr /\ a \in Int /\ IsHeader(h, a) /\ IsChunk(h, a)
  BY UserPlaces
<1>4. \A a \in U : q < a => n <= a
  BY <1>1, <1>2, <1>3 DEF Memory, Tiles
<1>5. From(h, U, i, q) = From(h, U, i, n) \cup (IF q \in U THEN {q} ELSE {})
  <2>1. ASSUME NEW a \in U, InSeg(h, i, a)
        PROVE  q <= a <=> n <= a \/ a = q
    BY <1>2, <1>3, <1>4
  <2> QED
    BY <2>1 DEF From
<1>6. q \in U <=> is_inuse(h, q) /\ q # h.segs[i].rec
  <2>1. is_inuse(h, q) <=> IsUsed(h, q)
    BY DEF is_inuse, IsChunk, IsUsed, IsFree
  <2>2. IsRecord(h, q) => q = h.segs[i].rec
    <3> SUFFICES ASSUME NEW j \in Segs(h) \ {1}, h.segs[j].rec = q
                 PROVE  q = h.segs[i].rec
      BY DEF IsRecord
    <3>1. InSeg(h, j, q)
      BY <1>1 DEF Records
    <3>2. i = j
      BY <1>1, <1>2, <3>1, OneSegment DEF Memory
    <3> QED
      BY <3>2
  <2>3. q = h.segs[i].rec => IsRecord(h, q)
    <3>1. q # Null
      BY <1>1, <1>2, HeaderPlace
    <3>2. h.segs # <<>>
      BY DEF Segs
    <3>3. q = h.segs[i].rec => i # 1
      BY <1>1, <3>1, <3>2 DEF Records
    <3> QED
      BY <3>3 DEF IsRecord
  <2>4. IsUsed(h, q) <=> q \in U \/ IsRecord(h, q)
    BY <1>1 DEF Users
  <2>5. ~(q \in U /\ IsRecord(h, q))
    BY <1>1 DEF Users
  <2> QED
    BY <2>1, <2>2, <2>3, <2>4, <2>5
<1>7. h.head[n] # FakeHead
  BY <1>1, FakeBehindTop
<1>8. FoundAt(h, U, i, n) = From(h, U, i, n)
  BY <1>2, <1>7, FoundFrom
<1> QED
  BY <1>2, <1>5, <1>6, <1>7, <1>8

\* One step of the walk agrees with what it is to find.
LEMMA FoundStep ==
  ASSUME NEW h, NEW U, Sound(h, U, {}), NEW i \in Segs(h), NEW q \in Addr,
         NEW w, w = [a \in Addr |-> FoundAt(h, U, i, a)]
  PROVE  NextWalked(h, h.segs[i], q, w) = FoundAt(h, U, i, q)
<1> DEFINE n == q + h.head[q].size
<1>1. Memory(h, {}) /\ Records(h) /\ q \in Int /\ n = Past(h, q)
  BY Places DEF Sound, Past
<1>2. \A a \in Addr : w[a] = FoundAt(h, U, i, a)
  OBVIOUS
<1>3. InSeg(h, i, q) <=> segment_holds(h.segs[i], q)
  BY DEF InSeg
<1> HIDE DEF n
<1>4. NextWalked(h, h.segs[i], q, w)
      = IF ~InSeg(h, i, q) \/ q = h.top \/ h.head[q] = Fence THEN {}
        ELSE w[n] \cup (IF is_inuse(h, q) /\ q # h.segs[i].rec THEN {q} ELSE {})
  BY <1>3 DEF NextWalked, n
<1>5. CASE ~InSeg(h, i, q) \/ q = h.top \/ h.head[q] = Fence
  BY <1>4, <1>5 DEF FoundAt
<1>6. CASE InSeg(h, i, q) /\ q # h.top /\ h.head[q] # Fence /\ IsChunk(h, q)
  <2>1. /\ FoundAt(h, U, i, n) = From(h, U, i, n) /\ n \in Addr
        /\ From(h, U, i, q) = From(h, U, i, n) \cup (IF is_inuse(h, q) /\ q # h.segs[i].rec THEN {q} ELSE {})
    BY <1>1, <1>6, FromNext
  <2>2. FoundAt(h, U, i, q) = From(h, U, i, q)
    BY <1>6 DEF FoundAt
  <2>3. w[n] = From(h, U, i, n)
    BY <1>2, <2>1
  <2> QED
    BY <1>4, <1>6, <2>1, <2>2, <2>3
<1>7. CASE InSeg(h, i, q) /\ q # h.top /\ h.head[q] # Fence /\ ~IsChunk(h, q)
  <2>1. ~h.head[q].cinuse /\ ~h.head[q].pinuse
    BY <1>7 DEF IsChunk, IsUsed, IsFree
  <2>2. is_inuse(h, q)
    BY <2>1 DEF is_inuse
  <2>3. q # h.segs[i].rec
    <3>1. CASE i = 1
      <4>1. h.segs # <<>>
        BY DEF Segs
      <4>2. h.segs[i].rec = Null
        BY <1>1, <3>1, <4>1 DEF Records
      <4>3. h.segs[i].base >= Granularity /\ h.segs[i].base \in Int
        BY <1>1, SegTypes DEF Memory, Segments
      <4>4. q >= h.segs[i].base
        BY <1>7, <1>1, <4>3 DEF InSeg, segment_holds
      <4> QED
        BY <1>1, <4>2, <4>3, <4>4, Places DEF Null
    <3>2. CASE i # 1
      <4>1. IsUsed(h, h.segs[i].rec)
        BY <1>1, <3>2 DEF Records
      <4> QED
        BY <1>7, <4>1 DEF IsChunk
    <3> QED
      BY <3>1, <3>2
  <2>4. w[n] \subseteq {q}
    <3>1. CASE h.head[q] = Blank
      <4>1. n = q
        BY <1>1, <3>1, FixedHeads DEF n
      <4>2. w[q] = {q}
        BY <1>2, <1>7 DEF FoundAt
      <4> QED
        BY <4>1, <4>2
    <3>2. CASE h.head[q] # Blank
      <4>1. h.head[q] = FakeHead /\ h.top # Null /\ q = h.top + h.topsize
        BY <1>1, <2>1, <3>2 DEF Memory, Kinds
      <4>2. h.segs # <<>>
        BY DEF Segs
      <4>3. TopAt(h, q)
        BY <1>1, <4>1, <4>2, TopChunk
      <4>4. i = 1
        <5>1. Segments(h) /\ InSeg(h, 1, q) /\ 1 \in Segs(h)
          BY <1>1, <4>3 DEF Memory, TopAt
        <5> QED
          BY <1>1, <1>7, <5>1, OneSegment
      <4>5. q = EndOf(h.segs[i]) - 5 /\ EndOf(h.segs[i]) \in Int
        <5>1. EndOf(h.segs[i]) \in Int
          BY <1>1, SegTypes DEF Memory, Segments
        <5>2. q = EndOf(h.segs[i]) - TopFoot
          BY <1>1, <4>1, <4>2, <4>4 DEF Memory, TopIn
        <5> QED
          BY <5>1, <5>2, FixedHeads
      <4>6. n = q + 5
        BY <4>1, FixedHeads DEF n
      <4>7. n = EndOf(h.segs[i])
        BY <1>1, <4>5, <4>6
      <4>8. ~InSeg(h, i, n)
        BY <4>5, <4>7 DEF InSeg, segment_holds
      <4>9. n \in Addr
        <5>1. EndOf(h.segs[i]) <= Limit /\ Limit \in Int
          BY <1>1, Places DEF Memory, Segments
        <5>2. n \in Int /\ 0 <= n
          BY <1>1, <4>6, Places
        <5> QED
          BY <4>7, <5>1, <5>2, Places
      <4> QED
        BY <1>2, <4>8, <4>9 DEF FoundAt
    <3> QED
      BY <3>1, <3>2
  <2>5. FoundAt(h, U, i, q) = {q}
    BY <1>7 DEF FoundAt
  <2> QED
    BY <1>4, <1>7, <2>2, <2>3, <2>4, <2>5
<1> QED
  BY <1>5, <1>6, <1>7

LEMMA WalkExists ==
  ASSUME NEW h, NEW U, Sound(h, U, {}), NEW i \in Segs(h)
  PROVE  IsWalked(Walked(h, h.segs[i]), h, h.segs[i])
<1> DEFINE w == [a \in Addr |-> FoundAt(h, U, i, a)]
<1>1. \A q \in Addr : NextWalked(h, h.segs[i], q, w) = FoundAt(h, U, i, q)
  BY FoundStep
<1>2. w = [q \in Addr |-> NextWalked(h, h.segs[i], q, w)]
  BY <1>1
<1> HIDE DEF w
<1>3. IsWalked(w, h, h.segs[i])
  BY <1>2 DEF IsWalked
<1> QED
  BY <1>3 DEF Walked

\* The walk from a header finds what users have from there on.
LEMMA WalkFinds ==
  ASSUME NEW h, NEW U, Sound(h, U, {}), NEW i \in Segs(h), NEW b, IsHeader(h, b), InSeg(h, i, b), h.head[b] # FakeHead
  PROVE  Walked(h, h.segs[i])[b] = From(h, U, i, b)
<1> DEFINE seg == h.segs[i]
           w == Walked(h, seg)
<1>1. IsWalked(w, h, seg)
  BY WalkExists
<1> HIDE DEF w
<1>2. \A q \in Addr : w[q] = NextWalked(h, seg, q, w)
  BY <1>1, WalkedAt
<1> DEFINE Ok(q) == w[q] = From(h, U, i, q)
           Asked(q) == IsHeader(h, q) /\ InSeg(h, i, q) /\ h.head[q] # FakeHead
           T == {x \in 0 .. Limit : Asked(Limit - x) /\ ~Ok(Limit - x)}
<1>3. Limit \in Int /\ Addr = 0 .. Limit
  BY Places
<1>4. ASSUME NEW q, Asked(q), q # h.top, h.head[q] # Fence
      PROVE  IsChunk(h, q)
  <2>1. q \in Addr /\ h.head[q] # Blank
    BY <1>4 DEF IsHeader
  <2>2. h.head[q].cinuse \/ h.head[q].pinuse
    BY <1>4, <2>1 DEF Sound, Memory, Kinds
  <2> QED
    BY <1>4, <2>1, <2>2 DEF IsChunk, IsUsed, IsFree
<1>5. ASSUME NEW q, Asked(q), Asked(Past(h, q)) /\ q < Past(h, q) /\ q # h.top /\ IsChunk(h, q) => Ok(Past(h, q))
      PROVE  Ok(q)
  <2> DEFINE n == Past(h, q)
  <2>1. q \in Addr
    BY <1>5 DEF IsHeader
  <2>2. FoundAt(h, U, i, q) = From(h, U, i, q)
    BY <1>5, FoundFrom
  <2>3. CASE q = h.top \/ h.head[q] = Fence
    <3>1. w[q] = {}
      BY <1>2, <2>1, <2>3 DEF NextWalked
    <3>2. FoundAt(h, U, i, q) = {}
      BY <2>3 DEF FoundAt
    <3> QED
      BY <2>2, <3>1, <3>2
  <2>4. CASE q # h.top /\ h.head[q] # Fence
    <3>1. IsChunk(h, q)
      BY <1>4, <1>5, <2>4
    <3>2. /\ From(h, U, i, q) = From(h, U, i, n) \cup (IF is_inuse(h, q) /\ q # h.segs[i].rec THEN {q} ELSE {})
          /\ IsHeader(h, n) /\ InSeg(h, i, n) /\ h.head[n] # FakeHead /\ q < n
      BY <1>5, <2>4, <3>1, FromNext
    <3>3. w[n] = From(h, U, i, n)
      BY <1>5, <2>4, <3>1, <3>2
    <3>4. n = q + h.head[q].size /\ segment_holds(seg, q)
      BY <1>5 DEF Past, InSeg
    <3>5. w[q] = NextWalked(h, seg, q, w)
      BY <1>2, <2>1
    <3> HIDE DEF n
    <3>6. w[q] = w[n] \cup (IF is_inuse(h, q) /\ q # seg.rec THEN {q} ELSE {})
      BY <2>4, <3>4, <3>5 DEF NextWalked
    <3> QED
      BY <3>2, <3>3, <3>6
  <2> QED
    BY <2>3, <2>4
<1>6. T = {}
  <2> SUFFICES ASSUME T # {}
               PROVE  FALSE
    OBVIOUS
  <2>1. T \in SUBSET Nat
    BY <1>3
  <2>2. PICK x \in T : \A y \in T : x <= y
    BY <2>1, LeastNat
  <2> DEFINE q == Limit - x
             n == Past(h, q)
  <2>3. x \in 0 .. Limit /\ Asked(q) /\ ~Ok(q) /\ x \in Int
    BY <1>3, <2>2
  <2>4. q \in Addr /\ q \in Int /\ x = Limit - q
    BY <1>3, <2>3
  <2> HIDE DEF q
  <2>5. Asked(n) /\ q < n /\ q # h.top /\ IsChunk(h, q) /\ ~Ok(n)
    BY <1>5, <2>3
  <2>6. n \in Addr /\ n \in Int
    BY <2>5, Places DEF IsHeader
  <2> HIDE DEF n
  <2>7. Limit - (Limit - n) = n /\ Limit - n \in 0 .. Limit /\ Limit - n < x
    BY <1>3, <2>3, <2>4, <2>5, <2>6
  <2>8. Limit - n \in T
    BY <2>5, <2>7
  <2>9. x <= Limit - n
    BY <2>2, <2>8
  <2> QED
    BY <1>3, <2>3, <2>6, <2>7, <2>9
<1>7. Asked(b)
  OBVIOUS
<1>8. b \in Addr /\ b \in Int
  BY Places DEF IsHeader
<1>9. Limit - (Limit - b) = b /\ Limit - b \in 0 .. Limit
  BY <1>3, <1>8
<1>10. Ok(b)
  <2>1. Limit - b \notin T
    BY <1>6
  <2> QED
    BY <1>7, <1>9, <2>1
<1> QED
  BY <1>10 DEF w

\* What the walk over all segments counts are the users' chunks.
LEMMA CountedAre ==
  ASSUME NEW h, NEW U, Sound(h, U, {})
  PROVE  Counted(h) = U
<1>1. Memory(h, {})
  BY DEF Sound
<1>2. \A i \in Segs(h) : Walked(h, h.segs[i])[h.segs[i].base] = {a \in U : InSeg(h, i, a)}
  <2> SUFFICES ASSUME NEW i \in Segs(h)
               PROVE  Walked(h, h.segs[i])[h.segs[i].base] = {a \in U : InSeg(h, i, a)}
    OBVIOUS
  <2> DEFINE b == h.segs[i].base
  <2>1. IsHeader(h, b) /\ InSeg(h, i, b) /\ h.head[b].pinuse
    BY <1>1, BaseHeader
  <2>2. h.head[b] # FakeHead
    BY <2>1, FixedHeads
  <2>3. Walked(h, h.segs[i])[b] = From(h, U, i, b)
    BY <2>1, <2>2, WalkFinds
  <2>4. \A a : InSeg(h, i, a) => b <= a
    BY DEF InSeg, segment_holds
  <2> QED
    BY <2>3, <2>4 DEF From
<1>3. \A a \in U : \E i \in Segs(h) : InSeg(h, i, a)
  BY <1>1, UserPlaces, HeaderPlace
<1> QED
  BY <1>2, <1>3, CountedCases, ZenonT(60)

\* The statistics count the users' blocks and nothing else, and every block is as
\* large as was asked for and not much larger.
THEOREM HeapBlocksAccountedFor == Spec => []BlocksAccountedFor
<1>1. HInv => BlocksAccountedFor
  <2> SUFFICES ASSUME HInv
               PROVE  BlocksAccountedFor
    OBVIOUS
  <2>1. Sound(heap, InUse, {}) /\ Fits(heap, blocks)
    BY DEF HInv, HeapInv, InUse
  <2>2. InUse = Counted(heap)
    BY <2>1, CountedAre
  <2>3. \A p \in InUse : heap.head[p].size \in blocks[p] .. blocks[p] + MinChunk
    <3> SUFFICES ASSUME NEW p \in InUse
                 PROVE  heap.head[p].size \in blocks[p] .. blocks[p] + MinChunk
      OBVIOUS
    <3>1. blocks[p] \in Requests /\ blocks[p] <= Size(heap, p) /\ Size(heap, p) <= blocks[p] + MinChunk
      BY <2>1 DEF Fits, InUse
    <3>2. blocks[p] \in Int
      BY <3>1, RequestTypes
    <3>3. Size(heap, p) \in Int
      BY <2>1, UsedOk
    <3> QED
      BY <3>1, <3>2, <3>3 DEF Size, MinChunk
  <2> QED
    BY <2>2, <2>3 DEF BlocksAccountedFor
<1> QED
  BY <1>1, HeapSound, PTL

\* The heap never grows beyond the limit that is set.
THEOREM HeapFootprintLimited == Spec => FootprintLimited
<1>1. HInv /\ [Next]_vars =>
         [heap'.footprint > heap.footprint =>
            heap.footprint_limit = 0 \/ heap'.footprint <= heap.footprint_limit]_vars
  <2> SUFFICES ASSUME HInv, Next
               PROVE  Limited(heap, heap')
    BY DEF Limited
  <2> QED
    BY NextKeeps
<1> QED
  BY <1>1, HeapSound, PTL DEF FootprintLimited, Spec

\* The allocator implements Allocator: whatever is split, merged, mapped or given
\* back, users never see two blocks overlap, or a block change its size or place
\* unless it is reallocated.
THEOREM HeapImplementsAllocator == Spec => ImplementsAllocator
<1>1. Init => A!Init
  <2> SUFFICES ASSUME Init
               PROVE  A!Init
    OBVIOUS
  <2>1. InUse = {}
    BY DEF Init, InUse
  <2>2. [p \in InUse |-> heap.head[p].size] = <<>>
    BY <2>1
  <2> QED
    BY <2>2 DEF A!Init
<1>2. HInv /\ [Next]_vars => A!Next \/ UNCHANGED Held
  <2> SUFFICES ASSUME HInv, [Next]_vars
               PROVE  A!Next \/ UNCHANGED Held
    OBVIOUS
  <2>1. CASE Next
    <3>1. SeenAs(Held, Held')
      BY <2>1, NextKeeps
    <3> QED
      BY <3>1, NextIsNextOf DEF SeenAs
  <2>2. CASE UNCHANGED vars
    BY <2>2 DEF vars, Held, InUse
  <2> QED
    BY <2>1, <2>2
<1>3. HInv /\ [Next]_vars => [A!Next]_([p \in InUse |-> heap.head[p].size])
  BY <1>2 DEF Held
<1> QED
  BY <1>1, <1>3, HeapSound, PTL DEF Spec, ImplementsAllocator, A!Spec
----------------------------------------------------------------------------
(* What comes back when the users have given back everything.              *)

\* A segment without users whose record is where it was placed at first is unused.
LEMMA EmptySegment ==
  ASSUME NEW h, NEW X, Sound(h, {}, X), NEW i \in Segs(h), i # 1,
         h.segs[i].rec = EndOf(h.segs[i]) - TopFoot
  PROVE  Unused(h, h.segs[i])
<1> DEFINE b == h.segs[i].base
           rec == h.segs[i].rec
           end == EndOf(h.segs[i])
<1>1. Memory(h, X) /\ Records(h) /\ h \in HeapSet /\ Segments(h) /\ Tiles(h) /\ TagsAgree(h) /\ h.segs \in Seq(SegSet)
  BY DEF Sound, Memory, Segments
<1>2. /\ IsHeader(h, b) /\ InSeg(h, i, b) /\ b \in Int /\ b \in Addr /\ rec \in Int /\ end \in Int
      /\ h.head[b].pinuse
  BY <1>1, BaseHeader, SegTypes
<1>3. /\ IsUsed(h, rec) /\ InSeg(h, i, rec) /\ rec \in Addr
      /\ h.head[rec].cinuse
  BY <1>1 DEF Records, IsUsed
<1>4. rec = end - 5 /\ end = b + h.segs[i].size /\ h.segs[i].size > 5 /\ h.segs[i].size \in Int
  BY <1>1, SegTypes, FixedHeads DEF Segments, EndOf
<1>5. \A a : IsUsed(h, a) /\ InSeg(h, i, a) => a = rec
  <2> SUFFICES ASSUME NEW a, IsUsed(h, a), InSeg(h, i, a)
               PROVE  a = rec
    OBVIOUS
  <2>1. IsRecord(h, a) /\ a \in Int
    BY Places DEF Sound, Users, IsUsed
  <2>2. PICK j \in Segs(h) \ {1} : h.segs[j].rec = a
    BY <2>1 DEF IsRecord
  <2>3. InSeg(h, j, a)
    BY <1>1, <2>2 DEF Records
  <2>4. a <= a
    BY <2>1
  <2>5. i = j
    BY <1>1, <2>1, <2>2, <2>3, <2>4, OneSegment
  <2> QED
    BY <2>2, <2>5
<1> HIDE DEF b, rec, end
<1>6. b < rec
  BY <1>2, <1>4
<1>7. IsHeader(h, rec) /\ IsChunk(h, rec)
  BY <1>3, ChunkIsHeader DEF IsChunk
<1>8. IsChunk(h, b)
  <2>1. IsHeader(h, b) /\ ~IsChunk(h, b) => rec <= b
    BY <1>1, <1>2, <1>3, <1>7 DEF Tiles
  <2> QED
    BY <1>2, <1>6, <2>1
<1>9. IsFree(h, b) /\ b # h.top
  <2>1. ~IsUsed(h, b)
    BY <1>2, <1>5, <1>6
  <2>2. b # h.top
    BY <1>1, <1>2, NotTop
  <2> QED
    BY <1>8, <2>1, <2>2 DEF IsChunk
<1> DEFINE e == Past(h, b)
<1>10. /\ IsHeader(h, e) /\ InSeg(h, i, e) /\ e <= rec /\ h.head[e].cinuse /\ e \in Addr
  BY <1>1, <1>2, <1>3, <1>6, <1>7, <1>8, <1>9 DEF Tiles, TagsAgree, IsHeader
<1> HIDE DEF e
<1>11. e = rec
  <2>1. CASE IsUsed(h, e)
    BY <1>5, <1>10, <2>1
  <2>2. CASE ~IsUsed(h, e)
    <3>1. ~IsChunk(h, e)
      BY <1>10, <2>2 DEF IsChunk, IsFree
    <3>2. rec <= e
      BY <1>1, <1>3, <1>7, <1>10, <3>1 DEF Tiles
    <3>3. e \in Int
      BY <1>10, Places
    <3> QED
      BY <1>2, <1>10, <3>2, <3>3
  <2> QED
    BY <2>1, <2>2
<1>12. ~is_inuse(h, b)
  BY <1>9 DEF is_inuse, IsFree
<1>13. b + h.head[b].size >= end - TopFoot
  <2>1. b + h.head[b].size = rec /\ rec = end - TopFoot
    BY <1>11 DEF e, Past, rec, end
  <2> QED
    BY <1>2, <2>1
<1> QED
  BY <1>12, <1>13 DEF Unused, b, end

LEMMA SegmentGone ==
  ASSUME NEW h, NEW U, NEW X, Sound(h, U, X), NEW i \in Segs(h), i # 1, Unused(h, h.segs[i]),
         NEW g, g = release_segment(h, i, TRUE)
  PROVE  SegGone(h, g, i)
<1> DEFINE b == h.segs[i].base
           f == Unbinned(h, b)
<1>1. IsFree(h, b) /\ b # h.top
  BY UnusedHeaders DEF UnusedSeg
<1>2. SameMemory(f, h)
  BY <1>1, UnbinnedFree
<1>3. g = Unmapped(f, i)
  BY <1>2 DEF release_segment, Unmapped, Unbinned, SameMemory, SameSystem
<1> HIDE DEF f
<1>4. /\ f \in HeapSet /\ f.head = h.head /\ f.foot = h.foot /\ f.segs = h.segs /\ f.least_addr = h.least_addr
      /\ SameTop(f, h)
  BY <1>2 DEF SameMemory, SameSystem
<1>5. i \in Segs(f)
  BY <1>4 DEF Segs
<1>6. SegGone(f, g, i)
  BY <1>3, <1>4, <1>5, UnmappedFields
<1> QED
  BY <1>4, <1>6 DEF SegGone, SameTop, InSeg, Segs

\* The segments that have stayed are as unused as they were.
LEMMA UnusedStays ==
  ASSUME NEW h, NEW X, Memory(h, X), NEW i \in Segs(h), NEW g, SegGone(h, g, i), NEW j \in Segs(h), j # i
  PROVE  Unused(g, h.segs[j]) <=> Unused(h, h.segs[j])
<1> DEFINE b == h.segs[j].base
<1>1. Segments(h) /\ IsHeader(h, b) /\ InSeg(h, j, b) /\ b \in Int /\ b \in Addr
  BY BaseHeader DEF Memory
<1>2. ~InSeg(h, i, b)
  <2>1. b <= b
    BY <1>1
  <2> QED
    BY <1>1, <2>1, OneSegment
<1>3. g.head[b] = h.head[b]
  BY <1>1, <1>2 DEF SegGone
<1> QED
  BY <1>3 DEF Unused, is_inuse

\* What the scan has seen so far is in use.
SeenInUse(g, m) == \A j \in Segs(g) : 2 <= j /\ j <= m => ~Unused(g, g.segs[j])

ScanClean(h, g, U, X, n, k) ==
    ScanOk(h, g, U, X, n, k) /\ SameTop(g, h) /\ SeenInUse(g, k - (n - Len(g.segs)))

LEMMA ScanCleanStep ==
  ASSUME NEW h \in HeapSet, NEW g, NEW U, NEW X, NEW n \in Nat, NEW k \in 2 .. n, ScanClean(h, g, U, X, n, k - 1),
         NEW new, new = NextScanned(g, n, k, TRUE)
  PROVE  ScanClean(h, new, U, X, n, k)
<1> DEFINE i == k - (n - Len(g.segs))
<1>1. ScanOk(h, g, U, X, n, k - 1) /\ SameTop(g, h) /\ SeenInUse(g, k - 1 - (n - Len(g.segs)))
  BY DEF ScanClean
<1>2. SoundIn(g, U, X) /\ g \in HeapSet
  BY <1>1 DEF ScanOk, Trimmed, SoundIn, Sound, Memory
<1>3. Len(g.segs) \in Nat /\ g.segs \in Seq(SegSet)
  BY <1>2, LenProperties DEF HeapSet
<1>4. Len(g.segs) <= n /\ n - Len(g.segs) <= IF k - 1 < 2 THEN 0 ELSE k - 1 - 1
  BY <1>1 DEF ScanOk
<1>5. n - Len(g.segs) <= k - 2
  <2>1. k \in Int /\ 2 <= k
    OBVIOUS
  <2>2. CASE k - 1 < 2
    BY <1>3, <1>4, <2>1, <2>2
  <2>3. CASE ~(k - 1 < 2)
    BY <1>3, <1>4, <2>1, <2>3
  <2> QED
    BY <2>2, <2>3
<1>6. i \in Segs(g) /\ i # 1 /\ i \in Int /\ 2 <= i
  BY <1>3, <1>4, <1>5 DEF Segs
<1>7. new = release_segment(g, i, TRUE)
  BY DEF NextScanned
<1>8. k - 1 - (n - Len(g.segs)) = i - 1
  BY <1>3
<1>9. SeenInUse(g, i - 1)
  BY <1>1, <1>8
<1> HIDE DEF i
<1>10. ScanOk(h, new, U, X, n, k)
  BY <1>1, ScanStep
<1>11. SameTop(new, h)
  <2>1. ReleasedTo(g, new, U, X)
    BY <1>2, <1>6, <1>7, SegmentReleased
  <2> QED
    BY <1>1, <2>1 DEF ReleasedTo, SameTop
<1>12. CASE ~Unused(g, g.segs[i])
  <2>1. new = g
    BY <1>7, <1>12 DEF release_segment
  <2>2. SeenInUse(g, i)
    <3> SUFFICES ASSUME NEW j \in Segs(g), 2 <= j, j <= i
                 PROVE  ~Unused(g, g.segs[j])
      BY DEF SeenInUse
    <3>1. j \in Int
      BY DEF Segs
    <3>2. CASE j = i
      BY <1>12, <3>2
    <3>3. CASE j # i
      <4>1. j <= i - 1
        BY <1>6, <3>1, <3>3
      <4> QED
        BY <1>9, <4>1 DEF SeenInUse
    <3> QED
      BY <3>2, <3>3
  <2> QED
    BY <1>10, <1>11, <2>1, <2>2 DEF ScanClean, i
<1>13. CASE Unused(g, g.segs[i])
  <2>1. PICK Y : Y \subseteq X /\ Sound(g, U, Y)
    BY <1>2 DEF SoundIn
  <2>2. SegGone(g, new, i)
    BY <1>6, <1>7, <1>13, <2>1, SegmentGone
  <2>3. Len(new.segs) = Len(g.segs) - 1 /\ \A j \in Segs(new) : new.segs[j] = g.segs[IF j < i THEN j ELSE j + 1]
    BY <2>2 DEF SegGone
  <2>4. k - (n - Len(new.segs)) = i - 1
    <3>1. Len(new.segs) = Len(g.segs) - 1
      BY <2>3
    <3>2. i = k - (n - Len(g.segs)) /\ k \in Int
      BY DEF i
    <3> DEFINE was == Len(g.segs)
               left == Len(new.segs)
    <3>3. was \in Nat /\ left = was - 1 /\ i = k - (n - was)
      BY <1>3, <3>1, <3>2
    <3> HIDE DEF was, left
    <3>4. k - (n - left) = i - 1
      BY <3>2, <3>3
    <3> QED
      BY <3>4 DEF left
  <2>5. SeenInUse(new, i - 1)
    <3> SUFFICES ASSUME NEW j \in Segs(new), 2 <= j, j <= i - 1
                 PROVE  ~Unused(new, new.segs[j])
      BY DEF SeenInUse
    <3>1. j \in Int /\ j < i /\ j # i /\ j \in Segs(g)
      BY <1>3, <1>6, <2>3 DEF Segs
    <3>2. new.segs[j] = g.segs[j]
      BY <2>3, <3>1
    <3>3. ~Unused(g, g.segs[j])
      BY <1>9, <3>1 DEF SeenInUse
    <3>4. Memory(g, Y)
      BY <2>1 DEF Sound
    <3> QED
      BY <1>6, <2>2, <3>1, <3>2, <3>3, <3>4, UnusedStays
  <2> QED
    BY <1>10, <1>11, <2>4, <2>5 DEF ScanClean
<1> QED
  BY <1>12, <1>13

LEMMA ScannedClean ==
  ASSUME NEW h, NEW U, NEW X, Sound(h, U, X), NEW f, NEW n \in Nat, n = Len(h.segs),
         IsScanned(f, h, n, TRUE), NEW k \in 0 .. n
  PROVE  ScanClean(h, f[k], U, X, n, k)
<1>1. h \in HeapSet
  BY DEF Sound, Memory
<1>2. \A j \in 0 .. n : f[j] = IF j < 2 THEN h ELSE NextScanned(f[j - 1], n, j, TRUE)
  BY DEF IsScanned
<1> DEFINE T == {j \in 0 .. n : ~ScanClean(h, f[j], U, X, n, j)}
<1>3. T = {}
  <2> SUFFICES ASSUME T # {}
               PROVE  FALSE
    OBVIOUS
  <2>1. T \in SUBSET Nat
    OBVIOUS
  <2>2. PICK j \in T : \A i \in T : j <= i
    BY <2>1, LeastNat
  <2>3. j \in 0 .. n /\ ~ScanClean(h, f[j], U, X, n, j)
    OBVIOUS
  <2>4. CASE j < 2
    <3>1. f[j] = h
      BY <1>2, <2>3, <2>4
    <3>2. ScanOk(h, h, U, X, n, j)
      BY <2>3, <3>1, ScannedOk
    <3>3. j - (n - Len(h.segs)) < 2
      BY <2>3, <2>4
    <3>4. SeenInUse(h, j - (n - Len(h.segs)))
      <4> DEFINE m == j - (n - Len(h.segs))
      <4>1. m \in Int /\ m < 2
        BY <2>3, <2>4
      <4> HIDE DEF m
      <4>2. SeenInUse(h, m)
        BY <4>1 DEF SeenInUse, Segs
      <4> QED
        BY <4>2 DEF m
    <3> QED
      BY <2>3, <3>1, <3>2, <3>4 DEF ScanClean, SameTop
  <2>5. CASE ~(j < 2)
    <3>1. j - 1 \in 0 .. n /\ ~(j <= j - 1) /\ j \in 2 .. n
      BY <2>3, <2>5
    <3>2. j - 1 \notin T
      BY <2>2, <3>1
    <3>3. ScanClean(h, f[j - 1], U, X, n, j - 1)
      BY <3>1, <3>2
    <3>4. f[j] = NextScanned(f[j - 1], n, j, TRUE)
      BY <1>2, <2>3, <2>5
    <3> HIDE DEF T
    <3>5. ScanClean(h, f[j], U, X, n, j)
      BY <1>1, <3>1, <3>3, <3>4, ScanCleanStep
    <3> QED
      BY <2>3, <3>5
  <2> QED
    BY <2>4, <2>5
<1> QED
  BY <1>3

\* After the scan only the first segment may be unused, and top is where it was.
LEMMA ScanLeaves ==
  ASSUME NEW h, NEW U, NEW X, Sound(h, U, X), NEW g, g = release_unused_segments(h, TRUE)
  PROVE  SameTop(g, h) /\ \A i \in Segs(g) \ {1} : ~Unused(g, g.segs[i])
<1> DEFINE n == Len(h.segs)
           f == Scanned(h, TRUE)
           k == f[n]
           x == Larger(n - 1, ReleaseRate)
<1>1. h \in HeapSet /\ n \in Nat
  <2>1. h \in HeapSet
    BY DEF Sound, Memory
  <2> QED
    BY <2>1, LenProperties DEF HeapSet
<1>2. IsScanned(f, h, n, TRUE)
  BY <1>1, ScannedExists DEF Scanned
<1>3. g = [k EXCEPT !.release_checks = x]
  BY ReleaseCases
<1> HIDE DEF f, n, x
<1>4. ScanClean(h, k, U, X, n, n)
  <2>1. n = Len(h.segs)
    BY DEF n
  <2>2. n \in 0 .. n
    BY <1>1
  <2> QED
    BY <1>1, <1>2, <2>1, <2>2, ScannedClean
<1> HIDE DEF k
<1>5. ScanOk(h, k, U, X, n, n) /\ SameTop(k, h) /\ SeenInUse(k, n - (n - Len(k.segs)))
  BY <1>4 DEF ScanClean
<1>6. k \in HeapSet
  BY <1>5 DEF ScanOk, Trimmed, SoundIn, Sound, Memory
<1>7. g.segs = k.segs /\ g.head = k.head /\ SameTop(g, h)
  BY <1>3, <1>5, <1>6 DEF HeapSet, SameTop
<1>8. Len(k.segs) \in Nat /\ n - (n - Len(k.segs)) = Len(k.segs)
  <2>1. Len(k.segs) \in Nat
    BY <1>6, LenProperties DEF HeapSet
  <2> QED
    BY <1>1, <2>1
<1>9. SeenInUse(k, Len(k.segs))
  BY <1>5, <1>8
<1>10. ASSUME NEW i \in Segs(g) \ {1}
       PROVE  ~Unused(g, g.segs[i])
  <2>1. i \in Segs(k) /\ 2 <= i /\ i <= Len(k.segs)
    <3>1. Segs(g) = 1 .. Len(k.segs)
      BY <1>7 DEF Segs
    <3>2. i \in 1 .. Len(k.segs) /\ i # 1
      BY <3>1
    <3> QED
      BY <1>8, <3>2 DEF Segs
  <2>2. ~Unused(k, k.segs[i])
    BY <1>9, <2>1 DEF SeenInUse
  <2> QED
    BY <1>7, <2>2 DEF Unused, is_inuse
<1> QED
  BY <1>7, <1>10

\* What stays of top is not more than was to be kept, and a unit.
LEMMA ExtraLeaves ==
  ASSUME NEW size \in Nat, size > 5
  PROVE  LET k == (size - 5 + Granularity - 1) \div Granularity - 1
         IN  /\ k * Granularity \in Int /\ size - k * Granularity <= 5 + Granularity
             /\ k * Granularity = 0 => size <= 5 + Granularity
<1> DEFINE x == size - 5 + Granularity - 1
           j == x \div Granularity
<1>1. Granularity \in Nat /\ Granularity > 7
  BY GranularityAssumption DEF TopFoot, SegRecord, MinChunk
<1>2. x \in Nat
  BY <1>1
<1>3. x = size + Granularity - 6
  BY <1>1
<1> HIDE DEF x
<1>4. j \in Nat /\ j * Granularity \in Nat /\ j * Granularity <= x /\ x < j * Granularity + Granularity
  BY <1>1, <1>2, Divided
<1> HIDE DEF j
<1>5. (j - 1) * Granularity = j * Granularity - Granularity
  BY <1>1, <1>4
<1> DEFINE y == j * Granularity
<1>6. y \in Nat /\ y <= x /\ x < y + Granularity /\ (j - 1) * Granularity = y - Granularity
  BY <1>4, <1>5
<1> HIDE DEF y
<1> DEFINE w == (j - 1) * Granularity
<1>7. w \in Int /\ size - w <= 5 + Granularity
  BY <1>1, <1>3, <1>6
<1> HIDE DEF w
<1>8. w = 0 => size <= 5 + Granularity
  BY <1>7
<1>9. (size - 5 + Granularity - 1) \div Granularity - 1 = j - 1
  BY DEF j, x
<1> QED
  BY <1>7, <1>8, <1>9 DEF w

\* No record is in the first segment.
LEMMA NoLinkInFirst ==
  ASSUME NEW h, NEW U, NEW X, Sound(h, U, X), h.segs # <<>>
  PROVE  ~has_segment_link(h, h.segs[1])
<1>1. Segments(h) /\ Records(h) /\ h.segs \in Seq(SegSet)
  BY DEF Sound, Memory, Segments
<1>2. 1 \in Segs(h)
  BY <1>1, LenProperties DEF Segs
<1> SUFFICES ASSUME NEW i \in Segs(h), h.segs[i].rec # Null, InSeg(h, 1, h.segs[i].rec)
             PROVE  FALSE
  BY DEF has_segment_link, InSeg
<1>3. i # 1
  BY <1>1 DEF Records
<1>4. InSeg(h, i, h.segs[i].rec) /\ h.segs[i].rec \in Int
  BY <1>1, <1>3, SegTypes DEF Records
<1>5. h.segs[i].rec <= h.segs[i].rec
  BY <1>4
<1> QED
  BY <1>1, <1>2, <1>3, <1>4, <1>5, OneSegment

LEMMA TrimLeaves ==
  ASSUME NEW h, NEW X, Sound(h, {}, X), NEW g, g = sys_trim(h, 0, TRUE)
  PROVE  /\ g.topsize <= TopFoot + Granularity
         /\ \A i \in Segs(g) \ {1} : g.segs[i].rec # EndOf(g.segs[i]) - TopFoot
<1>1. Memory(h, X) /\ h \in HeapSet /\ TopIn(h) /\ Segments(h) /\ h.segs \in Seq(SegSet)
  BY DEF Sound, Memory, Segments
<1>2. CASE ~is_initialized(h)
  <2>1. g = h
    BY <1>2 DEF sys_trim
  <2>2. h.segs = <<>>
    <3> SUFFICES ASSUME h.segs # <<>>
                 PROVE  FALSE
      OBVIOUS
    <3>1. 1 \in Segs(h)
      BY <1>1, LenProperties DEF Segs
    <3>2. h.segs[1].base <= h.top /\ h.segs[1].base >= Granularity /\ h.segs[1].base \in Int
      BY <1>1, <3>1, SegTypes DEF TopIn, InSeg, segment_holds, Segments
    <3>3. h.top = 0
      BY <1>2 DEF is_initialized, Null
    <3> QED
      BY <3>2, <3>3, Places
  <2>3. h.topsize = 0
    BY <1>1, <2>2 DEF TopIn
  <2>4. Segs(h) = {}
    BY <2>2 DEF Segs
  <2>5. g.topsize <= TopFoot + Granularity
    <3>1. g.topsize = 0 /\ TopFoot = 5
      BY <2>1, <2>3, FixedHeads
    <3>2. 0 <= 5 + Granularity
      BY Places
    <3> QED
      BY <3>1, <3>2, Zenon
  <2> QED
    BY <2>1, <2>4, <2>5
<1>3. CASE is_initialized(h)
  <2>1. h.segs # <<>>
    BY <1>1, <1>3 DEF is_initialized, TopIn
  <2>2. segment_holding(h, h.top) = 1
    BY <1>1, <2>1, HoldsTop, Zenon
  <2> DEFINE extra == Extra(h, 5)
             shrink == /\ h.topsize > 5 /\ extra # 0
                       /\ h.segs[1].size >= extra /\ ~has_segment_link(h, h.segs[1])
             shrunk == IF shrink THEN Shrunk(h, extra) ELSE h
             trimmed == release_unused_segments(shrunk, TRUE)
  <2>3. g = IF trimmed.footprint = h.footprint /\ trimmed.topsize > trimmed.trim_check
            THEN [trimmed EXCEPT !.trim_check = MaxSize] ELSE trimmed
    <3>1. shrunk = TopTrimmed(h, TRUE)
      BY DEF TopTrimmed
    <3> HIDE DEF shrunk
    <3>2. g = AllTrimmed(h, trimmed)
      BY <1>3, <2>2, <3>1, SysTrimSteps
    <3> HIDE DEF trimmed
    <3> QED
      BY <3>2 DEF AllTrimmed
  <2>4. TopAt(h, h.top + h.topsize)
    BY <1>1, <2>1, TopChunk
  <2>5. h.topsize \in Nat
    BY <2>4 DEF TopAt
  <2>6. extra = ((h.topsize - 5 + Granularity - 1) \div Granularity - 1) * Granularity
    BY DEF Extra
  <2>7. h.segs[1].size >= h.topsize /\ h.segs[1].size \in Int
    <3>1. /\ 1 \in Segs(h) /\ h.top \in Int /\ h.topsize \in Int /\ h.segs[1].base <= h.top
          /\ EndOf(h.segs[1]) = h.top + h.topsize + 5
      BY <1>1, <2>1, <2>4, FixedHeads DEF TopAt, TopIn, InSeg, segment_holds
    <3>2. h.segs[1].base \in Int /\ h.segs[1].size \in Int /\ EndOf(h.segs[1]) = h.segs[1].base + h.segs[1].size
      BY <1>1, <3>1, SegTypes DEF EndOf
    <3> QED
      BY <3>1, <3>2
  <2>8. ~has_segment_link(h, h.segs[1])
    BY <2>1, NoLinkInFirst
  <2> HIDE DEF extra
  <2>9. /\ \E Y : Y \subseteq X /\ Sound(shrunk, {}, Y)
        /\ shrunk.topsize <= 5 + Granularity
    <3>1. CASE h.topsize > 5 /\ extra # 0
      <4>1. extra \in Int /\ Granularity <= extra /\ extra < h.topsize
        BY <2>5, <2>6, <3>1, ExtraPart
      <4>2. h.topsize - extra <= 5 + Granularity
        BY <2>5, <2>6, <3>1, ExtraLeaves
      <4>3. shrink
        BY <2>5, <2>7, <2>8, <3>1, <4>1
      <4>4. shrunk = Shrunk(h, extra)
        BY <4>3
      <4> HIDE DEF shrunk, shrink
      <4>5. Trimmed(h, shrunk, {}, X) /\ shrunk.topsize = h.topsize - extra
        BY <2>1, <4>1, <4>4, TopShrunk
      <4> QED
        BY <4>2, <4>5 DEF Trimmed, SoundIn
    <3>2. CASE ~(h.topsize > 5 /\ extra # 0)
      <4>1. shrunk = h
        BY <3>2
      <4>2. h.topsize <= 5 + Granularity
        <5>1. CASE h.topsize > 5
          BY <2>5, <2>6, <3>2, <5>1, ExtraLeaves
        <5>2. CASE ~(h.topsize > 5)
          BY <2>5, <5>2, Places
        <5> QED
          BY <5>1, <5>2
      <4> QED
        BY <4>1, <4>2
    <3> QED
      BY <3>1, <3>2
  <2> HIDE DEF shrunk
  <2>10. PICK Y : Y \subseteq X /\ Sound(shrunk, {}, Y)
    BY <2>9
  <2>11. SameTop(trimmed, shrunk) /\ \A i \in Segs(trimmed) \ {1} : ~Unused(trimmed, trimmed.segs[i])
    BY <2>10, ScanLeaves
  <2>12. Trimmed(shrunk, trimmed, {}, Y)
    BY <2>10, SegmentsReleased
  <2> HIDE DEF trimmed
  <2>13. PICK Z : Z \subseteq Y /\ Sound(trimmed, {}, Z)
    BY <2>12 DEF Trimmed, SoundIn
  <2>14. trimmed \in HeapSet
    BY <2>13 DEF Sound, Memory
  <2>15. \A i \in Segs(trimmed) \ {1} : trimmed.segs[i].rec # EndOf(trimmed.segs[i]) - TopFoot
    BY <2>11, <2>13, EmptySegment
  <2>16. g.segs = trimmed.segs /\ g.topsize = trimmed.topsize
    BY <2>3, <2>14 DEF HeapSet
  <2>17. g.topsize <= TopFoot + Granularity
    BY <2>9, <2>11, <2>16, FixedHeads DEF SameTop
  <2> QED
    BY <2>15, <2>16, <2>17 DEF Segs
<1> QED
  BY <1>2, <1>3

\* When the users have given everything back, trimming leaves of top no more than
\* its padding asks for, and of the other segments only those whose record did
\* not get its usual place (Heap_DL.cpp:2283).
THEOREM HeapComesBack == Spec => []EverythingComesBack
<1>1. HInv => EverythingComesBack
  <2> SUFFICES ASSUME HInv, InUse = {}
               PROVE  LET h == sys_trim(heap, 0, TRUE)
                      IN  /\ h.topsize <= TopFoot + Granularity
                          /\ \A i \in Segs(h) \ {1} : h.segs[i].rec # EndOf(h.segs[i]) - TopFoot
    BY DEF EverythingComesBack
  <2>1. Sound(heap, {}, {})
    BY DEF HInv, HeapInv, InUse
  <2> DEFINE h == sys_trim(heap, 0, TRUE)
  <2>2. h.topsize <= TopFoot + Granularity /\ \A i \in Segs(h) \ {1} : h.segs[i].rec # EndOf(h.segs[i]) - TopFoot
    BY <2>1, TrimLeaves
  <2> QED
    BY <2>2
<1> QED
  BY <1>1, HeapSound, PTL
=============================================================================
