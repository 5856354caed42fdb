-------------------------------- MODULE Heap --------------------------------
(***************************************************************************)
(* The allocator in src/turf/impl/Heap_DL.cpp (an adapted dlmalloc) behind *)
(* src/turf/impl/Heap_DL.h.  Every operation of Heap_DL::Operator holds    *)
(* the heap's mutex from its first to its last access, so each is one      *)
(* step; MutexLazyInit is about that mutex.  The other operations that     *)
(* Heap_DL.h exports are called in the same way.  blocks is what the users *)
(* hold: for every chunk of theirs, the chunk size their request needs.    *)
(*                                                                         *)
(* Requests are given as chunk sizes (request2size of the bytes).          *)
(***************************************************************************)
EXTENDS HeapSegments, FiniteSets

CONSTANTS
    Requests,    \* bound: the chunk sizes asked for
    Alignments,  \* bound: alignments above MALLOC_ALIGNMENT, in granules, powers of two
    Limits,      \* bound: the arguments of dlmalloc_set_footprint_limit
    MaxBlocks    \* bound: how many blocks are in use at a time

ASSUME RequestAssumption == Requests \subseteq Sizes \ {0, 1}
ASSUME AlignmentAssumption == \A a \in Alignments : a \in Nat \ {0, 1}
ASSUME LimitAssumption == \A l \in Limits : l \in Nat
ASSUME BlocksAssumption == MaxBlocks \in Nat

VARIABLES heap, blocks

vars == <<heap, blocks>>

----------------------------------------------------------------------------
(* malloc                                                                  *)

\* Use nb granules of a chunk that has left its bin; a remainder too small to
\* be a chunk stays with it.
fit(h, p, size, nb) ==
    IF size - nb < MinChunk
    THEN set_inuse_and_pinuse(h, p, size)
    ELSE set_size_and_pinuse_of_free_chunk(
            set_size_and_pinuse_of_inuse_chunk(h, p, nb), p + nb, size - nb)

\* The first chunk of a bin, its remainder becoming the dv or going to a bin.
from_bin(h, size, nb, remainderToDv) ==
    LET p   == Head(h.bin[size])
        ok  == Require(h, ok_address(h, p))
        fitted == fit(unlink_chunk(ok, p, size), p, size, nb)
    IN  Returns(IF size - nb < MinChunk THEN fitted
                ELSE IF remainderToDv THEN replace_dv(fitted, p + nb, size - nb)
                ELSE insert_chunk(fitted, p + nb, size - nb),
                p)

\* Use the dv: split it or exhaust it.
from_dv(h, nb) ==
    Returns(IF h.dvsize - nb < MinChunk
            THEN [fit(h, h.dv, h.dvsize, nb) EXCEPT !.dv = Null, !.dvsize = 0]
            ELSE [fit(h, h.dv, h.dvsize, nb) EXCEPT !.dv = h.dv + nb, !.dvsize = h.dvsize - nb],
            h.dv)

\* tmalloc_large prefers a tree chunk only if it fits better than the dv; the
\* subtraction is unsigned.
BetterThanDv(h, size, nb) == h.dvsize < nb \/ size < h.dvsize

\* Mutant: a chunk is taken from top although nothing would be left of it.
dlmalloc_exhausts_top(h, nb, tbase) ==
    IF nb <= h.dvsize THEN from_dv(h, nb)
    ELSE IF nb <= h.topsize THEN split_top(h, nb)
    ELSE sys_alloc(h, nb, tbase)

\* On this platform a small bin holds chunks of one size, so a remainderless
\* fit is an exact one.
dlmalloc(h, nb, tbase) ==
    LET small == SmallFrom(h, nb)
        large == LargeFrom(h, nb)
    IN  IF is_small(nb) /\ nb \in small
        THEN from_bin(h, nb, nb, TRUE)
        ELSE IF is_small(nb) /\ nb > h.dvsize /\ small # {}
        THEN from_bin(h, Smallest(small), nb, TRUE)
        ELSE IF is_small(nb) /\ nb > h.dvsize /\ large # {}
        THEN from_bin(h, Smallest(large), nb, TRUE)
        ELSE IF ~is_small(nb) /\ large # {} /\ BetterThanDv(h, Smallest(large), nb)
        THEN from_bin(h, Smallest(large), nb, FALSE)
        ELSE IF nb <= h.dvsize THEN from_dv(h, nb)
        ELSE IF nb < h.topsize THEN split_top(h, nb)
        ELSE sys_alloc(h, nb, tbase)

----------------------------------------------------------------------------
(* free                                                                    *)

should_trim(h, s) == s > h.trim_check

dlfree(h, p, canUnmap) ==
    LET psize == h.head[p].size
        done  == consolidate(
                    Require(h, ok_address(h, p) /\ is_inuse(h, p) /\ h.head[p + psize].pinuse),
                    p, psize)
        g     == done.heap
        now   == g.head[IF h.head[p].pinuse THEN p ELSE p - h.foot[p]].size
        counted == [g EXCEPT !.release_checks = @ - 1]
    IN  IF done.into = "top"
        THEN IF should_trim(g, g.topsize) THEN sys_trim(g, 0, canUnmap) ELSE g
        ELSE IF done.into = "bin" /\ ~is_small(now)
        THEN IF counted.release_checks = 0
             THEN release_unused_segments(counted, canUnmap)
             ELSE counted
        ELSE g

----------------------------------------------------------------------------
(* realloc and memalign                                                    *)

\* Mutant: the rest stays in use, and nobody has it.
shorten_leaks(h, p, size, nb) == set_inuse(set_inuse(h, p, nb), p + nb, size - nb)

\* Cut chunk p, in use, down to nb granules and free the rest.
shorten(h, p, size, nb) ==
    dispose_chunk(set_inuse(set_inuse(h, p, nb), p + nb, size - nb), p + nb, size - nb)

\* Mutant: growing into a free chunk leaves that chunk in its bin.
grow_still_binned(h, p, size, nb) ==
    IF size - nb < MinChunk THEN set_inuse(h, p, size) ELSE shorten(h, p, size, nb)

\* Take the free chunk behind p in and keep what is needed.
grow_into_free(h, p, size, nb) ==
    LET next == p + h.head[p].size
        h1   == erase(unlink_chunk(h, next, h.head[next].size), next)
    IN  IF size - nb < MinChunk THEN set_inuse(h1, p, size) ELSE shorten(h1, p, size, nb)

grow_into_top(h, p, size, nb) ==
    [set_head(set_inuse(erase(h, h.top), p, nb), p + nb, size - nb, FALSE, TRUE)
        EXCEPT !.top = p + nb, !.topsize = size - nb]

grow_into_dv(h, p, size, nb) ==
    LET h1 == erase(h, h.dv)
    IN  IF size - nb < MinChunk
        THEN [set_inuse(h1, p, size) EXCEPT !.dv = Null, !.dvsize = 0]
        ELSE [set_free_with_pinuse(set_inuse(h1, p, nb), p + nb, size - nb, p + size)
                EXCEPT !.dv = p + nb, !.dvsize = size - nb]

\* In place, or not at all.
try_realloc_chunk(h, p, nb) ==
    LET oldsize == h.head[p].size
        next == p + oldsize
        ok   == Require(h, ok_address(h, p) /\ is_inuse(h, p) /\ h.head[next].pinuse)
        size == oldsize + h.head[next].size   \* with the chunk behind it
    IN  IF oldsize >= nb
        THEN Returns(IF oldsize - nb >= MinChunk THEN shorten(ok, p, oldsize, nb) ELSE ok, p)
        ELSE IF next = h.top
        THEN IF size > nb THEN Returns(grow_into_top(ok, p, size, nb), p) ELSE Returns(ok, Null)
        ELSE IF next = h.dv
        THEN IF size >= nb THEN Returns(grow_into_dv(ok, p, size, nb), p) ELSE Returns(ok, Null)
        ELSE IF ~h.head[next].cinuse /\ size >= nb
        THEN Returns(grow_into_free(ok, p, size, nb), p)
        ELSE Returns(ok, Null)

\* In place if possible, else by allocating, copying and freeing.
dlrealloc(h, p, nb, tbase, canUnmap) ==
    LET inplace == try_realloc_chunk(h, p, nb)
        moved   == dlmalloc(inplace.heap, nb, tbase)
    IN  IF inplace.chunk # Null THEN inplace
        ELSE IF moved.chunk = Null THEN moved
        ELSE Returns(dlfree(moved.heap, p, canUnmap), moved.chunk)

\* What internal_memalign asks malloc for.
AlignedRequest(nb, alignment) == nb + Larger(alignment, MinChunk) + MinChunk

\* Mutant: the leader may be smaller than a chunk.
AlignedChunkAt(p, alignment) == ((p + 1 + alignment - 1) \div alignment) * alignment - 1

\* The first place in or behind chunk p whose memory is aligned, leaving no
\* space in front of it or enough for a chunk.
AlignedChunk(p, alignment) ==
    LET br == ((p + 1 + alignment - 1) \div alignment) * alignment - 1
    IN  IF br = p \/ br - p >= MinChunk THEN br ELSE br + alignment

internal_memalign(h, alignment, nb, tbase) ==
    LET a     == dlmalloc(h, AlignedRequest(nb, alignment), tbase)
        p     == a.chunk
        size  == a.heap.head[p].size
        newp  == AlignedChunk(p, Larger(alignment, MinChunk))
        lead  == newp - p
        led   == IF lead = 0 THEN a.heap
                 ELSE dispose_chunk(set_inuse(set_inuse(a.heap, newp, size - lead), p, lead), p, lead)
    IN  IF p = Null THEN a
        ELSE Returns(IF size - lead > nb + MinChunk THEN shorten(led, newp, size - lead, nb) ELSE led,
                     newp)

----------------------------------------------------------------------------
(* Several blocks at a time                                                *)

\* Cut one chunk into consecutive elements; the last one keeps what is over.
ialloc(h, first, second, tbase) ==
    LET a == dlmalloc(h, first + second, tbase)
        p == a.chunk
        rest == a.heap.head[p].size - first
    IN  IF p = Null THEN a
        ELSE Returns(set_size_and_pinuse_of_inuse_chunk(
                        set_size_and_pinuse_of_inuse_chunk(a.heap, p, first), p + first, rest),
                     p)

\* Merge chunk p, in use, with the one behind it, also in use.
merge_next(h, p) ==
    LET size == h.head[p].size
    IN  set_inuse(erase(h, p + size), p, size + h.head[p + size].size)

\* freed[i] is the heap after i elements of the array, and the chunk that the
\* next element stands for: the one before it too if the two are neighbours.
internal_bulk_free(h, array, canUnmap) ==
    LET n == Len(array)
        freed[i \in 0 .. n] ==
            IF i = 0 THEN Returns(h, array[1])
            ELSE LET g == freed[i - 1].heap
                     p == freed[i - 1].chunk
                     ok == Require(g, ok_address(g, p) /\ is_inuse(g, p))
                 IN  IF i < n /\ array[i + 1] = p + g.head[p].size
                     THEN Returns(merge_next(ok, p), p)
                     ELSE Returns(dispose_chunk(ok, p, g.head[p].size),
                                  IF i < n THEN array[i + 1] ELSE Null)
        done == freed[n].heap
    IN  IF should_trim(done, done.topsize) THEN sys_trim(done, 0, canUnmap) ELSE done

----------------------------------------------------------------------------
(* Statistics                                                              *)

\* The chunks that internal_malloc_stats adds up: in each segment, from its base
\* to the top chunk or a fence, without the chunk of the segment's own record.
Counted(h) ==
    LET found(seg) ==
            LET walk[q \in Addr] ==
                    IF ~segment_holds(seg, q) \/ q = h.top \/ h.head[q] = Fence THEN {}
                    ELSE walk[q + h.head[q].size]
                         \cup (IF is_inuse(h, q) /\ q # seg.rec THEN {q} ELSE {})
            IN  walk[seg.base]
    IN  UNION {found(h.segs[i]) : i \in Segs(h)}

----------------------------------------------------------------------------
(* The operations.                                                         *)

Init == heap = ZeroHeap /\ blocks = <<>>

InUse == DOMAIN blocks

\* The user of a block writes all of it, the foot of the next chunk included.
Filled(h, p) == [h EXCEPT !.foot[p + h.head[p].size] = 0]

\* Users give the blocks in old back and get one for nb, if there is memory.
Exchange(result, old, nb) ==
    IF result.chunk = Null
    THEN heap' = result.heap /\ UNCHANGED blocks
    ELSE /\ heap' = Filled(result.heap, result.chunk)
         /\ blocks' = [p \in (InUse \ old) \cup {result.chunk} |->
                          IF p = result.chunk THEN nb ELSE blocks[p]]

Free(p) ==
    \E canUnmap \in BOOLEAN :
        /\ heap' = dlfree(heap, p, canUnmap)
        /\ blocks' = [q \in InUse \ {p} |-> blocks[q]]

\* The choices the system has; what is not asked for makes no difference.
Mapped(nb) == Placements(heap, asize(nb)) \cup {Null}

Malloc(nb) ==
    /\ Cardinality(InUse) < MaxBlocks
    /\ \E tbase \in Mapped(nb) : Exchange(dlmalloc(heap, nb, tbase), {}, nb)

Memalign(alignment, nb) ==
    /\ Cardinality(InUse) < MaxBlocks
    /\ \E tbase \in Mapped(AlignedRequest(nb, alignment)) :
          Exchange(internal_memalign(heap, alignment, nb, tbase), {}, nb)

Realloc(p, nb) ==
    \E tbase \in Mapped(nb), canUnmap \in BOOLEAN :
        Exchange(dlrealloc(heap, p, nb, tbase, canUnmap), {p}, nb)

ReallocInPlace(p, nb) == Exchange(try_realloc_chunk(heap, p, nb), {p}, nb)

IndependentAlloc(first, second) ==
    /\ Cardinality(InUse) + 1 < MaxBlocks
    /\ \E tbase \in Mapped(first + second) :
          LET result == ialloc(heap, first, second, tbase)
              p == result.chunk
          IN  IF p = Null THEN heap' = result.heap /\ UNCHANGED blocks
              ELSE /\ heap' = Filled(result.heap, p + first)
                   /\ blocks' = [q \in InUse \cup {p, p + first} |->
                                    IF q = p THEN first ELSE IF q = p + first THEN second ELSE blocks[q]]

BulkFree(array) ==
    \E canUnmap \in BOOLEAN :
        /\ heap' = internal_bulk_free(heap, array, canUnmap)
        /\ blocks' = [q \in {r \in InUse : \A i \in DOMAIN array : array[i] # r} |-> blocks[q]]

Trim ==
    \E canUnmap \in BOOLEAN :
        heap' = sys_trim(heap, 0, canUnmap) /\ UNCHANGED blocks

SetFootprintLimit(bytes) ==
    /\ heap' = [heap EXCEPT !.footprint_limit =
                    IF bytes = MaxSize THEN 0 ELSE granularity_align(bytes)]
    /\ UNCHANGED blocks

Next ==
    \/ \E nb \in Requests : Malloc(nb)
    \/ \E nb \in Requests, alignment \in Alignments : Memalign(alignment, nb)
    \/ \E p \in InUse, nb \in Requests : Realloc(p, nb) \/ ReallocInPlace(p, nb)
    \/ \E p \in InUse : Free(p)
    \/ \E first, second \in Requests : IndependentAlloc(first, second)
    \/ \E p \in InUse : \E q \in InUse \ {p} : BulkFree(<<p, q>>)
    \/ Trim
    \/ \E bytes \in Limits : SetFootprintLimit(bytes)

Spec == Init /\ [][Next]_vars

----------------------------------------------------------------------------
(* Properties.                                                             *)

Headers == {a \in Addr : heap.head[a] # Blank}

SegOf(a) == heap.segs[segment_holding(heap, a)]

\* The chunks proper: without fences and the fake chunk behind top.
Chunks == {a \in Headers : heap.head[a] # Fence /\ a # heap.top + heap.topsize}

Behind(a) == a + heap.head[a].size

FreeChunks == {a \in Chunks : ~heap.head[a].cinuse}

\* No runtime check (RTCHECK) and none of the assertions on the path of an
\* operation ever fails while users only free what they own.
NeverAborts == ~heap.aborted

\* Each segment is tiled by its chunks: following sizes from its base leads from
\* header to header to its end, no header was ever written into the middle of a
\* chunk, where a user's bytes may be, and every chunk is large enough to be
\* linked into a bin when it is freed (top never is).
Tiled ==
    /\ \A a \in Chunks \ {heap.top} : heap.head[a].size >= MinChunk
    /\ \A i \in Segs(heap) : heap.segs[i].base \in Headers
    /\ \A a \in Headers :
          /\ \E i \in Segs(heap) : segment_holds(heap.segs[i], a)
          /\ LET end == IF heap.head[a] = Fence THEN EndOf(SegOf(a)) ELSE Behind(a)
             IN  /\ end = EndOf(SegOf(a)) \/ (end \in Headers /\ end < EndOf(SegOf(a)))
                 /\ \A b \in Headers : b <= a \/ end <= b

\* do_check_inuse_chunk and do_check_free_chunk: what a chunk says of its
\* neighbour is what the neighbour is, and no two free chunks are adjacent.
BoundaryTags ==
    \A a \in Chunks :
        IF heap.head[a].cinuse
        THEN heap.head[Behind(a)].pinuse /\ heap.foot[Behind(a)] = 0
        ELSE /\ heap.head[a].pinuse /\ ~heap.head[Behind(a)].pinuse
             /\ a # heap.top => heap.foot[Behind(a)] = heap.head[a].size
                               /\ heap.head[Behind(a)].cinuse

\* Every free chunk is the top, the dv or in the bin of its size, once, and the
\* bins hold nothing else.
BinsHoldFreeChunks ==
    /\ \A a \in FreeChunks \ {heap.dv, heap.top} : Binned(heap, a, heap.head[a].size)
    /\ \A s \in Sizes : \A i, j \in DOMAIN heap.bin[s] :
          /\ heap.bin[s][i] \in FreeChunks \ {heap.dv, heap.top}
          /\ heap.head[heap.bin[s][i]].size = s
          /\ i # j => heap.bin[s][i] # heap.bin[s][j]
    /\ heap.dv # Null => heap.dv \in FreeChunks /\ heap.head[heap.dv].size = heap.dvsize
    /\ heap.dv = Null <=> heap.dvsize = 0

\* do_check_top_chunk, and the segment list: its records are chunks in use at
\* the end of the segments they describe, and it accounts for the footprint.
SegmentList ==
    is_initialized(heap) =>
        /\ segment_holds(heap.segs[1], heap.top) /\ heap.segs[1].rec = Null
        /\ heap.head[heap.top] = [size |-> heap.topsize, cinuse |-> FALSE, pinuse |-> TRUE]
        /\ heap.topsize > 0 /\ heap.top + heap.topsize = EndOf(heap.segs[1]) - TopFoot
        /\ \A i \in Segs(heap) \ {1} :
              /\ segment_holds(heap.segs[i], heap.segs[i].rec)
              /\ heap.head[heap.segs[i].rec].size = SegRecord
              /\ heap.head[heap.segs[i].rec + SegRecord] = Fence
        /\ \A i \in Segs(heap) : heap.least_addr <= heap.segs[i].base
        /\ heap.footprint = LET sum[i \in 0 .. Len(heap.segs)] ==
                                  IF i = 0 THEN 0 ELSE sum[i - 1] + heap.segs[i].size
                            IN  sum[Len(heap.segs)]
        /\ heap.footprint <= heap.max_footprint

\* getStats().inUseBytes "doesn't count malloc_segments or fenceposts"
\* (Heap_DL.cpp:1596): what its walk over the segments finds are the users'
\* blocks and nothing else, each as large as asked for and not much larger.
BlocksAccountedFor ==
    /\ InUse = Counted(heap)
    /\ \A p \in InUse : heap.head[p].size \in blocks[p] .. blocks[p] + MinChunk

\* When the users have given everything back, trimming leaves one free chunk, the
\* top, not larger than its padding asks for.  Only a segment that was left with
\* less than a chunk of top space stays: see UnusedSegmentsUnmapped.
EverythingComesBack ==
    InUse = {} =>
        LET h == sys_trim(heap, 0, TRUE)
        IN  /\ h.topsize <= TopFoot + Granularity
            /\ \A i \in Segs(h) \ {1} : h.segs[i].rec # EndOf(h.segs[i]) - TopFoot

\* "Unmap and unlink any mmapped segments that don't contain used chunks"
\* (Heap_DL.cpp:2283): of an empty heap only the segment with the top is left.
UnusedSegmentsUnmapped ==
    InUse = {} => Len(release_unused_segments(heap, TRUE).segs) <= 1

\* The heap never grows beyond the limit that is set.
FootprintLimited ==
    [][heap'.footprint > heap.footprint =>
          heap.footprint_limit = 0 \/ heap'.footprint <= heap.footprint_limit]_vars
=============================================================================
