----------------------------- MODULE HeapChunks -----------------------------
(***************************************************************************)
(* The data structure of the allocator in src/turf/impl/Heap_DL.cpp:       *)
(* chunks with boundary tags, bins, the designated victim (dv) and the top *)
(* chunk.  Every operator takes a heap (a record with what malloc_state    *)
(* and the memory hold) and returns the heap after it.                     *)
(*                                                                         *)
(* Addresses and sizes count granules of MALLOC_ALIGNMENT bytes, 16 on a   *)
(* 64-bit platform; all chunk sizes and addresses are multiples of it.     *)
(* head[a] and foot[a] are the head and prev_foot fields of the chunk at   *)
(* a.  Memory outside of headers is Blank: a header that a merge swallows  *)
(* is erased, so that whatever reads it later reads nothing of use.        *)
(***************************************************************************)
EXTENDS Naturals, Sequences

CONSTANTS
    Granularity,    \* of the system's memory, in granules
    Regions,        \* bound: how many granularity units of addresses there are
    MinLarge,       \* MIN_LARGE_SIZE: chunks of this size on go to the tree bins
    TrimThreshold,  \* mparams.trim_threshold
    ReleaseRate     \* MAX_RELEASE_CHECK_RATE

Null == 0           \* no chunk: the first unit is never mapped
MinChunk == 2       \* MIN_CHUNK_SIZE
SegRecord == 3      \* the chunk that holds a malloc_segment
TopFoot == SegRecord + MinChunk

ASSUME GranularityAssumption == Granularity \in Nat /\ Granularity > TopFoot + MinChunk
ASSUME RegionsAssumption == Regions \in Nat
ASSUME LargeAssumption == MinLarge \in Nat /\ MinLarge > MinChunk
ASSUME RateAssumption == TrimThreshold \in Nat /\ ReleaseRate \in Nat \ {0}

Addr == 0 .. (Regions + 1) * Granularity
Sizes == 0 .. Regions * Granularity
MaxSize == (Regions + 1) * Granularity  \* MAX_SIZE_T

Blank == [size |-> 0, cinuse |-> FALSE, pinuse |-> FALSE]
Fence == [size |-> 0, cinuse |-> TRUE, pinuse |-> TRUE]

\* A malloc_state that zeroInit() has cleared, in an empty address space.
ZeroHeap ==
    [head |-> [a \in Addr |-> Blank], foot |-> [a \in Addr |-> 0],
     bin |-> [s \in Sizes |-> <<>>],
     dv |-> Null, dvsize |-> 0, top |-> Null, topsize |-> 0,
     segs |-> <<>>,             \* m->seg and the records linked from it
     footprint |-> 0, max_footprint |-> 0, footprint_limit |-> 0,
     trim_check |-> 0, release_checks |-> 0, least_addr |-> 0,
     aborted |-> FALSE]         \* has a runtime check or an assertion failed?

\* The result of an operation that returns memory: the chunk, or Null.
Returns(h, p) == [heap |-> h, chunk |-> p]

\* RTCHECK and assert: a failure ends in ABORT.
Require(h, condition) == IF condition THEN h ELSE [h EXCEPT !.aborted = TRUE]

ok_address(h, p) == p >= h.least_addr

is_initialized(h) == h.top # Null

----------------------------------------------------------------------------
(* Heads and feet.                                                         *)

is_inuse(h, p) == h.head[p].cinuse \/ ~h.head[p].pinuse

set_head(h, p, s, c, i) == [h EXCEPT !.head[p] = [size |-> s, cinuse |-> c, pinuse |-> i]]

erase(h, p) == [h EXCEPT !.head[p] = Blank, !.foot[p] = 0]

\* cinuse of p, keeping its pinuse, and pinuse of the chunk behind it.
set_inuse(h, p, s) ==
    [set_head(h, p, s, TRUE, h.head[p].pinuse) EXCEPT !.head[p + s].pinuse = TRUE]

set_inuse_and_pinuse(h, p, s) ==
    [set_head(h, p, s, TRUE, TRUE) EXCEPT !.head[p + s].pinuse = TRUE]

set_size_and_pinuse_of_inuse_chunk(h, p, s) == set_head(h, p, s, TRUE, TRUE)

set_size_and_pinuse_of_free_chunk(h, p, s) ==
    [set_head(h, p, s, FALSE, TRUE) EXCEPT !.foot[p + s] = s]

\* The same, also clearing pinuse of the chunk n behind it.
set_free_with_pinuse(h, p, s, n) ==
    set_size_and_pinuse_of_free_chunk([h EXCEPT !.head[n].pinuse = FALSE], p, s)

\* A new top chunk, followed by a fake chunk over the segment's overhead space.
init_top(h, p, psize) ==
    [set_head(set_head(h, p, psize, FALSE, TRUE), p + psize, TopFoot, FALSE, FALSE)
        EXCEPT !.top = p, !.topsize = psize, !.trim_check = TrimThreshold]

----------------------------------------------------------------------------
(* Bins.  A bin is a list for each size, its first chunk the next to be    *)
(* used: the newest of a small bin, the oldest of a tree bin.  HeapTree is *)
(* about how tree bins are stored and searched.                            *)

is_small(s) == s < MinLarge

insert_small_chunk(h, p, s) == [h EXCEPT !.bin[s] = <<p>> \o @]

insert_large_chunk(h, p, s) == [h EXCEPT !.bin[s] = Append(@, p)]

insert_chunk(h, p, s) ==
    IF is_small(s) THEN insert_small_chunk(h, p, s) ELSE insert_large_chunk(h, p, s)

Binned(h, p, s) == \E i \in DOMAIN h.bin[s] : h.bin[s][i] = p

\* The list without the node of p, which is in it.
Without(list, p) ==
    [i \in 1 .. Len(list) - 1 |-> IF \E j \in 1 .. i : list[j] = p THEN list[i + 1] ELSE list[i]]

unlink_small_chunk(h, p, s) ==
    [Require(h, Binned(h, p, s)) EXCEPT !.bin[s] = Without(@, p)]

unlink_large_chunk(h, p, s) ==
    [Require(h, Binned(h, p, s)) EXCEPT !.bin[s] = Without(@, p)]

unlink_chunk(h, p, s) ==
    IF is_small(s) THEN unlink_small_chunk(h, p, s) ELSE unlink_large_chunk(h, p, s)

\* Mutant: the old dv is dropped instead of binned.
replace_dv_lossy(h, p, s) == [h EXCEPT !.dv = p, !.dvsize = s]

\* The old dv, known to be small, goes to its bin.
replace_dv(h, p, s) ==
    LET binned == IF h.dvsize # 0
                  THEN insert_small_chunk(Require(h, is_small(h.dvsize)), h.dv, h.dvsize)
                  ELSE h
    IN  [binned EXCEPT !.dv = p, !.dvsize = s]

Smallest(sizes) == CHOOSE s \in sizes : \A other \in sizes : s <= other

\* The sizes from a least one on for which there is a binned chunk.
SmallFrom(h, s) == {i \in Sizes : i < MinLarge /\ i >= s /\ h.bin[i] # <<>>}
LargeFrom(h, s) == {i \in Sizes : i >= MinLarge /\ i >= s /\ h.bin[i] # <<>>}

----------------------------------------------------------------------------
(* Consolidation.                                                          *)

\* What free and its internal versions share: merge chunk p with the free
\* chunks around it, and say what it became.
consolidate(h, p, psize) ==
    LET next == p + psize
        back == ~h.head[p].pinuse
        q    == IF back THEN p - h.foot[p] ELSE p
        size == p + psize - q
        toDv == back /\ q = h.dv
        h1   == IF ~back THEN h
                ELSE LET ok == Require(h, ok_address(h, q))
                     IN  erase(IF toDv THEN ok ELSE unlink_chunk(ok, q, h.foot[p]), p)
        nsize == h.head[next].size
    IN  IF h.head[next].cinuse
        THEN LET freed == set_free_with_pinuse(h1, q, size, next)
             IN  IF toDv /\ h.head[next].pinuse
                 THEN [heap |-> [freed EXCEPT !.dvsize = size], into |-> "dv"]
                 ELSE [heap |-> insert_chunk(freed, q, size), into |-> "bin"]
        ELSE IF next = h.top
        THEN [heap |-> [set_head(erase(h1, next), q, h.topsize + size, FALSE, TRUE) EXCEPT
                          !.top = q, !.topsize = h.topsize + size,
                          !.dv = IF toDv THEN Null ELSE @,
                          !.dvsize = IF toDv THEN 0 ELSE @],
              into |-> "top"]
        ELSE IF next = h.dv
        THEN [heap |-> [set_size_and_pinuse_of_free_chunk(erase(h1, next), q, h.dvsize + size)
                          EXCEPT !.dv = q, !.dvsize = h.dvsize + size],
              into |-> "dv"]
        ELSE LET merged == set_size_and_pinuse_of_free_chunk(
                                erase(unlink_chunk(h1, next, nsize), next), q, size + nsize)
             IN  IF toDv
                 THEN [heap |-> [merged EXCEPT !.dvsize = size + nsize], into |-> "dv"]
                 ELSE [heap |-> insert_chunk(merged, q, size + nsize), into |-> "bin"]

dispose_chunk(h, p, psize) == consolidate(h, p, psize).heap
=============================================================================
