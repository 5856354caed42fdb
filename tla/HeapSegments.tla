---------------------------- MODULE HeapSegments ----------------------------
(***************************************************************************)
(* How the allocator of src/turf/impl/Heap_DL.cpp gets memory from the     *)
(* system and gives it back.  segs[1] is the segment record in             *)
(* malloc_state; every other record lies in a chunk at the end of the      *)
(* segment it describes (rec).  Where the system maps memory (tbase, Null  *)
(* if it fails) and whether it agrees to unmap (canUnmap) is not the       *)
(* allocator's choice.  HAVE_MORECORE is 0 in this build: all memory is    *)
(* mapped.                                                                 *)
(***************************************************************************)
EXTENDS HeapChunks

Segs(h) == 1 .. Len(h.segs)
EndOf(seg) == seg.base + seg.size
segment_holds(seg, a) == seg.base <= a /\ a < EndOf(seg)
segment_holding(h, a) == CHOOSE i \in Segs(h) : segment_holds(h.segs[i], a)
has_segment_link(h, seg) == \E i \in Segs(h) : h.segs[i].rec # Null /\ segment_holds(seg, h.segs[i].rec)

granularity_align(s) == ((s + Granularity - 1) \div Granularity) * Granularity

\* What sys_alloc asks the system for: room for nb and the segment's overhead.
asize(nb) == granularity_align(nb + TopFoot + 1)

\* Where the system may map size granules.
Placements(h, size) ==
    {b \in {u * Granularity : u \in 1 .. Regions} :
        /\ b + size <= (Regions + 1) * Granularity
        /\ \A i \in Segs(h) : b + size <= h.segs[i].base \/ EndOf(h.segs[i]) <= b}

----------------------------------------------------------------------------
\* Mutant: the new region does not take the old first chunk in.
prepend_alloc_unmerged(h, newbase, oldbase, nb) ==
    LET q == newbase + nb
        h1 == set_size_and_pinuse_of_inuse_chunk(h, newbase, nb)
    IN  Returns(insert_chunk(set_free_with_pinuse(h1, q, oldbase - q, oldbase), q, oldbase - q),
                newbase)

\* The new region lies in front of a segment: allocate from it and merge the
\* rest with the segment's first chunk.
prepend_alloc(h, newbase, oldbase, nb) ==
    LET q     == newbase + nb
        qsize == oldbase - q
        nsize == h.head[oldbase].size
        h1    == set_size_and_pinuse_of_inuse_chunk(
                    Require(h, qsize >= MinChunk /\ h.head[oldbase].pinuse), newbase, nb)
    IN  Returns(
          IF oldbase = h.top
          THEN [set_head(erase(h1, oldbase), q, h.topsize + qsize, FALSE, TRUE)
                  EXCEPT !.top = q, !.topsize = h.topsize + qsize]
          ELSE IF oldbase = h.dv
          THEN [set_size_and_pinuse_of_free_chunk(erase(h1, oldbase), q, h.dvsize + qsize)
                  EXCEPT !.dv = q, !.dvsize = h.dvsize + qsize]
          ELSE IF ~is_inuse(h, oldbase)
          THEN insert_chunk(set_free_with_pinuse(
                              erase(unlink_chunk(h1, oldbase, nsize), oldbase),
                              q, qsize + nsize, oldbase + nsize),
                            q, qsize + nsize)
          ELSE insert_chunk(set_free_with_pinuse(h1, q, qsize, oldbase), q, qsize),
          newbase)

\* A region apart from all segments: it gets the top, and the end of the old
\* top becomes the record of the old segment and a fence.
add_segment(h, tbase, tsize) ==
    LET oldtop == h.top
        asp    == EndOf(h.segs[segment_holding(h, oldtop)]) - TopFoot
        csp    == IF asp < oldtop + MinChunk THEN oldtop ELSE asp
        moved  == init_top(erase(h, oldtop + h.topsize), tbase, tsize - TopFoot)
        linked == [set_size_and_pinuse_of_inuse_chunk(moved, csp, SegRecord) EXCEPT
                     !.head[csp + SegRecord] = Fence,
                     !.segs = <<[base |-> tbase, size |-> tsize, rec |-> Null]>>
                              \o <<[h.segs[1] EXCEPT !.rec = csp]>> \o Tail(h.segs)]
    IN  IF csp # oldtop
        THEN insert_chunk(set_free_with_pinuse(linked, oldtop, csp - oldtop, csp),
                          oldtop, csp - oldtop)
        ELSE linked

\* Cut nb granules off the top chunk.
split_top(h, nb) ==
    LET r == h.top + nb
    IN  Returns([set_size_and_pinuse_of_inuse_chunk(
                    set_head(h, r, h.topsize - nb, FALSE, TRUE), h.top, nb)
                  EXCEPT !.top = r, !.topsize = h.topsize - nb],
                h.top)

Larger(a, b) == IF a > b THEN a ELSE b

\* Mutant: a segment mapped below all others leaves least_addr as it is.
least_addr_kept(h, tbase) == h

\* least_addr after a region has been mapped at tbase.
lower_least_addr(h, tbase) ==
    [h EXCEPT !.least_addr = IF tbase < @ THEN tbase ELSE @]

\* Mutant: only the heap as it is counts, not what it will be.
WithinLimitSoFar(h, size) == h.footprint_limit = 0 \/ h.footprint <= h.footprint_limit

\* The limit is checked before the system is asked.
WithinLimit(h, size) == h.footprint_limit = 0 \/ h.footprint + size <= h.footprint_limit

\* The code takes the first such segment in its list.
FirstSeg(found) == IF found = {} THEN 0 ELSE Smallest(found)

\* use_mmap(m) is never set: nothing copies mparams.default_mflags into mflags,
\* so the direct mapping of large requests is not reached.
sys_alloc(h, nb, tbase) ==
    LET tsize == asize(nb)
        got   == [h EXCEPT !.footprint = @ + tsize,
                           !.max_footprint = Larger(@, h.footprint + tsize)]
        after  == FirstSeg({i \in Segs(h) : EndOf(h.segs[i]) = tbase})
        before == FirstSeg({i \in Segs(h) : h.segs[i].base = tbase + tsize})
        lowest == lower_least_addr(got, tbase)
        take(g) == IF nb < g.topsize THEN split_top(g, nb) ELSE Returns(g, Null)
    IN  IF tbase = Null \/ ~WithinLimit(h, tsize)
        THEN Returns(h, Null)
        ELSE IF ~is_initialized(h)
        THEN take(init_top([got EXCEPT !.least_addr = tbase,
                              !.segs = <<[base |-> tbase, size |-> tsize, rec |-> Null]>>,
                              !.release_checks = ReleaseRate],
                           tbase, tsize - TopFoot))
        ELSE IF after # 0 /\ segment_holds(h.segs[after], h.top)
        THEN take(init_top([erase(got, h.top + h.topsize) EXCEPT !.segs[after].size = @ + tsize],
                           h.top, h.topsize + tsize))
        ELSE IF before # 0
        THEN prepend_alloc([lowest EXCEPT !.segs[before].base = tbase,
                                          !.segs[before].size = @ + tsize],
                           tbase, tbase + tsize, nb)
        ELSE take(add_segment(lowest, tbase, tsize))

----------------------------------------------------------------------------
\* munmap: what was there is gone.
unmap(h, base, size) ==
    [h EXCEPT !.head = [a \in Addr |-> IF base <= a /\ a < base + size THEN Blank ELSE @[a]],
              !.foot = [a \in Addr |-> IF base <= a /\ a < base + size THEN 0 ELSE @[a]],
              !.footprint = @ - size]

\* Mutant: the first chunk may not reach the end of the usable space.
UnusedStrict(h, seg) ==
    ~is_inuse(h, seg.base) /\ seg.base + h.head[seg.base].size > EndOf(seg) - TopFoot

\* Can the segment be unmapped: is its first chunk free and all of it?
Unused(h, seg) ==
    /\ ~is_inuse(h, seg.base)
    /\ seg.base + h.head[seg.base].size >= EndOf(seg) - TopFoot

\* One segment of the scan; a segment that cannot be unmapped is binned again.
release_segment(h, i, canUnmap) ==
    LET seg   == h.segs[i]
        psize == h.head[seg.base].size
        free  == IF seg.base = h.dv
                 THEN [h EXCEPT !.dv = Null, !.dvsize = 0]
                 ELSE unlink_large_chunk(h, seg.base, psize)
    IN  IF ~Unused(h, seg) THEN h
        ELSE IF canUnmap
        THEN [unmap(free, seg.base, seg.size) EXCEPT
                !.segs = SubSeq(@, 1, i - 1) \o SubSeq(@, i + 1, Len(@))]
        ELSE insert_large_chunk(free, seg.base, psize)

\* All segments but the first, in the order of the list; the k-th one has moved
\* up by as many places as segments were released before it.
release_unused_segments(h, canUnmap) ==
    LET n == Len(h.segs)
        scanned[k \in 0 .. n] ==
            IF k < 2 THEN h
            ELSE LET g == scanned[k - 1]
                 IN  release_segment(g, k - (n - Len(g.segs)), canUnmap)
    IN  [scanned[n] EXCEPT !.release_checks = Larger(n - 1, ReleaseRate)]

\* How much of the top chunk can go, in whole units, keeping pad granules.
Extra(h, pad) == ((h.topsize - pad + Granularity - 1) \div Granularity - 1) * Granularity

\* Give the end of the top chunk back, then all unused segments.
sys_trim(h, pad, canUnmap) ==
    LET keep     == pad + TopFoot
        top      == segment_holding(h, h.top)
        seg      == h.segs[top]
        extra    == Extra(h, keep)
        shrink   == /\ h.topsize > keep /\ extra # 0 /\ canUnmap
                    /\ seg.size >= extra /\ ~has_segment_link(h, seg)
        shrunk   == IF shrink
                    THEN init_top([unmap(h, EndOf(seg) - extra, extra)
                                     EXCEPT !.segs[top].size = @ - extra],
                                  h.top, h.topsize - extra)
                    ELSE h
        trimmed  == release_unused_segments(shrunk, canUnmap)
    IN  IF ~is_initialized(h) THEN h
        ELSE IF trimmed.footprint = h.footprint /\ trimmed.topsize > trimmed.trim_check
        THEN [trimmed EXCEPT !.trim_check = MaxSize]
        ELSE trimmed
=============================================================================
