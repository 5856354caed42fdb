------------------------------ MODULE HeapImpl ------------------------------
(***************************************************************************)
(* The allocator implements Allocator: a user's block is the memory of its *)
(* chunk, as large as the header says, which may be more than was asked.   *)
(***************************************************************************)
EXTENDS Heap

A == INSTANCE Allocator WITH
        Space <- Addr,
        held <- [p \in InUse |-> heap.head[p].size]

\* Whatever is split, merged, moved, mapped or unmapped inside, users never see
\* two blocks overlap, a block change its size unless it is reallocated, or a
\* reallocation copy onto itself.
ImplementsAllocator == A!Spec
=============================================================================
