------------------------------ MODULE HeapTree ------------------------------
(***************************************************************************)
(* The tree bins of src/turf/impl/Heap_DL.cpp: bitwise tries of chunk      *)
(* sizes, in which the chunks of one size form a ring and only the oldest  *)
(* of them is a node.  HeapChunks takes a bin to be a queue for each size  *)
(* and the search to be a choice of the smallest size; this module has the *)
(* pointers, and shows that they amount to that.                           *)
(*                                                                         *)
(* Sizes count granules and have Bits bits, as size_t has.                 *)
(***************************************************************************)
EXTENDS Naturals, Sequences, FiniteSets

CONSTANTS
    Chunk, NoChunk,  \* chunks, and the null pointer
    Bin,             \* the parent of a root: treebin_at(m, i) as a chunk
    Shift,           \* TREEBIN_SHIFT
    NTreeBins,
    Bits,            \* SIZE_T_BITSIZE
    IndexBits,       \* the width of X in compute_tree_index: with gcc on x86
                     \* that of unsigned int, otherwise Bits
    ChunkSizes       \* bound: the sizes of the chunks that are binned

ASSUME ChunkAssumption == NoChunk \notin Chunk /\ Bin \notin Chunk \cup {NoChunk}
ASSUME WidthAssumption ==
    /\ Shift \in Nat /\ Shift > 1 /\ Bits \in Nat /\ NTreeBins \in Nat
    /\ NTreeBins > 0 /\ NTreeBins % 2 = 0 /\ NTreeBins \div 2 + Shift <= Bits
    /\ IndexBits \in 0 .. Bits

VARIABLES
    size,       \* of a binned chunk; 0 for the others
    index, child, parent, fd, bk,  \* the fields of malloc_tree_chunk
    treebins,   \* the root of each bin
    treemap     \* the bins that are marked as non-empty

vars == <<size, index, child, parent, fd, bk, treebins, treemap>>

\* Powers of two.
Two[k \in 0 .. Bits + 1] == IF k = 0 THEN 1 ELSE 2 * Two[k - 1]

MinLarge == Two[Shift]
LargeSizes == MinLarge .. Two[Bits] - 1

ASSUME SizesAssumption == ChunkSizes \subseteq LargeSizes

\* The sizes that compute_tree_index does not cut down.
Indexable == {s \in LargeSizes : s \div MinLarge < Two[IndexBits]}

Link == Chunk \cup {NoChunk}
Bins == 0 .. NTreeBins - 1

bit(s, k) == (s \div Two[k]) % 2

\* The position of the highest bit of x.
HighBit(x) == CHOOSE k \in 0 .. Bits : Two[k] <= x /\ x < Two[k + 1]

\* Two bins for each power of two; the last bin takes all larger sizes too.
compute_tree_index(s) ==
    LET x == (s \div MinLarge) % Two[IndexBits]
        k == HighBit(x)
    IN  IF x = 0 THEN 0
        ELSE IF x >= Two[NTreeBins \div 2] THEN NTreeBins - 1
        ELSE 2 * k + bit(s, k + Shift - 1)

\* The bit that decides at the root; each level below takes the next lower bit.
bit_for_tree_index(i) == IF i = NTreeBins - 1 THEN Bits - 1 ELSE i \div 2 + Shift - 2

\* Where size s of bin i goes at depth d; bits shifted in from the right are 0.
Direction(s, i, d) ==
    IF d > bit_for_tree_index(i) THEN 0 ELSE bit(s, bit_for_tree_index(i) - d)

\* The way of size s from the root of its bin, up to s itself: the node at each
\* depth, as long as there is one.  Each level has used up a bit.
Path(s) ==
    LET i == compute_tree_index(s)
        node[d \in 0 .. Bits] ==
            IF d = 0 THEN treebins[i]
            ELSE LET t == node[d - 1]
                 IN  IF t = NoChunk THEN NoChunk
                     ELSE IF size[t] = s THEN NoChunk ELSE child[t][Direction(s, i, d - 1)]
    IN  node

Depths(path) == {d \in DOMAIN path : path[d] # NoChunk}

Deepest(depths) == CHOOSE d \in depths : \A e \in depths : e <= d

----------------------------------------------------------------------------
Init ==
    /\ size = [x \in Chunk |-> 0] /\ index = [x \in Chunk |-> 0]
    /\ child = [x \in Chunk |-> [k \in 0 .. 1 |-> NoChunk]]
    /\ parent = [x \in Chunk |-> NoChunk]
    /\ fd = [x \in Chunk |-> x] /\ bk = [x \in Chunk |-> x]
    /\ treebins = [i \in Bins |-> NoChunk] /\ treemap = {}

Binned == {x \in Chunk : size[x] # 0}

\* What every insertion sets.  The links of a chunk that is not binned are not
\* pointers, so Unlink leaves them as Init has them.
Enter(x, s) ==
    /\ size[x] = 0
    /\ size' = [size EXCEPT ![x] = s]
    /\ index' = [index EXCEPT ![x] = compute_tree_index(s)]

\* The first chunk of its bin.
InsertRoot(x, s) ==
    LET i == compute_tree_index(s)
    IN  /\ i \notin treemap
        /\ Enter(x, s)
        /\ treemap' = treemap \cup {i}
        /\ treebins' = [treebins EXCEPT ![i] = x]
        /\ parent' = [parent EXCEPT ![x] = Bin]
        /\ UNCHANGED <<child, fd, bk>>

\* A new size: a leaf at the end of its path.
InsertLeaf(x, s) ==
    LET i == compute_tree_index(s)
        d == Deepest(Depths(Path(s)))
        t == Path(s)[d]
    IN  /\ i \in treemap /\ size[t] # s
        /\ Enter(x, s)
        /\ child' = [child EXCEPT ![t][Direction(s, i, d)] = x]
        /\ parent' = [parent EXCEPT ![x] = t]
        /\ UNCHANGED <<fd, bk, treebins, treemap>>

\* Mutant: the new chunk is linked in on the other side, to be used next.
InsertRingLast(x, s) ==
    LET t == Path(s)[Deepest(Depths(Path(s)))]
    IN  /\ compute_tree_index(s) \in treemap /\ size[t] = s
        /\ Enter(x, s)
        /\ fd' = [fd EXCEPT ![bk[t]] = x, ![x] = t]
        /\ bk' = [bk EXCEPT ![t] = x, ![x] = bk[t]]
        /\ UNCHANGED <<child, parent, treebins, treemap>>

\* A size that is there already: a member of its ring.
InsertRing(x, s) ==
    LET t == Path(s)[Deepest(Depths(Path(s)))]
    IN  /\ compute_tree_index(s) \in treemap /\ size[t] = s
        /\ Enter(x, s)
        /\ fd' = [fd EXCEPT ![t] = x, ![x] = fd[t]]
        /\ bk' = [bk EXCEPT ![fd[t]] = x, ![x] = t]
        /\ UNCHANGED <<child, parent, treebins, treemap>>

----------------------------------------------------------------------------
\* The leaf that the way down to the right, where there is one, leads to.
RightmostLeaf(t) ==
    LET down[d \in 0 .. Bits] ==
            IF d = 0 THEN t
            ELSE LET r == down[d - 1]
                 IN  IF child[r][1] # NoChunk THEN child[r][1]
                     ELSE IF child[r][0] # NoChunk THEN child[r][0] ELSE r
    IN  down[Bits]

\* Mutant: a node is replaced by its child, leaf or not.
ReplacementChild(x) ==
    IF bk[x] # x THEN bk[x]
    ELSE IF child[x][1] # NoChunk THEN child[x][1] ELSE child[x][0]

\* What takes the place of node x: the next of its size, or a leaf below it.
Replacement(x) ==
    IF bk[x] # x THEN bk[x]
    ELSE IF RightmostLeaf(x) = x THEN NoChunk ELSE RightmostLeaf(x)

\* Links with every pointer to a replaced by b.
Redirect(links, a, b) == [k \in 0 .. 1 |-> IF links[k] = a THEN b ELSE links[k]]

\* The children of all nodes once r has left its place, if it had one, for that of x.
ChildrenAfter(x, r) ==
    LET cut == IF r = NoChunk THEN child
               ELSE [t \in Chunk |-> Redirect(child[t], r, NoChunk)]
    IN  [t \in Chunk |->
            IF t = r THEN cut[x]
            ELSE IF t = x THEN [k \in 0 .. 1 |-> NoChunk]
            ELSE Redirect(cut[t], x, r)]

Unlink(x) ==
    LET r    == Replacement(x)
        i    == index[x]
        node == parent[x] # NoChunk
    IN  /\ x \in Binned
        /\ fd' = [fd EXCEPT ![bk[x]] = fd[x], ![x] = x]
        /\ bk' = [bk EXCEPT ![fd[x]] = bk[x], ![x] = x]
        /\ size' = [size EXCEPT ![x] = 0]
        /\ index' = [index EXCEPT ![x] = 0]
        /\ child' = IF node THEN ChildrenAfter(x, r) ELSE child
        /\ parent' = [t \in Chunk |->
                         IF t = x THEN NoChunk
                         ELSE IF node /\ t = r THEN parent[x]
                         ELSE IF node /\ parent[t] = x THEN r
                         ELSE parent[t]]
        /\ treebins' = IF treebins[i] = x THEN [treebins EXCEPT ![i] = r] ELSE treebins
        /\ treemap' = IF treebins[i] = x /\ r = NoChunk THEN treemap \ {i} ELSE treemap

Next ==
    \/ \E x \in Chunk, s \in ChunkSizes : InsertRoot(x, s) \/ InsertLeaf(x, s) \/ InsertRing(x, s)
    \/ \E x \in Chunk : Unlink(x)

Spec == Init /\ [][Next]_vars

----------------------------------------------------------------------------
(* The searches.                                                           *)

leftmost_child(t) == IF child[t][0] # NoChunk THEN child[t][0] ELSE child[t][1]

\* The nodes on the way down to the left.
LeftPath(t) ==
    LET down[d \in 0 .. Bits] ==
            IF d = 0 THEN t
            ELSE LET r == down[d - 1] IN IF r = NoChunk THEN NoChunk ELSE leftmost_child(r)
    IN  {down[d] : d \in 0 .. Bits} \ {NoChunk}

\* The difference of two size_t.
Minus(a, b) == (a + Two[Bits] - b) % Two[Bits]

\* Of the nodes in a set, the one that leaves the smallest remainder under limit.
Best(nodes, nb, limit) ==
    LET fits == {t \in nodes : Minus(size[t], nb) < limit}
    IN  IF fits = {} THEN NoChunk
        ELSE CHOOSE t \in fits : \A u \in fits : Minus(size[t], nb) <= Minus(size[u], nb)

\* The root of the first non-empty bin after bin i.
NextRoot(i) ==
    LET marked == {j \in treemap : j > i}
    IN  IF marked = {} THEN NoChunk ELSE treebins[CHOOSE j \in marked : \A k \in marked : j <= k]

\* Mutant: the subtree is the first that was not taken, not the last.
UntakenFirst(nb) ==
    LET path == Path(nb)
        i == compute_tree_index(nb)
        left == {d \in Depths(path) : /\ size[path[d]] # nb /\ Direction(nb, i, d) = 0
                                      /\ child[path[d]][1] # NoChunk}
    IN  IF left = {} THEN NoChunk ELSE child[path[CHOOSE d \in left : \A e \in left : d <= e]][1]

\* The deepest right subtree that the way of nb did not take.
Untaken(nb) ==
    LET path == Path(nb)
        i == compute_tree_index(nb)
        left == {d \in Depths(path) : /\ size[path[d]] # nb /\ Direction(nb, i, d) = 0
                                      /\ child[path[d]][1] # NoChunk}
    IN  IF left = {} THEN NoChunk ELSE child[path[Deepest(left)]][1]

\* The nodes on the path and in the subtree where all sizes exceed nb; if
\* neither gives anything, the next bin.
tmalloc_large(nb) ==
    LET path   == {Path(nb)[d] : d \in Depths(Path(nb))}
        onPath == Best(path, nb, Minus(0, nb))
        rest   == IF Untaken(nb) # NoChunk THEN Untaken(nb)
                  ELSE IF onPath = NoChunk THEN NextRoot(compute_tree_index(nb)) ELSE NoChunk
    IN  Best(path \cup LeftPath(rest), nb, Minus(0, nb))

\* The smallest chunk there is; called when some tree bin is marked.
tmalloc_small ==
    LET i == CHOOSE j \in treemap : \A k \in treemap : j <= k
    IN  Best(LeftPath(treebins[i]), 0, Two[Bits])

----------------------------------------------------------------------------
(* Properties.                                                             *)

Nodes == {x \in Binned : parent[x] # NoChunk}

Below(x) ==
    LET level[d \in 0 .. Bits] ==
            (IF d = 0 THEN {x} ELSE {child[t][k] : t \in level[d - 1], k \in 0 .. 1}) \ {NoChunk}
    IN  UNION {level[d] : d \in 0 .. Bits}

\* do_check_tree and do_check_treebin: the links agree in both directions, every
\* node is reached from the root of its bin, each binned chunk is in a ring with
\* one node of its size, and left of a node all sizes are smaller than right of it.
TreeChecks ==
    /\ \A i \in Bins : i \in treemap <=> treebins[i] # NoChunk
    /\ Nodes = UNION {Below(treebins[i]) : i \in Bins}
    /\ \A x \in Binned :
          /\ bk[fd[x]] = x /\ fd[bk[x]] = x /\ size[fd[x]] = size[x]
          /\ \E t \in Nodes : size[t] = size[x] /\ \A u \in Nodes : size[u] = size[x] => u = t
          /\ index[x] = compute_tree_index(size[x])
    /\ \A t \in Nodes :
          /\ IF parent[t] = Bin THEN treebins[index[t]] = t ELSE \E k \in 0 .. 1 : child[parent[t]][k] = t
          /\ \A l \in Below(child[t][0]), r \in Below(child[t][1]) : size[l] < size[r]

\* The chunks of size s, the node of the tree first, then the one used next.
Queue(s) ==
    LET queue[j \in 1 .. Cardinality({x \in Binned : size[x] = s})] ==
            IF j = 1 THEN CHOOSE t \in Nodes : size[t] = s ELSE bk[queue[j - 1]]
    IN  queue

B == INSTANCE HeapChunks WITH
        Granularity <- Two[Bits], Regions <- 1, TrimThreshold <- 0, ReleaseRate <- 1,
        MinLarge <- MinLarge

AsHeap == [bin |-> [s \in B!Sizes |-> Queue(s)], aborted |-> FALSE]

\* Insertion and removal do to the queues what HeapChunks says: first in, first
\* out for each size, and no chunk is lost when nodes are replaced.
ImplementsBins ==
    [][\E x \in Chunk :
          \/ \E s \in ChunkSizes : AsHeap' = B!insert_large_chunk(AsHeap, x, s)
          \/ AsHeap' = B!unlink_large_chunk(AsHeap, x, size[x])]_vars

\* The search of malloc for a large request finds the oldest chunk of the
\* smallest sufficient size, and fails only if there is none; the search for a
\* small request finds the oldest of the smallest chunks.
BestFit ==
    /\ \A nb \in LargeSizes :
           tmalloc_large(nb) = IF B!LargeFrom(AsHeap, nb) = {} THEN NoChunk
                               ELSE Head(Queue(B!Smallest(B!LargeFrom(AsHeap, nb))))
    /\ Binned # {} => tmalloc_small = Head(Queue(B!Smallest(B!LargeFrom(AsHeap, MinLarge))))
=============================================================================
