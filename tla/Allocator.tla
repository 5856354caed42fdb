----------------------------- MODULE Allocator -----------------------------
(***************************************************************************)
(* What a heap promises its users (src/turf/impl/Heap_DL.h): the blocks it *)
(* has given out never overlap.  held says how much each user block owns.  *)
(***************************************************************************)
EXTENDS Naturals

CONSTANT Space   \* the addresses

VARIABLE held

Init == held = <<>>

Span(p, s) == p .. p + s - 1

\* A block of s at p keeps clear of all blocks but those in except.
Clear(p, s, except) ==
    /\ Span(p, s) \subseteq Space
    /\ \A q \in DOMAIN held \ except : Span(p, s) \cap Span(q, held[q]) = {}

Without(ps) == [q \in DOMAIN held \ ps |-> held[q]]
With(h, p, s) == [q \in DOMAIN h \cup {p} |-> IF q = p THEN s ELSE h[q]]

Alloc(p, s) == Clear(p, s, {}) /\ held' = With(held, p, s)

\* Two blocks at once, next to each other.
AllocPair(p, s, t) == Clear(p, s + t, {}) /\ held' = With(With(held, p, s), p + s, t)

Free(ps) == held' = Without(ps)

\* In place: the block grows or shrinks.
Resize(p, s) == p \in DOMAIN held /\ Clear(p, s, {p}) /\ held' = With(held, p, s)

\* To a place clear of the old one, which the contents are copied from.
Move(p, q, s) == Clear(q, s, {}) /\ held' = With(Without({p}), q, s)

\* Whatever block a step adds or changes is one that is held after it.
Next ==
    \/ \E ps \in SUBSET DOMAIN held : Free(ps)
    \/ \E q \in DOMAIN held' :
          \/ Alloc(q, held'[q])
          \/ Resize(q, held'[q])
          \/ \E p \in DOMAIN held : Move(p, q, held'[q])
          \/ \E r \in DOMAIN held' : AllocPair(q, held'[q], held'[r])

Spec == Init /\ [][Next]_held
=============================================================================
