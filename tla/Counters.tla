------------------------------ MODULE Counters ------------------------------
(***************************************************************************)
(* turf::Trace_Counters: groups of counters register themselves in a list  *)
(* when they are constructed, on whatever thread that happens, and a dump  *)
(* walks the list.  Everything is Relaxed: a dump on another thread that   *)
(* was not joined may find the m_next of a group as it was before.         *)
(***************************************************************************)
EXTENDS Naturals

CONSTANTS
    Groups,    \* the TraceGroups
    Dumper,    \* the thread that dumps, and constructs groups before it does
    Loader,    \* another thread that constructs groups
    NoGroup    \* the null pointer

CountersAssumption == NoGroup \notin Groups /\ Dumper # Loader

VARIABLES
    owner,     \* the thread that constructs a group
    first,     \* m_firstGroup
    next,      \* m_next of every group
    stale,     \* the values m_next has had before, that another thread may see
    place,     \* of each group: where its addGroup is
    expected,  \* oldHead of a running addGroup
    used,      \* the groups with a counter the dumper has incremented
    walk,      \* the dump: the group it is at, the groups to see, those printed
    joined     \* the dumper has joined the loader

vars == <<owner, first, next, stale, place, expected, used, walk, joined>>

NotWalking == [at |-> NoGroup, due |-> {}, owed |-> {}, seen |-> {}, printed |-> {}, on |-> FALSE]

Start(owners) ==
    /\ owner = owners
    /\ first = NoGroup
    /\ next = [g \in Groups |-> NoGroup]
    /\ stale = [g \in Groups |-> {}]
    /\ place = [g \in Groups |-> "unborn"]
    /\ expected = [g \in Groups |-> NoGroup]
    /\ used = {}
    /\ walk = NotWalking
    /\ joined = FALSE

Init == \E owners \in [Groups -> {Dumper, Loader}] : Start(owners)

Busy(t) == \E g \in Groups : owner[g] = t /\ place[g] \in {"linking", "exchanging"}

\* The constructor: m_next is null, and addGroup loads the head.
Construct(g) ==
    /\ place[g] = "unborn" /\ ~Busy(owner[g])
    /\ IF owner[g] = Dumper THEN ~walk.on ELSE ~joined
    /\ expected' = [expected EXCEPT ![g] = first]
    /\ place' = [place EXCEPT ![g] = "linking"]
    /\ UNCHANGED <<owner, first, next, stale, used, walk, joined>>

SetNext(g) ==
    /\ place[g] = "linking"
    /\ next' = [next EXCEPT ![g] = expected[g]]
    /\ stale' = [stale EXCEPT ![g] = @ \cup {next[g]}]
    /\ place' = [place EXCEPT ![g] = "exchanging"]
    /\ UNCHANGED <<owner, first, expected, used, walk, joined>>

\* Mutant: a failed exchange is repeated without setting m_next again.
ExchangeFailsKeepsNext(g) ==
    /\ place[g] = "exchanging"
    /\ expected' = [expected EXCEPT ![g] = first]
    /\ UNCHANGED <<owner, first, next, stale, place, used, walk, joined>>

\* The weak exchange fails if the head is another one, or for nothing: oldHead
\* is the head it has found, and the loop sets m_next again.
ExchangeFails(g) ==
    /\ place[g] = "exchanging"
    /\ expected' = [expected EXCEPT ![g] = first]
    /\ place' = [place EXCEPT ![g] = "linking"]
    /\ UNCHANGED <<owner, first, next, stale, used, walk, joined>>

Exchange(g) ==
    /\ place[g] = "exchanging" /\ first = expected[g]
    /\ first' = g
    /\ place' = [place EXCEPT ![g] = "listed"]
    /\ UNCHANGED <<owner, next, stale, expected, used, walk, joined>>

\* TURF_TRACE, between dumps.
Trace(g) ==
    /\ place[g] # "unborn" /\ g \notin used /\ ~walk.on
    /\ used' = used \cup {g}
    /\ UNCHANGED <<owner, first, next, stale, place, expected, walk, joined>>

\* The dumper joins the loader, whose writes it then sees.
JoinLoader ==
    /\ ~joined /\ ~Busy(Loader) /\ ~walk.on
    /\ joined' = TRUE
    /\ UNCHANGED <<owner, first, next, stale, place, expected, used, walk>>

\* dumpStats: the groups it owes are those whose constructors have returned
\* on this thread, or on one it has joined.
BeginDump ==
    /\ ~walk.on /\ ~Busy(Dumper)
    /\ LET due == {g \in Groups : place[g] = "listed" /\ (joined \/ owner[g] = Dumper)}
       IN  walk' = [at |-> first, due |-> due, owed |-> due \cap used,
                    seen |-> {}, printed |-> {}, on |-> TRUE]
    /\ UNCHANGED <<owner, first, next, stale, place, expected, used, joined>>

\* What the dumper may read from the m_next of a group.
Seen(g) == {next[g]} \cup (IF joined \/ owner[g] = Dumper THEN {} ELSE stale[g])

\* dumpIfUsed, and on to the next group.
Dumped(g) ==
    [walk EXCEPT !.at = g, !.seen = @ \cup {walk.at}, !.printed = @ \cup ({walk.at} \cap used)]

DumpGroup ==
    /\ walk.on /\ walk.at # NoGroup
    /\ \E g \in Seen(walk.at) : walk' = Dumped(g)
    /\ UNCHANGED <<owner, first, next, stale, place, expected, used, joined>>

EndDump ==
    /\ walk.on /\ walk.at = NoGroup
    /\ walk' = NotWalking
    /\ UNCHANGED <<owner, first, next, stale, place, expected, used, joined>>

Next ==
    \/ \E g \in Groups :
           Construct(g) \/ SetNext(g) \/ ExchangeFails(g) \/ Exchange(g) \/ Trace(g)
    \/ JoinLoader \/ BeginDump \/ DumpGroup \/ EndDump

(***************************************************************************)
(* What the list promises.                                                 *)
(***************************************************************************)
\* The groups from x on: those in every set that has x, and the next of
\* each of its members.
From(x) ==
    {g \in Groups :
        \A set \in SUBSET Groups :
            (/\ x # NoGroup => x \in set
             /\ \A h \in set : next[h] # NoGroup => next[h] \in set) => g \in set}

Linked == From(first)

\* No group is lost to two constructors racing for the head, none is listed
\* before it is linked, and a dump walks every group of its own thread and of
\* those it has joined, and prints those in use, if it meets no group of a thread
\* it has not joined.
EveryGroupListed ==
    /\ Linked = {g \in Groups : place[g] = "listed"}
    /\ (walk.on /\ walk.at = NoGroup /\ \A g \in walk.seen : joined \/ owner[g] = Dumper)
           => (walk.due \subseteq walk.seen /\ walk.owed \subseteq walk.printed)
=============================================================================
