------------------------------- MODULE MemLog -------------------------------
(***************************************************************************)
(* The in-memory trace log (src/turf/impl/Trace_MemLog.h and .cpp): a      *)
(* linked list of pages of event slots.  Loggers claim a slot of the tail  *)
(* page with one atomic fetch-and-add; only when the page is full do they  *)
(* take a mutex, look again, and append a page; when the log has its full  *)
(* number of pages the oldest one is deleted.                              *)
(*                                                                         *)
(* Each atomic access, each entry to and exit from the mutex and the plain *)
(* write of the event are steps of their own.  An event is its thread and  *)
(* the number of its call.  Page numbers are the order of allocation.      *)
(***************************************************************************)
EXTENDS Integers, Sequences, FiniteSets

CONSTANTS
    Threads, NoThread,
    EventsPerPage, MaxNumPages,
    MaxLogs,    \* bound on the calls of log() per thread
    MayStall    \* may a logger still be using a page when it is deleted?

ASSUME ThreadsAssumption == IsFiniteSet(Threads) /\ NoThread \notin Threads
ASSUME PageAssumption == EventsPerPage \in Nat \ {0} /\ MaxNumPages \in Nat \ {0}
ASSUME BoundAssumption == MaxLogs \in Nat /\ MayStall \in BOOLEAN

VARIABLES
    pages,        \* every page allocated so far: its next, index and events
    m_head, m_tail, m_numPages,
    owner,        \* of m_mutex
    pc, page, slot, \* where each logger is, the page and the slot it works on
    calls         \* how many calls of log() each thread has made

log  == <<pages, m_head, m_tail, m_numPages>>
mine == <<page, slot>>
vars == <<log, owner, pc, mine, calls>>

None == 0         \* the null page
Free == [tid |-> NoThread, call |-> 0]
Slots == 0 .. EventsPerPage - 1

NewPage(reserved) == [next |-> None, index |-> reserved, events |-> [i \in Slots |-> Free]]

Pcs == {"idle", "claim", "lock", "recheck", "retry", "append", "publish", "trim", "unlock", "write"}

Init ==
    /\ pages = <<NewPage(0)>>
    /\ m_head = 1 /\ m_tail = 1 /\ m_numPages = 1
    /\ owner = NoThread
    /\ pc = [t \in Threads |-> "idle"]
    /\ page = [t \in Threads |-> None] /\ slot = [t \in Threads |-> 0]
    /\ calls = [t \in Threads |-> 0]

Go(t, from, to) == pc[t] = from /\ pc' = [pc EXCEPT ![t] = to]

----------------------------------------------------------------------------
(* log()                                                                   *)

LoadTail(t) ==
    /\ Go(t, "idle", "claim")
    /\ calls[t] < MaxLogs /\ calls' = [calls EXCEPT ![t] = @ + 1]
    /\ page' = [page EXCEPT ![t] = m_tail]
    /\ UNCHANGED <<log, owner, slot>>

\* index.fetchAdd(1) on page p; the caller gets slot i if the page has it.
Bump(p) == pages' = [pages EXCEPT ![p].index = @ + 1]

Claim(t) ==
    /\ Go(t, "claim", "write")
    /\ pages[page[t]].index < EventsPerPage
    /\ slot' = [slot EXCEPT ![t] = pages[page[t]].index]
    /\ Bump(page[t])
    /\ UNCHANGED <<m_head, m_tail, m_numPages, owner, page, calls>>

ClaimFull(t) ==
    /\ Go(t, "claim", "lock")
    /\ ~(pages[page[t]].index < EventsPerPage)
    /\ Bump(page[t])
    /\ UNCHANGED <<m_head, m_tail, m_numPages, owner, mine, calls>>

\* The plain stores to the claimed event, and the return.
Write(t) ==
    /\ Go(t, "write", "idle")
    /\ pages' = [pages EXCEPT ![page[t]].events[slot[t]] = [tid |-> t, call |-> calls[t]]]
    /\ UNCHANGED <<m_head, m_tail, m_numPages, owner, mine, calls>>

----------------------------------------------------------------------------
(* allocateEventFromNewPage()                                              *)

\* Mutant: the slow path without its LockGuard.
LockWithoutMutex(t) ==
    /\ Go(t, "lock", "recheck")
    /\ owner' = t
    /\ UNCHANGED <<log, mine, calls>>

Lock(t) ==
    /\ Go(t, "lock", "recheck")
    /\ owner = NoThread /\ owner' = t
    /\ UNCHANGED <<log, mine, calls>>

\* Mutant: the second check of double-checked locking is left out.
RecheckNothing(t) ==
    /\ Go(t, "recheck", "append")
    /\ page' = [page EXCEPT ![t] = m_tail]
    /\ UNCHANGED <<log, owner, slot, calls>>

\* The load of the tail's index: another thread may have appended a page.
Recheck(t) ==
    /\ pc[t] = "recheck"
    /\ page' = [page EXCEPT ![t] = m_tail]
    /\ pc' = [pc EXCEPT ![t] =
                IF pages[m_tail].index < EventsPerPage THEN "retry" ELSE "append"]
    /\ UNCHANGED <<log, owner, slot, calls>>

\* The fetch-and-add after it, which lock-free loggers may have overtaken.
Retry(t) ==
    /\ pc[t] = "retry"
    /\ IF pages[page[t]].index < EventsPerPage
       THEN /\ pc' = [pc EXCEPT ![t] = "unlock"]
            /\ slot' = [slot EXCEPT ![t] = pages[page[t]].index]
       ELSE /\ pc' = [pc EXCEPT ![t] = "append"]
            /\ UNCHANGED slot
    /\ Bump(page[t])
    /\ UNCHANGED <<m_head, m_tail, m_numPages, owner, page, calls>>

\* Mutant: the first slot of the new page is not reserved.
AppendUnreserved(t) ==
    /\ Go(t, "append", "publish")
    /\ pages' = Append([pages EXCEPT ![page[t]].next = Len(pages) + 1], NewPage(0))
    /\ page' = [page EXCEPT ![t] = Len(pages) + 1] /\ slot' = [slot EXCEPT ![t] = 0]
    /\ UNCHANGED <<m_head, m_tail, m_numPages, owner, calls>>

\* new Page with its first slot reserved, linked behind the old tail.
AppendPage(t) ==
    /\ Go(t, "append", "publish")
    /\ pages' = Append([pages EXCEPT ![page[t]].next = Len(pages) + 1], NewPage(1))
    /\ page' = [page EXCEPT ![t] = Len(pages) + 1] /\ slot' = [slot EXCEPT ![t] = 0]
    /\ UNCHANGED <<m_head, m_tail, m_numPages, owner, calls>>

\* m_tail.store(newTail): from here on other loggers find the new page.
Publish(t) ==
    /\ Go(t, "publish", "trim")
    /\ m_tail' = page[t]
    /\ UNCHANGED <<pages, m_head, m_numPages, owner, mine, calls>>

\* Loggers that will still access page p.
Using(p) == {t \in Threads : pc[t] \in {"claim", "write"} /\ page[t] = p}

\* Mutant: the page count goes up although a page went away.
TrimCountsAlways(t) ==
    /\ Go(t, "trim", "unlock")
    /\ IF m_numPages >= MaxNumPages
       THEN /\ MayStall \/ Using(m_head) = {}
            /\ m_head' = pages[m_head].next
       ELSE UNCHANGED m_head
    /\ m_numPages' = m_numPages + 1
    /\ UNCHANGED <<pages, m_tail, owner, mine, calls>>

\* The oldest page is deleted once there are MaxNumPages already.
Trim(t) ==
    /\ Go(t, "trim", "unlock")
    /\ IF m_numPages >= MaxNumPages
       THEN /\ MayStall \/ Using(m_head) = {}
            /\ m_head' = pages[m_head].next /\ UNCHANGED m_numPages
       ELSE m_numPages' = m_numPages + 1 /\ UNCHANGED m_head
    /\ UNCHANGED <<pages, m_tail, owner, mine, calls>>

\* Mutant: an early return that leaves the mutex locked.
UnlockForgotten(t) ==
    /\ Go(t, "unlock", "write")
    /\ UNCHANGED <<log, owner, mine, calls>>

Unlock(t) ==
    /\ Go(t, "unlock", "write")
    /\ owner' = NoThread
    /\ UNCHANGED <<log, mine, calls>>

Step(t) ==
    \/ Claim(t) \/ ClaimFull(t) \/ Write(t)
    \/ Lock(t) \/ Recheck(t) \/ Retry(t) \/ AppendPage(t) \/ Publish(t) \/ Trim(t) \/ Unlock(t)

Next == \E t \in Threads : LoadTail(t) \/ Step(t)

Spec == Init /\ [][Next]_vars

\* A thread inside log() keeps running.
FairSpec == Spec /\ \A t \in Threads : WF_vars(Step(t))

----------------------------------------------------------------------------
(* Reading the log: the iterator, dumpEntireLog and dumpStats.             *)

Begin == [m_page |-> m_head, m_index |-> 0]

End == [m_page |-> m_tail, m_index |-> pages[m_tail].index]

\* Mutant: the iterator steps onto the slot behind the page.
AdvanceTooFar(it) ==
    IF it.m_index + 1 <= EventsPerPage
    THEN [it EXCEPT !.m_index = @ + 1]
    ELSE IF pages[it.m_page].next # None
         THEN [m_page |-> pages[it.m_page].next, m_index |-> 0]
         ELSE [it EXCEPT !.m_index = pages[it.m_page].index]

\* Iterator::operator++
Advance(it) ==
    IF it.m_index + 1 < EventsPerPage
    THEN [it EXCEPT !.m_index = @ + 1]
    ELSE IF pages[it.m_page].next # None
         THEN [m_page |-> pages[it.m_page].next, m_index |-> 0]
         ELSE [it EXCEPT !.m_index = pages[it.m_page].index]

\* Where a loop from begin() is after each of its first n steps.
Iterate(n) ==
    LET at[k \in 0 .. n] ==
            IF k = 0 THEN Begin ELSE IF at[k - 1] = End THEN End ELSE Advance(at[k - 1])
    IN  at

\* The pages that can be reached from m_head along next.
Retained ==
    LET at[k \in 0 .. Len(pages)] ==
            IF k = 0 THEN m_head ELSE IF at[k - 1] = None THEN None ELSE pages[at[k - 1]].next
    IN  {at[k] : k \in 0 .. Len(pages)} \ {None}

\* The slots dumpEntireLog prints.
Dumped ==
    {it \in [m_page : Retained, m_index : Slots] : it.m_index < pages[it.m_page].index}

\* dumpStats, which holds the mutex while it adds up.
Stats == (m_numPages - 1) * EventsPerPage + pages[m_tail].index

----------------------------------------------------------------------------
(* Properties.                                                             *)

\* The calls made so far: of whom, and which of his.
Made == {c \in Threads \X (1 .. MaxLogs) : c[2] <= calls[c[1]]}

Quiet == \A t \in Threads : pc[t] = "idle"

Event(it) == pages[it.m_page].events[it.m_index]

\* The slots that hold an event, and those of them still in the log.
Events == {it \in [m_page : 1 .. Len(pages), m_index : Slots] : Event(it) # Free}

Written == {it \in Events : it.m_page \in Retained}

\* A slot once claimed belongs to one call: no two loggers ever write the same
\* slot, whichever of the two fetch-and-adds or the new page gave it to them.
Claimed == {"publish", "trim", "unlock", "write"}

SlotHasOneWriter ==
    \A t \in Threads : pc[t] \in Claimed =>
        /\ pages[page[t]].events[slot[t]] = Free
        /\ \A u \in Threads \ {t} : pc[u] \in Claimed =>
              <<page[t], slot[t]>> # <<page[u], slot[u]>>

\* Outside the critical section the list is what the next reader of it relies
\* on: m_numPages pages from m_head to m_tail, all full but the last.  Who may
\* still be using a page that has left the list is not said here.
PageChain ==
    owner = NoThread =>
        /\ Cardinality(Retained) = m_numPages
        /\ m_tail \in Retained /\ pages[m_tail].next = None
        /\ \A p \in Retained \ {m_tail} : pages[p].index >= EventsPerPage

\* "Iterators are meant to be used only after all logging is complete"
\* (Trace_MemLog.h:83): then a loop from begin() to end() visits every event of
\* the retained pages once, and no empty slot, also when the last page is full.
IteratorVisitsLog ==
    Quiet => LET n == Cardinality(Written)
                 at == Iterate(n)
             IN  /\ at[n] = End /\ \A k \in 0 .. n - 1 : at[k] # End
                 /\ {at[k] : k \in 0 .. n - 1} = Written
                 /\ Dumped = Written

\* Every call is in the log or was on a page that was full when it was deleted,
\* and dumpStats reports exactly what is in the log; while logging goes on it
\* may also count the claims that failed on the last page, one for each logger
\* that waits to append the next.
NothingElseLost ==
    /\ owner = NoThread =>
           Stats <= m_numPages * EventsPerPage
                        + Cardinality({t \in Threads : pc[t] = "lock" /\ page[t] = m_tail})
    /\ Quiet =>
           /\ Stats = Cardinality(Written)
           /\ Cardinality(Made) = Cardinality(Written) + EventsPerPage * (Len(pages) - m_numPages)

\* The events of one thread are in the order in which it made them.
Before(a, b) == a.m_page < b.m_page \/ (a.m_page = b.m_page /\ a.m_index < b.m_index)

ProgramOrder ==
    \A a, b \in Events :
        Before(a, b) /\ Event(a).tid = Event(b).tid => Event(a).call < Event(b).call

\* While anyone is inside log() some call eventually returns.
Returned == Cardinality({c \in Made : c[2] < calls[c[1]] \/ pc[c[1]] = "idle"})

LoggingMakesProgress ==
    \A n \in 0 .. Cardinality(Threads) * MaxLogs :
        (Returned = n /\ ~Quiet) ~> (Returned > n)

\* What logging into a page takes for granted: the page is still in the log
\* ("Store events in a linked list of pages.", Trace_MemLog.h:54).
NoStaleAccess == \A t \in Threads : pc[t] \in {"claim", "write"} => page[t] >= m_head
=============================================================================
