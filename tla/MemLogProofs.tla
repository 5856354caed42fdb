---------------------------- MODULE MemLogProofs ----------------------------
(***************************************************************************)
(* Theorems about MemLog: the in-memory trace log, for any number of       *)
(* loggers, of calls, of pages and of events in a page, whether or not a   *)
(* logger may still be using a page that is deleted.                       *)
(***************************************************************************)
EXTENDS MemLog, FiniteSetTheorems, TLAPS

----------------------------------------------------------------------------
(* The inductive invariant.                                                *)

Entries == [tid : Threads \cup {NoThread}, call : Nat]
PageSet == [next : Nat, index : Nat, events : [Slots -> Entries]]

TypeOK ==
    /\ pages \in Seq(PageSet)
    /\ m_head \in Nat /\ m_tail \in Nat /\ m_numPages \in Nat
    /\ owner \in Threads \cup {NoThread}
    /\ pc \in [Threads -> Pcs]
    /\ page \in [Threads -> Nat] /\ slot \in [Threads -> Slots]
    /\ calls \in [Threads -> 0 .. MaxLogs]

\* Where the mutex is held, and by whom.
Critical == {"recheck", "retry", "append", "publish", "trim", "unlock"}

OneInside == \A t \in Threads : pc[t] \in Critical <=> owner = t

OwnerAt(places) == \E t \in Threads : owner = t /\ pc[t] \in places

\* The list: every page behind the one allocated before it, all full but the
\* last; m_tail is behind by the page not yet published, m_numPages by the
\* page not yet counted.
Linked ==
    /\ \A p \in 1 .. Len(pages) : pages[p].next = IF p < Len(pages) THEN p + 1 ELSE None
    /\ \A p \in 1 .. Len(pages) : p < Len(pages) => pages[p].index >= EventsPerPage
    /\ 1 <= m_head /\ m_head <= m_tail
    /\ 1 <= m_numPages /\ m_numPages <= MaxNumPages
    /\ IF OwnerAt({"publish"}) THEN m_tail + 1 = Len(pages) ELSE m_tail = Len(pages)
    /\ m_head + m_numPages = IF OwnerAt({"publish", "trim"}) THEN Len(pages) ELSE Len(pages) + 1

\* What a logger that is inside log() knows of its page and its calls.
Placed ==
    \A t \in Threads :
        /\ pc[t] # "idle" => page[t] \in 1 .. Len(pages) /\ 1 <= calls[t]
        /\ pc[t] # "publish" => page[t] <= m_tail
        /\ pc[t] \in {"retry", "append", "trim"} => page[t] = m_tail
        /\ pc[t] = "append" => pages[m_tail].index >= EventsPerPage
        /\ pc[t] = "publish" => page[t] = Len(pages) /\ pages[page[t]].index = 1

\* Slots are claimed below the index, and taken ones are claimed.
Counted ==
    /\ \A t \in Threads : pc[t] \in Claimed => slot[t] < pages[page[t]].index
    /\ \A p \in 1 .. Len(pages), i \in Slots :
           i < pages[p].index <=>
               \/ pages[p].events[i] # Free
               \/ \E t \in Threads : pc[t] \in Claimed /\ page[t] = p /\ slot[t] = i

\* The events of a thread are of calls that have returned, on pages up to the
\* one it is at, and before the slot that it has claimed.
Precedes(p, i, q, j) == p < q \/ (p = q /\ i < j)

InOrder ==
    \A p \in 1 .. Len(pages), i \in Slots :
        LET e == pages[p].events[i]
        IN  e # Free =>
            /\ e.tid \in Threads /\ 1 <= e.call /\ e.call <= calls[e.tid]
            /\ pc[e.tid] # "idle" => e.call < calls[e.tid]
            /\ p <= page[e.tid]
            /\ pc[e.tid] \in Claimed => Precedes(p, i, page[e.tid], slot[e.tid])

Ordered ==
    \A p, q \in 1 .. Len(pages), i, j \in Slots :
        LET d == pages[p].events[i]
            e == pages[q].events[j]
        IN  d # Free /\ e # Free /\ d.tid = e.tid /\ Precedes(p, i, q, j) => d.call < e.call

\* The event of every call that has returned is on some page.
HasReturned(t, n) == n <= calls[t] /\ (n = calls[t] => pc[t] = "idle")

Logged ==
    \A t \in Threads, n \in Nat \ {0} :
        HasReturned(t, n) =>
            \E p \in 1 .. Len(pages), i \in Slots : pages[p].events[i] = [tid |-> t, call |-> n]

\* Those who found the tail full and will take the mutex.
Waiting == {t \in Threads : pc[t] = "lock" /\ page[t] = m_tail}

Overshoot ==
    owner = NoThread \/ OwnerAt({"retry", "trim", "unlock"}) =>
        pages[m_tail].index <= EventsPerPage + Cardinality(Waiting)

IInv ==
    /\ TypeOK /\ OneInside /\ Linked /\ Placed
    /\ Counted /\ SlotHasOneWriter /\ InOrder /\ Ordered

----------------------------------------------------------------------------
(* What the actions do to the pages, seen page by page.                    *)

LEMMA Constants ==
  /\ EventsPerPage \in Nat \ {0} /\ MaxNumPages \in Nat \ {0} /\ MaxLogs \in Nat
  /\ IsFiniteSet(Threads) /\ NoThread \notin Threads
  /\ Free \in Entries
BY ThreadsAssumption, PageAssumption, BoundAssumption DEF Slots, Free, Entries

LEMMA PageType ==
  ASSUME TypeOK, NEW p \in 1 .. Len(pages)
  PROVE  /\ pages[p] \in PageSet
         /\ pages[p].next \in Nat /\ pages[p].index \in Nat
         /\ pages[p].events \in [Slots -> Entries]
<1>1. pages[p] \in PageSet
  BY DEF TypeOK
<1> QED
  BY <1>1 DEF PageSet

LEMMA SetIndex ==
  ASSUME NEW r \in PageSet, NEW n \in Nat
  PROVE  LET s == [r EXCEPT !.index = n]
         IN  s \in PageSet /\ s.index = n /\ s.next = r.next /\ s.events = r.events
BY DEF PageSet

LEMMA SetNext ==
  ASSUME NEW r \in PageSet, NEW n \in Nat
  PROVE  LET s == [r EXCEPT !.next = n]
         IN  s \in PageSet /\ s.next = n /\ s.index = r.index /\ s.events = r.events
BY DEF PageSet

LEMMA SetEvents ==
  ASSUME NEW r \in PageSet, NEW f \in [Slots -> Entries]
  PROVE  LET s == [r EXCEPT !.events = f]
         IN  s \in PageSet /\ s.next = r.next /\ s.index = r.index /\ s.events = f
BY DEF PageSet

LEMMA AppendsPage ==
  ASSUME NEW s \in Seq(PageSet), NEW x \in PageSet
  PROVE  LET t == Append(s, x)
         IN  t \in Seq(PageSet) /\ Len(t) = Len(s) + 1 /\ t[Len(s) + 1] = x /\ \A q \in 1 .. Len(s) : t[q] = s[q]
OBVIOUS

LEMMA BumpEffect ==
  ASSUME TypeOK, NEW p \in 1 .. Len(pages), Bump(p)
  PROVE  /\ pages' \in Seq(PageSet)
         /\ Len(pages') = Len(pages)
         /\ \A q \in 1 .. Len(pages) :
                /\ pages'[q].next = pages[q].next
                /\ pages'[q].events = pages[q].events
                /\ pages'[q].index = IF q = p THEN pages[q].index + 1 ELSE pages[q].index
<1>1. pages' = [pages EXCEPT ![p].index = pages[p].index + 1]
  BY DEF Bump
<1>2. pages \in Seq(PageSet) /\ \A q \in 1 .. Len(pages) : pages[q] \in PageSet
  BY DEF TypeOK
<1>3. /\ Len(pages') = Len(pages) /\ DOMAIN pages' = 1 .. Len(pages)
  BY <1>1, <1>2
<1>4. \A q \in 1 .. Len(pages) :
                /\ pages'[q] \in PageSet
                /\ pages'[q].next = pages[q].next
                /\ pages'[q].events = pages[q].events
                /\ pages'[q].index = IF q = p THEN pages[q].index + 1 ELSE pages[q].index
  <2> TAKE q \in 1 .. Len(pages)
  <2>1. pages'[q] = IF q = p THEN [pages[q] EXCEPT !.index = pages[q].index + 1] ELSE pages[q]
    BY <1>1, <1>2
  <2> QED
    <3>1. pages[q].index + 1 \in Nat
      BY PageType
    <3>2. CASE q = p
      BY <2>1, <3>1, <3>2, <1>2, SetIndex
    <3>3. CASE q # p
      BY <2>1, <3>3, <1>2
    <3> QED
      BY <3>2, <3>3
<1>5. pages' \in Seq(PageSet)
  BY <1>1, <1>2, <1>3, <1>4
<1> QED
  BY <1>3, <1>4, <1>5

LEMMA WriteEffect ==
  ASSUME TypeOK, NEW p \in 1 .. Len(pages), NEW i \in Slots, NEW e \in Entries,
         pages' = [pages EXCEPT ![p].events[i] = e]
  PROVE  /\ pages' \in Seq(PageSet)
         /\ Len(pages') = Len(pages)
         /\ \A q \in 1 .. Len(pages) :
                /\ pages'[q].next = pages[q].next
                /\ pages'[q].index = pages[q].index
                /\ \A j \in Slots : pages'[q].events[j] =
                       IF q = p /\ j = i THEN e ELSE pages[q].events[j]
<1>2. pages \in Seq(PageSet) /\ \A q \in 1 .. Len(pages) : pages[q] \in PageSet
  BY DEF TypeOK
<1>3. /\ Len(pages') = Len(pages) /\ DOMAIN pages' = 1 .. Len(pages)
  BY <1>2
<1>4. \A q \in 1 .. Len(pages) :
                /\ pages'[q] \in PageSet
                /\ pages'[q].next = pages[q].next
                /\ pages'[q].index = pages[q].index
                /\ \A j \in Slots : pages'[q].events[j] =
                       IF q = p /\ j = i THEN e ELSE pages[q].events[j]
  <2> TAKE q \in 1 .. Len(pages)
  <2>1. pages'[q] = IF q = p THEN [pages[q] EXCEPT !.events = [pages[q].events EXCEPT ![i] = e]]
                             ELSE pages[q]
    BY <1>2
  <2>2. [pages[q].events EXCEPT ![i] = e] \in [Slots -> Entries]
    BY PageType
  <2> QED
    BY <2>1, <2>2, <1>2, PageType, SetEvents
<1>5. pages' \in Seq(PageSet)
  BY <1>2, <1>3, <1>4
<1> QED
  BY <1>3, <1>4, <1>5

LEMMA AppendEffect ==
  ASSUME TypeOK, NEW p \in 1 .. Len(pages),
         pages' = Append([pages EXCEPT ![p].next = Len(pages) + 1], NewPage(1))
  PROVE  /\ pages' \in Seq(PageSet)
         /\ Len(pages') = Len(pages) + 1
         /\ pages'[Len(pages) + 1] = NewPage(1)
         /\ \A q \in 1 .. Len(pages) :
                /\ pages'[q].next = IF q = p THEN Len(pages) + 1 ELSE pages[q].next
                /\ pages'[q].index = pages[q].index
                /\ pages'[q].events = pages[q].events
<1> DEFINE linked == [pages EXCEPT ![p].next = Len(pages) + 1]
<1>2. pages \in Seq(PageSet) /\ \A q \in 1 .. Len(pages) : pages[q] \in PageSet
  BY DEF TypeOK
<1>3. /\ Len(linked) = Len(pages) /\ DOMAIN linked = 1 .. Len(pages)
  BY <1>2
<1>4. \A q \in 1 .. Len(pages) :
                /\ linked[q] \in PageSet
                /\ linked[q].next = IF q = p THEN Len(pages) + 1 ELSE pages[q].next
                /\ linked[q].index = pages[q].index
                /\ linked[q].events = pages[q].events
  <2> TAKE q \in 1 .. Len(pages)
  <2>1. linked[q] = IF q = p THEN [pages[q] EXCEPT !.next = Len(pages) + 1] ELSE pages[q]
    BY SMTT(60), <1>2
  <2>2. Len(pages) + 1 \in Nat
    BY <1>2
  <2> HIDE DEF linked
  <2> QED
    <3>1. CASE q = p
      <4> DEFINE n == Len(pages) + 1
      <4>1. n \in Nat /\ linked[q] = [pages[q] EXCEPT !.next = n]
        BY <2>1, <2>2, <3>1
      <4>2. n = Len(pages) + 1
        OBVIOUS
      <4> HIDE DEF n
      <4> QED
        BY <4>1, <4>2, <3>1, <1>2, SetNext, SMTT(60)
    <3>2. CASE q # p
      BY <2>1, <3>2, <1>2
    <3> QED
      BY <3>1, <3>2
<1>5. linked \in Seq(PageSet)
  BY <1>2, <1>3, <1>4
<1>6. NewPage(1) \in PageSet
  BY Constants DEF NewPage, PageSet, None
<1>7. pages' = Append(linked, NewPage(1)) OBVIOUS
<1> HIDE DEF linked
<1>8. \A q \in 1 .. Len(pages) : pages'[q] = linked[q]
  BY <1>3, <1>5, <1>6, <1>7
<1>9. /\ pages' \in Seq(PageSet)
      /\ Len(pages') = Len(linked) + 1
      /\ pages'[Len(linked) + 1] = NewPage(1)
  BY <1>5, <1>6, <1>7, AppendsPage
<1> QED
  BY <1>3, <1>4, <1>8, <1>9

----------------------------------------------------------------------------
(* Every action keeps the invariant.                                       *)

LEMMA Known ==
  ASSUME IInv
  PROVE  /\ m_tail \in 1 .. Len(pages) /\ m_head \in 1 .. Len(pages) /\ Len(pages) \in Nat
         /\ \A q \in 1 .. Len(pages) : pages[q].index \in Nat
         /\ \A i \in Slots : i \in Nat /\ i < EventsPerPage
<1>1. Len(pages) \in Nat /\ m_tail \in 1 .. Len(pages) /\ m_head \in 1 .. Len(pages)
  BY DEF IInv, TypeOK, Linked
<1>2. \A i \in Slots : i \in Nat /\ i < EventsPerPage
  BY Constants DEF Slots
<1> QED
  BY <1>1, <1>2, PageType DEF IInv

LEMMA KnownPlaces ==
  ASSUME IInv
  PROVE  \A u \in Threads :
             /\ pc[u] # "idle" => page[u] \in 1 .. Len(pages) /\ 1 <= calls[u]
             /\ page[u] \in Nat /\ slot[u] \in Slots /\ calls[u] \in Nat /\ calls[u] <= MaxLogs
             /\ pc[u] = "publish" => m_tail + 1 = Len(pages) /\ page[u] = Len(pages)
             /\ pc[u] \notin Critical => page[u] <= m_tail
BY Constants DEF IInv, TypeOK, Placed, Linked, OneInside, OwnerAt, Critical

LEMMA KnownClaims ==
  ASSUME IInv
  PROVE  \A u \in Threads : pc[u] \in Claimed =>
             /\ page[u] \in 1 .. Len(pages) /\ pages[page[u]].index \in Nat
             /\ slot[u] \in Slots /\ slot[u] \in Nat /\ slot[u] < pages[page[u]].index
             /\ pages[page[u]].events[slot[u]] = Free
<1>1. \A u \in Threads : pc[u] \in Claimed =>
         /\ slot[u] < pages[page[u]].index
         /\ pages[page[u]].events[slot[u]] = Free
  BY DEF IInv, Counted, SlotHasOneWriter
<1>2. \A u \in Threads : pc[u] \in Claimed => pc[u] # "idle"
  BY DEF Claimed
<1> QED
  BY <1>1, <1>2, Known, KnownPlaces

\* A step that touches no slot: neither its events nor whether it is claimed,
\* and by whom.
LEMMA SlotsUntouched ==
  ASSUME IInv,
         Len(pages') = Len(pages),
         \A q \in 1 .. Len(pages) : pages'[q].events = pages[q].events,
         \A q \in 1 .. Len(pages), i \in Slots : i < pages'[q].index <=> i < pages[q].index,
         slot' = slot,
         \A u \in Threads : /\ pc'[u] \in Claimed <=> pc[u] \in Claimed
                            /\ pc[u] \in Claimed => page'[u] = page[u]
                            /\ page'[u] \in Nat /\ page[u] <= page'[u]
                            /\ calls'[u] \in Nat /\ calls[u] <= calls'[u]
                            /\ pc'[u] # "idle" => pc[u] # "idle" \/ calls[u] < calls'[u]
  PROVE  Counted' /\ SlotHasOneWriter' /\ InOrder' /\ Ordered'
<1>1. Counted'
  <2>1. ASSUME NEW u \in Threads, pc'[u] \in Claimed
        PROVE  slot'[u] < pages'[page'[u]].index
    BY <2>1, KnownClaims
  <2>2. ASSUME NEW p \in 1 .. Len(pages), NEW i \in Slots
        PROVE  i < pages'[p].index <=>
                  \/ pages'[p].events[i] # Free
                  \/ \E u \in Threads : pc'[u] \in Claimed /\ page'[u] = p /\ slot'[u] = i
    <3>1. i < pages[p].index <=>
                  \/ pages[p].events[i] # Free
                  \/ \E u \in Threads : pc[u] \in Claimed /\ page[u] = p /\ slot[u] = i
      BY DEF IInv, Counted
    <3>2. \A u \in Threads : pc'[u] \in Claimed /\ page'[u] = p /\ slot'[u] = i
                     <=> pc[u] \in Claimed /\ page[u] = p /\ slot[u] = i
      OBVIOUS
    <3> QED
      BY <3>1, <3>2
  <2> QED
    BY <2>1, <2>2 DEF Counted
<1>2. SlotHasOneWriter'
  <2>1. ASSUME NEW u \in Threads, pc'[u] \in Claimed
        PROVE  pages'[page'[u]].events[slot'[u]] = Free
    BY <2>1, KnownClaims
  <2>2. ASSUME NEW u \in Threads, NEW v \in Threads \ {u}, pc'[u] \in Claimed, pc'[v] \in Claimed
        PROVE  ~(page'[u] = page'[v] /\ slot'[u] = slot'[v])
    BY <2>2 DEF IInv, SlotHasOneWriter
  <2> QED
    BY <2>1, <2>2 DEF SlotHasOneWriter
<1>3. InOrder'
  <2>1. ASSUME NEW p \in 1 .. Len(pages), NEW i \in Slots, pages[p].events[i] # Free
        PROVE  LET e == pages[p].events[i]
               IN  /\ e.tid \in Threads /\ 1 <= e.call /\ e.call <= calls'[e.tid]
                   /\ pc'[e.tid] # "idle" => e.call < calls'[e.tid]
                   /\ p <= page'[e.tid]
                   /\ pc'[e.tid] \in Claimed => Precedes(p, i, page'[e.tid], slot'[e.tid])
    <3> DEFINE e == pages[p].events[i]
    <3>1. /\ e.tid \in Threads /\ 1 <= e.call /\ e.call <= calls[e.tid]
          /\ pc[e.tid] # "idle" => e.call < calls[e.tid]
          /\ p <= page[e.tid]
          /\ pc[e.tid] \in Claimed => Precedes(p, i, page[e.tid], slot[e.tid])
      BY <2>1 DEF IInv, InOrder
    <3>2. e \in Entries
      BY PageType DEF IInv
    <3>3. e.call \in Nat
      BY <3>2 DEF Entries
    <3>4. page[e.tid] \in Nat /\ calls[e.tid] \in Nat
      BY <3>1, KnownPlaces
    <3> HIDE DEF e
    <3> QED
      BY <3>1, <3>3, <3>4, SMTT(60) DEF e
  <2> QED
    BY <2>1 DEF InOrder
<1>4. Ordered'
  BY DEF IInv, Ordered
<1> QED
  BY <1>1, <1>2, <1>3, <1>4

\* A step in which t claims the first slot of its page that was not claimed.
LEMMA SlotClaimed ==
  ASSUME IInv, NEW t \in Threads, NEW i0 \in Slots,
         pc[t] # "idle", pc[t] \notin Claimed,
         page[t] \in 1 .. Len(pages), pages[page[t]].index = i0,
         Len(pages') = Len(pages),
         \A q \in 1 .. Len(pages) : pages'[q].events = pages[q].events,
         \A q \in 1 .. Len(pages) :
             pages'[q].index = IF q = page[t] THEN pages[q].index + 1 ELSE pages[q].index,
         pc'[t] \in Claimed, slot'[t] = i0,
         \A u \in Threads \ {t} : pc'[u] = pc[u] /\ slot'[u] = slot[u],
         page' = page, calls' = calls
  PROVE  Counted' /\ SlotHasOneWriter' /\ InOrder' /\ Ordered'
<1>1. /\ pages'[page[t]].index = i0 + 1 /\ i0 \in Nat
      /\ pages[page[t]].events[i0] = Free
  BY Known DEF IInv, Counted
<1>2. \A q \in 1 .. Len(pages) :
         pages[q].index \in Nat /\ pages'[q].index \in Nat /\ pages'[q].index >= pages[q].index
  BY Known
<1>e. Counted'
  <2>1. ASSUME NEW u \in Threads, pc'[u] \in Claimed
        PROVE  slot'[u] < pages'[page[u]].index
    <3>1. CASE u = t
      BY <1>1, <3>1
    <3>2. CASE u # t
      <4>1. /\ slot[u] < pages[page[u]].index /\ page[u] \in 1 .. Len(pages)
            /\ slot'[u] = slot[u] /\ slot[u] \in Nat
        BY <2>1, <3>2, KnownClaims
      <4> QED
        BY <1>2, <4>1
    <3> QED
      BY <3>1, <3>2
  <2>2. ASSUME NEW p \in 1 .. Len(pages), NEW i \in Slots
        PROVE  i < pages'[p].index <=>
                  \/ pages'[p].events[i] # Free
                  \/ \E u \in Threads : pc'[u] \in Claimed /\ page[u] = p /\ slot'[u] = i
    <3>1. CASE p = page[t] /\ i = i0
      BY <1>1, <3>1
    <3>2. CASE ~(p = page[t] /\ i = i0)
      <4>1. i < pages'[p].index <=> i < pages[p].index
        BY <3>2, Known
      <4>2. ASSUME NEW u \in Threads
            PROVE  pc'[u] \in Claimed /\ page[u] = p /\ slot'[u] = i
                     <=> pc[u] \in Claimed /\ page[u] = p /\ slot[u] = i
        BY <3>2
      <4> QED
        BY <4>1, <4>2 DEF IInv, Counted
    <3> QED
      BY <3>1, <3>2
  <2> QED
    BY <2>1, <2>2 DEF Counted
<1>f. SlotHasOneWriter'
  <2>1. ASSUME NEW u \in Threads, pc'[u] \in Claimed
        PROVE  pages'[page[u]].events[slot'[u]] = Free
    BY <1>1, <2>1, KnownClaims
  <2>2. ASSUME NEW u \in Threads, NEW v \in Threads \ {u}, pc'[u] \in Claimed, pc'[v] \in Claimed
        PROVE  ~(page[u] = page[v] /\ slot'[u] = slot'[v])
    <3>1. CASE u = t
      BY <1>1, <2>2, <3>1, KnownClaims
    <3>2. CASE v = t
      BY <1>1, <2>2, <3>2, KnownClaims
    <3>3. CASE u # t /\ v # t
      BY <2>2, <3>3 DEF IInv, SlotHasOneWriter
    <3> QED
      BY <3>1, <3>2, <3>3
  <2> QED
    BY <2>1, <2>2 DEF SlotHasOneWriter
<1>g. InOrder'
  <2>1. ASSUME NEW p \in 1 .. Len(pages), NEW i \in Slots, pages[p].events[i] # Free
        PROVE  LET e == pages[p].events[i]
               IN  /\ e.tid \in Threads /\ 1 <= e.call /\ e.call <= calls[e.tid]
                   /\ pc'[e.tid] # "idle" => e.call < calls[e.tid]
                   /\ p <= page[e.tid]
                   /\ pc'[e.tid] \in Claimed => Precedes(p, i, page[e.tid], slot'[e.tid])
    <3> DEFINE e == pages[p].events[i]
    <3>1. CASE e.tid = t
      <4>1. i < pages[p].index
        BY <2>1 DEF IInv, Counted
      <4>2. p = page[t] => i < i0
        BY <4>1
      <4>3. p \in Nat /\ page[t] \in Nat /\ i \in Nat
        BY Known
      <4> QED
        BY <1>1, <2>1, <3>1, <4>2, <4>3, SMTT(60) DEF IInv, InOrder, Precedes
    <3>2. CASE e.tid # t
      BY <2>1, <3>2 DEF IInv, InOrder
    <3> QED
      BY <3>1, <3>2
  <2> QED
    BY <2>1 DEF InOrder
<1>h. Ordered'
  BY DEF IInv, Ordered
<1> QED
  BY <1>e, <1>f, <1>g, <1>h

\* A fetch-and-add of the index leaves the list alone.
LEMMA BumpKeepsList ==
  ASSUME IInv, NEW t \in Threads, page[t] \in 1 .. Len(pages), page[t] <= m_tail, Bump(page[t]),
         m_head' = m_head, m_tail' = m_tail, m_numPages' = m_numPages,
         owner' = owner, page' = page, calls' = calls,
         \A u \in Threads \ {t} : pc'[u] = pc[u],
         pc[t] \notin {"idle", "publish", "trim"},
         \/ pc'[t] \notin {"retry", "append", "publish", "trim"}
         \/ pc'[t] = "append" /\ page[t] = m_tail /\ pages[m_tail].index >= EventsPerPage
  PROVE  Linked' /\ Placed'
<1>1. /\ Len(pages') = Len(pages)
      /\ \A q \in 1 .. Len(pages) :
             /\ pages'[q].next = pages[q].next
             /\ pages'[q].index = IF q = page[t] THEN pages[q].index + 1 ELSE pages[q].index
  BY BumpEffect DEF IInv
<1>2. \A q \in 1 .. Len(pages) :
         pages[q].index \in Nat /\ pages'[q].index \in Nat /\ pages'[q].index >= pages[q].index
  BY <1>1, Known, SMTT(60)
<1>c. Linked'
  <2>1. \A S \in {{"publish"}, {"publish", "trim"}} : OwnerAt(S)' <=> OwnerAt(S)
    BY DEF OwnerAt
  <2>2. \A p \in 1 .. Len(pages) : pages'[p].next = IF p < Len(pages) THEN p + 1 ELSE None
    BY <1>1 DEF IInv, Linked
  <2>3. \A p \in 1 .. Len(pages) : p < Len(pages) => pages'[p].index >= EventsPerPage
    <3>1. \A p \in 1 .. Len(pages) : p < Len(pages) => pages[p].index >= EventsPerPage
      BY DEF IInv, Linked
    <3> QED
      BY <1>2, <3>1, Constants
  <2> QED
    BY <1>1, <2>1, <2>2, <2>3 DEF IInv, Linked
<1>d. Placed'
  <2>1. ASSUME NEW u \in Threads
        PROVE  /\ pc'[u] # "idle" => page[u] \in 1 .. Len(pages) /\ 1 <= calls[u]
               /\ pc'[u] # "publish" => page[u] <= m_tail
               /\ pc'[u] \in {"retry", "append", "trim"} => page[u] = m_tail
               /\ pc'[u] = "append" => pages'[m_tail].index >= EventsPerPage
               /\ pc'[u] = "publish" => page[u] = Len(pages) /\ pages'[page[u]].index = 1
    <3>1. CASE u = t
      BY <1>2, <3>1, Known, KnownPlaces, Constants
    <3>2. CASE u # t
      <4>2. pc[u] = "append" => pages'[m_tail].index >= EventsPerPage
        BY <1>2, Known, Constants DEF IInv, Placed
      <4>3. pc[u] = "publish" => page[u] = Len(pages) /\ pages'[page[u]].index = 1
        <5>1. pc[u] = "publish" => page[u] # page[t] /\ page[u] \in 1 .. Len(pages)
          BY Known, KnownPlaces
        <5> QED
          BY <1>1, <5>1, KnownPlaces DEF IInv, Placed
      <4> QED
        BY <3>2, <4>2, <4>3 DEF IInv, Placed
    <3> QED
      BY <3>1, <3>2
  <2> QED
    BY <1>1, <2>1 DEF Placed
<1> QED
  BY <1>c, <1>d

LEMMA ClaimKeeps ==
  ASSUME IInv, NEW t \in Threads, Claim(t)
  PROVE  IInv'
<1> DEFINE i0 == pages[page[t]].index
<1>1. /\ page[t] \in 1 .. Len(pages) /\ page[t] <= m_tail
      /\ pc[t] = "claim" /\ i0 \in Slots /\ slot' = [slot EXCEPT ![t] = i0]
      /\ pc' = [pc EXCEPT ![t] = "write"] /\ Bump(page[t])
      /\ UNCHANGED <<m_head, m_tail, m_numPages, owner, page, calls>>
  BY Known, KnownPlaces, Constants, SMTT(60) DEF Claim, Go, Critical, Slots
<1>2. /\ pages' \in Seq(PageSet)
      /\ Len(pages') = Len(pages)
      /\ \A q \in 1 .. Len(pages) :
             /\ pages'[q].events = pages[q].events
             /\ pages'[q].index = IF q = page[t] THEN pages[q].index + 1 ELSE pages[q].index
  BY <1>1, BumpEffect DEF IInv
<1>3. i0 = pages[page[t]].index OBVIOUS
<1> HIDE DEF i0
<1>4. /\ pc' \in [Threads -> Pcs] /\ pc'[t] = "write"
      /\ \A u \in Threads \ {t} : pc'[u] = pc[u]
      /\ slot' \in [Threads -> Slots] /\ slot'[t] = i0
      /\ \A u \in Threads \ {t} : slot'[u] = slot[u]
  BY <1>1 DEF IInv, TypeOK, Pcs
<1>a. TypeOK'
  BY <1>1, <1>2, <1>4 DEF IInv, TypeOK
<1>b. OneInside'
  BY <1>1, <1>4 DEF IInv, OneInside, Critical
<1>c. Linked' /\ Placed'
  BY <1>1, <1>4, BumpKeepsList
<1>d. Counted' /\ SlotHasOneWriter' /\ InOrder' /\ Ordered'
  BY <1>1, <1>2, <1>3, <1>4, SlotClaimed DEF Claimed
<1> QED
  BY <1>a, <1>b, <1>c, <1>d DEF IInv

LEMMA ClaimFullKeeps ==
  ASSUME IInv, NEW t \in Threads, ClaimFull(t)
  PROVE  IInv'
<1>1. /\ page[t] \in 1 .. Len(pages) /\ page[t] <= m_tail
      /\ pc[t] = "claim" /\ pages[page[t]].index >= EventsPerPage
      /\ pc' = [pc EXCEPT ![t] = "lock"] /\ Bump(page[t])
      /\ UNCHANGED <<m_head, m_tail, m_numPages, owner, page, slot, calls>>
  BY Known, KnownPlaces, Constants, SMTT(60) DEF ClaimFull, Go, Critical, mine
<1>2. /\ pages' \in Seq(PageSet)
      /\ Len(pages') = Len(pages)
      /\ \A q \in 1 .. Len(pages) :
             /\ pages'[q].events = pages[q].events
             /\ pages'[q].index = IF q = page[t] THEN pages[q].index + 1 ELSE pages[q].index
  BY <1>1, BumpEffect DEF IInv
<1>3. /\ pc' \in [Threads -> Pcs] /\ pc'[t] = "lock"
      /\ \A u \in Threads \ {t} : pc'[u] = pc[u]
  BY <1>1 DEF IInv, TypeOK, Pcs
<1>4. \A q \in 1 .. Len(pages), i \in Slots : i < pages'[q].index <=> i < pages[q].index
  BY SMTT(60), <1>1, <1>2, Known, Constants
<1>a. TypeOK'
  BY <1>1, <1>2, <1>3 DEF IInv, TypeOK
<1>b. OneInside'
  BY <1>1, <1>3 DEF IInv, OneInside, Critical
<1>c. Linked' /\ Placed'
  BY <1>1, <1>3, BumpKeepsList
<1>d. Counted' /\ SlotHasOneWriter' /\ InOrder' /\ Ordered'
  BY <1>1, <1>2, <1>3, <1>4, SlotsUntouched, KnownPlaces DEF Claimed
<1> QED
  BY <1>a, <1>b, <1>c, <1>d DEF IInv

LEMMA LoadTailKeeps ==
  ASSUME IInv, NEW t \in Threads, LoadTail(t)
  PROVE  IInv'
<1>1. /\ pc[t] = "idle" /\ pc' = [pc EXCEPT ![t] = "claim"]
      /\ calls' = [calls EXCEPT ![t] = calls[t] + 1] /\ page' = [page EXCEPT ![t] = m_tail]
      /\ calls[t] + 1 \in 0 .. MaxLogs
      /\ UNCHANGED <<pages, m_head, m_tail, m_numPages, owner, slot>>
  BY KnownPlaces, Constants DEF LoadTail, Go, log
<1>2. /\ pc' \in [Threads -> Pcs] /\ pc'[t] = "claim"
      /\ \A u \in Threads \ {t} : pc'[u] = pc[u]
      /\ page' \in [Threads -> Nat] /\ page'[t] = m_tail
      /\ \A u \in Threads \ {t} : page'[u] = page[u]
      /\ calls' \in [Threads -> 0 .. MaxLogs] /\ calls'[t] = calls[t] + 1
      /\ \A u \in Threads \ {t} : calls'[u] = calls[u]
  BY <1>1 DEF IInv, TypeOK, Pcs
<1>a. TypeOK'
  BY <1>1, <1>2 DEF IInv, TypeOK
<1>b. OneInside'
  BY <1>1, <1>2 DEF IInv, OneInside, Critical
<1>c. Linked'
  <2>1. \A S \in {{"publish"}, {"publish", "trim"}} : OwnerAt(S)' <=> OwnerAt(S)
    BY <1>1, <1>2 DEF OwnerAt
  <2> QED
    BY <1>1, <2>1 DEF IInv, Linked
<1>d. Placed'
  BY <1>1, <1>2, Known, KnownPlaces DEF IInv, Placed
<1>e. Counted' /\ SlotHasOneWriter' /\ InOrder' /\ Ordered'
  <2>1. \A u \in Threads : /\ page'[u] \in Nat /\ page[u] <= page'[u]
                           /\ calls'[u] \in Nat /\ calls[u] <= calls'[u]
                           /\ pc'[u] # "idle" => pc[u] # "idle" \/ calls[u] < calls'[u]
    <3>1. page[t] <= m_tail /\ m_tail \in Nat
      BY <1>1, Known, KnownPlaces, SMTT(60) DEF Critical
    <3>2. \A u \in Threads : page[u] \in Nat /\ calls[u] \in Nat
      BY KnownPlaces
    <3> QED
      BY <1>1, <1>2, <3>1, <3>2
  <2>2. \A u \in Threads : /\ pc'[u] \in Claimed <=> pc[u] \in Claimed
                           /\ pc[u] \in Claimed => page'[u] = page[u]
    <3>1. pc[t] \notin Claimed /\ pc'[t] \notin Claimed
      BY <1>1, <1>2 DEF Claimed
    <3> QED
      BY <1>2, <3>1
  <2>3. /\ Len(pages') = Len(pages) /\ slot' = slot
        /\ \A q \in 1 .. Len(pages) : pages'[q].events = pages[q].events
        /\ \A q \in 1 .. Len(pages), i \in Slots : i < pages'[q].index <=> i < pages[q].index
    BY <1>1
  <2> QED
    BY <2>1, <2>2, <2>3, SlotsUntouched
<1> QED
  BY <1>a, <1>b, <1>c, <1>d, <1>e DEF IInv

LEMMA LockKeeps ==
  ASSUME IInv, NEW t \in Threads, Lock(t)
  PROVE  IInv'
<1>1. /\ pc[t] = "lock" /\ pc' = [pc EXCEPT ![t] = "recheck"]
      /\ owner = NoThread /\ owner' = t
      /\ UNCHANGED <<pages, m_head, m_tail, m_numPages, page, slot, calls>>
  BY DEF Lock, Go, log, mine
<1>2. /\ pc' \in [Threads -> Pcs] /\ pc'[t] = "recheck"
      /\ \A u \in Threads \ {t} : pc'[u] = pc[u]
  BY <1>1 DEF IInv, TypeOK, Pcs
<1>a. TypeOK'
  BY <1>1, <1>2 DEF IInv, TypeOK
<1>b. OneInside'
  BY <1>1, <1>2, Constants DEF IInv, OneInside, Critical
<1>c. Linked'
  <2>1. \A S \in {{"publish"}, {"publish", "trim"}} : ~OwnerAt(S)' /\ ~OwnerAt(S)
    BY <1>1, <1>2, Constants DEF OwnerAt
  <2> QED
    BY <1>1, <2>1 DEF IInv, Linked
<1>d. Placed'
  BY <1>1, <1>2 DEF IInv, Placed
<1>e. Counted' /\ SlotHasOneWriter' /\ InOrder' /\ Ordered'
  BY <1>1, <1>2, SlotsUntouched, Known, KnownPlaces DEF Claimed
<1> QED
  BY <1>a, <1>b, <1>c, <1>d, <1>e DEF IInv

LEMMA RecheckKeeps ==
  ASSUME IInv, NEW t \in Threads, Recheck(t)
  PROVE  IInv'
<1>1. /\ pc[t] = "recheck"
      /\ pc' = [pc EXCEPT ![t] = IF pages[m_tail].index < EventsPerPage THEN "retry" ELSE "append"]
      /\ page' = [page EXCEPT ![t] = m_tail]
      /\ UNCHANGED <<pages, m_head, m_tail, m_numPages, owner, slot, calls>>
  BY DEF Recheck, log
<1>2. /\ pc' \in [Threads -> Pcs] /\ pc'[t] \in {"retry", "append"}
      /\ pc'[t] = "append" => pages[m_tail].index >= EventsPerPage
      /\ \A u \in Threads \ {t} : pc'[u] = pc[u]
      /\ page' \in [Threads -> Nat] /\ page'[t] = m_tail
      /\ \A u \in Threads \ {t} : page'[u] = page[u]
  BY <1>1, Known, Constants DEF IInv, TypeOK, Pcs
<1>a. TypeOK'
  BY <1>1, <1>2 DEF IInv, TypeOK
<1>b. OneInside'
  BY <1>1, <1>2 DEF IInv, OneInside, Critical
<1>c. Linked'
  <2>1. \A S \in {{"publish"}, {"publish", "trim"}} : OwnerAt(S)' <=> OwnerAt(S)
    BY <1>1, <1>2 DEF OwnerAt
  <2> QED
    BY <1>1, <2>1 DEF IInv, Linked
<1>d. Placed'
  BY <1>1, <1>2, Known DEF IInv, Placed
<1>e. Counted' /\ SlotHasOneWriter' /\ InOrder' /\ Ordered'
  <2>1. page[t] <= m_tail
    BY <1>1 DEF IInv, Placed
  <2> QED
    BY <1>1, <1>2, <2>1, SlotsUntouched, Known, KnownPlaces DEF Claimed
<1> QED
  BY <1>a, <1>b, <1>c, <1>d, <1>e DEF IInv

LEMMA RetryKeeps ==
  ASSUME IInv, NEW t \in Threads, Retry(t)
  PROVE  IInv'
<1> DEFINE i0 == pages[page[t]].index
<1>1. /\ page[t] \in 1 .. Len(pages) /\ page[t] = m_tail /\ i0 \in Nat
      /\ pc[t] = "retry" /\ Bump(page[t])
      /\ UNCHANGED <<m_head, m_tail, m_numPages, owner, page, calls>>
  BY Known, KnownPlaces DEF Retry, IInv, Placed
<1>2. /\ pages' \in Seq(PageSet)
      /\ Len(pages') = Len(pages)
      /\ \A q \in 1 .. Len(pages) :
             /\ pages'[q].events = pages[q].events
             /\ pages'[q].index = IF q = page[t] THEN pages[q].index + 1 ELSE pages[q].index
  BY <1>1, BumpEffect DEF IInv
<1>3. \/ i0 < EventsPerPage /\ pc' = [pc EXCEPT ![t] = "unlock"] /\ slot' = [slot EXCEPT ![t] = i0]
      \/ ~(i0 < EventsPerPage) /\ pc' = [pc EXCEPT ![t] = "append"] /\ slot' = slot
  BY DEF Retry
<1>4. i0 = pages[page[t]].index OBVIOUS
<1> HIDE DEF i0
<1>5. CASE i0 < EventsPerPage
  <2>1. i0 \in Slots
    BY <1>1, <1>5, Constants DEF Slots
  <2>2. /\ pc' \in [Threads -> Pcs] /\ pc'[t] = "unlock"
        /\ \A u \in Threads \ {t} : pc'[u] = pc[u]
        /\ slot' \in [Threads -> Slots] /\ slot'[t] = i0
        /\ \A u \in Threads \ {t} : slot'[u] = slot[u]
    BY <1>3, <1>5, <2>1 DEF IInv, TypeOK, Pcs
  <2>a. TypeOK'
    BY <1>1, <1>2, <2>2 DEF IInv, TypeOK
  <2>b. OneInside'
    BY <1>1, <2>2 DEF IInv, OneInside, Critical
  <2>c. Linked' /\ Placed'
    BY <1>1, <2>2, BumpKeepsList, Known
  <2>d. Counted' /\ SlotHasOneWriter' /\ InOrder' /\ Ordered'
    BY <1>1, <1>2, <1>4, <2>1, <2>2, SlotClaimed DEF Claimed
  <2> QED
    BY <2>a, <2>b, <2>c, <2>d DEF IInv
<1>6. CASE ~(i0 < EventsPerPage)
  <2>2. /\ pc' \in [Threads -> Pcs] /\ pc'[t] = "append" /\ slot' = slot
        /\ \A u \in Threads \ {t} : pc'[u] = pc[u]
    BY <1>3, <1>6 DEF IInv, TypeOK, Pcs
  <2>3. \A q \in 1 .. Len(pages), i \in Slots : i < pages'[q].index <=> i < pages[q].index
    BY SMTT(60), <1>1, <1>2, <1>4, <1>6, Known, Constants
  <2>a. TypeOK'
    BY <1>1, <1>2, <2>2 DEF IInv, TypeOK
  <2>b. OneInside'
    BY <1>1, <2>2 DEF IInv, OneInside, Critical
  <2>c. Linked' /\ Placed'
    <3>1. pages[m_tail].index >= EventsPerPage /\ page[t] <= m_tail
      BY <1>1, <1>4, <1>6, Known, Constants
    <3> QED
      BY <1>1, <2>2, <3>1, BumpKeepsList
  <2>d. Counted' /\ SlotHasOneWriter' /\ InOrder' /\ Ordered'
    BY <1>1, <1>2, <2>2, <2>3, SlotsUntouched, KnownPlaces DEF Claimed
  <2> QED
    BY <2>a, <2>b, <2>c, <2>d DEF IInv
<1> QED
  BY <1>5, <1>6

LEMMA PublishKeeps ==
  ASSUME IInv, NEW t \in Threads, Publish(t)
  PROVE  IInv'
<1>1. /\ pc[t] = "publish" /\ pc' = [pc EXCEPT ![t] = "trim"]
      /\ m_tail' = page[t] /\ page[t] = Len(pages) /\ m_tail + 1 = Len(pages)
      /\ UNCHANGED <<pages, m_head, m_numPages, owner, page, slot, calls>>
  BY KnownPlaces DEF Publish, Go, mine
<1>2. /\ pc' \in [Threads -> Pcs] /\ pc'[t] = "trim"
      /\ \A u \in Threads \ {t} : pc'[u] = pc[u]
  BY <1>1 DEF IInv, TypeOK, Pcs
<1>3. \A u \in Threads \ {t} : pc[u] \notin Critical
  BY <1>1 DEF IInv, OneInside, Critical
<1>a. TypeOK'
  BY <1>1, <1>2, Known DEF IInv, TypeOK
<1>b. OneInside'
  BY <1>1, <1>2 DEF IInv, OneInside, Critical
<1>c. Linked'
  <2>1. owner = t /\ ~OwnerAt({"publish"})' /\ OwnerAt({"publish", "trim"})'
    BY <1>1, <1>2 DEF OwnerAt, IInv, OneInside, Critical
  <2>2. OwnerAt({"publish", "trim"})
    BY <1>1, <2>1 DEF OwnerAt
  <2> QED
    BY <1>1, <2>1, <2>2, Known DEF IInv, Linked
<1>d. Placed'
  BY <1>1, <1>2, <1>3, Known, KnownPlaces DEF IInv, Placed, Critical
<1>e. Counted' /\ SlotHasOneWriter' /\ InOrder' /\ Ordered'
  BY <1>1, <1>2, SlotsUntouched, Known, KnownPlaces DEF Claimed
<1> QED
  BY <1>a, <1>b, <1>c, <1>d, <1>e DEF IInv

LEMMA TrimKeeps ==
  ASSUME IInv, NEW t \in Threads, Trim(t)
  PROVE  IInv'
<1>1. /\ pc[t] = "trim" /\ pc' = [pc EXCEPT ![t] = "unlock"]
      /\ UNCHANGED <<pages, m_tail, owner, page, slot, calls>>
      /\ \/ /\ m_numPages >= MaxNumPages
            /\ m_head' = pages[m_head].next /\ m_numPages' = m_numPages
         \/ /\ ~(m_numPages >= MaxNumPages)
            /\ m_numPages' = m_numPages + 1 /\ m_head' = m_head
  BY DEF Trim, Go, mine
<1>2. /\ pc' \in [Threads -> Pcs] /\ pc'[t] = "unlock"
      /\ \A u \in Threads \ {t} : pc'[u] = pc[u]
  BY <1>1 DEF IInv, TypeOK, Pcs
<1>3. /\ owner = t /\ OwnerAt({"publish", "trim"}) /\ ~OwnerAt({"publish"})
      /\ ~OwnerAt({"publish", "trim"})' /\ ~OwnerAt({"publish"})'
  BY <1>1, <1>2 DEF IInv, OneInside, OwnerAt, Critical
<1>4. /\ m_head + m_numPages = Len(pages) /\ m_tail = Len(pages)
      /\ m_numPages \in Nat /\ 1 <= m_numPages /\ m_numPages <= MaxNumPages
      /\ m_head \in Nat /\ 1 <= m_head /\ MaxNumPages \in Nat /\ Len(pages) \in Nat
  BY <1>3, Constants DEF IInv, Linked, TypeOK
<1>5. m_numPages >= MaxNumPages => pages[m_head].next = m_head + 1
  BY <1>4, Known DEF IInv, Linked
<1>6. /\ 1 <= m_head' /\ m_head' <= m_tail /\ 1 <= m_numPages' /\ m_numPages' <= MaxNumPages
      /\ m_head' + m_numPages' = Len(pages) + 1
      /\ m_head' \in Nat /\ m_numPages' \in Nat
  <2>1. CASE m_numPages >= MaxNumPages
    BY <1>1, <1>4, <1>5, <2>1
  <2>2. CASE ~(m_numPages >= MaxNumPages)
    BY <1>1, <1>4, <2>2
  <2> QED
    BY <2>1, <2>2
<1>a. TypeOK'
  BY <1>1, <1>2, <1>6 DEF IInv, TypeOK
<1>b. OneInside'
  BY <1>1, <1>2 DEF IInv, OneInside, Critical
<1>c. Linked'
  BY <1>1, <1>3, <1>4, <1>6 DEF IInv, Linked
<1>d. Placed'
  BY <1>1, <1>2 DEF IInv, Placed
<1>e. Counted' /\ SlotHasOneWriter' /\ InOrder' /\ Ordered'
  BY <1>1, <1>2, SlotsUntouched, Known, KnownPlaces DEF Claimed
<1> QED
  BY <1>a, <1>b, <1>c, <1>d, <1>e DEF IInv

LEMMA UnlockKeeps ==
  ASSUME IInv, NEW t \in Threads, Unlock(t)
  PROVE  IInv'
<1>1. /\ pc[t] = "unlock" /\ pc' = [pc EXCEPT ![t] = "write"]
      /\ owner' = NoThread
      /\ UNCHANGED <<pages, m_head, m_tail, m_numPages, page, slot, calls>>
  BY DEF Unlock, Go, log, mine
<1>2. /\ pc' \in [Threads -> Pcs] /\ pc'[t] = "write"
      /\ \A u \in Threads \ {t} : pc'[u] = pc[u]
  BY <1>1 DEF IInv, TypeOK, Pcs
<1>a. TypeOK'
  BY <1>1, <1>2 DEF IInv, TypeOK
<1>b. OneInside'
  BY <1>1, <1>2, Constants DEF IInv, OneInside, Critical
<1>c. Linked'
  <2>1. \A S \in {{"publish"}, {"publish", "trim"}} : ~OwnerAt(S)' /\ ~OwnerAt(S)
    BY <1>1, <1>2, Constants DEF OwnerAt, IInv, OneInside, Critical
  <2> QED
    BY <1>1, <2>1 DEF IInv, Linked
<1>d. Placed'
  BY <1>1, <1>2 DEF IInv, Placed
<1>e. Counted' /\ SlotHasOneWriter' /\ InOrder' /\ Ordered'
  BY <1>1, <1>2, SlotsUntouched, Known, KnownPlaces DEF Claimed
<1> QED
  BY <1>a, <1>b, <1>c, <1>d, <1>e DEF IInv

LEMMA WriteKeeps ==
  ASSUME IInv, NEW t \in Threads, Write(t)
  PROVE  IInv'
<1> DEFINE p0 == page[t]
           i0 == slot[t]
           e0 == [tid |-> t, call |-> calls[t]]
<1>1. /\ pc[t] = "write" /\ pc' = [pc EXCEPT ![t] = "idle"]
      /\ pages' = [pages EXCEPT ![p0].events[i0] = e0]
      /\ UNCHANGED <<m_head, m_tail, m_numPages, owner, page, slot, calls>>
  BY DEF Write, Go, mine
<1>2. /\ p0 \in 1 .. Len(pages) /\ i0 \in Slots /\ p0 \in Nat /\ i0 \in Nat
      /\ i0 < pages[p0].index /\ pages[p0].events[i0] = Free
      /\ p0 = page[t] /\ i0 = slot[t]
  BY <1>1, Known, KnownClaims DEF Claimed
<1>3. e0 \in Entries /\ e0.tid = t /\ e0.call = calls[t] /\ e0 # Free
  BY KnownPlaces, Constants DEF Entries, Free
<1>4. 1 <= calls[t] /\ calls[t] \in Nat
  BY <1>1, KnownPlaces
<1> HIDE DEF p0, i0, e0
<1>5. /\ pages' \in Seq(PageSet)
      /\ Len(pages') = Len(pages)
      /\ \A q \in 1 .. Len(pages) :
             /\ pages'[q].next = pages[q].next
             /\ pages'[q].index = pages[q].index
             /\ \A j \in Slots : pages'[q].events[j] =
                    IF q = p0 /\ j = i0 THEN e0 ELSE pages[q].events[j]
  <2>1. TypeOK
    BY DEF IInv
  <2> QED
    BY <1>1, <1>2, <1>3, <2>1, WriteEffect, ZenonT(60)
<1>6. /\ pc' \in [Threads -> Pcs] /\ pc'[t] = "idle"
      /\ \A u \in Threads \ {t} : pc'[u] = pc[u]
  BY <1>1 DEF IInv, TypeOK, Pcs
<1>a. TypeOK'
  BY <1>1, <1>5, <1>6 DEF IInv, TypeOK
<1>b. OneInside'
  BY <1>1, <1>6 DEF IInv, OneInside, Critical
<1>c. Linked'
  <2>1. \A S \in {{"publish"}, {"publish", "trim"}} : OwnerAt(S)' <=> OwnerAt(S)
    BY <1>1, <1>6 DEF OwnerAt
  <2> QED
    BY <1>1, <1>5, <2>1 DEF IInv, Linked
<1>d. Placed'
  <2>1. page[t] <= m_tail
    BY <1>1, KnownPlaces DEF Critical
  <2>2. ASSUME NEW u \in Threads, pc'[u] = "append"
        PROVE  pages'[m_tail].index >= EventsPerPage
    BY <1>1, <1>5, <1>6, <2>2, Known DEF IInv, Placed
  <2>3. ASSUME NEW u \in Threads, pc'[u] = "publish"
        PROVE  page[u] = Len(pages) /\ pages'[page[u]].index = 1
    BY <1>1, <1>5, <1>6, <2>3, KnownPlaces DEF IInv, Placed
  <2> QED
    BY <1>1, <1>5, <1>6, <2>1, <2>2, <2>3 DEF IInv, Placed
<1>7. ASSUME NEW u \in Threads
      PROVE  /\ pc'[u] \in Claimed <=> pc[u] \in Claimed /\ u # t
             /\ pc'[u] \in Claimed => ~(page[u] = p0 /\ slot[u] = i0)
  BY <1>1, <1>2, <1>6 DEF Claimed, IInv, SlotHasOneWriter
<1>e. Counted'
  <2>1. ASSUME NEW u \in Threads, pc'[u] \in Claimed
        PROVE  slot[u] < pages'[page[u]].index
    BY <1>5, <1>7, <2>1, KnownClaims
  <2>2. ASSUME NEW p \in 1 .. Len(pages), NEW i \in Slots
        PROVE  i < pages'[p].index <=>
                  \/ pages'[p].events[i] # Free
                  \/ \E u \in Threads : pc'[u] \in Claimed /\ page[u] = p /\ slot[u] = i
    <3>1. CASE p = p0 /\ i = i0
      BY <1>2, <1>3, <1>5, <3>1
    <3>2. CASE ~(p = p0 /\ i = i0)
      <4>1. pages'[p].events[i] = pages[p].events[i] /\ pages'[p].index = pages[p].index
        BY <1>5, <3>2
      <4>2. ASSUME NEW u \in Threads
            PROVE  pc'[u] \in Claimed /\ page[u] = p /\ slot[u] = i
                     <=> pc[u] \in Claimed /\ page[u] = p /\ slot[u] = i
        BY <1>2, <1>7, <3>2
      <4> QED
        BY <4>1, <4>2 DEF IInv, Counted
    <3> QED
      BY <3>1, <3>2
  <2> QED
    BY <1>1, <1>5, <2>1, <2>2 DEF Counted
<1>f. SlotHasOneWriter'
  <2>1. ASSUME NEW u \in Threads, pc'[u] \in Claimed
        PROVE  pages'[page[u]].events[slot[u]] = Free
    BY <1>5, <1>7, <2>1, KnownClaims
  <2>2. ASSUME NEW u \in Threads, NEW v \in Threads \ {u}, pc'[u] \in Claimed, pc'[v] \in Claimed
        PROVE  ~(page[u] = page[v] /\ slot[u] = slot[v])
    BY <1>7, <2>2 DEF IInv, SlotHasOneWriter
  <2> QED
    BY <1>1, <2>1, <2>2 DEF SlotHasOneWriter
<1>8. ASSUME NEW p \in 1 .. Len(pages), NEW i \in Slots,
             pages[p].events[i] # Free, pages[p].events[i].tid = t
      PROVE  pages[p].events[i].call < calls[t] /\ Precedes(p, i, p0, i0) /\ p <= p0
  BY <1>1, <1>2, <1>8 DEF IInv, InOrder, Claimed
<1>g. InOrder'
  <2>1. ASSUME NEW p \in 1 .. Len(pages), NEW i \in Slots, pages'[p].events[i] # Free
        PROVE  LET e == pages'[p].events[i]
               IN  /\ e.tid \in Threads /\ 1 <= e.call /\ e.call <= calls[e.tid]
                   /\ pc'[e.tid] # "idle" => e.call < calls[e.tid]
                   /\ p <= page[e.tid]
                   /\ pc'[e.tid] \in Claimed => Precedes(p, i, page[e.tid], slot[e.tid])
    <3>1. CASE p = p0 /\ i = i0
      <4>1. pages'[p].events[i] = e0 /\ pc'[t] = "idle"
        BY <1>2, <1>5, <1>6, <3>1
      <4>2. e0.tid \in Threads /\ e0.tid = t /\ e0.call = calls[t] /\ p = page[t]
        BY <1>2, <1>3, <3>1
      <4> QED
        BY <1>2, <1>4, <4>1, <4>2 DEF Claimed
    <3>2. CASE ~(p = p0 /\ i = i0)
      <4>1. pages'[p].events[i] = pages[p].events[i]
        BY <1>5, <3>2
      <4>2. \A u \in Threads : pc'[u] # "idle" => pc[u] # "idle" /\ pc'[u] = pc[u]
        BY <1>6
      <4>3. \A u \in Threads : pc'[u] \in Claimed => pc[u] \in Claimed
        BY <1>7
      <4> QED
        BY <2>1, <4>1, <4>2, <4>3 DEF IInv, InOrder
    <3> QED
      BY <3>1, <3>2
  <2> QED
    BY <1>1, <1>5, <2>1 DEF InOrder
<1>h. Ordered'
  <2>1. ASSUME NEW p \in 1 .. Len(pages), NEW q \in 1 .. Len(pages), NEW i \in Slots, NEW j \in Slots,
               pages'[p].events[i] # Free, pages'[q].events[j] # Free,
               pages'[p].events[i].tid = pages'[q].events[j].tid, Precedes(p, i, q, j)
        PROVE  pages'[p].events[i].call < pages'[q].events[j].call
    <3>1. CASE p = p0 /\ i = i0 /\ q = p0 /\ j = i0
      BY <1>2, <2>1, <3>1 DEF Precedes
    <3>2. CASE p = p0 /\ i = i0 /\ ~(q = p0 /\ j = i0)
      <4>1. pages'[q].events[j] = pages[q].events[j] /\ pages[q].events[j].tid = t
        BY <1>3, <1>5, <2>1, <3>2
      <4>2. Precedes(q, j, p0, i0)
        BY <1>8, <2>1, <4>1
      <4>3. q \in Nat /\ j \in Nat
        BY Known
      <4> QED
        BY <1>2, <2>1, <3>2, <4>2, <4>3 DEF Precedes
    <3>3. CASE ~(p = p0 /\ i = i0) /\ q = p0 /\ j = i0
      BY <1>3, <1>5, <1>8, <2>1, <3>3
    <3>4. CASE ~(p = p0 /\ i = i0) /\ ~(q = p0 /\ j = i0)
      BY <1>5, <2>1, <3>4 DEF IInv, Ordered
    <3> QED
      BY <3>1, <3>2, <3>3, <3>4
  <2> QED
    BY <1>5, <2>1 DEF Ordered
<1> QED
  BY <1>a, <1>b, <1>c, <1>d, <1>e, <1>f, <1>g, <1>h DEF IInv

LEMMA AppendPageKeeps ==
  ASSUME IInv, NEW t \in Threads, AppendPage(t)
  PROVE  IInv'
<1> DEFINE n == Len(pages) + 1
<1>1. /\ pc[t] = "append" /\ pc' = [pc EXCEPT ![t] = "publish"]
      /\ page[t] = m_tail /\ pages[m_tail].index >= EventsPerPage
      /\ pages' = Append([pages EXCEPT ![m_tail].next = Len(pages) + 1], NewPage(1))
      /\ page' = [page EXCEPT ![t] = n] /\ slot' = [slot EXCEPT ![t] = 0]
      /\ UNCHANGED <<m_head, m_tail, m_numPages, owner, calls>>
  BY DEF AppendPage, Go, IInv, Placed
<1>2. /\ owner = t /\ ~OwnerAt({"publish", "trim"}) /\ ~OwnerAt({"publish"})
      /\ m_tail = Len(pages) /\ m_head + m_numPages = n
      /\ \A u \in Threads : pc[u] # "publish"
  BY <1>1 DEF IInv, Linked, OneInside, OwnerAt, Critical
<1>3. /\ Len(pages) \in Nat /\ Len(pages) \in 1 .. Len(pages) /\ n = Len(pages) + 1 /\ n \in Nat
      /\ pages' \in Seq(PageSet)
      /\ Len(pages') = n
      /\ pages'[n] = NewPage(1)
      /\ \A q \in 1 .. Len(pages) :
             /\ pages'[q].next = IF q = Len(pages) THEN n ELSE pages[q].next
             /\ pages'[q].index = pages[q].index
             /\ pages'[q].events = pages[q].events
  <2>1. m_tail \in 1 .. Len(pages) /\ Len(pages) \in Nat
    BY Known
  <2>2. TypeOK
    BY DEF IInv
  <2>3. /\ pages' \in Seq(PageSet)
        /\ Len(pages') = Len(pages) + 1
        /\ pages'[Len(pages) + 1] = NewPage(1)
        /\ \A q \in 1 .. Len(pages) :
               /\ pages'[q].next = IF q = m_tail THEN Len(pages) + 1 ELSE pages[q].next
               /\ pages'[q].index = pages[q].index
               /\ pages'[q].events = pages[q].events
    BY <1>1, <2>1, <2>2, AppendEffect
  <2> QED
    BY <1>2, <2>1, <2>3
<1>4. /\ NewPage(1).next = None /\ NewPage(1).index = 1 /\ \A i \in Slots : NewPage(1).events[i] = Free
  BY DEF NewPage
<1> HIDE DEF n
<1>5. \A p \in 1 .. n : p = n \/ (p \in 1 .. Len(pages) /\ p # n)
  BY <1>3
<1>6. /\ pc' \in [Threads -> Pcs] /\ pc'[t] = "publish"
      /\ \A u \in Threads \ {t} : pc'[u] = pc[u]
      /\ page' \in [Threads -> Nat] /\ page'[t] = n
      /\ \A u \in Threads \ {t} : page'[u] = page[u]
      /\ slot' \in [Threads -> Slots] /\ slot'[t] = 0 /\ 0 \in Slots
      /\ \A u \in Threads \ {t} : slot'[u] = slot[u]
  BY <1>1, <1>3, Constants DEF IInv, TypeOK, Pcs, Slots
<1>7. \A u \in Threads : page[u] \in Nat /\ page[u] <= Len(pages)
  BY <1>2, KnownPlaces DEF IInv, Placed
<1>a. TypeOK'
  BY <1>1, <1>3, <1>6 DEF IInv, TypeOK
<1>b. OneInside'
  BY <1>1, <1>6 DEF IInv, OneInside, Critical
<1>c. Linked'
  <2>1. OwnerAt({"publish"})' /\ OwnerAt({"publish", "trim"})'
    BY <1>1, <1>2, <1>6 DEF OwnerAt
  <2>2. ASSUME NEW p \in 1 .. n
        PROVE  /\ pages'[p].next = IF p < n THEN p + 1 ELSE None
               /\ p < n => pages'[p].index >= EventsPerPage
    <3>1. CASE p = n
      BY <1>3, <1>4, <3>1
    <3>2. CASE p # n
      <4>1. p \in 1 .. Len(pages) /\ p < n
        BY <1>3, <3>2
      <4>2. pages'[p].next = p + 1
        BY <1>3, <4>1 DEF IInv, Linked
      <4>3. pages[p].index >= EventsPerPage
        BY <1>1, <1>2, <1>3, <4>1 DEF IInv, Linked
      <4> QED
        BY <1>3, <4>1, <4>2, <4>3
    <3> QED
      BY <3>1, <3>2
  <2> QED
    BY <1>1, <1>2, <1>3, <2>1, <2>2 DEF IInv, Linked
<1>d. Placed'
  <2>1. ASSUME NEW u \in Threads
        PROVE  /\ pc'[u] # "idle" => page'[u] \in 1 .. n /\ 1 <= calls[u]
               /\ pc'[u] # "publish" => page'[u] <= m_tail
               /\ pc'[u] \in {"retry", "append", "trim"} => page'[u] = m_tail
               /\ pc'[u] = "append" => pages'[m_tail].index >= EventsPerPage
               /\ pc'[u] = "publish" => page'[u] = n /\ pages'[page'[u]].index = 1
    <3>1. CASE u = t
      BY <1>1, <1>3, <1>4, <1>6, <3>1, KnownPlaces
    <3>2. CASE u # t
      <4>1. pages'[m_tail].index >= EventsPerPage
        BY <1>1, <1>2, <1>3
      <4>2. pc[u] # "idle" => page[u] \in 1 .. n /\ 1 <= calls[u]
        BY <1>3, KnownPlaces
      <4> QED
        BY <1>2, <1>6, <3>2, <4>1, <4>2 DEF IInv, Placed
    <3> QED
      BY <3>1, <3>2
  <2> QED
    BY <1>1, <1>3, <2>1 DEF Placed
<1>8. ASSUME NEW u \in Threads \ {t}
      PROVE  /\ pc'[u] \in Claimed <=> pc[u] \in Claimed
             /\ page'[u] = page[u] /\ slot'[u] = slot[u] /\ page'[u] # n
  BY <1>3, <1>6, <1>7
<1>e. Counted'
  <2>1. ASSUME NEW u \in Threads, pc'[u] \in Claimed
        PROVE  slot'[u] < pages'[page'[u]].index
    <3>1. CASE u = t
      BY <1>3, <1>4, <1>6, <3>1
    <3>2. CASE u # t
      BY <1>3, <1>8, <2>1, <3>2, KnownClaims
    <3> QED
      BY <3>1, <3>2
  <2>2. ASSUME NEW p \in 1 .. n, NEW i \in Slots
        PROVE  i < pages'[p].index <=>
                  \/ pages'[p].events[i] # Free
                  \/ \E u \in Threads : pc'[u] \in Claimed /\ page'[u] = p /\ slot'[u] = i
    <3>1. CASE p = n
      <4>1. i < pages'[p].index <=> i = 0
        BY <1>3, <1>4, <3>1, Known
      <4>2. pages'[p].events[i] = Free
        BY <1>3, <1>4, <3>1
      <4>3. (\E u \in Threads : pc'[u] \in Claimed /\ page'[u] = p /\ slot'[u] = i) <=> i = 0
        BY <1>6, <1>8, <3>1 DEF Claimed
      <4> QED
        BY <4>1, <4>2, <4>3
    <3>2. CASE p # n
      <4>1. p \in 1 .. Len(pages)
        BY <1>5, <3>2
      <4>2. ASSUME NEW u \in Threads
            PROVE  pc'[u] \in Claimed /\ page'[u] = p /\ slot'[u] = i
                     <=> pc[u] \in Claimed /\ page[u] = p /\ slot[u] = i
        BY <1>1, <1>6, <1>8, <3>2 DEF Claimed
      <4> QED
        BY <1>3, <4>1, <4>2 DEF IInv, Counted
    <3> QED
      BY <3>1, <3>2
  <2> QED
    BY <1>3, <2>1, <2>2 DEF Counted
<1>f. SlotHasOneWriter'
  <2>1. ASSUME NEW u \in Threads, pc'[u] \in Claimed
        PROVE  pages'[page'[u]].events[slot'[u]] = Free
    <3>1. CASE u = t
      BY <1>3, <1>4, <1>6, <3>1
    <3>2. CASE u # t
      BY <1>3, <1>8, <2>1, <3>2, KnownClaims
    <3> QED
      BY <3>1, <3>2
  <2>2. ASSUME NEW u \in Threads, NEW v \in Threads \ {u}, pc'[u] \in Claimed, pc'[v] \in Claimed
        PROVE  ~(page'[u] = page'[v] /\ slot'[u] = slot'[v])
    BY <1>6, <1>8, <2>2 DEF IInv, SlotHasOneWriter
  <2> QED
    BY <2>1, <2>2 DEF SlotHasOneWriter
<1>9. \A p \in 1 .. n, i \in Slots : pages'[p].events[i] # Free =>
          p \in 1 .. Len(pages) /\ pages'[p].events[i] = pages[p].events[i]
  BY <1>3, <1>4, <1>5
<1>g. InOrder'
  <2>1. ASSUME NEW p \in 1 .. Len(pages), NEW i \in Slots, pages[p].events[i] # Free
        PROVE  LET e == pages[p].events[i]
               IN  /\ e.tid \in Threads /\ 1 <= e.call /\ e.call <= calls[e.tid]
                   /\ pc'[e.tid] # "idle" => e.call < calls[e.tid]
                   /\ p <= page'[e.tid]
                   /\ pc'[e.tid] \in Claimed => Precedes(p, i, page'[e.tid], slot'[e.tid])
    <3>1. CASE pages[p].events[i].tid = t
      BY <1>1, <1>3, <1>6, <2>1, <3>1 DEF IInv, InOrder, Precedes
    <3>2. CASE pages[p].events[i].tid # t
      BY <1>6, <2>1, <3>2 DEF IInv, InOrder
    <3> QED
      BY <3>1, <3>2
  <2>2. ASSUME NEW p \in 1 .. n, NEW i \in Slots, pages'[p].events[i] # Free
        PROVE  LET e == pages'[p].events[i]
               IN  /\ e.tid \in Threads /\ 1 <= e.call /\ e.call <= calls[e.tid]
                   /\ pc'[e.tid] # "idle" => e.call < calls[e.tid]
                   /\ p <= page'[e.tid]
                   /\ pc'[e.tid] \in Claimed => Precedes(p, i, page'[e.tid], slot'[e.tid])
    <3>1. p \in 1 .. Len(pages) /\ pages'[p].events[i] = pages[p].events[i]
      BY <1>9, <2>2
    <3> QED
      BY <2>1, <2>2, <3>1
  <2>3. calls' = calls /\ Len(pages') = n
    BY <1>1, <1>3
  <2> QED
    BY <2>2, <2>3 DEF InOrder, Precedes
<1>h. Ordered'
  <2>1. ASSUME NEW p \in 1 .. n, NEW q \in 1 .. n, NEW i \in Slots, NEW j \in Slots,
               pages'[p].events[i] # Free, pages'[q].events[j] # Free,
               pages'[p].events[i].tid = pages'[q].events[j].tid, Precedes(p, i, q, j)
        PROVE  pages'[p].events[i].call < pages'[q].events[j].call
    BY <1>9, <2>1 DEF IInv, Ordered
  <2> QED
    BY <1>3, <2>1 DEF Ordered
<1> QED
  BY <1>a, <1>b, <1>c, <1>d, <1>e, <1>f, <1>g, <1>h DEF IInv

----------------------------------------------------------------------------
LEMMA InitInv == Init => IInv
<1> SUFFICES ASSUME Init PROVE IInv
  OBVIOUS
<1>1. NewPage(0) \in PageSet /\ pages = <<NewPage(0)>>
  BY Constants DEF NewPage, PageSet, None, Init
<1>2. /\ pages \in Seq(PageSet) /\ Len(pages) = 1
      /\ pages[1].next = None /\ pages[1].index = 0
      /\ \A i \in Slots : pages[1].events[i] = Free
  BY <1>1 DEF NewPage
<1>3. TypeOK
  BY <1>2, Constants DEF TypeOK, Init, Pcs, None, Slots
<1>4. OneInside /\ \A t \in Threads : pc[t] \notin Claimed /\ pc[t] = "idle"
  BY Constants DEF OneInside, Init, Critical, Claimed
<1>5. Linked
  BY <1>2, Constants DEF Linked, Init, OwnerAt
<1>6. Placed
  BY <1>2, <1>4 DEF Placed, Init, None
<1>7. Counted
  BY <1>2, <1>4, Constants DEF Counted, Slots
<1>8. SlotHasOneWriter /\ InOrder /\ Ordered
  BY <1>2, <1>4 DEF SlotHasOneWriter, InOrder, Ordered
<1> QED
  BY <1>3, <1>4, <1>5, <1>6, <1>7, <1>8 DEF IInv

LEMMA NextInv == IInv /\ [Next]_vars => IInv'
<1> SUFFICES ASSUME IInv, [Next]_vars PROVE IInv'
  OBVIOUS
<1>1. ASSUME NEW t \in Threads, LoadTail(t) \/ Step(t)
      PROVE  IInv'
  BY <1>1, LoadTailKeeps, ClaimKeeps, ClaimFullKeeps, WriteKeeps, LockKeeps, RecheckKeeps, RetryKeeps,
     AppendPageKeeps, PublishKeeps, TrimKeeps, UnlockKeeps, SMTT(60) DEF Step
<1>2. CASE UNCHANGED vars
  BY <1>2, SMTT(60) DEF vars, log, mine, IInv, TypeOK, OneInside, Linked, OwnerAt, Placed, Counted,
                          SlotHasOneWriter, InOrder, Ordered
<1> QED
  BY <1>1, <1>2 DEF Next


\* The invariant of log() and allocateEventFromNewPage(), in every state that any
\* number of loggers reaches.
THEOREM Invariant == Spec => []IInv
BY InitInv, NextInv, PTL DEF Spec


\* The two fetch-and-adds and the slot that comes with a new page never give one
\* slot to two calls of log(), and never a slot that an event is in already.
THEOREM OneWriterPerSlot == Spec => []SlotHasOneWriter
BY Invariant, PTL DEF IInv

----------------------------------------------------------------------------
(* The list as its readers see it.                                         *)

LEMMA LeastNat ==
  ASSUME NEW T \in SUBSET Nat, T # {}
  PROVE  \E x \in T : \A y \in T : x <= y
<1> DEFINE R == {ss \in Nat \X Nat : ss[1] < ss[2]}
<1>1. OpToRel(<, Nat) = R
  BY DEF OpToRel
<1>2. IsWellFoundedOn(R, Nat)
  BY <1>1, NatLessThanWellFounded
<1>3. \E x \in T : \A y \in T : <<y, x>> \notin R
  <2> HIDE DEF R
  <2> QED
    BY <1>2, WFMin
<1>4. PICK x \in T : \A y \in T : <<y, x>> \notin R
  BY <1>3
<1>5. \A y \in T : ~(y < x)
  BY <1>4
<1> QED
  BY <1>5

\* Induction over an interval, stated for a set.
LEMMA IntervalInduction ==
  ASSUME NEW n \in Nat, NEW S, 0 \in S, \A k \in 1 .. n : k - 1 \in S => k \in S
  PROVE  \A k \in 0 .. n : k \in S
<1> SUFFICES ASSUME NEW m \in 0 .. n, m \notin S
             PROVE  FALSE
  OBVIOUS
<1> DEFINE T == {k \in 0 .. n : k \notin S}
<1>1. T \in SUBSET Nat /\ T # {}
  OBVIOUS
<1>2. PICK k \in T : \A j \in T : k <= j
  <2> HIDE DEF T
  <2> QED
    BY <1>1, LeastNat
<1>3. k \in 1 .. n /\ k - 1 \in 0 .. n /\ ~(k <= k - 1)
  BY <1>2
<1>4. k - 1 \in S
  BY <1>2, <1>3
<1> QED
  BY <1>2, <1>3, <1>4

\* Following next from m_head visits the pages in the order of their numbers.
LEMMA RetainedIs ==
  ASSUME IInv
  PROVE  Retained = m_head .. Len(pages)
<1> DEFINE n == Len(pages)
           Chain(g) == [k \in 0 .. n |-> IF k = 0 THEN m_head
                                         ELSE IF g[k - 1] = None THEN None ELSE pages[g[k - 1]].next]
           w == [k \in 0 .. n |-> IF m_head + k <= n THEN m_head + k ELSE None]
           at == CHOOSE g : g = Chain(g)
<1>1. Retained = {at[k] : k \in 0 .. n} \ {None}
  BY DEF Retained
<1>2. /\ n \in Nat /\ m_head \in Nat /\ 1 <= m_head /\ m_head <= n /\ None = 0
      /\ \A p \in 1 .. n : pages[p].next = IF p < n THEN p + 1 ELSE None
  BY Known DEF IInv, Linked, None
<1>3. Chain(w) = w
  <2>1. ASSUME NEW k \in 0 .. n
        PROVE  Chain(w)[k] = w[k]
    <3>1. CASE k = 0
      BY <1>2, <3>1
    <3>2. CASE k # 0
      <4>1. k - 1 \in 0 .. n /\ w[k - 1] = IF m_head + (k - 1) <= n THEN m_head + (k - 1) ELSE None
        BY <1>2, <3>2
      <4> QED
        BY SMTT(60), <1>2, <3>2, <4>1
    <3> QED
      BY <3>1, <3>2
  <2> QED
    BY <2>1
<1>4. ASSUME NEW g, g = Chain(g)
      PROVE  g = w
  <2> DEFINE S == {k \in 0 .. n : g[k] = w[k]}
  <2>0. \A k \in 0 .. n : g[k] = Chain(g)[k]
    BY <1>4
  <2>1. 0 \in S
    BY <2>0, <1>2
  <2>2. ASSUME NEW k \in 1 .. n, k - 1 \in S
        PROVE  k \in S
    <3>1. k \in 0 .. n /\ k # 0 /\ g[k - 1] = w[k - 1]
      BY <2>2, <1>2
    <3>2. g[k] = Chain(g)[k] /\ w[k] = Chain(w)[k]
      BY <2>0, <3>1, <1>3
    <3>3. Chain(g)[k] = Chain(w)[k]
      BY <3>1
    <3> HIDE DEF Chain, w
    <3> QED
      BY <3>1, <3>2, <3>3
  <2>3. \A k \in 0 .. n : g[k] = w[k]
    <3>1. \A k \in 0 .. n : k \in S
      <4> HIDE DEF S, n
      <4> QED
        BY <2>1, <2>2, <1>2, IntervalInduction
    <3> QED
      BY <3>1
  <2>4. g = [k \in 0 .. n |-> g[k]]
    BY <1>4
  <2> QED
    BY <2>3, <2>4
<1>5. at = w
  <2> HIDE DEF Chain, w
  <2> QED
    BY <1>3, <1>4
<1>6. {w[k] : k \in 0 .. n} \ {None} = m_head .. n
  <2>1. ASSUME NEW p \in m_head .. n
        PROVE  p \in {w[k] : k \in 0 .. n} /\ p # None
    <3>1. p - m_head \in 0 .. n /\ w[p - m_head] = p
      BY <1>2
    <3>2. p # None
      BY <1>2
    <3> HIDE DEF w, n
    <3> QED
      BY <3>1, <3>2
  <2>2. ASSUME NEW k \in 0 .. n, w[k] # None
        PROVE  w[k] \in m_head .. n
    BY <1>2, <2>2
  <2> QED
    BY <2>1, <2>2
<1> HIDE DEF at, w
<1> QED
  BY <1>1, <1>5, <1>6


\* Whenever nobody holds the mutex, m_numPages pages can be reached from m_head,
\* m_tail is the last of them, and all but it are full.  Whether a logger still
\* uses a page that Trim has deleted is another matter (NoStaleAccess, which
\* fails if MayStall).
THEOREM PagesChained == Spec => []PageChain
<1>1. IInv => PageChain
  <2> SUFFICES ASSUME IInv, owner = NoThread
               PROVE  /\ Cardinality(Retained) = m_numPages
                      /\ m_tail \in Retained /\ pages[m_tail].next = None
                      /\ \A p \in Retained \ {m_tail} : pages[p].index >= EventsPerPage
    BY DEF PageChain
  <2>1. ~OwnerAt({"publish"}) /\ ~OwnerAt({"publish", "trim"})
    BY Constants DEF OwnerAt
  <2>2. /\ m_tail = Len(pages) /\ m_head + m_numPages = Len(pages) + 1
        /\ m_head \in Nat /\ 1 <= m_head /\ m_numPages \in Nat /\ Len(pages) \in Nat
        /\ m_head <= m_tail
    BY <2>1, Known DEF IInv, Linked, TypeOK
  <2>3. Retained = m_head .. m_tail
    BY <2>2, RetainedIs
  <2>4. Cardinality(Retained) = m_numPages
    BY <2>2, <2>3, FS_Interval
  <2> QED
    BY <2>2, <2>3, <2>4 DEF IInv, Linked
<1> QED
  BY <1>1, Invariant, PTL


\* A thread finds its events in the log in the order of its calls, although a call
\* that went through the slow path may overtake those of other threads.
THEOREM InProgramOrder == Spec => []ProgramOrder
<1>1. IInv => ProgramOrder
  <2> SUFFICES ASSUME IInv, NEW a \in Events, NEW b \in Events, Before(a, b), Event(a).tid = Event(b).tid
               PROVE  Event(a).call < Event(b).call
    BY DEF ProgramOrder
  <2>1. /\ a.m_page \in 1 .. Len(pages) /\ a.m_index \in Slots /\ Event(a) # Free
        /\ b.m_page \in 1 .. Len(pages) /\ b.m_index \in Slots /\ Event(b) # Free
    BY DEF Events
  <2> QED
    BY <2>1 DEF IInv, Ordered, Precedes, Before, Event
<1> QED
  BY <1>1, Invariant, PTL

----------------------------------------------------------------------------
(* Counting: how far an index can be past its page, and that no event is   *)
(* lost but with its page.                                                 *)

LEMMA OvershootNext == IInv /\ Overshoot /\ [Next]_vars => Overshoot'
<1> DEFINE Guard == owner = NoThread \/ OwnerAt({"retry", "trim", "unlock"})
<1> SUFFICES ASSUME IInv, Overshoot, [Next]_vars, Guard'
             PROVE  (pages[m_tail].index <= EventsPerPage + Cardinality(Waiting))'
  BY DEF Overshoot
<1>1. /\ IsFiniteSet(Waiting) /\ IsFiniteSet(Waiting')
      /\ Cardinality(Waiting) \in Nat /\ Cardinality(Waiting') \in Nat
  <2>1. Waiting \subseteq Threads /\ Waiting' \subseteq Threads
    BY DEF Waiting
  <2> QED
    BY <2>1, Constants, FS_Subset, FS_CardinalityType
<1>2. pages[m_tail].index \in Nat /\ m_tail \in 1 .. Len(pages)
  BY Known
<1>3. ASSUME Guard, Waiting' = Waiting, pages'[m_tail'].index = pages[m_tail].index
      PROVE  (pages[m_tail].index <= EventsPerPage + Cardinality(Waiting))'
  BY <1>3 DEF Overshoot
<1>4. ASSUME pages'[m_tail'].index <= EventsPerPage, pages'[m_tail'].index \in Nat
      PROVE  (pages[m_tail].index <= EventsPerPage + Cardinality(Waiting))'
  BY <1>1, <1>4, Constants
<1>5. ASSUME NEW t \in Threads, Claim(t) \/ ClaimFull(t)
      PROVE  /\ page[t] \in 1 .. Len(pages) /\ pc[t] = "claim" /\ owner' = owner /\ m_tail' = m_tail /\ page' = page
             /\ \A u \in Threads \ {t} : pc'[u] = pc[u]
             /\ Guard
             /\ pages'[m_tail].index = IF m_tail = page[t] THEN pages[m_tail].index + 1
                                       ELSE pages[m_tail].index
  <2>1. /\ pc[t] = "claim" /\ owner' = owner /\ m_tail' = m_tail /\ Bump(page[t]) /\ page' = page
        /\ \E to \in Pcs : pc' = [pc EXCEPT ![t] = to] /\ to \notin Critical
    BY <1>5 DEF Claim, ClaimFull, Go, mine, Pcs, Critical
  <2>2. page[t] \in 1 .. Len(pages)
    BY <2>1, KnownPlaces
  <2>3. \A u \in Threads \ {t} : pc'[u] = pc[u]
    BY <2>1 DEF IInv, TypeOK
  <2>4. Guard
    BY <2>1, <2>3 DEF OwnerAt, IInv, TypeOK, Critical
  <2> QED
    BY <1>2, <2>1, <2>2, <2>3, <2>4, BumpEffect DEF IInv
<1>6. ASSUME NEW t \in Threads, Claim(t)
      PROVE  (pages[m_tail].index <= EventsPerPage + Cardinality(Waiting))'
  <2>1. pc' = [pc EXCEPT ![t] = "write"] /\ pages[page[t]].index < EventsPerPage
    BY <1>6 DEF Claim, Go
  <2>2. Waiting' = Waiting
    BY <1>5, <1>6, <2>1 DEF Waiting, IInv, TypeOK
  <2>3. CASE m_tail = page[t]
    BY <1>2, <1>4, <1>5, <1>6, <2>1, <2>3, Constants
  <2>4. CASE m_tail # page[t]
    BY <1>3, <1>5, <1>6, <2>2, <2>4
  <2> QED
    BY <2>3, <2>4
<1>7. ASSUME NEW t \in Threads, ClaimFull(t)
      PROVE  (pages[m_tail].index <= EventsPerPage + Cardinality(Waiting))'
  <2>1. pc' = [pc EXCEPT ![t] = "lock"] /\ pc'[t] = "lock"
    BY <1>7 DEF ClaimFull, Go, IInv, TypeOK
  <2>2. CASE m_tail = page[t]
    <3>1. Waiting' = Waiting \cup {t} /\ t \notin Waiting
      BY <1>5, <1>7, <2>1, <2>2 DEF Waiting
    <3>2. Cardinality(Waiting') = Cardinality(Waiting) + 1
      BY <1>1, <3>1, FS_AddElement
    <3>3. pages[m_tail].index <= EventsPerPage + Cardinality(Waiting)
      BY <1>5, <1>7 DEF Overshoot
    <3> QED
      BY <1>1, <1>2, <1>5, <1>7, <2>2, <3>2, <3>3, Constants
  <2>3. CASE m_tail # page[t]
    <3>1. Waiting' = Waiting
      BY <1>5, <1>7, <2>1, <2>3 DEF Waiting
    <3> QED
      BY <1>3, <1>5, <1>7, <2>3, <3>1
  <2> QED
    BY <2>2, <2>3
<1>8. ASSUME NEW t \in Threads, LoadTail(t)
      PROVE  (pages[m_tail].index <= EventsPerPage + Cardinality(Waiting))'
  <2>1. /\ pc[t] = "idle" /\ pc' = [pc EXCEPT ![t] = "claim"] /\ pages' = pages /\ m_tail' = m_tail
        /\ owner' = owner /\ page' = [page EXCEPT ![t] = m_tail]
    BY <1>8 DEF LoadTail, Go, log
  <2>2. Waiting' = Waiting
    BY <2>1 DEF Waiting, IInv, TypeOK
  <2>3. Guard
    BY <2>1 DEF OwnerAt, IInv, TypeOK
  <2> QED
    BY <1>3, <2>1, <2>2, <2>3
<1>9. ASSUME NEW t \in Threads, Write(t)
      PROVE  (pages[m_tail].index <= EventsPerPage + Cardinality(Waiting))'
  <2>1. /\ pc[t] = "write" /\ pc' = [pc EXCEPT ![t] = "idle"] /\ m_tail' = m_tail
        /\ owner' = owner /\ page' = page
        /\ pages' = [pages EXCEPT ![page[t]].events[slot[t]] = [tid |-> t, call |-> calls[t]]]
    BY <1>9 DEF Write, Go, mine
  <2>2. Waiting' = Waiting
    BY <2>1 DEF Waiting, IInv, TypeOK
  <2>3. Guard
    BY <2>1 DEF OwnerAt, IInv, TypeOK
  <2>4. pages'[m_tail].index = pages[m_tail].index
    <3>1. page[t] \in 1 .. Len(pages) /\ slot[t] \in Slots /\ [tid |-> t, call |-> calls[t]] \in Entries
      BY <2>1, KnownPlaces DEF Entries
    <3> QED
      BY <1>2, <2>1, <3>1, WriteEffect DEF IInv
  <2> QED
    BY <1>3, <2>1, <2>2, <2>3, <2>4
<1>10. ASSUME NEW t \in Threads, Lock(t) \/ AppendPage(t)
       PROVE  FALSE
  <2>1. pc'[t] \in {"recheck", "publish"} /\ owner' = t
    BY <1>10 DEF Lock, AppendPage, Go, IInv, TypeOK, OneInside, Critical
  <2> QED
    BY <2>1, Constants DEF OwnerAt
<1>11. ASSUME NEW t \in Threads, Recheck(t)
       PROVE  (pages[m_tail].index <= EventsPerPage + Cardinality(Waiting))'
  <2>1. /\ owner' = t /\ m_tail' = m_tail /\ pages' = pages
        /\ pc'[t] = IF pages[m_tail].index < EventsPerPage THEN "retry" ELSE "append"
    BY <1>11 DEF Recheck, log, IInv, TypeOK, OneInside, Critical
  <2>2. pages[m_tail].index < EventsPerPage
    BY <2>1, Constants DEF OwnerAt
  <2> QED
    BY <1>2, <1>4, <2>1, <2>2, Constants
<1>12. ASSUME NEW t \in Threads, Retry(t)
       PROVE  (pages[m_tail].index <= EventsPerPage + Cardinality(Waiting))'
  <2>1. /\ owner' = t /\ m_tail' = m_tail /\ page[t] = m_tail /\ Bump(page[t])
        /\ pc'[t] = IF pages[page[t]].index < EventsPerPage THEN "unlock" ELSE "append"
    BY <1>12 DEF Retry, IInv, TypeOK, OneInside, Critical, Placed
  <2>2. pages[m_tail].index < EventsPerPage
    BY <2>1, Constants DEF OwnerAt
  <2>3. pages'[m_tail].index = pages[m_tail].index + 1
    BY <1>2, <2>1, BumpEffect DEF IInv
  <2> QED
    BY <1>2, <1>4, <2>1, <2>2, <2>3, Constants
<1>13. ASSUME NEW t \in Threads, Publish(t)
       PROVE  (pages[m_tail].index <= EventsPerPage + Cardinality(Waiting))'
  <2>1. m_tail' = page[t] /\ pages' = pages /\ pages[page[t]].index = 1
    BY <1>13 DEF Publish, Go, IInv, Placed
  <2> QED
    BY <1>4, <2>1, Constants
<1>14. ASSUME NEW t \in Threads, Trim(t) \/ Unlock(t)
       PROVE  (pages[m_tail].index <= EventsPerPage + Cardinality(Waiting))'
  <2>1. /\ pc[t] \in {"trim", "unlock"} /\ owner = t /\ pages' = pages /\ m_tail' = m_tail /\ page' = page
        /\ \E to \in {"unlock", "write"} : pc' = [pc EXCEPT ![t] = to]
    BY <1>14 DEF Trim, Unlock, Go, log, mine, IInv, OneInside, Critical
  <2>2. Waiting' = Waiting
    BY <2>1 DEF Waiting, IInv, TypeOK
  <2>3. Guard
    BY <2>1 DEF OwnerAt
  <2> QED
    BY <1>3, <2>1, <2>2, <2>3
<1>15. CASE UNCHANGED vars
  <2>1. Guard /\ Waiting' = Waiting
    BY <1>15 DEF vars, log, mine, OwnerAt, Waiting
  <2> QED
    BY <1>3, <1>15, <2>1 DEF vars, log
<1> QED
  BY <1>6, <1>7, <1>8, <1>9, <1>10, <1>11, <1>12, <1>13, <1>14, <1>15 DEF Next, Step

LEMMA LoggedNext == IInv /\ Logged /\ [Next]_vars => Logged'
<1> SUFFICES ASSUME IInv, Logged, [Next]_vars, NEW u \in Threads, NEW n \in Nat \ {0}, HasReturned(u, n)'
             PROVE  (\E p \in 1 .. Len(pages), i \in Slots : pages[p].events[i] = [tid |-> u, call |-> n])'
  BY DEF Logged
<1> DEFINE e == [tid |-> u, call |-> n]
<1>1. e # Free
  BY Constants DEF Free
<1>2. ASSUME HasReturned(u, n), Len(pages') >= Len(pages), Len(pages') \in Nat,
             \A p \in 1 .. Len(pages), i \in Slots :
                 pages[p].events[i] # Free => pages'[p].events[i] = pages[p].events[i]
      PROVE  \E p \in 1 .. Len(pages'), i \in Slots : pages'[p].events[i] = e
  <2>1. PICK p \in 1 .. Len(pages), i \in Slots : pages[p].events[i] = e
    BY <1>2 DEF Logged
  <2>2. p \in 1 .. Len(pages')
    BY <1>2, Known
  <2> QED
    BY <1>1, <1>2, <2>1, <2>2
<1>3. ASSUME calls' = calls, pc'[u] = "idle" => pc[u] = "idle"
      PROVE  HasReturned(u, n)
  BY <1>3 DEF HasReturned
<1> HIDE DEF e
<1>4. ASSUME NEW t \in Threads, Claim(t) \/ ClaimFull(t) \/ Retry(t)
      PROVE  \E p \in 1 .. Len(pages'), i \in Slots : pages'[p].events[i] = e
  <2>1. /\ page[t] \in 1 .. Len(pages) /\ Bump(page[t]) /\ calls' = calls
        /\ \E to \in Pcs : pc' = [pc EXCEPT ![t] = to] /\ to # "idle"
    BY <1>4, KnownPlaces DEF Claim, ClaimFull, Retry, Go, mine, Pcs
  <2>2. /\ Len(pages') = Len(pages)
        /\ \A q \in 1 .. Len(pages) : pages'[q].events = pages[q].events
    BY <2>1, BumpEffect DEF IInv
  <2>3. HasReturned(u, n)
    BY <1>3, <2>1 DEF IInv, TypeOK
  <2> QED
    BY <1>2, <2>2, <2>3, Known
<1>5. ASSUME NEW t \in Threads, Lock(t) \/ Recheck(t) \/ Publish(t) \/ Trim(t) \/ Unlock(t)
      PROVE  \E p \in 1 .. Len(pages'), i \in Slots : pages'[p].events[i] = e
  <2>1. /\ pages' = pages /\ calls' = calls
        /\ \E to \in Pcs : pc' = [pc EXCEPT ![t] = to] /\ to # "idle"
    BY <1>5 DEF Lock, Recheck, Publish, Trim, Unlock, Go, log, mine, Pcs
  <2>2. HasReturned(u, n)
    BY <1>3, <2>1 DEF IInv, TypeOK
  <2> QED
    BY <1>2, <2>1, <2>2, Known
<1>6. ASSUME NEW t \in Threads, LoadTail(t)
      PROVE  \E p \in 1 .. Len(pages'), i \in Slots : pages'[p].events[i] = e
  <2>1. /\ pages' = pages /\ calls' = [calls EXCEPT ![t] = calls[t] + 1]
        /\ pc' = [pc EXCEPT ![t] = "claim"] /\ pc[t] = "idle"
    BY <1>6 DEF LoadTail, Go, log
  <2>2. HasReturned(u, n)
    BY <2>1, KnownPlaces DEF HasReturned, IInv, TypeOK
  <2> QED
    BY <1>2, <2>1, <2>2, Known
<1>7. ASSUME NEW t \in Threads, AppendPage(t)
      PROVE  \E p \in 1 .. Len(pages'), i \in Slots : pages'[p].events[i] = e
  <2>1. /\ m_tail \in 1 .. Len(pages) /\ calls' = calls /\ Len(pages) \in Nat
        /\ pages' = Append([pages EXCEPT ![m_tail].next = Len(pages) + 1], NewPage(1))
        /\ pc' = [pc EXCEPT ![t] = "publish"]
    BY <1>7, Known DEF AppendPage, Go, IInv, Placed
  <2>2. /\ Len(pages') = Len(pages) + 1
        /\ \A q \in 1 .. Len(pages) : pages'[q].events = pages[q].events
    BY <2>1, AppendEffect DEF IInv
  <2>3. HasReturned(u, n)
    BY <1>3, <2>1 DEF IInv, TypeOK
  <2>4. Len(pages') >= Len(pages) /\ Len(pages') \in Nat
    BY <2>1, <2>2
  <2> QED
    BY <1>2, <2>2, <2>3, <2>4
<1>8. ASSUME NEW t \in Threads, Write(t)
      PROVE  \E p \in 1 .. Len(pages'), i \in Slots : pages'[p].events[i] = e
  <2>1. /\ pc[t] = "write" /\ pc' = [pc EXCEPT ![t] = "idle"] /\ calls' = calls
        /\ pages' = [pages EXCEPT ![page[t]].events[slot[t]] = [tid |-> t, call |-> calls[t]]]
    BY <1>8 DEF Write, Go, mine
  <2>2. /\ page[t] \in 1 .. Len(pages) /\ slot[t] \in Slots /\ [tid |-> t, call |-> calls[t]] \in Entries
        /\ pages[page[t]].events[slot[t]] = Free
    BY <2>1, KnownPlaces, KnownClaims DEF Entries, Claimed
  <2>3. /\ Len(pages') = Len(pages)
        /\ \A q \in 1 .. Len(pages) : \A j \in Slots : pages'[q].events[j] =
               IF q = page[t] /\ j = slot[t] THEN [tid |-> t, call |-> calls[t]] ELSE pages[q].events[j]
    <3> DEFINE p0 == page[t]
               i0 == slot[t]
               e0 == [tid |-> t, call |-> calls[t]]
    <3>1. /\ pages' = [pages EXCEPT ![p0].events[i0] = e0]
          /\ e0 \in Entries /\ p0 \in 1 .. Len(pages) /\ i0 \in Slots
      BY <2>1, <2>2
    <3> HIDE DEF p0, i0, e0
    <3>2. /\ Len(pages') = Len(pages)
          /\ \A q \in 1 .. Len(pages) :
                 /\ pages'[q].next = pages[q].next
                 /\ pages'[q].index = pages[q].index
                 /\ \A j \in Slots : pages'[q].events[j] =
                        IF q = p0 /\ j = i0 THEN e0 ELSE pages[q].events[j]
      <4>1. TypeOK
        BY DEF IInv
      <4> QED
        BY <3>1, <4>1, WriteEffect, ZenonT(60)
    <3> QED
      BY <3>2 DEF p0, i0, e0
  <2>4. CASE u = t /\ n = calls[t]
    BY <2>2, <2>3, <2>4 DEF e
  <2>5. CASE ~(u = t /\ n = calls[t])
    <3>1. HasReturned(u, n)
      BY <2>1, <2>5 DEF HasReturned, IInv, TypeOK
    <3>2. \A p \in 1 .. Len(pages), i \in Slots :
              pages[p].events[i] # Free => pages'[p].events[i] = pages[p].events[i]
      BY <2>2, <2>3
    <3> QED
      BY <1>2, <2>3, <3>1, <3>2, Known
  <2> QED
    BY <2>4, <2>5
<1>9. CASE UNCHANGED vars
  <2>1. pages' = pages /\ HasReturned(u, n)
    BY <1>9 DEF vars, log, HasReturned
  <2> QED
    BY <1>2, <2>1, Known DEF e
<1> QED
  BY <1>4, <1>5, <1>6, <1>7, <1>8, <1>9 DEF Next, Step, e

----------------------------------------------------------------------------
(* The log when nobody is inside log().                                    *)

LEMMA CountsNext == IInv /\ Overshoot /\ Logged /\ [Next]_vars => (IInv /\ Overshoot /\ Logged)'
BY NextInv, OvershootNext, LoggedNext

LEMMA InitCounts == Init => Overshoot /\ Logged
<1> SUFFICES ASSUME Init PROVE Overshoot /\ Logged
  OBVIOUS
<1>1. Overshoot
  <2>1. Waiting \subseteq Threads
    BY DEF Waiting
  <2>2. Cardinality(Waiting) \in Nat
    BY <2>1, Constants, FS_Subset, FS_CardinalityType
  <2>3. pages[m_tail].index = 0
    BY DEF Init, NewPage
  <2> QED
    BY <2>2, <2>3, Constants DEF Overshoot
<1>2. Logged
  BY DEF Init, Logged, HasReturned
<1> QED
  BY <1>1, <1>2


\* What the accounts of the log need besides: a tail that is nobody's to append to
\* is past its end by no more than the loggers that wait for the mutex, and every
\* call that returned has left its event on some page.
THEOREM Counts == Spec => [](IInv /\ Overshoot /\ Logged)
BY InitInv, InitCounts, CountsNext, PTL DEF Spec

LEMMA QuietLog ==
  ASSUME IInv, Overshoot, Quiet
  PROVE  /\ owner = NoThread /\ Waiting = {}
         /\ Len(pages) \in Nat /\ 1 <= m_head /\ m_head <= Len(pages) /\ m_head \in Nat
         /\ m_tail = Len(pages) /\ m_head + m_numPages = Len(pages) + 1 /\ m_numPages \in Nat
         /\ pages[Len(pages)].index \in Nat /\ pages[Len(pages)].index <= EventsPerPage
         /\ \A p \in 1 .. Len(pages) : pages[p].index \in Nat
         /\ \A p \in 1 .. Len(pages) : p < Len(pages) => pages[p].index >= EventsPerPage
         /\ \A p \in 1 .. Len(pages), i \in Slots : pages[p].events[i] # Free <=> i < pages[p].index
<1>1. owner = NoThread
  BY DEF IInv, TypeOK, OneInside, Quiet, Critical
<1>2. Waiting = {}
  BY DEF Waiting, Quiet
<1>3. ~OwnerAt({"publish"}) /\ ~OwnerAt({"publish", "trim"})
  BY <1>1, Constants DEF OwnerAt
<1>4. /\ m_tail = Len(pages) /\ m_head + m_numPages = Len(pages) + 1 /\ 1 <= m_head /\ m_head <= m_tail
      /\ \A p \in 1 .. Len(pages) : p < Len(pages) => pages[p].index >= EventsPerPage
  BY <1>3 DEF IInv, Linked
<1>5. pages[Len(pages)].index <= EventsPerPage
  <2>1. Cardinality(Waiting) = 0
    BY <1>2, FS_EmptySet
  <2> QED
    BY <1>1, <1>4, <2>1, Constants DEF Overshoot
<1>6. \A p \in 1 .. Len(pages), i \in Slots : pages[p].events[i] # Free <=> i < pages[p].index
  BY DEF IInv, Counted, Quiet, Claimed
<1>7. m_numPages \in Nat /\ m_head \in Nat
  BY DEF IInv, TypeOK
<1> QED
  BY <1>1, <1>2, <1>4, <1>5, <1>6, <1>7, Known

LEMMA Rectangle ==
  ASSUME NEW A, NEW B, IsFiniteSet(A), IsFiniteSet(B)
  PROVE  /\ IsFiniteSet([m_page : A, m_index : B])
         /\ Cardinality([m_page : A, m_index : B]) = Cardinality(A) * Cardinality(B)
<1> DEFINE R == [m_page : A, m_index : B]
           f == [c \in A \X B |-> [m_page |-> c[1], m_index |-> c[2]]]
<1>1. f \in [A \X B -> R]
  OBVIOUS
<1>2. \A c, d \in A \X B : f[c] = f[d] => c = d
  OBVIOUS
<1>3. ASSUME NEW r \in R
      PROVE  \E c \in A \X B : f[c] = r
  <2>1. <<r.m_page, r.m_index>> \in A \X B /\ f[<<r.m_page, r.m_index>>] = r
    OBVIOUS
  <2> QED
    BY <2>1
<1>4. ExistsBijection(A \X B, R)
  <2> HIDE DEF f, R
  <2> QED
    BY <1>1, <1>2, <1>3 DEF ExistsBijection, Bijection, Injection, Surjection, IsInjective
<1> HIDE DEF f, R
<1>5. IsFiniteSet(R) /\ Cardinality(R) = Cardinality(A \X B)
  BY <1>4, FS_Product, FS_Bijection
<1> QED
  BY <1>5, FS_Product DEF R

\* The events from some page on.
EventsFrom(a) == {it \in Events : a <= it.m_page}

LEMMA EventsCounted ==
  ASSUME IInv, Overshoot, Quiet, NEW a \in 1 .. Len(pages)
  PROVE  /\ IsFiniteSet(EventsFrom(a))
         /\ Cardinality(EventsFrom(a)) = (Len(pages) - a) * EventsPerPage + pages[Len(pages)].index
<1> DEFINE n == Len(pages)
           m == pages[n].index
           R1 == [m_page : a .. n - 1, m_index : Slots]
           R2 == [m_page : {n}, m_index : 0 .. m - 1]
<1>1. n \in Nat /\ m \in Nat /\ m <= EventsPerPage /\ a \in Nat /\ 1 <= a /\ a <= n
  BY QuietLog
<1>2. EventsFrom(a) = R1 \cup R2
  <2>1. ASSUME NEW it \in EventsFrom(a)
        PROVE  it \in R1 \cup R2
    <3>1. it = [m_page |-> it.m_page, m_index |-> it.m_index]
      BY DEF EventsFrom, Events
    <3>2. /\ it.m_page \in a .. n /\ it.m_index \in Slots
          /\ it.m_index < pages[it.m_page].index /\ it.m_index \in Nat
      BY QuietLog, Known DEF EventsFrom, Events, Event
    <3> QED
      BY <1>1, <3>1, <3>2
  <2>2. ASSUME NEW it \in R1 \cup R2
        PROVE  it \in EventsFrom(a)
    <3>1. /\ it \in [m_page : 1 .. n, m_index : Slots] /\ a <= it.m_page
          /\ it.m_page = n => it.m_index < m
      BY <1>1, Constants DEF Slots
    <3>2. it.m_index < pages[it.m_page].index
      <4>1. it.m_page < n => pages[it.m_page].index >= EventsPerPage /\ pages[it.m_page].index \in Nat
        BY <1>1, <3>1, QuietLog
      <4>2. it.m_index \in Nat /\ it.m_index < EventsPerPage /\ it.m_page \in 1 .. n
        BY <3>1, Known
      <4> QED
        BY <1>1, <3>1, <4>1, <4>2, Constants
    <3> QED
      BY <3>1, <3>2, QuietLog DEF EventsFrom, Events, Event
  <2> QED
    BY <2>1, <2>2
<1>3. R1 \cap R2 = {}
  BY <1>1
<1>4. /\ IsFiniteSet(a .. n - 1) /\ Cardinality(a .. n - 1) = n - a
      /\ IsFiniteSet(0 .. m - 1) /\ Cardinality(0 .. m - 1) = m
      /\ IsFiniteSet(Slots) /\ Cardinality(Slots) = EventsPerPage
      /\ IsFiniteSet({n}) /\ Cardinality({n}) = 1
  <2>1. IsFiniteSet(a .. n - 1) /\ Cardinality(a .. n - 1) = n - a
    <3>1. a \in Int /\ n - 1 \in Int /\ (IF a > n - 1 THEN 0 ELSE (n - 1) - a + 1) = n - a
      BY <1>1
    <3> HIDE DEF n
    <3> QED
      BY <3>1, FS_Interval
  <2>2. IsFiniteSet(0 .. m - 1) /\ Cardinality(0 .. m - 1) = m
    <3>1. m - 1 \in Int /\ (IF 0 > m - 1 THEN 0 ELSE (m - 1) - 0 + 1) = m
      BY <1>1
    <3> HIDE DEF m
    <3> QED
      BY <3>1, FS_Interval
  <2>3. IsFiniteSet(Slots) /\ Cardinality(Slots) = EventsPerPage
    <3>1. EventsPerPage - 1 \in Int
          /\ (IF 0 > EventsPerPage - 1 THEN 0 ELSE (EventsPerPage - 1) - 0 + 1) = EventsPerPage
      BY Constants
    <3> QED
      BY <3>1, FS_Interval DEF Slots
  <2> QED
    BY <2>1, <2>2, <2>3, FS_Singleton
<1>5. /\ IsFiniteSet(R1) /\ Cardinality(R1) = (n - a) * EventsPerPage
      /\ IsFiniteSet(R2) /\ Cardinality(R2) = 1 * m
  BY <1>4, Rectangle
<1> HIDE DEF R1, R2
<1>6. Cardinality(R1 \cup R2) = (n - a) * EventsPerPage + m
  <2>1. Cardinality(R1 \cap R2) = 0
    BY <1>3, FS_EmptySet
  <2>2. Cardinality(R1 \cup R2) = Cardinality(R1) + Cardinality(R2) - Cardinality(R1 \cap R2)
    BY <1>5, FS_Union
  <2>3. Cardinality(R1) \in Nat
    BY <1>5, FS_CardinalityType
  <2> QED
    BY <1>1, <1>5, <2>1, <2>2, <2>3
<1> QED
  BY <1>2, <1>5, <1>6, FS_Union

LEMMA WrittenIs ==
  ASSUME IInv, Overshoot, Quiet
  PROVE  Written = EventsFrom(m_head) /\ m_head \in 1 .. Len(pages)
BY RetainedIs, QuietLog DEF Written, EventsFrom, Events

\* Quiet, every call has left one event.
LEMMA CallsAreEvents ==
  ASSUME IInv, Overshoot, Logged, Quiet
  PROVE  IsFiniteSet(Events) /\ Cardinality(Made) = Cardinality(Events)
<1> DEFINE f == [it \in Events |-> <<Event(it).tid, Event(it).call>>]
<1>1. Events = EventsFrom(1) /\ 1 \in 1 .. Len(pages)
  BY QuietLog DEF EventsFrom, Events
<1>2. IsFiniteSet(Events)
  BY <1>1, EventsCounted
<1>3. ASSUME NEW it \in Events
      PROVE  /\ it.m_page \in 1 .. Len(pages) /\ it.m_index \in Slots
             /\ it = [m_page |-> it.m_page, m_index |-> it.m_index]
             /\ it.m_page \in Nat /\ it.m_index \in Nat
             /\ Event(it) = pages[it.m_page].events[it.m_index] /\ Event(it) # Free
             /\ Event(it) \in Entries
             /\ Event(it).tid \in Threads /\ Event(it).call \in 1 .. MaxLogs
             /\ Event(it).call <= calls[Event(it).tid]
  <2>1. /\ it.m_page \in 1 .. Len(pages) /\ it.m_index \in Slots
        /\ it = [m_page |-> it.m_page, m_index |-> it.m_index]
        /\ Event(it) = pages[it.m_page].events[it.m_index] /\ Event(it) # Free
    BY DEF Events, Event
  <2>2. it.m_page \in Nat /\ it.m_index \in Nat
    BY <2>1, Known
  <2>3. pages[it.m_page].events[it.m_index] \in Entries
    BY <2>1, PageType DEF IInv
  <2>4. Event(it).call \in Nat
    BY <2>1, <2>3 DEF Entries
  <2>5. Event(it).tid \in Threads /\ 1 <= Event(it).call /\ Event(it).call <= calls[Event(it).tid]
    BY <2>1 DEF IInv, InOrder
  <2> QED
    BY <2>1, <2>2, <2>3, <2>4, <2>5, KnownPlaces, Constants
<1>4. f \in [Events -> Made]
  <2>1. \A it \in Events : <<Event(it).tid, Event(it).call>> \in Made
    BY <1>3 DEF Made
  <2> QED
    BY <2>1
<1>5. ASSUME NEW a \in Events, NEW b \in Events, f[a] = f[b]
      PROVE  a = b
  <2>1. Event(a).tid = Event(b).tid /\ Event(a).call = Event(b).call
    BY <1>5
  <2>2. ~(Event(a).call < Event(b).call) /\ ~(Event(b).call < Event(a).call)
    BY <1>3, <2>1
  <2>3. /\ ~Precedes(a.m_page, a.m_index, b.m_page, b.m_index)
        /\ ~Precedes(b.m_page, b.m_index, a.m_page, a.m_index)
    BY <1>3, <2>1, <2>2 DEF IInv, Ordered
  <2>4. a.m_page = b.m_page /\ a.m_index = b.m_index
    BY <1>3, <2>3 DEF Precedes
  <2> QED
    BY <1>3, <2>4
<1>6. ASSUME NEW c \in Made
      PROVE  \E it \in Events : f[it] = c
  <2>1. c[1] \in Threads /\ c[2] \in 1 .. MaxLogs /\ c[2] <= calls[c[1]] /\ c = <<c[1], c[2]>>
    BY DEF Made
  <2>2. c[2] \in Nat \ {0} /\ HasReturned(c[1], c[2])
    BY <2>1, Constants DEF HasReturned, Quiet
  <2>3. PICK p \in 1 .. Len(pages), i \in Slots : pages[p].events[i] = [tid |-> c[1], call |-> c[2]]
    BY <2>1, <2>2 DEF Logged
  <2> DEFINE it == [m_page |-> p, m_index |-> i]
  <2>4. Event(it) = [tid |-> c[1], call |-> c[2]]
    BY <2>3 DEF Event
  <2>5. Event(it) # Free
    BY <2>1, <2>4, Constants DEF Free
  <2>6. it \in Events
    BY <2>5 DEF Events
  <2>7. f[it] = c
    BY <2>1, <2>4, <2>6
  <2> QED
    BY <2>6, <2>7
<1>7. ExistsBijection(Events, Made)
  <2> HIDE DEF f
  <2> QED
    BY <1>4, <1>5, <1>6 DEF ExistsBijection, Bijection, Injection, Surjection, IsInjective
<1> QED
  BY <1>2, <1>7, FS_Bijection

LEMMA Arithmetic ==
  ASSUME NEW e \in Nat, NEW n \in Nat, NEW k \in Nat
  PROVE  /\ (n - 1) * e = n * e - e
         /\ (n - k) * e + k * e = n * e
         /\ k < n => k * e + e <= n * e
         /\ n * e \in Nat
<1>1. /\ (n - 1) * e = n * e - e
      /\ (n - k) * e + k * e = n * e
  OBVIOUS
<1>2. \A a \in Nat : a * e \in Nat
  OBVIOUS
<1>3. k < n => (n - k - 1) * e \in Nat /\ n * e = k * e + e + (n - k - 1) * e
  BY <1>2
<1> QED
  BY <1>1, <1>2, <1>3

\* Every call is in the log or was on a page that was full when it was deleted, and
\* dumpStats counts what is in the log.
THEOREM NothingLostButPages == Spec => []NothingElseLost
<1>1. ASSUME IInv, Overshoot, owner = NoThread
      PROVE  Stats <= m_numPages * EventsPerPage
                          + Cardinality({t \in Threads : pc[t] = "lock" /\ page[t] = m_tail})
  <2>1. pages[m_tail].index <= EventsPerPage + Cardinality(Waiting)
    BY <1>1 DEF Overshoot
  <2>2. /\ pages[m_tail].index \in Nat /\ m_numPages \in Nat /\ EventsPerPage \in Nat
        /\ Cardinality(Waiting) \in Nat
    <3>1. Waiting \subseteq Threads
      BY DEF Waiting
    <3> QED
      BY <1>1, <3>1, Known, Constants, FS_Subset, FS_CardinalityType DEF IInv, TypeOK
  <2>3. (m_numPages - 1) * EventsPerPage = m_numPages * EventsPerPage - EventsPerPage
    BY <2>2, Arithmetic
  <2>4. m_numPages * EventsPerPage \in Nat
    BY <2>2, Arithmetic
  <2>5. Stats <= m_numPages * EventsPerPage + Cardinality(Waiting)
    BY <2>1, <2>2, <2>3, <2>4 DEF Stats
  <2> QED
    BY <2>5 DEF Waiting
<1>2. ASSUME IInv, Overshoot, Logged, Quiet
      PROVE  /\ Stats = Cardinality(Written)
             /\ Cardinality(Made) = Cardinality(Written) + EventsPerPage * (Len(pages) - m_numPages)
  <2> DEFINE n == Len(pages)
             m == pages[n].index
  <2>1. /\ n \in Nat /\ m \in Nat /\ 1 <= m_head /\ m_head <= n /\ m_head \in Nat /\ EventsPerPage \in Nat
        /\ m_tail = n /\ m_head = n + 1 - m_numPages /\ m_numPages \in Nat
    <3>1. n + 1 - m_numPages = m_head
      <4>1. m_head + m_numPages = Len(pages) + 1 /\ m_head \in Nat /\ m_numPages \in Nat /\ Len(pages) \in Nat
        BY <1>2, QuietLog
      <4> QED
        BY <4>1
    <3> QED
      BY <1>2, <3>1, QuietLog, Constants
  <2>2. Cardinality(Written) = (n - m_head) * EventsPerPage + m
    BY <1>2, WrittenIs, EventsCounted
  <2>3. Cardinality(Made) = (n - 1) * EventsPerPage + m
    <3>1. Events = EventsFrom(1) /\ 1 \in 1 .. n
      BY <2>1 DEF EventsFrom, Events
    <3> QED
      BY <1>2, <3>1, CallsAreEvents, EventsCounted
  <2>4. Stats = (m_numPages - 1) * EventsPerPage + m
    BY <2>1 DEF Stats
  <2> HIDE DEF n, m
  <2>5. n - m_head = m_numPages - 1
    BY <2>1
  <2>6. (n - 1) * EventsPerPage = (m_numPages - 1) * EventsPerPage + EventsPerPage * (n - m_numPages)
    BY <2>1
  <2>7. (n - 1) * EventsPerPage \in Int /\ (m_numPages - 1) * EventsPerPage \in Int
        /\ EventsPerPage * (n - m_numPages) \in Int
    BY <2>1
  <2> QED
    BY <2>1, <2>2, <2>3, <2>4, <2>5, <2>6, <2>7 DEF n
<1>3. IInv /\ Overshoot /\ Logged => NothingElseLost
  BY <1>1, <1>2 DEF NothingElseLost
<1> QED
  BY <1>3, Counts, PTL

----------------------------------------------------------------------------
(* The iterator.                                                           *)

\* The place of an event among those that are in the log.
Place(it) == (it.m_page - m_head) * EventsPerPage + it.m_index

\* What has been written, as pages and slots.
LEMMA WrittenSlots ==
  ASSUME IInv, Overshoot, Quiet
  PROVE  /\ \A p, i : [m_page |-> p, m_index |-> i] \in Written <=>
                /\ p \in m_head .. Len(pages) /\ i \in Slots /\ i < pages[p].index
         /\ \A it \in Written : it = [m_page |-> it.m_page, m_index |-> it.m_index]
<1>1. \A p, i : [m_page |-> p, m_index |-> i] \in [m_page : 1 .. Len(pages), m_index : Slots]
                   <=> p \in 1 .. Len(pages) /\ i \in Slots
  OBVIOUS
<1>2. ASSUME NEW p \in 1 .. Len(pages), NEW i \in Slots
      PROVE  /\ Event([m_page |-> p, m_index |-> i]) # Free <=> i < pages[p].index
             /\ m_head <= p <=> p \in m_head .. Len(pages)
  BY QuietLog DEF Event
<1>3. \A p \in m_head .. Len(pages) : p \in 1 .. Len(pages)
  BY QuietLog
<1>4. \A it \in Written : it = [m_page |-> it.m_page, m_index |-> it.m_index]
  BY WrittenIs DEF EventsFrom, Events
<1>5. ASSUME NEW p, NEW i
      PROVE  [m_page |-> p, m_index |-> i] \in Written <=>
                /\ p \in m_head .. Len(pages) /\ i \in Slots /\ i < pages[p].index
  <2>1. [m_page |-> p, m_index |-> i] \in Written <=>
           /\ [m_page |-> p, m_index |-> i] \in [m_page : 1 .. Len(pages), m_index : Slots]
           /\ Event([m_page |-> p, m_index |-> i]) # Free
           /\ m_head <= p
    BY WrittenIs DEF EventsFrom, Events
  <2> QED
    BY <1>1, <1>2, <1>3, <2>1
<1> QED
  BY <1>4, <1>5

At(q, j) == [m_page |-> q, m_index |-> j]

LEMMA PlaceIs ==
  ASSUME NEW q, NEW j
  PROVE  Place(At(q, j)) = (q - m_head) * EventsPerPage + j
BY DEF At, Place

LEMMA AtIsInjective ==
  ASSUME NEW p, NEW i, NEW q, NEW j, At(p, i) = At(q, j)
  PROVE  p = q /\ i = j
<1>1. At(p, i).m_page = At(q, j).m_page /\ At(p, i).m_index = At(q, j).m_index
  OBVIOUS
<1> QED
  BY <1>1 DEF At

LEMMA WrittenAt ==
  ASSUME IInv, Overshoot, Quiet
  PROVE  /\ \A p, i : At(p, i) \in Written <=>
                /\ p \in m_head .. Len(pages) /\ i \in Slots /\ i < pages[p].index
         /\ \A it \in Written : it = At(it.m_page, it.m_index)
BY WrittenSlots DEF At

LEMMA Differences ==
  ASSUME NEW h \in Nat, NEW p \in Nat, NEW l \in Nat, h <= p, p <= l
  PROVE  /\ p - h \in Nat /\ l - h \in Nat /\ p - h <= l - h
         /\ p = l <=> p - h = l - h
         /\ p < l <=> p - h < l - h
         /\ p + 1 - h = p - h + 1
         /\ p + 1 = l <=> p - h + 1 = l - h
OBVIOUS

\* One step of the iterator, from an event of the log to the next one or to the end.
LEMMA AdvanceVisits ==
  ASSUME IInv, Overshoot, Quiet, NEW it \in Written
  PROVE  LET n == Cardinality(Written)
         IN  /\ Place(it) \in Nat /\ Place(it) < n /\ it # End
             /\ Place(it) + 1 < n => Advance(it) \in Written /\ Place(Advance(it)) = Place(it) + 1
             /\ Place(it) + 1 = n => Advance(it) = End
<1> DEFINE last == Len(pages)
           m == pages[last].index
           E == EventsPerPage
           p == it.m_page
           i == it.m_index
           n == Cardinality(Written)
<1>1. /\ last \in Nat /\ m_head \in Nat /\ 1 <= m_head /\ m_head <= last
      /\ m \in Nat /\ m <= E /\ E \in Nat /\ 1 <= E
      /\ \A q \in 1 .. last : q < last => pages[q].index >= E
      /\ \A q \in 1 .. last : pages[q].index \in Nat
  BY QuietLog, Constants
<1>2. n = (last - m_head) * E + m
  BY WrittenIs, EventsCounted
<1>18. it = At(p, i)
  BY WrittenAt
<1>3. /\ p \in m_head .. last /\ i \in Slots /\ i < pages[p].index /\ i \in Nat /\ i < E
  BY WrittenAt, Known
<1>4. pages[p].next = IF p < last THEN p + 1 ELSE None
  BY <1>1, <1>3 DEF IInv, Linked
<1>5. End = At(last, m)
  BY QuietLog DEF End, At
<1>6. /\ p + 1 # None
      /\ Advance(it) = IF i + 1 < E THEN At(p, i + 1)
                       ELSE IF p < last THEN At(p + 1, 0)
                       ELSE At(p, pages[p].index)
  <2>1. p + 1 # None /\ None = 0
    BY <1>1, <1>3 DEF None
  <2>2. Advance(it) = IF i + 1 < E THEN [it EXCEPT !.m_index = i + 1]
                       ELSE IF pages[p].next # None THEN At(pages[p].next, 0)
                       ELSE [it EXCEPT !.m_index = pages[p].index]
    BY DEF Advance, At
  <2>3. \A j : [it EXCEPT !.m_index = j] = At(p, j)
    BY <1>18 DEF At
  <2> QED
    BY <1>4, <2>1, <2>2, <2>3
<1>7. \A q, j : Place(At(q, j)) = (q - m_head) * E + j
  BY PlaceIs
<1>17. \A q, j : At(q, j) \in Written <=>
                    /\ q \in m_head .. last /\ j \in Slots /\ j < pages[q].index
  BY WrittenAt
<1>19. /\ p \in Nat /\ m_head \in Nat /\ last \in Nat /\ m_head <= p /\ p <= last
  BY <1>1, <1>3
<1>20. Place(it) = (p - m_head) * E + i
  BY <1>7, <1>18
<1> DEFINE d == p - m_head
           c == last - m_head
<1>8. /\ d \in Nat /\ c \in Nat /\ d <= c /\ (p = last <=> d = c) /\ (p < last <=> d < c)
      /\ p + 1 - m_head = d + 1 /\ (p + 1 = last <=> d + 1 = c)
  BY <1>19, Differences, SMTT(60)
<1>9. Place(it) = d * E + i /\ n = c * E + m
  BY <1>2, <1>20
<1>10. p = last => i < m
  BY <1>3
<1>16. m \in Nat /\ m <= E /\ E \in Nat /\ 1 <= E /\ i \in Nat /\ i < E
  BY <1>1, <1>3
<1> HIDE DEF d, c, n, E, m, i
<1>11. /\ d * E \in Nat /\ c * E \in Nat /\ (d < c => d * E + E <= c * E)
       /\ (d + 1) * E = d * E + E /\ (d + 1 < c => (d + 1) * E + E <= c * E)
  BY <1>1, <1>8, Arithmetic
<1>12. Place(it) \in Nat /\ Place(it) < n
  <2>1. CASE d < c
    BY <1>16, <1>9, <1>11, <2>1
  <2>2. CASE d = c
    BY <1>16, <1>8, <1>9, <1>10, <1>11, <2>2
  <2> QED
    BY <1>8, <2>1, <2>2
<1>13. it # End
  <2>1. it = End => p = last /\ i = m
    BY <1>5, <1>18, AtIsInjective
  <2> QED
    BY <1>10, <1>16, <2>1
<1>14. CASE i + 1 < E
  <2>1. Advance(it) = At(p, i + 1) /\ Place(Advance(it)) = d * E + (i + 1)
    BY <1>1, <1>3, <1>6, <1>7, <1>14 DEF d, E, i
  <2>4. d * E + (i + 1) = Place(it) + 1
    BY <1>9, <1>11, <1>16
  <2>2. ASSUME Place(it) + 1 < n
        PROVE  Advance(it) \in Written /\ Place(Advance(it)) = Place(it) + 1
    <3>1. i + 1 \in Slots /\ p \in 1 .. last
      BY <1>1, <1>3, <1>14, Constants DEF Slots, E
    <3>2. i + 1 < pages[p].index
      <4>1. CASE p < last
        BY <1>1, <1>3, <1>14, <3>1, <4>1
      <4>2. CASE p = last
        <5>1. d = c
          BY <1>8, <4>2
        <5>2. d * E = c * E
          BY <5>1
        <5>3. i + 1 < m
          BY ONLY <1>16, <1>9, <1>11, <2>2, <5>2
        <5> QED
          BY <4>2, <5>3 DEF m
      <4> QED
        BY <1>1, <1>3, <4>1, <4>2
    <3> QED
      BY <1>3, <1>17, <2>4, <2>1, <3>1, <3>2
  <2>3. ASSUME Place(it) + 1 = n
        PROVE  Advance(it) = End
    <3>1. ~(d < c)
      BY <1>16, <1>9, <1>11, <1>14, <2>3
    <3>2. p = last /\ i + 1 = m
      <4>1. d = c /\ p = last
        BY <1>8, <3>1
      <4>2. d * E = c * E
        BY <4>1
      <4>3. i + 1 = m
        BY ONLY <1>16, <1>9, <1>11, <2>3, <4>2
      <4> QED
        BY <4>1, <4>3
    <3> QED
      BY <1>5, <2>1, <3>2
  <2> QED
    BY <1>12, <1>13, <2>2, <2>3 DEF n
<1>15. CASE ~(i + 1 < E)
  <2>1. i + 1 = E
    BY <1>1, <1>3, <1>15
  <2>2. CASE p < last
    <3>1. Advance(it) = At(p + 1, 0) /\ Place(Advance(it)) = (d + 1) * E + 0
      <4>1. Advance(it) = At(p + 1, 0)
        BY <1>6, <1>15, <2>2 DEF E
      <4>2. Place(At(p + 1, 0)) = (p + 1 - m_head) * E + 0
        BY <1>1, <1>3, <1>7 DEF E, i
      <4> QED
        BY <1>8, <4>1, <4>2
    <3>2. Place(Advance(it)) = Place(it) + 1
      <4>1. (d + 1) * E + 0 = d * E + i + 1
        BY <1>11, <1>16, <2>1
      <4> QED
        BY <1>9, <3>1, <4>1
    <3>3. ASSUME Place(it) + 1 < n
          PROVE  Advance(it) \in Written
      <4>1. p + 1 \in m_head .. last /\ p + 1 \in 1 .. last /\ 0 \in Slots
        BY <1>1, <1>3, <2>2, Constants DEF Slots, E
      <4>2. 0 < pages[p + 1].index
        <5>1. CASE p + 1 < last
          BY <1>1, <4>1, <5>1
        <5>2. CASE p + 1 = last
          <6>1. d + 1 = c
            BY <1>8, <5>2
          <6>2. (d + 1) * E < c * E + m
            BY <1>16, <1>9, <1>11, <2>1, <3>3
          <6> QED
            BY <1>1, <1>11, <5>2, <6>1, <6>2, <1>16 DEF m
        <5> QED
          BY <1>1, <4>1, <5>1, <5>2
      <4> QED
        BY <1>17, <3>1, <4>1, <4>2
    <3>4. ASSUME Place(it) + 1 = n
          PROVE  Advance(it) = End
      <4>1. d * E + E = c * E + m
        BY <1>16, <1>9, <1>11, <2>1, <3>4
      <4>2. ~(d + 1 < c)
        BY <1>1, <1>11, <4>1
      <4>3. d + 1 = c
        BY <1>8, <2>2, <4>2
      <4>4. m = 0
        BY <1>1, <1>11, <4>1, <4>3
      <4> QED
        BY <1>5, <1>8, <3>1, <4>3, <4>4
    <3> QED
      BY <1>12, <1>13, <3>2, <3>3, <3>4 DEF n
  <2>3. CASE ~(p < last)
    <3>1. p = last
      BY <1>1, <1>3, <2>3
    <3>2. Advance(it) = End
      BY <1>5, <1>6, <1>15, <2>3, <3>1 DEF E, m
    <3>3. m = E /\ Place(it) + 1 = n
      <4>1. d * E = c * E
        BY <1>8, <3>1
      <4>2. i < m
        BY <1>10, <3>1
      <4> QED
        BY ONLY <1>16, <1>9, <1>11, <2>1, <4>1, <4>2
    <3> QED
      BY <1>12, <1>13, <3>2, <3>3 DEF n
  <2> QED
    BY <2>2, <2>3
<1> QED
  BY <1>14, <1>15

\* Where the iterator starts: at the first event, or at the end of an empty log.
LEMMA BeginVisits ==
  ASSUME IInv, Overshoot, Quiet
  PROVE  /\ Cardinality(Written) \in Nat
         /\ Cardinality(Written) > 0 => Begin \in Written /\ Place(Begin) = 0
         /\ Cardinality(Written) = 0 => Begin = End
<1> DEFINE last == Len(pages)
           m == pages[last].index
           E == EventsPerPage
           n == Cardinality(Written)
           c == last - m_head
<1>1. /\ last \in Nat /\ m_head \in Nat /\ 1 <= m_head /\ m_head <= last
      /\ m \in Nat /\ E \in Nat /\ 1 <= E
      /\ m_head < last => pages[m_head].index >= E /\ pages[m_head].index \in Nat
  <2>1. m_head \in 1 .. last
    BY QuietLog
  <2> QED
    BY <2>1, QuietLog, Constants
<1>2. n = c * E + m
  BY WrittenIs, EventsCounted
<1>3. Begin = At(m_head, 0) /\ End = At(last, m)
  BY QuietLog DEF Begin, End, At
<1>4. Place(Begin) = (m_head - m_head) * E + 0
  BY <1>3, PlaceIs
<1>5. Begin \in Written <=>
         /\ m_head \in m_head .. last /\ 0 \in Slots /\ 0 < pages[m_head].index
  BY <1>3, WrittenAt
<1>6. m_head \in m_head .. last /\ 0 \in Slots
  BY <1>1 DEF Slots
<1>7. c \in Nat /\ (c = 0 <=> m_head = last) /\ (c > 0 <=> m_head < last)
  BY <1>1
<1>8. Place(Begin) = 0
  <2>1. (m_head - m_head) * E = 0
    BY <1>1
  <2> QED
    BY <1>4, <2>1
<1>9. CASE m_head = last
  <2>1. n = m
    <3>1. c = 0 /\ c * E = 0
      BY <1>1, <1>9
    <3> HIDE DEF c, E, m
    <3> QED
      BY <1>1, <1>2, <3>1
  <2>2. n > 0 => Begin \in Written
    BY <1>5, <1>6, <1>9, <2>1
  <2>3. n = 0 => Begin = End
    BY <1>3, <1>9, <2>1
  <2> QED
    BY <1>1, <1>8, <2>1, <2>2, <2>3
<1>10. CASE m_head < last
  <2>1. Begin \in Written
    BY <1>1, <1>5, <1>6, <1>10
  <2>2. n \in Nat /\ n > 0
    <3> HIDE DEF c, E, m, n
    <3>1. c * E \in Nat /\ 0 * E + E <= c * E /\ 0 * E \in Nat
      BY <1>1, <1>7, <1>10, Arithmetic
    <3> QED
      BY <1>1, <1>2, <3>1
  <2> QED
    BY <1>8, <2>1, <2>2
<1> QED
  BY <1>1, <1>9, <1>10

\* No two events have the same place.
LEMMA PlaceIsInjective ==
  ASSUME IInv, Overshoot, Quiet, NEW a \in Written, NEW b \in Written, Place(a) = Place(b)
  PROVE  a = b
<1> DEFINE E == EventsPerPage
           x == a.m_page - m_head
           y == b.m_page - m_head
           i == a.m_index
           j == b.m_index
<1>1. /\ E \in Nat /\ a = At(a.m_page, i) /\ b = At(b.m_page, j)
      /\ a.m_page \in m_head .. Len(pages) /\ b.m_page \in m_head .. Len(pages)
      /\ i \in Slots /\ j \in Slots /\ m_head \in Nat /\ Len(pages) \in Nat
  <2>1. a = At(a.m_page, i) /\ b = At(b.m_page, j)
    BY WrittenAt
  <2>2. At(a.m_page, i) \in Written /\ At(b.m_page, j) \in Written
    BY <2>1
  <2> QED
    BY <2>1, <2>2, WrittenAt, QuietLog, Constants
<1>2. i \in Nat /\ i < E /\ j \in Nat /\ j < E /\ x \in Nat /\ y \in Nat
  <2>1. i \in 0 .. E - 1 /\ j \in 0 .. E - 1
    BY <1>1 DEF Slots
  <2>2. x \in Nat /\ y \in Nat
    BY <1>1
  <2> HIDE DEF E, i, j, x, y
  <2> QED
    BY <1>1, <2>1, <2>2
<1>3. x * E + i = y * E + j
  BY DEF Place
<1>4. x = y => a.m_page = b.m_page
  BY <1>1
<1> HIDE DEF E, x, y, i, j
<1>5. x * E \in Nat /\ y * E \in Nat /\ (x < y => x * E + E <= y * E) /\ (y < x => y * E + E <= x * E)
  BY <1>1, <1>2, Arithmetic
<1>6. x = y
  BY <1>1, <1>2, <1>3, <1>5
<1>7. i = j
  <2>1. x * E = y * E
    BY <1>6
  <2> QED
    BY <1>2, <1>3, <1>5, <2>1
<1> QED
  BY <1>1, <1>4, <1>6, <1>7

\* The loop from begin() is at the k-th event after k steps, and at end() after
\* as many steps as there are events.
LEMMA LoopVisits ==
  ASSUME IInv, Overshoot, Quiet
  PROVE  LET n == Cardinality(Written)
         IN  /\ n \in Nat
             /\ Iterate(n)[n] = End
             /\ \A k \in 0 .. n - 1 : /\ Iterate(n)[k] \in Written
                                      /\ Place(Iterate(n)[k]) = k
                                      /\ Iterate(n)[k] # End
<1> DEFINE n == Cardinality(Written)
           Chain(g) == [k \in 0 .. n |-> IF k = 0 THEN Begin
                                         ELSE IF g[k - 1] = End THEN End ELSE Advance(g[k - 1])]
           Visits(g, k) == /\ k < n => g[k] \in Written /\ Place(g[k]) = k
                           /\ k = n => g[k] = End
           w == [k \in 0 .. n |-> IF k < n THEN CHOOSE it \in Written : Place(it) = k ELSE End]
           at == CHOOSE g : g = Chain(g)
<1>1. Iterate(n) = at
  BY DEF Iterate
<1>2. /\ n \in Nat
      /\ n > 0 => Begin \in Written /\ Place(Begin) = 0
      /\ n = 0 => Begin = End
  BY BeginVisits
<1>3. ASSUME NEW it \in Written
      PROVE  /\ Place(it) \in Nat /\ Place(it) < n /\ it # End
             /\ Place(it) + 1 < n => Advance(it) \in Written /\ Place(Advance(it)) = Place(it) + 1
             /\ Place(it) + 1 = n => Advance(it) = End
  BY AdvanceVisits
<1> HIDE DEF n
<1>4. ASSUME NEW g, g = Chain(g)
      PROVE  \A k \in 0 .. n : Visits(g, k)
  <2> DEFINE S == {k \in 0 .. n : Visits(g, k)}
  <2>1. \A k \in 0 .. n : g[k] = IF k = 0 THEN Begin
                                 ELSE IF g[k - 1] = End THEN End ELSE Advance(g[k - 1])
    BY <1>4
  <2>2. 0 \in S
    BY <1>2, <2>1
  <2>3. ASSUME NEW k \in 1 .. n, k - 1 \in S
        PROVE  k \in S
    <3>1. k \in 0 .. n /\ k # 0 /\ k - 1 < n /\ k - 1 \in 0 .. n /\ k - 1 + 1 = k /\ k \in Nat
      BY <1>2
    <3>2. g[k - 1] \in Written /\ Place(g[k - 1]) = k - 1
      BY <2>3, <3>1
    <3>3. g[k] = Advance(g[k - 1])
      BY <1>3, <2>1, <3>1, <3>2
    <3>4. k < n => g[k] \in Written /\ Place(g[k]) = k
      BY <1>3, <3>1, <3>2, <3>3
    <3>5. k = n => g[k] = End
      BY <1>3, <3>1, <3>2, <3>3
    <3> QED
      BY <3>1, <3>4, <3>5
  <2>4. \A k \in 0 .. n : k \in S
    <3> HIDE DEF S
    <3> QED
      BY <1>2, <2>2, <2>3, IntervalInduction
  <2> QED
    BY <2>4
<1>5. \A k \in 0 .. n : k < n => \E it \in Written : Place(it) = k
  <2> DEFINE S == {k \in 0 .. n : k < n => \E it \in Written : Place(it) = k}
  <2>1. 0 \in S
    BY <1>2
  <2>2. ASSUME NEW k \in 1 .. n, k - 1 \in S
        PROVE  k \in S
    <3>1. k \in 0 .. n /\ k - 1 < n /\ k - 1 + 1 = k
      BY <1>2
    <3>2. PICK it \in Written : Place(it) = k - 1
      BY <2>2, <3>1
    <3>3. k < n => Advance(it) \in Written /\ Place(Advance(it)) = k
      BY <1>3, <3>1, <3>2
    <3> QED
      BY <3>1, <3>3
  <2>3. \A k \in 0 .. n : k \in S
    <3> HIDE DEF S
    <3> QED
      BY <1>2, <2>1, <2>2, IntervalInduction
  <2> QED
    BY <2>3
<1>6. \A k \in 0 .. n : Visits(w, k)
  <2> SUFFICES ASSUME NEW k \in 0 .. n
               PROVE  Visits(w, k)
    OBVIOUS
  <2>1. CASE k < n
    <3>1. w[k] = CHOOSE it \in Written : Place(it) = k
      BY <2>1
    <3>2. \E it \in Written : Place(it) = k
      BY <1>5, <2>1
    <3>3. w[k] \in Written /\ Place(w[k]) = k
      BY <3>1, <3>2
    <3> HIDE DEF w
    <3> QED
      BY <1>2, <2>1, <3>3
  <2>2. CASE k = n
    BY <1>2, <2>2
  <2> QED
    BY <1>2, <2>1, <2>2
<1>7. Chain(w) = w
  <2> SUFFICES ASSUME NEW k \in 0 .. n
               PROVE  Chain(w)[k] = w[k]
    OBVIOUS
  <2>1. Chain(w)[k] = IF k = 0 THEN Begin ELSE IF w[k - 1] = End THEN End ELSE Advance(w[k - 1])
    OBVIOUS
  <2> HIDE DEF w, Chain
  <2>2. CASE k = 0
    <3>1. CASE n = 0
      BY <1>2, <1>6, <2>1, <2>2, <3>1
    <3>2. CASE n > 0
      <4>1. w[k] \in Written /\ Place(w[k]) = 0
        BY <1>6, <2>2, <3>2
      <4> QED
        BY <1>2, <2>1, <2>2, <3>2, <4>1, PlaceIsInjective
    <3> QED
      BY <1>2, <3>1, <3>2
  <2>3. CASE k # 0
    <3>1. k - 1 < n /\ k - 1 \in 0 .. n /\ k - 1 + 1 = k /\ (k < n \/ k = n)
      BY <1>2, <2>3
    <3>2. w[k - 1] \in Written /\ Place(w[k - 1]) = k - 1
      BY <1>6, <3>1
    <3>3. Chain(w)[k] = Advance(w[k - 1])
      BY <1>3, <2>1, <2>3, <3>2
    <3>4. CASE k < n
      <4>1. Advance(w[k - 1]) \in Written /\ Place(Advance(w[k - 1])) = k
        BY <1>3, <3>1, <3>2, <3>4
      <4>2. w[k] \in Written /\ Place(w[k]) = k
        BY <1>6, <3>4
      <4> QED
        BY <3>3, <4>1, <4>2, PlaceIsInjective
    <3>5. CASE k = n
      <4>1. Advance(w[k - 1]) = End
        BY <1>3, <3>1, <3>2, <3>5
      <4>2. w[k] = End
        BY <1>6, <3>5
      <4> QED
        BY <3>3, <4>1, <4>2
    <3> QED
      BY <3>1, <3>4, <3>5
  <2> QED
    BY <2>2, <2>3
<1>8. at = Chain(at)
  <2> HIDE DEF Chain, w
  <2> QED
    BY <1>7
<1> HIDE DEF at, Chain, w
<1>9. \A k \in 0 .. n : Visits(at, k)
  BY <1>4, <1>8
<1>10. at[n] = End
  BY <1>2, <1>9
<1>11. ASSUME NEW k \in 0 .. n - 1
       PROVE  at[k] \in Written /\ Place(at[k]) = k /\ at[k] # End
  <2>1. k \in 0 .. n /\ k < n
    BY <1>2
  <2>2. at[k] \in Written /\ Place(at[k]) = k
    BY <1>9, <2>1
  <2> QED
    BY <1>3, <2>2
<1> QED
  BY <1>1, <1>2, <1>10, <1>11 DEF n

\* dumpEntireLog walks the same slots page by page.
LEMMA DumpedIs ==
  ASSUME IInv, Overshoot, Quiet
  PROVE  Dumped = Written
<1>1. ASSUME NEW it \in Written
      PROVE  it \in Dumped
  <2>1. it = At(it.m_page, it.m_index)
    BY WrittenAt
  <2>2. /\ it.m_page \in m_head .. Len(pages) /\ it.m_index \in Slots
        /\ it.m_index < pages[it.m_page].index
    BY <2>1, WrittenAt
  <2> QED
    BY <2>1, <2>2, RetainedIs DEF Dumped, At
<1>2. ASSUME NEW it \in Dumped
      PROVE  it \in Written
  <2>1. /\ it = At(it.m_page, it.m_index)
        /\ it.m_page \in m_head .. Len(pages) /\ it.m_index \in Slots
        /\ it.m_index < pages[it.m_page].index
    BY RetainedIs DEF Dumped, At
  <2> QED
    BY <2>1, WrittenAt
<1> QED
  BY <1>1, <1>2

\* "Iterators are meant to be used only after all logging is complete", and then
\* a loop over the log, through operator++ as through dumpEntireLog, sees every
\* event of the pages that are kept once and nothing else, however many threads
\* logged and wherever the last page ends.
THEOREM IteratorVisits == Spec => []IteratorVisitsLog
<1>1. IInv /\ Overshoot /\ Logged => IteratorVisitsLog
  <2> SUFFICES ASSUME IInv, Overshoot, Quiet
               PROVE  LET n == Cardinality(Written)
                          at == Iterate(n)
                      IN  /\ at[n] = End /\ \A k \in 0 .. n - 1 : at[k] # End
                          /\ {at[k] : k \in 0 .. n - 1} = Written
                          /\ Dumped = Written
    BY DEF IteratorVisitsLog
  <2> DEFINE n == Cardinality(Written)
             at == Iterate(n)
  <2>1. /\ n \in Nat /\ at[n] = End
        /\ \A k \in 0 .. n - 1 : at[k] \in Written /\ Place(at[k]) = k /\ at[k] # End
    BY LoopVisits
  <2>2. ASSUME NEW it \in Written
        PROVE  \E k \in 0 .. n - 1 : it = at[k]
    <3>1. Place(it) \in 0 .. n - 1
      BY <2>1, AdvanceVisits
    <3>2. at[Place(it)] \in Written /\ Place(at[Place(it)]) = Place(it)
      BY <2>1, <3>1
    <3>3. it = at[Place(it)]
      BY <3>2, PlaceIsInjective
    <3> QED
      BY <3>1, <3>3
  <2> HIDE DEF n, at
  <2>3. {at[k] : k \in 0 .. n - 1} = Written
    BY <2>1, <2>2
  <2> QED
    BY <2>1, <2>3, DumpedIs DEF n, at
<1> QED
  BY <1>1, Counts, PTL
=============================================================================
