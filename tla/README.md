# Turf: specifications, model checking and proofs

Turf is a C++ adapter over platform threads, atomics, locks, timers and heaps,
with a few concurrent components of its own. This directory holds TLA+ models
of the components that carry logic of their own, TLC configurations that check
them, and theorems about them that TLAPS checks.

Paths below are relative to the repository (`turf/...`).

## 1. Inventory

| Component | State | Operations | Interacts with |
|---|---|---|---|
| `extra/JobDispatcher.h` | vector of workers, `mustExit` of each, `m_threadFilter`, `m_action`, `m_param`, two gates | constructor, destructor, `setNumSpawnedThreads`, `kickOne`, `kickMulti`, `kick` (two overloads); `threadRun` on every worker | `SpinKicker` (gates), `Thread` (run, join), `Affinity` |
| `extra/SpinKicker.h` | one atomic counter | `waitForKick`, `kick(count)` | `Atomic` |
| `impl/Mutex_LazyInit.h` | `m_initFlag`, `m_spinLock`, raw storage of a `Mutex` | `lock` (with `lazyInit`), `unlock`, `zeroInit`, destructor | `Mutex`, `Atomic` |
| `Mutex.h`, `impl/Mutex_*.h` | the platform's recursive mutex | `lock`, `tryLock`, `unlock`; `LockGuard` | everything that locks |
| `impl/Trace_MemLog.*` | list of pages, `m_head`, `m_tail`, `m_numPages`, `m_mutex`; per page `index`, `next`, `events` | `log`, `allocateEventFromNewPage`, iterator, `dumpStats`, `dumpEntireLog` | `Mutex`, `Atomic`, `TID` |
| `impl/Trace_Counters.*` | lock-free list of groups, one counter per event | `addGroup`, `TURF_TRACE`, `dumpStats` | `Atomic` |
| `impl/ManualResetEvent_*` | `m_state`, a mutex, a condition variable; or the event of Win32 | `signal`, `reset`, `wait` | `Mutex`, `ConditionVariable` |
| `impl/ConditionVariable_*` | the platform's object | `wait`, `timedWait` (computes a deadline), `wakeOne`, `wakeAll` | `Mutex` |
| `impl/Semaphore_*` | the platform's object | `wait` (retries when interrupted), `signal(count)` (a loop of posts) | the platform |
| `Mutex_SpinLock.h`, `impl/RWLock_*` | one atomic word; the platform's object | locks, exclusive and shared, and their guards | `Atomic`, the platform |
| `RaceDetector.h` | `entered` | guard constructor and destructor | `Atomic` |
| `impl/TLSPtr_*` | a thread-specific key | `setData`, `getData`, destructor; it owns the values | the platform |
| `impl/Thread_*` | handle, attached or not | `run`, `join`, destructor (detach) | the platform |
| `impl/Affinity_*` | cores and their logical processors | constructor, `setAffinity` | the platform |
| `impl/CPUTimer_*`, `UTCTime` | tick counts | difference and comparison across wrap-around | the platform |
| `BitField.h`, `Util.h`, `extra/UniqueSequence.h`, `extra/TimeWaster.*` | one or a few words | calculations with words that wrap | - |
| `c/atomic.h`, `c/impl/*`, `impl/Atomic_*` | atomic words | loads, stores, read-modify-writes, fences per compiler and CPU | the CPU |
| `impl/Heap_DL.*` (an adapted dlmalloc) | `malloc_state`: segments of chunks with boundary tags, small bins, tree bins, designated victim, top; footprint and its limit | `alloc`, `allocAligned`, `realloc`, `free`, `getStats`; also exported: realloc in place, independent allocation, bulk free, trim, footprint limit | `MemPage` (maps and unmaps), `Mutex_LazyInit` |
| `Heap.cpp`, `impl/Heap_CRT.h`, `MemPage`, `TID` | - | one call to the C library or the system each | the platform |
| `extra/Options.*`, `extra/Random.*` | parsed arguments; a generator's words | parse once; next number | - |

What is hard here: the reuse of a gate by threads that run ahead of others;
counts that change between the two gates of one call; plain fields that only
the gates order; double-checked initialisation and double-checked allocation;
deletion of a page that another thread may still hold; destruction followed by
reuse; a heap whose tags, bins and records are only right together, over any
history of calls and whatever memory the system gives; instruction sequences
that can be interrupted anywhere and fail for no reason; fences that no x86
misses; spurious wake-ups, interrupted waits and deadlines; numbers that wrap.
`PROJECT.json` lists each of these hazards at its line, with the properties that
cover it.

## 2. What is modelled

### SpinKicker

`SpinKicker` has one variable, `m_kickVar`, and one operator per atomic access:
`Arrive` (the `fetchAdd`), `Released` (the exit condition of the waiting loop),
`Ready(count)` (the exit condition of the kicking loop) and `Kick` (the store).
`JobDispatcher` instantiates it twice (`startGate`, `endGate`) and gives every
access a step of its own.

### JobDispatcher

One thread, called main here, owns the object and calls its operations one
after the other; workers `1 .. size - 1` run `threadRun`. `pc` says where main
is, `wpc[w]` where worker `w` is.

| Code | Actions |
|---|---|
| `threadRun` | `ArriveStart PassStart CheckExit Skip BeginAction EndAction ArriveEnd PassEnd` |
| entry of each public operation | `Construct SetNum Destroy KickOne KickMulti KickAll` |
| `setNumSpawnedThreads`, growing | `Spawn GrowDone` |
| `setNumSpawnedThreads`, shrinking | `ShrinkStart ShrinkStartStore Join Resize ShrinkEnd ShrinkEndStore` |
| the tail of the kicks | `KickStart KickStartStore SelfBegin SelfSkip SelfEnd KickEnd KickEndStore Return` |

`Continue` is the return of `setNumSpawnedThreads` to whoever called it. `runs`
is a history variable: how often each index has been run in the current call.
The writes of main to the plain fields between two atomic accesses form one
step; `MainWritesOnlyWhileWorkersWait` is the reason why nobody can see a part
of them. The user's action is abstracted to the thunk having been called. Core
affinities and the heap cells of `WorkerThread` are left out.

`ForkJoin` is the abstract specification: a call opens with a set of indices,
each of them begins and ends once, in any order, and the call returns when all
are over. `JobDispatcherImpl` gives the refinement mapping: the call is open
while a kick operation is in progress, an index is pending while it is
requested and has not run, and active while a worker (or main) is in its action.
Growing and shrinking happen inside or between abstract calls and are stutters.

`KickMultiMayShrink` selects between the two uses of `kickMulti`. The code
accepts fewer targets than there are threads (there is no assertion), and then
runs none of them: see the finding below. Everything about the gates is checked
and proved with that case included; what the kicks run is proved without it.

### Mutex and Mutex_LazyInit

`Mutex` is the recursive mutex of `impl/Mutex_POSIX.h`: an owner and a depth.
`MutexLazyInit` models `lock` with its double-checked `lazyInit`, `unlock` and
the destructor (which zeroes the object, after which it may be locked again).
Visibility is part of the state: `seen[t]` says that the construction and the
store of the flag happen before thread `t`'s next step. A thread that has not
seen them may read a stale `false` from `m_initFlag`; acquire reads of a
released value (`flagCarries`, `spinCarries`) take the knowledge over.
`loadNonatomic` takes over nothing: it relies on the spin lock. It is checked as the
subject `lazy` of `Adapters`, below.

### Trace_MemLog

`MemLog` keeps every page ever allocated, numbered in order of allocation; a
page that `m_head` has moved past is deleted in the code. `LoadTail`, `Claim`,
`ClaimFull` and `Write` are `log`; `Lock`, `Recheck`, `Retry`, `AppendPage`,
`Publish`, `Trim` and `Unlock` are `allocateEventFromNewPage`. The iterator and
the two dumps are operators on the state. The counters are sequentially
consistent: each `index` is a single location that is only ever incremented by
read-modify-writes, which always see the latest value, and the plain load in
`Recheck` may only be too low, which leads to the same `Retry`.

`MayStall = FALSE` assumes what the code needs and does not enforce: that no
logger holds a page so long that it is deleted in the meantime (in the code,
4 pages of 16384 events). The run `memlog_stale` drops the assumption.

### Heap_DL

All operations of `Heap_DL::Operator` hold the heap's mutex from their first to
their last access, so each is one step. The state is `heap`, a record with the
fields of `malloc_state` and the heads and feet in memory, and `blocks`, what
the users hold. Operators take a heap and return one; they bear the names of
the functions and macros they model.

| Module | Code |
|---|---|
| `HeapChunks` | head and foot macros, bins as queues, `replace_dv`, `init_top`, consolidation (`dispose_chunk`, and the same code in `dlfree`) |
| `HeapSegments` | `sys_alloc`, `prepend_alloc`, `add_segment`, `release_unused_segments`, `sys_trim` |
| `Heap` | `dlmalloc`, `dlfree`, `try_realloc_chunk`, `dlrealloc`, `internal_memalign`, `ialloc`, `internal_bulk_free`, `internal_malloc_stats`, the footprint limit; the actions and properties |
| `HeapTree` | the pointers of the tree bins: `insert_large_chunk`, `unlink_large_chunk`, `tmalloc_large`, `tmalloc_small`, `compute_tree_index` |
| `Allocator`, `HeapImpl` | what users rely on, and the refinement |

Sizes and addresses count granules of 16 bytes (`MALLOC_ALIGNMENT`): every chunk
size and address is a multiple of it, a smallest chunk is 2, a segment record 3
and the overhead of a segment 5, as on a 64-bit platform. Where the system maps
new memory, whether it does, and whether it agrees to unmap are chosen freely:
`MemPage_Win32` can fail to release a part of a mapping. A merged header is
erased and a user overwrites the foot behind his block, so that nothing in the
model can be right only because stale memory still says so. A failed runtime
check or assertion sets `aborted`.

`HeapTree` is a machine of its own, in which chunks enter and leave the tree
bins; `ImplementsBins` shows that it does to its queues what `HeapChunks` says,
and `BestFit` that both searches return what `Heap` takes. The loops that go down
a trie are functions on depths: `Path(s)` is the node at each depth on the way of
size `s`, as long as there is one. `IndexBits` is the width of the variable in which
`compute_tree_index` holds the shifted size: an `unsigned int` with gcc on x86, a
`size_t` otherwise. `Indexable` are the sizes that fit (below 2^40 bytes with gcc on
x86-64).

Left out: direct mapping of large requests, which this code cannot reach
(`mparams.default_mflags` is never copied into `mflags`, so `use_mmap` is always
false, although `Heap_DL.cpp:2089` announces it); the wrappers `calloc`,
`valloc` and `usable_size`; the `FOOTERS`, `INSECURE` and `MORECORE` variants;
everything smaller than a granule.

### Atomic operations

`AtomicCell` is the abstract specification: a call takes effect at one instant
between its beginning and its end, and only the weak compare-exchange may fail
without a reason. `AtomicCode` is a table of programs: for each implementation
(ARM, ARM Thumb, gcc and MSVC on x86 and x64, and the C++ classes over them,
`std::atomic` and `boost::atomic`) and each operation the sequence of
instructions that carries it out, the fences its wrapper puts around it, and how
the caller learns whether it succeeded. `Atomics` runs these programs on several
threads, one access to memory at a time: `ldrex` sets a monitor that any write
to the cell clears, `strex` may fail at any time, `cmpxchg` compares and writes
in one step, a 64-bit access on x86 is two, and an unset register holds
anything. A cell has two bits, one for each word of a 64-bit cell.

Memory order is modelled as knowledge (C++11 29.8): a thread writes data of its
own before each call, a release fence fixes what its later writes carry, a read
makes what the value carries acquirable, an acquire fence acquires it.
`published` and `owed` are what the orders the *caller asked for* promise;
`AcquireSeesRelease` compares them with what the fences *in the code* give. It
is about acquiring and releasing through one cell; orders between different
cells are left out.

Left out are operations that cannot work as they are written: ARM's weak
compare-exchange of 8 and 16 bits (`c/impl/atomic_gcc_arm.h:124` and 250 compare
with the address of `expected`, and read a status no instruction may have set),
its 64-bit exchange (`c/impl/atomic_gcc_arm.c:406`, marked FIXME, is a copy of
compareExchange), its weak 64-bit compare-exchange (commented out, line 373);
the Thumb code declares fences under other names than `c/atomic.h` calls and has
no exchange (its operations on 8, 16 and 32 bits are modelled, with the fences
their wrappers would call). `Atomic_Boost`'s constructor ignores its argument
(`impl/Atomic_Boost.h:51`), so only cells that start as 0 are modelled. The
`cmpxchg8b` without a lock prefix is two steps, a compare and a write, as the
comment at the code allows.

### The adapters

`Adapters` puts the small classes side by side. They share no state, so a
behaviour exercises one of them, the `subject`; each is a module of its own with
its `Init`, `Next` and properties, and can be read and proved about alone.

| Module | Code | Clients |
|---|---|---|
| `Locks` | `Mutex_*`, `Mutex_SpinLock`, `RWLock_POSIX`, `RWLock_Win32`, the lock guards, `RaceDetectGuard` | the four lock testers of `samples/SynchroTests`; an access to shared memory is a step |
| `Waits`, `Deadline` | `ManualResetEvent_*`, `ConditionVariable_*` | threads that call any operation |
| `Semaphore` | `Semaphore_*` | waiters, and signallers of any count |
| `Affinity` | `Affinity_*`, `CoreInfoCollector`, `getTopology` | generated machines, a constructor, threads that pin themselves |
| `ThreadLocal` | `TLSPtr_*`, `Thread_*` | `TLSPtrTester`, with values that are replaced |
| `Counters` | `Trace_Counters`, `TraceGroup` | two threads that construct groups, one that dumps |
| `MutexLazyInit`, `Mutex` | `Mutex_LazyInit` | threads that lock, unlock and destroy |
| `Numbers` | `BitField.h`, `CPUTimer_*::Point`, `Util.h`, `UniqueSequence`, `TimeWaster` | any sequence of operations |

Some choices in them:

- An adapter of `Locks` is what its constructor asks of the system: recursive,
  shared, blocking. The race detector is a lock that does not block; after a
  report the model goes on, so that `RacesReported` also judges later sections.
  `Mutex_CPP11` and `Mutex_Boost` are not recursive, so `RecursiveMutexTester`
  is not run on them: it would be undefined behaviour.
- In `Waits` a blocked thread may wake up for nothing and must get the mutex back
  before it goes on. Time passes only by `Tick`, nanosecond by nanosecond of the
  instance. A `timedWait` is timed from its entry, which its caller makes with the
  mutex held (`began`), so the time to get the mutex does not count. The POSIX
  deadline is the one of Linux; the branch for Apple is left out (section 5).
- `Semaphore` keeps `lost`, the units that posts at the maximum did not add: the
  code does not look at their results. Only the wait of POSIX can be interrupted
  by a signal handler. `Semaphore_Mach` and `Semaphore_Win32` do not look at what
  their waits return, and `wait` would return without a unit if `semaphore_wait`
  were aborted (`KERN_ABORTED`) or `WaitForSingleObject` failed: that they do not
  is an assumption about the system.
- In `Counters` the dumping thread may read any value that `m_next` has had,
  unless it wrote it itself or has joined the thread that did: the list is built
  with relaxed operations only. What is promised is therefore conditional on the
  groups the dump meets.
- `Affinity` generates machines (package and core of each processor), what the
  system reports of them, and which processors the thread may use. If Linux
  reports only the package ("physical id" without "core id") all processors of a
  package become one core, and the object still calls itself accurate; such
  machines are generated, and exempt from the comparison with the real cores.
  What an accurate object lists differs: on Linux and Win32 it is every
  processor, whichever the thread may use; the constructor for FreeBSD stops at
  the first processor the system refuses it, lists those before, and calls itself
  accurate all the same (`Affinity_FreeBSD.cpp:218-224`). `PinnedApart` says
  exactly this (`Reached`). Mach tells only how many there are, and the property
  says no more than that its tags are all different.
- `leaked` in `ThreadLocal` are values nothing can delete any more: with POSIX
  and Win32 keys a thread that ends leaves its last value behind.
- `Numbers` calculates with words of `Width` bits. A `BitField` type narrower
  than `int` is promoted, and both cases occur. `told` is what the user of the
  object was told or stored, in real numbers.

## 3. Runs

| Run | Instance | Shows |
|---|---|---|
| `dispatcher` | 4 threads, `kickMulti` may shrink | gates, races on the fields, lifetime of the closure and of the threads, termination of every call |
| `forkjoin` | 4 threads, `kickMulti` never shrinks | each requested index runs exactly once; refinement of `ForkJoin` with its liveness |
| `kickmulti` | 3 threads, `kickMulti` may shrink | violation: a shrinking `kickMulti` calls no target |
| `memlog` | 3 threads, 2 calls each, pages of 2 events, 2 pages | slots, page chain, iteration and dumps, order per thread, progress |
| `memlog_stale` | the same with pages of 1 event, loggers may stall | violation: a deleted page is still in use |
| `heap` | 3 units of address space, 2 blocks of sizes 2, 3 and 9, aligned ones too | chunks tile the segments, tags, bins, segment list and statistics agree, no check fails, memory comes back |
| `heap_blocks` | 2 units, 3 blocks of sizes 2 and 5, a limit of one unit | refinement of `Allocator`; the footprint limit holds |
| `heap_tree` | 5 chunks of 7 sizes, 6-bit sizes, 2 bins | shape of the tries, queues, best fit |
| `heap_tree_huge` | 2 chunks, one of a size whose index is cut off | violation: a request does not find the chunk that would do |
| `heap_kept_segment` | as `heap` | violation: an unused segment is kept |
| `atomics` | 2 threads, 13 calls, each implementation without the operations left out above | refinement of `AtomicCell`; acquiring orders after releasing |
| `adapters` | see below | the properties of the eight subjects; refinement of `Mutex` |

Bounds. `MaxThreads` bounds `m_threads.size()`, which the code bounds by the
number of cores: with 4, three workers can be a full cycle apart, the pool can
shrink by one or two and leave survivors, and every operation can follow every
other. The histories are unbounded: the dispatcher has a finite state space.
`MaxDepth` bounds the recursion of a mutex; beyond 2 nothing new happens, and
no lock is attempted at the bound. `MaxLogs` bounds the calls of each logger:
6 events on pages of 2 fill three pages, so one page is deleted while others
are in use. Deadlock is checked except for `MemLog`, where all calls end.

For the heap, `Granularity` is 16 granules instead of 4096 (64 KiB) and
`MinLarge` 4 instead of 16, so that large chunks, whole units and segment
overhead all occur within 64 addresses. With 3 units a region can lie before,
behind and apart from another one; size 9 does not fit in a unit twice, 2 and 3
leave remainders of every kind (none, one granule, a chunk), and
`TrimThreshold` and `ReleaseRate` are small enough to be reached. Every branch
of the modelled functions is taken within these bounds. `Requests`, `Alignments`,
`Limits` and `MaxBlocks` bound the calls. In `heap_tree`, a smallest large chunk of
8 leaves two bits below the bin's own in the first bin, whose trie holds the sizes
8, 9 and 11, and 6-bit sizes give the last bin, the one with the longest paths,
14, 16, 24 and 40: both bins have nodes with two children, ring nodes that are
replaced, and searches that have to come back to an untaken subtree or go on to the
next bin. The chunks are symmetric. `IndexBits` cuts nothing off there; in
`heap_tree_huge` it is a bit less than the sizes need.

For the atomics, two threads are what an instruction sequence can be disturbed
by: each of them calls again and again, so that between any two steps of one
the other may have made any number of calls, and the value may have come back to
what it was. The histories are unbounded. The arguments are chosen so that each
compare-exchange meets values it expects and values it does not, sums carry from
the low word to the high one, and each fence has a call whose promise depends on
it. The threads are symmetric.

For the adapters:

| Subject | Bounds | Why they are enough |
|---|---|---|
| locks | 2 threads, 2 iterations, an array of 2, at most 3 locks | a second section of each thread follows one of the other; 3 is the tester's own number |
| waits | 3 threads, 1 call each, 1 timed wait at a time of 0, 1 or 3 ms; 2 ms to a second, 1 ns to a ms; without a wait under way the clock stops after 1 s | waiter, signaller and resetter; waits of less and more than a second from either half of a second: with and without carry |
| semaphores | 3 threads, counts 0 to 2, a maximum of 2, 2 interruptions | a post loop that waiters interleave with, and one that meets the maximum |
| affinity | 1 or 3 processors over 2 packages of 2 cores, 2 threads, 2 bits in a Win32 mask | cores with the same number in different packages, shared cores, processors in any order, masks that overflow |
| locals | 2 threads besides main, 2 stores each | one value replaced, one left |
| counters | 3 groups | a constructor that loses the race for the head twice |
| lazy | 3 threads, depth 2 | racing first locks, one that comes later and may read the old flag, destruction and reuse |
| numbers | 4 bits, prime 11, a table of 5 slots, half the counter's range | every word, every operand, every order; one period of the sequence |

## 4. Fairness

`JobDispatcher` assumes weak fairness of main inside a call and of each worker:
the operating system runs started threads and an atomic store becomes visible
to a spinning load. Nobody is obliged to make a call. `MemLog` assumes weak
fairness of each thread inside `log`; `LoggingMakesProgress` is about the system, not about one thread (the
mutex is not assumed to be fair).

The fairness of the adapters is stated in `Adapters`, for the steps of the subject.
`Waits` assumes that the clock goes on (weak fairness of `Tick`) and strong
fairness of each thread's steps, and `Semaphore` the latter: what blocks a thread
there is the platform's mutex or semaphore, which others take again and again,
and the platforms' schedulers do not pass a waiter over for ever. A wait for an
event is only promised to end if the event stays set, a wait for a unit only if
enough units are signalled. Nobody is obliged to call in `Waits`; in `Semaphore`
each thread has one call to make and makes it. For `MutexLazyInit` it is only that
some thread inside `lazyInit` goes on as long as one can (weak fairness of all their
steps together); this is enough although the spin lock is contended, since its
owner is the only one who can go on, and every thread takes it at most once before
it has seen the flag. The locks, which turf
does not promise to be fair (`Mutex_SpinLock` spins without backoff), have
no liveness property.

## 5. Findings

1. `kickMulti` with fewer targets than threads calls none of them
   (`extra/JobDispatcher.h:164`): it defines the action and then resizes the
   pool, and the shrinking path resets the action. Run `kickmulti`.
2. A stalled logger uses a deleted page (`impl/Trace_MemLog.cpp:56`). Run
   `memlog_stale`.
3. `release_unused_segments` never releases a segment whose top had less than a
   chunk left when its record was placed (`impl/Heap_DL.cpp:2299` against the
   comment at 2283). Run `heap_kept_segment`; `EverythingComesBack` says what
   does come back.
4. `compute_tree_index` holds the shifted size in an `unsigned int` with gcc on
   x86-64 (`impl/Heap_DL.cpp:985`; the other variants have a `size_t`): a free chunk
   of 2^40 bytes or more is filed in a bin of small sizes, and a request that it
   would fit does not find it. Run `heap_tree_huge`.

Seen while modelling, without a run of their own:

- `dumpStats` adds the tail's raw index, which exceeds the page size after a
  failed claim, where `dumpEntireLog` clamps it (`impl/Trace_MemLog.cpp:69`
  against the comment in `impl/Trace_MemLog.h:47`).
- `dlmalloc_set_footprint_limit(0)` lifts the limit instead of setting the
  smallest one (`impl/Heap_DL.cpp:3340` and 3343).
- The operations of the ARM code listed under "Atomic operations" above: the
  reason why `Atomic.h:21` (FIXME) keeps `Atomic_Native` off ARM for now.
- `RWLock_CPP14` calls members its class does not have; `RecursiveMutexTester`
  needs a recursive mutex, which `Mutex_CPP11` and `Mutex_Boost` are not;
  `testTLSPtr` is defined but not in `g_tests`
  (`samples/SynchroTests/SynchroTests.cpp:31`).
- The Apple branch of `ConditionVariable_POSIX::timedWait` adds to an
  uninitialised timespec (line 45).
- `Affinity_FreeBSD`'s constructor leaves its caller pinned to the last processor
  that it was given; if the system refuses it one before the last (the process may
  not use them all), the object lists only the processors before that one, and
  `isAccurate` is true all the same (`impl/Affinity_FreeBSD.cpp:218-224`).
- `Semaphore_Mach::wait` and `Semaphore_Win32::wait` ignore the result of the
  system's wait, where `Semaphore_POSIX::wait` tries again when it was interrupted.
- `TLSPtr::setData` with the value that is already stored deletes it and keeps
  the pointer.
- The check in `BitFieldMember::operator+=` (`BitField.h:51`) wraps with types as
  wide as `int`: an operand that is too large by the right amount passes. The
  neighbouring fields are safe all the same, because the addition wraps alike
  (`ArithmeticExact`).

## 6. Proofs

All theorems hold for every value of the constants that satisfies the named
assumptions.

`JobDispatcherProofs`. The inductive invariant `IInv` has five parts: the types;
`GateCounts`, that each gate's counter is the number of workers spinning there
that have not been released; `Places`, which ties the place of every worker to
the place of main; `ExitFlags`, that a raised `mustExit` belongs to the workers
being shed; and `Sizes`. The counters alone say nothing without the places of
the workers, and the places are not preserved without the counts: the central
lemmas (`AtFinite`, `AtNone`, `AtAll`, `AtMove`) are about the cardinality of
the set of workers at a place, and `AtAll` is where a counter that has reached
`size - 1` turns into "every worker is here". From `IInv` follow
`TypeCorrect`, `GatesLoseNoArrival`, `NoUseAfterReturn`, `DestroyedClean` and
`FieldsRaceFree`.

`JobDispatcherProofs` goes on: `RInv` adds to `IInv` what the job fields hold
during a call (`JobInv`) and how the history relates to the places (`RunsInv`).
From it follow `EveryIndexRunsOnce` and `Refinement`, both under
`~KickMultiMayShrink`.

`LocksProofs`. `DetectorExact` is `RacesReported`, for any number of threads. The
invariant `Flagged` says that as long as no race is reported, `entered` is set
exactly when a thread is inside, and only one is; a second one that enters then
finds the flag set, and a report is never taken back. After a report the flag
means nothing any more, and the invariant asks nothing of it. The mutexes never
touch the flag (`Untouched`). `TestsAlwaysPass` is `TestsPass`: the locks exclude,
and so the testers' counts come out. `TestInv` ties the lock to the places of the
threads (`LockHeld`: the owner is the thread inside, as deep as its calls), the
shared counter to what the threads have added up so far (`Counted`), and what a
thread has read to what is there (`Rising`, `Reading`, `Remembered`). The sum over
the threads is a fold; `Sums` defines it as a function on the sets of threads, and
`SumChanges` says how one thread's step moves it.

`MemLogProofs`. `IInv` is the types, `OneInside` (the mutex), `Linked` (the pages
are chained in the order of allocation, all but the last are full, and `m_tail` and
`m_numPages` lag behind exactly while a thread publishes or trims), `Placed` (which
page a thread at each place may hold), `Counted` (a slot is below its page's index
exactly if it is claimed or written) and what the property `ProgramOrder` needs.
`Counted` is the strengthening that makes `SlotHasOneWriter` inductive: the claim
of a slot is visible in the index before the event is. `NothingLostButPages`
needs `Logged`, that every call that has returned left its event on some page,
`Counts` the overshoot of the last page's index: one for each logger that waits for
the mutex. `IteratorVisits` needs no further invariant: it is about the walk over
the chained pages. All of them hold with `MayStall` too, deleted pages included;
`NoStaleAccess` is what fails then.

`AtomicsProofs`. The programs are unrolled: `RegistersOK` says for each
implementation and instruction what the registers hold of the cell's history, and
`Decided` whether the operation has taken effect. The lemmas go by kind of program
(`ldrex` loops, locked instructions, `cmpxchg8b` loops, the C++ classes), since a
loop that is good in one implementation is the same loop in another. From `IInv`
follow `OperationsAreAtomic`, the refinement of `AtomicCell`, whose mapping tells
from `Decided` where the instant of effect is, and, with `News` (what is published
is carried; what a thread is owed it can acquire), `WrappersSynchronize`. The number
of threads and the calls are arbitrary (`CallsAssumption`); the cell has two bits,
one in each word of a 64-bit cell.

`AdaptersProofs`. `Adapters` moves one subject at a time, so that each invariant
speaks of the variables of one. `LocalsInv` (from which `ValuesDisposed`): where main
and the children can be relative to each other, that a slot holds a value only
while the key exists, and that the objects there are are the values in the slots and
the leaked ones. `SemaphoresInv` (`NoUnitLost`): the balance itself is inductive once
a thread has posts left only inside `signal`. `CountersInv` (`EveryGroupIsListed`):
the groups linked from the head are those whose exchange has succeeded, the `m_next`
of a listed group is listed and stays, and a dump has seen what it owes or will
find it from where it is, unless it has read an `m_next` that may be stale. The locks
take their proofs over from `LocksProofs` (`EveryTestPasses`, `DetectorReportsRaces`).

It also holds the proofs of `Waits`. `DeadlineIsLater` is about the arithmetic: one
carry is enough, the deadline is a valid timespec, and it lies exactly the given
milliseconds after now, for every number of milliseconds in a second and
nanoseconds in a millisecond. `WaitsReasoned`, and `WaitsHaveAReason` of the
composition, is the invariant `WaitsReturnForAReason`, which is not inductive: it
speaks of threads that are about to return, and says nothing of the places they
come from. The inductive invariant keeps for each thread what it has been
`Promised`: what call it is in at each place, that an event that is set has been
seen by everybody who waits for it, that a blocked timed wait has a deadline that
is not too early (from `DeadlineIsLater`), that it was not entered after now, and
that an expired one is over. Most steps move one thread (`OneMoves`), waking moves
some (`AllMove`), and a tick moves the clock for all.

Then those of `MutexLazyInit`, the use turf itself makes of acquire and release.
`LazyInv` says that at most one thread is between taking and releasing
the spin lock, that whoever is past it has seen the construction, and that the
flag and the spin lock carry that knowledge. From it follow `ConstructedOnce`, `ConstructionVisible` (which includes the assertion in
`unlock`) and `LazilyImplementsMutex` (the refinement of `Mutex`).

And those of `Affinity`. `ThreadsPinnedApart` (`PinnedApart`) is about every machine
the system can report: any packages and cores, processors in any order, any of them
refused. `AffinityInv` says how far each constructor is. Linux (`LinuxScan`) has read
a number of lines of the processor it is at, and FreeBSD (`FreeBSDScan`) has asked a
number of processors; those before have been `Collected`, each once, in the list of
the core it is `KnownBy`, and lists and ids belong together. Windows (`Win32Scan`) has
for each record either its mask still to come or its list, unless the object is no
longer accurate. A finished object has a `Topology` (if it is accurate, of all it has `Reached`:
every processor that FreeBSD's constructor has asked was allowed, and it stops at the
first that is not), and a thread that asked for a core
is `Placed` on one of its processors. The arithmetic of the APIC ids is that of rows
and cells (`RowAndCell`, `CellsApart`), and so is where a line of `/proc/cpuinfo` is
(`CpuInfoLines`, from `FlattenedRows`). Assumed is that the machine has a processor,
and that the bits of an APIC id are enough for the threads of a core and the cores
of a package (`AffinityAssumption`).

`HeapMemory` and `HeapProofs`. For every size of the address space, granularity,
thresholds, requests and number of blocks, `HeapSound` proves the inductive
invariant `HInv`: the heap is `Sound` with the users' chunks, every block `Fits` what
was asked for, and the footprint `Accounts` for the segments. None of the properties
of the run `heap` is inductive alone: freeing a chunk trusts the foot in front of
it, which is right only if the tags are, which are right only if no bin holds a chunk
that has been merged away, and so on around. `Sound` is

- `Memory`: `Segments` (apart, in the address space, larger than the foot of top),
  `Kinds` (which heads there are, and how large), `Tiles` (behind a chunk there is a
  header, and none before it),
  `TagsAgree` (what a chunk says of its neighbours), `FeetIn` (feet are only behind
  free chunks) and `TopIn` (top is the last chunk of the first segment);
- `Records` and `Users`: the chunks in use are the users' and one record at the end of
  each segment but the first;
- `Victim` and `Bins`: every free chunk but top and the designated victim is in the
  bin of its size, once.

`HeapMemory` has what happens inside a segment. Whatever splits or merges is a `Recut`:
the chunks from one header to another have become one or two, and all else has stayed.
`RecutMemory` and `RecutSound` show once and for all that a cut which gets its own tags
right keeps the heap sound; `Merged`, `GrowCut` and `UsersCut` are its kinds, and
consolidation, allocation from a bin, the victim or top, and resizing in place are
shown to be such cuts. The bins follow from `BinStep` (one list changes, by one
chunk). `HeapProofs` goes on with segments: `SegGone` (one is unmapped), `TopMoved` (the end
of the first one moves), `Extended` (new memory joins one at either end) and `Added` (a
new one takes over as the first, and the rest of the old top becomes its record, its
fence and perhaps a free chunk). `Ledger` goes along: the sum of the sizes is a function
on the segments, and `SumChanged`, `SumWithout` and `GrownLedger` say how it moves.

Each operation then has a contract: `Provided` (malloc and system memory: a chunk
large enough and not much larger, or nothing and nothing changed), `Given` (the same
for reallocation, which takes the old block, and for aligned and paired ones), `Trimmed`
(free, bulk free and trim). The actions keep `HInv` because blocks change as the
contracts say (`ExchangeKeeps`, `GoneKeeps`). `HeapNeverAborts`, `HeapTiled`,
`HeapBoundaryTags`, `HeapBinsHoldFreeChunks`, `HeapSegmentList` and
`HeapBlocksAccountedFor` follow from `HInv`; the last one needs the walk of the
statistics over a segment, which is shown to find exactly the chunks in use from each
header on, from the end of the segment backwards. `HeapComesBack`
(`EverythingComesBack`) follows the scan of the segments: `SeenInUse` says of those the
scan has passed that they are in use, however the others move up in the list, and
`EmptySegment` that one without users is unused, if its record is where it belongs.
`HeapFootprintLimited` is about steps
(`Limited`, from `Ledger`). `HeapImplementsAllocator` maps each step to one of
`Allocator` or to none; the contracts say that the sizes of other blocks have stayed,
and `Tiles` that blocks are apart.

`HeapTreeProofs`. The invariant `TreeSound` says that there are a depth of each node and
an order of the chunks of each size for which three things hold. `Tries`: a node hangs
from the child pointer that the bits of its size lead to (`Hangs`), and every child
pointer is of that kind (`Holds`). `Ring`: `fd` and `bk` run through the chunks of
a size in order, and the first of them alone is a node. `Loose`: what is not binned
is linked to itself only. All of it is local; what makes it enough is the `Key` of a
size at a depth, the bits that have been used up so far: a node shares its key with
all nodes below it (`Ancestors`), sizes of one bin with the same key at every depth are
the same (`SameBin`, `Keys`), and so there is at most one node at a place
(`OnePlace`), the way of a size meets every node it can meet (`Reached`,
`EndOfWay`), and replacing a node by a leaf below it keeps every node where it belongs
(`NodeRemoved`). The depth changes with a removal only for the leaf that moves. From
`TreeSound` follow `TreeChecksHold`, `ImplementsTheBins` (the order is the queue), and
`SearchesFindTheBest`: the keys say which sizes can be in the subtrees the search passes
by (`RightOfWay`, `LeftPathFinds`), the indices which can be in the bins it skips
(`LaterBin`), and the remainders compare as the sizes do although they wrap
(`Remainders`). All four are under `ChunkSizes \subseteq Indexable`, without which
`BestFit` is false (`heap_tree_huge`); requests may be of any size.

Induction over data is done with sets: a least number that violates a claim
(`LeastNat`, and `FromZero`, which goes on to what `FlattenSeq` computes for every
sequence), or a set of threads taken out one by one (`SubsetInduction`), since the
library's induction theorems cannot be instantiated.

Only model-checked: liveness (`EveryCallReturns`, `LazyInitEnds`,
`LoggingMakesProgress`, `EveryWaitEnds` and the fair refinement of `ForkJoin`),
which is out of the prover's reach; and `ArithmeticExact` of `Numbers`, which rests on
number theory (squares modulo a prime, powers of two) for the recursive `Smear` and
the probing sequence.

## 7. Not modelled

`Thread`'s destructor and detached threads: nothing in turf relies on either, every
user of `Thread` joins it. Also left out: build files, the generated `AtomicTests`, `RandomTest` and the
formatter; `TID`, `MemPage` and `Heap_CRT` (one call to the operating system or
the C library each; `MemPage_Win32::free` loops over the regions of a mapping,
and the heap allows it to fail); reading a clock, converting ticks to seconds and
`UTCTime` (I/O, floating point and formatting); `Random` (nothing to state about
its numbers) and the parser of `Options` (run once, on one thread); the hashes
`avalanche` and `deavalanche` of `Util.h` (their constants belong to a width of
32 or 64 bits, which TLC cannot enumerate); `Trace_Null` (empty macros);
`RWLock_CPP14` (does not compile); with `TURF_DLMALLOC_FAST_STATS`, which is off
by default, the counters of the heap.
