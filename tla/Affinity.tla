------------------------------ MODULE Affinity ------------------------------
(***************************************************************************)
(* turf::Affinity: the constructors find out which processors share a      *)
(* physical core, and setAffinity pins the calling thread to one of them.  *)
(* A machine is a sequence of processors with the package and the core     *)
(* each is part of; processor p of the system is the element p + 1.        *)
(***************************************************************************)
EXTENDS Integers, SequencesExt

CONSTANTS
    Pinners,        \* the threads that pin themselves
    Constructor,    \* the one of them that constructs the object
    Machines,       \* sequences of [package, core]
    MaxHWThreads,   \* bits in an AffinityMask of Win32
    HWThreadIds,    \* how many numbers the bits of an APIC id have for the
    CoreIds         \* threads of a core, and for the cores of a package

VARIABLES
    platform,    \* the implementation
    machine,     \* the processors, what is reported of them, which are allowed
    phase,       \* "scan" in the constructor, "built" after it
    input,       \* Linux, Win32: lines or records yet to read; FreeBSD: the next processor
    collector,   \* CoreInfoCollector
    cores,       \* m_coreIndexToInfo, or m_physicalCoreMasks as sequences
    accurate,    \* m_isAccurate
    pinned       \* where each thread may run, and the core it asked for last

vars == <<platform, machine, phase, input, collector, cores, accurate, pinned>>

Platforms == {"Linux", "FreeBSD", "Win32", "Mach", "Null"}

\* What is reported of a processor: package and core, the package alone
\* (Linux), its hardware threads alone (FreeBSD), or nothing.
Reports(p) ==
    CASE p = "Linux" -> {"core", "package", "none"}
      [] p = "FreeBSD" -> {"core", "thread", "none"}
      [] OTHER -> {"core"}

\* A CoreID; -1 is "not reported".
CoreID(physical, core) == [physical |-> physical, core |-> core]

NoCoreID == CoreID(-1, -1)

NoProcessor == [logicalProcessor |-> -1, coreID |-> NoCoreID, coreIDToIndex |-> <<>>]

Processors(m) == 0 .. Len(m.cpus) - 1

\* The physical core a processor is really part of.
CoreOf(m, p) == m.cpus[p + 1]

(***************************************************************************)
(* What the constructors read.                                             *)
(***************************************************************************)
\* The lines of /proc/cpuinfo with a label the parser knows.
CpuInfo(m) ==
    FlattenSeq([i \in 1 .. Len(m.cpus) |->
        <<<<"processor", i - 1>>>>
        \o (IF m.reports = "none" THEN <<>> ELSE <<<<"physical id", m.cpus[i].package>>>>)
        \o (IF m.reports = "core" THEN <<<<"core id", m.cpus[i].core>>>> ELSE <<>>)])

\* GetLogicalProcessorInformation: one record for every physical core.
CoreRecords(m) ==
    LET of(p) == {q \in Processors(m) : CoreOf(m, q) = CoreOf(m, p)}
    IN  SetToSeq({of(p) : p \in Processors(m)})

\* The processors of a core with smaller numbers.
Siblings(m, p) == {q \in Processors(m) : q < p /\ CoreOf(m, q) = CoreOf(m, p)}

\* The APIC id: bits of the hardware thread, of the core, of the package.
ApicId(m, p) ==
    (CoreOf(m, p).package * CoreIds + CoreOf(m, p).core) * HWThreadIds + Cardinality(Siblings(m, p))

\* The ids getTopology makes of the APIC id of the processor it runs on, with
\* the masks of the levels CPUID reports; masking and shifting is dividing.
\* If it returns false the collector's -1s stay.
getTopology(m, p) ==
    LET id == ApicId(m, p) \div HWThreadIds
    IN  CASE m.reports = "core" -> CoreID(id \div CoreIds, id % CoreIds)
          [] m.reports = "thread" -> CoreID(id, 0)
          [] m.reports = "none" -> NoCoreID

\* The system has processors, and the bits of the APIC id are enough for them.
AffinityAssumption ==
    /\ Constructor \in Pinners
    /\ MaxHWThreads \in Nat /\ HWThreadIds \in Nat \ {0} /\ CoreIds \in Nat \ {0}
    /\ \A cpus \in Machines :
           /\ cpus \in Seq([package : Nat, core : 0 .. CoreIds - 1]) /\ cpus # <<>>
           /\ \A p \in DOMAIN cpus : Cardinality({q \in DOMAIN cpus : cpus[q] = cpus[p]}) <= HWThreadIds

Start(p, m) ==
    /\ platform = p /\ machine = m
    /\ phase = "scan"
    /\ input = CASE p = "Linux" -> CpuInfo(m)
                 [] p = "Win32" -> CoreRecords(m)
                 [] OTHER -> <<>>
    /\ collector = NoProcessor
    /\ cores = <<>> /\ accurate = TRUE
    /\ pinned = [t \in Pinners |-> [at |-> m.allowed, ok |-> FALSE, core |-> -1]]

\* The thread may use all processors, or all but one.
Init ==
    \E p \in Platforms, cpus \in Machines : \E reports \in Reports(p) :
        \E refused \in {-1} \cup (IF Len(cpus) > 1 THEN 0 .. Len(cpus) - 1 ELSE {}) :
            Start(p, [cpus |-> cpus, reports |-> reports,
                      allowed |-> (0 .. Len(cpus) - 1) \ {refused}])

(***************************************************************************)
(* CoreInfoCollector.                                                      *)
(***************************************************************************)
\* Mutant: ids are compared by the core within the package alone.
SameWithinPackage(a, b) == a.core = b.core

\* The map's order takes two ids for one if neither is smaller.
SameCore(a, b) == a.physical = b.physical /\ a.core = b.core

Identified(c) ==
    IF c.coreID.physical < 0 /\ c.coreID.core < 0
    THEN CoreID(0, c.logicalProcessor) ELSE c.coreID

\* A processor without ids gets a core of its own in package 0.  The processor
\* collected last joins the core with its id, or a new one; coreIDToIndex
\* holds the id of each core, at the core's index.
Join(c, list) ==
    LET id == Identified(c)
        known == {i \in DOMAIN c.coreIDToIndex : SameCore(c.coreIDToIndex[i], id)}
    IN  IF known = {}
        THEN [index |-> Append(c.coreIDToIndex, id),
              cores |-> Append(list, <<c.logicalProcessor>>)]
        ELSE LET i == CHOOSE i \in known : TRUE
             IN  [index |-> c.coreIDToIndex,
                  cores |-> [list EXCEPT ![i] = Append(@, c.logicalProcessor)]]

flush(c, list) ==
    IF c.logicalProcessor < 0
    THEN [collector |-> [c EXCEPT !.coreID = NoCoreID], cores |-> list]
    ELSE LET joined == Join(c, list)
         IN  [collector |-> [NoProcessor EXCEPT !.coreIDToIndex = joined.index],
              cores |-> joined.cores]

\* Without a processor the constructors make one up.
Fallback == <<<<0>>>>

Built(list, isAccurate) ==
    /\ phase' = "built"
    /\ cores' = IF list = <<>> THEN Fallback ELSE list
    /\ accurate' = (isAccurate /\ list # <<>>)

Same == UNCHANGED <<platform, machine>>

(***************************************************************************)
(* The constructors.                                                       *)
(***************************************************************************)
Scanning(p) == platform = p /\ phase = "scan"

\* There is no /proc/cpuinfo, or GetLogicalProcessorInformation fails.
NothingReported ==
    /\ Scanning("Linux") \/ Scanning("Win32")
    /\ collector = NoProcessor /\ cores = <<>> /\ accurate
    /\ Built(<<>>, FALSE)
    /\ Same /\ UNCHANGED <<input, collector, pinned>>

\* A "processor" line ends the processor before.
ReadLine ==
    /\ Scanning("Linux") /\ input # <<>>
    /\ LET label == Head(input)[1]
           value == Head(input)[2]
           flushed == flush(collector, cores)
       IN  CASE label = "processor" ->
                    /\ collector' = [flushed.collector EXCEPT !.logicalProcessor = value]
                    /\ cores' = flushed.cores
             [] label = "physical id" ->
                    collector' = [collector EXCEPT !.coreID.physical = value] /\ UNCHANGED cores
             [] label = "core id" ->
                    collector' = [collector EXCEPT !.coreID.core = value] /\ UNCHANGED cores
    /\ input' = Tail(input)
    /\ Same /\ UNCHANGED <<phase, accurate, pinned>>

EndOfFile ==
    /\ Scanning("Linux") /\ input = <<>>
    /\ LET flushed == flush(collector, cores)
       IN  Built(flushed.cores, TRUE) /\ collector' = flushed.collector
    /\ Same /\ UNCHANGED <<input, pinned>>

\* The system refuses processors it has not, and those the thread may not
\* use.
setAffinityRaw(t, core, p) ==
    pinned' = [pinned EXCEPT ![t] =
                   IF p \in machine.allowed THEN [at |-> {p}, ok |-> TRUE, core |-> core]
                   ELSE [@ EXCEPT !.ok = FALSE]]

\* The FreeBSD constructor asks each processor about itself, by running on it:
\* it goes on with a collector and a list of cores, or stops.
Ask(t, collected, list) ==
    /\ Scanning("FreeBSD")
    /\ setAffinityRaw(t, -1, Len(input))
    /\ IF Len(input) \in machine.allowed
       THEN /\ collector' = collected /\ cores' = list
            /\ input' = Append(input, Len(input))
            /\ UNCHANGED <<phase, accurate>>
       ELSE Built(cores, TRUE) /\ UNCHANGED <<input, collector>>
    /\ Same

Found(c) ==
    [c EXCEPT !.logicalProcessor = Len(input), !.coreID = getTopology(machine, Len(input))]

\* Mutant: each processor is flushed when the next one is found, as on Linux,
\* where the end of the file flushes the last one.
ProbeFlushesBefore(t) ==
    LET flushed == flush(collector, cores) IN Ask(t, Found(flushed.collector), flushed.cores)

Probe(t) ==
    LET flushed == flush(Found(collector), cores) IN Ask(t, flushed.collector, flushed.cores)

\* The processors in a mask; setAffinity counts from the lowest bit.
FromLowestBit(mask) ==
    [i \in 1 .. Cardinality(mask) |->
        CHOOSE p \in mask : Cardinality({q \in mask : q < p}) = i - 1]

\* A Win32 core that would not fit in the masks is left out.
ReadRecord ==
    /\ Scanning("Win32") /\ input # <<>>
    /\ LET known == Len(FlattenSeq(cores))
           mask == Head(input)
       IN  IF known + Cardinality(mask) > MaxHWThreads
           THEN accurate' = FALSE /\ UNCHANGED <<cores, collector>>
           ELSE /\ cores' = Append(cores, FromLowestBit(mask))
                /\ UNCHANGED accurate /\ UNCHANGED collector
    /\ input' = Tail(input)
    /\ Same /\ UNCHANGED <<phase, pinned>>

EndOfRecords ==
    /\ Scanning("Win32") /\ input = <<>>
    /\ Built(cores, accurate)
    /\ Same /\ UNCHANGED <<input, collector, pinned>>

\* Mach tells the two numbers only: the cores get equal shares of tags.
QueryCounts ==
    /\ Scanning("Mach")
    /\ LET logical == Len(machine.cpus)
           physical == Cardinality({CoreOf(machine, p) : p \in Processors(machine)})
           perCore == logical \div physical
       IN  \/ Built([core \in 1 .. physical |->
                        [hwThread \in 1 .. perCore |-> (core - 1) * perCore + hwThread - 1]], TRUE)
           \/ Built(<<>>, FALSE)
    /\ Same /\ UNCHANGED <<input, collector, pinned>>

ConstructNull ==
    /\ Scanning("Null")
    /\ Built(<<>>, FALSE)
    /\ Same /\ UNCHANGED <<input, collector, pinned>>

Construct ==
    \/ NothingReported \/ ReadLine \/ EndOfFile \/ Probe(Constructor)
    \/ ReadRecord \/ EndOfRecords \/ QueryCounts \/ ConstructNull

(***************************************************************************)
(* The interface.                                                          *)
(***************************************************************************)
getNumPhysicalCores == Len(cores)

getNumHWThreadsForCore(core) == Len(cores[core + 1])

\* A thread pins itself.  Mach takes the tag as a wish, and may not support
\* that; the null implementation does nothing and is content.
setAffinity(t, core, hwThread) ==
    /\ phase = "built"
    /\ IF platform \in {"Linux", "FreeBSD", "Win32"}
       THEN setAffinityRaw(t, core, cores[core + 1][hwThread + 1])
       ELSE \E ok \in IF platform = "Mach" THEN BOOLEAN ELSE {TRUE} :
                pinned' = [pinned EXCEPT ![t].ok = ok]
    /\ Same /\ UNCHANGED <<phase, input, collector, cores, accurate>>

Pin(t) ==
    /\ phase = "built"
    /\ \E core \in 0 .. getNumPhysicalCores - 1 :
           \E hwThread \in 0 .. getNumHWThreadsForCore(core) - 1 : setAffinity(t, core, hwThread)

Next == Construct \/ \E t \in Pinners : Pin(t)

(***************************************************************************)
(* What the topology is good for.                                          *)
(***************************************************************************)
Listed == FlattenSeq(cores)

\* What the systems that have numbers for their processors give away: all of
\* them, but to the FreeBSD constructor only those before the first one that the
\* thread may not use.  It then stops, and calls itself accurate all the same.
Reached ==
    IF platform = "FreeBSD" THEN {p \in Processors(machine) : 0 .. p \subseteq machine.allowed}
    ELSE Processors(machine)

\* The object claims to know the cores, from a system that told them.
Told ==
    /\ accurate
    /\ platform \in {"Linux", "FreeBSD", "Win32"} /\ machine.reports \in {"core", "thread"}

\* The object never lists a processor twice.  If it is accurate, a Linux or
\* Win32 object lists all processors, whichever the thread may use, and a FreeBSD
\* one exactly those its constructor has reached: none is lost on the way, and
\* none behind the first refused one is there.  (Mach tells no processors.)  Two
\* threads the object has pinned share a physical core exactly if they asked for
\* the same core, whatever the order in which the processors were reported: so
\* JobDispatcher's workers get a core each.
PinnedApart ==
    phase = "built" =>
        /\ IsInjective(Listed)
        /\ (accurate /\ platform \in {"Linux", "FreeBSD", "Win32"}) => ToSet(Listed) = Reached
        /\ Told =>
               \A t, u \in {t \in Pinners : pinned[t].core >= 0} :
                   \A p \in pinned[t].at, q \in pinned[u].at :
                       (CoreOf(machine, p) = CoreOf(machine, q)) <=> (pinned[t].core = pinned[u].core)
=============================================================================
