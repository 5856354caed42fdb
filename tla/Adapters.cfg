CONSTANTS
    Workers = {0, 1}
    NoWorker = NoWorker
    Iterations = 2
    SharedArraySize = 2
    MaxLocks = 3
    MillisPerSecond = 2
    NanosPerMilli = 1
    Callers = {c1, c2, c3}
    EventCalls = 1
    CondVarCalls = 1
    TimedWaits = 1
    WaitMillis = {0, 1, 3}
    NoCaller = NoCaller
    MaxTime = 2
    Users = {u1, u2, u3}
    Counts = {0, 1, 2}
    MaxUnits = 2
    Interrupts = 2
    Pinners = {0, 1}
    Constructor = 0
    Machines <- MCMachines
    MaxHWThreads = 2
    HWThreadIds = 4
    CoreIds = 2
    Main = main
    Children = {0, 1}
    Stores = 2
    NoValue = NoValue
    Groups = {g1, g2, g3}
    Dumper = dumper
    Loader = loader
    NoGroup = NoGroup
    Lockers = {t1, t2, t3}
    NoLocker = NoLocker
    MaxDepth = 2
    Width = 4
    Layouts <- MCLayouts
    Prime = 11
    Seeds = {0, 5, 11, 15}
    Slots = 5
SPECIFICATION Spec
INVARIANTS TestsPass RacesReported WaitsReturnForAReason UnitsConserved PinnedApart ValuesDisposedOf EveryGroupListed BuiltOnce LockSeesConstruction ArithmeticExact
PROPERTIES EveryWaitEnds ImplementsMutex LazyInitEnds
