CONSTANTS
    Threads = {t1, t2}
    NoCall = NoCall
    Calls <- MCCalls
SYMMETRY Symmetry
SPECIFICATION Spec
INVARIANTS AcquireSeesRelease
PROPERTIES ImplementsCell
