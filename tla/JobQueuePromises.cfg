\* Two alike media jobs under a fleet cap of one, tried once each and then
\* pinned; two machines, two handlers; the executor's closing write may be refused.
SPECIFICATION Spec
CONSTANTS
    m1 = m1
    m2 = m2
    t1 = t1
    t2 = t2
    j1 = j1
    j2 = j2
    Dash = Dash
    Nobody = Nobody
    NoJob = NoJob
    NoEngine = NoEngine
    FlakyWrites = TRUE
    Jobs <- MCAlike
    Machines <- MCMachines
    Threads <- MCThreads
    Kinds <- MCKinds
    KindOf <- MCKindOf
    Forced <- MCNoJobs
    Able <- MCAlikeAble
    Budget <- MCOnce
    Cap <- MCCap
    Pinnable <- MCPinnable
SYMMETRY MCAlikeSymmetry
INVARIANTS
    WithinCap
PROPERTIES
    ImplementsLifecycle
CHECK_DEADLOCK FALSE
