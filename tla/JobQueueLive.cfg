\* One media job, tried twice and then pinned; one machine, two handlers open at a time.
SPECIFICATION FairSpec
CONSTANTS
    m1 = m1
    m2 = m2
    t1 = t1
    t2 = t2
    j1 = j1
    j2 = j2
    Dash = Dash
    Nobody = Nobody
    NoJob = NoJob
    NoEngine = NoEngine
    FlakyWrites = FALSE
    Jobs <- MCOneJob
    Machines <- MCOneMachine
    Threads <- MCThreads
    Kinds <- MCKinds
    KindOf <- MCOneKindOf
    Forced <- MCNoJobs
    Able <- MCOneAble
    Budget <- MCMixedBudget
    Cap <- MCWideCap
    Pinnable <- MCPinnable
PROPERTIES
    LapsedIsSwept
    PinnedIsSettled
CHECK_DEADLOCK FALSE
