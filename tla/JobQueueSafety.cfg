\* A media job that may be tried twice and then pinned, and a forced whisper job
\* that may be tried once; two machines, two handlers open at a time.
SPECIFICATION Spec
CONSTANTS
    m1 = m1
    m2 = m2
    t1 = t1
    t2 = t2
    j1 = j1
    j2 = j2
    Dash = Dash
    Nobody = Nobody
    NoJob = NoJob
    NoEngine = NoEngine
    FlakyWrites = FALSE
    Jobs <- MCJobs
    Machines <- MCMachines
    Threads <- MCThreads
    Kinds <- MCKinds
    KindOf <- MCMixedKindOf
    Forced <- MCForced
    Able <- MCAble
    Budget <- MCMixedBudget
    Cap <- MCWideCap
    Pinnable <- MCPinnable
SYMMETRY MCSymmetry
INVARIANTS
    TypeOK
    HoldIsLeased
    BudgetKept
    OneJobPerMachine
    InHandIsWorked
PROPERTIES
    CancelledNeverStarts
    LiveLeaseProtects
CHECK_DEADLOCK FALSE
