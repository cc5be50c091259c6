\* One clip and two machines that claim, lose a call or a lease, are stopped and
\* tried again.
SPECIFICATION Spec
CONSTANTS
    m1 = m1
    m2 = m2
    t1 = t1
    t2 = t2
    i1 = i1
    i2 = i2
    Nobody = Nobody
    Items = {i1}
    Machines = {m1, m2}
    Requests = {t1, t2}
    Suffixes = {1, 2}
    MaxAttempts = 1
    Runs = 2
    Clicks = 1
    Mishaps = 1
    Restarts = 0
SYMMETRY MCSymmetry
INVARIANTS
    TypeOK
    DoneIsWhole
    PublishedStands
    NoGhosts
CHECK_DEADLOCK FALSE
