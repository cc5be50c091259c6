\* One clip and one machine that restarts once, with one click.
SPECIFICATION FairSpec
CONSTANTS
    m1 = m1
    m2 = m2
    t1 = t1
    t2 = t2
    i1 = i1
    i2 = i2
    Nobody = Nobody
    Items = {i1}
    Machines = {m1}
    Requests = {t1, t2}
    Suffixes = {1, 2}
    MaxAttempts = 1
    Runs = 2
    Clicks = 1
    Mishaps = 0
    Restarts = 1
PROPERTIES
    CancelEnds
    HeldEnds
CHECK_DEADLOCK FALSE
