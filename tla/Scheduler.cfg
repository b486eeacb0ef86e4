SPECIFICATION MCSpec
CONSTANTS
    t1 = t1
    t2 = t2
    a = a
    b = b
    c = c
    e = e
    l1 = l1
    l2 = l2
    l3 = l3
    i1 = i1
    i2 = i2
    w1 = w1
    None = None
    Worker = {w1}
    Tenant = {t1, t2}
    Row = {a, b, c, e}
    Lease = {l1, l2, l3}
    Intent = {i1, i2}
    Owner <- MCOwner
    Off = {}
    Held = {}
    Recovery = {b, e}
    Broken = {t2, l1, l3, i1}
    Manual = {b}
    Page = 2
    PerDay = 1
    PlannerFrom = 3
    LastDay = 2
    LastRound = 1
    MaxFaults = 1
INVARIANTS IInv
PROPERTIES DueRowsAreTried RefreshesGoOn RecoveryGoesOn
CHECK_DEADLOCK FALSE
