SPECIFICATION ServicesSpec
CONSTANTS
    k1 = k1
    k2 = k2
    t1 = t1
    t2 = t2
    t3 = t3
    v1 = v1
    d1 = d1
    d2 = d2
    p1 = p1
    p2 = p2
    q1 = q1
    q2 = q2
    None = None
    Isolate = {k1, k2}
    Tenant = {t1, t2, t3}
    Managed = {t1, t2}
    LinkedIn = {t1}
    Keyed = {t1}
    Operator = Operator
    Ticks = 1
    Work <- MCWork
    Generations = 2
    Refreshes = 1
    Copies = 2
    Faults = 1
    Action = {a1, a2}
    Api = {d1}
    Relay = {d2}
    Verifier = {v1}
    Elsewhere = {e1}
    Nobody = Nobody
    Code = {"c1"}
    Attempt = {1, 2}
    Request = {1, 2}
    Record = {1, 2, 3}
    Keys <- MCKeys
    Source <- MCSource
    Sources = {"s1", "s2"}
    UserOf <- MCUserOf
    Allowed = {"u1"}
    MaxRecords = 2
    Null = Null
    Person = {p1, p2}
    Role = {"owner", "viewer"}
    Checkout = {q1, q2}
    Unset = Unset
    Passwords = 2
    Time = 2
    Events = 3
INVARIANTS ConnectionsAreSound ActionsAreSound IngestIsSound ControlIsSound
CONSTRAINTS OneConnection OneSide
CHECK_DEADLOCK FALSE
