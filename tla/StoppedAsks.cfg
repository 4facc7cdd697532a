SPECIFICATION MCSpec
CHECK_DEADLOCK FALSE
CONSTANTS
    None = None
    a1 = a1
    k1 = k1
    s1 = s1
    e1 = e1
    Address = {a1, a2}
    HostKey = {k1, k2}
    Secret = {s1, s2}
    Entry = {e1, e2}
    UserFlow = {u1, u2}
    MaxEvents = 2
INVARIANT
    StoppedAsks
