CONSTANTS
    k1 = k1
    k2 = k2
    s1 = s1
    Socket = {k1, k2}
    Session = {s1}
    SessionOf <- MCSessionOf
    Replies = 2
    MaxSegments = 2
    Loads <- MCLoads
    None = None
SPECIFICATION Spec
INVARIANTS LiveSocketReachable
CHECK_DEADLOCK FALSE
