CONSTANTS
    x1 = x1  x2 = x2
    p1 = p1  p2 = p2  p3 = p3
    t1 = t1  t2 = t2
    k1 = k1  k2 = k2
    Parties = {x1}
    Players = {p1, p2, p3}
    Tickets = {}
    Tasks = {k1, k2}
    MaxPartySize = 2
    MaxInvites = 1
    MaxCrashes = 1
    None = None
SPECIFICATION FairSpec
INVARIANTS
    UniqueLeader

    
CHECK_DEADLOCK FALSE
