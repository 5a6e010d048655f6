CONSTANTS
    x1 = x1  x2 = x2
    p1 = p1  p2 = p2  p3 = p3
    t1 = t1  t2 = t2
    k1 = k1  k2 = k2
    Parties = {x1, x2}
    Players = {p1, p2}
    Tickets = {t1, t2}
    Tasks = {k1, k2}
    MaxPartySize = 2
    MaxInvites = 1
    MaxCrashes = 0
    None = None
SPECIFICATION Spec
INVARIANTS
    OneParty
PROPERTIES
    ThawHasCause
CONSTRAINT SecondTicketAlone
SYMMETRY Symmetry
CHECK_DEADLOCK FALSE
