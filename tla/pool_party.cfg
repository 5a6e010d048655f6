CONSTANTS
    p1 = p1  p2 = p2  p3 = p3  p4 = p4  p5 = p5  p6 = p6
    r1 = r1  r2 = r2  r3 = r3  r4 = r4  r5 = r5
    Tickets = {t1, t2, t3}
    Players = {p1, p2, p3, p4, p5, p6}
    Requests = {r1, r2, r3, r4, r5}
    Owner <- TeamOwner
    Members <- TeamMembers
    PartyRequests = {r1, r2, r4, r5}
    Tasks = {k1, k2}
    AlarmTask = ka
    TeamSize = 2
    MaxPartySize = 2
    MaxAttempts = 2
    MaxCrashes = 0
    Faults = {"room", "d1"}
    Operator = {}
    None = None
SPECIFICATION Spec
INVARIANTS
    QueueExclusive EndedReleasesPlayers FreezeHasCause OneTicketPerRequest ReservedCanSettle
PROPERTIES
    PairsAsPromised
SYMMETRY Symmetry
CHECK_DEADLOCK FALSE
