CONSTANTS
    p1 = p1  p2 = p2  p3 = p3  p4 = p4  p5 = p5  p6 = p6
    r1 = r1  r2 = r2  r3 = r3  r4 = r4  r5 = r5
    Tickets = {t1, t2}
    Players = {p1, p2, p3}
    Requests = {r1, r2}
    Owner <- SoloOwner
    Members <- SoloMembers
    PartyRequests = {r1}
    Tasks = {k1, k2}
    AlarmTask = ka
    TeamSize = 1
    MaxPartySize = 1
    MaxAttempts = 2
    MaxCrashes = 1
    Faults = {"room", "party", "d1"}
    Operator = {"expireTicket", "expireDueTickets", "reserveCandidate", "matchCandidate"}
    None = None
SPECIFICATION FairSpec
INVARIANTS
    MatchedTogether 

    
CHECK_DEADLOCK FALSE
