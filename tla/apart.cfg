\* Three components, one after the other: a search among four tickets over two
\* stages of a width, a walk through the pages of three rooms that change, and
\* a request, two connections and a command of a client.
SPECIFICATION ApartSpec
CONSTANTS
    Ticket = {1, 2, 3, 4}
    Roster <- Soloists
    InputMethod <- Inputs
    TeamSize = 1
    Policy <- Policies
    FirstPolicy <- Growing
    Lifetime = {2}
    MaxTime = 2
    MaxOpen = 1
    Never = Never
    Listed = {1, 2, 3}
    Query <- Queries
    MaxPage = 2
    RoomState = {"waiting", "finished"}
    Free = {0, 1}
    MaxBorn = 1
    MaxAlter = 3
    Nothing = Nothing
    Requests = {r1}
    Sockets = {s1, s2}
    Commands = {k1}
    Via <- OneVia
    s1 = s1
    s2 = s2
    k1 = k1
INVARIANTS WideningsAwaited ShownExactlyOnce TrafficIsWanted
 
CHECK_DEADLOCK FALSE
