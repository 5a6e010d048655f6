------------------------------- MODULE MCRoom -------------------------------
EXTENDS RoomProperties, TLC

\* Every participant id is a player of its own.
MCPlayer == [p \in Participant |-> p]

\* Handlers that wait for D1, and requests, are interchangeable.
Alike == Permutations(Task) \cup Permutations(Request)
=============================================================================
