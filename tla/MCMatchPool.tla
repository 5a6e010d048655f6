----------------------------- MODULE MCMatchPool -----------------------------
(* Small Match Pools for TLC.                                              *)
EXTENDS MatchPoolProperties, TLC

CONSTANTS p1, p2, p3, p4, p5, p6, r1, r2, r3, r4, r5

\* Everybody queues alone, with one request.
SoloOwner   == [r \in Requests |-> CASE r = r1 -> p1 [] r = r2 -> p2 [] r = r3 -> p3 [] r = r4 -> p4]
SoloMembers == [r \in Requests |-> {SoloOwner[r]}]

\* Three Parties of two, a member of the first who also queues alone;
\* r5 comes from a Party that is too large.
TeamOwner   == [r \in Requests |-> CASE r = r1 -> p1 [] r = r2 -> p3 [] r = r3 -> p2
                                  [] r \in {r4, r5} -> p5]
TeamMembers == [r \in Requests |-> CASE r = r1 -> {p1, p2} [] r = r2 -> {p3, p4} [] r = r3 -> {p2}
                                  [] r = r4 -> {p5, p6} [] r = r5 -> {p4, p5, p6}]

Symmetry == Permutations(Tickets) \cup Permutations(Tasks)
=============================================================================
