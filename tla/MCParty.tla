------------------------------- MODULE MCParty -------------------------------
(* Instances of Party for TLC. *)
EXTENDS PartyProperties, TLC

CONSTANTS x1, x2, p1, p2, p3, t1, t2, k1, k2

Symmetry == Permutations(Parties) \cup Permutations(Players) \cup Permutations(Tickets) \cup
            Permutations(Tasks)

\* Bound of a run: a Party queues a second time only while it is the only one.
SecondTicketAlone ==
    Cardinality({t \in Tickets : ticket[t].state # "none"}) + Cardinality(founded) <= 3
=============================================================================
