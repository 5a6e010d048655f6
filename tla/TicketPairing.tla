---------------------------- MODULE TicketPairing ----------------------------
(***************************************************************************)
(* What a Match Pool promises its players, apart from how it keeps its     *)
(* queue: a ticket is queued at most once, is then either closed or paired *)
(* with exactly one other ticket, and a pair is matched or closed as one.  *)
(***************************************************************************)
CONSTANTS Tickets, Nobody

Pairs == UNION {{{a, b} : b \in Tickets \ {a}} : a \in Tickets}

VARIABLES
    stage,  \* how far a ticket has come
    pair    \* the pair a ticket belongs to, for ever

pairingVars == <<stage, pair>>

PairingInit ==
    /\ stage = [t \in Tickets |-> "absent"]
    /\ pair = [t \in Tickets |-> Nobody]

Rest(t)  == stage'[t] = stage[t] /\ pair'[t] = pair[t]
Enter(t) == stage[t] = "absent" /\ stage'[t] = "open" /\ pair'[t] = pair[t]
Leave(t) == stage[t] = "open" /\ stage'[t] = "closed" /\ pair'[t] = pair[t]

\* A ticket may be paired in the step that queues it.
Pair(t) ==
    /\ pair'[t] \in Pairs
    /\ t \in pair'[t]
    /\ \A u \in pair'[t] : /\ stage[u] \in {"absent", "open"}
                           /\ stage'[u] = "paired"
                           /\ pair'[u] = pair'[t]

\* A turn of the queue: tickets enter and leave it, and pairs are formed.
Turn == \A t \in Tickets : Rest(t) \/ Enter(t) \/ Leave(t) \/ Pair(t)

\* A pair is settled, one way or the other.
Settle(c, s) ==
    /\ \A t \in c : stage[t] = "paired" /\ pair[t] = c /\ stage'[t] = s
    /\ \A t \in Tickets \ c : stage'[t] = stage[t]
    /\ UNCHANGED pair

PairingNext == Turn \/ \E c \in Pairs : Settle(c, "matched") \/ Settle(c, "closed")

PairingSpec == PairingInit /\ [][PairingNext]_pairingVars
=============================================================================
