--------------------------- MODULE PartyProperties ---------------------------
(***************************************************************************)
(* What Parties must keep true, and what their documents say of them.      *)
(***************************************************************************)
EXTENDS Party

\* A handler that waits, as it names its Party and the player it is about.
TaskRecords ==
    [kind : {"create", "accept", "leave", "dissolve", "cancel", "lost"},
     pc : {"claim", "claimed", "refused", "release", "released", "cancel", "thaw", "cancelled"},
     party : Parties, player : Players, todo : Seq(Players), led : BOOLEAN,
     left : Nat, token : Nat, ticket : Tickets \cup {None}]

TicketRecords ==
    [state : {"none", "frozen", "queued", "reserved", "ending", "ended"},
     party : Parties \cup {None}, owner : Players \cup {None}, members : SUBSET Players]

\* The shape of the Party's tables, the registries and the waiting handlers;
\* a role belongs to a member's row.
TypeOK ==
    /\ exists \subseteq Parties /\ founded \subseteq Parties
    /\ queued \in [Parties -> Tickets \cup {None}]
    /\ members \in [Parties -> Seq(Players)]
    /\ leaders \in [Parties -> SUBSET Players]
    /\ \A p \in Parties : leaders[p] \subseteq Range(members[p])
    /\ invite \in [Parties -> [Players -> {"none", "open", "expired", "used"}]]
    /\ issued \in [Parties -> [Players -> Nat]]
    /\ registry \in [Players -> Parties \cup {None}]
    /\ task \in [Tasks -> TaskRecords \cup {Idle}]
    /\ ticket \in [Tickets -> TicketRecords]
    /\ crashes \in Nat
-----------------------------------------------------------------------------
(* Safety                                                                  *)

\* A Party never has two leaders, though a leader's departure, the choice of
\* its successor and a transfer overlap.
UniqueLeader == \A p \in Parties : Cardinality(leaders[p]) <= 1

\* Nobody is dissolving p.
Undisturbed(p) == \A k \in Tasks : task[k].party = p => task[k].kind # "dissolve"

\* A player is a member of one Party at most, however late the registry serves
\* its claims and releases.  A Party that is being dissolved is left out: it
\* releases members twice, see MembershipHeld.
OneParty ==
    \A pl \in Players : \A p, q \in exists :
        /\ pl \in Range(members[p]) /\ pl \in Range(members[q])
        /\ Undisturbed(p) /\ Undisturbed(q)
        => p = q

\* What freezes a Party for a ticket lasts until that ticket has ended, until
\* its own cancellation has been answered, or until the Party is dissolved: a
\* late endQueueTicket() of an older ticket leaves it frozen.
ThawHasCause ==
    [][\A p \in Parties : \A t \in Tickets :
          queued[p] = t /\ queued'[p] # t =>
              \/ ticket'[t].state = "ended"
              \/ p \notin exists'
              \/ \E k \in Tasks : task[k].kind = "cancel" /\ task[k].ticket = t /\ task'[k] # task[k]
      ]_vars
-----------------------------------------------------------------------------
(* The inductive invariant: what UniqueLeader rests on.                    *)

\* A leader has left, and its successor is still to be chosen.
LeaderGone(k) == task[k].kind = "leave" /\ task[k].led

\* A departed leader's Party has no leader, so that one departure at a time
\* chooses one; a Party that is being created has no other handler, nor a
\* leader yet.
LeaderInv ==
    /\ \A p \in Parties : \A a, b \in leaders[p] : a = b
    /\ \A p \in Parties : leaders[p] # {} => p \in founded
    /\ exists \subseteq founded
    /\ \A k \in Tasks : task[k] = Idle \/ task[k].party \in founded
    /\ \A k \in Tasks : LeaderGone(k) => leaders[task[k].party] = {}
    /\ \A j, k \in Tasks :
          LeaderGone(j) /\ LeaderGone(k) /\ task[j].party = task[k].party => j = k
    /\ \A k \in Tasks : task[k].kind = "create" =>
          /\ task[k].party \notin exists
          /\ leaders[task[k].party] = {}
          /\ \A j \in Tasks \ {k} : task[j].party # task[k].party
-----------------------------------------------------------------------------
(* What OneParty rests on, where no restart loses a dissolution.           *)

\* A Party from its creation to the start of its dissolution.
Whole(p) ==
    /\ p \in exists \/ \E k \in Tasks : task[k].kind = "create" /\ task[k].party = p
    /\ Undisturbed(p)

\* Handler k stands between the registration of pl for p and the member's row.
Between(k, p, pl) ==
    task[k].pc \in {"claimed", "release"} /\ task[k].party = p /\ task[k].player = pl

\* The registration of a player for a whole Party has one reason: the member's
\* row, an INSERT that is to follow, or a release under way.
MembershipInv ==
    /\ \A p \in Parties :
        /\ members[p] # <<>> => p \in founded
        /\ \A i, j \in DOMAIN members[p] : members[p][i] = members[p][j] => i = j
    /\ \A p \in Parties : Whole(p) => \A pl \in Players :
        /\ pl \in Range(members[p]) => registry[pl] = p
        /\ \A k \in Tasks : Between(k, p, pl) => registry[pl] = p /\ pl \notin Range(members[p])
        /\ \A j, k \in Tasks : Between(j, p, pl) /\ Between(k, p, pl) => j = k
    /\ \A k \in Tasks :
        /\ task[k].kind # "lost"
        /\ task[k].kind = "dissolve" => task[k].pc \in {"release", "released"}
-----------------------------------------------------------------------------
(* Liveness                                                                *)

\* A Party whose leader has gone gets a new one or is dissolved, unless the
\* object is restarted in between.
LeaderRestored ==
    \A p \in Parties :
        (p \in exists /\ leaders[p] = {}) ~> (p \notin exists \/ leaders[p] # {} \/ crashes > 0)

Departing(p) == \E k \in Tasks : task[k].kind = "leave" /\ task[k].party = p

\* A Party that a departure leaves with fewer than two members is dissolved or
\* joined by others, unless the object is restarted in between.
LonelyDissolves ==
    \A p \in Parties :
        (p \in exists /\ Departing(p) /\ Len(members[p]) < 2) ~>
            (p \notin exists \/ Len(members[p]) >= 2 \/ crashes > 0)

\* What a departure leaves to be done is done.
DepartureEnds == LeaderRestored /\ LonelyDissolves
-----------------------------------------------------------------------------
(* What the documents say and the code does not keep                       *)

\* A Party that was dissolved keeps no member.
DissolvedIsEmpty ==
    \A p \in Parties : p \notin exists /\ (\A k \in Tasks : task[k].party # p) => members[p] = <<>>

\* The registry of a member names the Party.  (A member who leaves while the
\* Party is being dissolved, and is back before it has removed everybody, is
\* released twice.)
MembershipHeld ==
    \A p \in Parties : \A pl \in Range(members[p]) : registry[pl] = p

\* Nobody joins a Party while its ticket waits for a match: the ticket's
\* memberIds are the Party's members.
FrozenRoster ==
    \A t \in Tickets : ticket[t].state \in Live =>
        Range(members[ticket[t].party]) \subseteq ticket[t].members

\* A Party is not dissolved under a ticket that is still in the queue.
QueuedHasParty ==
    \A t \in Tickets : ticket[t].state = "queued" => ticket[t].party \in exists
=============================================================================
