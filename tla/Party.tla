-------------------------------- MODULE Party --------------------------------
(***************************************************************************)
(* Parties and the registry of who is in which                             *)
(* (packages/cloudflare/src/party.ts): PartyDurableObject, one object per  *)
(* party, and PartyMembershipDurableObject, one object per player, with    *)
(* the tickets of a Match Pool as far as a Party sees them.                *)
(*                                                                         *)
(* A handler of a Party runs without interruption between two calls to a   *)
(* registry or to the Match Pool; a call is sent, is served some time      *)
(* later, and is answered later still, and other handlers of the same      *)
(* Party run meanwhile.  What SQLite holds survives a crash of the object, *)
(* its handlers do not.  Tokens, event rows and revisions are left out.    *)
(***************************************************************************)
EXTENDS Naturals, FiniteSets, Sequences, Functions

CONSTANTS
    Parties,        \* the ids the Gateway may draw, party_<UUID>
    Players,
    Tickets,        \* tickets the Match Pool may create for a Party
    Tasks,          \* the handlers that may wait at one time (a bound)
    MaxPartySize,
    MaxInvites,     \* bound on the invites of a player to a party
    MaxCrashes,     \* bound on the restarts of Party objects
    None

ASSUME PartyAssumption ==
    /\ MaxPartySize \in Nat \ {0, 1}
    /\ MaxInvites \in Nat
    /\ MaxCrashes \in Nat
    /\ None \notin Parties \cup Tickets

VARIABLES
    founded,    \* the ids that have been drawn
    exists,     \* the parties with a row of party_state
    queued,     \* queued_ticket_id
    members,    \* the rows of party_members, the oldest first
    leaders,    \* the members with the role `leader'
    invite,     \* the rows of party_invites
    issued,     \* how many tokens a player was given by a party
    registry,   \* PartyMembershipDurableObject, by player
    task,       \* the handlers that wait
    ticket,     \* the tickets of the Match Pool (external)
    crashes

party == <<founded, exists, queued, members, leaders, invite, issued>>
vars  == <<founded, exists, queued, members, leaders, invite, issued,
           registry, task, ticket, crashes>>

\* kind: the handler; pc: its call, sent, served or refused; todo: the members
\* still to be removed; left: how many it counted as remaining; token: which of
\* the player's invites it accepts; ticket: the ticket it cancels.
Idle == [kind |-> "idle", pc |-> "idle", party |-> None, player |-> None,
         todo |-> <<>>, led |-> FALSE, left |-> 0, token |-> 0, ticket |-> None]

\* What a ticket was frozen with: its party, its owner and its memberIds.
NoTicket == [state |-> "none", party |-> None, owner |-> None, members |-> {}]

\* The states of a ticket in which its players are waiting for a match.
Live == {"queued", "reserved"}
-----------------------------------------------------------------------------
(* Calls to the registry of a player.                                      *)

\* task[k] becomes rec; nothing else of the handlers changes.
Step(k, rec) == task' = [task EXCEPT ![k] = rec]

\* registry.claim(player, null, party)
ClaimAlways(pl) == TRUE    \* mutant: claim() does not compare the expected party
Unclaimed(pl)   == registry[pl] = None

ClaimServed(k) ==
    LET pl == task[k].player IN
    /\ task[k].pc = "claim"
    /\ IF Unclaimed(pl)
       THEN /\ registry' = [registry EXCEPT ![pl] = task[k].party]
            /\ Step(k, [task[k] EXCEPT !.pc = "claimed"])
       ELSE /\ Step(k, [task[k] EXCEPT !.pc = "refused"])
            /\ UNCHANGED registry
    /\ UNCHANGED <<party, ticket, crashes>>

\* registry.release(player, party): only if it still names this party.
ReleaseServed(k) ==
    LET pl == task[k].player IN
    /\ task[k].pc = "release"
    /\ registry' = IF registry[pl] = task[k].party
                   THEN [registry EXCEPT ![pl] = None] ELSE registry
    /\ Step(k, [task[k] EXCEPT !.pc = "released"])
    /\ UNCHANGED <<party, ticket, crashes>>

\* CONFLICT: already in a party.
Refused(k) ==
    /\ task[k].pc = "refused"
    /\ Step(k, Idle)
    /\ UNCHANGED <<party, registry, ticket, crashes>>
-----------------------------------------------------------------------------
(* createParty, inviteMember, acceptInvite, transferLeadership             *)

\* The Gateway draws a new id for every request, a repeated one included.
CreateParty(k, p, pl) ==
    /\ task[k] = Idle
    /\ p \notin founded
    /\ founded' = founded \cup {p}
    /\ Step(k, [Idle EXCEPT !.kind = "create", !.pc = "claim", !.party = p, !.player = pl])
    /\ UNCHANGED <<exists, queued, members, leaders, invite, issued, registry, ticket, crashes>>

Created(k) ==
    LET p == task[k].party
        pl == task[k].player
    IN
    /\ task[k].kind = "create" /\ task[k].pc = "claimed"
    /\ exists' = exists \cup {p}
    /\ members' = [members EXCEPT ![p] = <<pl>>]
    /\ leaders' = [leaders EXCEPT ![p] = {pl}]
    /\ Step(k, Idle)
    /\ UNCHANGED <<founded, queued, invite, issued, registry, ticket, crashes>>

\* An open invite is returned as it is.  A used or expired one is still in the
\* table until the alarm deletes it, and its key refuses the INSERT.
InviteMember(p, pl) ==
    /\ leaders[p] # {}
    /\ pl \notin Range(members[p])
    /\ invite[p][pl] = "none"
    /\ issued[p][pl] < MaxInvites
    /\ invite' = [invite EXCEPT ![p][pl] = "open"]
    /\ issued' = [issued EXCEPT ![p][pl] = @ + 1]
    /\ UNCHANGED <<founded, exists, queued, members, leaders, registry, task, ticket, crashes>>

AcceptInvite(k, p, pl) ==
    /\ task[k] = Idle
    /\ p \in exists
    /\ queued[p] = None
    /\ invite[p][pl] = "open"
    /\ pl \notin Range(members[p])
    /\ Len(members[p]) < MaxPartySize
    /\ Step(k, [Idle EXCEPT !.kind = "accept", !.pc = "claim", !.party = p, !.player = pl,
                            !.token = issued[p][pl]])
    /\ UNCHANGED <<party, registry, ticket, crashes>>

\* Nothing that was checked before the claim is checked again: the Party may
\* be frozen, full or dissolved by now.
Accepted(k) ==
    LET p == task[k].party
        pl == task[k].player
    IN
    /\ task[k].kind = "accept" /\ task[k].pc = "claimed"
    /\ invite' = IF invite[p][pl] # "none" /\ issued[p][pl] = task[k].token
                 THEN [invite EXCEPT ![p][pl] = "used"] ELSE invite
    /\ members' = IF pl \in Range(members[p]) THEN members
                  ELSE [members EXCEPT ![p] = Append(@, pl)]
    /\ Step(k, Idle)
    /\ UNCHANGED <<founded, exists, queued, leaders, issued, registry, ticket, crashes>>

KeepOldLeader(p, pl) == leaders[p] \cup {pl}    \* mutant: the first UPDATE is missing
NewLeader(p, pl)     == {pl}

TransferLeadership(p, pl) ==
    /\ leaders[p] # {}
    /\ pl \in Range(members[p]) \ leaders[p]
    /\ leaders' = [leaders EXCEPT ![p] = NewLeader(p, pl)]
    /\ UNCHANGED <<founded, exists, queued, members, invite, issued, registry, task, ticket,
                   crashes>>
-----------------------------------------------------------------------------
(* leaveParty, dissolveParty, the alarm                                    *)

\* The rows but that of pl; a player has one at most, by the primary key.
Without(s, pl) ==
    LET i == CHOOSE j \in DOMAIN s : s[j] = pl
    IN  IF pl \in Range(s) THEN SubSeq(s, 1, i - 1) \o SubSeq(s, i + 1, Len(s)) ELSE s

\* The DELETE of a member's row, and the call that releases its membership.
Remove(k, rec, p, pl) ==
    /\ members' = [members EXCEPT ![p] = Without(@, pl)]
    /\ leaders' = [leaders EXCEPT ![p] = @ \ {pl}]
    /\ Step(k, [rec EXCEPT !.pc = "release", !.player = pl])

\* dissolveInternal(), with the rows of the members that it has still to
\* remove, one after the other; then the invites and the Party's row are
\* deleted.  q and inv: the freezes and the invites as they are when it goes on.
DissolveRest(k, p, rows, q, inv) ==
    \/ /\ rows = <<>>
       /\ exists' = exists \ {p}
       /\ queued' = [q EXCEPT ![p] = None]
       /\ invite' = [inv EXCEPT ![p] = [pl \in Players |-> "none"]]
       /\ Step(k, Idle)
       /\ UNCHANGED <<members, leaders>>
    \/ /\ rows # <<>>
       /\ queued' = q
       /\ invite' = inv
       /\ Remove(k, [Idle EXCEPT !.kind = "dissolve", !.party = p, !.todo = Tail(rows)],
                 p, Head(rows))
       /\ UNCHANGED exists

Dissolve(k, p, q, inv) == DissolveRest(k, p, members[p], q, inv)

\* The membership of a removed member has been released.
Removed(k) ==
    /\ task[k].kind = "dissolve" /\ task[k].pc = "released"
    /\ DissolveRest(k, task[k].party, task[k].todo, queued, invite)
    /\ UNCHANGED <<founded, issued, registry, ticket, crashes>>

LeaveParty(k, p, pl) ==
    /\ task[k] = Idle
    /\ p \in exists
    /\ queued[p] = None
    /\ pl \in Range(members[p])
    /\ Remove(k, [Idle EXCEPT !.kind = "leave", !.party = p, !.led = (pl \in leaders[p]),
                              !.left = Len(members[p]) - 1], p, pl)
    /\ UNCHANGED <<founded, exists, queued, invite, issued, registry, ticket, crashes>>

NobodyLeft(n) == n = 0    \* mutant: dissolves only when nobody is left
TooFew(n)     == n < 2

LeaderNeeded(rec) == rec.led /\ rec.left >= 2

\* How many members remain was counted before the release.  The oldest member
\* of those there are now becomes the leader.
Left(k) ==
    LET rec == task[k]
        p == rec.party
    IN
    /\ rec.kind = "leave" /\ rec.pc = "released"
    /\ \/ TooFew(rec.left) /\ Dissolve(k, p, queued, invite)
       \/ /\ ~TooFew(rec.left)
          /\ leaders' = IF LeaderNeeded(rec) /\ members[p] # <<>>
                        THEN [leaders EXCEPT ![p] = @ \cup {Head(members[p])}]
                        ELSE leaders
          /\ Step(k, Idle)
          /\ UNCHANGED <<exists, queued, members, invite>>
    /\ UNCHANGED <<founded, issued, registry, ticket, crashes>>

\* A Party that is queued asks the Match Pool to cancel its ticket first.
DissolveParty(k, p, pl) ==
    /\ task[k] = Idle
    /\ p \in exists
    /\ pl \in leaders[p]
    /\ \/ queued[p] = None /\ Dissolve(k, p, queued, invite)
       \/ /\ queued[p] # None
          /\ Step(k, [Idle EXCEPT !.kind = "cancel", !.pc = "cancel", !.party = p,
                                  !.player = pl, !.ticket = queued[p]])
          /\ UNCHANGED <<exists, queued, members, leaders, invite>>
    /\ UNCHANGED <<founded, issued, registry, ticket, crashes>>

\* cancelTicket() of the Match Pool: it cancels a ticket that is in its queue
\* and that this player owns, and answers when the Party is thawed; everything
\* else it refuses or returns as it is.
CancelServed(k) ==
    LET t == task[k].ticket
        cancels == ticket[t].state = "queued" /\ ticket[t].owner = task[k].player
    IN
    /\ task[k].pc = "cancel"
    /\ ticket' = IF cancels THEN [ticket EXCEPT ![t].state = "ending"] ELSE ticket
    /\ Step(k, [task[k] EXCEPT !.pc = IF cancels THEN "thaw" ELSE "cancelled"])
    /\ UNCHANGED <<party, registry, crashes>>

\* What is frozen after endQueueTicket(t) of p.
ThawAny(p, t) == [queued EXCEPT ![p] = None]    \* mutant: the ids are not compared
Thaw(p, t)    == IF queued[p] = t THEN [queued EXCEPT ![p] = None] ELSE queued

\* Whatever the Match Pool answered, the Party is thawed and dissolved.
Cancelled(k) ==
    LET t == task[k].ticket
        p == task[k].party
    IN
    /\ task[k].kind = "cancel"
    /\ \/ task[k].pc = "cancelled"
       \/ task[k].pc = "thaw" /\ ticket[t].state = "ended"
    /\ Dissolve(k, p, Thaw(p, t), invite)
    /\ UNCHANGED <<founded, issued, registry, ticket, crashes>>

InviteExpires(p, pl) ==
    /\ invite[p][pl] = "open"
    /\ invite' = [invite EXCEPT ![p][pl] = "expired"]
    /\ UNCHANGED <<founded, exists, queued, members, leaders, issued, registry, task, ticket,
                   crashes>>

\* The alarm deletes the invites that were used or have expired.
Swept(p) == [invite EXCEPT ![p] =
                [pl \in Players |-> IF @[pl] = "open" THEN "open" ELSE "none"]]

\* It is set to the first expiry of an unused invite.
InviteAlarm(p) ==
    /\ \E pl \in Players : invite[p][pl] = "expired"
    /\ invite' = Swept(p)
    /\ UNCHANGED <<founded, exists, queued, members, leaders, issued, registry, task, ticket,
                   crashes>>

\* Or to a day without any change.  No handler waits as long, but a ticket in
\* the queue may: its time to live is the caller's choice.
IdleAlarm(k, p) ==
    /\ task[k] = Idle
    /\ p \in exists
    /\ \A j \in Tasks : task[j].party # p
    /\ \A t \in Tickets : ticket[t].party = p => ticket[t].state \in {"queued", "ended"}
    /\ Dissolve(k, p, queued, Swept(p))
    /\ UNCHANGED <<founded, issued, registry, ticket, crashes>>
-----------------------------------------------------------------------------
(* The tickets of the Match Pool.                                          *)

\* beginQueueTicket(), for the player that creates the ticket.
BeginQueueTicket(t, p, pl) ==
    /\ ticket[t].state = "none"
    /\ p \in exists
    /\ pl \in leaders[p]
    /\ queued[p] = None
    /\ queued' = [queued EXCEPT ![p] = t]
    /\ ticket' = [ticket EXCEPT ![t] = [state |-> "frozen", party |-> p, owner |-> pl,
                                        members |-> Range(members[p])]]
    /\ UNCHANGED <<founded, exists, members, leaders, invite, issued, registry, task, crashes>>

TicketMoves(t, from, to) ==
    /\ ticket[t].state = from
    /\ ticket' = [ticket EXCEPT ![t].state = to]
    /\ UNCHANGED <<party, registry, task, crashes>>

\* The INSERT of createTicket() fails, a queued ticket is closed, or a reserved
\* one settled.
TicketEnds(t) == \E from \in {"frozen", "queued", "reserved"} : TicketMoves(t, from, "ending")

\* The endQueueTicket() that follows the end of a ticket.
EndQueueTicket(t) ==
    /\ ticket[t].state = "ending"
    /\ ticket' = [ticket EXCEPT ![t].state = "ended"]
    /\ queued' = Thaw(ticket[t].party, t)
    /\ UNCHANGED <<founded, exists, members, leaders, invite, issued, registry, task, crashes>>
-----------------------------------------------------------------------------
(* A Party object is restarted.  A call it has sent may still be served.   *)
Crash(p) ==
    /\ crashes < MaxCrashes
    /\ crashes' = crashes + 1
    /\ task' = [k \in Tasks |->
                   IF task[k].party # p THEN task[k]
                   ELSE IF task[k].pc \in {"claim", "release", "cancel"}
                   THEN [task[k] EXCEPT !.kind = "lost"]
                   ELSE Idle]
    /\ UNCHANGED <<party, registry, ticket>>

Lost(k) ==
    /\ task[k].kind = "lost"
    /\ Step(k, Idle)
    /\ UNCHANGED <<party, registry, ticket, crashes>>
-----------------------------------------------------------------------------
Init ==
    /\ founded = {}
    /\ exists = {}
    /\ queued = [p \in Parties |-> None]
    /\ members = [p \in Parties |-> <<>>]
    /\ leaders = [p \in Parties |-> {}]
    /\ invite = [p \in Parties |-> [pl \in Players |-> "none"]]
    /\ issued = [p \in Parties |-> [pl \in Players |-> 0]]
    /\ registry = [pl \in Players |-> None]
    /\ task = [k \in Tasks |-> Idle]
    /\ ticket = [t \in Tickets |-> NoTicket]
    /\ crashes = 0

Serve(k) == ClaimServed(k) \/ ReleaseServed(k) \/ CancelServed(k)

Answer(k) ==
    \/ Refused(k) \/ Created(k) \/ Accepted(k) \/ Left(k) \/ Removed(k) \/ Cancelled(k)
    \/ Lost(k)

Call(k, p) ==
    \/ \E pl \in Players :
          \/ CreateParty(k, p, pl) \/ AcceptInvite(k, p, pl)
          \/ LeaveParty(k, p, pl) \/ DissolveParty(k, p, pl)
    \/ IdleAlarm(k, p)

Quick(p) ==
    \/ \E pl \in Players :
          \/ InviteMember(p, pl) \/ InviteExpires(p, pl) \/ TransferLeadership(p, pl)
          \/ \E t \in Tickets : BeginQueueTicket(t, p, pl)
    \/ InviteAlarm(p)

Next ==
    \/ \E k \in Tasks : Serve(k) \/ Answer(k) \/ \E p \in Parties : Call(k, p)
    \/ \E p \in Parties : Quick(p) \/ Crash(p)
    \/ \E t \in Tickets :
          \/ TicketMoves(t, "frozen", "queued") \/ TicketMoves(t, "queued", "reserved")
          \/ TicketEnds(t) \/ EndQueueTicket(t)

Spec == Init /\ [][Next]_vars

\* Calls are served and answered, and a ticket that has ended is reported.
Fairness ==
    /\ \A k \in Tasks : WF_vars(Serve(k)) /\ WF_vars(Answer(k))
    /\ \A t \in Tickets : WF_vars(EndQueueTicket(t))

FairSpec == Spec /\ Fairness
=============================================================================
