------------------------------ MODULE MatchPool ------------------------------
(***************************************************************************)
(* One Match Pool Durable Object (packages/cloudflare/src/match-pool.ts):  *)
(* its ticket queue, the reservation of pairs of tickets, and the          *)
(* settlement of a reserved pair into a match Room.                        *)
(*                                                                         *)
(* A handler runs without interruption between two calls to another        *)
(* Durable Object or to D1, and any number of handlers may be waiting for  *)
(* such a call.  A step of this module is one uninterrupted run of one     *)
(* handler: from its start, or from an answer it waited for, to its next   *)
(* call or its end.  A handler that waits is a task.  What SQLite holds    *)
(* survives a crash of the object; its tasks do not.                       *)
(*                                                                         *)
(* The clock is abstract: `overdue' holds the queued tickets whose         *)
(* expires_at_ms has passed, and the field `due' of an intent says that    *)
(* its next_attempt_at has.  Either may become true at any time.           *)
(***************************************************************************)
EXTENDS Naturals, FiniteSets, Sequences

CONSTANTS
    Tickets,        \* the ticket ids crypto.randomUUID() may return
    Players,
    Requests,       \* requestIds of createTicket(), each with a fixed payload
    Owner,          \* Owner[r]: the authenticated player that sends r
    Members,        \* Members[r]: the players the ticket of r queues
    PartyRequests,  \* the requests that name a partyId
    Tasks,          \* the handlers that may wait at one time (a bound)
    AlarmTask,      \* the alarm handler, of which at most one runs
    TeamSize,
    MaxPartySize,
    MaxAttempts,    \* matchRoom.maxAttempts
    MaxCrashes,     \* bound on the restarts of the object
    Faults,         \* the calls that may fail: "room", "party", "d1"
    Operator,       \* the RPCs no Gateway route calls that are called all the same
    None

Candidates == UNION {{{a, b} : b \in Tickets \ {a}} : a \in Tickets}

ASSUME PoolAssumption ==
    /\ Owner \in [Requests -> Players]
    /\ Members \in [Requests -> SUBSET Players]
    /\ \A r \in Requests : Owner[r] \in Members[r]
    /\ \A r \in Requests \ PartyRequests : Members[r] = {Owner[r]}
    /\ PartyRequests \subseteq Requests
    /\ AlarmTask \notin Tasks
    /\ MaxAttempts \in Nat \ {0}
    /\ MaxCrashes \in Nat
    /\ None \notin Tickets \cup Candidates \cup Requests

VARIABLES
    status,      \* tickets.status, "none" for an id with no row
    source,      \* the request whose player, members and party the row holds
    candidate,   \* tickets.reserved_candidate_json
    result,      \* createdAt of tickets.match_result_json
    queuePlayer, \* the table queue_players
    overdue,     \* the tickets with expires_at_ms <= now
    events,      \* the ticket events, by ticket
    intent,      \* the table match_intents, by candidate
    processed,   \* processed_commands of matchmaking.create
    alarm,       \* whether the Durable Object's alarm is set
    task,        \* the handlers that wait for an answer
    detached,    \* endQueueTicket() calls that no handler awaits
    frozen,      \* the tickets for which a Party is frozen (external)
    rooms,       \* the candidates whose match Room is initialised (external)
    crashes

queue    == <<status, source, candidate, result, queuePlayer, overdue, events>>
external == <<frozen, rooms>>
vars     == <<status, source, candidate, result, queuePlayer, overdue, events,
              intent, processed, alarm, task, detached, frozen, rooms, crashes>>

Statuses == {"none", "creating", "waiting", "reserved", "matched",
             "cancelled", "expired"}
Queued   == {"creating", "waiting"}
Active   == {"creating", "waiting", "reserved"}
Ended    == {"matched", "cancelled", "expired"}
Live     == {"pending", "initializing"}
Handlers == Tasks \cup {AlarmTask}

Idle     == [kind |-> "idle", pc |-> "idle", request |-> None, ticket |-> None,
             cand |-> None, todo |-> {}, token |-> 0, ending |-> {}]
NoIntent == [status |-> "none", attempts |-> 0, due |-> FALSE, result |-> None]
-----------------------------------------------------------------------------
(* What a handler reads.                                                   *)

PartyTickets(T) == {t \in T : source[t] \in PartyRequests}

\* readActiveTicketByPlayer, and the unique index on active tickets.
HasActiveTicket(p) ==
    \E t \in Tickets : status[t] \in Active /\ Owner[source[t]] = p

\* Whether the INSERT of the rows of queue_players meets its primary key.
OwnerQueued(r)  == queuePlayer[Owner[r]] # None     \* mutant: the leader stands for all
AnyQueued(r)    == \E p \in Members[r] : queuePlayer[p] # None

\* A ticket id that names nothing yet, in this object or in a Party.
FreshTicket(t) ==
    /\ status[t] = "none"
    /\ t \notin frozen
    /\ \A k \in Handlers : task[k].ticket # t

ForgetInFlight(r) == FALSE    \* mutant: createTicketInFlight is never consulted
InFlight(r) == \E k \in Handlers : task[k].kind = "create" /\ task[k].request = r

\* The rows claimMatchIntent() would take.
Claimable(i) == i.status \in Live /\ i.due

\* Whether matchRoom.maxAttempts allows no further attempt.
Exhausted(i) == i.attempts >= MaxAttempts

\* Whether synchronizeAlarm() finds a time to wake up at.
QueueDeadline(st, int) == \E t \in Tickets : st[t] \in Queued  \* mutant: no intents
HasDeadline(st, int) ==
    \/ \E t \in Tickets : st[t] \in Queued
    \/ \E c \in Candidates : int[c].status \in Live
-----------------------------------------------------------------------------
(* The SQL updates handlers share, as functions of what they update.       *)

Mark(st, T, s) == [t \in Tickets |-> IF t \in T THEN s ELSE st[t]]
Log(ev, T, s)  == [t \in Tickets |-> IF t \in T THEN Append(ev[t], s) ELSE ev[t]]

\* The DELETE of releaseTicketQueues().
DequeueOwner(T) ==    \* mutant: deletes the row of the ticket's player only
    [p \in Players |-> IF queuePlayer[p] \in T /\ p = Owner[source[queuePlayer[p]]]
                       THEN None ELSE queuePlayer[p]]
Dequeue(T) == [p \in Players |-> IF queuePlayer[p] \in T THEN None ELSE queuePlayer[p]]

\* What searchAndReserveCandidatesAt() may reserve in the queue st: disjoint
\* pairs of unexpired waiting tickets of full teams.  Which ratings are close
\* enough depends on the clock and is left open.
OverlappingSearches(st) ==    \* mutant: a ticket may be in two pairs
    {S \in SUBSET Candidates :
        \A t \in UNION S : st[t] = "waiting" /\ t \notin overdue}
Searches(st) ==
    {S \in SUBSET Candidates :
        /\ \A t \in UNION S : st[t] = "waiting" /\ t \notin overdue
        /\ \A c, d \in S : c # d => c \cap d = {}}

FullTeams(S, src) == \A t \in UNION S : Cardinality(Members[src[t]]) = TeamSize

\* reserveCandidateRows() and ensureMatchIntent() of each pair of S.
Reserve(S, st, ev) ==
    /\ status' = Mark(st, UNION S, "reserved")
    /\ candidate' = [t \in Tickets |-> IF t \in UNION S
                                       THEN CHOOSE c \in S : t \in c
                                       ELSE candidate[t]]
    /\ events' = Log(ev, UNION S, "reserved")

NoIntents(S)  == intent    \* mutant: the search calls no ensureMatchIntent()
IntentsFor(S) ==
    [c \in Candidates |->
        IF c \in S /\ intent[c].status = "none"
        THEN [status |-> "pending", attempts |-> 0, due |-> TRUE, result |-> None]
        ELSE intent[c]]

\* completeMatchIntent() leaves a failed intent as it is.
Complete(c, token) ==
    IF intent[c].status = "failed" THEN intent
    ELSE [intent EXCEPT ![c].status = "matched", ![c].due = FALSE,
                        ![c].result = token]
-----------------------------------------------------------------------------
(* The loop of processPendingMatches(): claim a due intent, wait for its   *)
(* Room, go on with the next row, return to the caller.                    *)

\* A claim moves next_attempt_at one delay past the time its own loop started
\* at.  Loops that started long enough after it (`kept') still see a due row
\* when that time has passed; the others do not.
ClaimMatchIntent(k, rec, int, c) ==
    /\ intent' = [int EXCEPT ![c].status = "initializing",
                             ![c].attempts = @ + 1,
                             ![c].due = FALSE]
    /\ \E kept \in SUBSET {j \in Handlers \ {k} : c \in task[j].todo} :
         task' = [j \in Handlers |->
                    IF j = k
                    THEN [rec EXCEPT !.pc = "init", !.cand = c, !.todo = @ \ {c},
                                     !.token = int[c].attempts + 1, !.ending = {}]
                    ELSE IF j \in kept THEN task[j]
                    ELSE [task[j] EXCEPT !.todo = @ \ {c}]]
    /\ UNCHANGED processed

Return(k, rec, int) ==
    /\ intent' = int
    /\ task' = [task EXCEPT ![k] = Idle]
    /\ processed' = IF rec.kind = "create"
                    THEN [processed EXCEPT ![rec.request] = rec.ticket]
                    ELSE processed
    /\ alarm' = HasDeadline(status', int)

\* armed: the alarm as it is when the loop goes on.
Continue(k, rec, int, armed) ==
    LET rows == {c \in rec.todo : Claimable(int[c])} IN
    \/ rows = {} /\ Return(k, rec, int)
    \/ \E c \in rows : ClaimMatchIntent(k, rec, int, c) /\ alarm' = armed

ProcessPendingMatches(k, rec, int, armed) ==
    Continue(k, [rec EXCEPT !.todo = {c \in Candidates : Claimable(int[c])}], int, armed)
-----------------------------------------------------------------------------
(* createTicket                                                            *)

Begin(k, rec) ==
    /\ task' = [task EXCEPT ![k] = rec]
    /\ UNCHANGED <<intent, processed, alarm>>

Done(k) == Begin(k, Idle)

\* A requestId already processed: the loop runs, the stored ticket is returned.
CreateReplay(k, r) ==
    /\ task[k] = Idle
    /\ processed[r] # None
    /\ UNCHANGED <<queue, detached, external, crashes>>
    /\ ProcessPendingMatches(k, [Idle EXCEPT !.kind = "settle"], intent, alarm)

\* The INSERTs of a ticket and of its players, and what follows them up to the
\* next call.  When they fail, the ticket's Party is thawed.
InsertTicket(k, rec) ==
    LET r == rec.request
        t == rec.ticket
        src == [source EXCEPT ![t] = r]
        Reject == IF r \in PartyRequests THEN Begin(k, [rec EXCEPT !.pc = "undo"])
                                         ELSE Done(k)
    IN
    \* The unique index refuses a second active ticket of the owner.
    \/ /\ HasActiveTicket(Owner[r])
       /\ Reject
       /\ UNCHANGED queue
    \* queue_players refuses a member that is queued: its rows are deleted
    \* again, the ticket's row stays.
    \/ /\ ~HasActiveTicket(Owner[r])
       /\ AnyQueued(r)
       /\ status' = [status EXCEPT ![t] = "creating"]
       /\ source' = src
       /\ Reject
       /\ UNCHANGED <<candidate, result, queuePlayer, overdue, events>>
    \/ /\ ~HasActiveTicket(Owner[r])
       /\ ~AnyQueued(r)
       /\ source' = src
       /\ queuePlayer' = [p \in Players |-> IF p \in Members[r] THEN t ELSE queuePlayer[p]]
       /\ LET st == [status EXCEPT ![t] = "waiting"]
              ev == [events EXCEPT ![t] = @ \o <<"creating", "waiting">>]
          IN \E S \in Searches(st) :
                /\ FullTeams(S, src)
                /\ Reserve(S, st, ev)
                /\ ProcessPendingMatches(k, rec, IntentsFor(S), alarm)
       /\ UNCHANGED <<result, overdue>>

\* What createTicket() checks before its first call; a requestId in flight is
\* answered with the promise of the handler that has it.
MayCreate(k, r, t) ==
    /\ task[k] = Idle
    /\ processed[r] = None
    /\ ~InFlight(r)
    /\ ~HasActiveTicket(Owner[r])
    /\ FreshTicket(t)

CreateRec(r, t) == [Idle EXCEPT !.kind = "create", !.request = r, !.ticket = t]

CreateSolo(k, r, t) ==
    /\ r \notin PartyRequests
    /\ MayCreate(k, r, t)
    /\ InsertTicket(k, CreateRec(r, t))
    /\ UNCHANGED <<detached, external, crashes>>

\* Calls party.beginQueueTicket().
CreateParty(k, r, t) ==
    /\ r \in PartyRequests
    /\ MayCreate(k, r, t)
    /\ Begin(k, [CreateRec(r, t) EXCEPT !.pc = "begin"])
    /\ UNCHANGED <<queue, detached, external, crashes>>

\* The Party is frozen: its size is checked and the ratings are read from D1.
PartyFrozen(k) ==
    LET oversized == Cardinality(Members[task[k].request]) > MaxPartySize IN
    /\ task[k].pc = "begin"
    /\ frozen' = frozen \cup {task[k].ticket}
    /\ Begin(k, [task[k] EXCEPT !.pc = IF oversized THEN "undo" ELSE "ratings"])
    /\ UNCHANGED <<queue, detached, rooms, crashes>>

\* The Party refuses, or the call fails with or without having frozen it: no
\* handler thaws a Party whose freeze it has not seen.
PartyRefused(k) ==
    /\ task[k].pc = "begin"
    /\ \/ frozen' = frozen
       \/ "party" \in Faults /\ frozen' = frozen \cup {task[k].ticket}
    /\ Done(k)
    /\ UNCHANGED <<queue, detached, rooms, crashes>>

RatingsRead(k) ==
    /\ task[k].pc = "ratings"
    /\ InsertTicket(k, task[k])
    /\ UNCHANGED <<detached, external, crashes>>

StayFrozen(k) ==    \* mutant: the catch block does not thaw the Party
    /\ "d1" \in Faults
    /\ task[k].pc = "ratings"
    /\ Done(k)
    /\ UNCHANGED <<queue, detached, external, crashes>>

RatingsFailed(k) ==
    /\ "d1" \in Faults
    /\ task[k].pc = "ratings"
    /\ Begin(k, [task[k] EXCEPT !.pc = "undo"])
    /\ UNCHANGED <<queue, detached, external, crashes>>

\* An answer to party.endQueueTicket(): errors are swallowed by every caller.
EndQueueTicket(t) ==
    \/ frozen' = frozen \ {t}
    \/ "party" \in Faults /\ frozen' = frozen

CreateUndone(k) ==
    /\ task[k].pc = "undo"
    /\ EndQueueTicket(task[k].ticket)
    /\ Done(k)
    /\ UNCHANGED <<queue, detached, rooms, crashes>>
-----------------------------------------------------------------------------
(* Settlement: the answers of room.initialize().                           *)

BothReserved(c) == \A t \in c : status[t] = "reserved" /\ candidate[t] = c
SameResult(c, token) ==
    \A t \in c : status[t] = "matched" /\ candidate[t] = c /\ result[t] = token

\* The updates of applyMatchResult() before its first endQueueTicket().
ApplyMatchResult(c, token) ==
    /\ status' = Mark(status, c, "matched")
    /\ result' = [t \in Tickets |-> IF t \in c THEN token ELSE result[t]]
    /\ events' = Log(events, c, "matched")
    /\ queuePlayer' = Dequeue(c)
    /\ UNCHANGED <<source, candidate, overdue>>

\* The Parties of a matched pair are thawed one after the other.
AwaitRelease(k, rec, T) == Begin(k, [rec EXCEPT !.pc = "matchRelease", !.ending = T])

\* The catch block of processClaimedMatchIntent().  failMatchIntent() is not
\* awaited: its updates are made at once, its endQueueTicket() calls detached.
SettlementFailed(k, retryable) ==
    LET c == task[k].cand
        i == intent[c]
        undone == {t \in c : status[t] = "reserved" /\ candidate[t] = c}
        closed == undone \cup {t \in c : status[t] = "cancelled"}
    IN
    \/ /\ i.status = "matched"
       /\ UNCHANGED <<queue, detached>>
       /\ Continue(k, task[k], intent, alarm)
    \/ /\ i.status # "matched"
       /\ ~retryable \/ Exhausted(i)
       /\ status' = Mark(status, undone, "cancelled")
       /\ queuePlayer' = Dequeue(closed)
       /\ detached' = detached \cup PartyTickets(closed)
       /\ UNCHANGED <<source, candidate, result, overdue, events>>
       /\ Continue(k, task[k],
                   [intent EXCEPT ![c].status = "failed", ![c].due = FALSE], alarm)
    \/ /\ i.status # "matched"
       /\ retryable /\ ~Exhausted(i)
       /\ UNCHANGED <<queue, detached>>
       /\ Continue(k, task[k],
                   IF i.status = "initializing"
                   THEN [intent EXCEPT ![c].status = "pending", ![c].due = FALSE]
                   ELSE intent, alarm)

RoomInitialized(k) ==
    LET c == task[k].cand
        token == task[k].token
    IN
    /\ task[k].pc = "init"
    /\ rooms' = rooms \cup {c}
    /\ \/ /\ BothReserved(c)
          /\ ApplyMatchResult(c, token)
          /\ IF PartyTickets(c) = {}
             THEN Continue(k, task[k], Complete(c, token),
                           HasDeadline(status', Complete(c, token)))
             ELSE AwaitRelease(k, task[k], PartyTickets(c))
          /\ UNCHANGED detached
       \* A result of its own time never equals the one already applied.
       \/ ~BothReserved(c) /\ SettlementFailed(k, TRUE)
    /\ UNCHANGED <<frozen, crashes>>

\* The call fails, before or after the Room was initialised.
RoomFailed(k) ==
    /\ "room" \in Faults
    /\ task[k].pc = "init"
    /\ rooms' \in {rooms, rooms \cup {task[k].cand}}
    /\ \E retryable \in BOOLEAN : SettlementFailed(k, retryable)
    /\ UNCHANGED <<frozen, crashes>>

\* An endQueueTicket() of a matched pair is answered; after the last one the
\* intent is completed and the handler goes on.
MatchReleased(k) ==
    LET rec == [task[k] EXCEPT !.ending = {}]
        int == Complete(rec.cand, rec.token)
    IN
    /\ task[k].pc = "matchRelease"
    /\ UNCHANGED <<queue, detached, rooms, crashes>>
    /\ \E t \in task[k].ending :
        /\ EndQueueTicket(t)
        /\ IF task[k].ending = {t}
           THEN Continue(k, rec, int, HasDeadline(status, int))
           ELSE Begin(k, [task[k] EXCEPT !.ending = @ \ {t}])

DetachedReleased(t) ==
    /\ t \in detached
    /\ detached' = detached \ {t}
    /\ EndQueueTicket(t)
    /\ UNCHANGED <<queue, intent, processed, alarm, task, rooms, crashes>>
-----------------------------------------------------------------------------
(* cancelTicket, expiry, the alarm                                         *)

\* Closing queued tickets, up to the first endQueueTicket().
Close(T, s) ==
    /\ status' = Mark(status, T, s)
    /\ events' = Log(events, T, s)
    /\ queuePlayer' = Dequeue(T)
    /\ UNCHANGED <<source, candidate, result, overdue>>

\* Sent by the owner; a ticket that is reserved or matched is refused, one
\* that is closed is returned as it is.
CancelTicket(k, t) ==
    /\ task[k] = Idle
    /\ status[t] \in Queued
    /\ Close({t}, "cancelled")
    /\ IF source[t] \in PartyRequests
       THEN Begin(k, [Idle EXCEPT !.kind = "cancel", !.pc = "closeRelease", !.ending = {t}])
       ELSE Return(k, Idle, intent)
    /\ UNCHANGED <<detached, external, crashes>>

\* The RPC for one ticket: it releases neither queue_players nor the Party.
ExpireTicket(t) ==
    /\ "expireTicket" \in Operator
    /\ status[t] \in Queued
    /\ t \in overdue
    /\ status' = Mark(status, {t}, "expired")
    /\ events' = Log(events, {t}, "expired")
    /\ alarm' = HasDeadline(status', intent)
    /\ UNCHANGED <<source, candidate, result, queuePlayer, overdue, intent,
                   processed, task, detached, external, crashes>>

\* A search and its settlement: the end of alarm(), and all of
\* searchAndReserveCandidates(), configureSearchPolicy() and, when it reserves
\* nothing, processPendingMatches().
SearchAndSettle(k, st, ev, armed) ==
    \E S \in Searches(st) :
        /\ FullTeams(S, source)
        /\ Reserve(S, st, ev)
        /\ ProcessPendingMatches(k, [Idle EXCEPT !.kind = "settle"], IntentsFor(S), armed)

SearchRpc(k) ==
    /\ task[k] = Idle
    /\ SearchAndSettle(k, status, events, alarm)
    /\ UNCHANGED <<source, result, queuePlayer, overdue, detached, external, crashes>>

Overdue == {t \in overdue : status[t] \in Queued}

\* expireDueTickets(), up to the first endQueueTicket().
ExpireDueTickets(k) ==
    /\ "expireDueTickets" \in Operator
    /\ task[k] = Idle
    /\ Close(Overdue, "expired")
    /\ IF PartyTickets(Overdue) = {} THEN Return(k, Idle, intent)
       ELSE Begin(k, [Idle EXCEPT !.kind = "cancel", !.pc = "closeRelease",
                                  !.ending = PartyTickets(Overdue)])
    /\ UNCHANGED <<detached, external, crashes>>

\* alarm() expires every overdue ticket, then searches and settles.
Alarm ==
    LET due == Overdue
        parties == PartyTickets(due)
    IN
    /\ alarm
    /\ task[AlarmTask] = Idle
    /\ queuePlayer' = Dequeue(due)
    /\ IF parties = {}
       THEN SearchAndSettle(AlarmTask, Mark(status, due, "expired"),
                            Log(events, due, "expired"), FALSE)
       ELSE /\ status' = Mark(status, due, "expired")
            /\ events' = Log(events, due, "expired")
            /\ task' = [task EXCEPT ![AlarmTask] =
                            [Idle EXCEPT !.kind = "alarm", !.pc = "closeRelease",
                                         !.ending = parties]]
            /\ alarm' = FALSE
            /\ UNCHANGED <<candidate, intent, processed>>
    /\ UNCHANGED <<source, result, overdue, detached, external, crashes>>

\* An endQueueTicket() of a cancelled or expired ticket is answered.
CloseReleased(k) ==
    /\ task[k].pc = "closeRelease"
    /\ \E t \in task[k].ending :
        /\ EndQueueTicket(t)
        /\ \/ /\ task[k].ending # {t}
              /\ Begin(k, [task[k] EXCEPT !.ending = @ \ {t}])
              /\ UNCHANGED queue
           \/ /\ task[k].ending = {t} /\ task[k].kind = "cancel"
              /\ UNCHANGED queue
              /\ Return(k, Idle, intent)
           \/ /\ task[k].ending = {t} /\ task[k].kind = "alarm"
              /\ SearchAndSettle(k, status, events, alarm)
              /\ UNCHANGED <<source, result, queuePlayer, overdue>>
    /\ UNCHANGED <<detached, rooms, crashes>>
-----------------------------------------------------------------------------
(* reserveCandidate and matchCandidate, which take what the caller chose.  *)

ReserveCandidate(k, c) ==
    /\ "reserveCandidate" \in Operator
    /\ task[k] = Idle
    /\ \A t \in c : status[t] = "waiting"
    /\ Reserve({c}, status, events)
    /\ ProcessPendingMatches(k, [Idle EXCEPT !.kind = "settle"], IntentsFor({c}), alarm)
    /\ UNCHANGED <<source, result, queuePlayer, overdue, detached, external, crashes>>

\* Calls room.getSnapshot() before it believes the result, whose createdAt is
\* the caller's (0, no attempt's); a result already applied needs no call.
MatchCandidate(k, c) ==
    /\ "matchCandidate" \in Operator
    /\ task[k] = Idle
    /\ \/ /\ BothReserved(c)
          /\ Begin(k, [Idle EXCEPT !.kind = "match", !.pc = "verify", !.cand = c])
       \/ /\ SameResult(c, 0)
          /\ intent' = Complete(c, 0)
          /\ UNCHANGED <<task, processed, alarm>>
    /\ UNCHANGED <<queue, detached, external, crashes>>

\* What verifyMatchRoomInitialized() requires of the Room's snapshot.
Unverified(c) == TRUE    \* mutant: the caller's result is believed
Verified(c)   == c \in rooms

\* The rows are read again after the call.
RoomVerified(k) ==
    LET c == task[k].cand IN
    /\ task[k].pc = "verify"
    /\ Verified(c)
    /\ \/ /\ BothReserved(c)
          /\ ApplyMatchResult(c, 0)
          /\ IF PartyTickets(c) = {} THEN Return(k, Idle, Complete(c, 0))
             ELSE AwaitRelease(k, task[k], PartyTickets(c))
       \/ /\ SameResult(c, 0)
          /\ intent' = Complete(c, 0)
          /\ task' = [task EXCEPT ![k] = Idle]
          /\ UNCHANGED <<queue, processed, alarm>>
       \/ ~BothReserved(c) /\ ~SameResult(c, 0) /\ Done(k) /\ UNCHANGED queue
    /\ UNCHANGED <<detached, external, crashes>>

VerifyFailed(k) ==
    /\ task[k].pc = "verify"
    /\ ~Verified(task[k].cand) \/ "room" \in Faults
    /\ Done(k)
    /\ UNCHANGED <<queue, detached, external, crashes>>
-----------------------------------------------------------------------------
(* The object is restarted: its tasks are gone.  A call in flight may still *)
(* take effect, and a running alarm handler is run again.                   *)
Crash ==
    LET at(pcs) == {k \in Handlers : task[k].pc \in pcs} IN
    /\ crashes < MaxCrashes
    /\ crashes' = crashes + 1
    /\ task' = [k \in Handlers |-> Idle]
    /\ detached' = {}
    /\ alarm' = (alarm \/ task[AlarmTask] # Idle)
    /\ \E begun \in SUBSET {task[k].ticket : k \in at({"begin"})},
          thawed \in SUBSET (detached \cup UNION {task[k].ending : k \in Handlers}
                             \cup {task[k].ticket : k \in at({"undo"})}) :
            frozen' = (frozen \cup begun) \ thawed
    /\ \E made \in SUBSET {task[k].cand : k \in at({"init"})} : rooms' = rooms \cup made
    /\ UNCHANGED <<queue, intent, processed>>

TicketDue(t) ==
    /\ status[t] \in Queued
    /\ t \notin overdue
    /\ overdue' = overdue \cup {t}
    /\ UNCHANGED <<status, source, candidate, result, queuePlayer, events, intent,
                   processed, alarm, task, detached, external, crashes>>

IntentDue(c) ==
    /\ intent[c].status \in Live
    /\ ~intent[c].due
    /\ intent' = [intent EXCEPT ![c].due = TRUE]
    /\ UNCHANGED <<queue, processed, alarm, task, detached, external, crashes>>
-----------------------------------------------------------------------------
Init ==
    /\ status = [t \in Tickets |-> "none"]
    /\ source = [t \in Tickets |-> None]
    /\ candidate = [t \in Tickets |-> None]
    /\ result = [t \in Tickets |-> None]
    /\ queuePlayer = [p \in Players |-> None]
    /\ overdue = {}
    /\ events = [t \in Tickets |-> <<>>]
    /\ intent = [c \in Candidates |-> NoIntent]
    /\ processed = [r \in Requests |-> None]
    /\ alarm = FALSE
    /\ task = [k \in Handlers |-> Idle]
    /\ detached = {}
    /\ frozen = {}
    /\ rooms = {}
    /\ crashes = 0

\* The answer handler k waits for arrives.
Answer(k) ==
    \/ PartyFrozen(k) \/ PartyRefused(k)
    \/ RatingsRead(k) \/ RatingsFailed(k) \/ CreateUndone(k)
    \/ RoomInitialized(k) \/ RoomFailed(k) \/ MatchReleased(k)
    \/ CloseReleased(k)
    \/ RoomVerified(k) \/ VerifyFailed(k)

Call(k) ==
    \/ \E r \in Requests :
          \/ CreateReplay(k, r)
          \/ \E t \in Tickets : CreateSolo(k, r, t) \/ CreateParty(k, r, t)
    \/ \E t \in Tickets : CancelTicket(k, t)
    \/ SearchRpc(k)
    \/ ExpireDueTickets(k)
    \/ \E c \in Candidates : ReserveCandidate(k, c) \/ MatchCandidate(k, c)

Next ==
    \/ \E k \in Tasks : Call(k)
    \/ \E k \in Handlers : Answer(k)
    \/ Alarm
    \/ \E t \in Tickets : ExpireTicket(t) \/ DetachedReleased(t) \/ TicketDue(t)
    \/ \E c \in Candidates : IntentDue(c)
    \/ Crash

Spec == Init /\ [][Next]_vars

\* A call is answered or fails, time passes, and a set alarm goes off.
Fairness ==
    /\ \A k \in Handlers : WF_vars(Answer(k))
    /\ \A t \in Tickets : WF_vars(TicketDue(t)) /\ WF_vars(DetachedReleased(t))
    /\ \A c \in Candidates : WF_vars(IntentDue(c))
    /\ WF_vars(Alarm)

FairSpec == Spec /\ Fairness
=============================================================================
