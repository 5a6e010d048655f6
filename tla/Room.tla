-------------------------------- MODULE Room --------------------------------
(***************************************************************************)
(* One Room Durable Object: participants, host and state of a lobby room,  *)
(* WebSocket connections with their grace period, processed commands, the  *)
(* scheduled operations behind the single alarm, and the projection of a   *)
(* public Room in D1.                                                      *)
(*                                                                         *)
(* A step is one uninterrupted run of a handler: up to its call of D1, or  *)
(* from the answer to its end.  Only the projection calls out, so only the *)
(* handlers of a public Room wait.  The alarm handler takes one step per   *)
(* due operation; between two of them that are not separated by a call no  *)
(* other handler runs (Locked).                                            *)
(***************************************************************************)
EXTENDS Naturals, Sequences, FiniteSets

CONSTANTS
  Participant,       \* participant ids, each used at most once
  Spectator,         \* those who join as spectators; the others are players
  Player,            \* the player behind a participant id
  Founders, Founder, \* rows inserted by initialize; its host, None in a match Room
  Resume,            \* resume ids of connections
  Request,           \* request ids
  Task,              \* handlers that may wait for D1 at once
  Public,            \* visibility = 'public' in a custom Room
  Rpc,               \* RPCs of the object no Gateway route calls
  Faults,            \* of "d1", "restart"
  MaxPlayers, MaxSpectators, MinimumPlayers, RequireReady,
  Grace, Retention, CommandRetention, RetryDelay, HistoryLimit,
  \* Bounds of an instance: the last moment, the connections of one resume id, the
  \* revision up to which operations are called that may be repeated for ever, the
  \* writes of D1 that outlive their call.
  MaxTime, MaxGeneration, MaxRevision, MaxLate,
  None

Op == Participant \cup {"retention", "cleanup", "index", "marker"}

ASSUME RoomAssumption ==
  /\ IsFiniteSet(Participant)
  /\ Spectator \subseteq Participant
  /\ Founders \subseteq Participant
  /\ Founder \in (Founders \ Spectator) \cup {None}
  /\ None \notin Participant \cup Nat
  /\ Participant \cap {"retention", "cleanup", "index", "marker"} = {}
  /\ {Public, RequireReady} \subseteq BOOLEAN
  /\ {MaxPlayers, MaxSpectators, MinimumPlayers} \subseteq Nat
  /\ {Grace, Retention, CommandRetention, RetryDelay} \subseteq Nat
  /\ HistoryLimit \in Nat \ {0}
  /\ {MaxTime, MaxGeneration, MaxRevision, MaxLate} \subseteq Nat

VARIABLES
  state,      \* flarelobby_rooms.state; "none": no row yet, "deleted": no row any more
  host,       \* host_participant_id
  joinedAt,   \* flarelobby_room_participants: joined_at of a row, None without one
  ready,      \* participants whose row says ready
  revision,   \* flarelobby_rooms.revision
  events,     \* revisions of the rows of flarelobby_room_events
  conn,       \* flarelobby_room_connections by resume id
  open,       \* accepted WebSockets <<resume id, generation>> nothing happened to
  broken,     \* WebSockets whose error was delivered and whose close may follow
  processed,  \* expires_at of flarelobby_processed_commands, None without a row
  ops,        \* due_at of flarelobby_room_scheduled_operations, None without a row
  pending,    \* payload of the operation "index"
  alarm,      \* the alarm of the object
  run,        \* the alarm handler
  task,       \* handlers that wait for the upsert they sent
  late,       \* writes D1 may still execute though nobody waits for them
  listed,     \* row of flarelobby_custom_room_index
  now

room == <<state, host, joinedAt, ready, revision, events>>
sessions == <<conn, open, broken>>
projection == <<pending, run, task, late, listed>>
vars == <<room, sessions, processed, ops, alarm, projection, now>>

Exists == state \notin {"none", "deleted"}
Active == state \in {"waiting", "preparing", "in_progress"}
Members == {p \in Participant : joinedAt[p] # None}
Players == Members \ Spectator
Custom == Founder # None
Locked == run.pc = "loop"

Lesser(a, b) == IF a <= b THEN a ELSE b
Greater(a, b) == IF a <= b THEN b ELSE a

NoConnection == [who |-> None, generation |-> 0, live |-> FALSE, at |-> None, valid |-> FALSE]
ConnectionsOf(p) == {c \in Resume : conn[c].who = p /\ conn[c].valid}
Connected(p) == \E c \in ConnectionsOf(p) : conn[c].live

\* What createCustomRoomIndexRecord puts in the projection, as far as it changes.
Row == [revision |-> revision, state |-> state,
        players |-> Cardinality(Players), spectators |-> Cardinality(Members \ Players)]

NoDue == [o \in Op |-> None]
Idle == [pc |-> "idle", due |-> NoDue, row |-> None, at |-> 0, served |-> FALSE]

Init ==
  /\ state = "none"
  /\ host = None
  /\ joinedAt = [p \in Participant |-> None]
  /\ ready = {}
  /\ revision = 0
  /\ events = << >>
  /\ conn = [c \in Resume |-> NoConnection]
  /\ open = {}
  /\ broken = {}
  /\ processed = [r \in Request |-> None]
  /\ ops = NoDue
  /\ pending = None
  /\ alarm = None
  /\ run = Idle
  /\ task = [t \in Task |-> None]
  /\ late = {}
  /\ listed = None
  /\ now = 0
-----------------------------------------------------------------------------
LatestDue(o) ==    \* mutant: ORDER BY due_at DESC
  LET dues == {o[x] : x \in {y \in Op : o[y] # None}}
  IN  IF dues = {} THEN None ELSE CHOOSE d \in dues : \A e \in dues : e <= d
\* MIN(due_at), what synchronizeAlarm sets the alarm to.
NextDue(o) ==
  LET dues == {o[x] : x \in {y \in Op : o[y] # None}}
  IN  IF dues = {} THEN None ELSE CHOOSE d \in dues : \A e \in dues : d <= e

\* recordRoomEvent: one more event, of which the last HistoryLimit are kept.
Recorded(es, r) ==
  LET all == Append(es, r)
  IN  IF Len(all) > HistoryLimit THEN SubSeq(all, Len(all) - HistoryLimit + 1, Len(all)) ELSE all

\* incrementRevision and broadcastRoomSnapshot.
Publish ==
  /\ revision' = revision + 1
  /\ events' = Recorded(events, revision + 1)

\* A request without a stored result; the stored one is returned otherwise.
Fresh(r) == r \in {None} \cup {q \in Request : processed[q] = None \/ processed[q] <= now}

Purged(t) ==
  [q \in Request |-> IF processed[q] # None /\ processed[q] <= t THEN None ELSE processed[q]]

\* recordProcessedCommand: the row, and the clean-up operation that removes it.
Stored(r) ==
  IF r = None THEN processed ELSE [Purged(now) EXCEPT ![r] = now + CommandRetention]
CleanupMoved(o, r) ==    \* mutant: DO UPDATE SET due_at = excluded.due_at, without MIN
  IF r = None THEN o ELSE [o EXCEPT !["cleanup"] = now + CommandRetention]
WithCleanup(o, r) ==
  IF r = None THEN o
  ELSE [o EXCEPT !["cleanup"] = IF @ = None THEN now + CommandRetention
                                ELSE Lesser(@, now + CommandRetention)]
WithRetention(o, at) == [o EXCEPT !["retention"] = at + Retention]

\* enqueueCustomRoomIndexSync up to its call of D1.
SyncIndex(o, armed) ==
  /\ ops' = [o EXCEPT !["index"] = now]
  /\ pending' = Row'
  /\ alarm' = IF armed THEN NextDue(o) ELSE alarm
  /\ \E t \in Task :
       /\ task[t] = None
       /\ task' = [task EXCEPT ![t] = [due |-> now, row |-> Row', served |-> FALSE]]
  /\ UNCHANGED <<run, late, listed>>

\* The end of a handler that wrote the operations o.  armed: it called
\* synchronizeAlarm before the projection; arms: it calls it afterwards.
Conclude(o, armed, arms) ==
  /\ UNCHANGED now
  /\ IF Public THEN SyncIndex(o, armed)
     ELSE /\ ops' = o
          /\ alarm' = IF armed \/ arms THEN NextDue(o) ELSE alarm
          /\ UNCHANGED projection

\* The end of a handler that does not touch the projection.
Return(o, armed) ==
  /\ ops' = o
  /\ alarm' = IF armed THEN NextDue(o) ELSE alarm
  /\ UNCHANGED <<projection, now>>
-----------------------------------------------------------------------------
(* Life of the Room. *)

Initialize ==
  /\ ~Locked
  /\ state = "none"
  /\ state' = "waiting"
  /\ host' = Founder
  /\ joinedAt' = [p \in Participant |-> IF p \in Founders THEN now ELSE None]
  /\ ready' = {}
  /\ UNCHANGED <<revision, events, sessions, processed>>
  /\ Conclude(ops, FALSE, FALSE)

\* A repeated initialize finds the row and only projects it again.
InitializeAgain ==
  /\ ~Locked
  /\ "initialize" \in Rpc
  /\ Exists
  /\ Public
  /\ UNCHANGED <<room, sessions, processed>>
  /\ Conclude(ops, FALSE, FALSE)

\* p is an id never used before; a player who is in the Room gets its row back.
Join(p) ==
  /\ ~Locked
  /\ state = "waiting"
  /\ revision < MaxRevision
  /\ Custom
  /\ \A q \in Members : Player[q] # Player[p]
  /\ p \notin Founders /\ run.due[p] = None /\ \A c \in Resume : conn[c].who # p
  /\ IF p \in Spectator THEN Cardinality(Members \ Players) < MaxSpectators
                        ELSE Cardinality(Players) < MaxPlayers
  /\ Publish
  /\ joinedAt' = [joinedAt EXCEPT ![p] = now]
  /\ UNCHANGED <<state, host, ready, sessions, processed>>
  /\ Conclude(ops, FALSE, FALSE)

EldestOfAll(ps) ==    \* mutant: the SELECT does not ask for role = 'player'
  {p \in Members \ {host} : \A q \in Members \ {host} : joinedAt[p] <= joinedAt[q]}
\* readOldestPlayerParticipant; joined_at ties are broken by random ids.
Eldest(ps) == {p \in ps : \A q \in ps : joinedAt[p] <= joinedAt[q]}

\* invalidateResumeSessions
Invalidated(p) ==
  [c \in Resume |->
    IF conn[c].who # p THEN conn[c]
    ELSE [conn[c] EXCEPT !.valid = FALSE, !.live = FALSE,
                         !.at = IF conn[c].live THEN now ELSE @]]

\* The row of p goes with its sessions; the host is succeeded or the Room ends.
Remove(p) ==
  /\ joinedAt' = [joinedAt EXCEPT ![p] = None]
  /\ ready' = ready \ {p}
  /\ conn' = Invalidated(p)
  /\ UNCHANGED <<open, broken>>
  /\ Publish
  /\ \/ /\ p # host
        /\ UNCHANGED <<state, host>>
     \/ /\ p = host
        /\ host' \in Eldest(Players \ {p})
        /\ UNCHANGED state
     \/ /\ p = host
        /\ Players \subseteq {p}
        /\ state' = "finished"
        /\ UNCHANGED host

EndsRoom(p) == p = host /\ Players \subseteq {p}

\* The operations after Remove(p): cancelDisconnectOperation, retention.
AfterRemoval(o, p) ==
  LET kept == [o EXCEPT ![p] = None]
  IN  IF EndsRoom(p) THEN WithRetention(kept, now) ELSE kept

Leave(p, r) ==
  /\ ~Locked
  /\ Fresh(r)
  /\ Active
  /\ p \in Members
  /\ Remove(p)
  /\ processed' = Stored(r)
  /\ Conclude(WithCleanup(AfterRemoval(ops, p), r), r # None, EndsRoom(p))

\* disconnect, the RPC: the row stays, the grace period starts.  (MaxTime bounds it.)
DisconnectCall(p) ==
  /\ ~Locked
  /\ "disconnect" \in Rpc
  /\ now + Grace <= MaxTime
  /\ p \in Members
  /\ UNCHANGED <<room, sessions, processed>>
  /\ Return([ops EXCEPT ![p] = now + Grace], TRUE)
-----------------------------------------------------------------------------
(* Operations on a waiting Room. *)

SetReady(p, value, r) ==
  /\ ~Locked
  /\ Fresh(r)
  /\ revision < MaxRevision
  /\ state = "waiting"
  /\ p \in Players
  /\ ready' = IF value THEN ready \cup {p} ELSE ready \ {p}
  /\ Publish
  /\ processed' = Stored(r)
  /\ UNCHANGED <<state, host, joinedAt, sessions>>
  /\ Return(WithCleanup(ops, r), r # None)

\* The team is data no other operation reads.
SelectTeam(p, r) ==
  /\ ~Locked
  /\ Fresh(r)
  /\ revision < MaxRevision
  /\ state = "waiting"
  /\ p \in Players
  /\ Publish
  /\ processed' = Stored(r)
  /\ UNCHANGED <<state, host, joinedAt, ready, sessions>>
  /\ Return(WithCleanup(ops, r), r # None)

\* authenticateHost
HostCalls == Custom /\ host \in Players

UpdateSettings(r) ==
  /\ ~Locked
  /\ HostCalls
  /\ Fresh(r)
  /\ revision < MaxRevision
  /\ state = "waiting"
  /\ Publish
  /\ processed' = Stored(r)
  /\ UNCHANGED <<state, host, joinedAt, ready, sessions>>
  /\ Conclude(WithCleanup(ops, r), r # None, FALSE)

TransferHost(target, r) ==
  /\ ~Locked
  /\ HostCalls
  /\ Fresh(r)
  /\ revision < MaxRevision
  /\ state = "waiting"
  /\ target \in Players \ {host}
  /\ host' = target
  /\ Publish
  /\ processed' = Stored(r)
  /\ UNCHANGED <<state, joinedAt, ready, sessions>>
  /\ Return(WithCleanup(ops, r), r # None)

Kick(target, r) ==
  /\ ~Locked
  /\ HostCalls
  /\ Fresh(r)
  /\ state = "waiting"
  /\ target \in Members \ {host}
  /\ joinedAt' = [joinedAt EXCEPT ![target] = None]
  /\ ready' = ready \ {target}
  /\ conn' = Invalidated(target)
  /\ Publish
  /\ processed' = Stored(r)
  /\ UNCHANGED <<state, host, open, broken>>
  /\ Conclude(WithCleanup([ops EXCEPT ![target] = None], r), r # None, FALSE)

\* The match starts in one step that publishes two revisions.
StartMatch(r) ==
  /\ ~Locked
  /\ HostCalls
  /\ Fresh(r)
  /\ state = "waiting"
  /\ Cardinality(Players) >= MinimumPlayers
  /\ RequireReady => Players \subseteq ready
  /\ revision' = revision + 2
  /\ events' = Recorded(Recorded(events, revision + 1), revision + 2)
  /\ state' = "in_progress"
  /\ processed' = Stored(r)
  /\ UNCHANGED <<host, joinedAt, ready, sessions>>
  /\ Conclude(WithCleanup(ops, r), r # None, FALSE)

\* at is the time the caller gives; it may lie in the past or in the future.
Close(at, r) ==
  /\ ~Locked
  /\ HostCalls
  /\ Fresh(r)
  /\ Active
  /\ state' = "finished"
  /\ Publish
  /\ processed' = Stored(r)
  /\ UNCHANGED <<host, joinedAt, ready, sessions>>
  /\ Conclude(WithCleanup(WithRetention(ops, at), r), r # None, TRUE)

AllowedTransition == {<<"waiting", "preparing">>, <<"waiting", "finished">>,
                      <<"preparing", "in_progress">>, <<"in_progress", "finished">>}

Transition(next) ==
  /\ ~Locked
  /\ "transition" \in Rpc
  /\ <<state, next>> \in AllowedTransition
  /\ state' = next
  /\ Publish
  /\ UNCHANGED <<host, joinedAt, ready, sessions, processed>>
  /\ Conclude(IF next = "finished" THEN WithRetention(ops, now) ELSE ops, TRUE, FALSE)

\* scheduleOperation and cancelScheduledOperation, on an id of the caller's.
ScheduleOperation(at) ==
  /\ ~Locked
  /\ "schedule" \in Rpc
  /\ Exists
  /\ UNCHANGED <<room, sessions, processed>>
  /\ Return([ops EXCEPT !["marker"] = at], TRUE)

CancelScheduledOperation ==
  /\ ~Locked
  /\ "schedule" \in Rpc
  /\ ops["marker"] # None
  /\ UNCHANGED <<room, sessions, processed>>
  /\ Return([ops EXCEPT !["marker"] = None], TRUE)
-----------------------------------------------------------------------------
(* WebSockets.  Every handler below runs inside blockConcurrencyWhile. *)

\* A message of the game: stored under its requestId, then broadcast.
GameMessage(p, r) ==
  /\ ~Locked
  /\ Active
  /\ p \in Players
  /\ r # None
  /\ Fresh(r)
  /\ processed' = Stored(r)
  /\ UNCHANGED <<room, sessions>>
  /\ Return(WithCleanup(ops, r), TRUE)

\* A first connection.  It leaves a scheduled disconnect where it is.
Connect(c, p) ==
  /\ ~Locked
  /\ Active
  /\ p \in Members
  /\ conn[c] = NoConnection
  /\ conn' = [conn EXCEPT ![c] = [who |-> p, generation |-> 1, live |-> TRUE,
                                  at |-> None, valid |-> TRUE]]
  /\ open' = open \cup {<<c, 1>>}
  /\ UNCHANGED <<room, broken, processed>>
  /\ Return(ops, FALSE)

\* The disconnect that counts: the latest of a valid session, else the scheduled one.
LastSeen(p, at) ==
  LET seen == {conn[c].at : c \in {d \in ConnectionsOf(p) : ~conn[d].live}}
  IN  IF seen = {} THEN at ELSE CHOOSE t \in seen : \A u \in seen : u <= t

\* expireDisconnectedParticipant: whether it acts, and its two outcomes.
Absent(p) == Active /\ p \in Members /\ ~Connected(p)
Deferred(p, at) == Absent(p) /\ LastSeen(p, at) + Grace > now
Expired(p, at) == Absent(p) /\ LastSeen(p, at) + Grace <= now

Resumable(c) ==
  /\ Active
  /\ conn[c].who \in Members
  /\ conn[c].valid
  /\ ~conn[c].live

\* resume_token_expires_at only disables a resumption, so it is left out.
ResumeSession(c) ==
  /\ ~Locked
  /\ Resumable(c)
  /\ conn[c].at + Grace >= now
  /\ conn[c].generation < MaxGeneration
  /\ conn' = [conn EXCEPT ![c].generation = @ + 1, ![c].live = TRUE, ![c].at = None]
  /\ open' = open \cup {<<c, conn[c].generation + 1>>}
  /\ UNCHANGED <<room, broken, processed>>
  /\ Return([ops EXCEPT ![conn[c].who] = None], FALSE)

\* A resumption after the grace period removes the participant in the alarm's place.
ResumeTooLate(c) ==
  LET p == conn[c].who IN
  /\ ~Locked
  /\ Resumable(c)
  /\ conn[c].at + Grace < now
  /\ UNCHANGED processed
  /\ \/ /\ Expired(p, conn[c].at)
        /\ Remove(p)
        /\ Return(AfterRemoval(ops, p), TRUE)
     \/ /\ Deferred(p, conn[c].at)
        /\ UNCHANGED <<room, sessions>>
        /\ Return([ops EXCEPT ![p] = LastSeen(p, conn[c].at) + Grace], TRUE)
     \/ /\ ~Absent(p)
        /\ UNCHANGED <<room, sessions>>
        /\ Return(ops, TRUE)

MarkAnyGeneration(c, g) ==    \* mutant: the generation of the WebSocket is not compared
  IF Exists /\ conn[c].live /\ conn[c].valid
  THEN /\ conn' = [conn EXCEPT ![c].live = FALSE, ![c].at = now]
       /\ Return([ops EXCEPT ![conn[c].who] = now + Grace], TRUE)
  ELSE /\ UNCHANGED conn
       /\ Return(ops, FALSE)
\* markWebSocketDisconnected
MarkDisconnected(c, g) ==
  IF Exists /\ conn[c].generation = g /\ conn[c].live /\ conn[c].valid
  THEN /\ conn' = [conn EXCEPT ![c].live = FALSE, ![c].at = now]
       /\ Return([ops EXCEPT ![conn[c].who] = now + Grace], TRUE)
  ELSE /\ UNCHANGED conn
       /\ Return(ops, FALSE)

\* Both events of one WebSocket may be delivered, the second one late.
SocketError(c, g) ==
  /\ ~Locked
  /\ <<c, g>> \in open
  /\ open' = open \ {<<c, g>>}
  /\ broken' = broken \cup {<<c, g>>}
  /\ UNCHANGED <<room, processed>>
  /\ MarkDisconnected(c, g)

SocketClose(c, g) ==
  /\ ~Locked
  /\ <<c, g>> \in open \cup broken
  /\ open' = open \ {<<c, g>>}
  /\ broken' = broken \ {<<c, g>>}
  /\ UNCHANGED <<room, processed>>
  /\ MarkDisconnected(c, g)
-----------------------------------------------------------------------------
(* The projection in D1. *)

Overwritten(row) == row    \* mutant: DO UPDATE without its WHERE
\* The upsert's guard on revision.
Upserted(row) == IF listed = None \/ row.revision >= listed.revision THEN row ELSE listed

AnyPending(row, due) ==    \* mutant: the payload is not compared
  ops["index"] # None
\* The row of the operation is still the one that was sent.
StillPending(row, due) == ops["index"] = due /\ pending = row

Done(row, due) == IF StillPending(row, due) THEN [ops EXCEPT !["index"] = None] ELSE ops

\* rescheduleCustomRoomIndexOperation
Retried(row, due) ==
  IF StillPending(row, due)
  THEN [ops EXCEPT !["index"] = Greater(now, due) + RetryDelay] ELSE ops

\* The payload goes with its row.
PendingAfter(o) == IF o["index"] = None THEN None ELSE pending

UpsertServed(t) ==
  /\ ~Locked
  /\ task[t] # None /\ ~task[t].served
  /\ task' = [task EXCEPT ![t].served = TRUE]
  /\ listed' = Upserted(task[t].row)
  /\ UNCHANGED <<room, sessions, processed, ops, alarm, pending, run, late, now>>

UpsertAnswered(t) ==
  /\ ~Locked
  /\ task[t] # None /\ task[t].served
  /\ ops' = Done(task[t].row, task[t].due)
  /\ pending' = PendingAfter(ops')
  /\ alarm' = NextDue(ops')
  /\ task' = [task EXCEPT ![t] = None]
  /\ UNCHANGED <<room, sessions, processed, run, late, listed, now>>

\* The write of a call that failed: executed already, never, or later by D1 all
\* the same.  At most MaxLate of them are kept.
Outcomes(row, served) ==
  {late} \cup IF served \/ Cardinality(late) = MaxLate THEN {} ELSE {late \cup {row}}

UpsertFailed(t) ==
  /\ ~Locked
  /\ "d1" \in Faults
  /\ task[t] # None
  /\ ops' = Retried(task[t].row, task[t].due)
  /\ alarm' = NextDue(ops')
  /\ task' = [task EXCEPT ![t] = None]
  /\ late' \in Outcomes(task[t].row, task[t].served)
  /\ UNCHANGED <<room, sessions, processed, pending, run, listed, now>>

\* A write nobody waits for is executed.
LateWrite(w) ==
  /\ ~Locked
  /\ w \in late
  /\ late' = late \ {w}
  /\ listed' = IF w = None THEN None ELSE Upserted(w)
  /\ UNCHANGED <<room, sessions, processed, ops, alarm, pending, run, task, now>>
-----------------------------------------------------------------------------
(* The alarm handler. *)

AlarmFires ==
  /\ run.pc = "idle"
  /\ alarm # None
  /\ alarm <= now
  /\ alarm' = None
  /\ run' = [at |-> now, pc |-> "loop",
             due |-> [o \in Op |-> IF ops[o] # None /\ ops[o] <= now THEN ops[o] ELSE None],
             row |-> pending, served |-> FALSE]
  /\ UNCHANGED <<room, sessions, processed, ops, pending, task, late, listed, now>>

\* The loop is at o: ORDER BY due_at, then by ids that are random.
At(o) ==
  /\ Locked
  /\ run.due[o] # None
  /\ \A x \in Op : run.due[x] # None => run.due[o] <= run.due[x]

Passed(o) == [run EXCEPT !.pc = "loop", !.due[o] = None, !.served = FALSE]

\* Moves past o with the operations o1.
Continue(o, o1) ==
  /\ run' = Passed(o)
  /\ ops' = o1
  /\ UNCHANGED <<alarm, pending, task, late, listed, now>>

AlarmIndex ==
  /\ At("index")
  /\ run' = [run EXCEPT !.pc = "upsert"]
  /\ UNCHANGED <<room, sessions, processed, ops, alarm, pending, task, late, listed, now>>

AlarmUpsertServed ==
  /\ run.pc = "upsert" /\ ~run.served
  /\ run' = [run EXCEPT !.served = TRUE]
  /\ listed' = Upserted(run.row)
  /\ UNCHANGED <<room, sessions, processed, ops, alarm, pending, task, late, now>>

AlarmUpsertAnswered ==
  /\ run.pc = "upsert" /\ run.served
  /\ run' = Passed("index")
  /\ ops' = Done(run.row, run.due["index"])
  /\ pending' = PendingAfter(ops')
  /\ UNCHANGED <<room, sessions, processed, alarm, task, late, listed, now>>

AlarmUpsertFailed ==
  /\ "d1" \in Faults
  /\ run.pc = "upsert"
  /\ run' = Passed("index")
  /\ ops' = Retried(run.row, run.due["index"])
  /\ late' \in Outcomes(run.row, run.served)
  /\ UNCHANGED <<room, sessions, processed, alarm, pending, task, listed, now>>

\* deleteRoomState and deleteAlarm.  WebSockets stay as they are.
DeleteRoom ==
  /\ state' = "deleted"
  /\ host' = None
  /\ joinedAt' = [p \in Participant |-> None]
  /\ ready' = {}
  /\ revision' = 0
  /\ events' = << >>
  /\ conn' = [c \in Resume |-> NoConnection]
  /\ processed' = [r \in Request |-> None]
  /\ ops' = NoDue
  /\ pending' = None
  /\ alarm' = None
  /\ run' = Idle
  /\ UNCHANGED <<open, broken, task, late, listed, now>>

AlarmRetention ==
  /\ At("retention")
  /\ \/ /\ state = "finished" /\ ~Public
        /\ DeleteRoom
     \/ /\ state = "finished" /\ Public
        /\ run' = [run EXCEPT !.pc = "delete"]
        /\ UNCHANGED <<room, sessions, processed, ops, alarm, pending, task, late, listed, now>>
     \/ /\ state # "finished"
        /\ UNCHANGED <<room, sessions, processed>>
        /\ Continue("retention", [ops EXCEPT !["retention"] = None])

AlarmDeleteServed ==
  /\ run.pc = "delete" /\ ~run.served
  /\ run' = [run EXCEPT !.served = TRUE]
  /\ listed' = None
  /\ UNCHANGED <<room, sessions, processed, ops, alarm, pending, task, late, now>>

AlarmDeleteAnswered ==
  /\ run.pc = "delete" /\ run.served
  /\ DeleteRoom

AlarmDeleteFailed ==
  /\ "d1" \in Faults
  /\ run.pc = "delete"
  /\ run' = Passed("retention")
  /\ ops' = IF ops["retention"] = run.due["retention"]
            THEN [ops EXCEPT !["retention"] = Greater(now, @) + RetryDelay] ELSE ops
  /\ late' \in Outcomes(None, run.served)
  /\ UNCHANGED <<room, sessions, processed, alarm, pending, task, listed, now>>

\* The payload's disconnectedAt is the due time less the grace period.
AlarmDisconnect(p) ==
  LET at == run.due[p] - Grace IN
  /\ At(p)
  /\ UNCHANGED processed
  /\ \/ /\ Expired(p, at)
        /\ Remove(p)
        /\ Continue(p, AfterRemoval(ops, p))
     \/ /\ Deferred(p, at)
        /\ UNCHANGED <<room, sessions>>
        /\ Continue(p, [ops EXCEPT ![p] = LastSeen(p, at) + Grace])
     \/ /\ ~Absent(p)
        /\ UNCHANGED <<room, sessions>>
        /\ Continue(p, [ops EXCEPT ![p] = None])

\* Expired results go, and the operation moves to the next expiry.
AlarmCleanup ==
  LET left == {Purged(run.at)[q] : q \in Request} \ {None} IN
  /\ At("cleanup")
  /\ processed' = Purged(run.at)
  /\ UNCHANGED <<room, sessions>>
  /\ Continue("cleanup",
       [ops EXCEPT !["cleanup"] =
          IF left = {} THEN None ELSE CHOOSE e \in left : \A f \in left : e <= f])

AlarmMarker ==
  /\ At("marker")
  /\ UNCHANGED <<room, sessions, processed>>
  /\ Continue("marker", [ops EXCEPT !["marker"] = None])

AlarmEndsUnarmed ==    \* mutant: alarm() ends without synchronizeAlarm()
  /\ Locked
  /\ run.due = NoDue
  /\ run' = Idle
  /\ UNCHANGED <<room, sessions, processed, ops, alarm, pending, task, late, listed, now>>
AlarmEnds ==
  /\ Locked
  /\ run.due = NoDue
  /\ run' = Idle
  /\ alarm' = NextDue(ops)
  /\ UNCHANGED <<room, sessions, processed, ops, pending, task, late, listed, now>>
-----------------------------------------------------------------------------
Unserved ==
  {task[t].row : t \in {s \in Task : task[s] # None /\ ~task[s].served}}
    \cup (IF run.pc = "upsert" /\ ~run.served THEN {run.row} ELSE {})
    \cup (IF run.pc = "delete" /\ ~run.served THEN {None} ELSE {})

\* The object is restarted while a handler waits.  Rows, the alarm and the
\* writes that were sent survive; an alarm that was cut off runs again.
Restart ==
  /\ "restart" \in Faults
  /\ ~Locked
  /\ run.pc # "idle" \/ \E t \in Task : task[t] # None
  /\ task' = [t \in Task |-> None]
  /\ late' \in {l \in SUBSET (late \cup Unserved) : late \subseteq l /\ Cardinality(l) <= MaxLate}
  /\ run' = Idle
  /\ alarm' = IF run.pc = "idle" THEN alarm ELSE IF alarm = None THEN now ELSE Lesser(alarm, now)
  /\ UNCHANGED <<room, sessions, processed, ops, pending, listed, now>>

Tick ==
  /\ ~Locked
  /\ now < MaxTime
  /\ now' = now + 1
  /\ UNCHANGED <<room, sessions, processed, ops, alarm, projection>>

Lifecycle ==
  \/ Initialize \/ InitializeAgain
  \/ \E p \in Participant : Join(p) \/ DisconnectCall(p)
  \/ \E r \in Request \cup {None} :
       \/ \E p \in Participant : Leave(p, r) \/ SelectTeam(p, r) \/ TransferHost(p, r) \/ Kick(p, r)
       \/ \E p \in Participant, value \in BOOLEAN : SetReady(p, value, r)
       \/ UpdateSettings(r) \/ StartMatch(r)
       \/ \E at \in 0..MaxTime : Close(at, r)
  \/ \E next \in {"preparing", "in_progress", "finished"} : Transition(next)
  \/ \E at \in 0..MaxTime : ScheduleOperation(at)
  \/ CancelScheduledOperation

WebSockets ==
  \/ \E p \in Participant, r \in Request : GameMessage(p, r)
  \/ \E c \in Resume, p \in Participant : Connect(c, p)
  \/ \E c \in Resume : ResumeSession(c) \/ ResumeTooLate(c)
  \/ \E c \in Resume, g \in 1..MaxGeneration : SocketError(c, g) \/ SocketClose(c, g)

D1 ==
  \/ \E t \in Task : UpsertServed(t) \/ UpsertAnswered(t) \/ UpsertFailed(t)
  \/ \E w \in late : LateWrite(w)

AlarmStep ==
  \/ AlarmIndex \/ AlarmUpsertServed \/ AlarmUpsertAnswered \/ AlarmUpsertFailed
  \/ AlarmRetention \/ AlarmDeleteServed \/ AlarmDeleteAnswered \/ AlarmDeleteFailed
  \/ \E p \in Participant : AlarmDisconnect(p)
  \/ AlarmCleanup \/ AlarmMarker \/ AlarmEnds

Next == Lifecycle \/ WebSockets \/ D1 \/ AlarmFires \/ AlarmStep \/ Restart \/ Tick

Spec == Init /\ [][Next]_vars

\* Time passes, an alarm that is due runs, and a call of D1 is answered.
FairSpec ==
  /\ Spec
  /\ WF_vars(Tick)
  /\ WF_vars(AlarmFires)
  /\ WF_vars(AlarmStep)
  /\ \A t \in Task : WF_vars(UpsertServed(t) \/ UpsertAnswered(t) \/ UpsertFailed(t))
=============================================================================
