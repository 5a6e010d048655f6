------------------------------ MODULE RoomClient ------------------------------
(***************************************************************************)
(* The Room handle of the client SDK (RoomImpl) on its WebSocket           *)
(* connection, and what the Room does for that connection: accept it with  *)
(* a replay of the missed events or a snapshot, broadcast, execute         *)
(* commands, answer.                                                       *)
(*                                                                         *)
(* A snapshot is its revision.  A step of the client is one task of its    *)
(* event loop with the microtasks behind it.  The Room's history holds the *)
(* last HistoryLimit revisions, which is HistoryIsTail of RoomProperties.  *)
(***************************************************************************)
EXTENDS Naturals, Sequences, FiniteSets

CONSTANTS
  Command,       \* request ids of commands; each of them changes the Room
  MaxSends,      \* bound: how often the application sends one of them
  MaxChanges,    \* bound: revisions by operations of other participants
  MaxDrops,      \* bound: connections and attempts the network loses
  MaxAttempts,   \* reconnect.maxAttempts
  HistoryLimit,  \* eventHistoryLimit of the Room
  Faults         \* of "remove", "commandTimeout", "connectTimeout", "overlap"

ASSUME RoomClientAssumption ==
  /\ IsFiniteSet(Command)
  /\ {MaxSends, MaxChanges, MaxDrops, MaxAttempts, HistoryLimit} \subseteq Nat

Sending == Command \X (1 .. MaxSends)   \* one call of send() for a request id

VARIABLES
  revision,  \* of the Room
  changes,   \* changes of other participants so far
  valid,     \* the participant is in the Room, its sessions are not invalidated
  stored,    \* revision in the stored result of a command, 0 without one
  socket,    \* "closed", "connecting", "accepted" by the Room, "open" at the client
  wire,      \* messages of the Room on the socket
  inbound,   \* sendings on the socket the Room has not handled
  stray,     \* the same on sockets that are lost
  owed,      \* handled sendings whose answer goes to the socket
  noticed,   \* the Room saw the close of the last socket it accepted
  drops,
  shown,     \* snapshotState.revision
  status,    \* statusState; "disconnected" goes with closedState
  timer,     \* reconnectTimer is set
  attempts,  \* reconnectAttempt
  token,     \* resumeTokenState is set
  entry,     \* pending of the connection: the sending behind a request id, or 0
  promise,   \* what send() returned
  leaving    \* the request of leave(): 0 none, 1 sent, otherwise 1 + revision of its answer

server == <<revision, changes, valid, stored>>
link == <<socket, wire, inbound, stray, owed, noticed, drops>>
handle == <<shown, status, timer, attempts, token, entry, promise>>
vars == <<server, link, handle, leaving>>

Event(r, handshake) == [kind |-> "snapshot", revision |-> r, handshake |-> handshake]
Answer(c, r) == [kind |-> "answer", command |-> c, revision |-> r]
Failure(c) == [kind |-> "failure", command |-> c]

ListeningOpen == socket = "open"    \* mutant: registered only when the client is through
\* getWebSockets: an accepted socket is among those a broadcast goes to.
Listening == socket \in {"accepted", "open"}
LaterAnswer(a, b) == b    \* mutant: the snapshot of an answer replaces a newer one
\* replaceSnapshot
Later(a, b) == IF a <= b THEN b ELSE a

NextOnly(r) == r = shown + 1    \* mutant: a duplicate asks for a new connection as well
\* classifyEventRevision: "next" or "duplicate", not "gap" and not "out_of_order".
InSequence(r) == r \in {shown, shown + 1}

\* createRoomHandle: joined at revision 1, then connected with the join token.
Init ==
  /\ revision \in 1 .. (1 + MaxChanges)
  /\ changes = revision - 1
  /\ valid = TRUE
  /\ stored = [c \in Command |-> 0]
  /\ socket = "open"
  /\ wire = <<Event(revision, TRUE)>>
  /\ inbound = {}
  /\ stray = {}
  /\ owed = {}
  /\ noticed = FALSE
  /\ drops = 0
  /\ shown = 1
  /\ status = "connected"
  /\ timer = FALSE
  /\ attempts = 0
  /\ token = FALSE
  /\ entry = [c \in Command |-> 0]
  /\ promise = [s \in Sending |-> "unused"]
  /\ leaving = 0
-----------------------------------------------------------------------------
(* The Room *)

\* broadcastRoomSnapshot, as this socket sees it.
Publish ==
  /\ revision' = revision + 1
  /\ wire' = IF Listening THEN Append(wire, Event(revision + 1, FALSE)) ELSE wire

\* An operation of somebody else.
Change ==
  /\ changes < MaxChanges
  /\ changes' = changes + 1
  /\ Publish
  /\ UNCHANGED <<valid, stored, socket, inbound, stray, owed, noticed, drops, handle, leaving>>

\* kick(), or the grace period ran out: no session resumes, an open socket stays open.
Remove ==
  /\ "remove" \in Faults
  /\ valid
  /\ valid' = FALSE
  /\ Publish
  /\ UNCHANGED <<changes, stored, socket, inbound, stray, owed, noticed, drops, handle, leaving>>

\* readResumeEvents: the missed events, if the history still holds them all.
Replay(last) ==
  IF revision - last > HistoryLimit
    THEN << >>
    ELSE [i \in 1 .. (revision - last) |-> Event(last + i, FALSE)]

\* webSocketClose, webSocketError: markWebSocketDisconnected.
Notice ==
  /\ ~Listening
  /\ ~noticed
  /\ noticed' = TRUE
  /\ UNCHANGED <<server, socket, wire, inbound, stray, owed, drops, handle, leaving>>

\* fetch resumes no session whose socket it still takes for connected.
Admitted == valid /\ (token => noticed)

\* fetch: the replay for a resume token, and the snapshot with the token.
Accept ==
  /\ socket = "connecting"
  /\ Admitted
  /\ socket' = "accepted"
  /\ noticed' = FALSE
  /\ wire' = Append(IF token THEN Replay(shown) ELSE << >>, Event(revision, TRUE))
  /\ UNCHANGED <<server, inbound, stray, owed, drops, handle, leaving>>

\* A command arrives on the socket it was sent on, or after that one was lost.
Execute(s) ==
  /\ s \in inbound \cup stray
  /\ valid
  /\ IF stored[s[1]] = 0
       THEN Publish /\ stored' = [stored EXCEPT ![s[1]] = revision + 1]
       ELSE UNCHANGED <<revision, wire, stored>>
  /\ inbound' = inbound \ {s}
  /\ stray' = stray \ {s}
  /\ owed' = owed \cup (inbound \cap {s})
  /\ UNCHANGED <<changes, valid, socket, noticed, drops, handle, leaving>>

\* The answer is sent when the handler ends, other handlers may have run since.
Respond(s) ==
  /\ s \in owed
  /\ wire' = Append(wire, Answer(s[1], stored[s[1]]))
  /\ owed' = owed \ {s}
  /\ UNCHANGED <<server, socket, inbound, stray, noticed, drops, handle, leaving>>

\* The handler throws: rate limit, authentication, a check of the operation.
Refuse(s) ==
  /\ s \in inbound
  /\ wire' = Append(wire, Failure(s[1]))
  /\ inbound' = inbound \ {s}
  /\ UNCHANGED <<server, socket, stray, owed, noticed, drops, handle, leaving>>

LoseStray(s) ==
  /\ s \in stray
  /\ stray' = stray \ {s}
  /\ UNCHANGED <<server, socket, wire, inbound, owed, noticed, drops, handle, leaving>>

\* leave() over HTTP, then its answer to the client.
RoomLeaves ==
  /\ leaving = 1
  /\ valid
  /\ valid' = FALSE
  /\ Publish
  /\ leaving' = revision + 2
  /\ UNCHANGED <<changes, stored, socket, inbound, stray, owed, noticed, drops, handle>>

LeaveRefused ==
  /\ leaving = 1
  /\ ~valid
  /\ leaving' = 0
  /\ UNCHANGED <<server, link, handle>>
-----------------------------------------------------------------------------
(* The client *)

Forgotten == promise    \* mutant: the pending commands are dropped with the connection
Rejected == [s \in Sending |-> IF entry[s[1]] = s[2] THEN "rejected" ELSE promise[s]]

\* terminate: the socket is gone, every pending command fails.
Terminate ==
  /\ socket' = "closed"
  /\ wire' = << >>
  /\ inbound' = {}
  /\ stray' = stray \cup inbound
  /\ owed' = {}
  /\ entry' = [c \in Command |-> 0]
  /\ promise' = Rejected

\* scheduleReconnect after n attempts.
Schedule(n) ==
  /\ status' = IF n < MaxAttempts THEN "reconnecting" ELSE "disconnected"
  /\ timer' = (n < MaxAttempts)
  /\ attempts' = n

\* handleConnectionClosed, or requestResync, which closes the connection itself.
Lost == Terminate /\ Schedule(0)

Drop ==
  /\ drops < MaxDrops
  /\ drops' = drops + 1
  /\ socket = "open"
  /\ Lost
  /\ UNCHANGED <<server, noticed, shown, token, leaving>>

\* attemptReconnect up to its await.
Retry ==
  /\ timer
  /\ timer' = FALSE
  /\ attempts' = attempts + 1
  /\ socket' = "connecting"
  /\ UNCHANGED <<server, wire, inbound, stray, owed, noticed, drops, shown, status, token, entry, promise, leaving>>

\* The attempt fails: by the network, or because the Room refuses the token.
AttemptFails ==
  /\ socket \in {"connecting", "accepted"}
  /\ \/ drops < MaxDrops /\ drops' = drops + 1
     \/ socket = "connecting" /\ ~Admitted /\ drops' = drops
  /\ socket' = "closed"
  /\ wire' = << >>
  /\ IF status = "disconnected" THEN UNCHANGED <<status, timer, attempts>> ELSE Schedule(attempts)
  /\ UNCHANGED <<server, inbound, stray, owed, noticed, shown, token, entry, promise, leaving>>

\* TIMEOUT is not among the errors worth another attempt: markDisconnected.
ConnectTimeout ==
  /\ "connectTimeout" \in Faults
  /\ socket \in {"connecting", "accepted"}
  /\ socket' = "closed"
  /\ wire' = << >>
  /\ status' = "disconnected"
  /\ UNCHANGED <<server, inbound, stray, owed, noticed, drops, shown, timer, attempts, token, entry, promise, leaving>>

\* attemptReconnect after its await.
Opened ==
  /\ socket = "accepted"
  /\ IF status = "disconnected"
       THEN socket' = "closed" /\ wire' = << >> /\ UNCHANGED <<status, attempts>>
       ELSE socket' = "open" /\ wire' = wire /\ status' = "connected" /\ attempts' = 0
  /\ UNCHANGED <<server, inbound, stray, owed, noticed, drops, shown, timer, token, entry, promise, leaving>>

\* handleEvent for room.snapshot.
ReceiveSnapshot ==
  /\ socket = "open"
  /\ wire # << >>
  /\ Head(wire).kind = "snapshot"
  /\ token' = (token \/ Head(wire).handshake)
  /\ LET r == Head(wire).revision
     IN  IF InSequence(r)
           THEN /\ shown' = r
                /\ wire' = Tail(wire)
                /\ UNCHANGED <<socket, inbound, stray, owed, status, timer, attempts, entry, promise>>
           ELSE Lost /\ shown' = shown
  /\ UNCHANGED <<server, noticed, drops, leaving>>

\* handleServerMessage for an answer: sendSnapshot goes on when there is an entry.
ReceiveAnswer ==
  /\ socket = "open"
  /\ wire # << >>
  /\ Head(wire).kind \in {"answer", "failure"}
  /\ LET m == Head(wire)
         s == <<m.command, entry[m.command]>>
     IN  IF s[2] = 0
           THEN UNCHANGED <<shown, entry, promise>>
           ELSE /\ entry' = [entry EXCEPT ![m.command] = 0]
                /\ promise' = [promise EXCEPT
                                 ![s] = IF m.kind = "answer" THEN "resolved" ELSE "rejected"]
                /\ shown' = IF m.kind = "answer" THEN Later(shown, m.revision) ELSE shown
  /\ wire' = Tail(wire)
  /\ UNCHANGED <<server, socket, inbound, stray, owed, noticed, drops, status, timer, attempts, token, leaving>>

Waiting(c) == \E n \in 1 .. MaxSends : promise[<<c, n>>] = "waiting"
\* A call of an operation; the application repeats one that failed under its request id.
Send(c, n) ==
  /\ status = "connected"
  /\ promise[<<c, n>>] = "unused"
  /\ \A k \in 1 .. (n - 1) : promise[<<c, k>>] \in {"waiting", "rejected"}
  /\ Waiting(c) => "overlap" \in Faults
  /\ promise' = [promise EXCEPT ![<<c, n>>] = "waiting"]
  /\ entry' = [entry EXCEPT ![c] = n]
  /\ inbound' = inbound \cup {<<c, n>>}
  /\ UNCHANGED <<server, socket, wire, stray, owed, noticed, drops, shown, status, timer, attempts, token, leaving>>

\* timeoutMs of a command, or its AbortSignal.
CommandTimeout(c, n) ==
  /\ "commandTimeout" \in Faults
  /\ entry[c] = n
  /\ n # 0
  /\ promise' = [promise EXCEPT ![<<c, n>>] = "rejected"]
  /\ entry' = [entry EXCEPT ![c] = 0]
  /\ UNCHANGED <<server, link, shown, status, timer, attempts, token, leaving>>

Leave ==
  /\ status = "connected"
  /\ leaving = 0
  /\ leaving' = 1
  /\ UNCHANGED <<server, link, handle>>

\* replaceSnapshot with the answer of leave(), then markClosed.
LeaveAnswered ==
  /\ leaving > 1
  /\ leaving' = 0
  /\ shown' = Later(shown, leaving - 1)
  /\ IF status = "connected"
       THEN Terminate /\ UNCHANGED <<timer, attempts>>
       ELSE timer' = FALSE /\ UNCHANGED <<socket, wire, inbound, stray, owed, attempts, entry, promise>>
  /\ status' = "disconnected"
  /\ UNCHANGED <<server, noticed, drops, token>>
-----------------------------------------------------------------------------
RoomNext ==
  \/ Change
  \/ Remove
  \/ Notice
  \/ Accept
  \/ \E s \in Sending : Execute(s) \/ Respond(s) \/ Refuse(s) \/ LoseStray(s)
  \/ RoomLeaves
  \/ LeaveRefused

ClientNext ==
  \/ Drop
  \/ Retry
  \/ AttemptFails
  \/ ConnectTimeout
  \/ Opened
  \/ ReceiveSnapshot
  \/ ReceiveAnswer
  \/ \E c \in Command, n \in 1 .. MaxSends : Send(c, n) \/ CommandTimeout(c, n)
  \/ Leave
  \/ LeaveAnswered

Next == RoomNext \/ ClientNext
Spec == Init /\ [][Next]_vars

\* Timers fire, connections are decided, messages arrive, handlers end.
Fairness ==
  /\ WF_vars(Notice)
  /\ WF_vars(Accept)
  /\ WF_vars(socket = "connecting" /\ ~Admitted /\ AttemptFails)
  /\ \A s \in Sending : WF_vars(Execute(s) \/ Refuse(s)) /\ WF_vars(Respond(s))
  /\ WF_vars(Retry)
  /\ WF_vars(Opened)
  /\ WF_vars(ReceiveSnapshot)
  /\ WF_vars(ReceiveAnswer)

FairSpec == Spec /\ Fairness
=============================================================================
