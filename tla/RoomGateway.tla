----------------------------- MODULE RoomGateway -----------------------------
(***************************************************************************)
(* POST /v1/custom-rooms, /join and /leave: the Worker's handlers, the     *)
(* Room objects they call and the table of invitation codes in D1.         *)
(*                                                                         *)
(* The Worker keeps nothing: between two awaits of a handler any other     *)
(* call may run, and a call may end for good.  A Room is named after the   *)
(* principal and the requestId of its creation, so a Room and a creation   *)
(* key are one thing here; all of them belong to Founder.                  *)
(***************************************************************************)
EXTENDS Naturals, FiniteSets

CONSTANTS
  Room,       \* deriveRoomId: one for each requestId of Founder
  Player,
  Founder,
  Request,    \* requestIds of joins and leaves, scoped to player and Room
  Code,       \* what createInvitationCode may draw
  Method,     \* joinMethods the clients ask for: the payload of a creation
  Invitation, \* the one that goes with an invitation code
  Worker,     \* calls that may be under way at once
  MaxPlayers,
  MaxCalls,   \* bound: calls in all
  Faults,     \* of "die", "expire", "delete", "collide", "remove"
  None

CreateKey == <<"create">>
Key == {CreateKey} \cup (Player \X Request)    \* scopeRoomRequestId

\* The row and the participants of a Room; a stored result.
Row == [method : Method, code : Code, state : {"waiting", "in_progress", "finished"},
        born : Nat, member : [Player -> Nat \cup {None}]]
Outcome == [command : {"create", "join", "leave"}, payload : Method \cup Code \cup Nat \cup {None},
            participant : Nat, code : Code \cup {None}]

ASSUME RoomGatewayAssumption ==
  /\ Founder \in Player
  /\ {MaxPlayers, MaxCalls} \subseteq Nat
  /\ Invitation \in Method
  /\ None \notin Room \cup Code \cup Nat \cup Row \cup Outcome

VARIABLES
  room,      \* the row and the participants of each Room object, or None
  stored,    \* flarelobby_processed_commands of each Room
  invite,    \* flarelobby_custom_room_invitations: the Room behind a code
  call,      \* the handlers in the Worker
  sent,      \* calls so far
  asked,     \* history: the creations sent, with their payload
  doubled,   \* history: the requests sent while they were being handled
  answers,   \* history: the successful answers
  refused,   \* history: the creations answered with an error of the Room or of D1's table
  deleted,   \* history: Rooms deleted once
  forgotten, \* history: processed commands that expired
  lost       \* history: participants whose joining call ended without an answer

asking == <<sent, asked, doubled>>
history == <<answers, refused, deleted, forgotten, lost>>
vars == <<room, stored, invite, call, asking, history>>

Exists(k) == room[k] # None
Members(k) == {p \in Player : room[k].member[p] # None}

Idle == [step |-> "idle"]
Active == {w \in Worker : call[w].step # "idle"}
KeyOf(c) == IF c.command = "create" THEN CreateKey ELSE <<c.player, c.request>>

Init ==
  /\ room = [k \in Room |-> None]
  /\ stored = [k \in Room |-> [r \in Key |-> None]]
  /\ invite = [c \in Code |-> None]
  /\ call = [w \in Worker |-> Idle]
  /\ sent = 0
  /\ asked = {}
  /\ doubled = {}
  /\ answers = {}
  /\ refused = {}
  /\ deleted = {}
  /\ forgotten = {}
  /\ lost = {}
-----------------------------------------------------------------------------
(* How a handler goes on and ends *)

Goto(w, s) == call' = [call EXCEPT ![w].step = s]

\* The answer as the client sees it, joinToken and snapshot left out.
Seen(c, participant, code) ==
  [command |-> c.command, room |-> c.room, payload |-> c.payload, participant |-> participant,
   code |-> code, player |-> c.player, request |-> c.request]

\* The participant of a call that ends without an answer for it.
Losing(k, participant) == IF participant = None THEN lost ELSE lost \cup {<<k, participant>>}

\* The client may not get the answer of a call that is done.
Answer(w, participant, code) ==
  /\ call' = [call EXCEPT ![w] = Idle]
  /\ \/ /\ answers' = answers \cup {Seen(call[w], participant, code)}
        /\ UNCHANGED lost
     \/ /\ "die" \in Faults
        /\ lost' = Losing(call[w].room, participant)
        /\ UNCHANGED answers
  /\ UNCHANGED refused

Refuse(w) ==
  /\ call' = [call EXCEPT ![w] = Idle]
  /\ refused' = IF call[w].command = "create" THEN refused \cup {Seen(call[w], None, None)}
                ELSE refused
  /\ lost' = Losing(call[w].room, call[w].participant)
  /\ UNCHANGED answers

Unanswered == UNCHANGED <<answers, refused, lost>>

SameInput(found, c) == found.command = c.command /\ found.payload = c.payload

Same(c, d) == c.command = d.command /\ c.player = d.player /\ c.request = d.request

\* A client may send a request again while the Worker still handles it.
Start(w, c) ==
  /\ sent < MaxCalls
  /\ call[w] = Idle
  /\ call' = [call EXCEPT ![w] = c]
  /\ sent' = sent + 1
  /\ asked' = IF c.command = "create" THEN asked \cup {<<c.room, c.payload>>} ELSE asked
  /\ doubled' = IF \E v \in Active : Same(call[v], c)
                  THEN doubled \cup {<<c.player, c.request>>} ELSE doubled
  /\ UNCHANGED <<room, stored, invite, answers, refused, deleted, forgotten, lost>>

Call(step, command, player, k, request, payload) ==
  [command |-> command, room |-> k, payload |-> payload, participant |-> None, code |-> None,
   player |-> player, request |-> request, step |-> step]

\* The isolate is gone, D1 or a Room cannot be reached, the rate limit or the
\* application's authorize() says no: the handler ends wherever it waits.
GiveUp(w) ==
  /\ "die" \in Faults
  /\ w \in Active
  /\ call' = [call EXCEPT ![w] = Idle]
  /\ lost' = Losing(call[w].room, call[w].participant)
  /\ UNCHANGED <<room, stored, invite, asking, answers, refused, deleted, forgotten>>
-----------------------------------------------------------------------------
(* Processed commands *)

NoLookup(k, r) == None    \* mutant: the stored result is not asked for
\* getProcessedCommand
Lookup(k, r) == stored[k][r]

Look(w) ==
  LET c == call[w]
      found == Lookup(c.room, KeyOf(c)) IN
  /\ c.step = "look"
  /\ \/ /\ found = None
        /\ Goto(w, CASE c.command = "create" -> "initialize"
                     [] c.command = "join" -> "admit"
                     [] c.command = "leave" -> "depart")
        /\ Unanswered
     \/ /\ found # None
        /\ ~SameInput(found, c)
        /\ Refuse(w)
     \/ /\ found # None
        /\ SameInput(found, c)
        /\ IF found.code = None
             THEN Answer(w, found.participant, None)
             ELSE /\ call' = [call EXCEPT ![w].step = "restore", ![w].code = found.code,
                                          ![w].participant = found.participant]
                  /\ Unanswered
  /\ UNCHANGED <<room, stored, invite, asking, deleted, forgotten>>

Result(c) == [command |-> c.command, payload |-> c.payload,
              participant |-> c.participant, code |-> c.code]

\* The first stored result is the answer of every call of the request.
FirstResult(found, c) == found

\* recordProcessedCommand, and the answer it leads to.
Record(w) ==
  LET c == call[w]
      found == stored[c.room][KeyOf(c)] IN
  /\ c.step = "record"
  /\ \/ /\ Exists(c.room)
        /\ found = None
        /\ stored' = [stored EXCEPT ![c.room][KeyOf(c)] = Result(c)]
        /\ Answer(w, c.participant, c.code)
     \/ /\ Exists(c.room)
        /\ found # None
        /\ SameInput(found, c)
        /\ LET first == FirstResult(found, c) IN Answer(w, first.participant, first.code)
        /\ UNCHANGED stored
     \/ /\ ~Exists(c.room)
        /\ Refuse(w)
        /\ UNCHANGED stored
     \/ /\ Exists(c.room)
        /\ found # None
        /\ ~SameInput(found, c)
        /\ Refuse(w)
        /\ UNCHANGED stored
  /\ UNCHANGED <<room, invite, asking, deleted, forgotten>>

\* purgeExpiredProcessedCommands, when the retention of a result is over.
Expire(k, r) ==
  /\ "expire" \in Faults
  /\ stored[k][r] # None
  /\ stored' = [stored EXCEPT ![k][r] = None]
  /\ forgotten' = forgotten \cup {<<k, r>>}
  /\ UNCHANGED <<room, invite, call, asking, answers, refused, deleted, lost>>
-----------------------------------------------------------------------------
(* Creation *)

CreateCall(w, k, m) == Start(w, Call("look", "create", Founder, k, k, m))

\* participant-<roomId>: the id of Founder's participant in any life of the Room.
HostId == 0

NewRoom(m, code) ==
  [code |-> code, member |-> [p \in Player |-> IF p = Founder THEN HostId ELSE None],
   method |-> m, state |-> "waiting", born |-> 0]

\* createInvitationCode draws at random; a code that is taken is a collision.
Drawn == IF "collide" \in Faults THEN Code
         ELSE {c \in Code : invite[c] = None /\ \A k \in Room : Exists(k) => room[k].code # c}

\* The answered code is the one in the snapshot, and only for an invitation.
AnswerCode(c, snapshot) == IF c.payload = Invitation THEN snapshot.code ELSE None

\* initialize() of the Room, after the join token is issued.
Initialize(w) ==
  LET c == call[w] IN
  /\ c.step = "initialize"
  /\ \E drawn \in Drawn :
       LET snapshot == IF Exists(c.room) THEN room[c.room] ELSE NewRoom(c.payload, drawn) IN
       /\ room' = [room EXCEPT ![c.room] = snapshot]
       /\ call' = [call EXCEPT
            ![w].step = IF c.payload = Invitation THEN "register" ELSE "record",
            ![w].code = AnswerCode(c, snapshot),
            ![w].participant = HostId]
  /\ UNCHANGED <<stored, invite, asking, history>>

AnyRow(code, k) == TRUE    \* mutant: INSERT OR IGNORE is taken for a success
NewRow(code, k) == invite[code] = None    \* mutant: a row that is there fails the INSERT
\* The SELECT behind the INSERT finds this Room.
OwnRow(code, k) == invite'[code] = k

\* registerCustomRoomInvitation: both columns of the table are unique.
Register(w) ==
  LET c == call[w] IN
  /\ c.step \in {"register", "restore"}
  /\ invite' = IF invite[c.code] = None /\ \A d \in Code : invite[d] # c.room
                 THEN [invite EXCEPT ![c.code] = c.room]
                 ELSE invite
  /\ \/ /\ ~OwnRow(c.code, c.room)
        /\ Refuse(w)
     \/ /\ OwnRow(c.code, c.room)
        /\ c.step = "restore"
        /\ Answer(w, c.participant, c.code)
     \/ /\ OwnRow(c.code, c.room)
        /\ c.step = "register"
        /\ Goto(w, "record")
        /\ Unanswered
  /\ UNCHANGED <<room, stored, asking, deleted, forgotten>>
-----------------------------------------------------------------------------
(* Joining *)

\* With the Room's id, or with an invitation code, known from the answer of its creation.
JoinCall(w, p, r) ==
  \E a \in answers :
    /\ a.command = "create" /\ p # Founder
    /\ \/ Start(w, Call("look", "join", p, a.room, r, None))
       \/ a.code # None /\ Start(w, Call("resolve", "join", p, None, r, a.code))

\* resolveCustomRoomInvitation
Resolve(w) ==
  LET c == call[w] IN
  /\ c.step = "resolve"
  /\ \/ /\ invite[c.payload] = None
        /\ Refuse(w)
     \/ /\ invite[c.payload] # None
        /\ call' = [call EXCEPT ![w].step = "look", ![w].room = invite[c.payload]]
        /\ Unanswered
  /\ UNCHANGED <<room, stored, invite, asking, deleted, forgotten>>

\* assertJoinCredentials; who joins a Room with a password knows it.
Credentials(c) == room[c.room].method = Invitation => c.payload = room[c.room].code

Joinable(c) == Exists(c.room) /\ room[c.room].state = "waiting" /\ Credentials(c)

\* join() of the Room.
Admit(w) ==
  LET c == call[w]
      k == c.room
      own == room[k].member[c.player]
      full == Cardinality(Members(k)) >= MaxPlayers IN
  /\ c.step = "admit"
  /\ \/ /\ ~Joinable(c)
        /\ Refuse(w)
        /\ UNCHANGED room
     \/ /\ Joinable(c)
        /\ own # None
        /\ call' = [call EXCEPT ![w].step = "record", ![w].participant = own]
        /\ Unanswered
        /\ UNCHANGED room
     \/ /\ Joinable(c)
        /\ own = None /\ full
        /\ Refuse(w)
        /\ UNCHANGED room
     \/ /\ Joinable(c)
        /\ own = None /\ ~full
        /\ room' = [room EXCEPT ![k].member[c.player] = room[k].born + 1, ![k].born = @ + 1]
        /\ call' = [call EXCEPT ![w].step = "record", ![w].participant = room[k].born + 1]
        /\ Unanswered
  /\ UNCHANGED <<stored, invite, asking, deleted, forgotten>>
-----------------------------------------------------------------------------
(* Leaving *)

\* A join token names its participant, and only an answer carries one.
LeaveCall(w, r) ==
  \E a \in answers :
    /\ a.command # "leave"
    /\ Start(w, Call("look", "leave", a.player, a.room, r, a.participant))

\* A participant goes; the last one closes the Room.
Without(k, p) ==
  LET r == room[k] IN
  [r EXCEPT !.member[p] = None,
            !.state = IF Members(k) = {p} THEN "finished" ELSE @]

\* The participant of the token is still this player's, in a Room that is not over.
Leavable(c) == Exists(c.room) /\ room[c.room].state # "finished"
                              /\ room[c.room].member[c.player] = c.payload

\* leave() of the Room stores its result before it awaits anything.
Depart(w) ==
  LET c == call[w]
      k == c.room
      found == stored[k][KeyOf(c)] IN
  /\ c.step = "depart"
  /\ \/ /\ found # None
        /\ IF SameInput(found, c) THEN Answer(w, found.participant, None) ELSE Refuse(w)
        /\ UNCHANGED <<room, stored>>
     \/ /\ found = None
        /\ ~Leavable(c)
        /\ Refuse(w)
        /\ UNCHANGED <<room, stored>>
     \/ /\ found = None
        /\ Leavable(c)
        /\ room' = [room EXCEPT ![k] = Without(k, c.player)]
        /\ stored' = [stored EXCEPT ![k][KeyOf(c)] =
             [command |-> "leave", payload |-> c.payload, participant |-> c.payload, code |-> None]]
        /\ Answer(w, c.payload, None)
  /\ UNCHANGED <<invite, asking, deleted, forgotten>>
-----------------------------------------------------------------------------
(* The Room goes on meanwhile *)

Moves == {<<"waiting", "in_progress">>, <<"waiting", "finished">>, <<"in_progress", "finished">>}

\* startMatch, close, a transition.
Transition(k) ==
  /\ Exists(k)
  /\ \E m \in Moves :
       /\ room[k].state = m[1]
       /\ room' = [room EXCEPT ![k].state = m[2]]
  /\ UNCHANGED <<stored, invite, call, asking, history>>

\* kick(), or a grace period that runs out.
Removed(k, p) ==
  /\ "remove" \in Faults
  /\ Exists(k) /\ room[k].state # "finished" /\ p \in Members(k)
  /\ room' = [room EXCEPT ![k] = Without(k, p)]
  /\ UNCHANGED <<stored, invite, call, asking, history>>

\* deleteRoomState, when the retention of a finished Room is over: the rows in D1 stay.
Delete(k) ==
  /\ "delete" \in Faults
  /\ Exists(k) /\ room[k].state = "finished"
  /\ room' = [room EXCEPT ![k] = None]
  /\ stored' = [stored EXCEPT ![k] = [r \in Key |-> None]]
  /\ deleted' = deleted \cup {k}
  /\ UNCHANGED <<invite, call, asking, answers, refused, forgotten, lost>>

Next ==
  \/ \E w \in Worker :
       \/ \E k \in Room, m \in Method : CreateCall(w, k, m)
       \/ \E r \in Request : LeaveCall(w, r) \/ \E p \in Player : JoinCall(w, p, r)
       \/ Look(w) \/ Record(w)
       \/ Initialize(w) \/ Register(w)
       \/ Resolve(w) \/ Admit(w)
       \/ Depart(w)
       \/ GiveUp(w)
  \/ \E k \in Room :
       \/ Transition(k) \/ Delete(k)
       \/ \E r \in Key : Expire(k, r)
       \/ \E p \in Player : Removed(k, p)

Spec == Init /\ [][Next]_vars
=============================================================================
