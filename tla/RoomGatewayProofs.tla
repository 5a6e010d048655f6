--------------------------- MODULE RoomGatewayProofs ---------------------------
(***************************************************************************)
(* Proofs about RoomGateway: creations and joins are answered alike however*)
(* often they are sent, a creation is refused for a cause, and nobody sits *)
(* in a Room without a call or an answer that knows, for any calls, codes, *)
(* Rooms and faults.                                                       *)
(***************************************************************************)
EXTENDS RoomGatewayProperties, TLAPS

Commands == {"create", "join", "leave"}
Steps == {"look", "initialize", "register", "restore", "record", "resolve", "admit", "depart"}
Payload == Method \cup Code \cup Nat \cup {None}

Calls ==
  [step : Steps, command : Commands, player : Player, room : Room \cup {None},
   request : Room \cup Request, payload : Payload, participant : Nat \cup {None},
   code : Code \cup {None}]

Answers ==
  [command : Commands, player : Player, room : Room, request : Room \cup Request,
   payload : Payload, participant : Nat \cup {None}, code : Code \cup {None}]

\* The state of the Rooms, of D1, of the handlers and of the history.
TypeOK ==
  /\ room \in [Room -> Row \cup {None}]
  /\ stored \in [Room -> [Key -> Outcome \cup {None}]]
  /\ invite \in [Code -> Room \cup {None}]
  /\ call \in [Worker -> Calls \cup {Idle}]
  /\ sent \in Nat
  /\ asked \subseteq Room \X Method
  /\ doubled \subseteq Player \X (Room \cup Request)
  /\ answers \subseteq Answers
  /\ refused \subseteq Answers
  /\ deleted \subseteq Room
  /\ forgotten \subseteq Room \X Key
  /\ lost \subseteq Room \X Nat

\* What a handler holds at each of its steps.
CreateShape(c) ==
  /\ c.player = Founder /\ c.room \in Room /\ c.request = c.room /\ c.payload \in Method
  /\ c.step \in {"look", "initialize", "register", "restore", "record"}
  /\ <<c.room, c.payload>> \in asked
  /\ c.step \in {"look", "initialize"} => c.participant = None
  /\ c.step \in {"register", "restore", "record"} => c.participant = HostId
  /\ c.step \in {"register", "restore"} => c.payload = Invitation /\ c.code \in Code
  /\ c.step = "restore" => invite[c.code] = c.room
  /\ c.step = "record" => IF c.payload = Invitation THEN c.code \in Code /\ invite[c.code] = c.room
                                                    ELSE c.code = None

JoinShape(c) ==
  /\ c.request \in Request /\ c.code = None
  /\ c.step \in {"resolve", "look", "admit", "record"}
  /\ c.step = "resolve" => c.room = None /\ c.payload \in Code
  /\ c.step # "resolve" => c.room \in Room
  /\ c.step = "record" => c.participant \in Nat
  /\ c.step # "record" => c.participant = None

LeaveShape(c) ==
  /\ c.request \in Request /\ c.code = None /\ c.participant = None /\ c.payload \in Nat
  /\ c.room \in Room
  /\ c.step \in {"look", "depart"}

CallsKeepShape ==
  \A w \in Active :
    /\ call[w].command = "create" => CreateShape(call[w])
    /\ call[w].command = "join" => JoinShape(call[w])
    /\ call[w].command = "leave" => LeaveShape(call[w])

\* What a creation is answered with, at once or from its stored result.
CreationOf(k, x) ==
  /\ x.payload \in Method /\ x.participant = HostId
  /\ <<k, x.payload>> \in asked
  /\ IF x.payload = Invitation THEN x.code \in Code /\ invite[x.code] = k ELSE x.code = None

OutcomesKeepShape ==
  \A k \in Room, r \in Key : stored[k][r] # None =>
    IF r = CreateKey THEN stored[k][r].command = "create" /\ CreationOf(k, stored[k][r])
    ELSE stored[k][r].command \in {"join", "leave"} /\ stored[k][r].code = None

AnswersKeepShape ==
  \A a \in answers :
    /\ a.participant \in Nat
    /\ a.command = "create" => CreationOf(a.room, a) /\ a.player = Founder
    /\ a.command # "create" => a.request \in Request /\ a.code = None

\* Both columns of the table of invitations are unique.
InviteUnique == \A c, d \in Code : invite[c] # None /\ invite[c] = invite[d] => c = d

\* A code in the table is the one of its Room, until the Room is deleted.
InviteOfRoom ==
  \A c \in Code : invite[c] # None =>
    invite[c] \in deleted \/ (Exists(invite[c]) /\ room[invite[c]].code = c)

\* A creation past initialize() has its Room, with the code it holds, unless it was deleted.
CreatingHasRoom ==
  \A w \in Active : call[w].command = "create" /\ call[w].step \in {"register", "record"} =>
    \/ call[w].room \in deleted
    \/ Exists(call[w].room)
         /\ (call[w].step = "register" => room[call[w].room].code = call[w].code)

\* A creation or a join that was answered is stored with that answer until it is forgotten.
AnswersStored ==
  \A a \in answers : a.command \in {"create", "join"} =>
    LET r == IF a.command = "create" THEN CreateKey ELSE <<a.player, a.request>>
        found == stored[a.room][r] IN
    \/ Forgotten(a.room, r)
    \/ found # None /\ found.command = a.command /\ found.payload = a.payload
                    /\ found.participant = a.participant

\* The same of a creation on its way to be answered again.
RestoringStored ==
  \A w \in Active : call[w].step = "restore" =>
    LET k == call[w].room
        found == stored[k][CreateKey] IN
    \/ Forgotten(k, CreateKey)
    \/ found # None /\ found.payload = call[w].payload

\* Two calls of one request at a time are a request sent while it was being handled.
TwinsAreDoubled ==
  \A v, w \in Active : v # w /\ Same(call[v], call[w]) =>
    <<call[w].player, call[w].request>> \in doubled

\* A join looked for its result in vain: only a call sent at the same time stores one.
JoiningIsFirst ==
  \A w \in Active : call[w].command = "join" /\ call[w].step \in {"admit", "record"} =>
    LET found == stored[call[w].room][KeyOf(call[w])] IN
    \/ found = None \/ found.command # "join"
    \/ <<call[w].player, call[w].request>> \in doubled

\* EveryoneKnows with the caller: the call that knows of a participant is the player's.
OwnerKnows ==
  \A k \in Room : Exists(k) => \A p \in Members(k) :
    LET x == room[k].member[p] IN
    \/ \E w \in Active : call[w].player = p /\ call[w].room = k /\ call[w].participant = x
    \/ <<k, x>> \in lost
    \/ \E r \in Request : <<p, r>> \in doubled
    \/ \E a \in answers : a.room = k /\ a.player = p /\ a.participant = x

IInv ==
  /\ TypeOK /\ CallsKeepShape /\ OutcomesKeepShape /\ AnswersKeepShape
  /\ InviteUnique /\ InviteOfRoom /\ CreatingHasRoom
  /\ AnswersStored /\ RestoringStored /\ TwinsAreDoubled /\ JoiningIsFirst /\ OwnerKnows
  /\ RefusedForCause
-----------------------------------------------------------------------------
(* Keys and records *)

LEMMA KeyApart == \A p \in Player, r \in Request : <<p, r>> \in Key /\ <<p, r>> # CreateKey
  BY DEF Key, CreateKey

LEMMA NoneApart ==
  /\ None \notin Room /\ None \notin Code /\ None \notin Nat
  /\ None \notin Row /\ None \notin Outcome
  BY RoomGatewayAssumption

LEMMA ActiveCalls ==
  ASSUME TypeOK, NEW w \in Worker, call[w].step # "idle"
  PROVE  w \in Active /\ call[w] \in Calls /\ call[w] # Idle
<1>1. call[w] # Idle
  BY DEF Idle
<1> QED
  BY <1>1 DEF TypeOK, Active

\* The key of a call on a Room.
LEMMA KeyOfCall ==
  ASSUME TypeOK, CallsKeepShape, NEW w \in Active
  PROVE  /\ KeyOf(call[w]) \in Key
         /\ KeyOf(call[w]) = CreateKey <=> call[w].command = "create"
         /\ call[w].command # "create" =>
              /\ KeyOf(call[w]) = <<call[w].player, call[w].request>>
              /\ call[w].player \in Player /\ call[w].request \in Request
<1>1. call[w] \in Calls
  BY ActiveCalls DEF Active
<1>2. CASE call[w].command = "create"
  BY <1>2 DEF KeyOf, Key
<1>3. CASE call[w].command # "create"
  <2>1. call[w].player \in Player /\ call[w].request \in Request
    BY <1>1, <1>3 DEF CallsKeepShape, JoinShape, LeaveShape, Calls, Commands
  <2> QED
    BY <2>1, <1>3, KeyApart DEF KeyOf
<1> QED
  BY <1>2, <1>3

\* The steps that only some of the handlers take.
LEMMA CreatingShape ==
  ASSUME TypeOK, CallsKeepShape, NEW w \in Active, call[w].command = "create"
  PROVE  CreateShape(call[w])
  BY DEF CallsKeepShape

LEMMA JoiningShape ==
  ASSUME TypeOK, CallsKeepShape, NEW w \in Active, call[w].command = "join"
  PROVE  JoinShape(call[w])
  BY DEF CallsKeepShape

LEMMA LeavingShape ==
  ASSUME TypeOK, CallsKeepShape, NEW w \in Active, call[w].command = "leave"
  PROVE  LeaveShape(call[w])
  BY DEF CallsKeepShape

LEMMA CommandOfStep ==
  ASSUME TypeOK, CallsKeepShape, NEW w \in Active
  PROVE  /\ call[w].command \in Commands
         /\ call[w].step \in {"initialize", "register", "restore"} => call[w].command = "create"
         /\ call[w].step \in {"resolve", "admit"} => call[w].command = "join"
         /\ call[w].step = "depart" => call[w].command = "leave"
         /\ call[w].step = "record" => call[w].command \in {"create", "join"}
<1>1. call[w].command \in Commands
  BY ActiveCalls DEF Active, Calls
<1>2. CASE call[w].command = "create"
  <2>1. CreateShape(call[w])
    BY <1>2, CreatingShape
  <2> QED
    BY <1>1, <2>1, <1>2 DEF CreateShape
<1>3. CASE call[w].command = "join"
  <2>1. JoinShape(call[w])
    BY <1>3, JoiningShape
  <2> QED
    BY <1>1, <2>1, <1>3 DEF JoinShape
<1>4. CASE call[w].command = "leave"
  <2>1. LeaveShape(call[w])
    BY <1>4, LeavingShape
  <2> QED
    BY <1>1, <2>1, <1>4 DEF LeaveShape
<1> QED
  BY <1>1, <1>2, <1>3, <1>4 DEF Commands

LEMMA StartType ==
  ASSUME TypeOK, NEW w \in Worker, NEW c \in Calls, Start(w, c),
         c.command = "create" => c.room \in Room /\ c.payload \in Method
  PROVE  TypeOK'
<1>1. call' \in [Worker -> Calls \cup {Idle}]
  BY DEF TypeOK, Start
<1>2. sent' \in Nat
  BY DEF TypeOK, Start
<1>3. asked' \subseteq Room \X Method
  BY DEF TypeOK, Start
<1>4. doubled' \subseteq Player \X (Room \cup Request)
  BY DEF TypeOK, Start, Calls
<1> QED
  BY <1>1, <1>2, <1>3, <1>4 DEF TypeOK, Start

LEMMA SeenType ==
  ASSUME NEW c \in Calls, c.room \in Room, NEW x \in Nat \cup {None}, NEW d \in Code \cup {None}
  PROVE  Seen(c, x, d) \in Answers
  BY DEF Seen, Answers, Calls

LEMMA LosingType ==
  ASSUME TypeOK, NEW k, NEW x \in Nat \cup {None}, x # None => k \in Room
  PROVE  Losing(k, x) \subseteq Room \X Nat
  BY DEF Losing, TypeOK

LEMMA AnswerType ==
  ASSUME TypeOK, NEW w \in Active, call[w].room \in Room, NEW x \in Nat, NEW d \in Code \cup {None},
         Answer(w, x, d)
  PROVE  /\ call' \in [Worker -> Calls \cup {Idle}]
         /\ answers' \subseteq Answers /\ refused' \subseteq Answers /\ lost' \subseteq Room \X Nat
<1>1. call[w] \in Calls /\ w \in Worker
  BY ActiveCalls DEF Active
<1>2. Seen(call[w], x, d) \in Answers
  BY <1>1, SeenType
<1>3. Losing(call[w].room, x) \subseteq Room \X Nat
  BY LosingType
<1> QED
  BY <1>1, <1>2, <1>3 DEF TypeOK, Answer

LEMMA RefuseType ==
  ASSUME TypeOK, NEW w \in Active, call[w].participant # None => call[w].room \in Room,
         call[w].command = "create" => call[w].room \in Room, Refuse(w)
  PROVE  /\ call' \in [Worker -> Calls \cup {Idle}]
         /\ answers' \subseteq Answers /\ refused' \subseteq Answers /\ lost' \subseteq Room \X Nat
<1>1. call[w] \in Calls /\ w \in Worker
  BY ActiveCalls DEF Active
<1>2. CASE call[w].command = "create"
  <2>1. Seen(call[w], None, None) \in Answers
    BY <1>1, <1>2, SeenType
  <2> QED
    BY <2>1, <1>1, <1>2, LosingType DEF TypeOK, Refuse, Calls
<1>3. CASE call[w].command # "create"
  BY <1>1, <1>3, LosingType DEF TypeOK, Refuse, Calls
<1> QED
  BY <1>2, <1>3

LEMMA GotoType ==
  ASSUME TypeOK, NEW w \in Active, NEW s \in Steps, Goto(w, s)
  PROVE  call' \in [Worker -> Calls \cup {Idle}]
<1>1. call[w] \in Calls /\ w \in Worker
  BY ActiveCalls DEF Active
<1>2. [call[w] EXCEPT !.step = s] \in Calls
  BY <1>1 DEF Calls
<1> QED
  BY <1>1, <1>2 DEF TypeOK, Goto
-----------------------------------------------------------------------------
(* The type of the state *)

LEMMA LookType ==
  ASSUME TypeOK, CallsKeepShape, OutcomesKeepShape, NEW w \in Worker, Look(w)
  PROVE  TypeOK'
<1> DEFINE c == call[w]
           found == stored[c.room][KeyOf(c)]
<1>1. w \in Active /\ c \in Calls /\ c.step = "look"
  BY ActiveCalls DEF Look
<1>2. c.room \in Room /\ KeyOf(c) \in Key /\ c.participant = None
  BY <1>1, KeyOfCall DEF CallsKeepShape, CreateShape, JoinShape, LeaveShape, Calls, Commands
<1>3. found \in Outcome \cup {None}
  BY <1>2 DEF TypeOK
<1>4. Lookup(c.room, KeyOf(c)) = found
  BY DEF Lookup
<1>5. /\ call' \in [Worker -> Calls \cup {Idle}]
      /\ answers' \subseteq Answers /\ refused' \subseteq Answers /\ lost' \subseteq Room \X Nat
  <2>1. CASE \E s \in Steps : Goto(w, s) /\ Unanswered
    BY <2>1, <1>1, GotoType DEF Unanswered, TypeOK
  <2>2. CASE Refuse(w)
    BY <2>2, <1>1, <1>2, RefuseType
  <2>3. CASE found # None /\ Answer(w, found.participant, None)
    <3>1. found.participant \in Nat
      BY <2>3, <1>3 DEF Outcome
    <3> QED
      BY <3>1, <2>3, <1>1, <1>2, AnswerType
  <2>4. CASE /\ found # None
             /\ call' = [call EXCEPT ![w].step = "restore", ![w].code = found.code,
                                     ![w].participant = found.participant]
             /\ Unanswered
    <3>1. found.participant \in Nat /\ found.code \in Code \cup {None}
      BY <2>4, <1>3 DEF Outcome
    <3>2. [c EXCEPT !.step = "restore", !.code = found.code, !.participant = found.participant]
            \in Calls
      BY <3>1, <1>1 DEF Calls, Steps
    <3> QED
      BY <2>4, <3>2 DEF Unanswered, TypeOK
  <2>5. CASE Goto(w, CASE c.command = "create" -> "initialize"
                       [] c.command = "join" -> "admit"
                       [] c.command = "leave" -> "depart") /\ Unanswered
    <3>1. (CASE c.command = "create" -> "initialize"
             [] c.command = "join" -> "admit"
             [] c.command = "leave" -> "depart") \in Steps
      BY <1>1 DEF Steps, Calls, Commands
    <3> QED
      BY <3>1, <2>5, <2>1
  <2> QED
    BY <2>2, <2>3, <2>4, <2>5, <1>4 DEF Look
<1> QED
  BY <1>5 DEF Look, TypeOK, asking

LEMMA ResultType ==
  ASSUME NEW c \in Calls, c.participant \in Nat
  PROVE  Result(c) \in Outcome
  BY DEF Result, Outcome, Calls, Commands, Payload

LEMMA StoredType ==
  ASSUME TypeOK, NEW k \in Room, NEW r \in Key, NEW x \in Outcome \cup {None}
  PROVE  [stored EXCEPT ![k][r] = x] \in [Room -> [Key -> Outcome \cup {None}]]
<1>1. [stored[k] EXCEPT ![r] = x] \in [Key -> Outcome \cup {None}]
  BY DEF TypeOK
<1> QED
  BY <1>1 DEF TypeOK

LEMMA RecordType ==
  ASSUME TypeOK, CallsKeepShape, NEW w \in Worker, Record(w)
  PROVE  TypeOK'
<1> DEFINE c == call[w]
           found == stored[c.room][KeyOf(c)]
<1>1. w \in Active /\ c \in Calls /\ c.step = "record"
  BY ActiveCalls DEF Record
<1>2. c.room \in Room /\ KeyOf(c) \in Key /\ c.participant \in Nat
  <2>1. KeyOf(c) \in Key
    BY <1>1, KeyOfCall
  <2>2. CASE c.command = "create"
    <3>1. CreateShape(c)
      BY <1>1, <2>2, CreatingShape
    <3> QED
      BY <1>1, <2>1, <3>1 DEF CreateShape, HostId
  <2>3. CASE c.command = "join"
    <3>1. JoinShape(c)
      BY <1>1, <2>3, JoiningShape
    <3> QED
      BY <1>1, <2>1, <3>1 DEF JoinShape
  <2> QED
    BY <1>1, <2>2, <2>3, CommandOfStep
<1>3. found \in Outcome \cup {None}
  BY <1>2 DEF TypeOK
<1>4. /\ call' \in [Worker -> Calls \cup {Idle}]
      /\ answers' \subseteq Answers /\ refused' \subseteq Answers /\ lost' \subseteq Room \X Nat
  <2>1. CASE Refuse(w)
    BY <2>1, <1>1, <1>2, RefuseType
  <2>2. CASE Answer(w, c.participant, c.code)
    BY <2>2, <1>1, <1>2, AnswerType DEF Calls
  <2>3. CASE found # None /\ Answer(w, found.participant, found.code)
    <3>1. found.participant \in Nat /\ found.code \in Code \cup {None}
      BY <2>3, <1>3 DEF Outcome
    <3> QED
      BY <3>1, <2>3, <1>1, <1>2, AnswerType
  <2> QED
    BY <2>1, <2>2, <2>3 DEF Record, FirstResult
<1>5. stored' \in [Room -> [Key -> Outcome \cup {None}]]
  <2>1. [stored EXCEPT ![c.room][KeyOf(c)] = Result(c)] \in [Room -> [Key -> Outcome \cup {None}]]
    BY <1>1, <1>2, ResultType, StoredType
  <2> QED
    BY <2>1 DEF Record, TypeOK
<1> QED
  BY <1>4, <1>5 DEF Record, TypeOK, asking

LEMMA InitializeType ==
  ASSUME TypeOK, CallsKeepShape, NEW w \in Worker, Initialize(w)
  PROVE  TypeOK'
<1> DEFINE c == call[w]
<1>1. w \in Active /\ c \in Calls /\ c.step = "initialize"
  BY ActiveCalls DEF Initialize
<1>2. c.room \in Room /\ c.payload \in Method
  BY <1>1 DEF CallsKeepShape, CreateShape, JoinShape, LeaveShape, Calls, Commands
<1>3. PICK drawn \in Drawn :
        LET snapshot == IF Exists(c.room) THEN room[c.room] ELSE NewRoom(c.payload, drawn) IN
        /\ room' = [room EXCEPT ![c.room] = snapshot]
        /\ call' = [call EXCEPT
             ![w].step = IF c.payload = Invitation THEN "register" ELSE "record",
             ![w].code = AnswerCode(c, snapshot),
             ![w].participant = HostId]
  BY DEF Initialize
<1> DEFINE snapshot == IF Exists(c.room) THEN room[c.room] ELSE NewRoom(c.payload, drawn)
<1>4. drawn \in Code
  BY DEF Drawn
<1>5. snapshot \in Row
  BY <1>2, <1>4 DEF Exists, NewRoom, Row, HostId, TypeOK
<1>6. AnswerCode(c, snapshot) \in Code \cup {None}
  BY <1>5 DEF AnswerCode, Row
<1> HIDE DEF snapshot
<1>7. [c EXCEPT !.step = IF c.payload = Invitation THEN "register" ELSE "record",
                !.code = AnswerCode(c, snapshot), !.participant = HostId] \in Calls
  BY <1>1, <1>6 DEF Calls, Steps, HostId
<1>8. call' \in [Worker -> Calls \cup {Idle}]
  BY <1>7, <1>3 DEF TypeOK, snapshot
<1>9. room' \in [Room -> Row \cup {None}]
  BY <1>5, <1>3 DEF TypeOK, snapshot
<1> QED
  BY <1>8, <1>9 DEF Initialize, TypeOK, asking, history

LEMMA RegisterType ==
  ASSUME TypeOK, CallsKeepShape, NEW w \in Worker, Register(w)
  PROVE  TypeOK'
<1> DEFINE c == call[w]
<1>1. w \in Active /\ c \in Calls /\ c.step \in {"register", "restore"}
  BY ActiveCalls DEF Register
<1>2. c.room \in Room /\ c.participant \in Nat /\ c.code \in Code
  <2>1. CreateShape(c)
    BY <1>1, CommandOfStep, CreatingShape
  <2> QED
    BY <1>1, <2>1 DEF CreateShape, HostId
<1>3. invite' \in [Code -> Room \cup {None}]
  BY <1>2 DEF Register, TypeOK
<1>4. /\ call' \in [Worker -> Calls \cup {Idle}]
      /\ answers' \subseteq Answers /\ refused' \subseteq Answers /\ lost' \subseteq Room \X Nat
  <2>1. CASE Refuse(w)
    BY <2>1, <1>1, <1>2, RefuseType
  <2>2. CASE Answer(w, c.participant, c.code)
    BY <2>2, <1>1, <1>2, AnswerType
  <2>3. CASE Goto(w, "record") /\ Unanswered
    BY <2>3, <1>1, GotoType DEF Unanswered, TypeOK, Steps
  <2> QED
    BY <2>1, <2>2, <2>3 DEF Register
<1> QED
  BY <1>3, <1>4 DEF Register, TypeOK, asking

LEMMA ResolveType ==
  ASSUME TypeOK, CallsKeepShape, NEW w \in Worker, Resolve(w)
  PROVE  TypeOK'
<1> DEFINE c == call[w]
<1>1. w \in Active /\ c \in Calls /\ c.step = "resolve"
  BY ActiveCalls DEF Resolve
<1>2. c.command = "join" /\ c.participant = None /\ c.payload \in Code
  BY <1>1 DEF CallsKeepShape, CreateShape, JoinShape, LeaveShape, Calls, Commands
<1>3. /\ call' \in [Worker -> Calls \cup {Idle}]
      /\ answers' \subseteq Answers /\ refused' \subseteq Answers /\ lost' \subseteq Room \X Nat
  <2>1. CASE Refuse(w)
    BY <2>1, <1>1, <1>2, RefuseType
  <2>2. CASE /\ invite[c.payload] # None
             /\ call' = [call EXCEPT ![w].step = "look", ![w].room = invite[c.payload]]
             /\ Unanswered
    <3>1. invite[c.payload] \in Room
      BY <2>2, <1>2 DEF TypeOK
    <3>2. [c EXCEPT !.step = "look", !.room = invite[c.payload]] \in Calls
      BY <3>1, <1>1 DEF Calls, Steps
    <3> QED
      BY <3>2, <2>2 DEF TypeOK, Unanswered
  <2> QED
    BY <2>1, <2>2 DEF Resolve
<1> QED
  BY <1>3 DEF Resolve, TypeOK, asking

LEMMA AdmitType ==
  ASSUME TypeOK, CallsKeepShape, NEW w \in Worker, Admit(w)
  PROVE  TypeOK'
<1> DEFINE c == call[w]
<1>1. w \in Active /\ c \in Calls /\ c.step = "admit"
  BY ActiveCalls DEF Admit
<1>2. c.command = "join" /\ c.participant = None /\ c.room \in Room /\ c.player \in Player
  BY <1>1 DEF CallsKeepShape, CreateShape, JoinShape, LeaveShape, Calls, Commands
<1>3. CASE Refuse(w) /\ UNCHANGED room
  BY <1>3, <1>1, <1>2, RefuseType DEF Admit, TypeOK, asking
<1>4. ASSUME Joinable(c), NEW x \in Nat,
             call' = [call EXCEPT ![w].step = "record", ![w].participant = x], Unanswered,
             \/ UNCHANGED room
             \/ /\ x = room[c.room].born + 1
                /\ room' = [room EXCEPT ![c.room].member[c.player] = room[c.room].born + 1,
                                        ![c.room].born = @ + 1]
      PROVE  TypeOK'
  <2>1. [c EXCEPT !.step = "record", !.participant = x] \in Calls
    BY <1>1 DEF Calls, Steps
  <2>2. call' \in [Worker -> Calls \cup {Idle}]
    BY <2>1, <1>4 DEF TypeOK
  <2>3. room[c.room] \in Row
    BY <1>4, <1>2 DEF Joinable, Exists, TypeOK
  <2>4. room' \in [Room -> Row \cup {None}]
    <3> DEFINE r == room[c.room]
               admitted == [r EXCEPT !.member[c.player] = r.born + 1, !.born = @ + 1]
    <3>1. r.born + 1 \in Nat
      BY <2>3 DEF Row
    <3>2. [r.member EXCEPT ![c.player] = r.born + 1] \in [Player -> Nat \cup {None}]
      BY <2>3, <3>1 DEF Row
    <3>3. admitted = [r EXCEPT !.member = [r.member EXCEPT ![c.player] = r.born + 1],
                               !.born = r.born + 1]
      BY <2>3 DEF Row
    <3>4. admitted \in Row
      BY <2>3, <3>1, <3>2, <3>3 DEF Row
    <3>5. UNCHANGED room \/ room' = [room EXCEPT ![c.room] = admitted]
      BY <1>4, <1>2 DEF TypeOK
    <3> QED
      BY <3>4, <3>5 DEF TypeOK
  <2> QED
    BY <2>2, <2>4, <1>4 DEF Admit, TypeOK, asking, Unanswered
<1>5. CASE Joinable(c) /\ room[c.room].member[c.player] # None
           /\ call' = [call EXCEPT ![w].step = "record", ![w].participant = room[c.room].member[c.player]]
           /\ Unanswered /\ UNCHANGED room
  <2>1. room[c.room] \in Row
    BY <1>5, <1>2 DEF Joinable, Exists, TypeOK
  <2>2. room[c.room].member[c.player] \in Nat
    BY <2>1, <1>2, <1>5 DEF Row
  <2> QED
    BY <2>2, <1>5, <1>4
<1>6. CASE /\ Joinable(c)
           /\ room' = [room EXCEPT ![c.room].member[c.player] = room[c.room].born + 1,
                                   ![c.room].born = @ + 1]
           /\ call' = [call EXCEPT ![w].step = "record", ![w].participant = room[c.room].born + 1]
           /\ Unanswered
  <2>1. room[c.room] \in Row
    BY <1>6, <1>2 DEF Joinable, Exists, TypeOK
  <2>2. room[c.room].born + 1 \in Nat
    BY <2>1 DEF Row
  <2> QED
    BY <2>2, <1>6, <1>4
<1> QED
  BY <1>3, <1>5, <1>6 DEF Admit

LEMMA WithoutType ==
  ASSUME TypeOK, NEW k \in Room, Exists(k), NEW p
  PROVE  Without(k, p) \in Row /\ [room EXCEPT ![k] = Without(k, p)] \in [Room -> Row \cup {None}]
<1>1. room[k] \in Row
  BY DEF Exists, TypeOK
<1>2. Without(k, p) \in Row
  BY <1>1 DEF Without, Row
<1> QED
  BY <1>2 DEF TypeOK

LEMMA DepartType ==
  ASSUME TypeOK, CallsKeepShape, NEW w \in Worker, Depart(w)
  PROVE  TypeOK'
<1> DEFINE c == call[w]
           found == stored[c.room][KeyOf(c)]
           left == [command |-> "leave", payload |-> c.payload, participant |-> c.payload,
                    code |-> None]
<1>1. w \in Active /\ c \in Calls /\ c.step = "depart"
  BY ActiveCalls DEF Depart
<1>2. c.command = "leave" /\ c.participant = None /\ c.room \in Room /\ c.payload \in Nat
      /\ KeyOf(c) \in Key
  BY <1>1, KeyOfCall DEF CallsKeepShape, CreateShape, JoinShape, LeaveShape, Calls, Commands
<1>3. CASE Refuse(w) /\ UNCHANGED <<room, stored>>
  BY <1>3, <1>1, <1>2, RefuseType DEF Depart, TypeOK, asking
<1>4. CASE found # None /\ Answer(w, found.participant, None) /\ UNCHANGED <<room, stored>>
  <2>1. found.participant \in Nat
    BY <1>4, <1>2 DEF TypeOK, Outcome
  <2> QED
    BY <2>1, <1>4, <1>1, <1>2, AnswerType DEF Depart, TypeOK, asking
<1>5. CASE /\ Leavable(c)
           /\ room' = [room EXCEPT ![c.room] = Without(c.room, c.player)]
           /\ stored' = [stored EXCEPT ![c.room][KeyOf(c)] = left]
           /\ Answer(w, c.payload, None)
  <2>1. left \in Outcome
    BY <1>2 DEF Outcome
  <2>2. stored' \in [Room -> [Key -> Outcome \cup {None}]]
    <3> HIDE DEF left
    <3> QED
      BY <2>1, <1>2, <1>5, StoredType
  <2>3. room' \in [Room -> Row \cup {None}]
    BY <1>5, <1>2, WithoutType DEF Leavable
  <2> QED
    BY <2>2, <2>3, <1>5, <1>1, <1>2, AnswerType DEF Depart, TypeOK, asking
<1> QED
  BY <1>3, <1>4, <1>5 DEF Depart

LEMMA GiveUpType ==
  ASSUME TypeOK, CallsKeepShape, NEW w \in Worker, GiveUp(w)
  PROVE  TypeOK'
<1>1. w \in Active /\ call[w] \in Calls
  BY ActiveCalls DEF GiveUp, Active
<1>2. call[w].participant # None => call[w].room \in Room
  <2>1. CASE call[w].command = "create"
    BY <2>1, <1>1 DEF CallsKeepShape, CreateShape
  <2>2. CASE call[w].command = "join"
    BY <2>2, <1>1 DEF CallsKeepShape, JoinShape
  <2>3. CASE call[w].command = "leave"
    BY <2>3, <1>1 DEF CallsKeepShape, LeaveShape
  <2> QED
    BY <2>1, <2>2, <2>3, <1>1 DEF Calls, Commands
<1>3. Losing(call[w].room, call[w].participant) \subseteq Room \X Nat
  BY <1>1, <1>2, LosingType DEF Calls
<1> QED
  BY <1>1, <1>3 DEF GiveUp, TypeOK, asking

LEMMA ForgettingType ==
  ASSUME TypeOK, NEW k \in Room,
         Delete(k) \/ \E r \in Key : Expire(k, r)
  PROVE  TypeOK'
<1>1. CASE Delete(k)
  <2>1. [r \in Key |-> None] \in [Key -> Outcome \cup {None}]
    OBVIOUS
  <2> QED
    BY <2>1, <1>1 DEF Delete, TypeOK, asking
<1>2. ASSUME NEW r \in Key, Expire(k, r) PROVE TypeOK'
  BY <1>2, StoredType DEF Expire, TypeOK, asking
<1> QED
  BY <1>1, <1>2

LEMMA RoomMovesType ==
  ASSUME TypeOK, NEW k \in Room,
         Transition(k) \/ \E p \in Player : Removed(k, p)
  PROVE  TypeOK'
<1>1. room' \in [Room -> Row \cup {None}]
  <2>1. CASE Transition(k)
    <3>1. room[k] \in Row
      BY <2>1 DEF Transition, Exists, TypeOK
    <3>2. PICK m \in Moves : room' = [room EXCEPT ![k].state = m[2]]
      BY <2>1 DEF Transition
    <3>3. m[2] \in {"waiting", "in_progress", "finished"}
      BY DEF Moves
    <3>4. [room[k] EXCEPT !.state = m[2]] \in Row
      BY <3>1, <3>3 DEF Row
    <3> QED
      BY <3>2, <3>4 DEF TypeOK
  <2>2. ASSUME NEW p \in Player, Removed(k, p) PROVE room' \in [Room -> Row \cup {None}]
    BY <2>2, WithoutType DEF Removed
  <2> QED
    BY <2>1, <2>2
<1> QED
  BY <1>1 DEF Transition, Removed, TypeOK, asking, history

LEMMA CallType ==
  ASSUME NEW s \in Steps, NEW cmd \in Commands, NEW p \in Player, NEW k \in Room \cup {None},
         NEW r \in Room \cup Request, NEW x \in Payload
  PROVE  Call(s, cmd, p, k, r, x) \in Calls
  BY DEF Call, Calls

LEMMA StartsType ==
  ASSUME TypeOK, AnswersKeepShape, NEW w \in Worker,
         \/ \E k \in Room, m \in Method : CreateCall(w, k, m)
         \/ \E r \in Request : LeaveCall(w, r) \/ \E p \in Player : JoinCall(w, p, r)
  PROVE  TypeOK'
<1>1. ASSUME NEW k \in Room, NEW m \in Method, CreateCall(w, k, m) PROVE TypeOK'
  <2> DEFINE c == Call("look", "create", Founder, k, k, m)
  <2>1. c \in Calls
    BY CallType, RoomGatewayAssumption DEF Steps, Commands, Payload
  <2>2. c.command = "create" => c.room \in Room /\ c.payload \in Method
    BY DEF Call
  <2>3. Start(w, c)
    BY <1>1 DEF CreateCall
  <2> HIDE DEF c
  <2> QED
    BY <2>1, <2>2, <2>3, StartType
<1>2. ASSUME NEW r \in Request, LeaveCall(w, r) PROVE TypeOK'
  <2>1. PICK a \in answers : Start(w, Call("look", "leave", a.player, a.room, r, a.participant))
    BY <1>2 DEF LeaveCall
  <2> DEFINE c == Call("look", "leave", a.player, a.room, r, a.participant)
  <2>2. a.player \in Player /\ a.room \in Room /\ a.participant \in Payload
    BY DEF TypeOK, Answers, AnswersKeepShape, Payload
  <2>3. c \in Calls
    BY <2>2, CallType DEF Steps, Commands
  <2>4. c.command = "leave"
    BY DEF Call
  <2> HIDE DEF c
  <2> QED
    BY <2>1, <2>3, <2>4, StartType DEF c
<1>3. ASSUME NEW r \in Request, NEW p \in Player, JoinCall(w, p, r) PROVE TypeOK'
  <2>1. PICK a \in answers :
          \/ Start(w, Call("look", "join", p, a.room, r, None))
          \/ a.code # None /\ Start(w, Call("resolve", "join", p, None, r, a.code))
    BY <1>3 DEF JoinCall
  <2>2. a.room \in Room /\ a.code \in Payload
    BY DEF TypeOK, Answers, Payload
  <2>3. /\ Call("look", "join", p, a.room, r, None) \in Calls
        /\ Call("resolve", "join", p, None, r, a.code) \in Calls
    BY <2>2, CallType DEF Steps, Commands, Payload
  <2>4. /\ Call("look", "join", p, a.room, r, None).command = "join"
        /\ Call("resolve", "join", p, None, r, a.code).command = "join"
    BY DEF Call
  <2>5. CASE Start(w, Call("look", "join", p, a.room, r, None))
    <3> DEFINE c == Call("look", "join", p, a.room, r, None)
    <3>1. Start(w, c) /\ c \in Calls /\ c.command = "join"
      BY <2>5, <2>3, <2>4
    <3> HIDE DEF c
    <3> QED
      BY <3>1, StartType
  <2>6. CASE Start(w, Call("resolve", "join", p, None, r, a.code))
    <3> DEFINE c == Call("resolve", "join", p, None, r, a.code)
    <3>1. Start(w, c) /\ c \in Calls /\ c.command = "join"
      BY <2>6, <2>3, <2>4
    <3> HIDE DEF c
    <3> QED
      BY <3>1, StartType
  <2> QED
    BY <2>1, <2>5, <2>6
<1> QED
  BY <1>1, <1>2, <1>3

\* The steps of a handler, and those of anything else.
Handles(w) ==
  \/ Look(w) \/ Record(w) \/ Initialize(w) \/ Register(w)
  \/ Resolve(w) \/ Admit(w) \/ Depart(w) \/ GiveUp(w)

Begins(w) ==
  \/ \E k \in Room, m \in Method : CreateCall(w, k, m)
  \/ \E r \in Request : LeaveCall(w, r) \/ \E p \in Player : JoinCall(w, p, r)

RoomGoesOn(k) ==
  \/ Transition(k) \/ Delete(k)
  \/ \E r \in Key : Expire(k, r)
  \/ \E p \in Player : Removed(k, p)

LEMMA NextCases ==
  ASSUME Next
  PROVE  \/ \E w \in Worker : Begins(w) \/ Handles(w)
         \/ \E k \in Room : RoomGoesOn(k)
  BY DEF Next, Begins, Handles, RoomGoesOn

LEMMA TypeStep ==
  ASSUME TypeOK, CallsKeepShape, OutcomesKeepShape, AnswersKeepShape, [Next]_vars
  PROVE  TypeOK'
<1>1. ASSUME NEW w \in Worker, Begins(w) PROVE TypeOK'
  BY <1>1, StartsType DEF Begins
<1>2. ASSUME NEW w \in Worker, Handles(w) PROVE TypeOK'
  BY <1>2, LookType, RecordType, InitializeType, RegisterType, ResolveType, AdmitType,
     DepartType, GiveUpType DEF Handles
<1>3. ASSUME NEW k \in Room, RoomGoesOn(k) PROVE TypeOK'
  BY <1>3, ForgettingType, RoomMovesType DEF RoomGoesOn
<1>4. CASE UNCHANGED vars
  BY <1>4 DEF vars, asking, history, TypeOK
<1> QED
  BY <1>1, <1>2, <1>3, <1>4, NextCases
-----------------------------------------------------------------------------
(* What a handler holds *)

\* What a step adds to the history stays, and so does a row in the table of invitations.
Grows ==
  /\ asked \subseteq asked' /\ doubled \subseteq doubled'
  /\ answers \subseteq answers' /\ deleted \subseteq deleted' /\ forgotten \subseteq forgotten'
  /\ lost \subseteq lost' /\ refused \subseteq refused'
  /\ \A c \in Code : invite[c] # None => invite'[c] = invite[c]

LEMMA StepGrows == ASSUME TypeOK, [Next]_vars PROVE Grows
<1> USE DEF asking, history, Grows
<1>1. ASSUME NEW w, NEW c, Start(w, c) PROVE Grows
  BY <1>1 DEF Start
<1>2. ASSUME NEW w \in Worker, Begins(w) PROVE Grows
  BY <1>2, <1>1 DEF Begins, CreateCall, LeaveCall, JoinCall
<1>3. ASSUME NEW w \in Worker, Handles(w) PROVE Grows
  <2>1. CASE Register(w)
    <3>1. answers \subseteq answers' /\ lost \subseteq lost' /\ refused \subseteq refused'
      BY <2>1 DEF Register, Answer, Refuse, Losing, Unanswered
    <3>2. \A c \in Code : invite[c] # None => invite'[c] = invite[c]
      BY <2>1 DEF Register, TypeOK
    <3> QED
      BY <3>1, <3>2, <2>1 DEF Register
  <2>2. CASE Look(w)
    BY <2>2 DEF Look, Answer, Refuse, Losing, Unanswered
  <2>3. CASE Record(w)
    BY <2>3 DEF Record, Answer, Refuse, Losing, Unanswered
  <2>4. CASE Initialize(w)
    BY <2>4 DEF Initialize
  <2>5. CASE Resolve(w) \/ Admit(w) \/ Depart(w)
    BY <2>5 DEF Resolve, Admit, Depart, Answer, Refuse, Losing, Unanswered
  <2>6. CASE GiveUp(w)
    BY <2>6 DEF GiveUp, Losing
  <2> QED
    BY <1>3, <2>1, <2>2, <2>3, <2>4, <2>5, <2>6 DEF Handles
<1>4. ASSUME NEW k \in Room, RoomGoesOn(k) PROVE Grows
  BY <1>4 DEF RoomGoesOn, Transition, Delete, Expire, Removed
<1>5. CASE UNCHANGED vars
  BY <1>5 DEF vars
<1> QED
  BY <1>2, <1>3, <1>4, <1>5, NextCases

\* The shape of what one call holds.
Shaped(c) ==
  /\ c.command = "create" => CreateShape(c)
  /\ c.command = "join" => JoinShape(c)
  /\ c.command = "leave" => LeaveShape(c)

LEMMA ShapeStays ==
  ASSUME TypeOK, CallsKeepShape, Grows, NEW v \in Active, call'[v] = call[v]
  PROVE  Shaped(call[v])'
<1>1. CASE call[v].command = "create"
  <2>1. CreateShape(call[v])
    BY <1>1, CreatingShape
  <2>2. CreateShape(call[v])'
    BY <2>1, NoneApart DEF CreateShape, Grows
  <2> QED
    BY <2>2, <1>1 DEF Shaped
<1>2. CASE call[v].command = "join"
  BY <1>2, JoiningShape DEF JoinShape, Shaped
<1>3. CASE call[v].command = "leave"
  BY <1>3, LeavingShape DEF LeaveShape, Shaped
<1> QED
  BY <1>1, <1>2, <1>3 DEF Shaped

\* A new call and one that moves on have their shape again.
LEMMA ShapeOfStart ==
  ASSUME TypeOK, AnswersKeepShape, NEW w \in Worker, Begins(w)
  PROVE  /\ Shaped(call[w])'
         /\ \A v \in Worker \ {w} : call'[v] = call[v]
<1>1. ASSUME NEW k \in Room, NEW m \in Method, CreateCall(w, k, m)
      PROVE  Shaped(call[w])' /\ \A v \in Worker \ {w} : call'[v] = call[v]
  BY <1>1, RoomGatewayAssumption
     DEF CreateCall, Start, Call, TypeOK, Shaped, CreateShape, JoinShape, LeaveShape
<1>2. ASSUME NEW r \in Request, LeaveCall(w, r)
      PROVE  Shaped(call[w])' /\ \A v \in Worker \ {w} : call'[v] = call[v]
  <2>1. PICK a \in answers : Start(w, Call("look", "leave", a.player, a.room, r, a.participant))
    BY <1>2 DEF LeaveCall
  <2>2. a.room \in Room /\ a.participant \in Nat
    BY DEF TypeOK, Answers, AnswersKeepShape
  <2> QED
    BY <2>1, <2>2 DEF Start, Call, TypeOK, Shaped, CreateShape, JoinShape, LeaveShape
<1>3. ASSUME NEW r \in Request, NEW p \in Player, JoinCall(w, p, r)
      PROVE  Shaped(call[w])' /\ \A v \in Worker \ {w} : call'[v] = call[v]
  <2>1. PICK a \in answers :
          \/ Start(w, Call("look", "join", p, a.room, r, None))
          \/ a.code # None /\ Start(w, Call("resolve", "join", p, None, r, a.code))
    BY <1>3 DEF JoinCall
  <2>2. a.room \in Room /\ a.code \in Code \cup {None}
    BY DEF TypeOK, Answers
  <2> QED
    BY <2>1, <2>2 DEF Start, Call, TypeOK, Shaped, CreateShape, JoinShape, LeaveShape
<1> QED
  BY <1>1, <1>2, <1>3 DEF Begins

\* What a handler does to the calls: it ends its own, or moves it on.
Ends(w) == call' = [call EXCEPT ![w] = Idle]

LEMMA EndsShape ==
  ASSUME TypeOK, NEW w \in Worker, Ends(w)
  PROVE  w \notin Active' /\ \A v \in Worker \ {w} : call'[v] = call[v]
  BY DEF Ends, TypeOK, Active, Idle

\* The stored result of a creation that is restored.
LEMMA FoundCreation ==
  ASSUME TypeOK, CallsKeepShape, OutcomesKeepShape, NEW w \in Active, call[w].room \in Room,
         stored[call[w].room][KeyOf(call[w])] # None,
         SameInput(stored[call[w].room][KeyOf(call[w])], call[w])
  PROVE  LET c == call[w]
             found == stored[c.room][KeyOf(c)] IN
         /\ c.command = "create" => KeyOf(c) = CreateKey /\ CreationOf(c.room, found)
         /\ c.command # "create" => found.code = None
         /\ found.command = c.command /\ found.payload = c.payload
         /\ found \in Outcome
<1> DEFINE c == call[w]
           found == stored[c.room][KeyOf(c)]
<1>1. KeyOf(c) \in Key /\ (KeyOf(c) = CreateKey <=> c.command = "create")
  BY KeyOfCall
<1>2. found \in Outcome
  BY <1>1 DEF TypeOK
<1>3. IF KeyOf(c) = CreateKey THEN found.command = "create" /\ CreationOf(c.room, found)
      ELSE found.command \in {"join", "leave"} /\ found.code = None
  BY <1>1 DEF OutcomesKeepShape
<1> QED
  BY <1>1, <1>2, <1>3 DEF SameInput

LEMMA LookShape ==
  ASSUME TypeOK, CallsKeepShape, OutcomesKeepShape, Grows, NEW w \in Worker, Look(w)
  PROVE  /\ w \in Active' => Shaped(call[w])'
         /\ \A v \in Worker \ {w} : call'[v] = call[v]
<1> DEFINE c == call[w]
           found == stored[c.room][KeyOf(c)]
<1>1. w \in Active /\ c \in Calls /\ c.step = "look"
  BY ActiveCalls DEF Look
<1>2. Lookup(c.room, KeyOf(c)) = found
  BY DEF Lookup
<1>3. CASE Ends(w)
  BY <1>3, EndsShape
<1>4. CASE Goto(w, CASE c.command = "create" -> "initialize"
                     [] c.command = "join" -> "admit"
                     [] c.command = "leave" -> "depart")
  <2>1. call'[w] = [c EXCEPT !.step = CASE c.command = "create" -> "initialize"
                                       [] c.command = "join" -> "admit"
                                       [] c.command = "leave" -> "depart"]
    BY <1>4 DEF Goto, TypeOK
  <2>2. CASE c.command = "create"
    <3>1. CreateShape(c)
      BY <2>2, <1>1, CreatingShape
    <3>2. call'[w] = [c EXCEPT !.step = "initialize"]
      BY <2>1, <2>2
    <3>3. Shaped(call[w])'
      BY <3>1, <3>2, <2>2, <1>1 DEF Shaped, CreateShape, Calls, Grows
    <3> QED
      BY <3>3, <1>4 DEF Goto
  <2>3. CASE c.command = "join"
    <3>1. JoinShape(c)
      BY <2>3, <1>1, JoiningShape
    <3>2. call'[w] = [c EXCEPT !.step = "admit"]
      BY <2>1, <2>3
    <3>3. Shaped(call[w])'
      BY <3>1, <3>2, <2>3, <1>1 DEF Shaped, JoinShape, Calls
    <3> QED
      BY <3>3, <1>4 DEF Goto
  <2>4. CASE c.command = "leave"
    <3>1. LeaveShape(c)
      BY <2>4, <1>1, LeavingShape
    <3>2. call'[w] = [c EXCEPT !.step = "depart"]
      BY <2>1, <2>4
    <3>3. Shaped(call[w])'
      BY <3>1, <3>2, <2>4, <1>1 DEF Shaped, LeaveShape, Calls
    <3> QED
      BY <3>3, <1>4 DEF Goto
  <2> QED
    BY <2>2, <2>3, <2>4, <1>1, <1>4 DEF Calls, Commands, Goto
<1>5. CASE /\ found # None
           /\ SameInput(found, c)
           /\ found.code # None
           /\ call' = [call EXCEPT ![w].step = "restore", ![w].code = found.code,
                                   ![w].participant = found.participant]
  <2>1. c.room \in Room
    BY <1>1 DEF CallsKeepShape, CreateShape, JoinShape, LeaveShape, Calls, Commands
  <2>2. c.command = "create" /\ CreationOf(c.room, found) /\ found.payload = c.payload
    BY <2>1, <1>1, <1>5, FoundCreation
  <2>3. CreateShape(c)
    BY <2>2, <1>1, CreatingShape
  <2>4. c.payload = Invitation /\ found.code \in Code /\ invite[found.code] = c.room
    BY <2>2, <1>5 DEF CreationOf
  <2>5. invite'[found.code] = c.room
    BY <2>1, <2>4, NoneApart DEF Grows
  <2>6. call'[w] = [c EXCEPT !.step = "restore", !.code = found.code, !.participant = HostId]
    BY <1>5, <2>2 DEF TypeOK, CreationOf
  <2> QED
    BY <2>2, <2>3, <2>4, <2>5, <2>6, <1>1, <1>5 DEF Shaped, CreateShape, Calls, Grows, TypeOK
<1> QED
  BY <1>2, <1>3, <1>4, <1>5 DEF Look, Answer, Refuse, Ends

LEMMA InitializeShape ==
  ASSUME TypeOK, CallsKeepShape, Grows, NEW w \in Worker, Initialize(w)
  PROVE  /\ Shaped(call[w])'
         /\ \A v \in Worker \ {w} : call'[v] = call[v]
<1> DEFINE c == call[w]
<1>1. w \in Active /\ c \in Calls /\ c.step = "initialize"
  BY ActiveCalls DEF Initialize
<1>2. c.command = "create" /\ CreateShape(c)
  BY <1>1, CommandOfStep, CreatingShape
<1>3. PICK drawn \in Drawn :
        LET snapshot == IF Exists(c.room) THEN room[c.room] ELSE NewRoom(c.payload, drawn) IN
        call' = [call EXCEPT
             ![w].step = IF c.payload = Invitation THEN "register" ELSE "record",
             ![w].code = AnswerCode(c, snapshot),
             ![w].participant = HostId]
  BY DEF Initialize
<1> DEFINE snapshot == IF Exists(c.room) THEN room[c.room] ELSE NewRoom(c.payload, drawn)
<1>4. snapshot.code \in Code
  BY <1>2 DEF Drawn, Exists, NewRoom, TypeOK, CreateShape, Row
<1>5. call'[w] = [c EXCEPT !.step = IF c.payload = Invitation THEN "register" ELSE "record",
                           !.code = IF c.payload = Invitation THEN snapshot.code ELSE None,
                           !.participant = HostId]
  BY <1>3 DEF TypeOK, AnswerCode
<1> HIDE DEF snapshot
<1>6. CreateShape(call[w])'
  <2>1. CASE c.payload = Invitation
    BY <2>1, <1>1, <1>2, <1>4, <1>5 DEF CreateShape, Calls, Grows
  <2>2. CASE c.payload # Invitation
    BY <2>2, <1>1, <1>2, <1>5 DEF CreateShape, Calls, Grows
  <2> QED
    BY <2>1, <2>2
<1>7. (call[w].command)' = "create"
  BY <1>1, <1>2, <1>5 DEF Calls
<1> QED
  BY <1>3, <1>6, <1>7 DEF Shaped, TypeOK

LEMMA RegisterShape ==
  ASSUME TypeOK, CallsKeepShape, Grows, NEW w \in Worker, Register(w)
  PROVE  /\ w \in Active' => Shaped(call[w])'
         /\ \A v \in Worker \ {w} : call'[v] = call[v]
<1> DEFINE c == call[w]
<1>1. w \in Active /\ c \in Calls /\ c.step \in {"register", "restore"}
  BY ActiveCalls DEF Register
<1>2. c.command = "create" /\ CreateShape(c)
  BY <1>1, CommandOfStep, CreatingShape
<1>3. CASE Ends(w)
  BY <1>3, EndsShape
<1>4. CASE OwnRow(c.code, c.room) /\ Goto(w, "record")
  <2>1. call'[w] = [c EXCEPT !.step = "record"]
    BY <1>4 DEF Goto, TypeOK
  <2>2. invite'[c.code] = c.room
    BY <1>4 DEF OwnRow
  <2>3. CreateShape(call[w])'
    BY <2>1, <2>2, <1>1, <1>2 DEF CreateShape, Calls, Grows
  <2> QED
    BY <2>1, <2>3, <1>1, <1>2, <1>4 DEF Shaped, Goto, TypeOK, Calls
<1> QED
  BY <1>3, <1>4 DEF Register, Answer, Refuse, Ends

LEMMA ResolveShape ==
  ASSUME TypeOK, CallsKeepShape, NEW w \in Worker, Resolve(w)
  PROVE  /\ w \in Active' => Shaped(call[w])'
         /\ \A v \in Worker \ {w} : call'[v] = call[v]
<1> DEFINE c == call[w]
<1>1. w \in Active /\ c \in Calls /\ c.step = "resolve"
  BY ActiveCalls DEF Resolve
<1>2. c.command = "join" /\ JoinShape(c)
  BY <1>1, CommandOfStep, JoiningShape
<1>3. CASE Ends(w)
  BY <1>3, EndsShape
<1>4. CASE invite[c.payload] # None
           /\ call' = [call EXCEPT ![w].step = "look", ![w].room = invite[c.payload]]
  <2>1. call'[w] = [c EXCEPT !.step = "look", !.room = invite[c.payload]]
    BY <1>4 DEF TypeOK
  <2>2. invite[c.payload] \in Room
    BY <1>1, <1>2, <1>4 DEF JoinShape, TypeOK
  <2>3. JoinShape(call[w])' /\ (call[w].command)' = "join"
    BY <2>1, <2>2, <1>1, <1>2 DEF JoinShape, Calls
  <2> QED
    BY <2>3, <1>4 DEF Shaped, TypeOK
<1> QED
  BY <1>3, <1>4 DEF Resolve, Refuse, Ends

LEMMA AdmitShape ==
  ASSUME TypeOK, CallsKeepShape, NEW w \in Worker, Admit(w)
  PROVE  /\ w \in Active' => Shaped(call[w])'
         /\ \A v \in Worker \ {w} : call'[v] = call[v]
<1> DEFINE c == call[w]
<1>1. w \in Active /\ c \in Calls /\ c.step = "admit"
  BY ActiveCalls DEF Admit
<1>2. c.command = "join" /\ JoinShape(c) /\ c.player \in Player /\ c.room \in Room
  BY <1>1, CommandOfStep, JoiningShape DEF JoinShape, Calls
<1>3. CASE Ends(w)
  BY <1>3, EndsShape
<1>4. ASSUME NEW x \in Nat, call' = [call EXCEPT ![w].step = "record", ![w].participant = x]
      PROVE  /\ Shaped(call[w])'
             /\ \A v \in Worker \ {w} : call'[v] = call[v]
  <2>1. call'[w] = [c EXCEPT !.step = "record", !.participant = x]
    BY <1>4 DEF TypeOK
  <2>2. JoinShape(call[w])' /\ (call[w].command)' = "join"
    BY <2>1, <1>1, <1>2 DEF JoinShape, Calls
  <2> QED
    BY <2>2, <1>4 DEF Shaped, TypeOK
<1>5. Joinable(c) => room[c.room].born + 1 \in Nat
                     /\ room[c.room].member[c.player] \in Nat \cup {None}
  BY <1>2 DEF Joinable, Exists, TypeOK, Row
<1> QED
  BY <1>3, <1>4, <1>5 DEF Admit, Refuse, Ends

LEMMA CallsShapeStep ==
  ASSUME TypeOK, CallsKeepShape, OutcomesKeepShape, AnswersKeepShape, [Next]_vars
  PROVE  CallsKeepShape'
<1>1. Grows
  BY StepGrows
<1>2. ASSUME NEW w \in Worker, w \in Active' => Shaped(call[w])',
             \A v \in Worker \ {w} : call'[v] = call[v]
      PROVE  CallsKeepShape'
  <2>1. ASSUME NEW v \in Active' PROVE Shaped(call[v])'
    <3>1. CASE v = w
      BY <3>1, <1>2, <2>1
    <3>2. CASE v # w
      <4>1. call'[v] = call[v] /\ v \in Active
        BY <3>2, <1>2, <2>1 DEF Active
      <4> QED
        BY <4>1, <1>1, ShapeStays
    <3> QED
      BY <3>1, <3>2
  <2> QED
    BY <2>1 DEF Shaped, CallsKeepShape
<1>3. ASSUME NEW w \in Worker, Begins(w) PROVE CallsKeepShape'
  BY <1>3, <1>2, ShapeOfStart
<1>4. ASSUME NEW w \in Worker, Handles(w) PROVE CallsKeepShape'
  <2>1. CASE Ends(w)
    BY <2>1, <1>2, EndsShape
  <2>2. CASE Record(w) \/ Depart(w) \/ GiveUp(w)
    BY <2>1, <2>2 DEF Record, Depart, GiveUp, Answer, Refuse, Ends
  <2> QED
    BY <1>1, <1>2, <1>4, <2>2, LookShape, InitializeShape, RegisterShape, ResolveShape, AdmitShape
       DEF Handles
<1>5. CASE UNCHANGED call
  <2>1. ASSUME NEW v \in Active' PROVE Shaped(call[v])'
    BY <2>1, <1>1, <1>5, ShapeStays DEF Active
  <2> QED
    BY <2>1 DEF Shaped, CallsKeepShape
<1>6. ASSUME NEW k \in Room, RoomGoesOn(k) PROVE UNCHANGED call
  BY <1>6 DEF RoomGoesOn, Transition, Delete, Expire, Removed
<1> QED
  BY <1>3, <1>4, <1>5, <1>6, NextCases DEF vars
-----------------------------------------------------------------------------
(* Stored results and answers *)

LEMMA CreationStays ==
  ASSUME Grows, NEW k \in Room, NEW x, CreationOf(k, x)
  PROVE  CreationOf(k, x)'
  BY NoneApart DEF CreationOf, Grows

\* A result stays until it is forgotten.
LEMMA StoredStays ==
  ASSUME TypeOK, CallsKeepShape, [Next]_vars, NEW k \in Room, NEW r \in Key, stored[k][r] # None
  PROVE  stored'[k][r] = stored[k][r] \/ Forgotten(k, r)'
<1>1. ASSUME NEW w \in Worker, Begins(w) PROVE UNCHANGED stored
  BY <1>1 DEF Begins, CreateCall, LeaveCall, JoinCall, Start
<1>2. ASSUME NEW w \in Worker, Handles(w) PROVE stored'[k][r] = stored[k][r]
  <2>1. CASE Record(w)
    <3> DEFINE c == call[w]
    <3>1. UNCHANGED stored \/ (stored[c.room][KeyOf(c)] = None
                               /\ stored' = [stored EXCEPT ![c.room][KeyOf(c)] = Result(c)])
      BY <2>1 DEF Record
    <3> QED
      BY <3>1 DEF TypeOK
  <2>2. CASE Depart(w)
    <3> DEFINE c == call[w]
               left == [command |-> "leave", payload |-> c.payload, participant |-> c.payload,
                        code |-> None]
    <3>1. UNCHANGED stored \/ (stored[c.room][KeyOf(c)] = None
                               /\ stored' = [stored EXCEPT ![c.room][KeyOf(c)] = left])
      BY <2>2 DEF Depart
    <3> HIDE DEF left
    <3> QED
      BY <3>1 DEF TypeOK
  <2> QED
    BY <1>2, <2>1, <2>2 DEF Handles, Look, Initialize, Register, Resolve, Admit, GiveUp
<1>3. ASSUME NEW q \in Room, RoomGoesOn(q)
      PROVE  stored'[k][r] = stored[k][r] \/ Forgotten(k, r)'
  <2>1. CASE Delete(q)
    BY <2>1 DEF Delete, Forgotten, TypeOK
  <2>2. ASSUME NEW s \in Key, Expire(q, s)
        PROVE  stored'[k][r] = stored[k][r] \/ Forgotten(k, r)'
    BY <2>2 DEF Expire, Forgotten, TypeOK
  <2> QED
    BY <1>3, <2>1, <2>2 DEF RoomGoesOn, Transition, Removed
<1> QED
  BY <1>1, <1>2, <1>3, NextCases DEF vars

\* The result that a handler stores.
LEMMA RecordedShape ==
  ASSUME TypeOK, CallsKeepShape, NEW w \in Active, call[w].step = "record"
  PROVE  LET c == call[w] IN
         /\ c.room \in Room /\ c.participant \in Nat
         /\ c.command = "create" => CreationOf(c.room, Result(c)) /\ KeyOf(c) = CreateKey
         /\ c.command # "create" => c.command = "join" /\ c.code = None /\ KeyOf(c) # CreateKey
<1> DEFINE c == call[w]
<1>1. c.command \in {"create", "join"} /\ (KeyOf(c) = CreateKey <=> c.command = "create")
  BY CommandOfStep, KeyOfCall
<1>2. CASE c.command = "create"
  <2>1. CreateShape(c)
    BY <1>2, CreatingShape
  <2> QED
    BY <2>1, <1>1, <1>2 DEF CreateShape, CreationOf, Result, HostId
<1>3. CASE c.command = "join"
  <2>1. JoinShape(c)
    BY <1>3, JoiningShape
  <2> QED
    BY <2>1, <1>1, <1>3 DEF JoinShape
<1> QED
  BY <1>1, <1>2, <1>3

LEMMA OutcomesShapeStep ==
  ASSUME TypeOK, CallsKeepShape, OutcomesKeepShape, AnswersKeepShape, [Next]_vars
  PROVE  OutcomesKeepShape'
<1> DEFINE Good(k, r, x) == IF r = CreateKey THEN x.command = "create" /\ CreationOf(k, x)
                            ELSE x.command \in {"join", "leave"} /\ x.code = None
<1>0. Grows /\ TypeOK'
  BY StepGrows, TypeStep
<1> SUFFICES ASSUME NEW k \in Room, NEW r \in Key, stored'[k][r] # None
             PROVE  Good(k, r, stored[k][r])'
  BY DEF OutcomesKeepShape
<1>1. CASE stored'[k][r] = stored[k][r]
  <2>1. Good(k, r, stored[k][r])
    BY <1>1 DEF OutcomesKeepShape
  <2>2. CreationOf(k, stored[k][r]) => CreationOf(k, stored[k][r])'
    BY <1>1, <1>0, CreationStays
  <2> QED
    BY <2>1, <2>2, <1>1
<1>2. CASE stored'[k][r] # stored[k][r]
  <2>1. ASSUME NEW w \in Worker, Record(w) PROVE Good(k, r, stored[k][r])'
    <3> DEFINE c == call[w]
    <3>1. w \in Active /\ c \in Calls /\ c.step = "record"
      BY <2>1, ActiveCalls DEF Record
    <3>2. k = c.room /\ r = KeyOf(c) /\ stored'[k][r] = Result(c)
      BY <2>1, <1>2, <3>1 DEF Record, TypeOK
    <3>3. Result(c).command = c.command /\ Result(c).code = c.code
      BY DEF Result
    <3>4. /\ c.command = "create" => CreationOf(k, Result(c)) /\ r = CreateKey
          /\ c.command # "create" => c.command = "join" /\ c.code = None /\ r # CreateKey
      BY <3>1, <3>2, RecordedShape
    <3>5. c.command = "create" => CreationOf(k, stored[k][r])'
      <4>1. \A x : CreationOf(k, x) => CreationOf(k, x)'
        BY <1>0, CreationStays
      <4> HIDE DEF c
      <4> QED
        BY <3>2, <3>4, <4>1 DEF CreationOf
    <3> QED
      BY <3>2, <3>3, <3>4, <3>5
  <2>2. ASSUME NEW w \in Worker, Depart(w) PROVE Good(k, r, stored[k][r])'
    <3> DEFINE c == call[w]
               left == [command |-> "leave", payload |-> c.payload, participant |-> c.payload,
                        code |-> None]
    <3>1. w \in Active /\ c \in Calls /\ c.step = "depart"
      BY <2>2, ActiveCalls DEF Depart
    <3>2. k = c.room /\ r = KeyOf(c) /\ stored'[k][r] = left
      BY <2>2, <1>2, <3>1 DEF Depart, TypeOK
    <3>3. r # CreateKey
      BY <3>1, <3>2, CommandOfStep, KeyOfCall
    <3> QED
      BY <3>2, <3>3
  <2>3. ASSUME NEW q \in Room, RoomGoesOn(q) PROVE FALSE
    BY <2>3, <1>2 DEF RoomGoesOn, Transition, Delete, Expire, Removed, TypeOK
  <2>4. ASSUME NEW w \in Worker, Begins(w) PROVE FALSE
    BY <2>4, <1>2 DEF Begins, CreateCall, LeaveCall, JoinCall, Start
  <2>5. ASSUME NEW w \in Worker, Handles(w) PROVE Good(k, r, stored[k][r])'
    BY <2>1, <2>2, <2>5, <1>2 DEF Handles, Look, Initialize, Register, Resolve, Admit, GiveUp
  <2> QED
    BY <2>3, <2>4, <2>5, <1>2, NextCases DEF vars
<1> QED
  BY <1>1, <1>2

\* What an answer is, and that it is stored until it is forgotten.
StoredAs(a) ==
  LET r == IF a.command = "create" THEN CreateKey ELSE <<a.player, a.request>>
      found == stored[a.room][r] IN
  \/ Forgotten(a.room, r)
  \/ found # None /\ found.command = a.command /\ found.payload = a.payload
                  /\ found.participant = a.participant

GoodAnswer(a) ==
  /\ a.participant \in Nat
  /\ a.command = "create" => CreationOf(a.room, a) /\ a.player = Founder
  /\ a.command # "create" => a.request \in Request /\ a.code = None
  /\ a.command \in {"create", "join"} => StoredAs(a)

LEMMA AnswersAreGood ==
  AnswersKeepShape /\ AnswersStored <=> \A a \in answers : GoodAnswer(a)
  BY DEF AnswersKeepShape, AnswersStored, GoodAnswer, StoredAs

\* The answer of one call.
LEMMA AnswerAdds ==
  ASSUME TypeOK, NEW w \in Worker, NEW x, NEW d, Answer(w, x, d), NEW a \in answers', a \notin answers
  PROVE  a = Seen(call[w], x, d)
  BY DEF Answer

LEMMA SeenFields ==
  ASSUME NEW c, NEW x, NEW d
  PROVE  LET a == Seen(c, x, d) IN
         /\ a.command = c.command /\ a.player = c.player /\ a.room = c.room
         /\ a.request = c.request /\ a.payload = c.payload /\ a.participant = x /\ a.code = d
  BY DEF Seen

\* The fields of the answer to a call decide whether it is a good one.
LEMMA GoodSeen ==
  ASSUME TypeOK, CallsKeepShape, NEW w \in Active, NEW a,
         a.command = call[w].command, a.player = call[w].player, a.room = call[w].room,
         a.request = call[w].request, a.participant \in Nat,
         call[w].command = "create" => CreationOf(a.room, a)',
         call[w].command # "create" => a.code = None,
         call[w].command \in {"create", "join"} =>
           \/ call[w].room \in deleted' \/ <<call[w].room, KeyOf(call[w])>> \in forgotten'
           \/ LET found == stored'[call[w].room][KeyOf(call[w])] IN
              found # None /\ found.command = a.command /\ found.payload = a.payload
                           /\ found.participant = a.participant
  PROVE  GoodAnswer(a)'
<1> DEFINE c == call[w]
<1>1. c.command \in Commands
  BY CommandOfStep
<1>2. CASE c.command = "create"
  <2>1. CreateShape(c) /\ KeyOf(c) = CreateKey
    BY <1>2, CreatingShape, KeyOfCall
  <2>2. StoredAs(a)'
    BY <2>1, <1>2 DEF StoredAs, Forgotten
  <2> QED
    BY <2>1, <2>2, <1>2 DEF GoodAnswer, CreateShape
<1>3. CASE c.command # "create"
  <2>1. KeyOf(c) = <<c.player, c.request>> /\ c.request \in Request
    BY <1>3, KeyOfCall
  <2>2. c.command = "join" => StoredAs(a)'
    BY <2>1, <1>3 DEF StoredAs, Forgotten
  <2> QED
    BY <2>1, <2>2, <1>1, <1>3 DEF GoodAnswer, Commands
<1> QED
  BY <1>2, <1>3

LEMMA LookAnswers ==
  ASSUME TypeOK, CallsKeepShape, OutcomesKeepShape, Grows, NEW w \in Worker, Look(w),
         NEW a \in answers', a \notin answers
  PROVE  GoodAnswer(a)'
<1> DEFINE c == call[w]
           found == stored[c.room][KeyOf(c)]
<1>1. w \in Active /\ c \in Calls /\ c.step = "look"
  BY ActiveCalls DEF Look
<1>2. c.room \in Room
  BY <1>1 DEF CallsKeepShape, CreateShape, JoinShape, LeaveShape, Calls, Commands
<1>3. /\ found # None /\ SameInput(found, c) /\ found.code = None
      /\ Answer(w, found.participant, None) /\ UNCHANGED stored
  BY DEF Look, Lookup, Goto, Unanswered, Refuse
<1>4. /\ c.command = "create" => KeyOf(c) = CreateKey /\ CreationOf(c.room, found)
      /\ found.command = c.command /\ found.payload = c.payload /\ found \in Outcome
  BY <1>1, <1>2, <1>3, FoundCreation
<1>5. a = Seen(c, found.participant, None)
  BY <1>3 DEF Answer
<1>6. /\ a.command = c.command /\ a.player = c.player /\ a.room = c.room
      /\ a.request = c.request /\ a.payload = c.payload /\ a.participant = found.participant
      /\ a.code = None
  BY <1>5 DEF Seen
<1>7. c.command = "create" => CreationOf(a.room, a)'
  BY <1>2, <1>3, <1>4, <1>6, NoneApart DEF CreationOf, Grows
<1>8. a.participant \in Nat
  BY <1>4, <1>6 DEF Outcome
<1>9. stored'[c.room][KeyOf(c)] = found
  BY <1>3
<1> QED
  BY <1>1, <1>3, <1>4, <1>6, <1>7, <1>8, <1>9, GoodSeen

LEMMA RecordAnswers ==
  ASSUME TypeOK, CallsKeepShape, OutcomesKeepShape, Grows, NEW w \in Worker, Record(w),
         NEW a \in answers', a \notin answers
  PROVE  GoodAnswer(a)'
<1> DEFINE c == call[w]
           found == stored[c.room][KeyOf(c)]
<1>1. w \in Active /\ c \in Calls /\ c.step = "record"
  BY ActiveCalls DEF Record
<1>2. /\ c.room \in Room /\ c.participant \in Nat
      /\ c.command = "create" => CreationOf(c.room, Result(c)) /\ KeyOf(c) = CreateKey
      /\ c.command # "create" => c.command = "join" /\ c.code = None /\ KeyOf(c) # CreateKey
      /\ KeyOf(c) \in Key
  BY <1>1, RecordedShape, KeyOfCall
<1>3. PICK x : /\ Answer(w, x.participant, x.code)
               /\ x.participant \in Nat
               /\ c.command = "create" => CreationOf(c.room, x)
               /\ c.command # "create" => x.code = None
               /\ x.command = c.command /\ x.payload = c.payload
               /\ stored'[c.room][KeyOf(c)] = x /\ x # None
  <2>1. CASE found = None /\ stored' = [stored EXCEPT ![c.room][KeyOf(c)] = Result(c)]
             /\ Answer(w, c.participant, c.code)
    <3>1. stored'[c.room][KeyOf(c)] = Result(c)
      BY <2>1, <1>2 DEF TypeOK
    <3>2. Result(c) # None
      BY <1>1, <1>2, ResultType, NoneApart
    <3>3. /\ Result(c).participant = c.participant /\ Result(c).code = c.code
          /\ Result(c).command = c.command /\ Result(c).payload = c.payload
      BY DEF Result
    <3> QED
      BY <3>1, <3>2, <3>3, <2>1, <1>2
  <2>2. CASE found # None /\ SameInput(found, c) /\ Answer(w, found.participant, found.code)
             /\ UNCHANGED stored
    <3>1. /\ c.command = "create" => KeyOf(c) = CreateKey /\ CreationOf(c.room, found)
          /\ c.command # "create" => found.code = None
          /\ found.command = c.command /\ found.payload = c.payload /\ found \in Outcome
      BY <2>2, <1>1, <1>2, FoundCreation
    <3>2. found.participant \in Nat
      BY <3>1 DEF Outcome
    <3> QED
      BY <3>1, <3>2, <2>2, <1>2
  <2>3. ~ Refuse(w)
    BY DEF Refuse
  <2> QED
    BY <2>1, <2>2, <2>3 DEF Record, FirstResult
<1>4. a = Seen(c, x.participant, x.code)
  BY <1>3 DEF Answer
<1>5. /\ a.command = c.command /\ a.player = c.player /\ a.room = c.room
      /\ a.request = c.request /\ a.payload = c.payload /\ a.participant = x.participant
      /\ a.code = x.code
  BY <1>4 DEF Seen
<1>6. c.command = "create" => CreationOf(a.room, a)'
  BY <1>2, <1>3, <1>5, NoneApart DEF CreationOf, Grows
<1> QED
  BY <1>1, <1>2, <1>3, <1>5, <1>6, GoodSeen

LEMMA RegisterAnswers ==
  ASSUME TypeOK, CallsKeepShape, OutcomesKeepShape, RestoringStored, Grows,
         NEW w \in Worker, Register(w), NEW a \in answers', a \notin answers
  PROVE  GoodAnswer(a)'
<1> DEFINE c == call[w]
           found == stored[c.room][CreateKey]
<1>1. w \in Active /\ c \in Calls /\ c.step \in {"register", "restore"}
  BY ActiveCalls DEF Register
<1>2. c.command = "create" /\ CreateShape(c) /\ KeyOf(c) = CreateKey
  BY <1>1, CommandOfStep, CreatingShape, KeyOfCall
<1>3. OwnRow(c.code, c.room) /\ c.step = "restore" /\ Answer(w, c.participant, c.code)
      /\ UNCHANGED <<stored, deleted, forgotten>>
  BY DEF Register, Goto, Unanswered, Refuse
<1>4. a = Seen(c, c.participant, c.code)
  BY <1>3 DEF Answer
<1>5. /\ a.command = c.command /\ a.player = c.player /\ a.room = c.room
      /\ a.request = c.request /\ a.payload = c.payload /\ a.participant = c.participant
      /\ a.code = c.code
  BY <1>4 DEF Seen
<1>6. CreationOf(a.room, a)' /\ a.participant \in Nat /\ a.participant = HostId
  BY <1>2, <1>3, <1>5 DEF CreationOf, CreateShape, OwnRow, Grows, HostId
<1>7. \/ Forgotten(c.room, CreateKey)
      \/ found # None /\ found.command = "create" /\ found.payload = c.payload
                      /\ found.participant = HostId
  <2>1. CASE found # None /\ found.payload = c.payload
    <3>1. found.command = "create" /\ CreationOf(c.room, found)
      BY <2>1, <1>2 DEF OutcomesKeepShape, CreateShape, Key
    <3> QED
      BY <3>1, <2>1 DEF CreationOf
  <2> QED
    BY <2>1, <1>1, <1>3 DEF RestoringStored
<1>8. stored'[c.room][CreateKey] = found
  BY <1>3
<1> QED
  BY <1>1, <1>2, <1>3, <1>5, <1>6, <1>7, <1>8, GoodSeen DEF Forgotten

LEMMA DepartAnswers ==
  ASSUME TypeOK, CallsKeepShape, NEW w \in Worker, Depart(w), NEW a \in answers', a \notin answers
  PROVE  GoodAnswer(a)'
<1> DEFINE c == call[w]
           found == stored[c.room][KeyOf(c)]
<1>1. w \in Active /\ c \in Calls /\ c.step = "depart"
  BY ActiveCalls DEF Depart
<1>2. c.command = "leave"
  BY <1>1, CommandOfStep
<1>3. LeaveShape(c) /\ KeyOf(c) \in Key
  BY <1>1, <1>2, LeavingShape, KeyOfCall
<1>4. PICK x \in Nat : Answer(w, x, None)
  <2>1. found # None => found.participant \in Nat
    BY <1>3 DEF TypeOK, Outcome, LeaveShape
  <2>2. c.payload \in Nat
    BY <1>3 DEF LeaveShape
  <2>3. ~ Refuse(w)
    BY DEF Refuse
  <2> QED
    BY <2>1, <2>2, <2>3 DEF Depart
<1>5. a = Seen(c, x, None)
  BY <1>4 DEF Answer
<1>6. /\ a.command = c.command /\ a.player = c.player /\ a.room = c.room
      /\ a.request = c.request /\ a.participant = x /\ a.code = None
  BY <1>5 DEF Seen
<1> QED
  BY <1>1, <1>2, <1>6, GoodSeen

LEMMA AnswersStep ==
  ASSUME TypeOK, CallsKeepShape, OutcomesKeepShape, AnswersKeepShape, AnswersStored,
         RestoringStored, [Next]_vars
  PROVE  AnswersKeepShape' /\ AnswersStored'
<1>1. Grows /\ TypeOK'
  BY StepGrows, TypeStep
<1>2. ASSUME NEW a \in answers PROVE GoodAnswer(a)'
  <2>1. GoodAnswer(a) /\ a.room \in Room /\ a.player \in Player
    BY AnswersAreGood DEF TypeOK, Answers
  <2>2. a.command = "create" => CreationOf(a.room, a)'
    BY <2>1, <1>1, CreationStays DEF GoodAnswer
  <2>3. a.command \in {"create", "join"} => StoredAs(a)'
    <3> SUFFICES ASSUME a.command \in {"create", "join"} PROVE StoredAs(a)'
      OBVIOUS
    <3> DEFINE r == IF a.command = "create" THEN CreateKey ELSE <<a.player, a.request>>
    <3>1. r \in Key
      BY <2>1, KeyApart DEF GoodAnswer, Key
    <3>2. CASE Forgotten(a.room, r)
      BY <3>2, <1>1 DEF StoredAs, Forgotten, Grows
    <3>3. CASE ~ Forgotten(a.room, r)
      <4>1. /\ stored[a.room][r] # None /\ stored[a.room][r].command = a.command
            /\ stored[a.room][r].payload = a.payload
            /\ stored[a.room][r].participant = a.participant
        BY <2>1, <3>3 DEF GoodAnswer, StoredAs
      <4>2. stored'[a.room][r] = stored[a.room][r] \/ Forgotten(a.room, r)'
        BY <2>1, <3>1, <4>1, StoredStays
      <4> QED
        BY <4>1, <4>2 DEF StoredAs
    <3> QED
      BY <3>2, <3>3
  <2> QED
    BY <2>1, <2>2, <2>3 DEF GoodAnswer
<1>3. ASSUME NEW a \in answers', a \notin answers PROVE GoodAnswer(a)'
  <2>1. ASSUME NEW w \in Worker, Begins(w) PROVE FALSE
    BY <1>3, <2>1 DEF Begins, CreateCall, LeaveCall, JoinCall, Start
  <2>2. ASSUME NEW w \in Worker, Handles(w) PROVE GoodAnswer(a)'
    <3>1. CASE Initialize(w) \/ Resolve(w) \/ Admit(w) \/ GiveUp(w)
      BY <1>3, <3>1 DEF Initialize, Resolve, Admit, GiveUp, history, Refuse, Unanswered
    <3> QED
      BY <1>1, <1>3, <2>2, <3>1, LookAnswers, RecordAnswers, RegisterAnswers, DepartAnswers
         DEF Handles
  <2>3. ASSUME NEW k \in Room, RoomGoesOn(k) PROVE FALSE
    BY <1>3, <2>3 DEF RoomGoesOn, Transition, Delete, Expire, Removed, history
  <2>4. ~ UNCHANGED vars
    BY <1>3 DEF vars, history
  <2> QED
    BY <2>1, <2>2, <2>3, <2>4, NextCases
<1>4. \A a \in answers' : GoodAnswer(a)'
  BY <1>2, <1>3
<1> QED
  BY <1>4 DEF AnswersKeepShape, AnswersStored, GoodAnswer, StoredAs

\* What a step does to the call of w that goes on: it is new, or its handler moved it.
LEMMA CallMoves ==
  ASSUME TypeOK, CallsKeepShape, OutcomesKeepShape, [Next]_vars,
         NEW w \in Active', call'[w] # call[w]
  PROVE  \/ w \notin Active /\ Begins(w) /\ call'[w].step \in {"look", "resolve"}
         \/ /\ w \in Active /\ Handles(w)
            /\ call'[w].command = call[w].command /\ call'[w].player = call[w].player
            /\ call'[w].request = call[w].request /\ call'[w].payload = call[w].payload
            /\ call[w].step # "resolve" => call'[w].room = call[w].room
<1>1. ASSUME NEW v \in Worker, Begins(v)
      PROVE  v = w /\ w \notin Active /\ call'[w].step \in {"look", "resolve"}
  <2>1. ASSUME NEW c, Start(v, c), c.step \in {"look", "resolve"}
        PROVE  v = w /\ w \notin Active /\ call'[w].step \in {"look", "resolve"}
    BY <2>1 DEF Start, TypeOK, Active, Idle
  <2> QED
    BY <1>1, <2>1 DEF Begins, CreateCall, LeaveCall, JoinCall, Call
<1>2. ASSUME NEW v \in Worker, Handles(v)
      PROVE  /\ v = w /\ w \in Active
             /\ call'[w].command = call[w].command /\ call'[w].player = call[w].player
             /\ call'[w].request = call[w].request /\ call'[w].payload = call[w].payload
             /\ call[w].step # "resolve" => call'[w].room = call[w].room
  <2>1. v \in Active /\ call[v] \in Calls
    <3>1. v \in Active
      BY <1>2, ActiveCalls DEF Handles, Look, Record, Initialize, Register, Resolve, Admit, Depart,
         GiveUp
    <3> QED
      BY <3>1, ActiveCalls DEF Active
  <2>2. ~ Ends(v)
    BY DEF Ends, TypeOK, Idle, Active
  <2>3. ASSUME NEW s, Goto(v, s)
        PROVE  v = w /\ call'[w] = [call[w] EXCEPT !.step = s]
    BY <2>3 DEF Goto, TypeOK
  <2>4. ASSUME NEW s, NEW x, call' = [call EXCEPT ![v].step = s, ![v].participant = x]
        PROVE  v = w /\ call'[w] = [call[w] EXCEPT !.step = s, !.participant = x]
    <3>1. w \in Worker /\ call \in [Worker -> Calls \cup {Idle}]
      BY DEF TypeOK, Active
    <3>2. \A u \in Worker \ {v} : call'[u] = call[u]
      BY <2>4, <3>1
    <3>3. v = w
      BY <3>1, <3>2
    <3> QED
      BY <2>4, <3>1, <3>3
  <2>5. ASSUME NEW s, NEW k, call' = [call EXCEPT ![v].step = s, ![v].room = k]
        PROVE  v = w /\ call'[w] = [call[w] EXCEPT !.step = s, !.room = k]
    <3>1. w \in Worker /\ call \in [Worker -> Calls \cup {Idle}]
      BY DEF TypeOK, Active
    <3>2. \A u \in Worker \ {v} : call'[u] = call[u]
      BY <2>5, <3>1
    <3>3. v = w
      BY <3>1, <3>2
    <3> QED
      BY <2>5, <3>1, <3>3
  <2>6. \/ Ends(v) \/ (\E t : Goto(v, t))
        \/ \E t, x, d : call' = [call EXCEPT ![v].step = t, ![v].code = d, ![v].participant = x]
        \/ \E t, x : call' = [call EXCEPT ![v].step = t, ![v].participant = x]
        \/ /\ call[v].step = "resolve"
           /\ \E t, k : call' = [call EXCEPT ![v].step = t, ![v].room = k]
    <3>1. CASE Look(v)
      BY <3>1, Zenon DEF Look, Answer, Refuse, Ends
    <3>2. CASE Record(v) \/ Depart(v) \/ GiveUp(v)
      BY <3>2 DEF Record, Depart, GiveUp, Answer, Refuse, Ends
    <3>3. CASE Initialize(v)
      <4>1. PICK drawn \in Drawn :
              LET c == call[v]
                  snapshot == IF Exists(c.room) THEN room[c.room] ELSE NewRoom(c.payload, drawn) IN
              call' = [call EXCEPT ![v].step = IF c.payload = Invitation THEN "register" ELSE "record",
                                   ![v].code = AnswerCode(c, snapshot),
                                   ![v].participant = HostId]
        BY <3>3 DEF Initialize
      <4> QED
        BY <4>1, Zenon
    <3>4. CASE Register(v)
      BY <3>4, Zenon DEF Register, Answer, Refuse, Ends
    <3>5. CASE Resolve(v)
      BY <3>5, Zenon DEF Resolve, Refuse, Ends
    <3>6. CASE Admit(v)
      BY <3>6, Zenon DEF Admit, Refuse, Ends
    <3> QED
      BY <1>2, <3>1, <3>2, <3>3, <3>4, <3>5, <3>6 DEF Handles
  <2>7. CASE \E t : Goto(v, t)
    <3>1. PICK t : Goto(v, t)
      BY <2>7
    <3>2. v = w /\ call'[w] = [call[w] EXCEPT !.step = t]
      BY <2>3, <3>1
    <3> QED
      BY <2>1, <3>2 DEF Calls
  <2>8. CASE \E t, x, d : call' = [call EXCEPT ![v].step = t, ![v].code = d, ![v].participant = x]
    <3>1. PICK t, x, d : call' = [call EXCEPT ![v].step = t, ![v].code = d, ![v].participant = x]
      BY <2>8
    <3>2. w \in Worker /\ call \in [Worker -> Calls \cup {Idle}]
      BY DEF TypeOK, Active
    <3>3. \A u \in Worker \ {v} : call'[u] = call[u]
      BY <3>1, <3>2
    <3>4. v = w
      BY <3>2, <3>3
    <3>5. call'[w] = [call[w] EXCEPT !.step = t, !.code = d, !.participant = x]
      BY <3>1, <3>2, <3>4
    <3> QED
      BY <2>1, <3>4, <3>5 DEF Calls
  <2>9. CASE \E t, x : call' = [call EXCEPT ![v].step = t, ![v].participant = x]
    <3>1. PICK t, x : call' = [call EXCEPT ![v].step = t, ![v].participant = x]
      BY <2>9
    <3>2. v = w /\ call'[w] = [call[w] EXCEPT !.step = t, !.participant = x]
      BY <2>4, <3>1
    <3> QED
      BY <2>1, <3>2 DEF Calls
  <2>10. CASE /\ call[v].step = "resolve"
              /\ \E t, k : call' = [call EXCEPT ![v].step = t, ![v].room = k]
    <3>1. PICK t, k : call' = [call EXCEPT ![v].step = t, ![v].room = k]
      BY <2>10
    <3>2. v = w /\ call'[w] = [call[w] EXCEPT !.step = t, !.room = k]
      BY <2>5, <3>1
    <3> QED
      BY <2>1, <2>10, <3>2 DEF Calls
  <2> QED
    BY <2>2, <2>6, <2>7, <2>8, <2>9, <2>10
<1>3. ASSUME NEW k \in Room, RoomGoesOn(k) PROVE FALSE
  BY <1>3 DEF RoomGoesOn, Transition, Delete, Expire, Removed
<1> QED
  BY <1>1, <1>2, <1>3, NextCases DEF vars

\* A creation that is restored was stored a moment ago.
LEMMA RestoringStep ==
  ASSUME TypeOK, CallsKeepShape, OutcomesKeepShape, AnswersKeepShape, RestoringStored, [Next]_vars
  PROVE  RestoringStored'
<1>1. Grows /\ CallsKeepShape' /\ TypeOK' /\ CreateKey \in Key
  BY StepGrows, CallsShapeStep, TypeStep DEF Key
<1>2. ASSUME NEW w \in Active', call'[w].step = "restore"
      PROVE  \/ call'[w].room \in deleted' \/ <<call'[w].room, CreateKey>> \in forgotten'
             \/ /\ stored'[call'[w].room][CreateKey] # None
                /\ stored'[call'[w].room][CreateKey].payload = call'[w].payload
  <2>1. CASE call'[w] = call[w]
    <3>1. w \in Active /\ call[w].step = "restore"
      BY <1>2, <2>1 DEF Active
    <3>2. call[w].room \in Room
      <4>1. CreateShape(call[w])
        BY <3>1, CommandOfStep, CreatingShape
      <4> QED
        BY <4>1 DEF CreateShape
    <3>3. CASE Forgotten(call[w].room, CreateKey)
      BY <3>3, <1>1, <2>1 DEF Forgotten, Grows
    <3>4. CASE ~ Forgotten(call[w].room, CreateKey)
      <4>1. /\ stored[call[w].room][CreateKey] # None
            /\ stored[call[w].room][CreateKey].payload = call[w].payload
        BY <3>1, <3>4 DEF RestoringStored
      <4>2. \A k \in Room : stored[k][CreateKey] # None =>
              stored'[k][CreateKey] = stored[k][CreateKey]
              \/ k \in deleted' \/ <<k, CreateKey>> \in forgotten'
        BY <1>1, StoredStays DEF Forgotten
      <4> QED
        BY <3>2, <4>1, <4>2, <2>1
    <3> QED
      BY <3>3, <3>4
  <2>2. CASE call'[w] # call[w]
    <3> DEFINE c == call[w]
               found == stored[c.room][KeyOf(c)]
    <3>1. /\ w \in Active /\ Handles(w)
          /\ call'[w].payload = c.payload
          /\ c.step # "resolve" => call'[w].room = c.room
      BY <1>2, <2>2, CallMoves
    <3>2. w \in Worker /\ c \in Calls
      BY <3>1, ActiveCalls DEF Active
    <3>3. Look(w)
      <4>1. ~ Ends(w)
        BY <1>2, <3>2 DEF Ends, TypeOK, Idle
      <4>2. ~ (Record(w) \/ Depart(w) \/ GiveUp(w))
        BY <4>1 DEF Record, Depart, GiveUp, Answer, Refuse, Ends
      <4>3. ~ Initialize(w)
        <5> SUFFICES ASSUME Initialize(w) PROVE FALSE
          OBVIOUS
        <5>1. PICK x : call' = [call EXCEPT
                ![w].step = IF c.payload = Invitation THEN "register" ELSE "record",
                ![w].code = x, ![w].participant = HostId]
          BY Zenon DEF Initialize
        <5>2. call'[w] = [c EXCEPT !.step = IF c.payload = Invitation THEN "register" ELSE "record",
                                   !.code = x, !.participant = HostId]
          BY <3>2, <5>1 DEF TypeOK
        <5> QED
          BY <1>2, <3>2, <5>2 DEF Calls
      <4>4. ~ Goto(w, "record")
        BY <1>2, <3>2 DEF Goto, TypeOK, Calls
      <4>5. ~ Register(w)
        BY <4>1, <4>4 DEF Register, Answer, Refuse, Ends
      <4>6. ~ Resolve(w)
        BY <1>2, <3>2, <4>1 DEF Resolve, Refuse, Ends, TypeOK, Calls
      <4>7. ~ Admit(w)
        BY <1>2, <3>2, <4>1 DEF Admit, Refuse, Ends, TypeOK, Calls
      <4> QED
        BY <3>1, <4>2, <4>3, <4>5, <4>6, <4>7 DEF Handles
    <3>4. c.step = "look" /\ UNCHANGED stored
      BY <3>3 DEF Look
    <3>5. found # None /\ SameInput(found, c) /\ found.code # None
      BY <1>2, <3>2, <3>3 DEF Look, Lookup, Answer, Refuse, Goto, Idle, TypeOK, Calls, Commands
    <3>6. c.room \in Room
      BY <3>1, <3>2, <3>4 DEF CallsKeepShape, CreateShape, JoinShape, LeaveShape, Calls, Commands
    <3>7. KeyOf(c) = CreateKey /\ found.payload = c.payload
      BY <3>1, <3>5, <3>6, FoundCreation
    <3> QED
      BY <3>1, <3>4, <3>5, <3>7
  <2> QED
    BY <2>1, <2>2
<1> QED
  BY <1>2 DEF RestoringStored, Forgotten
-----------------------------------------------------------------------------
(* Requests that are sent twice *)

LEMMA TwinsStep ==
  ASSUME TypeOK, CallsKeepShape, OutcomesKeepShape, TwinsAreDoubled, [Next]_vars
  PROVE  TwinsAreDoubled'
<1>1. Grows
  BY StepGrows
<1>2. ASSUME NEW v \in Active', NEW w \in Active', v # w, Begins(w),
             v \in Active, Same(call[v], call'[w]), call'[v] = call[v] \/ TRUE
      PROVE  <<call'[w].player, call'[w].request>> \in doubled'
  <2>1. ASSUME NEW c, Start(w, c) PROVE <<call'[w].player, call'[w].request>> \in doubled'
    BY <1>2, <2>1 DEF Start, TypeOK, Active
  <2> QED
    BY <1>2, <2>1 DEF Begins, CreateCall, LeaveCall, JoinCall
<1>3. ASSUME NEW w \in Worker, Begins(w), NEW v \in Worker, v # w
      PROVE  call'[v] = call[v]
  BY <1>3 DEF Begins, CreateCall, LeaveCall, JoinCall, Start, TypeOK
<1>4. ASSUME NEW w \in Active'
      PROVE  \/ w \notin Active /\ Begins(w)
             \/ /\ w \in Active
                /\ call'[w].command = call[w].command /\ call'[w].player = call[w].player
                /\ call'[w].request = call[w].request
  BY <1>4, CallMoves DEF Active
<1>5. ASSUME NEW v \in Active', NEW w \in Active', v # w, Same(call'[v], call'[w])
      PROVE  <<call'[w].player, call'[w].request>> \in doubled'
  <2>1. v \in Worker /\ w \in Worker
    BY DEF Active
  <2>2. CASE w \notin Active /\ Begins(w)
    <3>1. call'[v] = call[v] /\ v \in Active
      BY <1>3, <1>5, <2>1, <2>2 DEF Active
    <3> QED
      BY <1>2, <1>5, <2>2, <3>1
  <2>3. CASE v \notin Active /\ Begins(v)
    <3>1. call'[w] = call[w] /\ w \in Active
      BY <1>3, <1>5, <2>1, <2>3 DEF Active
    <3>2. Same(call[w], call'[v])
      BY <1>5, <3>1 DEF Same
    <3>3. <<call'[v].player, call'[v].request>> \in doubled'
      BY <1>2, <1>5, <2>3, <3>1, <3>2
    <3> QED
      BY <1>5, <3>3 DEF Same
  <2>4. CASE /\ v \in Active /\ w \in Active
             /\ call'[w].command = call[w].command /\ call'[w].player = call[w].player
             /\ call'[w].request = call[w].request
             /\ call'[v].command = call[v].command /\ call'[v].player = call[v].player
             /\ call'[v].request = call[v].request
    <3>1. Same(call[v], call[w])
      BY <1>5, <2>4 DEF Same
    <3> QED
      BY <1>1, <1>5, <2>4, <3>1 DEF TwinsAreDoubled, Grows
  <2> QED
    BY <1>4, <2>2, <2>3, <2>4
<1> QED
  BY <1>5 DEF TwinsAreDoubled

\* Only a handler that ends with this step stores a result.
LEMMA StoredBy ==
  ASSUME TypeOK, CallsKeepShape, [Next]_vars, NEW k \in Room, NEW r \in Key,
         stored'[k][r] # None, stored'[k][r] # stored[k][r]
  PROVE  \E v \in Active : /\ v \notin Active'
                           /\ call[v].room = k /\ KeyOf(call[v]) = r
                           /\ stored'[k][r].command = call[v].command
<1>1. ASSUME NEW w \in Worker, Record(w)
      PROVE  \E v \in Active : /\ v \notin Active'
                               /\ call[v].room = k /\ KeyOf(call[v]) = r
                               /\ stored'[k][r].command = call[v].command
  <2> DEFINE c == call[w]
  <2>1. w \in Active
    BY <1>1, ActiveCalls DEF Record
  <2>2. c.room = k /\ KeyOf(c) = r /\ stored'[k][r] = Result(c) /\ Ends(w)
    BY <1>1 DEF Record, TypeOK, Answer, Ends
  <2>3. w \notin Active'
    BY <2>2, EndsShape, <1>1
  <2> QED
    BY <2>1, <2>2, <2>3 DEF Result
<1>2. ASSUME NEW w \in Worker, Depart(w)
      PROVE  \E v \in Active : /\ v \notin Active'
                               /\ call[v].room = k /\ KeyOf(call[v]) = r
                               /\ stored'[k][r].command = call[v].command
  <2> DEFINE c == call[w]
             left == [command |-> "leave", payload |-> c.payload, participant |-> c.payload,
                      code |-> None]
  <2>1. w \in Active /\ c.command = "leave"
    BY <1>2, ActiveCalls, CommandOfStep DEF Depart
  <2>2. c.room = k /\ KeyOf(c) = r /\ stored'[k][r] = left /\ Ends(w)
    BY <1>2 DEF Depart, TypeOK, Answer, Ends
  <2>3. w \notin Active'
    BY <2>2, EndsShape, <1>2
  <2> QED
    BY <2>1, <2>2, <2>3
<1>3. ASSUME NEW w \in Worker, Begins(w) PROVE FALSE
  BY <1>3 DEF Begins, CreateCall, LeaveCall, JoinCall, Start
<1>4. ASSUME NEW q \in Room, RoomGoesOn(q) PROVE FALSE
  BY <1>4 DEF RoomGoesOn, Transition, Delete, Expire, Removed, TypeOK
<1>5. ASSUME NEW w \in Worker, Handles(w) PROVE Record(w) \/ Depart(w)
  BY <1>5 DEF Handles, Look, Initialize, Register, Resolve, Admit, GiveUp
<1> QED
  BY <1>1, <1>2, <1>3, <1>4, <1>5, NextCases DEF vars

\* The handlers that do not end with their step.
LEMMA HandlerOfStep ==
  ASSUME TypeOK, NEW w \in Active', Handles(w)
  PROVE  /\ call[w].step = "look" => Look(w)
         /\ call[w].step = "initialize" => Initialize(w)
         /\ call[w].step \in {"register", "restore"} => Register(w)
         /\ call[w].step = "resolve" => Resolve(w)
         /\ call[w].step = "admit" => Admit(w)
         /\ call[w].step \in {"look", "initialize", "register", "restore", "resolve", "admit"}
         /\ ~ Ends(w)
<1>1. ~ Ends(w)
  BY DEF Ends, TypeOK, Idle, Active
<1>2. ~ (Record(w) \/ Depart(w) \/ GiveUp(w))
  BY <1>1 DEF Record, Depart, GiveUp, Answer, Refuse, Ends
<1> QED
  BY <1>1, <1>2 DEF Handles, Look, Initialize, Register, Resolve, Admit

LEMMA JoiningStep ==
  ASSUME TypeOK, CallsKeepShape, OutcomesKeepShape, TwinsAreDoubled, JoiningIsFirst, [Next]_vars
  PROVE  JoiningIsFirst'
<1>1. Grows
  BY StepGrows
<1>2. ASSUME NEW w \in Active', call'[w].command = "join", call'[w].step \in {"admit", "record"},
             NEW k, NEW r, k = call'[w].room, r = <<call'[w].player, call'[w].request>>
      PROVE  \/ stored'[k][r] = None \/ stored'[k][r].command # "join"
             \/ <<call'[w].player, call'[w].request>> \in doubled'
  <2>1. /\ w \in Active /\ call[w].command = "join"
        /\ r = <<call[w].player, call[w].request>> /\ KeyOf(call[w]) = r /\ r \in Key
    BY <1>2, CallMoves, KeyOfCall DEF Active
  <2>2. call[w] \in Calls /\ w \in Worker
    BY <2>1, ActiveCalls DEF Active
  <2>3. k = call[w].room /\ k \in Room /\ call[w].step # "resolve"
    <3>1. JoinShape(call[w])
      BY <2>1, JoiningShape
    <3>2. ~ Resolve(w)
      <4>1. ~ Ends(w)
        BY <1>2 DEF Ends, TypeOK, Idle, Active
      <4> QED
        BY <1>2, <2>2, <4>1 DEF Resolve, Refuse, TypeOK, Calls, Ends
    <3>3. call[w].step # "resolve"
      <4>1. CASE call'[w] = call[w]
        BY <1>2, <4>1
      <4>2. CASE Handles(w)
        BY <1>2, <3>2, <4>2, HandlerOfStep
      <4> QED
        BY <1>2, <2>1, <4>1, <4>2, CallMoves
    <3> QED
      BY <1>2, <3>1, <3>3, CallMoves DEF JoinShape
  <2>4. CASE stored'[k][r] # None /\ stored'[k][r] # stored[k][r] /\ stored'[k][r].command = "join"
    <3>1. PICK v \in Active : /\ v \notin Active'
                              /\ KeyOf(call[v]) = r
                              /\ call[v].command = "join"
      BY <2>1, <2>3, <2>4, StoredBy
    <3>2. r = <<call[v].player, call[v].request>>
      BY <3>1, KeyOfCall
    <3>3. Same(call[v], call[w]) /\ v # w
      BY <1>2, <2>1, <3>1, <3>2 DEF Same
    <3> QED
      BY <1>1, <1>2, <2>1, <3>3 DEF TwinsAreDoubled, Grows
  <2>5. CASE stored'[k][r] = stored[k][r]
    <3>1. CASE call[w].step \in {"admit", "record"}
      BY <1>1, <1>2, <2>1, <2>3, <2>5, <3>1 DEF JoiningIsFirst, Grows
    <3>2. CASE call[w].step \notin {"admit", "record"}
      <4>1. Look(w)
        <5>1. Handles(w)
          BY <1>2, <2>1, <3>2, CallMoves
        <5> QED
          BY <1>2, <2>1, <3>2, <5>1, <2>3, HandlerOfStep, CommandOfStep
      <4>2. stored[k][r] = None
        <5>1. ~ Ends(w)
          BY <1>2 DEF Ends, TypeOK, Idle, Active
        <5>2. ~ (call' = [call EXCEPT ![w].step = "restore", ![w].code = stored[k][r].code,
                                      ![w].participant = stored[k][r].participant])
          BY <1>2, <2>2 DEF TypeOK, Calls
        <5> QED
          BY <2>1, <2>3, <4>1, <5>1, <5>2 DEF Look, Lookup, Answer, Refuse, Ends
      <4> QED
        BY <4>2, <2>5
    <3> QED
      BY <3>1, <3>2
  <2> QED
    BY <2>4, <2>5
<1>3. ASSUME NEW w \in Active', call'[w].command = "join"
      PROVE  KeyOf(call[w])' = <<call'[w].player, call'[w].request>>
  BY <1>3 DEF KeyOf
<1> QED
  BY <1>2, <1>3 DEF JoiningIsFirst
-----------------------------------------------------------------------------
(* Rooms and the table of invitations *)

LEMMA InviteUniqueStep ==
  ASSUME TypeOK, CallsKeepShape, InviteUnique, [Next]_vars
  PROVE  InviteUnique'
<1>1. CASE UNCHANGED invite
  BY <1>1 DEF InviteUnique
<1>2. ASSUME NEW w \in Worker, Register(w) PROVE InviteUnique'
  <2> DEFINE c == call[w]
  <2>1. UNCHANGED invite \/ ( /\ \A d \in Code : invite[d] # c.room
                              /\ invite' = [invite EXCEPT ![c.code] = c.room])
    BY <1>2 DEF Register
  <2> QED
    BY <1>1, <2>1 DEF InviteUnique, TypeOK
<1>3. ASSUME NEW w \in Worker, Handles(w) PROVE Register(w) \/ UNCHANGED invite
  BY <1>3 DEF Handles, Look, Record, Initialize, Resolve, Admit, Depart, GiveUp
<1>4. ASSUME NEW w \in Worker, Begins(w) PROVE UNCHANGED invite
  BY <1>4 DEF Begins, CreateCall, LeaveCall, JoinCall, Start
<1>5. ASSUME NEW k \in Room, RoomGoesOn(k) PROVE UNCHANGED invite
  BY <1>5 DEF RoomGoesOn, Transition, Delete, Expire, Removed
<1> QED
  BY <1>1, <1>2, <1>3, <1>4, <1>5, NextCases DEF vars

\* A Room keeps its code until it is deleted.
LEMMA RoomStays ==
  ASSUME TypeOK, CallsKeepShape, [Next]_vars, NEW k \in Room, Exists(k)
  PROVE  k \in deleted' \/ (Exists(k)' /\ room'[k].code = room[k].code)
<1>1. room[k] \in Row
  BY DEF TypeOK, Exists
<1>2. TypeOK => \A x \in Row : x # None
  BY NoneApart
<1>3. ASSUME NEW w \in Worker, Handles(w) PROVE Exists(k)' /\ room'[k].code = room[k].code
  <2> DEFINE c == call[w]
  <2>1. CASE Initialize(w)
    <3>1. c.room \in Room /\ w \in Active
      <4>1. w \in Active /\ c.step = "initialize"
        BY <2>1, ActiveCalls DEF Initialize
      <4>2. CreateShape(c)
        BY <4>1, CommandOfStep, CreatingShape
      <4> QED
        BY <4>1, <4>2 DEF CreateShape
    <3>2. PICK x : room' = [room EXCEPT ![c.room] = x] /\ (Exists(c.room) => x = room[c.room])
      BY <2>1 DEF Initialize
    <3> QED
      BY <3>1, <3>2, <1>1 DEF Exists, TypeOK
  <2>2. CASE Admit(w)
    <3>1. UNCHANGED room \/
          room' = [room EXCEPT ![c.room].member[c.player] = room[c.room].born + 1,
                               ![c.room].born = @ + 1]
      BY <2>2 DEF Admit
    <3>2. room'[k] = room[k] \/
          room'[k] = [room[k] EXCEPT !.member[c.player] = room[k].born + 1, !.born = @ + 1]
      BY <3>1 DEF TypeOK
    <3>3. room'[k] # None
      <4>1. room' \in [Room -> Row \cup {None}]
        BY <2>2, AdmitType DEF TypeOK
      <4>2. CASE room'[k] = [room[k] EXCEPT !.member[c.player] = room[k].born + 1, !.born = @ + 1]
        <5>1. room'[k].code = room[k].code
          BY <1>1, <4>2 DEF Row
        <5>2. room[k].born \in Nat /\ c.player \in Player
          <6>1. c \in Calls
            BY <2>2, ActiveCalls DEF Admit
          <6> QED
            BY <1>1, <6>1 DEF Row, Calls
        <5>3. [room[k].member EXCEPT ![c.player] = room[k].born + 1] \in [Player -> Nat \cup {None}]
          BY <1>1, <5>2 DEF Row
        <5>4. room'[k] = [room[k] EXCEPT
                !.member = [room[k].member EXCEPT ![c.player] = room[k].born + 1],
                !.born = room[k].born + 1]
          BY <1>1, <4>2 DEF Row
        <5>5. room'[k] \in Row
          <6> DEFINE f == [room[k].member EXCEPT ![c.player] = room[k].born + 1]
                     n == room[k].born + 1
          <6>1. f \in [Player -> Nat \cup {None}] /\ n \in Nat
            BY <5>2, <5>3
          <6>2. room'[k] = [room[k] EXCEPT !.member = f, !.born = n]
            BY <5>4
          <6> HIDE DEF f, n
          <6> QED
            BY <1>1, <6>1, <6>2 DEF Row
        <5> QED
          BY <5>5, NoneApart
      <4> QED
        BY <3>2, <4>2 DEF Exists
    <3> QED
      BY <3>2, <3>3, <1>1 DEF Exists, Row
  <2>3. CASE Depart(w)
    <3>1. UNCHANGED room \/ (Exists(c.room) /\ room' = [room EXCEPT ![c.room] = Without(c.room, c.player)])
      BY <2>3 DEF Depart, Leavable
    <3>2. room'[k] = room[k] \/ room'[k] = Without(k, c.player)
      BY <3>1 DEF TypeOK
    <3>3. Without(k, c.player) \in Row /\ Without(k, c.player).code = room[k].code
      BY <1>1, WithoutType DEF Without, Row
    <3> QED
      BY <3>2, <3>3, NoneApart DEF Exists
  <2> QED
    BY <1>3, <2>1, <2>2, <2>3 DEF Handles, Look, Record, Register, Resolve, GiveUp, Exists
<1>4. ASSUME NEW w \in Worker, Begins(w) PROVE UNCHANGED room
  BY <1>4 DEF Begins, CreateCall, LeaveCall, JoinCall, Start
<1>5. ASSUME NEW q \in Room, RoomGoesOn(q)
      PROVE  k \in deleted' \/ (Exists(k)' /\ room'[k].code = room[k].code)
  <2>1. CASE Transition(q)
    <3>1. PICK m \in Moves : room' = [room EXCEPT ![q].state = m[2]]
      BY <2>1 DEF Transition
    <3>2. room'[k] = room[k] \/ room'[k] = [room[k] EXCEPT !.state = m[2]]
      BY <3>1 DEF TypeOK
    <3>3. [room[k] EXCEPT !.state = m[2]] \in Row /\ [room[k] EXCEPT !.state = m[2]].code = room[k].code
      BY <1>1 DEF Row, Moves
    <3> QED
      BY <3>2, <3>3, NoneApart DEF Exists
  <2>2. CASE Delete(q)
    BY <2>2 DEF Delete, Exists, TypeOK
  <2>3. ASSUME NEW p \in Player, Removed(q, p)
        PROVE  Exists(k)' /\ room'[k].code = room[k].code
    <3>1. room'[k] = room[k] \/ room'[k] = Without(k, p)
      BY <2>3 DEF Removed, TypeOK
    <3>2. Without(k, p) \in Row /\ Without(k, p).code = room[k].code
      BY <1>1, WithoutType DEF Without, Row
    <3> QED
      BY <3>1, <3>2, NoneApart DEF Exists
  <2> QED
    BY <1>5, <2>1, <2>2, <2>3 DEF RoomGoesOn, Expire, Exists
<1> QED
  BY <1>3, <1>4, <1>5, NextCases DEF vars, Exists

\* A row is written with the code of its Room.
LEMMA InviteOfRoomStep ==
  ASSUME TypeOK, CallsKeepShape, InviteOfRoom, CreatingHasRoom, [Next]_vars
  PROVE  InviteOfRoom'
<1>1. Grows
  BY StepGrows
<1>2. ASSUME NEW d \in Code, invite'[d] # None
      PROVE  invite'[d] \in deleted' \/ (room'[invite'[d]] # None /\ room'[invite'[d]].code = d)
  <2> DEFINE k == invite'[d]
  <2>1. CASE invite[d] # None
    <3>1. k = invite[d] /\ k \in Room
      BY <1>1, <2>1 DEF Grows, TypeOK
    <3>2. k \in deleted \/ (Exists(k) /\ room[k].code = d)
      BY <2>1, <3>1 DEF InviteOfRoom
    <3>3. \A q \in Room : Exists(q) => q \in deleted' \/ (Exists(q)' /\ room'[q].code = room[q].code)
      BY RoomStays
    <3> QED
      BY <1>1, <3>1, <3>2, <3>3 DEF Grows, Exists
  <2>2. CASE invite[d] = None
    <3>1. PICK w \in Worker : Register(w)
      <4>1. ASSUME NEW w \in Worker, Handles(w) PROVE Register(w)
        BY <1>2, <2>2, <4>1 DEF Handles, Look, Record, Initialize, Resolve, Admit, Depart, GiveUp
      <4>2. ASSUME NEW w \in Worker, Begins(w) PROVE FALSE
        BY <1>2, <2>2, <4>2 DEF Begins, CreateCall, LeaveCall, JoinCall, Start
      <4>3. ASSUME NEW q \in Room, RoomGoesOn(q) PROVE FALSE
        BY <1>2, <2>2, <4>3 DEF RoomGoesOn, Transition, Delete, Expire, Removed
      <4> QED
        BY <1>2, <2>2, <4>1, <4>2, <4>3, NextCases DEF vars
    <3>2. w \in Active /\ call[w].step \in {"register", "restore"}
      BY <3>1, ActiveCalls DEF Register
    <3>3. CreateShape(call[w]) /\ call[w].command = "create"
      BY <3>2, CommandOfStep, CreatingShape
    <3>4. d = call[w].code /\ k = call[w].room
      BY <1>2, <2>2, <3>1 DEF Register, TypeOK
    <3>5. call[w].step = "register"
      BY <2>2, <3>2, <3>3, <3>4, NoneApart DEF CreateShape
    <3>6. k \in deleted \/ (Exists(k) /\ room[k].code = d)
      BY <3>2, <3>3, <3>4, <3>5 DEF CreatingHasRoom
    <3>7. UNCHANGED <<room, deleted>>
      BY <3>1 DEF Register
    <3> QED
      BY <3>6, <3>7 DEF Exists
  <2> QED
    BY <2>1, <2>2
<1> QED
  BY <1>2 DEF InviteOfRoom, Exists

LEMMA CreatingStep ==
  ASSUME TypeOK, CallsKeepShape, OutcomesKeepShape, CreatingHasRoom, [Next]_vars
  PROVE  CreatingHasRoom'
<1>1. Grows
  BY StepGrows
<1>2. ASSUME NEW w \in Active', call'[w].command = "create", call'[w].step \in {"register", "record"},
             NEW k, k = call'[w].room
      PROVE  \/ k \in deleted'
             \/ /\ room'[k] # None
                /\ call'[w].step = "register" => room'[k].code = call'[w].code
  <2>1. w \in Active /\ w \in Worker /\ call[w].command = "create"
    BY <1>2, CallMoves DEF Active
  <2>2. CreateShape(call[w]) /\ call[w] \in Calls
    BY <2>1, CreatingShape, ActiveCalls DEF Active
  <2>3. k = call[w].room /\ k \in Room
    BY <1>2, <2>1, <2>2, CallMoves DEF CreateShape
  <2>4. ASSUME call[w].step \in {"register", "record"},
               call'[w].step = "register" => call[w].step = "register" /\ call'[w].code = call[w].code
        PROVE  \/ k \in deleted'
               \/ /\ room'[k] # None
                  /\ call'[w].step = "register" => room'[k].code = call'[w].code
    <3>1. k \in deleted \/ (Exists(k) /\ (call[w].step = "register" => room[k].code = call[w].code))
      BY <2>1, <2>3, <2>4 DEF CreatingHasRoom
    <3>2. Exists(k) => k \in deleted' \/ (room'[k] # None /\ room'[k].code = room[k].code)
      BY <2>3, RoomStays DEF Exists
    <3> QED
      BY <1>1, <2>4, <3>1, <3>2 DEF Grows
  <2>5. CASE call'[w] = call[w]
    BY <1>2, <2>4, <2>5
  <2>6. CASE call'[w] # call[w]
    <3>1. Handles(w)
      BY <1>2, <2>1, <2>6, CallMoves
    <3>2. CASE Initialize(w)
      <4>1. PICK drawn \in Drawn :
              LET c == call[w]
                  snapshot == IF Exists(c.room) THEN room[c.room] ELSE NewRoom(c.payload, drawn) IN
              /\ room' = [room EXCEPT ![c.room] = snapshot]
              /\ call' = [call EXCEPT ![w].step = IF c.payload = Invitation THEN "register" ELSE "record",
                                      ![w].code = AnswerCode(c, snapshot),
                                      ![w].participant = HostId]
        BY <3>2 DEF Initialize
      <4> DEFINE snapshot == IF Exists(k) THEN room[k] ELSE NewRoom(call[w].payload, drawn)
      <4>2. snapshot \in Row
        BY <2>2, <2>3 DEF Exists, NewRoom, Row, HostId, TypeOK, Drawn, CreateShape
      <4> HIDE DEF snapshot
      <4>3. room'[k] = snapshot
        BY <2>3, <4>1 DEF snapshot, TypeOK
      <4>4. call'[w] = [call[w] EXCEPT
              !.step = IF call[w].payload = Invitation THEN "register" ELSE "record",
              !.code = AnswerCode(call[w], snapshot), !.participant = HostId]
        BY <2>1, <2>3, <4>1 DEF snapshot, TypeOK
      <4>5. call'[w].step = "register" => call'[w].code = snapshot.code
        BY <4>4, <2>2 DEF AnswerCode, Calls
      <4> QED
        BY <4>2, <4>3, <4>5, NoneApart
    <3>3. CASE Register(w)
      <4>1. ~ Ends(w)
        BY <1>2 DEF Ends, TypeOK, Idle, Active
      <4>2. Goto(w, "record") /\ call[w].step = "register"
        BY <3>3, <4>1 DEF Register, Answer, Refuse, Ends
      <4>3. call'[w].step = "record"
        BY <2>1, <2>2, <4>2 DEF Goto, TypeOK, Calls
      <4> QED
        BY <2>4, <4>2, <4>3
    <3>4. CASE Look(w)
      <4>1. ~ Ends(w)
        BY <1>2 DEF Ends, TypeOK, Idle, Active
      <4>2. call[w].step = "look"
        BY <3>4 DEF Look
      <4>3. \A t : t \notin {"register", "record"} => ~ Goto(w, t)
        BY <1>2, <2>1, <2>2 DEF Goto, TypeOK, Calls
      <4>4. \A d, x : call' # [call EXCEPT ![w].step = "restore", ![w].code = d, ![w].participant = x]
        BY <1>2, <2>1, <2>2 DEF TypeOK, Calls
      <4> QED
        <5>1. \/ Ends(w) \/ Goto(w, "initialize")
              \/ \E d, x : call' = [call EXCEPT ![w].step = "restore", ![w].code = d,
                                               ![w].participant = x]
          <6>1. (CASE call[w].command = "create" -> "initialize"
                   [] call[w].command = "join" -> "admit"
                   [] call[w].command = "leave" -> "depart") = "initialize"
            BY <2>1
          <6> QED
            BY <3>4, <6>1, Zenon DEF Look, Answer, Refuse, Ends
        <5> QED
          BY <4>1, <4>3, <4>4, <5>1
    <3> QED
      BY <1>2, <2>1, <3>1, <3>2, <3>3, <3>4, HandlerOfStep, CommandOfStep
  <2> QED
    BY <2>5, <2>6
<1> QED
  BY <1>2 DEF CreatingHasRoom, Exists
-----------------------------------------------------------------------------
(* Participants and those who know of them *)

\* Somebody knows that participant x of Room k is player p's.
Known(k, p, x) ==
  \/ \E w \in Active : call[w].player = p /\ call[w].room = k /\ call[w].participant = x
  \/ <<k, x>> \in lost
  \/ \E r \in Request : <<p, r>> \in doubled
  \/ \E a \in answers : a.room = k /\ a.player = p /\ a.participant = x

\* An answer with a participant tells its client of it, or loses it.
LEMMA AnswerTells ==
  ASSUME NEW w \in Worker, NEW x, NEW d, Answer(w, x, d), x # None
  PROVE  \/ <<call[w].room, x>> \in lost'
         \/ \E a \in answers' :
              a.room = call[w].room /\ a.player = call[w].player /\ a.participant = x
<1> DEFINE a == Seen(call[w], x, d)
<1>1. a.room = call[w].room /\ a.player = call[w].player /\ a.participant = x
  BY DEF Seen
<1>2. a \in answers' \/ <<call[w].room, x>> \in lost'
  BY DEF Answer, Losing
<1> HIDE DEF a
<1> QED
  BY <1>1, <1>2

\* A call that ends tells its client of the participant, or is the loss of it.
LEMMA EndingTells ==
  ASSUME TypeOK, CallsKeepShape, OutcomesKeepShape, JoiningIsFirst, Grows,
         NEW w \in Active, Handles(w), w \notin Active',
         NEW k, NEW p, NEW x, k = call[w].room, p = call[w].player, x = call[w].participant, x # None
  PROVE  Known(k, p, x)'
<1> DEFINE c == call[w]
           found == stored[c.room][KeyOf(c)]
<1>1. w \in Worker /\ c \in Calls
  BY ActiveCalls DEF Active
<1>2. c.step \in {"register", "restore", "record"}
  <2>1. CASE c.command = "create"
    <3>1. CreateShape(c)
      BY <2>1, CreatingShape
    <3> QED
      BY <3>1 DEF CreateShape
  <2>2. CASE c.command = "join"
    <3>1. JoinShape(c)
      BY <2>2, JoiningShape
    <3> QED
      BY <3>1 DEF JoinShape
  <2>3. CASE c.command = "leave"
    <3>1. LeaveShape(c)
      BY <2>3, LeavingShape
    <3> QED
      BY <3>1 DEF LeaveShape
  <2> QED
    BY <1>1, <2>1, <2>2, <2>3 DEF Calls, Commands
<1>3. CASE Refuse(w)
  BY <1>3 DEF Refuse, Losing, Known
<1>4. CASE GiveUp(w)
  BY <1>4 DEF GiveUp, Losing, Known
<1>5. ASSUME NEW d, Answer(w, c.participant, d) PROVE Known(k, p, x)'
  BY <1>1, <1>5, AnswerTells DEF Known
<1>6. CASE Register(w)
  <2>1. ~ Goto(w, "record")
    BY <1>1 DEF Goto, TypeOK, Active, Calls
  <2> QED
    BY <1>3, <1>5, <1>6, <2>1 DEF Register
<1>7. CASE Record(w)
  <2>1. CASE Answer(w, c.participant, c.code)
    BY <1>5, <2>1
  <2>2. CASE /\ c.step = "record" /\ found # None /\ SameInput(found, c)
             /\ Answer(w, found.participant, found.code)
    <3>1. c.room \in Room
      BY <2>2, RecordedShape
    <3>2. /\ c.command = "create" => CreationOf(c.room, found)
          /\ found.command = c.command
      BY <2>2, <3>1, FoundCreation
    <3>3. CASE c.command = "create"
      <4>1. CreateShape(c)
        BY <3>3, CreatingShape
      <4>2. found.participant = c.participant
        BY <1>2, <3>2, <3>3, <4>1 DEF CreationOf, CreateShape
      <4> QED
        BY <1>5, <2>2, <4>2
    <3>4. CASE c.command = "join"
      <4>1. <<c.player, c.request>> \in doubled /\ c.request \in Request
        BY <2>2, <3>2, <3>4, KeyOfCall DEF JoiningIsFirst
      <4> QED
        BY <4>1 DEF Known, Grows
    <3> QED
      BY <2>2, <3>3, <3>4, CommandOfStep
  <2> QED
    BY <1>3, <1>7, <2>1, <2>2 DEF Record, FirstResult
<1> QED
  BY <1>2, <1>4, <1>6, <1>7 DEF Handles, Look, Initialize, Resolve, Admit, Depart

\* A handler leaves the other calls alone.
LEMMA HandlerLeaves ==
  ASSUME TypeOK, NEW v \in Worker, Handles(v), NEW w \in Worker, w # v
  PROVE  call'[w] = call[w]
<1>1. CASE Look(v)
  BY <1>1 DEF Look, Goto, Answer, Refuse, TypeOK
<1>2. CASE Record(v)
  BY <1>2 DEF Record, Answer, Refuse, TypeOK
<1>3. CASE Initialize(v)
  BY <1>3 DEF Initialize, TypeOK
<1>4. CASE Register(v)
  BY <1>4 DEF Register, Goto, Answer, Refuse, TypeOK
<1>5. CASE Resolve(v)
  BY <1>5 DEF Resolve, Refuse, TypeOK
<1>6. CASE Admit(v)
  BY <1>6 DEF Admit, Refuse, TypeOK
<1>7. CASE Depart(v)
  BY <1>7 DEF Depart, Answer, Refuse, TypeOK
<1>8. CASE GiveUp(v)
  BY <1>8 DEF GiveUp, TypeOK
<1> QED
  BY <1>1, <1>2, <1>3, <1>4, <1>5, <1>6, <1>7, <1>8 DEF Handles

\* What is known stays known.
LEMMA KnownStays ==
  ASSUME TypeOK, CallsKeepShape, OutcomesKeepShape, JoiningIsFirst, [Next]_vars,
         NEW k, NEW p, NEW x, x # None, Known(k, p, x)
  PROVE  Known(k, p, x)'
<1>1. Grows
  BY StepGrows
<1>2. ASSUME NEW w \in Active, call[w].player = p, call[w].room = k, call[w].participant = x
      PROVE  Known(k, p, x)'
  <2>1. w \in Worker /\ call[w] \in Calls
    BY ActiveCalls DEF Active
  <2>2. CASE w \in Active'
    <3>1. CASE call'[w] = call[w]
      BY <1>2, <2>2, <3>1 DEF Known
    <3>2. CASE call'[w] # call[w]
      <4>1. /\ Handles(w) /\ call'[w].player = p
            /\ call[w].step # "resolve" => call'[w].room = k
        BY <1>2, <2>2, <3>2, CallMoves
      <4>2. call[w].step \in {"register", "restore", "record"}
        <5>1. CASE call[w].command = "create"
          <6>1. CreateShape(call[w])
            BY <1>2, <5>1, CreatingShape
          <6> QED
            BY <1>2, <6>1 DEF CreateShape
        <5>2. CASE call[w].command = "join"
          <6>1. JoinShape(call[w])
            BY <1>2, <5>2, JoiningShape
          <6> QED
            BY <1>2, <6>1 DEF JoinShape
        <5>3. CASE call[w].command = "leave"
          <6>1. LeaveShape(call[w])
            BY <1>2, <5>3, LeavingShape
          <6> QED
            BY <1>2, <6>1 DEF LeaveShape
        <5> QED
          BY <2>1, <5>1, <5>2, <5>3 DEF Calls, Commands
      <4>3. Register(w) /\ ~ Ends(w)
        BY <2>2, <4>1, <4>2, HandlerOfStep
      <4>4. Goto(w, "record")
        BY <4>3 DEF Register, Answer, Refuse, Ends
      <4>5. call'[w].participant = x
        BY <1>2, <2>1, <4>4 DEF Goto, TypeOK, Calls
      <4> QED
        BY <2>2, <4>1, <4>2, <4>5 DEF Known
    <3> QED
      BY <3>1, <3>2
  <2>3. CASE w \notin Active'
    <3>1. Handles(w)
      <4>1. ASSUME NEW v \in Worker, Begins(v) PROVE FALSE
        <5>1. ASSUME NEW c, Start(v, c), c.step \in {"look", "resolve"} PROVE FALSE
          BY <2>1, <2>3, <5>1 DEF Start, TypeOK, Active, Idle
        <5> QED
          BY <4>1, <5>1 DEF Begins, CreateCall, LeaveCall, JoinCall, Call
      <4>2. ASSUME NEW v \in Worker, Handles(v) PROVE v = w
        BY <2>1, <2>3, <4>2, HandlerLeaves DEF Active
      <4>3. ASSUME NEW q \in Room, RoomGoesOn(q) PROVE FALSE
        BY <2>3, <4>3 DEF RoomGoesOn, Transition, Delete, Expire, Removed, Active
      <4>4. ~ UNCHANGED vars
        BY <2>3 DEF vars, Active
      <4> QED
        BY <4>1, <4>2, <4>3, <4>4, NextCases
    <3> QED
      BY <1>1, <1>2, <2>3, <3>1, EndingTells
  <2> QED
    BY <2>2, <2>3
<1> QED
  BY <1>1, <1>2 DEF Known, Grows

\* A participant sits in a Room since before, or by the step of a call that knows of it.
LEMMA OwnerStep ==
  ASSUME TypeOK, TypeOK', CallsKeepShape, OutcomesKeepShape, JoiningIsFirst, OwnerKnows, [Next]_vars
  PROVE  OwnerKnows'
<1>1. ASSUME NEW k \in Room, Exists(k), NEW p \in Player, NEW x, x = room[k].member[p], x # None
      PROVE  Known(k, p, x)'
  <2>1. Known(k, p, x)
    BY <1>1 DEF OwnerKnows, Members, Known
  <2> QED
    BY <1>1, <2>1, KnownStays
<1>2. ASSUME NEW k \in Room, room'[k] # None, NEW p \in Player, NEW x,
             x = room'[k].member[p], x # None
      PROVE  Known(k, p, x)'
  <2>1. CASE Exists(k) /\ room[k].member[p] = x
    BY <1>1, <1>2, <2>1
  <2>2. CASE ~ (Exists(k) /\ room[k].member[p] = x)
    <3>1. ASSUME NEW w \in Worker, Initialize(w) PROVE Known(k, p, x)'
      <4> DEFINE c == call[w]
      <4>1. w \in Active /\ c \in Calls /\ c.step = "initialize"
        BY <3>1, ActiveCalls DEF Initialize
      <4>2. CreateShape(c)
        BY <4>1, CommandOfStep, CreatingShape
      <4>3. PICK drawn \in Drawn :
              LET snapshot == IF Exists(c.room) THEN room[c.room] ELSE NewRoom(c.payload, drawn) IN
              /\ room' = [room EXCEPT ![c.room] = snapshot]
              /\ call' = [call EXCEPT ![w].step = IF c.payload = Invitation THEN "register" ELSE "record",
                                      ![w].code = AnswerCode(c, snapshot),
                                      ![w].participant = HostId]
        BY <3>1 DEF Initialize
      <4> DEFINE snapshot == IF Exists(c.room) THEN room[c.room] ELSE NewRoom(c.payload, drawn)
      <4>4. room'[k] = IF k = c.room THEN snapshot ELSE room[k]
        BY <4>3 DEF TypeOK
      <4>5. k = c.room /\ ~ Exists(k)
        BY <1>2, <2>2, <4>4 DEF Exists
      <4>6. room'[k] = NewRoom(c.payload, drawn)
        BY <4>4, <4>5
      <4>7. p = Founder /\ x = HostId
        BY <1>2, <4>6 DEF NewRoom
      <4>8. PICK t, d : call' = [call EXCEPT ![w].step = t, ![w].code = d, ![w].participant = HostId]
        BY <4>3, Zenon
      <4>9. /\ call'[w].player = c.player /\ call'[w].room = c.room
            /\ call'[w].participant = HostId /\ w \in Worker
        BY <4>1, <4>8 DEF TypeOK, Calls
      <4>10. w \in Active'
        <5>1. call'[w].step = IF c.payload = Invitation THEN "register" ELSE "record"
          <6>1. \A e : call' = [call EXCEPT
                          ![w].step = IF c.payload = Invitation THEN "register" ELSE "record",
                          ![w].code = e, ![w].participant = HostId]
                       => call'[w].step = IF c.payload = Invitation THEN "register" ELSE "record"
            BY <4>1 DEF TypeOK, Calls
          <6> QED
            BY <4>3, <6>1, Zenon
        <5> QED
          BY <4>9, <5>1 DEF Active
      <4> QED
        BY <4>2, <4>5, <4>7, <4>9, <4>10 DEF Known, CreateShape
    <3>2. ASSUME NEW w \in Worker, Admit(w) PROVE Known(k, p, x)'
      <4> DEFINE c == call[w]
                 n == room[c.room].born + 1
      <4>1. w \in Active /\ c \in Calls /\ c.step = "admit"
        BY <3>2, ActiveCalls DEF Admit
      <4>2. JoinShape(c)
        BY <4>1, CommandOfStep, JoiningShape
      <4>3. /\ room' = [room EXCEPT ![c.room].member[c.player] = n, ![c.room].born = @ + 1]
            /\ call' = [call EXCEPT ![w].step = "record", ![w].participant = n]
            /\ Joinable(c)
        BY <1>2, <2>2, <3>2 DEF Admit, Exists
      <4>4. c.room \in Room /\ room[c.room] \in Row /\ c.player \in Player
        BY <4>1, <4>2, <4>3 DEF JoinShape, Joinable, Exists, TypeOK, Calls
      <4>5. k = c.room
        BY <1>2, <2>2, <4>3 DEF Exists, TypeOK
      <4>6. room'[k].member = [room[k].member EXCEPT ![c.player] = n]
        BY <4>3, <4>4, <4>5 DEF TypeOK, Row
      <4>7. p = c.player /\ x = n
        BY <1>2, <2>2, <4>3, <4>4, <4>5, <4>6 DEF Joinable, Row
      <4>8. /\ call'[w].player = c.player /\ call'[w].room = c.room
            /\ call'[w].participant = n /\ call'[w].step = "record" /\ w \in Worker
        BY <4>1, <4>3 DEF TypeOK, Calls
      <4> QED
        BY <4>5, <4>7, <4>8 DEF Known, Active
    <3>3. ASSUME NEW q, Exists(q), NEW s, room' = [room EXCEPT ![q] = Without(q, s)] PROVE FALSE
      <4>1. q = k /\ room[k] \in Row
        BY <1>2, <2>2, <3>3 DEF TypeOK, Exists
      <4>2. room'[k].member = [room[k].member EXCEPT ![s] = None]
        BY <3>3, <4>1 DEF Without, TypeOK, Row
      <4> QED
        BY <1>2, <2>2, <3>3, <4>1, <4>2 DEF Row
    <3>4. ASSUME NEW w \in Worker, Handles(w) PROVE Initialize(w) \/ Admit(w)
      <4>1. CASE Depart(w)
        BY <1>2, <2>2, <3>3, <4>1 DEF Depart, Leavable, Exists
      <4> QED
        BY <1>2, <2>2, <3>4, <4>1 DEF Handles, Look, Record, Register, Resolve, GiveUp, Exists
    <3>5. ASSUME NEW w \in Worker, Begins(w) PROVE FALSE
      BY <1>2, <2>2, <3>5 DEF Begins, CreateCall, LeaveCall, JoinCall, Start, Exists
    <3>6. ASSUME NEW q \in Room, RoomGoesOn(q) PROVE FALSE
      <4>1. CASE Transition(q)
        <5>1. room[q] \in Row
          BY <4>1 DEF Transition, Exists, TypeOK
        <5>2. PICK t : room' = [room EXCEPT ![q].state = t]
          BY <4>1 DEF Transition
        <5>3. room'[k] # None => Exists(k) /\ room'[k].member = room[k].member
          BY <5>1, <5>2, NoneApart DEF Exists, TypeOK, Row
        <5> QED
          BY <1>2, <2>2, <5>3
      <4>2. CASE Delete(q)
        BY <1>2, <2>2, <4>2 DEF Delete, Exists, TypeOK
      <4>3. ASSUME NEW s \in Player, Removed(q, s) PROVE FALSE
        BY <3>3, <4>3 DEF Removed
      <4> QED
        BY <1>2, <2>2, <3>6, <4>1, <4>2, <4>3 DEF RoomGoesOn, Expire, Exists
    <3> QED
      BY <1>2, <2>2, <3>1, <3>2, <3>4, <3>5, <3>6, NextCases DEF vars, Exists
  <2> QED
    BY <2>1, <2>2
<1> QED
  <2>1. ASSUME NEW k \in Room, room'[k] # None, NEW p \in Player, room'[k].member[p] # None
        PROVE  \/ \E w \in Active' : /\ call'[w].player = p /\ call'[w].room = k
                                    /\ call'[w].participant = room'[k].member[p]
               \/ <<k, room'[k].member[p]>> \in lost'
               \/ \E r \in Request : <<p, r>> \in doubled'
               \/ \E a \in answers' : /\ a.room = k /\ a.player = p
                                     /\ a.participant = room'[k].member[p]
    <3>1. PICK x : x = room'[k].member[p]
      OBVIOUS
    <3>2. Known(k, p, x)'
      BY <1>2, <2>1, <3>1
    <3> QED
      BY <3>1, <3>2 DEF Known
  <2> QED
    BY <2>1 DEF OwnerKnows, Members, Exists
-----------------------------------------------------------------------------
(* Refused creations *)

\* Why the creation of Room k with payload m may be refused.
Cause(k, m) ==
  \/ k \in deleted
  \/ \E n \in Method \ {m} : <<k, n>> \in asked
  \/ \E q \in Room \ {k} : Exists(k) /\ invite[room[k].code] = q

LEMMA CauseStays ==
  ASSUME TypeOK, CallsKeepShape, [Next]_vars, NEW k \in Room, NEW m, Cause(k, m)
  PROVE  Cause(k, m)'
<1>1. Grows
  BY StepGrows
<1>2. ASSUME NEW q \in Room \ {k}, Exists(k), invite[room[k].code] = q PROVE Cause(k, m)'
  <2>1. room[k].code \in Code
    BY <1>2 DEF Exists, TypeOK, Row
  <2>2. invite'[room[k].code] = q
    BY <1>1, <1>2, <2>1, NoneApart DEF Grows
  <2>3. k \in deleted' \/ (Exists(k)' /\ room'[k].code = room[k].code)
    BY <1>2, RoomStays
  <2> QED
    BY <1>2, <2>2, <2>3 DEF Cause
<1> QED
  BY <1>1, <1>2 DEF Cause, Grows

\* A stored creation of the Room has another payload.
LEMMA OtherPayload ==
  ASSUME TypeOK, CallsKeepShape, OutcomesKeepShape, Grows, NEW w \in Active,
         call[w].command = "create", NEW k, k = call[w].room, NEW m, m = call[w].payload,
         stored[k][KeyOf(call[w])] # None, ~ SameInput(stored[k][KeyOf(call[w])], call[w])
  PROVE  Cause(k, m)'
<1>1. CreateShape(call[w]) /\ KeyOf(call[w]) = CreateKey
  BY CreatingShape, KeyOfCall
<1>2. k \in Room /\ CreateKey \in Key
  BY <1>1 DEF CreateShape, Key
<1>3. stored[k][CreateKey].command = "create" /\ CreationOf(k, stored[k][CreateKey])
  BY <1>1, <1>2 DEF OutcomesKeepShape
<1>4. stored[k][CreateKey].payload # m
  BY <1>1, <1>3 DEF SameInput
<1>5. stored[k][CreateKey].payload \in Method \ {m} /\ <<k, stored[k][CreateKey].payload>> \in asked'
  BY <1>3, <1>4 DEF CreationOf, Grows
<1> QED
  BY <1>5 DEF Cause

\* A call that is refused as a creation.
LEMMA RefusedSeen ==
  ASSUME NEW w, Refuse(w), NEW a \in refused', a \notin refused
  PROVE  /\ call[w].command = "create"
         /\ a.room = call[w].room /\ a.payload = call[w].payload /\ a.command = "create"
  BY DEF Refuse, Seen

LEMMA LookRefuses ==
  ASSUME TypeOK, CallsKeepShape, OutcomesKeepShape, Grows, NEW w \in Worker, Look(w),
         NEW a \in refused', a \notin refused
  PROVE  Cause(a.room, a.payload)'
<1> DEFINE c == call[w]
<1>1. w \in Active
  BY ActiveCalls DEF Look
<1>2. Refuse(w) /\ stored[c.room][KeyOf(c)] # None /\ ~ SameInput(stored[c.room][KeyOf(c)], c)
  BY DEF Look, Lookup, Answer, Unanswered
<1> QED
  BY <1>1, <1>2, RefusedSeen, OtherPayload

\* The code of the Room belongs to another one, or the Room is not what it was.
LEMMA RegisterRefuses ==
  ASSUME TypeOK, CallsKeepShape, InviteOfRoom, CreatingHasRoom, Grows, NEW w \in Worker,
         Register(w), NEW a \in refused', a \notin refused
  PROVE  Cause(a.room, a.payload)'
<1> DEFINE c == call[w]
           k == c.room
<1>1. w \in Active /\ c.step \in {"register", "restore"}
  BY ActiveCalls DEF Register
<1>2. CreateShape(c) /\ c.command = "create"
  BY <1>1, CommandOfStep, CreatingShape
<1>3. Refuse(w) /\ invite'[c.code] # k /\ UNCHANGED <<room, deleted>>
  BY DEF Register, Answer, Unanswered, OwnRow
<1>4. a.room = k /\ a.payload = c.payload
  BY <1>3, RefusedSeen
<1>5. k \in Room /\ c.code \in Code
  BY <1>1, <1>2 DEF CreateShape
<1>6. invite' = IF invite[c.code] = None /\ \A d \in Code : invite[d] # k
                 THEN [invite EXCEPT ![c.code] = k]
                 ELSE invite
  BY DEF Register
<1>7. c.step = "register"
  <2>1. CASE c.step = "restore"
    <3>1. invite[c.code] = k
      BY <1>2, <2>1 DEF CreateShape
    <3> QED
      BY <1>3, <1>5, <1>6, <3>1, NoneApart
  <2> QED
    BY <1>1, <2>1
<1>8. CASE k \in deleted
  BY <1>3, <1>4, <1>8 DEF Cause
<1>9. CASE k \notin deleted
  <2>1. Exists(k) /\ room[k].code = c.code
    BY <1>1, <1>2, <1>7, <1>9 DEF CreatingHasRoom
  <2>2. invite[c.code] # None
    <3>1. CASE \A d \in Code : invite[d] # k
      BY <1>3, <1>5, <1>6, <3>1 DEF TypeOK
    <3>2. ASSUME NEW d \in Code, invite[d] = k PROVE FALSE
      <4>1. room[k].code = d
        BY <1>5, <1>9, <3>2, NoneApart DEF InviteOfRoom
      <4> QED
        BY <1>3, <1>5, <1>6, <2>1, <3>2, <4>1, NoneApart
    <3> QED
      BY <3>1, <3>2
  <2>3. invite' = invite /\ invite[c.code] \in Room \ {k}
    BY <1>3, <1>5, <1>6, <2>2 DEF TypeOK
  <2> QED
    BY <1>3, <1>4, <2>1, <2>3 DEF Cause, Exists
<1> QED
  BY <1>8, <1>9

LEMMA RecordRefuses ==
  ASSUME TypeOK, CallsKeepShape, OutcomesKeepShape, CreatingHasRoom, Grows, NEW w \in Worker,
         Record(w), NEW a \in refused', a \notin refused
  PROVE  Cause(a.room, a.payload)'
<1> DEFINE c == call[w]
<1>1. w \in Active /\ c.step = "record"
  BY ActiveCalls DEF Record
<1>2. /\ Refuse(w) /\ UNCHANGED deleted
      /\ \/ ~ Exists(c.room)
         \/ /\ stored[c.room][KeyOf(c)] # None
            /\ ~ SameInput(stored[c.room][KeyOf(c)], c)
  BY DEF Record, Answer
<1>3. c.command = "create" /\ a.room = c.room /\ a.payload = c.payload
  BY <1>2, RefusedSeen
<1>4. CASE ~ Exists(c.room)
  BY <1>1, <1>2, <1>3, <1>4 DEF CreatingHasRoom, Cause
<1> QED
  BY <1>1, <1>2, <1>3, <1>4, OtherPayload

LEMMA RefusedStep ==
  ASSUME TypeOK, CallsKeepShape, OutcomesKeepShape, InviteOfRoom, CreatingHasRoom,
         RefusedForCause, [Next]_vars
  PROVE  RefusedForCause'
<1>1. Grows
  BY StepGrows
<1>2. ASSUME NEW a \in refused, a.command = "create" PROVE Cause(a.room, a.payload)'
  BY <1>2, CauseStays DEF RefusedForCause, Cause, TypeOK, Answers
<1>3. ASSUME NEW a \in refused', a \notin refused, a.command = "create"
      PROVE  Cause(a.room, a.payload)'
  <2>1. ASSUME NEW w \in Worker, Begins(w) PROVE FALSE
    BY <1>3, <2>1 DEF Begins, CreateCall, LeaveCall, JoinCall, Start
  <2>2. ASSUME NEW k \in Room, RoomGoesOn(k) PROVE FALSE
    BY <1>3, <2>2 DEF RoomGoesOn, Transition, Delete, Expire, Removed, history
  <2>3. ASSUME NEW w \in Worker, Handles(w) PROVE Cause(a.room, a.payload)'
    <3>1. ~ (Initialize(w) \/ GiveUp(w))
      BY <1>3 DEF Initialize, GiveUp, history
    <3>2. ~ (Resolve(w) \/ Admit(w) \/ Depart(w))
      <4>1. ASSUME Resolve(w) \/ Admit(w) \/ Depart(w) PROVE FALSE
        <5>1. w \in Active /\ call[w].step \in {"resolve", "admit", "depart"}
          BY <4>1, ActiveCalls DEF Resolve, Admit, Depart
        <5>2. call[w].command # "create"
          BY <5>1, CommandOfStep
        <5>3. Refuse(w)
          BY <1>3, <4>1 DEF Resolve, Admit, Depart, Answer, Unanswered
        <5> QED
          BY <1>3, <5>2, <5>3, RefusedSeen
      <4> QED
        BY <4>1
    <3> QED
      BY <1>1, <1>3, <2>3, <3>1, <3>2, LookRefuses, RegisterRefuses, RecordRefuses DEF Handles
  <2>4. ~ UNCHANGED vars
    BY <1>3 DEF vars, history
  <2> QED
    BY <2>1, <2>2, <2>3, <2>4, NextCases
<1> QED
  BY <1>2, <1>3 DEF RefusedForCause, Cause
-----------------------------------------------------------------------------
(* The theorems *)

LEMMA InitInv == Init => IInv
<1> SUFFICES ASSUME Init PROVE IInv
  OBVIOUS
<1>1. Active = {}
  BY DEF Init, Active, Idle
<1>2. TypeOK
  BY DEF Init, TypeOK
<1>3. OutcomesKeepShape /\ InviteUnique /\ InviteOfRoom
  BY DEF Init, OutcomesKeepShape, InviteUnique, InviteOfRoom
<1>4. AnswersKeepShape /\ AnswersStored /\ RefusedForCause /\ OwnerKnows
  BY DEF Init, AnswersKeepShape, AnswersStored, RefusedForCause, OwnerKnows, Exists
<1>5. CallsKeepShape /\ CreatingHasRoom /\ RestoringStored /\ TwinsAreDoubled /\ JoiningIsFirst
  BY <1>1 DEF CallsKeepShape, CreatingHasRoom, RestoringStored, TwinsAreDoubled, JoiningIsFirst
<1> QED
  BY <1>2, <1>3, <1>4, <1>5 DEF IInv

LEMMA NextInv == IInv /\ [Next]_vars => IInv'
<1> SUFFICES ASSUME IInv, [Next]_vars PROVE IInv'
  OBVIOUS
<1> USE DEF IInv
<1>1. TypeOK' /\ CallsKeepShape'
  BY TypeStep, CallsShapeStep
<1>2. OutcomesKeepShape' /\ AnswersKeepShape' /\ AnswersStored'
  BY OutcomesShapeStep, AnswersStep
<1>3. InviteUnique' /\ InviteOfRoom' /\ CreatingHasRoom'
  BY InviteUniqueStep, InviteOfRoomStep, CreatingStep
<1>4. RestoringStored' /\ TwinsAreDoubled' /\ JoiningIsFirst'
  BY RestoringStep, TwinsStep, JoiningStep
<1>5. OwnerKnows' /\ RefusedForCause'
  BY <1>1, OwnerStep, RefusedStep
<1> QED
  BY <1>1, <1>2, <1>3, <1>4, <1>5

LEMMA Invariance == Spec => []IInv
  BY InitInv, NextInv, PTL DEF Spec

\* The Rooms, the table of invitations and the handlers keep their shape.
THEOREM TypeCorrect == Spec => []TypeOK
<1>1. IInv => TypeOK
  BY DEF IInv
<1> QED
  BY <1>1, Invariance, PTL

\* However often a creation is sent, and whatever is lost, deleted or forgotten in between,
\* its answers name one participant and one invitation code.
THEOREM CreationsAgree == Spec => []CreatedOnce
<1>1. IInv => CreatedOnce
  <2> SUFFICES ASSUME IInv, NEW a \in Answered("create"), NEW b \in Answered("create"),
                      a.room = b.room
               PROVE  IF a.payload = b.payload
                        THEN a.participant = b.participant /\ a.code = b.code
                        ELSE Forgotten(a.room, CreateKey)
    BY DEF CreatedOnce
  <2>1. CreationOf(a.room, a) /\ CreationOf(a.room, b)
    BY DEF Answered, IInv, AnswersKeepShape
  <2>2. CASE a.payload = b.payload
    BY <2>1, <2>2, NoneApart DEF CreationOf, IInv, InviteUnique, TypeOK, Answered, Answers
  <2>3. CASE a.payload # b.payload
    BY <2>3 DEF Answered, IInv, AnswersStored
  <2> QED
    BY <2>2, <2>3
<1> QED
  BY <1>1, Invariance, PTL

\* A creation is refused only because codes collide, the same request asked for something
\* else or the Room was deleted: a half-done creation never stands in its own way.
THEOREM RefusalsHaveCause == Spec => []RefusedForCause
<1>1. IInv => RefusedForCause
  BY DEF IInv
<1> QED
  BY <1>1, Invariance, PTL

\* Every participant of a Room is known to its client: by an answer, by a call under way,
\* or as the loss of a call that ended, unless the request was sent twice at a time.
THEOREM ParticipantsAreKnown == Spec => []EveryoneKnows
<1>1. IInv => EveryoneKnows
  BY DEF IInv, OwnerKnows, EveryoneKnows, Joining
<1> QED
  BY <1>1, Invariance, PTL

\* The answers to one join request of a player in a Room name one participant until its
\* result is forgotten.
THEOREM JoinsAgree == Spec => []JoinedOnce
<1>1. IInv => JoinedOnce
  <2> SUFFICES ASSUME IInv, NEW a \in Answered("join"), NEW b \in Answered("join"),
                      a.player = b.player, a.room = b.room, a.request = b.request,
                      ~ Forgotten(a.room, <<a.player, a.request>>)
               PROVE  a.participant = b.participant
    BY DEF JoinedOnce
  <2> QED
    BY DEF Answered, IInv, AnswersStored
<1> QED
  BY <1>1, Invariance, PTL

\* A creation or a join, sent any number of times, has one outcome.
THEOREM OutcomesAgree == Spec => []OneOutcome
<1>1. CreatedOnce /\ JoinedOnce => OneOutcome
  BY DEF OneOutcome
<1> QED
  BY <1>1, CreationsAgree, JoinsAgree, PTL
=============================================================================
