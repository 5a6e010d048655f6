--------------------------- MODULE RoomClientProofs ---------------------------
(***************************************************************************)
(* Proofs about RoomClient: a client that has read everything shows the    *)
(* Room as it is, and an open handle never goes back or skips a revision,  *)
(* for any commands, history, number of attempts and faults.               *)
(***************************************************************************)
EXTENDS RoomClientProperties, SequenceTheorems, TLAPS

\* Tables keep their shape under one more entry.
LEMMA StoreType ==
  ASSUME NEW S, NEW T, NEW f \in [S -> T], NEW s \in S, NEW t \in T
  PROVE  [f EXCEPT ![s] = t] \in [S -> T]
  OBVIOUS

LEMMA SendingType ==
  ASSUME NEW s \in Sending
  PROVE  s[1] \in Command /\ s[2] \in 1 .. MaxSends /\ s = <<s[1], s[2]>>
  BY DEF Sending

LEMMA RejectedType == TypeOK => Rejected \in [Sending -> {"unused", "waiting", "resolved", "rejected"}]
  BY DEF TypeOK, Rejected

LEMMA EventType == ASSUME NEW r \in Nat, NEW h \in BOOLEAN PROVE Event(r, h) \in Message
  BY DEF Event, Message

LEMMA AnswerType == ASSUME NEW c \in Command, NEW r \in Nat PROVE Answer(c, r) \in Message
  BY DEF Answer, Message

LEMMA FailureType == ASSUME NEW c \in Command PROVE Failure(c) \in Message
  BY DEF Failure, Message

LEMMA AppendType ==
  ASSUME NEW w \in Seq(Message), NEW m \in Message
  PROVE  Append(w, m) \in Seq(Message)
  OBVIOUS

LEMMA SingleType == ASSUME NEW m \in Message PROVE <<m>> \in Seq(Message)
  OBVIOUS

LEMMA ReplayType ==
  ASSUME NEW last \in Nat, revision \in Nat
  PROVE  Replay(last) \in Seq(Message)
<1>1. CASE revision - last > HistoryLimit
  BY <1>1 DEF Replay
<1>2. CASE ~ (revision - last > HistoryLimit)
  <2> DEFINE events == [i \in 1 .. (revision - last) |-> Event(last + i, FALSE)]
  <2>1. \A i \in 1 .. (revision - last) : Event(last + i, FALSE) \in Message
    <3>1. TAKE i \in 1 .. (revision - last)
    <3>2. last + i \in Nat
      OBVIOUS
    <3> QED
      BY <3>2, EventType
  <2>2. \E n \in Nat : 1 .. (revision - last) = 1 .. n
    <3>1. CASE revision - last \in Nat
      BY <3>1
    <3>2. CASE revision - last \notin Nat
      <4>1. 1 .. (revision - last) = 1 .. 0
        BY <3>2
      <4> QED
        BY <4>1
    <3> QED
      BY <3>1, <3>2
  <2>3. PICK n \in Nat : 1 .. (revision - last) = 1 .. n
    BY <2>2
  <2>4. events \in [1 .. n -> Message]
    BY <2>1, <2>3, Zenon
  <2>5. events \in Seq(Message)
    <3> HIDE DEF events
    <3> QED
      BY <2>4, SeqDef, Zenon
  <2> QED
    BY <2>5, <1>2 DEF Replay
<1> QED
  BY <1>1, <1>2

LEMMA PublishType == TypeOK /\ Publish => revision' \in Nat /\ wire' \in Seq(Message)
<1> SUFFICES ASSUME TypeOK, Publish PROVE revision' \in Nat /\ wire' \in Seq(Message)
  OBVIOUS
<1>1. revision \in Nat /\ wire \in Seq(Message)
  BY DEF TypeOK
<1>2. Append(wire, Event(revision + 1, FALSE)) \in Seq(Message)
  <2>1. revision + 1 \in Nat
    BY <1>1
  <2>2. Event(revision + 1, FALSE) \in Message
    BY <2>1, EventType
  <2> QED
    BY <1>1, <2>2, AppendType
<1>3. wire' = Append(wire, Event(revision + 1, FALSE)) \/ wire' = wire
  BY DEF Publish
<1>4. revision' \in Nat
  BY <1>1 DEF Publish
<1> QED
  BY <1>1, <1>2, <1>3, <1>4

LEMMA TerminateType ==
  ASSUME TypeOK, Terminate, RoomClientAssumption
  PROVE  /\ socket' = "closed"
         /\ wire' \in Seq(Message)
         /\ inbound' \subseteq Sending /\ stray' \subseteq Sending /\ owed' \subseteq Sending
         /\ entry' \in [Command -> 0 .. MaxSends]
         /\ promise' \in [Sending -> {"unused", "waiting", "resolved", "rejected"}]
<1>1. MaxSends \in Nat
  BY DEF RoomClientAssumption
<1> QED
  BY <1>1, RejectedType DEF Terminate, TypeOK

LEMMA ScheduleType ==
  ASSUME NEW n \in Nat, Schedule(n)
  PROVE  status' \in {"reconnecting", "disconnected"} /\ timer' \in BOOLEAN /\ attempts' \in Nat
  BY DEF Schedule

\* Each action of the Room keeps the shape of the state.
LEMMA TypeOfRoom == RoomClientAssumption /\ TypeOK /\ RoomNext => TypeOK'
<1> SUFFICES ASSUME RoomClientAssumption, TypeOK, RoomNext PROVE TypeOK'
  OBVIOUS
<1> USE DEF server, link, handle
<1>1. CASE Change
  <2>1. revision' \in Nat /\ wire' \in Seq(Message)
    BY <1>1, PublishType DEF Change
  <2>2. changes' \in Nat
    BY <1>1 DEF Change, TypeOK
  <2> QED
    BY <1>1, <2>1, <2>2 DEF Change, TypeOK
<1>2. CASE Remove
  BY <1>2, PublishType DEF Remove, TypeOK
<1>3. CASE Notice
  BY <1>3 DEF Notice, TypeOK
<1>4. CASE Accept
  <2>1. revision \in Nat /\ shown \in Nat
    BY DEF TypeOK
  <2>2. Event(revision, TRUE) \in Message /\ Replay(shown) \in Seq(Message) /\ << >> \in Seq(Message)
    <3>1. Event(revision, TRUE) \in Message
      BY <2>1, EventType
    <3>2. Replay(shown) \in Seq(Message)
      BY <2>1, ReplayType
    <3>3. << >> \in Seq(Message)
      OBVIOUS
    <3> QED
      BY <3>1, <3>2, <3>3
  <2>3. wire' = Append(Replay(shown), Event(revision, TRUE)) \/ wire' = Append(<< >>, Event(revision, TRUE))
    <3>1. wire' = Append(IF token THEN Replay(shown) ELSE << >>, Event(revision, TRUE))
      BY <1>4 DEF Accept
    <3>2. CASE token
      BY <3>1, <3>2, Zenon
    <3>3. CASE ~token
      BY <3>1, <3>3, Zenon
    <3> QED
      BY <3>2, <3>3
  <2>4. wire' \in Seq(Message)
    BY <2>2, <2>3, AppendType
  <2> QED
    BY <1>4, <2>4 DEF Accept, TypeOK
<1>5. ASSUME NEW s \in Sending, Execute(s) PROVE TypeOK'
  <2>1. s[1] \in Command
    BY SendingType
  <2>2. CASE stored[s[1]] = 0
    <3>1. Publish /\ stored' = [stored EXCEPT ![s[1]] = revision + 1]
      BY <1>5, <2>2 DEF Execute
    <3>2. stored' \in [Command -> Nat]
      BY <3>1, <2>1, StoreType, SMTT(30) DEF TypeOK
    <3> QED
      BY <1>5, <3>1, <3>2, PublishType DEF Execute, TypeOK
  <2>3. CASE stored[s[1]] # 0
    BY <1>5, <2>3 DEF Execute, TypeOK
  <2> QED
    BY <2>2, <2>3
<1>6. ASSUME NEW s \in Sending, Respond(s) PROVE TypeOK'
  <2>1. s[1] \in Command
    BY SendingType
  <2>2. stored[s[1]] \in Nat
    BY <2>1 DEF TypeOK
  <2>3. Answer(s[1], stored[s[1]]) \in Message
    BY <2>1, <2>2, AnswerType
  <2>4. wire' \in Seq(Message)
    BY <1>6, <2>3, AppendType DEF Respond, TypeOK
  <2> QED
    BY <1>6, <2>4 DEF Respond, TypeOK
<1>7. ASSUME NEW s \in Sending, Refuse(s) PROVE TypeOK'
  <2>1. Failure(s[1]) \in Message
    BY SendingType, FailureType
  <2>2. wire' \in Seq(Message)
    BY <1>7, <2>1, AppendType DEF Refuse, TypeOK
  <2> QED
    BY <1>7, <2>2 DEF Refuse, TypeOK
<1>8. ASSUME NEW s \in Sending, LoseStray(s) PROVE TypeOK'
  BY <1>8 DEF LoseStray, TypeOK
<1>9. CASE RoomLeaves
  <2>1. revision' \in Nat /\ wire' \in Seq(Message)
    BY <1>9, PublishType DEF RoomLeaves
  <2>2. leaving' \in Nat /\ valid' \in BOOLEAN
    <3>1. leaving' = revision + 2 /\ valid' = FALSE /\ revision \in Nat
      BY <1>9 DEF RoomLeaves, TypeOK
    <3>2. leaving' \in Nat
      BY <3>1
    <3>3. valid' \in BOOLEAN
      BY <3>1
    <3> QED
      BY <3>2, <3>3
  <2> QED
    BY <1>9, <2>1, <2>2 DEF RoomLeaves, TypeOK
<1>10. CASE LeaveRefused
  BY <1>10 DEF LeaveRefused, TypeOK
<1> QED
  BY <1>1, <1>2, <1>3, <1>4, <1>5, <1>6, <1>7, <1>8, <1>9, <1>10 DEF RoomNext

\* So does each action of the client.
LEMMA TypeOfClient == RoomClientAssumption /\ TypeOK /\ ClientNext => TypeOK'
<1> SUFFICES ASSUME RoomClientAssumption, TypeOK, ClientNext PROVE TypeOK'
  OBVIOUS
<1> USE DEF server, link, handle
<1>a. MaxSends \in Nat
  BY DEF RoomClientAssumption
<1>b. Lost => /\ socket' = "closed" /\ wire' \in Seq(Message)
              /\ inbound' \subseteq Sending /\ stray' \subseteq Sending /\ owed' \subseteq Sending
              /\ entry' \in [Command -> 0 .. MaxSends]
              /\ promise' \in [Sending -> {"unused", "waiting", "resolved", "rejected"}]
              /\ status' \in {"reconnecting", "disconnected"} /\ timer' \in BOOLEAN /\ attempts' \in Nat
  <2>1. 0 \in Nat
    OBVIOUS
  <2> QED
    BY <2>1, TerminateType, ScheduleType DEF Lost
<1>1. CASE Drop
  <2>1. drops' \in Nat
    BY <1>1 DEF Drop, TypeOK
  <2> QED
    BY <1>1, <1>b, <2>1 DEF Drop, TypeOK
<1>2. CASE Retry
  <2>1. attempts' \in Nat
    BY <1>2 DEF Retry, TypeOK
  <2>2. timer' = FALSE /\ socket' = "connecting"
    BY <1>2 DEF Retry
  <2> QED
    BY <1>2, <2>1, <2>2 DEF Retry, TypeOK
<1>3. CASE AttemptFails
  <2>1. drops' \in Nat
    BY <1>3 DEF AttemptFails, TypeOK
  <2>2. /\ status' \in {"connected", "reconnecting", "disconnected"}
        /\ timer' \in BOOLEAN /\ attempts' \in Nat
    <3>1. CASE status = "disconnected"
      BY <1>3, <3>1 DEF AttemptFails, TypeOK
    <3>2. CASE status # "disconnected"
      <4>1. Schedule(attempts) /\ attempts \in Nat
        BY <1>3, <3>2 DEF AttemptFails, TypeOK
      <4> QED
        BY <4>1, ScheduleType
    <3>3. << >> \in Seq(Message)
      OBVIOUS
    <3> QED
      BY <3>1, <3>2, <3>3
  <2>3. wire' = << >> /\ socket' = "closed"
    BY <1>3 DEF AttemptFails
  <2> QED
    BY <1>3, <2>1, <2>2, <2>3, SMTT(30) DEF AttemptFails, TypeOK
<1>4. CASE ConnectTimeout
  BY <1>4 DEF ConnectTimeout, TypeOK
<1>5. CASE Opened
  <2>1. CASE status = "disconnected"
    BY <1>5, <2>1 DEF Opened, TypeOK
  <2>2. CASE status # "disconnected"
    <3>1. socket' = "open" /\ wire' = wire /\ status' = "connected" /\ attempts' = 0
      BY <1>5, <2>2 DEF Opened
    <3> QED
      BY <1>5, <3>1 DEF Opened, TypeOK
  <2> QED
    BY <2>1, <2>2
<1>6. CASE ReceiveSnapshot
  <2>1. Head(wire) \in Message /\ Tail(wire) \in Seq(Message)
    BY <1>6 DEF ReceiveSnapshot, TypeOK
  <2>2. Head(wire).revision \in Nat /\ Head(wire).handshake \in BOOLEAN
    BY <1>6, <2>1 DEF ReceiveSnapshot, Message
  <2>3. token' \in BOOLEAN
    BY <1>6, <2>2 DEF ReceiveSnapshot, TypeOK
  <2>4. CASE InSequence(Head(wire).revision)
    BY <1>6, <2>1, <2>2, <2>3, <2>4 DEF ReceiveSnapshot, TypeOK
  <2>5. CASE ~InSequence(Head(wire).revision)
    BY <1>6, <1>b, <2>3, <2>5 DEF ReceiveSnapshot, TypeOK
  <2> QED
    BY <2>4, <2>5
<1>7. CASE ReceiveAnswer
  <2> DEFINE m == Head(wire)
             s == <<m.command, entry[m.command]>>
  <2>1. m \in Message /\ Tail(wire) \in Seq(Message)
    BY <1>7 DEF ReceiveAnswer, TypeOK
  <2>2. m.command \in Command /\ (m.kind = "answer" => m.revision \in Nat)
    BY <1>7, <2>1 DEF ReceiveAnswer, Message
  <2>3. entry[m.command] \in 0 .. MaxSends
    BY <2>2 DEF TypeOK
  <2>4. wire' \in Seq(Message)
    BY <1>7, <2>1 DEF ReceiveAnswer
  <2>5. CASE entry[m.command] = 0
    BY <1>7, <2>4, <2>5 DEF ReceiveAnswer, TypeOK
  <2>6. CASE entry[m.command] # 0
    <3>1. /\ entry' = [entry EXCEPT ![m.command] = 0]
          /\ promise' = [promise EXCEPT ![s] = IF m.kind = "answer" THEN "resolved" ELSE "rejected"]
          /\ shown' = IF m.kind = "answer" THEN Later(shown, m.revision) ELSE shown
      BY <1>7, <2>6 DEF ReceiveAnswer
    <3>2. s \in Sending
      BY <1>a, <2>2, <2>3, <2>6 DEF Sending
    <3>3. shown' \in Nat
      BY <3>1, <2>2 DEF Later, TypeOK
    <3>4. entry' \in [Command -> 0 .. MaxSends]
      BY <1>a, <3>1, <2>2 DEF TypeOK
    <3>5. promise' \in [Sending -> {"unused", "waiting", "resolved", "rejected"}]
      BY <3>1, <3>2 DEF TypeOK
    <3> QED
      BY <1>7, <2>4, <3>3, <3>4, <3>5 DEF ReceiveAnswer, TypeOK
  <2> QED
    BY <2>5, <2>6
<1>8. ASSUME NEW c \in Command, NEW n \in 1 .. MaxSends, Send(c, n) PROVE TypeOK'
  <2>1. <<c, n>> \in Sending
    BY DEF Sending
  <2>2. promise' \in [Sending -> {"unused", "waiting", "resolved", "rejected"}]
    BY <1>8, <2>1 DEF Send, TypeOK
  <2>3. entry' \in [Command -> 0 .. MaxSends]
    BY <1>8, <1>a DEF Send, TypeOK
  <2>4. inbound' \subseteq Sending
    BY <1>8, <2>1 DEF Send, TypeOK
  <2> QED
    BY <1>8, <2>2, <2>3, <2>4 DEF Send, TypeOK
<1>9. ASSUME NEW c \in Command, NEW n \in 1 .. MaxSends, CommandTimeout(c, n) PROVE TypeOK'
  <2>1. <<c, n>> \in Sending
    BY DEF Sending
  <2>2. promise' \in [Sending -> {"unused", "waiting", "resolved", "rejected"}]
    BY <1>9, <2>1 DEF CommandTimeout, TypeOK
  <2>3. entry' \in [Command -> 0 .. MaxSends]
    BY <1>9, <1>a DEF CommandTimeout, TypeOK
  <2> QED
    BY <1>9, <2>2, <2>3 DEF CommandTimeout, TypeOK
<1>10. CASE Leave
  BY <1>10 DEF Leave, TypeOK
<1>11. CASE LeaveAnswered
  <2>1. shown' \in Nat /\ leaving' \in Nat /\ status' = "disconnected"
    BY <1>11 DEF LeaveAnswered, Later, TypeOK
  <2>2. CASE status = "connected"
    BY <1>11, <2>1, <2>2, TerminateType DEF LeaveAnswered, TypeOK
  <2>3. CASE status # "connected"
    BY <1>11, <2>1, <2>3 DEF LeaveAnswered, TypeOK
  <2> QED
    BY <2>2, <2>3
<1> QED
  BY <1>1, <1>2, <1>3, <1>4, <1>5, <1>6, <1>7, <1>8, <1>9, <1>10, <1>11 DEF ClientNext

LEMMA TypeInit == RoomClientAssumption /\ Init => TypeOK
<1> SUFFICES ASSUME RoomClientAssumption, Init PROVE TypeOK
  OBVIOUS
<1>1. revision \in Nat /\ changes \in Nat
  BY DEF Init, RoomClientAssumption
<1>2. wire \in Seq(Message)
  <2>1. Event(revision, TRUE) \in Message
    BY <1>1, EventType
  <2> QED
    BY <2>1, SingleType DEF Init
<1>3. MaxSends \in Nat
  BY DEF RoomClientAssumption
<1>4. promise \in [Sending -> {"unused", "waiting", "resolved", "rejected"}]
  BY DEF Init
<1>5. entry \in [Command -> 0 .. MaxSends] /\ stored \in [Command -> Nat]
  BY <1>3 DEF Init
<1> QED
  <2>1. {revision, changes, drops, shown, attempts, leaving} \subseteq Nat
    BY <1>1 DEF Init
  <2>2. {valid, noticed, timer, token} \subseteq BOOLEAN
    BY DEF Init
  <2>3. socket = "open" /\ status = "connected" /\ inbound = {} /\ stray = {} /\ owed = {}
    BY DEF Init
  <2> QED
    BY <1>2, <1>4, <1>5, <2>1, <2>2, <2>3 DEF TypeOK

LEMMA TypeStep == RoomClientAssumption /\ TypeOK /\ [Next]_vars => TypeOK'
<1> SUFFICES ASSUME RoomClientAssumption, TypeOK, [Next]_vars PROVE TypeOK'
  OBVIOUS
<1>1. CASE RoomNext
  BY <1>1, TypeOfRoom
<1>2. CASE ClientNext
  BY <1>2, TypeOfClient
<1>3. CASE UNCHANGED vars
  BY <1>3 DEF TypeOK, vars, server, link, handle
<1> QED
  BY <1>1, <1>2, <1>3 DEF Next

\* The state keeps its shape, for any commands, bounds and faults.
THEOREM TypeCorrect == Spec => []TypeOK
<1>1. RoomClientAssumption
  BY RoomClientAssumption
<1> QED
  BY <1>1, TypeInit, TypeStep, PTL DEF Spec
-----------------------------------------------------------------------------
(***************************************************************************)
(* Nothing of the Room's future is on its way, and on a socket that the    *)
(* Room sends to, whatever the client does not show yet is still on the    *)
(* wire, before the answers that presuppose it.                            *)
(***************************************************************************)
Shows(r, k) == r <= shown \/ \E j \in 1 .. k : wire[j].kind = "snapshot" /\ r <= wire[j].revision

SocketInv ==
  /\ status = "connected" <=> socket = "open"
  /\ inbound \cup owed # {} => socket = "open"
  /\ timer => socket = "closed"
  /\ ~Listening => wire = << >>

PastInv ==
  /\ \A c \in Command : stored[c] <= revision
  /\ shown <= revision
  /\ leaving > 1 => leaving - 1 <= revision
  /\ \A i \in 1 .. Len(wire) : wire[i].kind = "snapshot" => wire[i].revision <= revision

WireInv ==
  /\ Listening => Shows(revision, Len(wire))
  /\ \A i \in 1 .. Len(wire) : wire[i].kind = "answer" => Shows(wire[i].revision, i - 1)

ClientInv == SocketInv /\ PastInv /\ WireInv

\* A broadcast puts what the client has to see next at the end of the wire.
LEMMA PublishInv ==
  ASSUME TypeOK, PastInv, WireInv, Publish, socket' = socket, shown' = shown
  PROVE  /\ WireInv'
         /\ \A i \in 1 .. Len(wire') : wire'[i].kind = "snapshot" => wire'[i].revision <= revision'
         /\ revision' = revision + 1
         /\ ~Listening => wire' = wire
<1>1. revision \in Nat /\ shown \in Nat /\ wire \in Seq(Message) /\ revision' = revision + 1
  BY DEF TypeOK, Publish
<1> DEFINE m == Event(revision + 1, FALSE)
<1>2. m.kind = "snapshot" /\ m.revision = revision + 1
  BY DEF Event
<1>3. CASE Listening
  <2>1. wire' = Append(wire, m)
    BY <1>3 DEF Publish
  <2> HIDE DEF m
  <2>2. /\ Len(wire') = Len(wire) + 1
        /\ \A i \in 1 .. Len(wire) : wire'[i] = wire[i]
        /\ wire'[Len(wire) + 1] = m
    BY <1>1, <2>1
  <2>3. Shows(revision, Len(wire))' 
    BY <1>1, <1>2, <2>2 DEF Shows
  <2>4. ASSUME NEW i \in 1 .. Len(wire'), wire'[i].kind = "answer"
        PROVE  Shows(wire[i].revision, i - 1)'
    <3>1. i \in 1 .. Len(wire) /\ wire'[i] = wire[i]
      BY <1>1, <1>2, <2>2, <2>4
    <3>2. Shows(wire[i].revision, i - 1)
      BY <2>4, <3>1 DEF WireInv
    <3>3. \A j \in 1 .. (i - 1) : wire'[j] = wire[j]
      BY <1>1, <2>2, <3>1
    <3> QED
      BY <3>1, <3>2, <3>3 DEF Shows
  <2>5. ASSUME NEW i \in 1 .. Len(wire'), wire'[i].kind = "snapshot"
        PROVE  wire'[i].revision <= revision'
    <3>1. CASE i = Len(wire) + 1
      BY <1>1, <1>2, <2>2, <3>1
    <3>2. CASE i # Len(wire) + 1
      <4>1. i \in 1 .. Len(wire) /\ wire'[i] = wire[i]
        BY <1>1, <2>2, <3>2
      <4>2. wire[i].revision <= revision /\ wire[i] \in Message
        BY <1>1, <2>5, <4>1 DEF PastInv
      <4>3. wire[i].revision \in Nat
        BY <2>5, <4>1, <4>2 DEF Message
      <4> QED
        BY <1>1, <4>1, <4>2, <4>3
    <3> QED
      BY <3>1, <3>2
  <2> QED
    BY <1>1, <1>3, <2>3, <2>4, <2>5 DEF WireInv, Listening
<1>4. CASE ~Listening
  <2>1. wire' = wire
    BY <1>4 DEF Publish
  <2>2. \A i \in 1 .. Len(wire) : wire[i].kind = "snapshot" => wire[i].revision \in Nat
    BY <1>1 DEF Message
  <2> QED
    BY <1>1, <1>4, <2>1, <2>2 DEF WireInv, PastInv, Listening, Shows
<1> QED
  BY <1>3, <1>4

\* Without a socket there is nothing to keep.
LEMMA ClosedInv ==
  ASSUME wire' = << >>, socket' \in {"closed", "connecting"}
  PROVE  /\ WireInv'
         /\ \A i \in 1 .. Len(wire') : wire'[i].kind = "snapshot" => wire'[i].revision <= revision'
  BY DEF WireInv, Listening

\* A message that is no snapshot may be sent if the wire shows what it presupposes.
LEMMA AppendInv ==
  ASSUME TypeOK, PastInv, WireInv, NEW m \in Message, m.kind \in {"answer", "failure"},
         m.kind = "answer" => Shows(m.revision, Len(wire)),
         wire' = Append(wire, m), UNCHANGED <<revision, shown, socket>>
  PROVE  /\ WireInv'
         /\ \A i \in 1 .. Len(wire') : wire'[i].kind = "snapshot" => wire'[i].revision <= revision'
<1>1. wire \in Seq(Message)
  BY DEF TypeOK
<1>2. /\ Len(wire') = Len(wire) + 1
      /\ \A i \in 1 .. Len(wire) : wire'[i] = wire[i]
      /\ wire'[Len(wire) + 1] = m
  BY <1>1
<1>3. Listening' => Shows(revision, Len(wire))'
  <2>1. Listening' => Shows(revision, Len(wire))
    BY DEF WireInv, Listening
  <2> QED
    BY <1>1, <1>2, <2>1 DEF Shows
<1>4. ASSUME NEW i \in 1 .. Len(wire'), wire'[i].kind = "answer"
      PROVE  Shows(wire[i].revision, i - 1)'
  <2>1. CASE i = Len(wire) + 1
    <3>1. Shows(m.revision, Len(wire))
      BY <1>2, <1>4, <2>1
    <3> QED
      BY <1>1, <1>2, <2>1, <3>1 DEF Shows
  <2>2. CASE i # Len(wire) + 1
    <3>1. i \in 1 .. Len(wire) /\ wire'[i] = wire[i]
      BY <1>1, <1>2, <2>2
    <3>2. Shows(wire[i].revision, i - 1)
      BY <1>4, <3>1 DEF WireInv
    <3>3. \A j \in 1 .. (i - 1) : wire'[j] = wire[j]
      BY <1>1, <1>2, <3>1
    <3> QED
      BY <3>1, <3>2, <3>3 DEF Shows
  <2> QED
    BY <2>1, <2>2
<1>5. ASSUME NEW i \in 1 .. Len(wire'), wire'[i].kind = "snapshot"
      PROVE  wire'[i].revision <= revision'
  BY <1>1, <1>2, <1>5 DEF PastInv
<1> QED
  BY <1>3, <1>4, <1>5 DEF WireInv

\* What a resumed session is sent again ends before the snapshot.
LEMMA ReplayIsPast ==
  ASSUME revision \in Nat, shown \in Nat, shown <= revision
  PROVE  \A i \in 1 .. Len(Replay(shown)) :
           Replay(shown)[i].kind = "snapshot" /\ Replay(shown)[i].revision <= revision
<1> DEFINE events == [i \in 1 .. (revision - shown) |-> Event(shown + i, FALSE)]
<1>1. CASE revision - shown > HistoryLimit
  <2>1. Replay(shown) = << >>
    BY <1>1 DEF Replay
  <2>2. Len(Replay(shown)) = 0
    BY <2>1
  <2>3. 1 .. 0 = {}
    OBVIOUS
  <2> QED
    BY <2>2, <2>3
<1>2. CASE ~ (revision - shown > HistoryLimit)
  <2>1. Replay(shown) = events
    BY <1>2 DEF Replay
  <2>2. revision - shown \in Nat
    OBVIOUS
  <2>3. Len(events) = revision - shown
    BY <2>2
  <2>4. ASSUME NEW i \in 1 .. (revision - shown)
        PROVE  events[i].kind = "snapshot" /\ events[i].revision <= revision
    <3>1. events[i] = Event(shown + i, FALSE)
      OBVIOUS
    <3>2. Event(shown + i, FALSE).kind = "snapshot" /\ Event(shown + i, FALSE).revision = shown + i
      BY DEF Event
    <3>3. shown + i <= revision
      BY <2>2
    <3> HIDE DEF events
    <3> QED
      BY <3>1, <3>2, <3>3
  <2> HIDE DEF events
  <2> QED
    BY <2>1, <2>3, <2>4
<1> QED
  BY <1>1, <1>2

\* The Room lets a socket in with all the client still has to see.
LEMMA AcceptInv ==
  ASSUME TypeOK, PastInv, Accept
  PROVE  /\ WireInv'
         /\ \A i \in 1 .. Len(wire') : wire'[i].kind = "snapshot" => wire'[i].revision <= revision'
<1>1. revision \in Nat /\ shown \in Nat /\ shown <= revision
  BY DEF TypeOK, PastInv
<1> DEFINE past == IF token THEN Replay(shown) ELSE << >>
           m == Event(revision, TRUE)
<1>2. wire' = Append(past, m)
  BY DEF Accept
<1>3. m.kind = "snapshot" /\ m.revision = revision /\ m \in Message
  BY <1>1, EventType DEF Event
<1>4. UNCHANGED <<revision, shown>>
  BY DEF Accept, server, handle
<1>5. past \in Seq(Message)
  <2>1. Replay(shown) \in Seq(Message)
    BY <1>1, ReplayType
  <2>2. << >> \in Seq(Message)
    OBVIOUS
  <2>3. CASE token
    BY <2>1, <2>3, Zenon
  <2>4. CASE ~token
    BY <2>2, <2>4, Zenon
  <2> QED
    BY <2>3, <2>4
<1>6. \A i \in 1 .. Len(past) : past[i].kind = "snapshot" /\ past[i].revision <= revision
  <2>1. CASE token
    <3>1. past = Replay(shown)
      BY <2>1, Zenon
    <3> HIDE DEF past
    <3> QED
      BY <1>1, <3>1, ReplayIsPast
  <2>2. CASE ~token
    <3>1. past = << >>
      BY <2>2, Zenon
    <3> HIDE DEF past
    <3>2. Len(past) = 0 /\ 1 .. 0 = {}
      BY <3>1
    <3> QED
      BY <3>2
  <2> QED
    BY <2>1, <2>2
<1> HIDE DEF past, m
<1>7. /\ Len(wire') = Len(past) + 1
      /\ \A i \in 1 .. Len(past) : wire'[i] = past[i]
      /\ wire'[Len(past) + 1] = m
      /\ Len(past) \in Nat
  BY <1>2, <1>3, <1>5
<1>8. \A i \in 1 .. Len(wire') : wire'[i].kind = "snapshot" /\ wire'[i].revision <= revision
  <2>1. TAKE i \in 1 .. Len(wire')
  <2>2. CASE i = Len(past) + 1
    BY <1>1, <1>3, <1>7, <2>2
  <2>3. CASE i # Len(past) + 1
    <3>1. i \in 1 .. Len(past)
      BY <1>7, <2>3
    <3> QED
      BY <1>6, <1>7, <3>1
  <2> QED
    BY <2>2, <2>3
<1>9. Shows(revision, Len(wire))'
  <2>1. Len(wire') \in 1 .. Len(wire') /\ wire'[Len(wire')].kind = "snapshot"
        /\ revision' <= wire'[Len(wire')].revision
    BY <1>1, <1>3, <1>4, <1>7
  <2> QED
    BY <2>1 DEF Shows
<1> QED
  BY <1>4, <1>8, <1>9 DEF WireInv

LEMMA RoomInv == TypeOK /\ ClientInv /\ RoomNext => ClientInv'
<1> SUFFICES ASSUME TypeOK, ClientInv, RoomNext PROVE ClientInv'
  OBVIOUS
<1> USE DEF server, link, handle
<1>a. SocketInv /\ PastInv /\ WireInv
  BY DEF ClientInv
<1>b. revision \in Nat /\ shown \in Nat /\ leaving \in Nat /\ stored \in [Command -> Nat]
  BY DEF TypeOK
<1>1. CASE Change
  <2>1. WireInv' /\ revision' = revision + 1 /\ (~Listening => wire' = wire)
        /\ \A i \in 1 .. Len(wire') : wire'[i].kind = "snapshot" => wire'[i].revision <= revision'
    BY <1>1, <1>a, PublishInv DEF Change
  <2>2. PastInv'
    BY <1>1, <1>a, <1>b, <2>1 DEF Change, PastInv
  <2>3. SocketInv'
    BY <1>1, <1>a, <2>1 DEF Change, SocketInv, Listening
  <2> QED
    BY <2>1, <2>2, <2>3 DEF ClientInv
<1>2. CASE Remove
  <2>1. WireInv' /\ revision' = revision + 1 /\ (~Listening => wire' = wire)
        /\ \A i \in 1 .. Len(wire') : wire'[i].kind = "snapshot" => wire'[i].revision <= revision'
    BY <1>2, <1>a, PublishInv DEF Remove
  <2>2. PastInv'
    BY <1>2, <1>a, <1>b, <2>1 DEF Remove, PastInv
  <2>3. SocketInv'
    BY <1>2, <1>a, <2>1 DEF Remove, SocketInv, Listening
  <2> QED
    BY <2>1, <2>2, <2>3 DEF ClientInv
<1>3. CASE Notice
  BY <1>3, <1>a DEF Notice, ClientInv, SocketInv, PastInv, WireInv, Shows, Listening
<1>4. CASE Accept
  <2>1. WireInv' /\ \A i \in 1 .. Len(wire') : wire'[i].kind = "snapshot" => wire'[i].revision <= revision'
    BY <1>4, <1>a, AcceptInv
  <2>2. UNCHANGED <<revision, shown, stored, leaving, status, inbound, owed, timer>>
        /\ socket = "connecting" /\ socket' = "accepted"
    BY <1>4 DEF Accept
  <2>3. PastInv'
    BY <1>a, <2>1, <2>2 DEF PastInv
  <2>4. SocketInv'
    BY <1>a, <2>2 DEF SocketInv, Listening
  <2> QED
    BY <2>1, <2>3, <2>4 DEF ClientInv
<1>5. ASSUME NEW s \in Sending, Execute(s) PROVE ClientInv'
  <2>a. s[1] \in Command
    BY SendingType
  <2>b. SocketInv' \/ ~(Publish \/ wire' = wire)
    BY <1>5, <1>a DEF SocketInv, Listening, Execute, Publish
  <2>1. CASE stored[s[1]] = 0
    <3>0. Publish /\ socket' = socket /\ shown' = shown /\ leaving' = leaving
          /\ stored' = [stored EXCEPT ![s[1]] = revision + 1]
      BY <1>5, <2>1 DEF Execute
    <3>1. WireInv' /\ revision' = revision + 1 /\ (~Listening => wire' = wire)
          /\ \A i \in 1 .. Len(wire') : wire'[i].kind = "snapshot" => wire'[i].revision <= revision'
      BY <1>a, <3>0, PublishInv
    <3>2. PastInv'
      BY <1>a, <1>b, <2>a, <3>0, <3>1 DEF PastInv
    <3> QED
      BY <2>b, <3>0, <3>1, <3>2 DEF ClientInv
  <2>2. CASE stored[s[1]] # 0
    <3>1. UNCHANGED <<revision, wire, stored, socket, shown, leaving>>
      BY <1>5, <2>2 DEF Execute
    <3> QED
      BY <1>a, <2>b, <3>1 DEF ClientInv, PastInv, WireInv, Shows, Listening
  <2> QED
    BY <2>1, <2>2
<1>6. ASSUME NEW s \in Sending, Respond(s) PROVE ClientInv'
  <2> DEFINE m == Answer(s[1], stored[s[1]])
  <2>1. s[1] \in Command
    BY SendingType
  <2>2. m \in Message /\ m.kind = "answer" /\ m.revision = stored[s[1]]
    BY <1>b, <2>1 DEF Answer, Message
  <2>3. socket = "open" /\ wire' = Append(wire, m)
        /\ UNCHANGED <<revision, shown, socket, stored, leaving, status, inbound, timer>> /\ owed' \subseteq owed
    BY <1>6, <1>a DEF Respond, SocketInv
  <2>4. Shows(m.revision, Len(wire))
    <3>1. Shows(revision, Len(wire)) /\ m.revision <= revision /\ m.revision \in Nat
      BY <1>a, <1>b, <2>1, <2>2, <2>3 DEF WireInv, PastInv, Listening
    <3>2. \A j \in 1 .. Len(wire) : wire[j].kind = "snapshot" => wire[j].revision \in Nat
      BY DEF TypeOK, Message
    <3> QED
      BY <1>b, <3>1, <3>2 DEF Shows
  <2> HIDE DEF m
  <2>5. WireInv' /\ \A i \in 1 .. Len(wire') : wire'[i].kind = "snapshot" => wire'[i].revision <= revision'
    BY <1>a, <2>2, <2>3, <2>4, AppendInv
  <2> QED
    BY <1>a, <2>3, <2>5 DEF ClientInv, SocketInv, PastInv, Listening
<1>7. ASSUME NEW s \in Sending, Refuse(s) PROVE ClientInv'
  <2> DEFINE m == Failure(s[1])
  <2>1. m \in Message /\ m.kind = "failure"
    BY SendingType DEF Failure, Message
  <2>2. socket = "open" /\ wire' = Append(wire, m)
        /\ UNCHANGED <<revision, shown, socket, stored, leaving, status, owed, timer>> /\ inbound' \subseteq inbound
    BY <1>7, <1>a DEF Refuse, SocketInv
  <2> HIDE DEF m
  <2>3. WireInv' /\ \A i \in 1 .. Len(wire') : wire'[i].kind = "snapshot" => wire'[i].revision <= revision'
    BY <1>a, <2>1, <2>2, AppendInv
  <2> QED
    BY <1>a, <2>2, <2>3 DEF ClientInv, SocketInv, PastInv, Listening
<1>8. ASSUME NEW s \in Sending, LoseStray(s) PROVE ClientInv'
  BY <1>8, <1>a DEF LoseStray, ClientInv, SocketInv, PastInv, WireInv, Shows, Listening
<1>9. CASE RoomLeaves
  <2>1. WireInv' /\ revision' = revision + 1 /\ (~Listening => wire' = wire)
        /\ \A i \in 1 .. Len(wire') : wire'[i].kind = "snapshot" => wire'[i].revision <= revision'
    BY <1>9, <1>a, PublishInv DEF RoomLeaves
  <2>2. leaving' = revision + 2 /\ UNCHANGED <<stored, shown>>
    BY <1>9 DEF RoomLeaves
  <2>3. PastInv'
    BY <1>a, <1>b, <2>1, <2>2 DEF PastInv
  <2>4. SocketInv'
    BY <1>9, <1>a, <2>1 DEF RoomLeaves, SocketInv, Listening
  <2> QED
    BY <2>1, <2>3, <2>4 DEF ClientInv
<1>10. CASE LeaveRefused
  BY <1>10, <1>a DEF LeaveRefused, ClientInv, SocketInv, PastInv, WireInv, Shows, Listening
<1> QED
  BY <1>1, <1>2, <1>3, <1>4, <1>5, <1>6, <1>7, <1>8, <1>9, <1>10 DEF RoomNext

\* A connection that is lost takes the wire with it.
LEMMA LostInv ==
  ASSUME ClientInv, Lost, UNCHANGED <<revision, stored, shown, leaving>>
  PROVE  ClientInv'
<1>1. socket' = "closed" /\ wire' = << >> /\ inbound' = {} /\ owed' = {}
  BY DEF Lost, Terminate
<1>2. status' # "connected"
  BY DEF Lost, Schedule
<1>3. WireInv' /\ \A i \in 1 .. Len(wire') : wire'[i].kind = "snapshot" => wire'[i].revision <= revision'
  BY <1>1, ClosedInv
<1>4. PastInv'
  BY <1>3 DEF ClientInv, PastInv
<1> QED
  BY <1>1, <1>2, <1>3, <1>4 DEF ClientInv, SocketInv

\* The first message is read: the client has seen what it shows.
LEMMA TailInv ==
  ASSUME TypeOK, PastInv, WireInv, wire # << >>, wire' = Tail(wire),
         shown' \in Nat, shown <= shown',
         wire[1].kind = "snapshot" => wire[1].revision <= shown',
         UNCHANGED <<revision, socket>>
  PROVE  /\ WireInv'
         /\ \A i \in 1 .. Len(wire') : wire'[i].kind = "snapshot" => wire'[i].revision <= revision'
<1>1. wire \in Seq(Message) /\ shown \in Nat /\ revision \in Nat
  BY DEF TypeOK
<1>2. /\ Len(wire) \in Nat
      /\ Len(wire) = Len(wire') + 1
      /\ Len(wire') \in Nat
      /\ \A i \in 1 .. Len(wire') : i + 1 \in 1 .. Len(wire) /\ wire'[i] = wire[i + 1]
  BY <1>1
<1>3. \A i \in 1 .. Len(wire) :
        wire[i].kind \in {"snapshot", "answer"} => wire[i].revision \in Nat
  BY <1>1 DEF Message
<1>4. ASSUME NEW r \in Nat, NEW k \in 0 .. Len(wire'), Shows(r, k + 1)
      PROVE  Shows(r, k)'
  <2>1. CASE r <= shown
    BY <1>1, <2>1 DEF Shows
  <2>2. ASSUME NEW j \in 1 .. (k + 1), wire[j].kind = "snapshot", r <= wire[j].revision
        PROVE  Shows(r, k)'
    <3>1. j \in 1 .. Len(wire) /\ wire[j].revision \in Nat
      BY <1>2, <1>3, <2>2
    <3>2. CASE j = 1
      BY <1>1, <2>2, <3>1, <3>2 DEF Shows
    <3>3. CASE j # 1
      <4>1. j - 1 \in 1 .. k /\ wire'[j - 1] = wire[j]
        <5>1. j - 1 \in 1 .. Len(wire') /\ (j - 1) + 1 = j /\ j - 1 \in 1 .. k
          BY <1>2, <3>1, <3>3
        <5> QED
          BY <1>2, <5>1
      <4> QED
        BY <2>2, <4>1 DEF Shows
    <3> QED
      BY <3>2, <3>3
  <2> QED
    BY <1>4, <2>1, <2>2 DEF Shows
<1>5. Listening' => Shows(revision, Len(wire))'
  <2>1. Listening' => Shows(revision, Len(wire') + 1)
    BY <1>2 DEF WireInv, Listening
  <2>2. Len(wire') \in 0 .. Len(wire')
    BY <1>2
  <2> QED
    BY <1>1, <2>1, <1>2, <2>2, <1>4 DEF Shows
<1>6. ASSUME NEW i \in 1 .. Len(wire'), wire'[i].kind = "answer"
      PROVE  Shows(wire[i].revision, i - 1)'
  <2>1. i + 1 \in 1 .. Len(wire) /\ wire'[i] = wire[i + 1]
    BY <1>2
  <2>2. Shows(wire[i + 1].revision, (i - 1) + 1)
    BY <1>2, <1>6, <2>1 DEF WireInv
  <2>3. i - 1 \in 0 .. Len(wire') /\ wire[i + 1].revision \in Nat
    BY <1>2, <1>3, <1>6, <2>1
  <2> QED
    BY <1>1, <1>4, <1>6, <2>1, <2>2, <2>3 DEF Shows
<1>7. ASSUME NEW i \in 1 .. Len(wire'), wire'[i].kind = "snapshot"
      PROVE  wire'[i].revision <= revision'
  BY <1>2, <1>7 DEF PastInv
<1> QED
  BY <1>5, <1>6, <1>7 DEF WireInv

LEMMA ClientStepInv == TypeOK /\ ClientInv /\ ClientNext => ClientInv'
<1> SUFFICES ASSUME TypeOK, ClientInv, ClientNext PROVE ClientInv'
  OBVIOUS
<1> USE DEF server, link, handle
<1>a. SocketInv /\ PastInv /\ WireInv
  BY DEF ClientInv
<1>b. revision \in Nat /\ shown \in Nat /\ leaving \in Nat /\ wire \in Seq(Message)
  BY DEF TypeOK
<1>1. CASE Drop
  BY <1>1, LostInv DEF Drop
<1>2. CASE Retry
  <2>1. timer /\ timer' = FALSE /\ socket' = "connecting" /\ wire' = wire
        /\ UNCHANGED <<revision, stored, shown, leaving, status, inbound, owed>>
    BY <1>2 DEF Retry
  <2>2. socket = "closed" /\ wire = << >> /\ inbound \cup owed = {} /\ status # "connected"
    BY <1>a, <2>1 DEF SocketInv, Listening
  <2>3. WireInv' /\ \A i \in 1 .. Len(wire') : wire'[i].kind = "snapshot" => wire'[i].revision <= revision'
    BY <2>1, <2>2, ClosedInv
  <2>4. PastInv'
    BY <1>a, <2>1, <2>3 DEF PastInv
  <2> QED
    BY <2>1, <2>2, <2>3, <2>4 DEF ClientInv, SocketInv
<1>3. CASE AttemptFails \/ ConnectTimeout
  <2>1. socket \in {"connecting", "accepted"} /\ socket' = "closed" /\ wire' = << >>
        /\ UNCHANGED <<revision, stored, shown, leaving, inbound, owed>>
    BY <1>3 DEF AttemptFails, ConnectTimeout
  <2>2. inbound \cup owed = {} /\ status # "connected"
    BY <1>a, <2>1 DEF SocketInv
  <2>3. status' # "connected"
    BY <1>3, <2>2 DEF AttemptFails, ConnectTimeout, Schedule
  <2>4. WireInv' /\ \A i \in 1 .. Len(wire') : wire'[i].kind = "snapshot" => wire'[i].revision <= revision'
    BY <2>1, ClosedInv
  <2>5. PastInv'
    BY <1>a, <2>1, <2>4 DEF PastInv
  <2> QED
    BY <2>1, <2>2, <2>3, <2>4, <2>5 DEF ClientInv, SocketInv
<1>4. CASE Opened
  <2>1. socket = "accepted" /\ UNCHANGED <<revision, stored, shown, leaving, inbound, owed, timer>>
    BY <1>4 DEF Opened
  <2>2. inbound \cup owed = {} /\ status # "connected" /\ ~timer
    BY <1>a, <2>1 DEF SocketInv
  <2>3. CASE status = "disconnected"
    <3>1. socket' = "closed" /\ wire' = << >> /\ status' = status
      BY <1>4, <2>3 DEF Opened
    <3>2. WireInv' /\ \A i \in 1 .. Len(wire') : wire'[i].kind = "snapshot" => wire'[i].revision <= revision'
      BY <3>1, ClosedInv
    <3>3. PastInv'
      BY <1>a, <2>1, <3>2 DEF PastInv
    <3> QED
      BY <2>1, <2>2, <3>1, <3>2, <3>3 DEF ClientInv, SocketInv
  <2>4. CASE status # "disconnected"
    <3>1. socket' = "open" /\ wire' = wire /\ status' = "connected"
      BY <1>4, <2>4 DEF Opened
    <3>2. PastInv'
      BY <1>a, <2>1, <3>1 DEF PastInv
    <3>3. WireInv'
      BY <1>a, <2>1, <3>1 DEF WireInv, Shows, Listening
    <3>4. SocketInv'
      BY <2>1, <2>2, <3>1 DEF SocketInv, Listening
    <3> QED
      BY <3>2, <3>3, <3>4 DEF ClientInv
  <2> QED
    BY <2>3, <2>4
<1>5. CASE ReceiveSnapshot
  <2>1. socket = "open" /\ wire # << >> /\ Head(wire).kind = "snapshot" /\ Head(wire) = wire[1]
        /\ UNCHANGED <<revision, stored, leaving>>
    BY <1>5, <1>b DEF ReceiveSnapshot
  <2>2. CASE InSequence(Head(wire).revision)
    <3>1. shown' = Head(wire).revision /\ wire' = Tail(wire)
          /\ UNCHANGED <<socket, inbound, owed, status, timer>>
      BY <1>5, <2>2 DEF ReceiveSnapshot
    <3>2. shown' \in {shown, shown + 1} /\ wire[1].revision = shown'
      BY <2>1, <2>2, <3>1 DEF InSequence
    <3>3. 1 \in 1 .. Len(wire)
      BY <1>b, <2>1
    <3>4. shown' \in Nat /\ shown <= shown' /\ shown' <= revision
      BY <1>a, <1>b, <2>1, <3>2, <3>3 DEF PastInv
    <3>5. wire[1].kind = "snapshot" => wire[1].revision <= shown'
      BY <3>2, <3>4
    <3>6. WireInv' /\ \A i \in 1 .. Len(wire') : wire'[i].kind = "snapshot" => wire'[i].revision <= revision'
      BY <1>a, <2>1, <3>1, <3>4, <3>5, TailInv
    <3>7. PastInv'
      BY <1>a, <2>1, <3>4, <3>6 DEF PastInv
    <3>8. SocketInv'
      BY <1>a, <2>1, <3>1 DEF SocketInv, Listening
    <3> QED
      BY <3>6, <3>7, <3>8 DEF ClientInv
  <2>3. CASE ~InSequence(Head(wire).revision)
    <3>1. Lost /\ shown' = shown
      BY <1>5, <2>3 DEF ReceiveSnapshot
    <3> QED
      BY <2>1, <3>1, LostInv
  <2> QED
    BY <2>2, <2>3
<1>6. CASE ReceiveAnswer
  <2>1. socket = "open" /\ wire # << >> /\ Head(wire) = wire[1]
        /\ Head(wire).kind \in {"answer", "failure"} /\ wire' = Tail(wire)
        /\ UNCHANGED <<revision, stored, leaving, socket, inbound, owed, status, timer>>
    BY <1>6, <1>b DEF ReceiveAnswer
  <2>2. 1 \in 1 .. Len(wire) /\ wire[1] \in Message
    BY <1>b, <2>1
  <2>3. wire[1].kind = "answer" => wire[1].revision \in Nat /\ wire[1].revision <= shown
    <3>1. wire[1].kind = "answer" => Shows(wire[1].revision, 1 - 1)
      BY <1>a, <2>2 DEF WireInv
    <3>2. 1 .. (1 - 1) = {}
      OBVIOUS
    <3>3. wire[1].kind = "answer" => wire[1].revision \in Nat
      BY <2>2 DEF Message
    <3> QED
      BY <3>1, <3>2, <3>3 DEF Shows
  <2>4. shown' = shown
    <3>1. \/ shown' = shown
          \/ wire[1].kind = "answer" /\ shown' = Later(shown, wire[1].revision)
      BY <1>6, <2>1 DEF ReceiveAnswer
    <3> QED
      BY <1>b, <2>3, <3>1 DEF Later
  <2>5. WireInv' /\ \A i \in 1 .. Len(wire') : wire'[i].kind = "snapshot" => wire'[i].revision <= revision'
    <3>1. wire[1].kind = "snapshot" => wire[1].revision <= shown'
      BY <2>1
    <3>2. shown' \in Nat /\ shown <= shown'
      BY <1>b, <2>4
    <3> QED
      BY <1>a, <2>1, <3>1, <3>2, TailInv
  <2>6. PastInv'
    BY <1>a, <2>1, <2>4, <2>5 DEF PastInv
  <2>7. SocketInv'
    BY <1>a, <2>1 DEF SocketInv, Listening
  <2> QED
    BY <2>5, <2>6, <2>7 DEF ClientInv
<1>7. ASSUME NEW c \in Command, NEW n \in 1 .. MaxSends, Send(c, n) \/ CommandTimeout(c, n)
      PROVE  ClientInv'
  <2>1. UNCHANGED <<revision, stored, socket, wire, shown, leaving, status, timer, owed>>
        /\ (inbound' = inbound \/ status = "connected")
    BY <1>7 DEF Send, CommandTimeout
  <2> QED
    BY <1>a, <2>1 DEF ClientInv, SocketInv, PastInv, WireInv, Shows, Listening
<1>8. CASE Leave
  <2>1. UNCHANGED <<revision, stored, socket, wire, shown, status, timer, owed, inbound>> /\ leaving' = 1
    BY <1>8 DEF Leave
  <2> QED
    BY <1>a, <2>1 DEF ClientInv, SocketInv, PastInv, WireInv, Shows, Listening
<1>9. CASE LeaveAnswered
  <2>1. leaving > 1 /\ leaving' = 0 /\ shown' = Later(shown, leaving - 1) /\ status' = "disconnected"
        /\ UNCHANGED <<revision, stored>>
    BY <1>9 DEF LeaveAnswered
  <2>2. shown' \in Nat /\ shown <= shown' /\ shown' <= revision
    BY <1>a, <1>b, <2>1 DEF PastInv, Later
  <2>3. CASE status = "connected"
    <3>1. socket' = "closed" /\ wire' = << >> /\ inbound' = {} /\ owed' = {}
      BY <1>9, <2>3 DEF LeaveAnswered, Terminate
    <3>2. WireInv' /\ \A i \in 1 .. Len(wire') : wire'[i].kind = "snapshot" => wire'[i].revision <= revision'
      BY <3>1, ClosedInv
    <3>3. PastInv'
      BY <1>a, <2>1, <2>2, <3>2 DEF PastInv
    <3> QED
      BY <2>1, <3>1, <3>2, <3>3 DEF ClientInv, SocketInv
  <2>4. CASE status # "connected"
    <3>1. timer' = FALSE /\ UNCHANGED <<socket, wire, inbound, owed>>
      BY <1>9, <2>4 DEF LeaveAnswered
    <3>2. SocketInv'
      BY <1>a, <2>1, <2>4, <3>1 DEF SocketInv, Listening
    <3>3. PastInv'
      BY <1>a, <2>1, <2>2, <3>1 DEF PastInv
    <3>4. WireInv'
      <4>1. ASSUME NEW r \in Nat, NEW k, Shows(r, k) PROVE Shows(r, k)'
        BY <1>b, <2>2, <3>1, <4>1 DEF Shows
      <4>2. \A i \in 1 .. Len(wire) : wire[i].kind = "answer" => wire[i].revision \in Nat
        BY <1>b DEF Message
      <4>3. Listening' => Shows(revision, Len(wire))'
        BY <1>a, <1>b, <2>1, <3>1, <4>1 DEF WireInv, Listening, Shows
      <4>4. ASSUME NEW i \in 1 .. Len(wire'), wire'[i].kind = "answer"
            PROVE  Shows(wire[i].revision, i - 1)'
        <5>1. Shows(wire[i].revision, i - 1) /\ wire[i].revision \in Nat
          BY <1>a, <3>1, <4>2, <4>4 DEF WireInv
        <5> QED
          BY <1>b, <2>2, <3>1, <5>1 DEF Shows
      <4> QED
        BY <4>3, <4>4 DEF WireInv
    <3> QED
      BY <3>2, <3>3, <3>4 DEF ClientInv
  <2> QED
    BY <2>3, <2>4
<1> QED
  BY <1>1, <1>2, <1>3, <1>4, <1>5, <1>6, <1>7, <1>8, <1>9 DEF ClientNext

LEMMA ClientInit == RoomClientAssumption /\ Init => ClientInv
<1> SUFFICES ASSUME RoomClientAssumption, Init PROVE ClientInv
  OBVIOUS
<1>1. revision \in Nat /\ 1 <= revision
  BY DEF Init, RoomClientAssumption
<1> DEFINE m == Event(revision, TRUE)
<1>2. m.kind = "snapshot" /\ m.revision = revision
  BY DEF Event
<1>3. wire = <<m>>
  BY DEF Init
<1> HIDE DEF m
<1>4. Len(wire) = 1 /\ wire[1] = m
  BY <1>3
<1>5. \A i \in 1 .. Len(wire) : wire[i].kind = "snapshot" /\ wire[i].revision = revision
  BY <1>2, <1>4
<1>6. SocketInv
  BY DEF Init, SocketInv, Listening
<1>7. PastInv
  <2>1. shown <= revision /\ leaving = 0 /\ \A c \in Command : stored[c] <= revision
    BY <1>1 DEF Init
  <2>2. \A i \in 1 .. Len(wire) : wire[i].revision <= revision
    BY <1>1, <1>5
  <2> QED
    BY <2>1, <2>2 DEF PastInv
<1>8. WireInv
  BY <1>1, <1>4, <1>5 DEF WireInv, Shows
<1> QED
  BY <1>6, <1>7, <1>8 DEF ClientInv

LEMMA ClientNextInv == TypeOK /\ ClientInv /\ [Next]_vars => ClientInv'
<1> SUFFICES ASSUME TypeOK, ClientInv, [Next]_vars PROVE ClientInv'
  OBVIOUS
<1>1. CASE Next
  BY <1>1, RoomInv, ClientStepInv DEF Next
<1>2. CASE UNCHANGED vars
  BY <1>2 DEF vars, server, link, handle, ClientInv, SocketInv, PastInv, WireInv, Shows, Listening
<1> QED
  BY <1>1, <1>2

THEOREM ClientInvariant == Spec => [](TypeOK /\ ClientInv)
<1>1. RoomClientAssumption
  BY RoomClientAssumption
<1>2. Init => TypeOK /\ ClientInv
  BY <1>1, TypeInit, ClientInit
<1>3. TypeOK /\ ClientInv /\ [Next]_vars => (TypeOK /\ ClientInv)'
  BY <1>1, TypeStep, ClientNextInv
<1> QED
  BY <1>2, <1>3, PTL DEF Spec

\* A client that has read everything on its open connection shows the Room's revision.
THEOREM QuietClientIsCurrent == Spec => []QuietIsCurrent
<1>1. TypeOK /\ ClientInv => QuietIsCurrent
  <2> SUFFICES ASSUME TypeOK, ClientInv, socket = "open", wire = << >> PROVE shown = revision
    BY DEF QuietIsCurrent
  <2>1. shown \in Nat /\ revision \in Nat /\ shown <= revision
    BY DEF TypeOK, ClientInv, PastInv
  <2>2. Shows(revision, Len(wire)) /\ Len(wire) = 0
    BY DEF ClientInv, WireInv, Listening
  <2>3. revision <= shown
    BY <2>2 DEF Shows
  <2> QED
    BY <2>1, <2>3
<1> QED
  BY <1>1, ClientInvariant, PTL

\* Only the snapshot that comes next changes what an open handle shows: an answer never
\* does, since the broadcast it presupposes precedes it on the wire.
LEMMA ShownStep ==
  ASSUME TypeOK, ClientInv, [Next]_vars
  PROVE  \/ shown' = shown
         \/ shown' = shown + 1
         \/ shown' > shown /\ status' = "disconnected"
<1> USE DEF server, link, handle
<1>1. shown \in Nat /\ leaving \in Nat /\ wire \in Seq(Message)
  BY DEF TypeOK
<1>2. CASE RoomNext
  BY <1>2 DEF RoomNext, Change, Remove, Notice, Accept, Execute, Respond, Refuse, LoseStray,
              RoomLeaves, LeaveRefused
<1>3. CASE ReceiveSnapshot
  BY <1>3 DEF ReceiveSnapshot, InSequence
<1>4. CASE ReceiveAnswer
  <2>1. \/ shown' = shown
        \/ Head(wire).kind = "answer" /\ shown' = Later(shown, Head(wire).revision)
    BY <1>4 DEF ReceiveAnswer
  <2>2. 1 \in 1 .. Len(wire) /\ wire[1] \in Message /\ Head(wire) = wire[1]
    BY <1>1, <1>4 DEF ReceiveAnswer
  <2>3. wire[1].kind = "answer" => wire[1].revision \in Nat /\ wire[1].revision <= shown
    <3>1. wire[1].kind = "answer" => Shows(wire[1].revision, 1 - 1)
      BY <2>2 DEF ClientInv, WireInv
    <3>2. 1 .. (1 - 1) = {}
      OBVIOUS
    <3>3. wire[1].kind = "answer" => wire[1].revision \in Nat
      BY <2>2 DEF Message
    <3> QED
      BY <3>1, <3>2, <3>3 DEF Shows
  <2> QED
    BY <1>1, <2>1, <2>2, <2>3 DEF Later
<1>5. CASE LeaveAnswered
  BY <1>1, <1>5 DEF LeaveAnswered, Later
<1>6. CASE Drop \/ Retry \/ AttemptFails \/ ConnectTimeout \/ Opened \/ Leave
           \/ \E c \in Command, n \in 1 .. MaxSends : Send(c, n) \/ CommandTimeout(c, n)
  BY <1>6 DEF Drop, Retry, AttemptFails, ConnectTimeout, Opened, Leave, Send, CommandTimeout
<1>7. CASE UNCHANGED vars
  BY <1>7 DEF vars
<1> QED
  BY <1>2, <1>3, <1>4, <1>5, <1>6, <1>7 DEF Next, ClientNext

\* An open handle shows every revision once, in order.
THEOREM RevisionsOneByOne == Spec => OneByOne
<1>1. TypeOK /\ ClientInv /\ [Next]_vars =>
        [\/ shown' = shown
         \/ shown' = shown + 1
         \/ shown' > shown /\ status' = "disconnected"]_vars
  BY ShownStep
<1> QED
  BY <1>1, ClientInvariant, PTL DEF Spec, OneByOne
=============================================================================
