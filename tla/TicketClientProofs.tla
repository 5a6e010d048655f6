-------------------------- MODULE TicketClientProofs --------------------------
(***************************************************************************)
(* Proofs about TicketClient, for any waiters, bounds and faults.          *)
(***************************************************************************)
EXTENDS TicketClientProperties, SequenceTheorems, TLAPS

LEMMA StatusNames ==
  /\ Statuses = {"creating", "waiting", "reserved", "matched", "cancelled", "expired"}
  /\ \A s \in Statuses : Rank[s] \in 0 .. 3
  /\ Terminal \subseteq Statuses
  /\ \A s \in Terminal : Rank[s] = 3
  /\ \A s, t \in Statuses : Rank[s] = Rank[t] => s = t \/ (s \in Terminal /\ t \in Terminal)
  BY DEF Statuses, Rank, Terminal

LEMMA ApplyType ==
  ASSUME TypeOK, NEW s \in Statuses, Apply(s)
  PROVE  /\ shown' \in Statuses
         /\ ended' \in BOOLEAN
         /\ told' \in Nat
         /\ socket' \in {"none", socket}
         /\ timer' \in BOOLEAN
         /\ waiter' \in [Waiter -> {"none", "waiting", "resolved", "rejected"}]
         /\ room' \in {"none", "loading", "ready"}
<1>1. CASE AlreadyEnded \/ ~NotBehind(s)
  BY <1>1 DEF Apply, TypeOK
<1>2. CASE ~(AlreadyEnded \/ ~NotBehind(s))
  <2>1. AllRejected \in [Waiter -> {"none", "waiting", "resolved", "rejected"}]
    BY DEF AllRejected, TypeOK
  <2>2. shown' = s
    BY <1>2 DEF Apply
  <2>3. CASE s \in Terminal
    <3>1. ended' = TRUE /\ timer' = FALSE
      BY <1>2, <2>3 DEF Apply
    <3>2. told' = told + 1 /\ socket' = HungUp
      BY <1>2, <2>3 DEF Apply
    <3>3. \/ waiter' = AllRejected /\ UNCHANGED room
          \/ LoadRoom /\ UNCHANGED waiter
      BY <1>2, <2>3 DEF Apply
    <3>4. told' \in Nat /\ socket' \in {"none", socket}
      BY <3>2 DEF TypeOK, HungUp
    <3>5. room' \in {"none", "loading", "ready"} /\ waiter' \in [Waiter -> {"none", "waiting", "resolved", "rejected"}]
      BY <2>1, <3>3 DEF TypeOK, LoadRoom
    <3> QED
      BY <2>2, <3>1, <3>4, <3>5
  <2>4. CASE s \notin Terminal
    <3>1. UNCHANGED <<ended, told, waiter, room, socket, timer>>
      BY <1>2, <2>4 DEF Apply
    <3> QED
      BY <2>2, <3>1 DEF TypeOK
  <2> QED
    BY <2>3, <2>4
<1> QED
  BY <1>1, <1>2

LEMMA AnnounceType ==
  ASSUME TypeOK, NEW s \in Statuses, Announce(s)
  PROVE  events' \in Seq(Statuses) /\ status' \in Statuses /\ wire' \in Seq(Nat)
  BY DEF TypeOK, Announce

LEMMA HttpType ==
  ASSUME TypeOK, NEW x \in {"create"} \cup Own, NEW a \in Statuses \cup {"none", "sent", "failed"}
  PROVE  [http EXCEPT ![x] = a] \in [{"create"} \cup Own -> Statuses \cup {"none", "sent", "failed"}]
  BY DEF TypeOK

\* What comes next on the wire is the row after the last one taken.
LEMMA HeadNext ==
  ASSUME TypeOK, Followed, socket = "open", wire # << >>
  PROVE  /\ last < Len(events)
         /\ Head(wire) = last + 1
         /\ Tail(wire) = After(last + 1)
<1>1. wire = After(last)
  BY DEF Followed, Listening
<1>2. PICK n \in Int : n = Len(events) - last
  BY SMTT(30) DEF TypeOK
<1>3. After(last) = [i \in 1 .. n |-> last + i]
  BY <1>2 DEF After
<1>4. n > 0
  <2>1. CASE n <= 0
    <3>1. 1 .. n = 1 .. 0
      BY <1>2, <2>1
    <3>2. wire = [i \in 1 .. 0 |-> last + i]
      BY <1>1, <1>3, <3>1
    <3>3. Len(wire) = 0
      BY <3>2
    <3> QED
      BY <3>3 DEF TypeOK
  <2> QED
    BY <2>1, <1>2
<1>5. Len(wire) = n /\ \A i \in 1 .. n : wire[i] = last + i
  BY <1>1, <1>3, <1>4
<1>6. Head(wire) = last + 1
  BY <1>4, <1>5 DEF TypeOK
<1>7. Tail(wire) \in Seq(Nat) /\ Len(Tail(wire)) = n - 1 /\ \A i \in 1 .. n - 1 : Tail(wire)[i] = wire[i + 1]
  BY <1>4, <1>5 DEF TypeOK
<1>8. Len(events) - (last + 1) = n - 1
  BY <1>2 DEF TypeOK
<1>9. After(last + 1) = [i \in 1 .. n - 1 |-> last + 1 + i]
  BY <1>8 DEF After
<1>10. \A i \in 1 .. n - 1 : Tail(wire)[i] = last + 1 + i
  BY <1>5, <1>7, <1>4 DEF TypeOK
<1>11. Tail(wire) = [i \in 1 .. Len(Tail(wire)) |-> Tail(wire)[i]]
  <2>1. Tail(wire) \in [1 .. Len(Tail(wire)) -> Nat]
    BY <1>7, LenProperties
  <2> QED
    BY <2>1, Zenon
<1>12. Tail(wire) = After(last + 1)
  <2>1. Tail(wire) = [i \in 1 .. n - 1 |-> Tail(wire)[i]]
    BY <1>7, <1>11
  <2> QED
    BY <1>9, <1>10, <2>1
<1> QED
  BY <1>2, <1>4, <1>6, <1>12 DEF TypeOK

LEMMA NoWire == << >> \in Seq(Nat)
  OBVIOUS

LEMMA TypeStep == TypeOK /\ Followed /\ [Next]_vars => TypeOK'
<1> SUFFICES ASSUME TypeOK, Followed, [Next]_vars PROVE TypeOK'
  OBVIOUS
<1>1. CASE CreateServed
  BY <1>1, StatusNames DEF CreateServed, TypeOK, Own, server, requests, link, handle
<1>2. CASE CreateAnswered
  BY <1>2, StatusNames DEF CreateAnswered, TypeOK, Own, server, requests, link, handle
<1>3. CASE RefreshServed
  BY <1>3, StatusNames DEF RefreshServed, TypeOK, Own, server, requests, link, handle
<1>4. CASE CancelServed
  <2>1. CASE status = "waiting" /\ Announce("cancelled") /\ http' = [http EXCEPT !["cancel"] = "cancelled"]
    BY <1>4, <2>1, AnnounceType, HttpType, StatusNames DEF CancelServed, TypeOK, Own, handle
  <2>2. CASE \E a \in Statuses \cup {"failed"} :
               http' = [http EXCEPT !["cancel"] = a] /\ UNCHANGED <<server, wire>>
    BY <1>4, <2>2, HttpType DEF CancelServed, TypeOK, Own, handle, server
  <2> QED
    BY <1>4, <2>1, <2>2, StatusNames DEF CancelServed
<1>5. CASE Progress
  BY <1>5, StatusNames DEF Progress, TypeOK, Announce, Moves, Listening, Own, server, requests, link, handle
<1>6. CASE Release
  BY <1>6, StatusNames DEF Release, TypeOK, Own, server, requests, link, handle
<1>7. CASE Accept
  BY <1>7, StatusNames DEF Accept, TypeOK, Missed, After, Own, server, requests, link, handle
<1>8. CASE Join
  BY <1>8, StatusNames DEF Join, TypeOK, Send, Own, server, requests, link, handle
<1>9. CASE Abort
  <2>1. http' \in [{"create"} \cup Own -> Statuses \cup {"none", "sent", "failed"}]
    BY <1>9, HttpType DEF Abort, Send, Own
  <2>2. aborted' \in BOOLEAN
    BY <1>9 DEF Abort
  <2>3. /\ join' \in {"confirming", "cancelling"}
        /\ socket' \in {"none", socket}
        /\ wire' \in {wire, << >>}
    BY <1>9 DEF Abort, Confirm
  <2>5. wire' \in Seq(Nat)
    BY <2>3, NoWire DEF TypeOK
  <2>4. UNCHANGED <<server, failures, drops, timer, attempts, handle>>
    BY <1>9 DEF Abort
  <2> QED
    BY <2>1, <2>2, <2>3, <2>4, <2>5 DEF TypeOK, server, handle
<1>10. CASE Created
  BY <1>10, StatusNames DEF Created, TypeOK, Answered, IsAnswer, Own, server, requests, link, handle
<1>11. CASE CreateFailed
  BY <1>11, StatusNames DEF CreateFailed, TypeOK, Answered, Own, server, requests, link, handle
<1>12. CASE Open
  <2>1. /\ socket' \in {"none", "open"}
        /\ wire' \in {wire, << >>}
        /\ attempts' \in {0, attempts}
        /\ join' \in {"returned", join}
    BY <1>12 DEF Open
  <2>2. UNCHANGED <<server, aborted, requests, drops, timer, handle>>
    BY <1>12 DEF Open
  <2>3. wire' \in Seq(Nat)
    BY <2>1, NoWire DEF TypeOK
  <2>4. attempts' \in Nat
    BY <2>1 DEF TypeOK
  <2> QED
    BY <2>1, <2>2, <2>3, <2>4 DEF TypeOK, server, requests, handle
<1>13. CASE Receive
  <2>1. wire' \in Seq(Nat)
    BY <1>13 DEF Receive, TypeOK
  <2>2. UNCHANGED <<server, join, aborted, requests, drops, attempts, stopped>>
    BY <1>13 DEF Receive
  <2>3. CASE Head(wire) > last
    <3>1. last' = Head(wire) /\ Apply(events[Head(wire)])
      BY <1>13, <2>3 DEF Receive
    <3>2. last' \in Nat
      BY <1>13, <3>1 DEF Receive, TypeOK
    <3>3. events[Head(wire)] \in Statuses
      BY <1>13, HeadNext DEF Receive, TypeOK
    <3> QED
      BY <2>1, <2>2, <3>1, <3>2, <3>3, ApplyType DEF TypeOK, server, requests
  <2>4. CASE ~(Head(wire) > last)
    BY <1>13, <2>1, <2>2, <2>4 DEF Receive, TypeOK, server, requests
  <2> QED
    BY <2>3, <2>4
<1>14. ASSUME NEW retryable \in BOOLEAN, Drop(retryable) PROVE TypeOK'
  <2>1. /\ drops' = drops + 1
        /\ socket' = "none"
        /\ wire' = << >>
        /\ join' \in {"failed", join}
    BY <1>14 DEF Drop
  <2>2. stopped' \in BOOLEAN /\ timer' \in BOOLEAN
    <3>1. CASE join = "starting"
      BY <1>14, <3>1 DEF Drop, TypeOK
    <3>2. CASE join # "starting"
      BY <1>14, <3>2 DEF Drop, TypeOK
    <3> QED
      BY <3>1, <3>2
  <2>3. UNCHANGED <<server, aborted, requests, attempts, shown, last, ended, told, waiter, room>>
    BY <1>14 DEF Drop
  <2> QED
    BY <2>1, <2>2, <2>3 DEF TypeOK, server, requests
<1>15. CASE TimerFires
  <2>1. timer' = FALSE
    BY <1>15 DEF TimerFires
  <2>2. attempts' \in {attempts, attempts + 1} /\ socket' \in {socket, "connecting"}
    BY <1>15 DEF TimerFires
  <2>3. UNCHANGED <<server, join, aborted, requests, wire, drops, handle>>
    BY <1>15 DEF TimerFires
  <2>4. attempts' \in Nat
    BY <2>2 DEF TypeOK
  <2> QED
    BY <2>1, <2>2, <2>3, <2>4 DEF TypeOK, server, requests, handle
<1>16. ASSUME NEW x \in Own, Call(x) PROVE TypeOK'
  BY <1>16, StatusNames DEF Call, TypeOK, Send, Own, server, requests, link, handle
<1>17. ASSUME NEW x \in DOMAIN http, HttpFails(x) PROVE TypeOK'
  BY <1>17, StatusNames DEF HttpFails, TypeOK, Own, server, requests, link, handle
<1>18. ASSUME NEW x \in Own, CallAnswered(x) PROVE TypeOK'
  <2>1. http[x] \in Statuses /\ Apply(http[x])
    BY <1>18 DEF CallAnswered, IsAnswer, TypeOK
  <2>2. http' \in [{"create"} \cup Own -> Statuses \cup {"none", "sent", "failed"}]
    BY <1>18, HttpType DEF CallAnswered, Answered
  <2>3. stopped' \in BOOLEAN
    BY <1>18 DEF CallAnswered, Withdraw, TypeOK
  <2>4. join' \in {join, "withdrawn"}
    BY <1>18 DEF CallAnswered, Withdraw
  <2>5. wire' \in {wire, << >>}
    BY <1>18 DEF CallAnswered
  <2>6. UNCHANGED <<server, aborted, failures, drops, attempts, last>>
    BY <1>18 DEF CallAnswered
  <2>7. wire' \in Seq(Nat)
    BY <2>5, NoWire DEF TypeOK
  <2>8. /\ shown' \in Statuses /\ ended' \in BOOLEAN /\ told' \in Nat
        /\ socket' \in {"none", socket} /\ timer' \in BOOLEAN
        /\ waiter' \in [Waiter -> {"none", "waiting", "resolved", "rejected"}]
        /\ room' \in {"none", "loading", "ready"}
    BY <2>1, ApplyType
  <2> QED
    BY <2>2, <2>3, <2>4, <2>6, <2>7, <2>8 DEF TypeOK, server
<1>19. ASSUME NEW x \in Own, CallFailed(x) PROVE TypeOK'
  BY <1>19, StatusNames, ZenonT(30) DEF CallFailed, TypeOK, Answered, Withdraw, Own, server, requests, link, handle
<1>20. ASSUME NEW v \in Waiter, Wait(v) PROVE TypeOK'
  BY <1>20, StatusNames, SMTT(30) DEF Wait, TypeOK, Settled, RoomAtOnce, Own, server, requests, link, handle
<1>21. ASSUME NEW v \in Waiter, AbortWait(v) PROVE TypeOK'
  BY <1>21, StatusNames DEF AbortWait, TypeOK, Settled, Send, Own, server, requests, link, handle
<1>22. CASE RoomLoaded
  BY <1>22, StatusNames DEF RoomLoaded, TypeOK, AllRejected, Own, server, requests, link, handle
<1>23. CASE Dispose
  <2>1. stopped' \in BOOLEAN /\ timer' \in BOOLEAN
    BY <1>23 DEF Dispose
  <2>2. /\ join' \in {join, "failed"}
        /\ socket' \in {socket, "none"}
        /\ wire' \in {wire, << >>}
        /\ waiter' = AllRejected
    BY <1>23 DEF Dispose, HungUp
  <2>3. AllRejected \in [Waiter -> {"none", "waiting", "resolved", "rejected"}]
    BY DEF AllRejected, TypeOK
  <2>4. UNCHANGED <<server, aborted, requests, drops, attempts, shown, last, ended, told, room>>
    BY <1>23 DEF Dispose
  <2>5. wire' \in Seq(Nat)
    BY <2>2, NoWire DEF TypeOK
  <2> QED
    BY <2>1, <2>2, <2>3, <2>4, <2>5 DEF TypeOK, server, requests
<1>24. CASE UNCHANGED vars
  BY <1>24, StatusNames DEF TypeOK, vars, Own, server, requests, link, handle
<1> QED
  BY <1>1, <1>2, <1>3, <1>4, <1>5, <1>6, <1>7, <1>8, <1>9, <1>10, <1>11, <1>12, <1>13, <1>14, <1>15, <1>16, <1>17, <1>18, <1>19, <1>20, <1>21, <1>22, <1>23, <1>24 DEF Next, Works

\* What a step does to the row of the ticket and its events.
ServerMoves ==
  \/ UNCHANGED server
  \/ events = << >> /\ events' = <<"creating", "waiting">> /\ status' = "waiting"
  \/ status = "reserved" /\ status' = "cancelled" /\ UNCHANGED events
  \/ \E m \in Moves \cup {<<"waiting", "cancelled">>} :
       status = m[1] /\ status' = m[2] /\ events' = Append(events, m[2])

LEMMA ServerStep == [Next]_vars => ServerMoves
<1> SUFFICES ASSUME [Next]_vars PROVE ServerMoves
  OBVIOUS
<1>1. CASE CreateServed
  BY <1>1 DEF ServerMoves, CreateServed
<1>2. CASE CreateAnswered
  BY <1>2 DEF ServerMoves, CreateAnswered, server
<1>3. CASE RefreshServed
  BY <1>3 DEF ServerMoves, RefreshServed, server
<1>4. CASE CancelServed
  <2>1. CASE UNCHANGED <<server, wire>>
    BY <2>1 DEF ServerMoves
  <2>2. CASE status = "waiting" /\ Announce("cancelled")
    <3> DEFINE m == <<"waiting", "cancelled">>
    <3>1. status = m[1] /\ status' = m[2] /\ events' = Append(events, m[2])
      BY <2>2 DEF Announce
    <3> QED
      BY <3>1 DEF ServerMoves
  <2> QED
    BY <1>4, <2>1, <2>2 DEF CancelServed
<1>5. CASE Progress
  BY <1>5 DEF ServerMoves, Progress, Announce, Moves
<1>6. CASE Release
  BY <1>6 DEF ServerMoves, Release
<1>7. CASE Accept
  BY <1>7 DEF ServerMoves, Accept, server
<1>8. CASE Join
  BY <1>8 DEF ServerMoves, Join, server
<1>9. CASE Abort
  BY <1>9 DEF ServerMoves, Abort, server
<1>10. CASE Created
  BY <1>10 DEF ServerMoves, Created, server
<1>11. CASE CreateFailed
  BY <1>11 DEF ServerMoves, CreateFailed, server
<1>12. CASE Open
  BY <1>12 DEF ServerMoves, Open, server
<1>13. CASE Receive
  BY <1>13 DEF ServerMoves, Receive, server
<1>14. ASSUME NEW retryable \in BOOLEAN, Drop(retryable) PROVE ServerMoves
  BY <1>14 DEF ServerMoves, Drop, server
<1>15. CASE TimerFires
  BY <1>15 DEF ServerMoves, TimerFires, server
<1>16. ASSUME NEW x \in Own, Call(x) PROVE ServerMoves
  BY <1>16 DEF ServerMoves, Call, server
<1>17. ASSUME NEW x \in DOMAIN http, HttpFails(x) PROVE ServerMoves
  BY <1>17 DEF ServerMoves, HttpFails, server
<1>18. ASSUME NEW x \in Own, CallAnswered(x) PROVE ServerMoves
  BY <1>18 DEF ServerMoves, CallAnswered, server
<1>19. ASSUME NEW x \in Own, CallFailed(x) PROVE ServerMoves
  BY <1>19 DEF ServerMoves, CallFailed, server
<1>20. ASSUME NEW v \in Waiter, Wait(v) PROVE ServerMoves
  BY <1>20 DEF ServerMoves, Wait, server
<1>21. ASSUME NEW v \in Waiter, AbortWait(v) PROVE ServerMoves
  BY <1>21 DEF ServerMoves, AbortWait, server
<1>22. CASE RoomLoaded
  BY <1>22 DEF ServerMoves, RoomLoaded, server
<1>23. CASE Dispose
  BY <1>23 DEF ServerMoves, Dispose, server
<1>24. CASE UNCHANGED vars
  BY <1>24 DEF ServerMoves, vars, server
<1> QED
  BY <1>1, <1>2, <1>3, <1>4, <1>5, <1>6, <1>7, <1>8, <1>9, <1>10, <1>11, <1>12, <1>13, <1>14, <1>15, <1>16, <1>17, <1>18, <1>19, <1>20, <1>21, <1>22, <1>23, <1>24 DEF Next, Works

\* The row ends once, and what was told of an end stays true.
LEMMA EndKept ==
  ASSUME TypeOK, NothingYet, OneEnd, ServerMoves
  PROVE  /\ \A s \in Terminal : s = status => s = status'
         /\ \A i \in DOMAIN events : i \in DOMAIN events' \/ events = << >>
         /\ \A i \in DOMAIN events' : events'[i] \in Terminal => events'[i] = status'
<1>1. CASE UNCHANGED server
  BY <1>1 DEF server, OneEnd
<1>2. CASE events = << >> /\ events' = <<"creating", "waiting">> /\ status' = "waiting"
  BY <1>2 DEF NothingYet, Terminal
<1>3. CASE status = "reserved" /\ status' = "cancelled" /\ UNCHANGED events
  BY <1>3 DEF OneEnd, Terminal
<1>4. CASE \E m \in Moves \cup {<<"waiting", "cancelled">>} :
             status = m[1] /\ status' = m[2] /\ events' = Append(events, m[2])
  <2>1. PICK m \in Moves \cup {<<"waiting", "cancelled">>} :
               status = m[1] /\ status' = m[2] /\ events' = Append(events, m[2])
    BY <1>4
  <2>2. status \notin Terminal
    BY <2>1 DEF Moves, Terminal
  <2>3. events' = Append(events, status')
    BY <2>1
  <2>4. \A i \in DOMAIN events : i \in DOMAIN events' /\ events'[i] = events[i]
    BY <2>3 DEF TypeOK
  <2>5. \A i \in DOMAIN events' : i \in DOMAIN events \/ events'[i] = status'
    BY <2>3 DEF TypeOK
  <2> QED
    BY <2>2, <2>4, <2>5 DEF OneEnd
<1> QED
  BY <1>1, <1>2, <1>3, <1>4 DEF ServerMoves

LEMMA ApplyShown == ASSUME NEW s, Apply(s) PROVE shown' \in {shown, s}
  BY DEF Apply

\* What a request answers: an end is the row's, or one that was told before.
Told(x) ==
  http'[x] \in Terminal =>
    \/ http'[x] = http[x]
    \/ http'[x] = status'
    \/ \E i \in DOMAIN events : http'[x] = events[i]

LEMMA HttpStep == TypeOK /\ [Next]_vars => \A x \in DOMAIN http : Told(x)
<1> SUFFICES ASSUME TypeOK, [Next]_vars PROVE \A x \in DOMAIN http : Told(x)
  OBVIOUS
<1>1. CASE CreateServed
  BY <1>1 DEF CreateServed, Told, TypeOK, Own, Terminal, requests
<1>2. CASE CreateAnswered
  <2>1. PICK i \in 2 .. Len(events) : http' = [http EXCEPT !["create"] = events[i]]
    BY <1>2 DEF CreateAnswered
  <2>2. i \in DOMAIN events
    BY DEF TypeOK
  <2> QED
    BY <2>1, <2>2 DEF Told, TypeOK, Own
<1>3. CASE RefreshServed
  BY <1>3 DEF RefreshServed, Told, TypeOK, Own, Terminal, requests, server
<1>4. CASE CancelServed
  <2>1. CASE http' = [http EXCEPT !["cancel"] = "cancelled"] /\ status' = "cancelled"
    BY <2>1 DEF Told, TypeOK, Own
  <2>2. CASE http' = [http EXCEPT !["cancel"] = status] /\ UNCHANGED server
    BY <2>2 DEF Told, TypeOK, Own, server
  <2>3. CASE http' = [http EXCEPT !["cancel"] = "failed"]
    BY <2>3 DEF Told, TypeOK, Own, Terminal
  <2> QED
    BY <1>4, <2>1, <2>2, <2>3 DEF CancelServed, Announce
<1>5. CASE Progress
  BY <1>5 DEF Progress, Told, TypeOK, Own, Terminal, requests
<1>6. CASE Release
  BY <1>6 DEF Release, Told, TypeOK, Own, Terminal, requests
<1>7. CASE Accept
  BY <1>7 DEF Accept, Told, TypeOK, Own, Terminal, requests
<1>8. CASE Join
  BY <1>8 DEF Join, Told, TypeOK, Own, Terminal, requests, Send
<1>9. CASE Abort
  BY <1>9 DEF Abort, Told, TypeOK, Own, Terminal, requests, Send
<1>10. CASE Created
  BY <1>10 DEF Created, Told, TypeOK, Own, Terminal, requests, Answered
<1>11. CASE CreateFailed
  BY <1>11 DEF CreateFailed, Told, TypeOK, Own, Terminal, requests, Answered
<1>12. CASE Open
  BY <1>12 DEF Open, Told, TypeOK, Own, Terminal, requests
<1>13. CASE Receive
  BY <1>13 DEF Receive, Told, TypeOK, Own, Terminal, requests
<1>14. ASSUME NEW retryable \in BOOLEAN, Drop(retryable) PROVE \A y \in DOMAIN http : Told(y)
  BY <1>14 DEF Drop, Told, TypeOK, Own, Terminal, requests
<1>15. CASE TimerFires
  BY <1>15 DEF TimerFires, Told, TypeOK, Own, Terminal, requests
<1>16. ASSUME NEW x \in Own, Call(x) PROVE \A y \in DOMAIN http : Told(y)
  BY <1>16 DEF Call, Told, TypeOK, Own, Terminal, requests, Send
<1>17. ASSUME NEW x \in DOMAIN http, HttpFails(x) PROVE \A y \in DOMAIN http : Told(y)
  BY <1>17 DEF HttpFails, Told, TypeOK, Own, Terminal, requests
<1>18. ASSUME NEW x \in Own, CallAnswered(x) PROVE \A y \in DOMAIN http : Told(y)
  BY <1>18 DEF CallAnswered, Told, TypeOK, Own, Terminal, requests, Answered
<1>19. ASSUME NEW x \in Own, CallFailed(x) PROVE \A y \in DOMAIN http : Told(y)
  BY <1>19 DEF CallFailed, Told, TypeOK, Own, Terminal, requests, Answered
<1>20. ASSUME NEW v \in Waiter, Wait(v) PROVE \A y \in DOMAIN http : Told(y)
  BY <1>20 DEF Wait, Told, TypeOK, Own, Terminal, requests
<1>21. ASSUME NEW v \in Waiter, AbortWait(v) PROVE \A y \in DOMAIN http : Told(y)
  BY <1>21 DEF AbortWait, Told, TypeOK, Own, Terminal, requests, Send
<1>22. CASE RoomLoaded
  BY <1>22 DEF RoomLoaded, Told, TypeOK, Own, Terminal, requests
<1>23. CASE Dispose
  BY <1>23 DEF Dispose, Told, TypeOK, Own, Terminal, requests
<1>24. CASE UNCHANGED vars
  BY <1>24 DEF Told, TypeOK, Own, Terminal, requests, vars
<1> QED
  BY <1>1, <1>2, <1>3, <1>4, <1>5, <1>6, <1>7, <1>8, <1>9, <1>10, <1>11, <1>12, <1>13, <1>14, <1>15, <1>16, <1>17, <1>18, <1>19, <1>20, <1>21, <1>22, <1>23, <1>24 DEF Next, Works

\* Where a snapshot comes from.
ShownMoves ==
  \/ shown' = shown
  \/ \E x \in DOMAIN http : shown' = http[x] /\ http[x] \in Statuses
  \/ \E i \in DOMAIN events : shown' = events[i]

LEMMA ShownStep == TypeOK /\ Followed /\ [Next]_vars => ShownMoves
<1> SUFFICES ASSUME TypeOK, Followed, [Next]_vars PROVE ShownMoves
  OBVIOUS
<1> USE DEF ShownMoves
<1>1. CASE CreateServed
  BY <1>1 DEF CreateServed, handle
<1>2. CASE CreateAnswered
  BY <1>2 DEF CreateAnswered, handle
<1>3. CASE RefreshServed
  BY <1>3 DEF RefreshServed, handle
<1>4. CASE CancelServed
  BY <1>4 DEF CancelServed, handle
<1>5. CASE Progress
  BY <1>5 DEF Progress, handle
<1>6. CASE Release
  BY <1>6 DEF Release, handle
<1>7. CASE Accept
  BY <1>7 DEF Accept, handle
<1>8. CASE Join
  BY <1>8 DEF Join, handle
<1>9. CASE Abort
  BY <1>9 DEF Abort, handle
<1>10. CASE Created
  BY <1>10 DEF Created, IsAnswer, TypeOK, Own
<1>11. CASE CreateFailed
  BY <1>11 DEF CreateFailed, handle
<1>12. CASE Open
  BY <1>12 DEF Open, handle
<1>13. CASE Receive
  <2>1. CASE Head(wire) > last
    BY <1>13, <2>1, HeadNext, ApplyShown DEF Receive, TypeOK
  <2>2. CASE ~(Head(wire) > last)
    BY <1>13, <2>2 DEF Receive
  <2> QED
    BY <2>1, <2>2
<1>14. ASSUME NEW retryable \in BOOLEAN, Drop(retryable) PROVE ShownMoves
  BY <1>14 DEF Drop, handle
<1>15. CASE TimerFires
  BY <1>15 DEF TimerFires, handle
<1>16. ASSUME NEW x \in Own, Call(x) PROVE ShownMoves
  BY <1>16 DEF Call, handle
<1>17. ASSUME NEW x \in DOMAIN http, HttpFails(x) PROVE ShownMoves
  BY <1>17 DEF HttpFails, handle
<1>18. ASSUME NEW x \in Own, CallAnswered(x) PROVE ShownMoves
  BY <1>18, ApplyShown DEF CallAnswered, IsAnswer, TypeOK, Own
<1>19. ASSUME NEW x \in Own, CallFailed(x) PROVE ShownMoves
  BY <1>19 DEF CallFailed, handle
<1>20. ASSUME NEW v \in Waiter, Wait(v) PROVE ShownMoves
  BY <1>20 DEF Wait, handle
<1>21. ASSUME NEW v \in Waiter, AbortWait(v) PROVE ShownMoves
  BY <1>21 DEF AbortWait, handle
<1>22. CASE RoomLoaded
  BY <1>22 DEF RoomLoaded, handle
<1>23. CASE Dispose
  BY <1>23 DEF Dispose, handle
<1>24. CASE UNCHANGED vars
  BY <1>24 DEF vars, handle
<1> QED
  BY <1>1, <1>2, <1>3, <1>4, <1>5, <1>6, <1>7, <1>8, <1>9, <1>10, <1>11, <1>12, <1>13, <1>14, <1>15, <1>16, <1>17, <1>18, <1>19, <1>20, <1>21, <1>22, <1>23, <1>24 DEF Next, Works

LEMMA OneEndStep == TypeOK /\ NothingYet /\ OneEnd /\ Followed /\ [Next]_vars => OneEnd'
<1> SUFFICES ASSUME TypeOK, NothingYet, OneEnd, Followed, [Next]_vars PROVE OneEnd'
  OBVIOUS
<1>1. /\ \A s \in Terminal : s = status => s = status'
      /\ \A i \in DOMAIN events' : events'[i] \in Terminal => events'[i] = status'
  BY ServerStep, EndKept
<1>2. TypeOK'
  BY TypeStep
<1>3. DOMAIN http' = DOMAIN http
  BY <1>2 DEF TypeOK
<1>4. \A x \in DOMAIN http' : http'[x] \in Terminal => http'[x] = status'
  <2>1. TAKE x \in DOMAIN http'
  <2>2. HAVE http'[x] \in Terminal
  <2>3. Told(x)
    BY <1>3, HttpStep
  <2> QED
    BY <1>1, <1>3, <2>2, <2>3 DEF Told, OneEnd
<1>5. shown' \in Terminal => shown' = status'
  BY <1>1, ShownStep DEF ShownMoves, OneEnd
<1> QED
  BY <1>1, <1>4, <1>5 DEF OneEnd

LEMMA NothingYetStep == TypeOK /\ NothingYet /\ [Next]_vars => NothingYet'
<1> SUFFICES ASSUME TypeOK, NothingYet, [Next]_vars PROVE NothingYet'
  OBVIOUS
<1>1. CASE CreateServed
  BY <1>1 DEF CreateServed, NothingYet, NoHandleYet, TypeOK, Own, server, requests, link, handle
<1>2. CASE CreateAnswered
  BY <1>2 DEF CreateAnswered, NothingYet, NoHandleYet, TypeOK, Own, server, requests, link, handle
<1>3. CASE RefreshServed
  BY <1>3 DEF RefreshServed, NothingYet, NoHandleYet, TypeOK, Own, server, requests, link, handle
<1>4. CASE CancelServed
  BY <1>4 DEF CancelServed, NothingYet, NoHandleYet, Announce, Listening, server, TypeOK, Own, server, requests, link, handle
<1>5. CASE Progress
  <2>1. status # "creating" /\ events' # << >>
    <3>1. PICK m \in Moves : status = m[1] /\ Announce(m[2])
      BY <1>5 DEF Progress
    <3>2. m[1] # "creating"
      BY DEF Moves
    <3> QED
      BY <3>1, <3>2 DEF Announce, TypeOK
  <2>2. UNCHANGED <<join, shown, last, socket, timer, http, waiter>>
    BY <1>5 DEF Progress, requests, handle
  <2>3. (join \in {"idle", "posting", "confirming"} => NoHandleYet)'
    BY <2>2 DEF NothingYet, NoHandleYet
  <2> QED
    BY <2>1, <2>3 DEF NothingYet
<1>6. CASE Release
  BY <1>6 DEF Release, NothingYet, NoHandleYet, TypeOK, Own, server, requests, link, handle
<1>7. CASE Accept
  BY <1>7 DEF Accept, NothingYet, NoHandleYet, TypeOK, Own, server, requests, link, handle
<1>8. CASE Join
  BY <1>8 DEF Join, NothingYet, NoHandleYet, Send, TypeOK, Own, server, requests, link, handle
<1>9. CASE Abort
  BY <1>9 DEF Abort, NothingYet, NoHandleYet, Send, Confirm, TypeOK, Own, server, requests, link, handle
<1>10. CASE Created
  BY <1>10 DEF Created, NothingYet, NoHandleYet, Answered, IsAnswer, TypeOK, Own, server, requests, link, handle
<1>11. CASE CreateFailed
  BY <1>11 DEF CreateFailed, NothingYet, NoHandleYet, Answered, TypeOK, Own, server, requests, link, handle
<1>12. CASE Open
  BY <1>12 DEF Open, NothingYet, NoHandleYet, TypeOK, Own, server, requests, link, handle
<1>13. CASE Receive
  BY <1>13 DEF Receive, NothingYet, NoHandleYet, TypeOK, Own, server, requests, link, handle
<1>14. ASSUME NEW retryable \in BOOLEAN, Drop(retryable) PROVE NothingYet'
  BY <1>14 DEF Drop, NothingYet, NoHandleYet, TypeOK, Own, server, requests, link, handle
<1>15. CASE TimerFires
  BY <1>15 DEF TimerFires, NothingYet, NoHandleYet, TypeOK, Own, server, requests, link, handle
<1>16. ASSUME NEW x \in Own, Call(x) PROVE NothingYet'
  BY <1>16 DEF Call, NothingYet, NoHandleYet, Usable, TypeOK, Own, server, requests, link, handle
<1>17. ASSUME NEW x \in DOMAIN http, HttpFails(x) PROVE NothingYet'
  BY <1>17 DEF HttpFails, NothingYet, NoHandleYet, TypeOK, Own, server, requests, link, handle
<1>18. ASSUME NEW x \in Own, CallAnswered(x) PROVE NothingYet'
  <2>1. http[x] # "none"
    BY <1>18 DEF CallAnswered, IsAnswer
  <2>2. events # << >> /\ join \notin {"idle", "posting", "confirming"}
    BY <2>1 DEF NothingYet, NoHandleYet
  <2>3. UNCHANGED events /\ join' \in {join, "withdrawn"}
    BY <1>18 DEF CallAnswered, Withdraw, server
  <2> QED
    BY <2>2, <2>3 DEF NothingYet
<1>19. ASSUME NEW x \in Own, CallFailed(x) PROVE NothingYet'
  <2>1. http[x] # "none"
    BY <1>19 DEF CallFailed, IsAnswer
  <2>2. events # << >> /\ join \notin {"idle", "posting", "confirming"}
    BY <2>1 DEF NothingYet, NoHandleYet
  <2>3. UNCHANGED events /\ join' \in {join, "withdrawn"}
    BY <1>19 DEF CallFailed, Withdraw, server
  <2> QED
    BY <2>2, <2>3 DEF NothingYet
<1>20. ASSUME NEW v \in Waiter, Wait(v) PROVE NothingYet'
  BY <1>20 DEF Wait, NothingYet, NoHandleYet, Usable, TypeOK, Own, server, requests, link, handle
<1>21. ASSUME NEW v \in Waiter, AbortWait(v) PROVE NothingYet'
  BY <1>21 DEF AbortWait, NothingYet, NoHandleYet, TypeOK, Own, server, requests, link, handle
<1>22. CASE RoomLoaded
  BY <1>22 DEF RoomLoaded, NothingYet, NoHandleYet, AllRejected, Waiting, TypeOK, Own, server, requests, link, handle
<1>23. CASE Dispose
  BY <1>23 DEF Dispose, NothingYet, NoHandleYet, HungUp, AllRejected, Waiting, TypeOK, Own, server, requests, link, handle
<1>24. CASE UNCHANGED vars
  BY <1>24 DEF NothingYet, NoHandleYet, vars, TypeOK, Own, server, requests, link, handle
<1> QED
  BY <1>1, <1>2, <1>3, <1>4, <1>5, <1>6, <1>7, <1>8, <1>9, <1>10, <1>11, <1>12, <1>13, <1>14, <1>15, <1>16, <1>17, <1>18, <1>19, <1>20, <1>21, <1>22, <1>23, <1>24 DEF Next, Works

\* A ticket applied never sets the handle back, and leaves it no further behind.
LEMMA ApplyForward ==
  ASSUME TypeOK, ToldWhenEnded, NEW s \in Statuses, Apply(s)
  PROVE  /\ Rank[shown'] >= Rank[shown]
         /\ Rank[shown'] >= Rank[s]
         /\ ToldWhenEnded'
<1>1. /\ Rank[s] \in 0 .. 3 /\ Rank[shown] \in 0 .. 3
      /\ \A u \in Terminal : Rank[u] = 3
  BY StatusNames DEF TypeOK
<1>2. CASE AlreadyEnded \/ ~NotBehind(s)
  <2>1. UNCHANGED <<shown, ended, told>>
    BY <1>2 DEF Apply
  <2>2. ToldWhenEnded'
    BY <2>1 DEF ToldWhenEnded
  <2>3. Rank[shown] >= Rank[s]
    <3>1. CASE ~NotBehind(s)
      BY <1>1, <3>1 DEF NotBehind
    <3>2. CASE AlreadyEnded
      <4>1. shown \in Terminal
        BY <3>2 DEF AlreadyEnded, ToldWhenEnded
      <4> QED
        BY <1>1, <4>1
    <3> QED
      BY <1>2, <3>1, <3>2
  <2> QED
    BY <1>1, <2>1, <2>2, <2>3
<1>3. CASE ~AlreadyEnded /\ NotBehind(s)
  <2>1. shown' = s /\ ~ended
    BY <1>3 DEF Apply, AlreadyEnded
  <2>2. told = 0
    BY <2>1 DEF ToldWhenEnded
  <2>3. ToldWhenEnded'
    <3>1. CASE s \in Terminal
      <4>1. ended' = TRUE
        BY <1>3, <3>1 DEF Apply
      <4>2. told' = 1
        BY <1>3, <3>1, <2>2 DEF Apply
      <4> QED
        BY <2>1, <3>1, <4>1, <4>2 DEF ToldWhenEnded
    <3>2. CASE s \notin Terminal
      <4>1. UNCHANGED <<ended, told>>
        BY <1>3, <3>2 DEF Apply
      <4> QED
        BY <2>1, <2>2, <4>1 DEF ToldWhenEnded
    <3> QED
      BY <3>1, <3>2
  <2>4. Rank[s] >= Rank[shown] /\ Rank[s] >= Rank[s]
    BY <1>1, <1>3 DEF NotBehind
  <2> QED
    BY <2>1, <2>3, <2>4
<1> QED
  BY <1>2, <1>3

Forward == Rank[shown'] >= Rank[shown] /\ ToldWhenEnded'

LEMMA ForwardStep == TypeOK /\ NothingYet /\ ToldWhenEnded /\ Followed /\ [Next]_vars => Forward
<1> SUFFICES ASSUME TypeOK, NothingYet, ToldWhenEnded, Followed, [Next]_vars PROVE Forward
  OBVIOUS
<1> USE DEF Forward, ToldWhenEnded
<1>1. CASE CreateServed
  BY <1>1, StatusNames DEF CreateServed, handle, TypeOK
<1>2. CASE CreateAnswered
  BY <1>2, StatusNames DEF CreateAnswered, handle, TypeOK
<1>3. CASE RefreshServed
  BY <1>3, StatusNames DEF RefreshServed, handle, TypeOK
<1>4. CASE CancelServed
  BY <1>4, StatusNames DEF CancelServed, handle, TypeOK
<1>5. CASE Progress
  BY <1>5, StatusNames DEF Progress, handle, TypeOK
<1>6. CASE Release
  BY <1>6, StatusNames DEF Release, handle, TypeOK
<1>7. CASE Accept
  BY <1>7, StatusNames DEF Accept, handle, TypeOK
<1>8. CASE Join
  BY <1>8, StatusNames DEF Join, handle, TypeOK
<1>9. CASE Abort
  BY <1>9, StatusNames DEF Abort, handle, TypeOK
<1>10. CASE Created
  <2>1. shown = "creating" /\ ~ended
    BY <1>10 DEF Created, NothingYet, NoHandleYet, Terminal
  <2>2. shown' \in Statuses /\ UNCHANGED <<ended, told>>
    BY <1>10 DEF Created, IsAnswer, TypeOK, Own
  <2>3. Rank[shown'] >= Rank[shown]
    BY <2>1, <2>2, StatusNames DEF Rank
  <2> QED
    BY <2>1, <2>2, <2>3
<1>11. CASE CreateFailed
  BY <1>11, StatusNames DEF CreateFailed, handle, TypeOK
<1>12. CASE Open
  BY <1>12, StatusNames DEF Open, handle, TypeOK
<1>13. CASE Receive
  <2>1. CASE Head(wire) > last
    <3>1. Apply(events[Head(wire)]) /\ events[Head(wire)] \in Statuses
      BY <1>13, <2>1, HeadNext DEF Receive, TypeOK
    <3> QED
      BY <3>1, ApplyForward
  <2>2. CASE ~(Head(wire) > last)
    BY <1>13, <2>2, StatusNames, SMTT(30) DEF Receive, TypeOK
  <2> QED
    BY <2>1, <2>2
<1>14. ASSUME NEW retryable \in BOOLEAN, Drop(retryable) PROVE Forward
  BY <1>14, StatusNames DEF Drop, handle, TypeOK
<1>15. CASE TimerFires
  BY <1>15, StatusNames DEF TimerFires, handle, TypeOK
<1>16. ASSUME NEW x \in Own, Call(x) PROVE Forward
  BY <1>16, StatusNames DEF Call, handle, TypeOK
<1>17. ASSUME NEW x \in DOMAIN http, HttpFails(x) PROVE Forward
  BY <1>17, StatusNames DEF HttpFails, handle, TypeOK
<1>18. ASSUME NEW x \in Own, CallAnswered(x) PROVE Forward
  <2>1. Apply(http[x]) /\ http[x] \in Statuses
    BY <1>18 DEF CallAnswered, IsAnswer, TypeOK, Own
  <2> QED
    BY <2>1, ApplyForward
<1>19. ASSUME NEW x \in Own, CallFailed(x) PROVE Forward
  BY <1>19, StatusNames DEF CallFailed, handle, TypeOK
<1>20. ASSUME NEW v \in Waiter, Wait(v) PROVE Forward
  BY <1>20, StatusNames, SMTT(30) DEF Wait, handle, TypeOK
<1>21. ASSUME NEW v \in Waiter, AbortWait(v) PROVE Forward
  BY <1>21, StatusNames DEF AbortWait, handle, TypeOK
<1>22. CASE RoomLoaded
  BY <1>22, StatusNames DEF RoomLoaded, handle, TypeOK
<1>23. CASE Dispose
  BY <1>23, StatusNames DEF Dispose, handle, TypeOK
<1>24. CASE UNCHANGED vars
  BY <1>24, StatusNames DEF vars, handle, TypeOK
<1> QED
  BY <1>1, <1>2, <1>3, <1>4, <1>5, <1>6, <1>7, <1>8, <1>9, <1>10, <1>11, <1>12, <1>13, <1>14, <1>15, <1>16, <1>17, <1>18, <1>19, <1>20, <1>21, <1>22, <1>23, <1>24 DEF Next, Works

LEMMA AfterAppend ==
  ASSUME TypeOK, Followed, NEW s, Announce(s), UNCHANGED last
  PROVE  Listening => wire' = After(last)'
<1> SUFFICES ASSUME Listening PROVE wire' = After(last)'
  OBVIOUS
<1> DEFINE n == Len(events) - last
<1>1. n \in Nat /\ Len(events) = last + n /\ Len(events) \in Nat
  BY DEF TypeOK, Followed
<1>2. wire = [i \in 1 .. n |-> last + i]
  BY DEF Followed, After
<1>3. Len(events') - last' = n + 1
  BY <1>1 DEF Announce, TypeOK
<1>4. After(last)' = [i \in 1 .. n + 1 |-> last + i]
  BY <1>3 DEF After
<1>5. wire' = Append(wire, last + n + 1)
  BY <1>1 DEF Announce
<1> HIDE DEF n
<1>6. Len(wire) = n
  BY <1>1, <1>2
<1>7. Append(wire, last + n + 1) = [i \in 1 .. n + 1 |-> IF i <= n THEN wire[i] ELSE last + n + 1]
  BY <1>1, <1>6 DEF TypeOK
<1>8. \A i \in 1 .. n + 1 : (IF i <= n THEN wire[i] ELSE last + n + 1) = last + i
  BY <1>1, <1>2 DEF TypeOK
<1> QED
  BY <1>4, <1>5, <1>7, <1>8

WireMoves ==
  /\ wire' = IF socket' \in {"accepted", "open"} THEN After(last)' ELSE << >>
  /\ timer' => socket' = "none"

LEMMA WireStep == TypeOK /\ NothingYet /\ Followed /\ [Next]_vars => WireMoves
<1> SUFFICES ASSUME TypeOK, NothingYet, Followed, [Next]_vars PROVE WireMoves
  OBVIOUS
<1> USE DEF WireMoves
<1>1. CASE CreateServed
  BY <1>1 DEF CreateServed, NothingYet, NoHandleYet, Followed, Listening, After, server, requests, link, handle, TypeOK
<1>2. CASE CreateAnswered
  BY <1>2 DEF CreateAnswered, Followed, Listening, After, server, requests, link, handle, TypeOK
<1>3. CASE RefreshServed
  BY <1>3 DEF RefreshServed, Followed, Listening, After, server, requests, link, handle, TypeOK
<1>4. CASE CancelServed
  <2>1. CASE \E s : Announce(s)
    <3>1. UNCHANGED <<socket, timer, last>>
      BY <1>4 DEF CancelServed, handle
    <3>2. wire' = IF Listening THEN After(last)' ELSE wire
      BY <2>1, <3>1, AfterAppend DEF Announce
    <3> QED
      BY <3>1, <3>2 DEF Followed, Listening
  <2>2. CASE UNCHANGED <<server, wire>>
    BY <1>4, <2>2 DEF CancelServed, Followed, After, server, handle, Listening
  <2> QED
    BY <1>4, <2>1, <2>2 DEF CancelServed
<1>5. CASE Progress
  <2>1. CASE \E s : Announce(s)
    <3>1. UNCHANGED <<socket, timer, last>>
      BY <1>5 DEF Progress, handle
    <3>2. wire' = IF Listening THEN After(last)' ELSE wire
      BY <2>1, <3>1, AfterAppend DEF Announce
    <3> QED
      BY <3>1, <3>2 DEF Followed, Listening
  <2>2. CASE UNCHANGED <<server, wire>>
    BY <1>5, <2>2 DEF Progress, Followed, After, server, handle, Listening
  <2> QED
    BY <1>5, <2>1, <2>2 DEF Progress, Moves
<1>6. CASE Release
  BY <1>6 DEF Release, Followed, Listening, After, server, requests, link, handle, TypeOK
<1>7. CASE Accept
  BY <1>7 DEF Accept, Missed, Followed, Listening, After, server, requests, link, handle, TypeOK
<1>8. CASE Join
  BY <1>8 DEF Join, Followed, Listening, After, server, requests, link, handle, TypeOK
<1>9. CASE Abort
  BY <1>9 DEF Abort, Followed, Listening, After, server, requests, link, handle, TypeOK
<1>10. CASE Created
  BY <1>10 DEF Created, NothingYet, NoHandleYet, Followed, Listening, After, server, requests, link, handle, TypeOK
<1>11. CASE CreateFailed
  BY <1>11 DEF CreateFailed, Followed, Listening, After, server, requests, link, handle, TypeOK
<1>12. CASE Open
  BY <1>12 DEF Open, Followed, Listening, After, server, requests, link, handle, TypeOK
<1>13. CASE Receive
  <2>1. /\ Head(wire) = last + 1
        /\ Tail(wire) = After(last + 1)
    BY <1>13, HeadNext DEF Receive
  <2>2. Head(wire) > last
    BY <2>1 DEF TypeOK
  <2>3. /\ last' = last + 1
        /\ Apply(events[Head(wire)])
        /\ UNCHANGED server
        /\ wire' = IF socket' = "open" THEN Tail(wire) ELSE << >>
    BY <1>13, <2>1, <2>2 DEF Receive
  <2>4. socket' \in {"none", "open"}
    BY <1>13, <2>3 DEF Receive, Apply, HungUp
  <2>5. ~timer'
    BY <1>13, <2>3 DEF Receive, Apply, Followed
  <2> QED
    BY <2>1, <2>3, <2>4, <2>5 DEF After, server
<1>14. ASSUME NEW retryable \in BOOLEAN, Drop(retryable) PROVE WireMoves
  BY <1>14 DEF Drop, Followed, Listening, After, server, requests, link, handle, TypeOK
<1>15. CASE TimerFires
  BY <1>15 DEF TimerFires, Followed, Listening, After, server, requests, link, handle, TypeOK
<1>16. ASSUME NEW x \in Own, Call(x) PROVE WireMoves
  BY <1>16 DEF Call, Followed, Listening, After, server, requests, link, handle, TypeOK
<1>17. ASSUME NEW x \in DOMAIN http, HttpFails(x) PROVE WireMoves
  BY <1>17 DEF HttpFails, Followed, Listening, After, server, requests, link, handle, TypeOK
<1>18. ASSUME NEW x \in Own, CallAnswered(x) PROVE WireMoves
  <2>1. socket' \in {socket, "none"} /\ (socket' = socket \/ socket = "open") /\ (timer' => timer)
    BY <1>18 DEF CallAnswered, Apply, HungUp
  <2>2. wire' = (IF socket' = "none" THEN << >> ELSE wire) /\ UNCHANGED <<server, last>>
    BY <1>18 DEF CallAnswered
  <2>3. socket = "none" => wire = << >>
    BY DEF Followed, Listening
  <2> QED
    BY <2>1, <2>2, <2>3 DEF Followed, Listening, After, server, TypeOK
<1>19. ASSUME NEW x \in Own, CallFailed(x) PROVE WireMoves
  BY <1>19 DEF CallFailed, Followed, Listening, After, server, requests, link, handle, TypeOK
<1>20. ASSUME NEW v \in Waiter, Wait(v) PROVE WireMoves
  BY <1>20 DEF Wait, Followed, Listening, After, server, requests, link, handle, TypeOK
<1>21. ASSUME NEW v \in Waiter, AbortWait(v) PROVE WireMoves
  BY <1>21 DEF AbortWait, Followed, Listening, After, server, requests, link, handle, TypeOK
<1>22. CASE RoomLoaded
  BY <1>22 DEF RoomLoaded, Followed, Listening, After, server, requests, link, handle, TypeOK
<1>23. CASE Dispose
  BY <1>23 DEF Dispose, HungUp, Followed, Listening, After, server, requests, link, handle, TypeOK
<1>24. CASE UNCHANGED vars
  BY <1>24 DEF vars, Followed, Listening, After, server, requests, link, handle, TypeOK
<1> QED
  BY <1>1, <1>2, <1>3, <1>4, <1>5, <1>6, <1>7, <1>8, <1>9, <1>10, <1>11, <1>12, <1>13, <1>14, <1>15, <1>16, <1>17, <1>18, <1>19, <1>20, <1>21, <1>22, <1>23, <1>24 DEF Next, Works

\* An event taken was the next one, and the handle is not behind it.
LastMoves ==
  \/ UNCHANGED last
  \/ last' = last + 1 /\ last < Len(events) /\ Rank[shown'] >= Rank[events[last + 1]]

LEMMA LastStep == TypeOK /\ ToldWhenEnded /\ Followed /\ [Next]_vars => LastMoves
<1> SUFFICES ASSUME TypeOK, ToldWhenEnded, Followed, [Next]_vars PROVE LastMoves
  OBVIOUS
<1> USE DEF LastMoves
<1>1. CASE CreateServed
  BY <1>1 DEF CreateServed, handle
<1>2. CASE CreateAnswered
  BY <1>2 DEF CreateAnswered, handle
<1>3. CASE RefreshServed
  BY <1>3 DEF RefreshServed, handle
<1>4. CASE CancelServed
  BY <1>4 DEF CancelServed, handle
<1>5. CASE Progress
  BY <1>5 DEF Progress, handle
<1>6. CASE Release
  BY <1>6 DEF Release, handle
<1>7. CASE Accept
  BY <1>7 DEF Accept, handle
<1>8. CASE Join
  BY <1>8 DEF Join, handle
<1>9. CASE Abort
  BY <1>9 DEF Abort, handle
<1>10. CASE Created
  BY <1>10 DEF Created, handle
<1>11. CASE CreateFailed
  BY <1>11 DEF CreateFailed, handle
<1>12. CASE Open
  BY <1>12 DEF Open, handle
<1>13. CASE Receive
  <2>1. /\ last < Len(events)
        /\ Head(wire) = last + 1
    BY <1>13, HeadNext DEF Receive
  <2>2. Head(wire) > last
    BY <2>1 DEF TypeOK
  <2>3. Apply(events[last + 1]) /\ last' = last + 1
    BY <1>13, <2>1, <2>2 DEF Receive
  <2>4. events[last + 1] \in Statuses
    BY <2>1 DEF TypeOK
  <2> QED
    BY <2>1, <2>3, <2>4, ApplyForward DEF TypeOK
<1>14. ASSUME NEW retryable \in BOOLEAN, Drop(retryable) PROVE LastMoves
  BY <1>14 DEF Drop, handle
<1>15. CASE TimerFires
  BY <1>15 DEF TimerFires, handle
<1>16. ASSUME NEW x \in Own, Call(x) PROVE LastMoves
  BY <1>16 DEF Call, handle
<1>17. ASSUME NEW x \in DOMAIN http, HttpFails(x) PROVE LastMoves
  BY <1>17 DEF HttpFails, handle
<1>18. ASSUME NEW x \in Own, CallAnswered(x) PROVE LastMoves
  BY <1>18 DEF CallAnswered, handle
<1>19. ASSUME NEW x \in Own, CallFailed(x) PROVE LastMoves
  BY <1>19 DEF CallFailed, handle
<1>20. ASSUME NEW v \in Waiter, Wait(v) PROVE LastMoves
  BY <1>20 DEF Wait, handle
<1>21. ASSUME NEW v \in Waiter, AbortWait(v) PROVE LastMoves
  BY <1>21 DEF AbortWait, handle
<1>22. CASE RoomLoaded
  BY <1>22 DEF RoomLoaded, handle
<1>23. CASE Dispose
  BY <1>23 DEF Dispose, handle
<1>24. CASE UNCHANGED vars
  BY <1>24 DEF vars, handle
<1> QED
  BY <1>1, <1>2, <1>3, <1>4, <1>5, <1>6, <1>7, <1>8, <1>9, <1>10, <1>11, <1>12, <1>13, <1>14, <1>15, <1>16, <1>17, <1>18, <1>19, <1>20, <1>21, <1>22, <1>23, <1>24 DEF Next, Works

LEMMA FollowedStep == TypeOK /\ NothingYet /\ ToldWhenEnded /\ Followed /\ [Next]_vars => Followed'
<1> SUFFICES ASSUME TypeOK, NothingYet, ToldWhenEnded, Followed, [Next]_vars PROVE Followed'
  OBVIOUS
<1>1. TypeOK'
  BY TypeStep
<1>2. /\ Len(events') >= Len(events)
      /\ \A i \in 1 .. Len(events) : events'[i] = events[i]
  <2>1. CASE UNCHANGED events
    BY <2>1 DEF TypeOK
  <2>2. CASE events = << >>
    BY <2>2, <1>1 DEF TypeOK
  <2>3. CASE \E m : events' = Append(events, m[2])
    BY <2>3 DEF TypeOK
  <2> QED
    BY <2>1, <2>2, <2>3, ServerStep DEF ServerMoves, server
<1>3. Rank[shown'] >= Rank[shown]
  BY ForwardStep DEF Forward
<1>4. /\ \A u \in Statuses : Rank[u] \in Int
      /\ shown \in Statuses /\ shown' \in Statuses
      /\ \A i \in 1 .. Len(events) : events[i] \in Statuses
  <2>1. \A u \in Statuses : Rank[u] \in Int
    BY StatusNames
  <2>2. shown \in Statuses /\ shown' \in Statuses
    BY <1>1 DEF TypeOK
  <2>3. events \in Seq(Statuses)
    BY DEF TypeOK
  <2>4. \A i \in 1 .. Len(events) : events[i] \in Statuses
    BY <2>3
  <2> QED
    BY <2>1, <2>2, <2>4
<1>5. last' <= Len(events') /\ (last' > 0 => Rank[shown'] >= Rank[events'[last']])
  <2>1. CASE UNCHANGED last
    <3>1. last' <= Len(events')
      BY <1>1, <1>2, <2>1 DEF Followed, TypeOK
    <3>2. ASSUME last' > 0 PROVE Rank[shown'] >= Rank[events'[last']]
      <4>1. last \in 1 .. Len(events) /\ events'[last'] = events[last]
        BY <1>2, <2>1, <3>2 DEF Followed, TypeOK
      <4>2. Rank[shown] >= Rank[events[last]]
        BY <2>1, <3>2 DEF Followed
      <4> QED
        BY <1>3, <1>4, <4>1, <4>2
    <3> QED
      BY <3>1, <3>2
  <2>2. CASE last' = last + 1 /\ last < Len(events) /\ Rank[shown'] >= Rank[events[last + 1]]
    <3>1. last + 1 \in 1 .. Len(events) /\ last + 1 <= Len(events')
      BY <1>1, <1>2, <2>2 DEF TypeOK
    <3>2. events'[last'] = events[last + 1]
      BY <1>2, <2>2, <3>1
    <3> QED
      BY <2>2, <3>1, <3>2
  <2> QED
    BY <2>1, <2>2, LastStep DEF LastMoves
<1> QED
  BY <1>5, WireStep DEF WireMoves, Followed, Listening

LEMMA AbandoningStep == TypeOK /\ NothingYet /\ Abandoning /\ [Next]_vars => Abandoning'
<1> SUFFICES ASSUME TypeOK, NothingYet, Abandoning, [Next]_vars PROVE Abandoning'
  OBVIOUS
<1>1. CASE CreateServed
  BY <1>1, StatusNames DEF CreateServed, NothingYet, Abandoning, AbandonedIsCancelled, TypeOK, Own, server, requests, link, handle
<1>2. CASE CreateAnswered
  BY <1>2, StatusNames DEF CreateAnswered, Abandoning, AbandonedIsCancelled, TypeOK, Own, server, requests, link, handle
<1>3. CASE RefreshServed
  BY <1>3, StatusNames DEF RefreshServed, Abandoning, AbandonedIsCancelled, TypeOK, Own, server, requests, link, handle
<1>4. CASE CancelServed
  BY <1>4, StatusNames DEF CancelServed, Announce, Abandoning, AbandonedIsCancelled, TypeOK, Own, server, requests, handle
<1>5. CASE Progress
  BY <1>5, StatusNames, SMTT(30) DEF Progress, Announce, Abandoning, AbandonedIsCancelled, TypeOK, Own, server, requests, handle, Moves
<1>6. CASE Release
  BY <1>6, StatusNames DEF Release, Abandoning, AbandonedIsCancelled, TypeOK, Own, server, requests, link, handle
<1>7. CASE Accept
  BY <1>7, StatusNames DEF Accept, Abandoning, AbandonedIsCancelled, TypeOK, Own, server, requests, link, handle
<1>8. CASE Join
  BY <1>8, StatusNames DEF Join, Send, Abandoning, AbandonedIsCancelled, TypeOK, Own, server, requests, link, handle
<1>9. CASE Abort
  BY <1>9, StatusNames DEF Abort, Send, Confirm, NothingYet, Abandoning, AbandonedIsCancelled, TypeOK, Own, server, requests, link, handle
<1>10. CASE Created
  BY <1>10, StatusNames DEF Created, Answered, IsAnswer, NothingYet, Abandoning, AbandonedIsCancelled, TypeOK, Own, server, requests, link, handle
<1>11. CASE CreateFailed
  BY <1>11, StatusNames DEF CreateFailed, Answered, Abandoning, AbandonedIsCancelled, TypeOK, Own, server, requests, link, handle
<1>12. CASE Open
  BY <1>12, StatusNames DEF Open, Abandoning, AbandonedIsCancelled, TypeOK, Own, server, requests, link, handle
<1>13. CASE Receive
  BY <1>13, StatusNames DEF Receive, Abandoning, AbandonedIsCancelled, TypeOK, Own, server, requests, link, handle
<1>14. ASSUME NEW retryable \in BOOLEAN, Drop(retryable) PROVE Abandoning'
  BY <1>14, StatusNames DEF Drop, Abandoning, AbandonedIsCancelled, TypeOK, Own, server, requests, link, handle
<1>15. CASE TimerFires
  BY <1>15, StatusNames DEF TimerFires, Abandoning, AbandonedIsCancelled, TypeOK, Own, server, requests, link, handle
<1>16. ASSUME NEW x \in Own, Call(x) PROVE Abandoning'
  BY <1>16, StatusNames DEF Call, Usable, Send, Abandoning, AbandonedIsCancelled, TypeOK, Own, server, requests, link, handle
<1>17. ASSUME NEW x \in DOMAIN http, HttpFails(x) PROVE Abandoning'
  BY <1>17, StatusNames DEF HttpFails, Abandoning, AbandonedIsCancelled, TypeOK, Own, server, requests, link, handle
<1>18. ASSUME NEW x \in Own, CallAnswered(x) PROVE Abandoning'
  BY <1>18, StatusNames DEF CallAnswered, Answered, IsAnswer, Withdraw, NothingYet, Abandoning, AbandonedIsCancelled, TypeOK, Own, server, requests, link, handle
<1>19. ASSUME NEW x \in Own, CallFailed(x) PROVE Abandoning'
  BY <1>19, StatusNames DEF CallFailed, Answered, Withdraw, NothingYet, Abandoning, AbandonedIsCancelled, TypeOK, Own, server, requests, link, handle
<1>20. ASSUME NEW v \in Waiter, Wait(v) PROVE Abandoning'
  BY <1>20, StatusNames DEF Wait, Abandoning, AbandonedIsCancelled, TypeOK, Own, server, requests, link, handle
<1>21. ASSUME NEW v \in Waiter, AbortWait(v) PROVE Abandoning'
  BY <1>21, StatusNames DEF AbortWait, Send, NothingYet, Abandoning, AbandonedIsCancelled, TypeOK, Own, server, requests, link, handle
<1>22. CASE RoomLoaded
  BY <1>22, StatusNames DEF RoomLoaded, Abandoning, AbandonedIsCancelled, TypeOK, Own, server, requests, link, handle
<1>23. CASE Dispose
  BY <1>23, StatusNames DEF Dispose, Abandoning, AbandonedIsCancelled, TypeOK, Own, server, requests, link, handle
<1>24. CASE UNCHANGED vars
  BY <1>24, StatusNames DEF vars, Abandoning, AbandonedIsCancelled, TypeOK, Own, server, requests, link, handle
<1> QED
  BY <1>1, <1>2, <1>3, <1>4, <1>5, <1>6, <1>7, <1>8, <1>9, <1>10, <1>11, <1>12, <1>13, <1>14, <1>15, <1>16, <1>17, <1>18, <1>19, <1>20, <1>21, <1>22, <1>23, <1>24 DEF Next, Works
-----------------------------------------------------------------------------
LEMMA InitInv == Init => Inv
<1> SUFFICES ASSUME Init PROVE Inv
  OBVIOUS
<1>1. TypeOK
  <2>1. events \in Seq(Statuses)
    BY DEF Init
  <2>2. wire \in Seq(Nat)
    BY NoWire DEF Init
  <2>3. http \in [{"create"} \cup Own -> Statuses \cup {"none", "sent", "failed"}]
    BY DEF Init, Own
  <2>4. status \in Statuses /\ shown \in Statuses
    BY StatusNames DEF Init
  <2>5. waiter \in [Waiter -> {"none", "waiting", "resolved", "rejected"}]
    BY DEF Init
  <2> QED
    BY <2>1, <2>2, <2>3, <2>4, <2>5 DEF Init, TypeOK
<1>2. NothingYet
  BY DEF Init, NothingYet, NoHandleYet, Own
<1>3. OneEnd
  BY StatusNames DEF Init, OneEnd, Terminal
<1>4. ToldWhenEnded
  BY DEF Init, ToldWhenEnded
<1>5. Followed
  BY DEF Init, Followed, Listening
<1>6. Abandoning
  BY DEF Init, Abandoning, AbandonedIsCancelled, Own
<1> QED
  BY <1>1, <1>2, <1>3, <1>4, <1>5, <1>6 DEF Inv

LEMMA InvStep == Inv /\ [Next]_vars => Inv'
<1> SUFFICES ASSUME Inv, [Next]_vars PROVE Inv'
  OBVIOUS
<1>1. TypeOK /\ NothingYet /\ OneEnd /\ ToldWhenEnded /\ Followed /\ Abandoning
  BY DEF Inv
<1>2. TypeOK'
  BY <1>1, TypeStep
<1>3. NothingYet'
  BY <1>1, NothingYetStep
<1>4. OneEnd'
  BY <1>1, OneEndStep
<1>5. ToldWhenEnded'
  BY <1>1, ForwardStep DEF Forward
<1>6. Followed'
  BY <1>1, FollowedStep
<1>7. Abandoning'
  BY <1>1, AbandoningStep
<1> QED
  BY <1>2, <1>3, <1>4, <1>5, <1>6, <1>7 DEF Inv

\* Every reachable state of the handle, the ticket and what is on the way between
\* them satisfies the invariant, its types included.
THEOREM TicketInvariant == Spec => []Inv
  BY InitInv, InvStep, PTL DEF Spec

\* However events, answers and reconnections interleave, the listeners of a ticket
\* hear of its end at most once (applyTicket() with terminalProgressStatus).
THEOREM ToldAtMostOnce == Spec => []ToldOnce
<1>1. Inv => ToldOnce
  BY DEF Inv, ToldWhenEnded, ToldOnce
<1> QED
  BY <1>1, TicketInvariant, PTL

\* A handle that is connected and has taken all there was on the wire shows what
\* the Pool announced last: events missed while it was away came with the
\* reconnection (connect() with lastRevision).
THEOREM QuietHandleIsCurrent == Spec => []QuietTicketIsCurrent
<1>1. ASSUME Inv PROVE QuietTicketIsCurrent
  <2> SUFFICES ASSUME socket = "open", wire = << >>
               PROVE  Rank[shown] >= Rank[events[Len(events)]]
    BY DEF QuietTicketIsCurrent
  <2>1. /\ last \in Nat /\ last <= Len(events) /\ Len(events) \in Nat
        /\ last > 0 => Rank[shown] >= Rank[events[last]]
    BY <1>1 DEF Inv, TypeOK, Followed
  <2>2. After(last) = << >>
    BY <1>1 DEF Inv, Followed, Listening
  <2>3. Len(After(last)) = Len(events) - last
    BY <2>1 DEF After
  <2>4. last = Len(events)
    BY <2>1, <2>2, <2>3
  <2>5. events # << >> /\ events \in Seq(Statuses)
    BY <1>1 DEF Inv, NothingYet, NoHandleYet, TypeOK
  <2>6. Len(events) > 0
    BY <2>5
  <2> QED
    BY <2>1, <2>4, <2>6
<1> QED
  BY <1>1, TicketInvariant, PTL

\* A join the caller aborted is answered only after the ticket it may have made
\* has left the queue, as long as no request failed (joinMatchmaking()).
THEOREM AbandonedLeavesQueue == Spec => []AbandonedIsCancelled
<1>1. Inv => AbandonedIsCancelled
  BY DEF Inv, Abandoning
<1> QED
  BY <1>1, TicketInvariant, PTL

\* What the handle shows never goes back and an end it shows is never replaced by
\* another, whichever of the two channels is ahead (applyTicket()).
THEOREM NeverBack == Spec => TicketForward
<1>1. Inv /\ [Next]_vars => [shown' = shown \/ Rank[shown'] > Rank[shown]]_vars
  <2> SUFFICES ASSUME Inv, [Next]_vars
               PROVE  shown' = shown \/ Rank[shown'] > Rank[shown]
    OBVIOUS
  <2>1. Rank[shown'] >= Rank[shown]
    BY ForwardStep DEF Inv, Forward
  <2>2. shown \in Statuses /\ shown' \in Statuses
    BY TypeStep DEF Inv, TypeOK
  <2>3. CASE Rank[shown'] > Rank[shown]
    BY <2>3
  <2>4. CASE Rank[shown'] = Rank[shown]
    <3>1. CASE shown \in Terminal /\ shown' \in Terminal
      <4>1. shown = status /\ shown' = status'
        BY <3>1, OneEndStep DEF Inv, OneEnd
      <4>2. shown = status'
        BY <3>1, <4>1, EndKept, ServerStep DEF Inv
      <4> QED
        BY <4>1, <4>2
    <3> QED
      BY <2>2, <2>4, <3>1, StatusNames
  <2>5. Rank[shown'] \in Int /\ Rank[shown] \in Int
    BY <2>2, StatusNames
  <2> QED
    BY <2>1, <2>3, <2>4, <2>5
<1> QED
  BY <1>1, TicketInvariant, PTL DEF Spec, TicketForward
=============================================================================
