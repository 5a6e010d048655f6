----------------------------- MODULE RoomProofs -----------------------------
(***************************************************************************)
(* Proofs about one Room: it implements Lobby, a host plays, connections,  *)
(* scheduled operations and the alarm, for every value of the constants.   *)
(***************************************************************************)
EXTENDS RoomProperties, FiniteSetTheorems, WellFoundedInduction, TLAPS

\* Sets of times have a first and, if bounded, a last moment.
LEMMA Least ==
  ASSUME NEW T, T \subseteq Nat, T # {}
  PROVE  \E x \in T : \A y \in T : x <= y
<1> DEFINE R == OpToRel(<, Nat)
<1>1. \E x \in T : \A y \in T : ~ (<<y, x>> \in R)
  BY NatLessThanWellFounded, WFMin
<1>2. \A x, y \in Nat : y < x => <<y, x>> \in R
  BY DEF OpToRel
<1> HIDE DEF R
<1>3. PICK x \in T : \A y \in T : ~ (<<y, x>> \in R)
  BY <1>1
<1>4. \A y \in T : ~ (y < x)
  BY <1>2, <1>3
<1> QED
  BY <1>3, <1>4

LEMMA Greatest ==
  ASSUME NEW T, T \subseteq Nat, T # {}, NEW b \in Nat, \A x \in T : x <= b
  PROVE  \E x \in T : \A y \in T : y <= x
<1> DEFINE D == {d \in Nat : b - d \in T}
<1>1. PICK e \in T : TRUE
  OBVIOUS
<1>2. b - e \in D
  BY <1>1
<1>3. \A y \in T : b - y \in D
  OBVIOUS
<1> HIDE DEF D
<1>4. D \subseteq Nat /\ D # {}
  BY <1>2 DEF D
<1>5. PICK d \in D : \A c \in D : d <= c
  BY <1>4, Least
<1>6. b - d \in T
  BY DEF D
<1>7. ASSUME NEW y \in T PROVE y <= b - d
  BY <1>3, <1>5, <1>4
<1> QED
  BY <1>6, <1>7

\* The alarm is set to the first of the operations, if there is one.
LEMMA NextDueFirst ==
  ASSUME NEW o \in Times
  PROVE  /\ NextDue(o) \in Time
         /\ \A x \in Op : o[x] # None => NextDue(o) # None /\ NextDue(o) <= o[x]
<1> DEFINE Dues == {o[x] : x \in {y \in Op : o[y] # None}}
<1>1. Dues \subseteq Nat
  BY DEF Times, Time
<1>2. CASE Dues = {}
  <2>1. NextDue(o) = None
    BY <1>2 DEF NextDue
  <2> QED
    BY <1>2, <2>1 DEF Time
<1>3. CASE Dues # {}
  <2>1. \E d \in Dues : \A e \in Dues : d <= e
    <3> HIDE DEF Dues
    <3> QED
      BY <1>1, <1>3, Least
  <2>2. NextDue(o) = CHOOSE d \in Dues : \A e \in Dues : d <= e
    BY <1>3 DEF NextDue
  <2>3. NextDue(o) \in Dues /\ \A e \in Dues : NextDue(o) <= e
    <3> HIDE DEF Dues
    <3> QED
      BY <2>1, <2>2
  <2>4. NextDue(o) \in Nat /\ NextDue(o) # None
    BY <1>1, <2>3, RoomAssumption
  <2>5. \A x \in Op : o[x] # None => o[x] \in Dues
    OBVIOUS
  <2> HIDE DEF Dues
  <2> QED
    BY <2>3, <2>4, <2>5 DEF Time
<1> QED
  BY <1>2, <1>3

\* The moment a participant was last seen is one of those its sessions hold, or
\* the one of the scheduled operation.
LEMMA LastSeenType ==
  ASSUME TypeOK, SessionsOK, NEW p \in Participant, NEW at
  PROVE  LastSeen(p, at) \in Nat \cup {at}
<1> DEFINE Seen == {conn[c].at : c \in {d \in ConnectionsOf(p) : ~conn[d].live}}
<1>1. \A t \in Seen : t \in Nat /\ t <= now
  BY DEF SessionsOK, ConnectionsOf
<1>2. now \in Nat
  BY DEF TypeOK, ScheduleOK
<1>3. CASE Seen = {}
  BY <1>3 DEF LastSeen
<1>4. CASE Seen # {}
  <2>1. LastSeen(p, at) = CHOOSE t \in Seen : \A u \in Seen : u <= t
    BY <1>4 DEF LastSeen
  <2> HIDE DEF Seen
  <2>2. \E t \in Seen : \A u \in Seen : u <= t
    BY <1>1, <1>2, <1>4, Greatest
  <2> QED
    BY <1>1, <2>1, <2>2
<1> QED
  BY <1>3, <1>4
-----------------------------------------------------------------------------
(* Types *)

RoomOK ==
  /\ state \in {"none", "waiting", "preparing", "in_progress", "finished", "deleted"}
  /\ host \in Participant \cup {None}
  /\ joinedAt \in [Participant -> Time]
  /\ ready \subseteq Participant
  /\ revision \in Nat
  /\ events \in Seq(Nat)

SocketsOK ==
  /\ conn \in [Resume -> Connections]
  /\ open \subseteq Resume \X Nat
  /\ broken \subseteq Resume \X Nat

LEMMA TypeParts ==
  RoomOK' /\ SocketsOK' /\ (processed \in [Request -> Time])' /\ ScheduleOK' => TypeOK'
  BY DEF TypeOK, RoomOK, SocketsOK

LEMMA RowType ==
  ASSUME revision' \in Nat, state' \in {"waiting", "preparing", "in_progress", "finished"}
  PROVE  Row' \in Rows
<1>1. \A M \in SUBSET Participant : Cardinality(M) \in Nat
  BY RoomAssumption, FS_Subset, FS_CardinalityType
<1>2. /\ Cardinality(Players)' \in Nat
      /\ Cardinality(Members \ Players)' \in Nat
  BY <1>1 DEF Players, Members
<1> QED
  BY <1>2 DEF Row, Rows

LEMMA SubSeqType ==
  ASSUME NEW s \in Seq(Nat), NEW m \in 1 .. Len(s)
  PROVE  SubSeq(s, m, Len(s)) \in Seq(Nat)
  OBVIOUS

LEMMA RecordedType ==
  ASSUME NEW es \in Seq(Nat), NEW r \in Nat
  PROVE  Recorded(es, r) \in Seq(Nat)
<1>1. Append(es, r) \in Seq(Nat) /\ Len(Append(es, r)) \in Nat
  OBVIOUS
<1>2. ASSUME Len(Append(es, r)) > HistoryLimit
      PROVE  SubSeq(Append(es, r), Len(Append(es, r)) - HistoryLimit + 1, Len(Append(es, r)))
               \in Seq(Nat)
  <2>1. Len(Append(es, r)) - HistoryLimit + 1 \in 1 .. Len(Append(es, r))
    BY <1>1, <1>2, RoomAssumption, SMTT(30)
  <2> QED
    BY <1>1, <2>1, SubSeqType
<1> QED
  BY <1>1, <1>2 DEF Recorded

LEMMA PublishType ==
  ASSUME TypeOK, Publish
  PROVE  revision' \in Nat /\ events' \in Seq(Nat)
  BY RecordedType DEF TypeOK, Publish

LEMMA StoredType ==
  ASSUME TypeOK, NEW r \in Request \cup {None}
  PROVE  Stored(r) \in [Request -> Time]
  BY RoomAssumption, SMTT(30) DEF TypeOK, ScheduleOK, Stored, Purged, Time

LEMMA CleanupType ==
  ASSUME TypeOK, NEW o \in Times, NEW r
  PROVE  WithCleanup(o, r) \in Times
<1>1. now \in Nat /\ now + CommandRetention \in Nat
  BY RoomAssumption DEF TypeOK, ScheduleOK
<1>2. "cleanup" \in Op /\ o["cleanup"] \in Time
  BY DEF Op, Times
<1>3. o["cleanup"] # None => Lesser(o["cleanup"], now + CommandRetention) \in Nat
  BY <1>1, <1>2 DEF Lesser, Time
<1>4. \A t \in Nat : [o EXCEPT !["cleanup"] = t] \in Times
  BY DEF Times, Time
<1> QED
  BY <1>1, <1>3, <1>4 DEF WithCleanup

LEMMA RetentionType ==
  ASSUME NEW o \in Times, NEW at \in Nat
  PROVE  WithRetention(o, at) \in Times
  BY RoomAssumption DEF WithRetention, Times, Time, Op

LEMMA AfterRemovalType ==
  ASSUME TypeOK, NEW o \in Times, NEW p \in Participant
  PROVE  AfterRemoval(o, p) \in Times
<1>1. [o EXCEPT ![p] = None] \in Times
  BY DEF Times, Time
<1>2. now \in Nat
  BY DEF TypeOK, ScheduleOK
<1> QED
  BY <1>1, <1>2, RetentionType DEF AfterRemoval

LEMMA InvalidatedType ==
  ASSUME TypeOK, NEW p
  PROVE  Invalidated(p) \in [Resume -> Connections]
<1>1. now \in Nat
  BY DEF TypeOK, ScheduleOK
<1>2. ASSUME NEW c \in Resume
      PROVE  [conn[c] EXCEPT !.valid = FALSE, !.live = FALSE,
                             !.at = IF conn[c].live THEN now ELSE @] \in Connections
  BY <1>1 DEF TypeOK, Connections, Time
<1> QED
  BY <1>2 DEF Invalidated, TypeOK

LEMMA RemoveType ==
  ASSUME TypeOK, NEW p \in Participant, Remove(p)
  PROVE  /\ RoomOK'
         /\ SocketsOK'
         /\ state' \in {state, "finished"}
<1>1. Eldest(Players \ {p}) \subseteq Participant
  BY DEF Eldest, Players, Members
<1>2. SocketsOK'
  BY InvalidatedType DEF Remove, TypeOK, SocketsOK
<1>3. revision' \in Nat /\ events' \in Seq(Nat)
  BY PublishType DEF Remove
<1>4. joinedAt' \in [Participant -> Time] /\ ready' \subseteq Participant
  BY DEF Remove, TypeOK, Time
<1> QED
  BY <1>1, <1>2, <1>3, <1>4 DEF Remove, TypeOK, RoomOK

LEMMA ConcludeType ==
  ASSUME TypeOK, NEW o \in Times, NEW armed, NEW arms, Conclude(o, armed, arms), Row' \in Rows
  PROVE  ScheduleOK'
<1>1. NextDue(o) \in Time
  BY NextDueFirst
<1>2. CASE Public
  <2>1. SyncIndex(o, armed) /\ now' = now
    BY <1>2 DEF Conclude
  <2>2. ops' \in Times
    BY <2>1 DEF SyncIndex, TypeOK, ScheduleOK, Times, Time
  <2>3. task' \in [Task -> [row : Rows, due : Nat, served : BOOLEAN] \cup {None}]
    BY <2>1 DEF SyncIndex, TypeOK, ScheduleOK
  <2> QED
    BY <1>1, <2>1, <2>2, <2>3 DEF SyncIndex, TypeOK, ScheduleOK
<1>3. CASE ~Public
  BY <1>1, <1>3 DEF Conclude, TypeOK, ScheduleOK, projection
<1> QED
  BY <1>2, <1>3

LEMMA ReturnType ==
  ASSUME TypeOK, NEW o \in Times, NEW armed, Return(o, armed)
  PROVE  ScheduleOK'
<1>1. NextDue(o) \in Time
  BY NextDueFirst
<1> QED
  BY <1>1 DEF Return, TypeOK, ScheduleOK, projection

LEMMA PassedType ==
  ASSUME TypeOK, NEW o \in Op
  PROVE  Passed(o) \in [pc : {"idle", "loop", "upsert", "delete"}, due : Times,
                        row : Rows \cup {None}, at : Nat, served : BOOLEAN]
  BY DEF TypeOK, ScheduleOK, Passed, Times, Time

LEMMA ContinueType ==
  ASSUME TypeOK, NEW o \in Op, NEW o1 \in Times, Continue(o, o1)
  PROVE  ScheduleOK'
  BY PassedType DEF Continue, TypeOK, ScheduleOK

LEMMA DeleteType ==
  ASSUME TypeOK, DeleteRoom
  PROVE  TypeOK'
<1>1. NoDue \in Times
  BY DEF NoDue, Times, Time
<1>2. NoConnection \in Connections
  BY DEF NoConnection, Connections, Time
<1>3. Idle \in [pc : {"idle", "loop", "upsert", "delete"}, due : Times,
                row : Rows \cup {None}, at : Nat, served : BOOLEAN]
  BY <1>1 DEF Idle
<1>4. events' \in Seq(Nat)
  BY DEF DeleteRoom
<1> QED
  BY <1>1, <1>2, <1>3, <1>4 DEF DeleteRoom, TypeOK, ScheduleOK, Time

LEMMA SetOpType ==
  ASSUME TypeOK, NEW o \in Op, NEW t \in Time
  PROVE  [ops EXCEPT ![o] = t] \in Times
  BY DEF TypeOK, ScheduleOK, Times

LEMMA GraceType ==
  ASSUME TypeOK
  PROVE  now + Grace \in Time
  BY RoomAssumption DEF TypeOK, ScheduleOK, Time

LEMMA MarkType ==
  ASSUME TypeOK, SessionsOK, NEW c \in Resume, NEW g, MarkDisconnected(c, g)
  PROVE  conn' \in [Resume -> Connections] /\ ScheduleOK'
<1>1. now \in Nat /\ now + Grace \in Nat
  BY RoomAssumption, SMTT(30) DEF TypeOK, ScheduleOK
<1>2. [ops EXCEPT ![conn[c].who] = now + Grace] \in Times
  BY <1>1 DEF TypeOK, ScheduleOK, Times, Time
<1>3. conn' \in [Resume -> Connections]
  <2>1. [conn[c] EXCEPT !.live = FALSE, !.at = now] \in Connections
    BY <1>1 DEF TypeOK, Connections, Time
  <2>2. conn' = conn \/ conn' = [conn EXCEPT ![c] = [conn[c] EXCEPT !.live = FALSE, !.at = now]]
    BY DEF MarkDisconnected, TypeOK
  <2> QED
    BY <2>1, <2>2 DEF TypeOK
<1>4. ScheduleOK'
  BY <1>2, ReturnType DEF MarkDisconnected, TypeOK, ScheduleOK
<1> QED
  BY <1>3, <1>4

LEMMA UpsertedType ==
  ASSUME TypeOK, NEW row \in Rows \cup {None}
  PROVE  Upserted(row) \in Rows \cup {None}
  BY DEF Upserted, TypeOK, ScheduleOK

LEMMA DoneType ==
  ASSUME TypeOK, NEW row, NEW due
  PROVE  Done(row, due) \in Times
  BY DEF Done, TypeOK, ScheduleOK, Times, Time

LEMMA RetriedType ==
  ASSUME TypeOK, NEW row, NEW due \in Nat
  PROVE  Retried(row, due) \in Times
<1>1. now \in Nat
  BY DEF TypeOK, ScheduleOK
<1>2. Greater(now, due) + RetryDelay \in Nat
  BY <1>1, RoomAssumption DEF Greater
<1> QED
  BY <1>2 DEF Retried, TypeOK, ScheduleOK, Times, Time

\* What the clean-up is moved to.
FirstExpiry ==
  LET left == {Purged(run.at)[q] : q \in Request} \ {None}
  IN  IF left = {} THEN None ELSE CHOOSE e \in left : \A f \in left : e <= f

LEMMA FirstExpiryType ==
  ASSUME Purged(run.at) \in [Request -> Time]
  PROVE  /\ FirstExpiry \in Time
         /\ \A q \in Request : Purged(run.at)[q] # None =>
              FirstExpiry # None /\ FirstExpiry <= Purged(run.at)[q]
<1> DEFINE left == {Purged(run.at)[q] : q \in Request} \ {None}
<1>1. left \subseteq Nat /\ \A q \in Request : Purged(run.at)[q] # None => Purged(run.at)[q] \in left
  BY DEF Time
<1>2. FirstExpiry = IF left = {} THEN None ELSE CHOOSE e \in left : \A f \in left : e <= f
  BY DEF FirstExpiry
<1> HIDE DEF left
<1>3. left # {} => \E e \in left : \A f \in left : e <= f
  BY <1>1, Least
<1> QED
  BY <1>1, <1>2, <1>3, RoomAssumption DEF Time

LEMMA TypeStep == TypeOK /\ SessionsOK /\ RunOK /\ [Next]_vars => TypeOK'
<1> SUFFICES ASSUME TypeOK, SessionsOK, RunOK, [Next]_vars PROVE TypeOK'
  OBVIOUS
<1>1. CASE Initialize
  <2>1. RoomOK' /\ SocketsOK' /\ processed' \in [Request -> Time]
    BY <1>1, RoomAssumption DEF Initialize, TypeOK, RoomOK, SocketsOK, ScheduleOK, sessions, Time
  <2>2. ops \in Times
    BY DEF TypeOK, ScheduleOK
  <2>3. Row' \in Rows
    BY <1>1, <2>1, RowType DEF Initialize, RoomOK, TypeOK
  <2>4. ScheduleOK'
    BY <1>1, <2>2, <2>3, ConcludeType DEF Initialize
  <2> QED
    BY <2>1, <2>4, TypeParts
<1>2. CASE InitializeAgain
  <2>1. RoomOK' /\ SocketsOK' /\ processed' \in [Request -> Time]
    BY <1>2 DEF InitializeAgain, TypeOK, RoomOK, SocketsOK, room, sessions
  <2>2. ops \in Times
    BY DEF TypeOK, ScheduleOK
  <2>3. Row' \in Rows
    BY <1>2, <2>1, RowType DEF InitializeAgain, RoomOK, Exists, TypeOK, room
  <2>4. ScheduleOK'
    BY <1>2, <2>2, <2>3, ConcludeType DEF InitializeAgain
  <2> QED
    BY <2>1, <2>4, TypeParts
<1>3. ASSUME NEW p \in Participant, Join(p) PROVE TypeOK'
  <2>1. RoomOK' /\ SocketsOK' /\ processed' \in [Request -> Time]
    BY <1>3, PublishType DEF Join, TypeOK, RoomOK, SocketsOK, ScheduleOK, sessions, Time
  <2>2. ops \in Times
    BY DEF TypeOK, ScheduleOK
  <2>3. Row' \in Rows
    BY <1>3, <2>1, RowType DEF Join, RoomOK, TypeOK
  <2>4. ScheduleOK'
    BY <1>3, <2>2, <2>3, ConcludeType DEF Join
  <2> QED
    BY <2>1, <2>4, TypeParts
<1>4. ASSUME NEW p \in Participant, DisconnectCall(p) PROVE TypeOK'
  <2>1. RoomOK' /\ SocketsOK' /\ processed' \in [Request -> Time]
    BY <1>4 DEF DisconnectCall, TypeOK, RoomOK, SocketsOK, room, sessions
  <2>2. [ops EXCEPT ![p] = now + Grace] \in Times
    BY GraceType, SetOpType DEF Op
  <2>3. ScheduleOK'
    BY <1>4, <2>2, ReturnType DEF DisconnectCall
  <2> QED
    BY <2>1, <2>3, TypeParts
<1>5. ASSUME NEW p \in Participant, NEW r \in Request \cup {None}, Leave(p, r) PROVE TypeOK'
  <2>1. RoomOK' /\ SocketsOK' /\ processed' \in [Request -> Time]
    BY <1>5, StoredType, RemoveType DEF Leave, TypeOK, RoomOK, SocketsOK
  <2>2. WithCleanup(AfterRemoval(ops, p), r) \in Times
    BY AfterRemovalType, CleanupType DEF TypeOK, ScheduleOK
  <2>3. Row' \in Rows
    <3>1. state' \in {state, "finished"} /\ Active
      BY <1>5, RemoveType DEF Leave
    <3> QED
      BY <2>1, <3>1, RowType DEF RoomOK, Active
  <2>4. ScheduleOK'
    BY <1>5, <2>2, <2>3, ConcludeType DEF Leave
  <2> QED
    BY <2>1, <2>4, TypeParts
<1>6. ASSUME NEW p \in Participant, NEW r \in Request \cup {None}, SelectTeam(p, r) PROVE TypeOK'
  <2>1. RoomOK' /\ SocketsOK' /\ processed' \in [Request -> Time]
    BY <1>6, PublishType, StoredType DEF SelectTeam, TypeOK, RoomOK, SocketsOK, sessions
  <2>2. WithCleanup(ops, r) \in Times
    BY CleanupType DEF TypeOK, ScheduleOK
  <2>3. ScheduleOK'
    BY <1>6, <2>2, ReturnType DEF SelectTeam
  <2> QED
    BY <2>1, <2>3, TypeParts
<1>7. ASSUME NEW p \in Participant, NEW r \in Request \cup {None}, TransferHost(p, r) PROVE TypeOK'
  <2>1. RoomOK' /\ SocketsOK' /\ processed' \in [Request -> Time]
    BY <1>7, PublishType, StoredType DEF TransferHost, TypeOK, Players, Members, RoomOK,
         SocketsOK, sessions
  <2>2. WithCleanup(ops, r) \in Times
    BY CleanupType DEF TypeOK, ScheduleOK
  <2>3. ScheduleOK'
    BY <1>7, <2>2, ReturnType DEF TransferHost
  <2> QED
    BY <2>1, <2>3, TypeParts
<1>8. ASSUME NEW p \in Participant, NEW r \in Request \cup {None}, Kick(p, r) PROVE TypeOK'
  <2>1. RoomOK' /\ SocketsOK' /\ processed' \in [Request -> Time]
    BY <1>8, PublishType, StoredType, InvalidatedType DEF Kick, TypeOK, RoomOK, SocketsOK, Time
  <2>2. WithCleanup([ops EXCEPT ![p] = None], r) \in Times
    BY CleanupType DEF TypeOK, ScheduleOK, Times, Time
  <2>3. Row' \in Rows
    BY <1>8, <2>1, RowType DEF Kick, RoomOK, TypeOK
  <2>4. ScheduleOK'
    BY <1>8, <2>2, <2>3, ConcludeType DEF Kick
  <2> QED
    BY <2>1, <2>4, TypeParts
<1>9. ASSUME NEW p \in Participant, NEW value \in BOOLEAN, NEW r \in Request \cup {None},
     SetReady(p, value, r) PROVE TypeOK'
  <2>1. RoomOK' /\ SocketsOK' /\ processed' \in [Request -> Time]
    BY <1>9, PublishType, StoredType DEF SetReady, TypeOK, Players, Members, RoomOK, SocketsOK,
         sessions
  <2>2. WithCleanup(ops, r) \in Times
    BY CleanupType DEF TypeOK, ScheduleOK
  <2>3. ScheduleOK'
    BY <1>9, <2>2, ReturnType DEF SetReady
  <2> QED
    BY <2>1, <2>3, TypeParts
<1>10. ASSUME NEW r \in Request \cup {None}, UpdateSettings(r) PROVE TypeOK'
  <2>1. RoomOK' /\ SocketsOK' /\ processed' \in [Request -> Time]
    BY <1>10, PublishType, StoredType DEF UpdateSettings, TypeOK, RoomOK, SocketsOK, sessions
  <2>2. WithCleanup(ops, r) \in Times
    BY CleanupType DEF TypeOK, ScheduleOK
  <2>3. Row' \in Rows
    BY <1>10, <2>1, RowType DEF UpdateSettings, RoomOK, TypeOK
  <2>4. ScheduleOK'
    BY <1>10, <2>2, <2>3, ConcludeType DEF UpdateSettings
  <2> QED
    BY <2>1, <2>4, TypeParts
<1>11. ASSUME NEW r \in Request \cup {None}, StartMatch(r) PROVE TypeOK'
  <2>1. RoomOK' /\ SocketsOK' /\ processed' \in [Request -> Time]
    <3>1. revision + 1 \in Nat /\ revision + 2 \in Nat /\ events \in Seq(Nat)
      BY DEF TypeOK
    <3>2. revision' \in Nat /\ events' \in Seq(Nat)
      BY <1>11, <3>1, RecordedType DEF StartMatch
    <3> QED
      BY <1>11, <3>2, StoredType DEF StartMatch, TypeOK, RoomOK, SocketsOK, sessions
  <2>2. WithCleanup(ops, r) \in Times
    BY CleanupType DEF TypeOK, ScheduleOK
  <2>3. Row' \in Rows
    BY <1>11, <2>1, RowType DEF StartMatch, RoomOK, TypeOK
  <2>4. ScheduleOK'
    BY <1>11, <2>2, <2>3, ConcludeType DEF StartMatch
  <2> QED
    BY <2>1, <2>4, TypeParts
<1>12. ASSUME NEW at \in 0 .. MaxTime, NEW r \in Request \cup {None}, Close(at, r) PROVE TypeOK'
  <2>1. RoomOK' /\ SocketsOK' /\ processed' \in [Request -> Time]
    BY <1>12, PublishType, StoredType DEF Close, TypeOK, RoomOK, SocketsOK, sessions
  <2>2. WithCleanup(WithRetention(ops, at), r) \in Times
    <3>1. at \in Nat
      BY RoomAssumption
    <3> QED
      BY <3>1, RetentionType, CleanupType DEF TypeOK, ScheduleOK
  <2>3. Row' \in Rows
    BY <1>12, <2>1, RowType DEF Close, RoomOK, Active, TypeOK
  <2>4. ScheduleOK'
    BY <1>12, <2>2, <2>3, ConcludeType DEF Close
  <2> QED
    BY <2>1, <2>4, TypeParts
<1>13. ASSUME NEW next \in {"preparing", "in_progress", "finished"}, Transition(next) PROVE TypeOK'
  <2>1. RoomOK' /\ SocketsOK' /\ processed' \in [Request -> Time]
    BY <1>13, PublishType DEF Transition, TypeOK, RoomOK, SocketsOK, sessions
  <2>2. (IF next = "finished" THEN WithRetention(ops, now) ELSE ops) \in Times
    BY RetentionType DEF TypeOK, ScheduleOK
  <2>3. Row' \in Rows
    BY <1>13, <2>1, RowType DEF Transition, RoomOK, TypeOK
  <2>4. ScheduleOK'
    BY <1>13, <2>2, <2>3, ConcludeType DEF Transition
  <2> QED
    BY <2>1, <2>4, TypeParts
<1>14. ASSUME NEW at \in 0 .. MaxTime, ScheduleOperation(at) PROVE TypeOK'
  <2>1. RoomOK' /\ SocketsOK' /\ processed' \in [Request -> Time]
    BY <1>14 DEF ScheduleOperation, TypeOK, RoomOK, SocketsOK, room, sessions
  <2>2. [ops EXCEPT !["marker"] = at] \in Times
    BY RoomAssumption, SetOpType DEF Op, Time
  <2>3. ScheduleOK'
    BY <1>14, <2>2, ReturnType DEF ScheduleOperation
  <2> QED
    BY <2>1, <2>3, TypeParts
<1>15. CASE CancelScheduledOperation
  <2>1. RoomOK' /\ SocketsOK' /\ processed' \in [Request -> Time]
    BY <1>15 DEF CancelScheduledOperation, TypeOK, RoomOK, SocketsOK, room, sessions
  <2>2. [ops EXCEPT !["marker"] = None] \in Times
    BY DEF TypeOK, ScheduleOK, Times, Time
  <2>3. ScheduleOK'
    BY <1>15, <2>2, ReturnType DEF CancelScheduledOperation
  <2> QED
    BY <2>1, <2>3, TypeParts
<1>16. ASSUME NEW p \in Participant, NEW r \in Request, GameMessage(p, r) PROVE TypeOK'
  <2>1. RoomOK' /\ SocketsOK' /\ processed' \in [Request -> Time]
    BY <1>16, StoredType DEF GameMessage, TypeOK, RoomOK, SocketsOK, room, sessions
  <2>2. WithCleanup(ops, r) \in Times
    BY CleanupType DEF TypeOK, ScheduleOK
  <2>3. ScheduleOK'
    BY <1>16, <2>2, ReturnType DEF GameMessage
  <2> QED
    BY <2>1, <2>3, TypeParts
<1>17. ASSUME NEW c \in Resume, NEW p \in Participant, Connect(c, p) PROVE TypeOK'
  <2>1. RoomOK' /\ SocketsOK' /\ processed' \in [Request -> Time]
    BY <1>17 DEF Connect, TypeOK, Connections, Time, RoomOK, SocketsOK, room
  <2>2. ops \in Times
    BY DEF TypeOK, ScheduleOK
  <2>3. ScheduleOK'
    BY <1>17, <2>2, ReturnType DEF Connect
  <2> QED
    BY <2>1, <2>3, TypeParts
<1>18. ASSUME NEW c \in Resume, ResumeSession(c) PROVE TypeOK'
  <2>1. RoomOK' /\ SocketsOK' /\ processed' \in [Request -> Time]
    <3>1. conn[c].generation + 1 \in Nat /\ conn[c] \in Connections
      BY DEF TypeOK, Connections
    <3>2. [conn[c] EXCEPT !.generation = @ + 1, !.live = TRUE, !.at = None] \in Connections
      BY <3>1 DEF Connections, Time
    <3>3. conn' = [conn EXCEPT ![c] =
                     [conn[c] EXCEPT !.generation = @ + 1, !.live = TRUE, !.at = None]]
      BY <1>18 DEF ResumeSession, TypeOK
    <3>4. conn' \in [Resume -> Connections]
      BY <3>2, <3>3 DEF TypeOK
    <3> QED
      BY <1>18, <3>1, <3>4 DEF ResumeSession, TypeOK, RoomOK, SocketsOK, room
  <2>2. [ops EXCEPT ![conn[c].who] = None] \in Times
    BY DEF TypeOK, ScheduleOK, Times, Time
  <2>3. ScheduleOK'
    BY <1>18, <2>2, ReturnType DEF ResumeSession
  <2> QED
    BY <2>1, <2>3, TypeParts
<1>19. ASSUME NEW c \in Resume, ResumeTooLate(c) PROVE TypeOK'
  <2> DEFINE p == conn[c].who
  <2>1. p \in Participant /\ conn[c].at \in Nat
    BY <1>19 DEF ResumeTooLate, Resumable, Members, SessionsOK
  <2>2. processed' \in [Request -> Time]
    BY <1>19 DEF ResumeTooLate, TypeOK
  <2>3. CASE Remove(p) /\ Return(AfterRemoval(ops, p), TRUE)
    <3>1. AfterRemoval(ops, p) \in Times
      BY <2>1, AfterRemovalType DEF TypeOK, ScheduleOK
    <3> QED
      BY <2>1, <2>2, <2>3, <3>1, RemoveType, ReturnType, TypeParts
  <2>4. CASE UNCHANGED <<room, sessions>> /\ Return([ops EXCEPT ![p] = LastSeen(p,
       conn[c].at) + Grace], TRUE)
    <3>1. LastSeen(p, conn[c].at) + Grace \in Nat
      BY <2>1, LastSeenType, RoomAssumption
    <3>2. [ops EXCEPT ![p] = LastSeen(p, conn[c].at) + Grace] \in Times
      BY <3>1 DEF TypeOK, ScheduleOK, Times, Time
    <3>3. ScheduleOK'
      BY <2>4, <3>2, ReturnType
    <3> QED
      BY <2>2, <2>4, <3>3, TypeParts DEF TypeOK, RoomOK, SocketsOK, room, sessions
  <2>5. CASE UNCHANGED <<room, sessions>> /\ Return(ops, TRUE)
    <3>1. ScheduleOK'
      BY <2>5, ReturnType DEF TypeOK, ScheduleOK
    <3> QED
      BY <2>2, <2>5, <3>1, TypeParts DEF TypeOK, RoomOK, SocketsOK, room, sessions
  <2> QED
    BY <1>19, <2>3, <2>4, <2>5 DEF ResumeTooLate
<1>20. ASSUME NEW c \in Resume, NEW g \in 1 .. MaxGeneration, SocketError(c, g) PROVE TypeOK'
  <2>1. RoomOK' /\ processed' \in [Request -> Time]
    BY <1>20 DEF SocketError, TypeOK, RoomOK, room
  <2>2. open' \subseteq Resume \X Nat /\ broken' \subseteq Resume \X Nat
    BY <1>20 DEF SocketError, TypeOK
  <2>3. conn' \in [Resume -> Connections] /\ ScheduleOK'
    BY <1>20, MarkType DEF SocketError
  <2> QED
    BY <2>1, <2>2, <2>3, TypeParts DEF SocketsOK
<1>21. ASSUME NEW c \in Resume, NEW g \in 1 .. MaxGeneration, SocketClose(c, g) PROVE TypeOK'
  <2>1. RoomOK' /\ processed' \in [Request -> Time]
    BY <1>21 DEF SocketClose, TypeOK, RoomOK, room
  <2>2. open' \subseteq Resume \X Nat /\ broken' \subseteq Resume \X Nat
    BY <1>21 DEF SocketClose, TypeOK
  <2>3. conn' \in [Resume -> Connections] /\ ScheduleOK'
    BY <1>21, MarkType DEF SocketClose
  <2> QED
    BY <2>1, <2>2, <2>3, TypeParts DEF SocketsOK
<1>22. ASSUME NEW t \in Task, UpsertServed(t) PROVE TypeOK'
  <2>1. RoomOK' /\ SocketsOK' /\ processed' \in [Request -> Time]
    BY <1>22 DEF UpsertServed, TypeOK, RoomOK, SocketsOK, room, sessions
  <2>2. ScheduleOK'
    <3>1. task[t] \in [row : Rows, due : Nat, served : BOOLEAN]
      BY <1>22 DEF UpsertServed, TypeOK, ScheduleOK
    <3>2. listed' \in Rows \cup {None}
      BY <1>22, <3>1, UpsertedType DEF UpsertServed
    <3>3. [task[t] EXCEPT !.served = TRUE] \in [row : Rows, due : Nat, served : BOOLEAN]
      BY <3>1
    <3>4. task' = [task EXCEPT ![t] = [task[t] EXCEPT !.served = TRUE]]
      BY <1>22 DEF UpsertServed, TypeOK, ScheduleOK
    <3>5. task' \in [Task -> [row : Rows, due : Nat, served : BOOLEAN] \cup {None}]
      BY <3>3, <3>4 DEF TypeOK, ScheduleOK
    <3> QED
      BY <1>22, <3>2, <3>5 DEF UpsertServed, TypeOK, ScheduleOK
  <2> QED
    BY <2>1, <2>2, TypeParts
<1>23. ASSUME NEW t \in Task, UpsertAnswered(t) PROVE TypeOK'
  <2>1. RoomOK' /\ SocketsOK' /\ processed' \in [Request -> Time]
    BY <1>23 DEF UpsertAnswered, TypeOK, RoomOK, SocketsOK, room, sessions
  <2>2. ops' \in Times
    BY <1>23, DoneType DEF UpsertAnswered
  <2>3. alarm' \in Time
    BY <1>23, <2>2, NextDueFirst DEF UpsertAnswered
  <2>4. task' \in [Task -> [row : Rows, due : Nat, served : BOOLEAN] \cup {None}]
    BY <1>23 DEF UpsertAnswered, TypeOK, ScheduleOK
  <2>5. ScheduleOK'
    BY <1>23, <2>2, <2>3, <2>4 DEF UpsertAnswered, PendingAfter, TypeOK, ScheduleOK
  <2> QED
    BY <2>1, <2>5, TypeParts
<1>24. ASSUME NEW t \in Task, UpsertFailed(t) PROVE TypeOK'
  <2>1. RoomOK' /\ SocketsOK' /\ processed' \in [Request -> Time]
    BY <1>24 DEF UpsertFailed, TypeOK, RoomOK, SocketsOK, room, sessions
  <2>2. task[t].row \in Rows /\ task[t].due \in Nat
    BY <1>24 DEF UpsertFailed, TypeOK, ScheduleOK
  <2>3. ops' \in Times
    BY <1>24, <2>2, RetriedType DEF UpsertFailed
  <2>4. alarm' \in Time
    BY <1>24, <2>3, NextDueFirst DEF UpsertFailed
  <2>5. task' \in [Task -> [row : Rows, due : Nat, served : BOOLEAN] \cup {None}]
    BY <1>24 DEF UpsertFailed, TypeOK, ScheduleOK
  <2>6. late' \subseteq Rows \cup {None}
    BY <1>24, <2>2 DEF UpsertFailed, Outcomes, TypeOK, ScheduleOK
  <2>7. ScheduleOK'
    BY <1>24, <2>3, <2>4, <2>5, <2>6 DEF UpsertFailed, TypeOK, ScheduleOK
  <2> QED
    BY <2>1, <2>7, TypeParts
<1>25. ASSUME NEW w \in late, LateWrite(w) PROVE TypeOK'
  <2>1. RoomOK' /\ SocketsOK' /\ processed' \in [Request -> Time]
    BY <1>25 DEF LateWrite, TypeOK, RoomOK, SocketsOK, room, sessions
  <2>2. ScheduleOK'
    BY <1>25, UpsertedType DEF LateWrite, TypeOK, ScheduleOK
  <2> QED
    BY <2>1, <2>2, TypeParts
<1>26. CASE AlarmFires
  <2>1. RoomOK' /\ SocketsOK' /\ processed' \in [Request -> Time]
    BY <1>26 DEF AlarmFires, TypeOK, RoomOK, SocketsOK, room, sessions
  <2>2. ScheduleOK'
    BY <1>26 DEF AlarmFires, TypeOK, ScheduleOK, Times, Time
  <2> QED
    BY <2>1, <2>2, TypeParts
<1>27. CASE AlarmIndex
  <2>1. RoomOK' /\ SocketsOK' /\ processed' \in [Request -> Time]
    BY <1>27 DEF AlarmIndex, TypeOK, RoomOK, SocketsOK, room, sessions
  <2>2. ScheduleOK'
    BY <1>27 DEF AlarmIndex, TypeOK, ScheduleOK
  <2> QED
    BY <2>1, <2>2, TypeParts
<1>28. CASE AlarmUpsertServed
  <2>1. RoomOK' /\ SocketsOK' /\ processed' \in [Request -> Time]
    BY <1>28 DEF AlarmUpsertServed, TypeOK, RoomOK, SocketsOK, room, sessions
  <2>2. ScheduleOK'
    BY <1>28, UpsertedType DEF AlarmUpsertServed, TypeOK, ScheduleOK
  <2> QED
    BY <2>1, <2>2, TypeParts
<1>29. CASE AlarmUpsertAnswered
  <2>1. RoomOK' /\ SocketsOK' /\ processed' \in [Request -> Time]
    BY <1>29 DEF AlarmUpsertAnswered, TypeOK, RoomOK, SocketsOK, room, sessions
  <2>2. ops' \in Times
    BY <1>29, DoneType DEF AlarmUpsertAnswered
  <2>3. "index" \in Op
    BY DEF Op
  <2>4. ScheduleOK'
    BY <1>29, <2>2, <2>3, PassedType DEF AlarmUpsertAnswered, PendingAfter, TypeOK, ScheduleOK
  <2> QED
    BY <2>1, <2>4, TypeParts
<1>30. CASE AlarmUpsertFailed
  <2>1. RoomOK' /\ SocketsOK' /\ processed' \in [Request -> Time]
    BY <1>30 DEF AlarmUpsertFailed, TypeOK, RoomOK, SocketsOK, room, sessions
  <2>2. ops' \in Times
    BY <1>30, RetriedType DEF AlarmUpsertFailed, RunOK
  <2>3. "index" \in Op
    BY DEF Op
  <2>4. late' \subseteq Rows \cup {None}
    BY <1>30 DEF AlarmUpsertFailed, Outcomes, TypeOK, ScheduleOK
  <2>5. ScheduleOK'
    BY <1>30, <2>2, <2>3, <2>4, PassedType DEF AlarmUpsertFailed, TypeOK, ScheduleOK
  <2> QED
    BY <2>1, <2>5, TypeParts
<1>31. CASE AlarmRetention
  <2>1. CASE DeleteRoom
    BY <2>1, DeleteType
  <2>2. CASE run' = [run EXCEPT !.pc = "delete"] /\ UNCHANGED <<room, sessions, processed, ops,
       alarm, pending, task, late, listed, now>>
    BY <2>2 DEF TypeOK, ScheduleOK, room, sessions
  <2>3. CASE UNCHANGED <<room, sessions, processed>> /\ Continue("retention",
       [ops EXCEPT !["retention"] = None])
    <3>1. "retention" \in Op /\ [ops EXCEPT !["retention"] = None] \in Times
      BY DEF Op, TypeOK, ScheduleOK, Times, Time
    <3>2. ScheduleOK'
      BY <2>3, <3>1, ContinueType
    <3> QED
      BY <2>3, <3>2, TypeParts DEF TypeOK, RoomOK, SocketsOK, room, sessions
  <2> QED
    BY <1>31, <2>1, <2>2, <2>3 DEF AlarmRetention
<1>32. CASE AlarmDeleteServed
  <2>1. RoomOK' /\ SocketsOK' /\ processed' \in [Request -> Time]
    BY <1>32 DEF AlarmDeleteServed, TypeOK, RoomOK, SocketsOK, room, sessions
  <2>2. ScheduleOK'
    BY <1>32 DEF AlarmDeleteServed, TypeOK, ScheduleOK
  <2> QED
    BY <2>1, <2>2, TypeParts
<1>33. CASE AlarmDeleteAnswered
  BY <1>33, DeleteType DEF AlarmDeleteAnswered
<1>34. CASE AlarmDeleteFailed
  <2>1. RoomOK' /\ SocketsOK' /\ processed' \in [Request -> Time]
    BY <1>34 DEF AlarmDeleteFailed, TypeOK, RoomOK, SocketsOK, room, sessions
  <2>2. "retention" \in Op /\ run.due["retention"] \in Nat
    BY <1>34 DEF AlarmDeleteFailed, Op, RunOK
  <2>3. Greater(now, run.due["retention"]) + RetryDelay \in Nat
    <3>1. now \in Nat
      BY DEF TypeOK, ScheduleOK
    <3> QED
      BY <2>2, <3>1, RoomAssumption DEF Greater
  <2>4. ops' \in Times
    BY <1>34, <2>2, <2>3 DEF AlarmDeleteFailed, TypeOK, ScheduleOK, Times, Time
  <2>5. late' \subseteq Rows \cup {None}
    BY <1>34 DEF AlarmDeleteFailed, Outcomes, TypeOK, ScheduleOK
  <2>6. ScheduleOK'
    BY <1>34, <2>2, <2>4, <2>5, PassedType DEF AlarmDeleteFailed, TypeOK, ScheduleOK
  <2> QED
    BY <2>1, <2>6, TypeParts
<1>35. ASSUME NEW p \in Participant, AlarmDisconnect(p) PROVE TypeOK'
  <2> DEFINE at == run.due[p] - Grace
  <2>1. p \in Op /\ run.due[p] \in Nat
    BY <1>35 DEF AlarmDisconnect, At, Op, TypeOK, ScheduleOK, Times, Time
  <2>2. processed' \in [Request -> Time]
    BY <1>35 DEF AlarmDisconnect, TypeOK
  <2>3. CASE Remove(p) /\ Continue(p, AfterRemoval(ops, p))
    <3>1. AfterRemoval(ops, p) \in Times
      BY AfterRemovalType DEF TypeOK, ScheduleOK
    <3> QED
      BY <2>1, <2>2, <2>3, <3>1, RemoveType, ContinueType, TypeParts
  <2>4. CASE UNCHANGED <<room, sessions>> /\ Continue(p, [ops EXCEPT ![p] = LastSeen(p,
       at) + Grace])
    <3>1. at + Grace = run.due[p]
      BY <2>1, RoomAssumption
    <3>2. LastSeen(p, at) \in Nat \cup {at}
      BY LastSeenType
    <3> HIDE DEF at
    <3>3. LastSeen(p, at) + Grace \in Nat
      BY <2>1, <3>1, <3>2, RoomAssumption
    <3>4. [ops EXCEPT ![p] = LastSeen(p, at) + Grace] \in Times
      BY <3>3 DEF TypeOK, ScheduleOK, Times, Time
    <3>5. ScheduleOK'
      BY <2>1, <2>4, <3>4, ContinueType
    <3> QED
      BY <2>2, <2>4, <3>5, TypeParts DEF TypeOK, RoomOK, SocketsOK, room, sessions
  <2>5. CASE UNCHANGED <<room, sessions>> /\ Continue(p, [ops EXCEPT ![p] = None])
    <3>1. [ops EXCEPT ![p] = None] \in Times
      BY DEF TypeOK, ScheduleOK, Times, Time
    <3>2. ScheduleOK'
      BY <2>1, <2>5, <3>1, ContinueType
    <3> QED
      BY <2>2, <2>5, <3>2, TypeParts DEF TypeOK, RoomOK, SocketsOK, room, sessions
  <2> QED
    BY <1>35, <2>3, <2>4, <2>5 DEF AlarmDisconnect
<1>36. CASE AlarmCleanup
  <2>1. RoomOK' /\ SocketsOK'
    BY <1>36 DEF AlarmCleanup, TypeOK, RoomOK, SocketsOK, room, sessions
  <2>2. Purged(run.at) \in [Request -> Time]
    BY DEF Purged, TypeOK, ScheduleOK, Time
  <2>3. processed' \in [Request -> Time]
    BY <1>36, <2>2 DEF AlarmCleanup
  <2>4. "cleanup" \in Op /\ FirstExpiry \in Time
    BY <2>2, FirstExpiryType DEF Op
  <2>5. [ops EXCEPT !["cleanup"] = FirstExpiry] \in Times
    BY <2>4 DEF TypeOK, ScheduleOK, Times, Time
  <2>6. Continue("cleanup", [ops EXCEPT !["cleanup"] = FirstExpiry])
    BY <1>36 DEF AlarmCleanup, FirstExpiry
  <2>7. ScheduleOK'
    BY <2>4, <2>5, <2>6, ContinueType
  <2> QED
    BY <2>1, <2>3, <2>7, TypeParts
<1>37. CASE AlarmMarker
  <2>1. RoomOK' /\ SocketsOK' /\ processed' \in [Request -> Time]
    BY <1>37 DEF AlarmMarker, TypeOK, RoomOK, SocketsOK, room, sessions
  <2>2. "marker" \in Op /\ [ops EXCEPT !["marker"] = None] \in Times
    BY DEF Op, TypeOK, ScheduleOK, Times, Time
  <2>3. ScheduleOK'
    BY <1>37, <2>2, ContinueType DEF AlarmMarker
  <2> QED
    BY <2>1, <2>3, TypeParts
<1>38. CASE AlarmEnds
  <2>1. RoomOK' /\ SocketsOK' /\ processed' \in [Request -> Time]
    BY <1>38 DEF AlarmEnds, TypeOK, RoomOK, SocketsOK, room, sessions
  <2>2. NoDue \in Times
    BY DEF NoDue, Times, Time
  <2>3. alarm' \in Time
    BY <1>38, NextDueFirst DEF AlarmEnds, TypeOK, ScheduleOK
  <2>4. ScheduleOK'
    BY <1>38, <2>2, <2>3 DEF AlarmEnds, Idle, TypeOK, ScheduleOK
  <2> QED
    BY <2>1, <2>4, TypeParts
<1>39. CASE Restart
  <2>1. RoomOK' /\ SocketsOK' /\ processed' \in [Request -> Time]
    BY <1>39 DEF Restart, TypeOK, RoomOK, SocketsOK, room, sessions
  <2>2. NoDue \in Times
    BY DEF NoDue, Times, Time
  <2>3. Unserved \subseteq Rows \cup {None}
    BY DEF Unserved, TypeOK, ScheduleOK
  <2>4. late' \subseteq Rows \cup {None}
    BY <1>39, <2>3 DEF Restart, TypeOK, ScheduleOK
  <2>5. alarm' \in Time
    BY <1>39 DEF Restart, Lesser, TypeOK, ScheduleOK, Time
  <2>6. ScheduleOK'
    BY <1>39, <2>2, <2>4, <2>5 DEF Restart, Idle, TypeOK, ScheduleOK
  <2> QED
    BY <2>1, <2>6, TypeParts
<1>40. CASE Tick
  BY <1>40 DEF Tick, TypeOK, ScheduleOK, room, sessions, projection
<1>41. CASE UNCHANGED vars
  BY <1>41 DEF vars, TypeOK, ScheduleOK, room, sessions, projection
<1> QED
  BY <1>1, <1>2, <1>3, <1>4, <1>5, <1>6, <1>7, <1>8, <1>9, <1>10, <1>11, <1>12, <1>13, <1>14,
       <1>15, <1>16, <1>17, <1>18, <1>19, <1>20, <1>21, <1>22, <1>23, <1>24, <1>25, <1>26, <1>27,
            <1>28, <1>29, <1>30, <1>31, <1>32, <1>33, <1>34, <1>35, <1>36, <1>37, <1>38, <1>39,
                 <1>40, <1>41 DEF Next, Lifecycle, WebSockets, D1, AlarmStep

-----------------------------------------------------------------------------
(* The Room implements Lobby. *)

LEMMA Gone ==
  ASSUME TypeOK, NEW p \in Participant, joinedAt' = [joinedAt EXCEPT ![p] = None]
  PROVE  Members' = Members \ {p}
  BY DEF TypeOK, Members

LEMMA SameLobby ==
  ASSUME joinedAt' = joinedAt, host' = host, state' = state
  PROVE  [Promise!Next]_(Promise!lobby)
  BY DEF Promise!lobby, Members

LEMMA RemoveDeparts ==
  ASSUME TypeOK, NEW p \in Members, Active, Remove(p)
  PROVE  [Promise!Next]_(Promise!lobby)
<1>1. Members' = Members \ {p}
  BY Gone DEF Remove, Members
<1>2. Promise!Ongoing /\ Promise!Candidates = Players
  BY DEF Promise!Ongoing, Active, Promise!Candidates, Players
<1>3. Eldest(Players \ {p}) \subseteq Players \ {p}
  BY DEF Eldest
<1>4. Promise!Depart
  BY <1>1, <1>2, <1>3 DEF Promise!Depart, Remove
<1> QED
  BY <1>4 DEF Promise!Next

LEMMA DeletesLobby ==
  ASSUME TypeOK, state = "finished", DeleteRoom
  PROVE  [Promise!Next]_(Promise!lobby)
<1>1. Members' = {} /\ host' = None /\ state' = "deleted"
  BY DEF DeleteRoom, Members
<1> QED
  BY <1>1 DEF Promise!Next, Promise!Delete

LEMMA LobbyStep == TypeOK /\ RunOK /\ [Next]_vars => [Promise!Next]_(Promise!lobby)
<1> SUFFICES ASSUME TypeOK, RunOK, [Next]_vars PROVE [Promise!Next]_(Promise!lobby)
  OBVIOUS
<1>1. CASE Initialize
  <2>1. Members' = Founders /\ host' = Founder
    BY <1>1, RoomAssumption DEF Initialize, Members, TypeOK, ScheduleOK
  <2>2. Promise!Open
    BY <1>1, <2>1, RoomAssumption DEF Initialize, Promise!Open
  <2> QED
    BY <2>2 DEF Promise!Next
<1>2. CASE InitializeAgain
  <2>1. joinedAt' = joinedAt /\ host' = host /\ state' = state
    BY <1>2 DEF InitializeAgain, room, vars
  <2> QED
    BY <2>1, SameLobby
<1>3. ASSUME NEW p \in Participant, Join(p) PROVE [Promise!Next]_(Promise!lobby)
  <2>1. p \in Participant \ Members
    BY <1>3 DEF Join
  <2>2. Members' = Members \cup {p}
    BY <1>3, RoomAssumption, SMTT(30) DEF Join, Members, TypeOK, ScheduleOK
  <2>3. Promise!Arrive
    BY <1>3, <2>1, <2>2 DEF Join, Promise!Arrive
  <2> QED
    BY <2>3 DEF Promise!Next
<1>4. ASSUME NEW p \in Participant, DisconnectCall(p) PROVE [Promise!Next]_(Promise!lobby)
  <2>1. joinedAt' = joinedAt /\ host' = host /\ state' = state
    BY <1>4 DEF DisconnectCall, room, vars
  <2> QED
    BY <2>1, SameLobby
<1>5. ASSUME NEW p \in Participant, NEW r \in Request \cup {None}, Leave(p, r)
      PROVE [Promise!Next]_(Promise!lobby)
  BY <1>5, RemoveDeparts DEF Leave
<1>6. ASSUME NEW p \in Participant, NEW r \in Request \cup {None}, SelectTeam(p, r)
      PROVE [Promise!Next]_(Promise!lobby)
  <2>1. joinedAt' = joinedAt /\ host' = host /\ state' = state
    BY <1>6 DEF SelectTeam, room, vars
  <2> QED
    BY <2>1, SameLobby
<1>7. ASSUME NEW p \in Participant, NEW r \in Request \cup {None}, TransferHost(p, r)
      PROVE [Promise!Next]_(Promise!lobby)
  <2>1. UNCHANGED <<Members, state>> /\ state = "waiting" /\ host' \in Players \ {host}
    BY <1>7 DEF TransferHost, Members
  <2>2. host # None
    BY <1>7, RoomAssumption DEF TransferHost, HostCalls, Players, Members
  <2>3. Promise!HandOver
    BY <2>1, <2>2 DEF Promise!HandOver, Promise!Candidates, Players
  <2> QED
    BY <2>3 DEF Promise!Next
<1>8. ASSUME NEW p \in Participant, NEW r \in Request \cup {None}, Kick(p, r)
      PROVE [Promise!Next]_(Promise!lobby)
  <2>1. Members' = Members \ {p} /\ p \in Members /\ p # host
    BY <1>8, Gone DEF Kick
  <2>2. Promise!Depart
    BY <1>8, <2>1 DEF Kick, Promise!Depart, Promise!Ongoing
  <2> QED
    BY <2>2 DEF Promise!Next
<1>9. ASSUME NEW p \in Participant, NEW value \in BOOLEAN, NEW r \in Request \cup {None},
     SetReady(p, value, r) PROVE [Promise!Next]_(Promise!lobby)
  <2>1. joinedAt' = joinedAt /\ host' = host /\ state' = state
    BY <1>9 DEF SetReady, room, vars
  <2> QED
    BY <2>1, SameLobby
<1>10. ASSUME NEW r \in Request \cup {None}, UpdateSettings(r) PROVE [Promise!Next]_(Promise!lobby)
  <2>1. joinedAt' = joinedAt /\ host' = host /\ state' = state
    BY <1>10 DEF UpdateSettings, room, vars
  <2> QED
    BY <2>1, SameLobby
<1>11. ASSUME NEW r \in Request \cup {None}, StartMatch(r) PROVE [Promise!Next]_(Promise!lobby)
  <2>1. UNCHANGED <<Members, host>> /\ state = "waiting" /\ state' = "in_progress"
    BY <1>11 DEF StartMatch, Members
  <2> QED
    BY <2>1 DEF Promise!Next, Promise!Advance
<1>12. ASSUME NEW at \in 0 .. MaxTime, NEW r \in Request \cup {None}, Close(at, r)
      PROVE [Promise!Next]_(Promise!lobby)
  <2>1. UNCHANGED <<Members, host>> /\ Active /\ state' = "finished"
    BY <1>12 DEF Close, Members
  <2> QED
    BY <2>1 DEF Promise!Next, Promise!Finish, Promise!Ongoing, Active
<1>13. ASSUME NEW next \in {"preparing", "in_progress", "finished"}, Transition(next)
      PROVE [Promise!Next]_(Promise!lobby)
  <2>1. UNCHANGED <<Members, host>> /\ <<state, state'>> \in AllowedTransition
    BY <1>13 DEF Transition, Members
  <2> QED
    BY <2>1 DEF AllowedTransition, Promise!Next, Promise!Finish, Promise!Advance, Promise!Ongoing
<1>14. ASSUME NEW at \in 0 .. MaxTime, ScheduleOperation(at) PROVE [Promise!Next]_(Promise!lobby)
  <2>1. joinedAt' = joinedAt /\ host' = host /\ state' = state
    BY <1>14 DEF ScheduleOperation, room, vars
  <2> QED
    BY <2>1, SameLobby
<1>15. CASE CancelScheduledOperation
  <2>1. joinedAt' = joinedAt /\ host' = host /\ state' = state
    BY <1>15 DEF CancelScheduledOperation, room, vars
  <2> QED
    BY <2>1, SameLobby
<1>16. ASSUME NEW p \in Participant, NEW r \in Request, GameMessage(p, r)
      PROVE [Promise!Next]_(Promise!lobby)
  <2>1. joinedAt' = joinedAt /\ host' = host /\ state' = state
    BY <1>16 DEF GameMessage, room, vars
  <2> QED
    BY <2>1, SameLobby
<1>17. ASSUME NEW c \in Resume, NEW p \in Participant, Connect(c, p)
      PROVE [Promise!Next]_(Promise!lobby)
  <2>1. joinedAt' = joinedAt /\ host' = host /\ state' = state
    BY <1>17 DEF Connect, room, vars
  <2> QED
    BY <2>1, SameLobby
<1>18. ASSUME NEW c \in Resume, ResumeSession(c) PROVE [Promise!Next]_(Promise!lobby)
  <2>1. joinedAt' = joinedAt /\ host' = host /\ state' = state
    BY <1>18 DEF ResumeSession, room, vars
  <2> QED
    BY <2>1, SameLobby
<1>19. ASSUME NEW c \in Resume, ResumeTooLate(c) PROVE [Promise!Next]_(Promise!lobby)
  <2>1. CASE Remove(conn[c].who) /\ Expired(conn[c].who, conn[c].at)
    BY <2>1, RemoveDeparts DEF Expired, Absent
  <2>2. CASE UNCHANGED <<room, sessions>>
    BY <2>2, SameLobby DEF room
  <2> QED
    BY <1>19, <2>1, <2>2 DEF ResumeTooLate
<1>20. ASSUME NEW c \in Resume, NEW g \in 1 .. MaxGeneration, SocketError(c, g)
      PROVE [Promise!Next]_(Promise!lobby)
  <2>1. joinedAt' = joinedAt /\ host' = host /\ state' = state
    BY <1>20 DEF SocketError, room, vars
  <2> QED
    BY <2>1, SameLobby
<1>21. ASSUME NEW c \in Resume, NEW g \in 1 .. MaxGeneration, SocketClose(c, g)
      PROVE [Promise!Next]_(Promise!lobby)
  <2>1. joinedAt' = joinedAt /\ host' = host /\ state' = state
    BY <1>21 DEF SocketClose, room, vars
  <2> QED
    BY <2>1, SameLobby
<1>22. ASSUME NEW t \in Task, UpsertServed(t) PROVE [Promise!Next]_(Promise!lobby)
  <2>1. joinedAt' = joinedAt /\ host' = host /\ state' = state
    BY <1>22 DEF UpsertServed, room, vars
  <2> QED
    BY <2>1, SameLobby
<1>23. ASSUME NEW t \in Task, UpsertAnswered(t) PROVE [Promise!Next]_(Promise!lobby)
  <2>1. joinedAt' = joinedAt /\ host' = host /\ state' = state
    BY <1>23 DEF UpsertAnswered, room, vars
  <2> QED
    BY <2>1, SameLobby
<1>24. ASSUME NEW t \in Task, UpsertFailed(t) PROVE [Promise!Next]_(Promise!lobby)
  <2>1. joinedAt' = joinedAt /\ host' = host /\ state' = state
    BY <1>24 DEF UpsertFailed, room, vars
  <2> QED
    BY <2>1, SameLobby
<1>25. ASSUME NEW w \in late, LateWrite(w) PROVE [Promise!Next]_(Promise!lobby)
  <2>1. joinedAt' = joinedAt /\ host' = host /\ state' = state
    BY <1>25 DEF LateWrite, room, vars
  <2> QED
    BY <2>1, SameLobby
<1>26. CASE AlarmFires
  <2>1. joinedAt' = joinedAt /\ host' = host /\ state' = state
    BY <1>26 DEF AlarmFires, room, vars
  <2> QED
    BY <2>1, SameLobby
<1>27. CASE AlarmIndex
  <2>1. joinedAt' = joinedAt /\ host' = host /\ state' = state
    BY <1>27 DEF AlarmIndex, room, vars
  <2> QED
    BY <2>1, SameLobby
<1>28. CASE AlarmUpsertServed
  <2>1. joinedAt' = joinedAt /\ host' = host /\ state' = state
    BY <1>28 DEF AlarmUpsertServed, room, vars
  <2> QED
    BY <2>1, SameLobby
<1>29. CASE AlarmUpsertAnswered
  <2>1. joinedAt' = joinedAt /\ host' = host /\ state' = state
    BY <1>29 DEF AlarmUpsertAnswered, room, vars
  <2> QED
    BY <2>1, SameLobby
<1>30. CASE AlarmUpsertFailed
  <2>1. joinedAt' = joinedAt /\ host' = host /\ state' = state
    BY <1>30 DEF AlarmUpsertFailed, room, vars
  <2> QED
    BY <2>1, SameLobby
<1>31. CASE AlarmRetention
  <2>1. CASE state = "finished" /\ DeleteRoom
    BY <2>1, DeletesLobby
  <2>2. CASE UNCHANGED room
    BY <2>2, SameLobby DEF room
  <2> QED
    BY <1>31, <2>1, <2>2 DEF AlarmRetention
<1>32. CASE AlarmDeleteServed
  <2>1. joinedAt' = joinedAt /\ host' = host /\ state' = state
    BY <1>32 DEF AlarmDeleteServed, room, vars
  <2> QED
    BY <2>1, SameLobby
<1>33. CASE AlarmDeleteAnswered
  BY <1>33, DeletesLobby DEF AlarmDeleteAnswered, RunOK
<1>34. CASE AlarmDeleteFailed
  <2>1. joinedAt' = joinedAt /\ host' = host /\ state' = state
    BY <1>34 DEF AlarmDeleteFailed, room, vars
  <2> QED
    BY <2>1, SameLobby
<1>35. ASSUME NEW p \in Participant, AlarmDisconnect(p) PROVE [Promise!Next]_(Promise!lobby)
  <2>1. CASE Remove(p) /\ Expired(p, run.due[p] - Grace)
    BY <2>1, RemoveDeparts DEF Expired, Absent
  <2>2. CASE UNCHANGED <<room, sessions>>
    BY <2>2, SameLobby DEF room
  <2> QED
    BY <1>35, <2>1, <2>2 DEF AlarmDisconnect
<1>36. CASE AlarmCleanup
  <2>1. joinedAt' = joinedAt /\ host' = host /\ state' = state
    BY <1>36 DEF AlarmCleanup, room, vars
  <2> QED
    BY <2>1, SameLobby
<1>37. CASE AlarmMarker
  <2>1. joinedAt' = joinedAt /\ host' = host /\ state' = state
    BY <1>37 DEF AlarmMarker, room, vars
  <2> QED
    BY <2>1, SameLobby
<1>38. CASE AlarmEnds
  <2>1. joinedAt' = joinedAt /\ host' = host /\ state' = state
    BY <1>38 DEF AlarmEnds, room, vars
  <2> QED
    BY <2>1, SameLobby
<1>39. CASE Restart
  <2>1. joinedAt' = joinedAt /\ host' = host /\ state' = state
    BY <1>39 DEF Restart, room, vars
  <2> QED
    BY <2>1, SameLobby
<1>40. CASE Tick
  <2>1. joinedAt' = joinedAt /\ host' = host /\ state' = state
    BY <1>40 DEF Tick, room, vars
  <2> QED
    BY <2>1, SameLobby
<1>41. CASE UNCHANGED vars
  <2>1. joinedAt' = joinedAt /\ host' = host /\ state' = state
    BY <1>41 DEF vars, room, vars
  <2> QED
    BY <2>1, SameLobby
<1> QED
  BY <1>1, <1>2, <1>3, <1>4, <1>5, <1>6, <1>7, <1>8, <1>9, <1>10, <1>11, <1>12, <1>13, <1>14,
       <1>15, <1>16, <1>17, <1>18, <1>19, <1>20, <1>21, <1>22, <1>23, <1>24, <1>25, <1>26, <1>27,
            <1>28, <1>29, <1>30, <1>31, <1>32, <1>33, <1>34, <1>35, <1>36, <1>37, <1>38, <1>39,
                 <1>40, <1>41 DEF Next, Lifecycle, WebSockets, D1, AlarmStep

LEMMA RunStep == TypeOK /\ RunOK /\ [Next]_vars => RunOK'
<1> SUFFICES ASSUME TypeOK, RunOK, [Next]_vars PROVE RunOK'
  OBVIOUS
<1>1. CASE Initialize
  <2>1. run' = run /\ (state = "finished" => state' = "finished")
    BY <1>1 DEF Initialize, Conclude, SyncIndex, projection
  <2> QED
    BY <2>1 DEF RunOK
<1>2. CASE InitializeAgain
  <2>1. run' = run /\ (state = "finished" => state' = "finished")
    BY <1>2 DEF InitializeAgain, room, Conclude, SyncIndex, projection
  <2> QED
    BY <2>1 DEF RunOK
<1>3. ASSUME NEW p \in Participant, Join(p) PROVE RunOK'
  <2>1. run' = run /\ (state = "finished" => state' = "finished")
    BY <1>3 DEF Join, Conclude, SyncIndex, projection
  <2> QED
    BY <2>1 DEF RunOK
<1>4. ASSUME NEW p \in Participant, DisconnectCall(p) PROVE RunOK'
  <2>1. run' = run /\ (state = "finished" => state' = "finished")
    BY <1>4 DEF DisconnectCall, room, Return, projection
  <2> QED
    BY <2>1 DEF RunOK
<1>5. ASSUME NEW p \in Participant, NEW r \in Request \cup {None}, Leave(p, r) PROVE RunOK'
  <2>1. run' = run /\ (state = "finished" => state' = "finished")
    BY <1>5 DEF Leave, Active, Remove, Conclude, SyncIndex, projection
  <2> QED
    BY <2>1 DEF RunOK
<1>6. ASSUME NEW p \in Participant, NEW r \in Request \cup {None}, SelectTeam(p, r) PROVE RunOK'
  <2>1. run' = run /\ (state = "finished" => state' = "finished")
    BY <1>6 DEF SelectTeam, Return, projection
  <2> QED
    BY <2>1 DEF RunOK
<1>7. ASSUME NEW p \in Participant, NEW r \in Request \cup {None}, TransferHost(p, r) PROVE RunOK'
  <2>1. run' = run /\ (state = "finished" => state' = "finished")
    BY <1>7 DEF TransferHost, Return, projection
  <2> QED
    BY <2>1 DEF RunOK
<1>8. ASSUME NEW p \in Participant, NEW r \in Request \cup {None}, Kick(p, r) PROVE RunOK'
  <2>1. run' = run /\ (state = "finished" => state' = "finished")
    BY <1>8 DEF Kick, Conclude, SyncIndex, projection
  <2> QED
    BY <2>1 DEF RunOK
<1>9. ASSUME NEW p \in Participant, NEW value \in BOOLEAN, NEW r \in Request \cup {None},
     SetReady(p, value, r) PROVE RunOK'
  <2>1. run' = run /\ (state = "finished" => state' = "finished")
    BY <1>9 DEF SetReady, Return, projection
  <2> QED
    BY <2>1 DEF RunOK
<1>10. ASSUME NEW r \in Request \cup {None}, UpdateSettings(r) PROVE RunOK'
  <2>1. run' = run /\ (state = "finished" => state' = "finished")
    BY <1>10 DEF UpdateSettings, Conclude, SyncIndex, projection
  <2> QED
    BY <2>1 DEF RunOK
<1>11. ASSUME NEW r \in Request \cup {None}, StartMatch(r) PROVE RunOK'
  <2>1. run' = run /\ (state = "finished" => state' = "finished")
    BY <1>11 DEF StartMatch, Conclude, SyncIndex, projection
  <2> QED
    BY <2>1 DEF RunOK
<1>12. ASSUME NEW at \in 0 .. MaxTime, NEW r \in Request \cup {None}, Close(at, r) PROVE RunOK'
  <2>1. run' = run /\ (state = "finished" => state' = "finished")
    BY <1>12 DEF Close, Active, Conclude, SyncIndex, projection
  <2> QED
    BY <2>1 DEF RunOK
<1>13. ASSUME NEW next \in {"preparing", "in_progress", "finished"}, Transition(next) PROVE RunOK'
  <2>1. run' = run /\ (state = "finished" => state' = "finished")
    BY <1>13 DEF Transition, AllowedTransition, Conclude, SyncIndex, projection
  <2> QED
    BY <2>1 DEF RunOK
<1>14. ASSUME NEW at \in 0 .. MaxTime, ScheduleOperation(at) PROVE RunOK'
  <2>1. run' = run /\ (state = "finished" => state' = "finished")
    BY <1>14 DEF ScheduleOperation, room, Return, projection
  <2> QED
    BY <2>1 DEF RunOK
<1>15. CASE CancelScheduledOperation
  <2>1. run' = run /\ (state = "finished" => state' = "finished")
    BY <1>15 DEF CancelScheduledOperation, room, Return, projection
  <2> QED
    BY <2>1 DEF RunOK
<1>16. ASSUME NEW p \in Participant, NEW r \in Request, GameMessage(p, r) PROVE RunOK'
  <2>1. run' = run /\ (state = "finished" => state' = "finished")
    BY <1>16 DEF GameMessage, room, Return, projection
  <2> QED
    BY <2>1 DEF RunOK
<1>17. ASSUME NEW c \in Resume, NEW p \in Participant, Connect(c, p) PROVE RunOK'
  <2>1. run' = run /\ (state = "finished" => state' = "finished")
    BY <1>17 DEF Connect, room, Return, projection
  <2> QED
    BY <2>1 DEF RunOK
<1>18. ASSUME NEW c \in Resume, ResumeSession(c) PROVE RunOK'
  <2>1. run' = run /\ (state = "finished" => state' = "finished")
    BY <1>18 DEF ResumeSession, room, Return, projection
  <2> QED
    BY <2>1 DEF RunOK
<1>19. ASSUME NEW c \in Resume, ResumeTooLate(c) PROVE RunOK'
  <2>1. run' = run /\ (state = "finished" => state' = "finished")
    BY <1>19 DEF ResumeTooLate, room, Active, Absent, Resumable, Remove, Return, projection
  <2> QED
    BY <2>1 DEF RunOK
<1>20. ASSUME NEW c \in Resume, NEW g \in 1 .. MaxGeneration, SocketError(c, g) PROVE RunOK'
  <2>1. run' = run /\ (state = "finished" => state' = "finished")
    BY <1>20 DEF SocketError, room, MarkDisconnected, Return, projection
  <2> QED
    BY <2>1 DEF RunOK
<1>21. ASSUME NEW c \in Resume, NEW g \in 1 .. MaxGeneration, SocketClose(c, g) PROVE RunOK'
  <2>1. run' = run /\ (state = "finished" => state' = "finished")
    BY <1>21 DEF SocketClose, room, MarkDisconnected, Return, projection
  <2> QED
    BY <2>1 DEF RunOK
<1>22. ASSUME NEW t \in Task, UpsertServed(t) PROVE RunOK'
  <2>1. run' = run /\ (state = "finished" => state' = "finished")
    BY <1>22 DEF UpsertServed, room, projection, vars
  <2> QED
    BY <2>1 DEF RunOK
<1>23. ASSUME NEW t \in Task, UpsertAnswered(t) PROVE RunOK'
  <2>1. run' = run /\ (state = "finished" => state' = "finished")
    BY <1>23 DEF UpsertAnswered, room, projection, vars
  <2> QED
    BY <2>1 DEF RunOK
<1>24. ASSUME NEW t \in Task, UpsertFailed(t) PROVE RunOK'
  <2>1. run' = run /\ (state = "finished" => state' = "finished")
    BY <1>24 DEF UpsertFailed, room, projection, vars
  <2> QED
    BY <2>1 DEF RunOK
<1>25. ASSUME NEW w \in late, LateWrite(w) PROVE RunOK'
  <2>1. run' = run /\ (state = "finished" => state' = "finished")
    BY <1>25 DEF LateWrite, room, projection, vars
  <2> QED
    BY <2>1 DEF RunOK
<1>26. CASE AlarmFires
  <2>1. run'.pc = "loop"
    BY <1>26 DEF AlarmFires, Passed, TypeOK, ScheduleOK
  <2> QED
    BY <2>1 DEF RunOK
<1>27. CASE AlarmIndex
  BY <1>27 DEF AlarmIndex, At, RunOK, TypeOK, ScheduleOK, Times, Time, Op
<1>28. CASE AlarmUpsertServed
  BY <1>28 DEF AlarmUpsertServed, RunOK, TypeOK, ScheduleOK, room
<1>29. CASE AlarmUpsertAnswered
  <2>1. run'.pc = "loop"
    BY <1>29 DEF AlarmUpsertAnswered, Passed, TypeOK, ScheduleOK
  <2> QED
    BY <2>1 DEF RunOK
<1>30. CASE AlarmUpsertFailed
  <2>1. run'.pc = "loop"
    BY <1>30 DEF AlarmUpsertFailed, Passed, TypeOK, ScheduleOK
  <2> QED
    BY <2>1 DEF RunOK
<1>31. CASE AlarmRetention
  <2>1. CASE state = "finished" /\ run' = [run EXCEPT !.pc = "delete"] /\ UNCHANGED room
    BY <1>31, <2>1 DEF AlarmRetention, At, RunOK, TypeOK, ScheduleOK, Times, Time, Op, room
  <2>2. CASE DeleteRoom
    BY <2>2 DEF DeleteRoom, Idle, RunOK
  <2>3. CASE run' = Passed("retention")
    BY <2>3 DEF Passed, RunOK, TypeOK, ScheduleOK
  <2> QED
    BY <1>31, <2>1, <2>2, <2>3 DEF AlarmRetention, Continue
<1>32. CASE AlarmDeleteServed
  BY <1>32 DEF AlarmDeleteServed, RunOK, TypeOK, ScheduleOK, room
<1>33. CASE AlarmDeleteAnswered
  BY <1>33 DEF AlarmDeleteAnswered, DeleteRoom, Idle, RunOK
<1>34. CASE AlarmDeleteFailed
  <2>1. run'.pc = "loop"
    BY <1>34 DEF AlarmDeleteFailed, Passed, TypeOK, ScheduleOK
  <2> QED
    BY <2>1 DEF RunOK
<1>35. ASSUME NEW p \in Participant, AlarmDisconnect(p) PROVE RunOK'
  <2>1. run'.pc = "loop"
    BY <1>35 DEF AlarmDisconnect, Passed, Continue, TypeOK, ScheduleOK
  <2> QED
    BY <2>1 DEF RunOK
<1>36. CASE AlarmCleanup
  <2>1. run'.pc = "loop"
    BY <1>36 DEF AlarmCleanup, Passed, Continue, TypeOK, ScheduleOK
  <2> QED
    BY <2>1 DEF RunOK
<1>37. CASE AlarmMarker
  <2>1. run'.pc = "loop"
    BY <1>37 DEF AlarmMarker, Passed, Continue, TypeOK, ScheduleOK
  <2> QED
    BY <2>1 DEF RunOK
<1>38. CASE AlarmEnds
  BY <1>38 DEF AlarmEnds, DeleteRoom, Idle, RunOK
<1>39. CASE Restart
  BY <1>39 DEF Restart, DeleteRoom, Idle, RunOK
<1>40. CASE Tick
  <2>1. run' = run /\ (state = "finished" => state' = "finished")
    BY <1>40 DEF Tick, room, projection, vars
  <2> QED
    BY <2>1 DEF RunOK
<1>41. CASE UNCHANGED vars
  <2>1. run' = run /\ (state = "finished" => state' = "finished")
    BY <1>41 DEF vars, room, projection, vars
  <2> QED
    BY <2>1 DEF RunOK
<1> QED
  BY <1>1, <1>2, <1>3, <1>4, <1>5, <1>6, <1>7, <1>8, <1>9, <1>10, <1>11, <1>12, <1>13, <1>14,
       <1>15, <1>16, <1>17, <1>18, <1>19, <1>20, <1>21, <1>22, <1>23, <1>24, <1>25, <1>26, <1>27,
            <1>28, <1>29, <1>30, <1>31, <1>32, <1>33, <1>34, <1>35, <1>36, <1>37, <1>38, <1>39,
                 <1>40, <1>41 DEF Next, Lifecycle, WebSockets, D1, AlarmStep

-----------------------------------------------------------------------------
(* Sessions *)

LEMMA SessionsKept ==
  ASSUME TypeOK, SessionsOK, conn' = conn, open' \subseteq open, now' \in {now, now + 1},
         state # "none" => state' # "none"
  PROVE  SessionsOK'
<1>1. now \in Nat /\ now' \in Nat /\ now <= now'
  BY DEF TypeOK, ScheduleOK
<1> QED
  BY <1>1 DEF SessionsOK

LEMMA RemoveSessions ==
  ASSUME TypeOK, SessionsOK, NEW p \in Participant, Remove(p), state # "none", now' = now
  PROVE  SessionsOK'
<1>1. state' # "none" /\ open' = open
  BY DEF Remove
<1>2. ASSUME NEW c \in Resume, conn'[c].valid PROVE conn'[c] = conn[c]
  BY <1>2 DEF Remove, Invalidated, TypeOK, Connections
<1> QED
  BY <1>1, <1>2 DEF SessionsOK

LEMMA MarkSessions ==
  ASSUME TypeOK, SessionsOK, NEW c \in Resume, NEW g, MarkDisconnected(c, g), state' = state,
         open' = open \ {<<c, g>>}
  PROVE  SessionsOK'
<1>1. now \in Nat /\ now' = now
  BY DEF MarkDisconnected, Return, TypeOK, ScheduleOK
<1>2. CASE conn' = conn
  BY <1>1, <1>2, SessionsKept
<1>3. CASE /\ conn[c].generation = g /\ conn[c].valid
           /\ conn' = [conn EXCEPT ![c].live = FALSE, ![c].at = now]
  <2> DEFINE lost == [conn[c] EXCEPT !.live = FALSE, !.at = now]
  <2>1. conn[c] \in Connections /\ conn' = [conn EXCEPT ![c] = lost]
    BY <1>3 DEF TypeOK
  <2>2. conn'[c] = lost
    BY <2>1 DEF TypeOK
  <2>3. lost.who = conn[c].who /\ lost.generation = g /\ lost.at = now
    BY <1>3, <2>1 DEF Connections
  <2>4. \A d \in Resume \ {c} : conn'[d] = conn[d]
    BY <2>1 DEF TypeOK
  <2>5. conn[c].who \in Participant /\ state # "none" /\ <<c, g>> \notin open'
    BY <1>3 DEF SessionsOK
  <2> HIDE DEF lost
  <2> QED
    BY <1>1, <2>2, <2>3, <2>4, <2>5 DEF SessionsOK
<1> QED
  BY <1>2, <1>3 DEF MarkDisconnected

LEMMA SessionsStep == TypeOK /\ SessionsOK /\ [Next]_vars => SessionsOK'
<1> SUFFICES ASSUME TypeOK, SessionsOK, [Next]_vars PROVE SessionsOK'
  OBVIOUS
<1>1. CASE Initialize
  <2>1. conn' = conn /\ open' \subseteq open /\ now' \in {now, now + 1}
    BY <1>1 DEF Initialize, sessions, projection, Return, Conclude, Continue, vars
  <2>2. state # "none" => state' # "none"
    BY <1>1 DEF Initialize, room, vars, Exists, Active, AllowedTransition
  <2> QED
    BY <2>1, <2>2, SessionsKept
<1>2. CASE InitializeAgain
  <2>1. conn' = conn /\ open' \subseteq open /\ now' \in {now, now + 1}
    BY <1>2 DEF InitializeAgain, sessions, projection, Return, Conclude, Continue, vars
  <2>2. state # "none" => state' # "none"
    BY <1>2 DEF InitializeAgain, room, vars, Exists, Active, AllowedTransition
  <2> QED
    BY <2>1, <2>2, SessionsKept
<1>3. ASSUME NEW p \in Participant, Join(p) PROVE SessionsOK'
  <2>1. conn' = conn /\ open' \subseteq open /\ now' \in {now, now + 1}
    BY <1>3 DEF Join, sessions, projection, Return, Conclude, Continue, vars
  <2>2. state # "none" => state' # "none"
    BY <1>3 DEF Join, room, vars, Exists, Active, AllowedTransition
  <2> QED
    BY <2>1, <2>2, SessionsKept
<1>4. ASSUME NEW p \in Participant, DisconnectCall(p) PROVE SessionsOK'
  <2>1. conn' = conn /\ open' \subseteq open /\ now' \in {now, now + 1}
    BY <1>4 DEF DisconnectCall, sessions, projection, Return, Conclude, Continue, vars
  <2>2. state # "none" => state' # "none"
    BY <1>4 DEF DisconnectCall, room, vars, Exists, Active, AllowedTransition
  <2> QED
    BY <2>1, <2>2, SessionsKept
<1>5. ASSUME NEW p \in Participant, NEW r \in Request \cup {None}, Leave(p, r) PROVE SessionsOK'
  <2>1. p \in Participant /\ now' = now /\ state # "none"
    BY <1>5 DEF Leave, Conclude, Active
  <2> QED
    BY <1>5, <2>1, RemoveSessions DEF Leave
<1>6. ASSUME NEW p \in Participant, NEW r \in Request \cup {None}, SelectTeam(p, r)
      PROVE SessionsOK'
  <2>1. conn' = conn /\ open' \subseteq open /\ now' \in {now, now + 1}
    BY <1>6 DEF SelectTeam, sessions, projection, Return, Conclude, Continue, vars
  <2>2. state # "none" => state' # "none"
    BY <1>6 DEF SelectTeam, room, vars, Exists, Active, AllowedTransition
  <2> QED
    BY <2>1, <2>2, SessionsKept
<1>7. ASSUME NEW p \in Participant, NEW r \in Request \cup {None}, TransferHost(p, r)
      PROVE SessionsOK'
  <2>1. conn' = conn /\ open' \subseteq open /\ now' \in {now, now + 1}
    BY <1>7 DEF TransferHost, sessions, projection, Return, Conclude, Continue, vars
  <2>2. state # "none" => state' # "none"
    BY <1>7 DEF TransferHost, room, vars, Exists, Active, AllowedTransition
  <2> QED
    BY <2>1, <2>2, SessionsKept
<1>8. ASSUME NEW p \in Participant, NEW r \in Request \cup {None}, Kick(p, r) PROVE SessionsOK'
  <2>1. state' = "waiting" /\ open' = open /\ now' = now
    BY <1>8 DEF Kick, Conclude
  <2>2. ASSUME NEW c \in Resume, conn'[c].valid PROVE conn'[c] = conn[c]
    BY <1>8, <2>2 DEF Kick, Invalidated, TypeOK, Connections
  <2> QED
    BY <2>1, <2>2 DEF SessionsOK
<1>9. ASSUME NEW p \in Participant, NEW value \in BOOLEAN, NEW r \in Request \cup {None},
     SetReady(p, value, r) PROVE SessionsOK'
  <2>1. conn' = conn /\ open' \subseteq open /\ now' \in {now, now + 1}
    BY <1>9 DEF SetReady, sessions, projection, Return, Conclude, Continue, vars
  <2>2. state # "none" => state' # "none"
    BY <1>9 DEF SetReady, room, vars, Exists, Active, AllowedTransition
  <2> QED
    BY <2>1, <2>2, SessionsKept
<1>10. ASSUME NEW r \in Request \cup {None}, UpdateSettings(r) PROVE SessionsOK'
  <2>1. conn' = conn /\ open' \subseteq open /\ now' \in {now, now + 1}
    BY <1>10 DEF UpdateSettings, sessions, projection, Return, Conclude, Continue, vars
  <2>2. state # "none" => state' # "none"
    BY <1>10 DEF UpdateSettings, room, vars, Exists, Active, AllowedTransition
  <2> QED
    BY <2>1, <2>2, SessionsKept
<1>11. ASSUME NEW r \in Request \cup {None}, StartMatch(r) PROVE SessionsOK'
  <2>1. conn' = conn /\ open' \subseteq open /\ now' \in {now, now + 1}
    BY <1>11 DEF StartMatch, sessions, projection, Return, Conclude, Continue, vars
  <2>2. state # "none" => state' # "none"
    BY <1>11 DEF StartMatch, room, vars, Exists, Active, AllowedTransition
  <2> QED
    BY <2>1, <2>2, SessionsKept
<1>12. ASSUME NEW at \in 0 .. MaxTime, NEW r \in Request \cup {None}, Close(at, r) PROVE SessionsOK'
  <2>1. conn' = conn /\ open' \subseteq open /\ now' \in {now, now + 1}
    BY <1>12 DEF Close, sessions, projection, Return, Conclude, Continue, vars
  <2>2. state # "none" => state' # "none"
    BY <1>12 DEF Close, room, vars, Exists, Active, AllowedTransition
  <2> QED
    BY <2>1, <2>2, SessionsKept
<1>13. ASSUME NEW next \in {"preparing", "in_progress", "finished"}, Transition(next)
      PROVE SessionsOK'
  <2>1. conn' = conn /\ open' \subseteq open /\ now' \in {now, now + 1}
    BY <1>13 DEF Transition, sessions, projection, Return, Conclude, Continue, vars
  <2>2. state # "none" => state' # "none"
    BY <1>13 DEF Transition, room, vars, Exists, Active, AllowedTransition
  <2> QED
    BY <2>1, <2>2, SessionsKept
<1>14. ASSUME NEW at \in 0 .. MaxTime, ScheduleOperation(at) PROVE SessionsOK'
  <2>1. conn' = conn /\ open' \subseteq open /\ now' \in {now, now + 1}
    BY <1>14 DEF ScheduleOperation, sessions, projection, Return, Conclude, Continue, vars
  <2>2. state # "none" => state' # "none"
    BY <1>14 DEF ScheduleOperation, room, vars, Exists, Active, AllowedTransition
  <2> QED
    BY <2>1, <2>2, SessionsKept
<1>15. CASE CancelScheduledOperation
  <2>1. conn' = conn /\ open' \subseteq open /\ now' \in {now, now + 1}
    BY <1>15 DEF CancelScheduledOperation, sessions, projection, Return, Conclude, Continue, vars
  <2>2. state # "none" => state' # "none"
    BY <1>15 DEF CancelScheduledOperation, room, vars, Exists, Active, AllowedTransition
  <2> QED
    BY <2>1, <2>2, SessionsKept
<1>16. ASSUME NEW p \in Participant, NEW r \in Request, GameMessage(p, r) PROVE SessionsOK'
  <2>1. conn' = conn /\ open' \subseteq open /\ now' \in {now, now + 1}
    BY <1>16 DEF GameMessage, sessions, projection, Return, Conclude, Continue, vars
  <2>2. state # "none" => state' # "none"
    BY <1>16 DEF GameMessage, room, vars, Exists, Active, AllowedTransition
  <2> QED
    BY <2>1, <2>2, SessionsKept
<1>17. ASSUME NEW c \in Resume, NEW p \in Participant, Connect(c, p) PROVE SessionsOK'
  <2>1. state' = state /\ state # "none" /\ now' = now /\ open' = open \cup {<<c, 1>>}
    BY <1>17 DEF Connect, Active, Return, room
  <2>2. conn'[c] = [who |-> p, generation |-> 1, live |-> TRUE, at |-> None, valid |-> TRUE]
    BY <1>17 DEF Connect, TypeOK
  <2>3. \A d \in Resume \ {c} : conn'[d] = conn[d]
    BY <1>17 DEF Connect, TypeOK
  <2> QED
    BY <2>1, <2>2, <2>3 DEF SessionsOK
<1>18. ASSUME NEW c \in Resume, ResumeSession(c) PROVE SessionsOK'
  <2>1. /\ state' = state /\ now' = now
        /\ open' = open \cup {<<c, conn[c].generation + 1>>}
    BY <1>18 DEF ResumeSession, Return, room
  <2>2. conn[c].valid /\ conn[c] \in Connections
    BY <1>18 DEF ResumeSession, Resumable, TypeOK
  <2>3. conn'[c].who = conn[c].who /\ conn'[c].live
    BY <1>18, <2>2 DEF ResumeSession, TypeOK, Connections
  <2>4. \A d \in Resume \ {c} : conn'[d] = conn[d]
    BY <1>18 DEF ResumeSession, TypeOK
  <2> QED
    BY <2>1, <2>2, <2>3, <2>4 DEF SessionsOK
<1>19. ASSUME NEW c \in Resume, ResumeTooLate(c) PROVE SessionsOK'
  <2>1. conn[c].who \in Participant /\ now' = now /\ state # "none"
    BY <1>19 DEF ResumeTooLate, Return, Resumable, Active, Members
  <2>2. CASE Remove(conn[c].who)
    BY <2>1, <2>2, RemoveSessions
  <2>3. CASE UNCHANGED <<room, sessions>>
    BY <2>1, <2>3, SessionsKept DEF room, sessions
  <2> QED
    BY <1>19, <2>2, <2>3 DEF ResumeTooLate
<1>20. ASSUME NEW c \in Resume, NEW g \in 1 .. MaxGeneration, SocketError(c, g) PROVE SessionsOK'
  <2>1. MarkDisconnected(c, g) /\ state' = state /\ open' = open \ {<<c, g>>}
    BY <1>20 DEF SocketError, room
  <2> QED
    BY <2>1, MarkSessions
<1>21. ASSUME NEW c \in Resume, NEW g \in 1 .. MaxGeneration, SocketClose(c, g) PROVE SessionsOK'
  <2>1. MarkDisconnected(c, g) /\ state' = state /\ open' = open \ {<<c, g>>}
    BY <1>21 DEF SocketClose, room
  <2> QED
    BY <2>1, MarkSessions
<1>22. ASSUME NEW t \in Task, UpsertServed(t) PROVE SessionsOK'
  <2>1. conn' = conn /\ open' \subseteq open /\ now' \in {now, now + 1}
    BY <1>22 DEF UpsertServed, sessions, projection, Return, Conclude, Continue, vars
  <2>2. state # "none" => state' # "none"
    BY <1>22 DEF UpsertServed, room, vars, Exists, Active, AllowedTransition
  <2> QED
    BY <2>1, <2>2, SessionsKept
<1>23. ASSUME NEW t \in Task, UpsertAnswered(t) PROVE SessionsOK'
  <2>1. conn' = conn /\ open' \subseteq open /\ now' \in {now, now + 1}
    BY <1>23 DEF UpsertAnswered, sessions, projection, Return, Conclude, Continue, vars
  <2>2. state # "none" => state' # "none"
    BY <1>23 DEF UpsertAnswered, room, vars, Exists, Active, AllowedTransition
  <2> QED
    BY <2>1, <2>2, SessionsKept
<1>24. ASSUME NEW t \in Task, UpsertFailed(t) PROVE SessionsOK'
  <2>1. conn' = conn /\ open' \subseteq open /\ now' \in {now, now + 1}
    BY <1>24 DEF UpsertFailed, sessions, projection, Return, Conclude, Continue, vars
  <2>2. state # "none" => state' # "none"
    BY <1>24 DEF UpsertFailed, room, vars, Exists, Active, AllowedTransition
  <2> QED
    BY <2>1, <2>2, SessionsKept
<1>25. ASSUME NEW w \in late, LateWrite(w) PROVE SessionsOK'
  <2>1. conn' = conn /\ open' \subseteq open /\ now' \in {now, now + 1}
    BY <1>25 DEF LateWrite, sessions, projection, Return, Conclude, Continue, vars
  <2>2. state # "none" => state' # "none"
    BY <1>25 DEF LateWrite, room, vars, Exists, Active, AllowedTransition
  <2> QED
    BY <2>1, <2>2, SessionsKept
<1>26. CASE AlarmFires
  <2>1. conn' = conn /\ open' \subseteq open /\ now' \in {now, now + 1}
    BY <1>26 DEF AlarmFires, sessions, projection, Return, Conclude, Continue, vars
  <2>2. state # "none" => state' # "none"
    BY <1>26 DEF AlarmFires, room, vars, Exists, Active, AllowedTransition
  <2> QED
    BY <2>1, <2>2, SessionsKept
<1>27. CASE AlarmIndex
  <2>1. conn' = conn /\ open' \subseteq open /\ now' \in {now, now + 1}
    BY <1>27 DEF AlarmIndex, sessions, projection, Return, Conclude, Continue, vars
  <2>2. state # "none" => state' # "none"
    BY <1>27 DEF AlarmIndex, room, vars, Exists, Active, AllowedTransition
  <2> QED
    BY <2>1, <2>2, SessionsKept
<1>28. CASE AlarmUpsertServed
  <2>1. conn' = conn /\ open' \subseteq open /\ now' \in {now, now + 1}
    BY <1>28 DEF AlarmUpsertServed, sessions, projection, Return, Conclude, Continue, vars
  <2>2. state # "none" => state' # "none"
    BY <1>28 DEF AlarmUpsertServed, room, vars, Exists, Active, AllowedTransition
  <2> QED
    BY <2>1, <2>2, SessionsKept
<1>29. CASE AlarmUpsertAnswered
  <2>1. conn' = conn /\ open' \subseteq open /\ now' \in {now, now + 1}
    BY <1>29 DEF AlarmUpsertAnswered, sessions, projection, Return, Conclude, Continue, vars
  <2>2. state # "none" => state' # "none"
    BY <1>29 DEF AlarmUpsertAnswered, room, vars, Exists, Active, AllowedTransition
  <2> QED
    BY <2>1, <2>2, SessionsKept
<1>30. CASE AlarmUpsertFailed
  <2>1. conn' = conn /\ open' \subseteq open /\ now' \in {now, now + 1}
    BY <1>30 DEF AlarmUpsertFailed, sessions, projection, Return, Conclude, Continue, vars
  <2>2. state # "none" => state' # "none"
    BY <1>30 DEF AlarmUpsertFailed, room, vars, Exists, Active, AllowedTransition
  <2> QED
    BY <2>1, <2>2, SessionsKept
<1>31. CASE AlarmRetention
  <2>1. CASE DeleteRoom
    BY <2>1 DEF DeleteRoom, NoConnection, SessionsOK
  <2>2. CASE UNCHANGED <<room, sessions, now>>
    BY <2>2, SessionsKept DEF room, sessions
  <2> QED
    BY <1>31, <2>1, <2>2 DEF AlarmRetention, Continue
<1>32. CASE AlarmDeleteServed
  <2>1. conn' = conn /\ open' \subseteq open /\ now' \in {now, now + 1}
    BY <1>32 DEF AlarmDeleteServed, sessions, projection, Return, Conclude, Continue, vars
  <2>2. state # "none" => state' # "none"
    BY <1>32 DEF AlarmDeleteServed, room, vars, Exists, Active, AllowedTransition
  <2> QED
    BY <2>1, <2>2, SessionsKept
<1>33. CASE AlarmDeleteAnswered
  BY <1>33 DEF AlarmDeleteAnswered, DeleteRoom, NoConnection, SessionsOK
<1>34. CASE AlarmDeleteFailed
  <2>1. conn' = conn /\ open' \subseteq open /\ now' \in {now, now + 1}
    BY <1>34 DEF AlarmDeleteFailed, sessions, projection, Return, Conclude, Continue, vars
  <2>2. state # "none" => state' # "none"
    BY <1>34 DEF AlarmDeleteFailed, room, vars, Exists, Active, AllowedTransition
  <2> QED
    BY <2>1, <2>2, SessionsKept
<1>35. ASSUME NEW p \in Participant, AlarmDisconnect(p) PROVE SessionsOK'
  <2>1. now' = now
    BY <1>35 DEF AlarmDisconnect, Continue
  <2>2. CASE Remove(p) /\ Expired(p, run.due[p] - Grace)
    BY <2>1, <2>2, RemoveSessions DEF Expired, Absent, Active
  <2>3. CASE UNCHANGED <<room, sessions>>
    BY <2>1, <2>3, SessionsKept DEF room, sessions
  <2> QED
    BY <1>35, <2>2, <2>3 DEF AlarmDisconnect
<1>36. CASE AlarmCleanup
  <2>1. conn' = conn /\ open' \subseteq open /\ now' \in {now, now + 1}
    BY <1>36 DEF AlarmCleanup, sessions, projection, Return, Conclude, Continue, vars
  <2>2. state # "none" => state' # "none"
    BY <1>36 DEF AlarmCleanup, room, vars, Exists, Active, AllowedTransition
  <2> QED
    BY <2>1, <2>2, SessionsKept
<1>37. CASE AlarmMarker
  <2>1. conn' = conn /\ open' \subseteq open /\ now' \in {now, now + 1}
    BY <1>37 DEF AlarmMarker, sessions, projection, Return, Conclude, Continue, vars
  <2>2. state # "none" => state' # "none"
    BY <1>37 DEF AlarmMarker, room, vars, Exists, Active, AllowedTransition
  <2> QED
    BY <2>1, <2>2, SessionsKept
<1>38. CASE AlarmEnds
  <2>1. conn' = conn /\ open' \subseteq open /\ now' \in {now, now + 1}
    BY <1>38 DEF AlarmEnds, sessions, projection, Return, Conclude, Continue, vars
  <2>2. state # "none" => state' # "none"
    BY <1>38 DEF AlarmEnds, room, vars, Exists, Active, AllowedTransition
  <2> QED
    BY <2>1, <2>2, SessionsKept
<1>39. CASE Restart
  <2>1. conn' = conn /\ open' \subseteq open /\ now' \in {now, now + 1}
    BY <1>39 DEF Restart, sessions, projection, Return, Conclude, Continue, vars
  <2>2. state # "none" => state' # "none"
    BY <1>39 DEF Restart, room, vars, Exists, Active, AllowedTransition
  <2> QED
    BY <2>1, <2>2, SessionsKept
<1>40. CASE Tick
  <2>1. conn' = conn /\ open' \subseteq open /\ now' \in {now, now + 1}
    BY <1>40 DEF Tick, sessions, projection, Return, Conclude, Continue, vars
  <2>2. state # "none" => state' # "none"
    BY <1>40 DEF Tick, room, vars, Exists, Active, AllowedTransition
  <2> QED
    BY <2>1, <2>2, SessionsKept
<1>41. CASE UNCHANGED vars
  <2>1. conn' = conn /\ open' \subseteq open /\ now' \in {now, now + 1}
    BY <1>41 DEF vars, sessions, projection, Return, Conclude, Continue, vars
  <2>2. state # "none" => state' # "none"
    BY <1>41 DEF vars, room, vars, Exists, Active, AllowedTransition
  <2> QED
    BY <2>1, <2>2, SessionsKept
<1> QED
  BY <1>1, <1>2, <1>3, <1>4, <1>5, <1>6, <1>7, <1>8, <1>9, <1>10, <1>11, <1>12, <1>13, <1>14,
       <1>15, <1>16, <1>17, <1>18, <1>19, <1>20, <1>21, <1>22, <1>23, <1>24, <1>25, <1>26, <1>27,
            <1>28, <1>29, <1>30, <1>31, <1>32, <1>33, <1>34, <1>35, <1>36, <1>37, <1>38, <1>39,
                 <1>40, <1>41 DEF Next, Lifecycle, WebSockets, D1, AlarmStep

-----------------------------------------------------------------------------
(* Duties have their scheduled operation. *)

AbsenceScheduled ==
  Active => \A p \in Members : ConnectionsOf(p) # {} /\ ~Connected(p) => ops[p] # None
EndScheduled == state = "finished" => ops["retention"] # None
ResultsScheduled ==
  \A r \in Request : processed[r] # None =>
    ops["cleanup"] # None /\ ops["cleanup"] <= processed[r]

LEMMA DutyParts == DutiesScheduled <=> AbsenceScheduled /\ EndScheduled /\ ResultsScheduled
  BY DEF DutiesScheduled, AbsenceScheduled, EndScheduled, ResultsScheduled

LEMMA OpNames ==
  /\ Participant \subseteq Op \ {"retention", "cleanup", "index", "marker"}
  /\ {"retention", "cleanup", "index", "marker"} \subseteq Op
  BY RoomAssumption DEF Op

LEMMA ConcludeOps ==
  ASSUME NEW o \in Times, NEW armed, NEW arms, Conclude(o, armed, arms)
  PROVE  \A x \in Op \ {"index"} : ops'[x] = o[x]
  BY DEF Conclude, SyncIndex, Times

LEMMA CleanupOps ==
  ASSUME NEW o \in Times, NEW r
  PROVE  \A x \in Op \ {"cleanup"} : WithCleanup(o, r)[x] = o[x]
  BY DEF WithCleanup, Times

LEMMA RetentionOps ==
  ASSUME NEW o \in Times, NEW at \in Nat
  PROVE  /\ \A x \in Op \ {"retention"} : WithRetention(o, at)[x] = o[x]
         /\ WithRetention(o, at)["retention"] # None
<1>1. at + Retention \in Nat /\ at + Retention # None
  BY RoomAssumption
<1>2. "retention" \in Op
  BY OpNames
<1> QED
  BY <1>1, <1>2 DEF WithRetention, Times

LEMMA RemovalOps ==
  ASSUME TypeOK, NEW o \in Times, NEW p \in Participant
  PROVE  /\ \A x \in Op \ {p, "retention"} : AfterRemoval(o, p)[x] = o[x]
         /\ EndsRoom(p) => AfterRemoval(o, p)["retention"] # None
         /\ ~EndsRoom(p) => AfterRemoval(o, p)["retention"] = o["retention"]
<1>1. [o EXCEPT ![p] = None] \in Times /\ now \in Nat
  BY DEF Times, Time, TypeOK, ScheduleOK
<1>2. \A x \in Op \ {p} : [o EXCEPT ![p] = None][x] = o[x]
  BY DEF Times
<1>3. "retention" \in Op \ {p}
  BY OpNames
<1> QED
  BY <1>1, <1>2, <1>3, RetentionOps DEF AfterRemoval

LEMMA DoneOps ==
  ASSUME TypeOK, NEW row, NEW due
  PROVE  \A x \in Op \ {"index"} : Done(row, due)[x] = ops[x]
  BY DEF Done, TypeOK, ScheduleOK, Times

LEMMA RetriedOps ==
  ASSUME TypeOK, NEW row, NEW due
  PROVE  \A x \in Op \ {"index"} : Retried(row, due)[x] = ops[x]
  BY DEF Retried, TypeOK, ScheduleOK, Times

LEMMA MarkOps ==
  ASSUME TypeOK, NEW c, NEW g, MarkDisconnected(c, g)
  PROVE  \A x \in {"retention", "cleanup"} : conn[c].who # x => ops'[x] = ops[x]
  BY OpNames DEF MarkDisconnected, Return, TypeOK, ScheduleOK, Times

LEMMA AbsenceKept ==
  ASSUME AbsenceScheduled, conn' = conn, Members' \subseteq Members, Active' => Active,
         \A p \in Participant : ops'[p] = ops[p]
  PROVE  AbsenceScheduled'
<1>1. \A p \in Participant : ConnectionsOf(p)' = ConnectionsOf(p) /\ (Connected(p)' <=> Connected(p))
  BY DEF ConnectionsOf, Connected
<1> QED
  BY <1>1 DEF AbsenceScheduled, Members

\* Removing p disturbs nobody else's sessions.
LEMMA AbsenceRemoval ==
  ASSUME TypeOK, AbsenceScheduled, NEW p \in Participant, conn' = Invalidated(p),
         joinedAt' = [joinedAt EXCEPT ![p] = None], Active' => Active,
         \A q \in Participant \ {p} : ops'[q] = ops[q]
  PROVE  AbsenceScheduled'
<1>1. Members' = Members \ {p}
  BY Gone
<1>2. ASSUME NEW c \in Resume
      PROVE  conn'[c] = conn[c] \/ (conn[c].who = p /\ conn'[c].who = p)
  <2> DEFINE cut == [conn[c] EXCEPT !.valid = FALSE, !.live = FALSE,
                                    !.at = IF conn[c].live THEN now ELSE @]
  <2>1. conn[c] \in Connections
    BY DEF TypeOK
  <2>2. cut.who = conn[c].who
    BY <2>1 DEF Connections
  <2>3. conn'[c] = IF conn[c].who # p THEN conn[c] ELSE cut
    BY DEF Invalidated
  <2> HIDE DEF cut
  <2> QED
    BY <2>2, <2>3
<1>3. ASSUME NEW q \in Participant \ {p}
      PROVE  ConnectionsOf(q)' = ConnectionsOf(q) /\ (Connected(q)' <=> Connected(q))
  BY <1>2 DEF ConnectionsOf, Connected
<1> QED
  BY <1>1, <1>3 DEF AbsenceScheduled, Members

LEMMA ResultsStored ==
  ASSUME TypeOK, ResultsScheduled, NEW r \in Request \cup {None}, NEW o \in Times,
         o["cleanup"] = ops["cleanup"], processed' = Stored(r),
         ops'["cleanup"] = WithCleanup(o, r)["cleanup"]
  PROVE  ResultsScheduled'
<1>1. now + CommandRetention \in Nat /\ now + CommandRetention # None
  BY RoomAssumption, SMTT(30) DEF TypeOK, ScheduleOK
<1>2. ops["cleanup"] \in Time /\ "cleanup" \in Op
  BY OpNames DEF TypeOK, ScheduleOK, Times
<1>3. CASE r = None
  BY <1>3 DEF WithCleanup, Stored, ResultsScheduled
<1>4. CASE r # None
  <2> DEFINE e == IF ops["cleanup"] = None THEN now + CommandRetention
                  ELSE Lesser(ops["cleanup"], now + CommandRetention)
  <2>1. ops'["cleanup"] = e
    BY <1>2, <1>4 DEF WithCleanup, Times
  <2>2. e \in Nat /\ e # None /\ e <= now + CommandRetention
    BY <1>1, <1>2, RoomAssumption DEF Lesser, Time
  <2>3. ops["cleanup"] # None => e <= ops["cleanup"]
    BY <1>1, <1>2 DEF Lesser, Time
  <2>4. ASSUME NEW q \in Request, processed'[q] # None
        PROVE  \/ processed'[q] = now + CommandRetention
               \/ processed[q] # None /\ processed'[q] = processed[q]
    <3>1. processed'[q] = IF q = r THEN now + CommandRetention ELSE Purged(now)[q]
      BY <1>4 DEF Stored, Purged
    <3>2. Purged(now)[q] \in {None, processed[q]}
      BY DEF Purged
    <3> QED
      BY <2>4, <3>1, <3>2
  <2>5. \A q \in Request : processed[q] \in Time
    BY DEF TypeOK
  <2> HIDE DEF e
  <2> QED
    BY <1>1, <1>2, <2>1, <2>2, <2>3, <2>4, <2>5 DEF ResultsScheduled, Time
<1> QED
  BY <1>3, <1>4

LEMMA AbsenceMarked ==
  ASSUME TypeOK, SessionsOK, AbsenceScheduled, NEW c \in Resume, NEW g, MarkDisconnected(c, g),
         state' = state, joinedAt' = joinedAt
  PROVE  AbsenceScheduled'
<1> DEFINE p == conn[c].who
           lost == [conn[c] EXCEPT !.live = FALSE, !.at = now]
<1>1. CASE conn' = conn /\ ops' = ops
  BY <1>1, AbsenceKept DEF Members, Active
<1>2. CASE /\ conn[c].valid
           /\ conn' = [conn EXCEPT ![c].live = FALSE, ![c].at = now]
           /\ ops' = [ops EXCEPT ![p] = now + Grace]
  <2>1. now + Grace # None
    BY RoomAssumption DEF TypeOK, ScheduleOK
  <2>2. conn' = [conn EXCEPT ![c] = lost] /\ conn[c] \in Connections
    BY <1>2 DEF TypeOK
  <2>3. \A d \in Resume \ {c} : conn'[d] = conn[d]
    BY <2>2 DEF TypeOK
  <2>4. conn'[c] = lost
    BY <2>2 DEF TypeOK
  <2>5. lost.who = p
    BY <2>2 DEF Connections
  <2> HIDE DEF lost
  <2>6. ASSUME NEW q \in Participant \ {p}
        PROVE  ConnectionsOf(q)' = ConnectionsOf(q) /\ (Connected(q)' <=> Connected(q))
    BY <2>3, <2>4, <2>5 DEF ConnectionsOf, Connected
  <2>7. p \in Participant
    BY <1>2 DEF SessionsOK
  <2>8. ops'[p] # None /\ \A q \in Participant \ {p} : ops'[q] = ops[q]
    BY <1>2, <2>1, <2>7, OpNames DEF TypeOK, ScheduleOK, Times
  <2> QED
    BY <2>6, <2>8 DEF AbsenceScheduled, Members, Active
<1> QED
  BY <1>1, <1>2 DEF MarkDisconnected, Return

LEMMA AbsenceStep == TypeOK /\ SessionsOK /\ AbsenceScheduled /\ [Next]_vars => AbsenceScheduled'
<1> SUFFICES ASSUME TypeOK, SessionsOK, AbsenceScheduled, [Next]_vars PROVE AbsenceScheduled'
  OBVIOUS
<1>1. CASE Initialize
  <2>1. \A p \in Participant : ConnectionsOf(p)' = {}
    BY <1>1 DEF Initialize, ConnectionsOf, SessionsOK, sessions
  <2> QED
    BY <2>1 DEF AbsenceScheduled, Members
<1>2. CASE InitializeAgain
  <2>1. conn' = conn /\ joinedAt' = joinedAt /\ state' = state
    BY <1>2 DEF InitializeAgain, room, sessions, vars
  <2>2. \A x \in Op \ {"index"} : ops'[x] = ops[x]
    BY <1>2, ConcludeOps DEF InitializeAgain, TypeOK, ScheduleOK, Times
  <2> QED
    BY <2>1, <2>2, OpNames, AbsenceKept DEF Members, Active
<1>3. ASSUME NEW p \in Participant, Join(p) PROVE AbsenceScheduled'
  <2>1. Members' \subseteq Members \cup {p} /\ conn' = conn /\ (Active' => Active)
    BY <1>3 DEF Join, Members, Active, TypeOK, sessions
  <2>2. \A x \in Op \ {"index"} : ops'[x] = ops[x]
    BY <1>3, ConcludeOps DEF Join, TypeOK, ScheduleOK, Times
  <2>3. ConnectionsOf(p)' = {}
    BY <1>3 DEF Join, ConnectionsOf, sessions
  <2>4. \A q \in Participant : ConnectionsOf(q)' = ConnectionsOf(q) /\ (Connected(q)' <=> Connected(q))
    BY <2>1 DEF ConnectionsOf, Connected
  <2> QED
    BY <2>1, <2>2, <2>3, <2>4, OpNames DEF AbsenceScheduled, Members
<1>4. ASSUME NEW p \in Participant, DisconnectCall(p) PROVE AbsenceScheduled'
  <2>1. conn' = conn /\ joinedAt' = joinedAt /\ state' = state
    BY <1>4 DEF DisconnectCall, room, sessions, vars
  <2>2. ops' = [ops EXCEPT ![p] = now + Grace] /\ now + Grace # None
    BY <1>4, RoomAssumption, SMTT(30) DEF DisconnectCall, Return, TypeOK, ScheduleOK
  <2>3. \A q \in Participant : ops'[q] = ops[q] \/ ops'[q] # None
    BY <2>2, OpNames DEF TypeOK, ScheduleOK, Times
  <2>4. \A q \in Participant : ConnectionsOf(q)' = ConnectionsOf(q) /\ (Connected(q)' <=> Connected(q))
    BY <2>1 DEF ConnectionsOf, Connected
  <2> QED
    BY <2>1, <2>3, <2>4 DEF AbsenceScheduled, Members, Active
<1>5. ASSUME NEW p \in Participant, NEW r \in Request \cup {None}, Leave(p, r)
      PROVE AbsenceScheduled'
  <2>1. conn' = Invalidated(p) /\ joinedAt' = [joinedAt EXCEPT ![p] = None] /\ (Active' => Active)
    BY <1>5 DEF Leave, Remove, Active
  <2>2. \A x \in Op \ {"index", "cleanup", "retention", p} : ops'[x] = ops[x]
    <3>1. ops \in Times
      BY DEF TypeOK, ScheduleOK
    <3>2. AfterRemoval(ops, p) \in Times
      BY <3>1, AfterRemovalType
    <3>3. \A x \in Op \ {p, "retention"} : AfterRemoval(ops, p)[x] = ops[x]
      BY <3>1, RemovalOps
    <3>4. WithCleanup(AfterRemoval(ops, p), r) \in Times
      BY <3>2, CleanupType
    <3>5. \A x \in Op \ {"index"} : ops'[x] = WithCleanup(AfterRemoval(ops, p), r)[x]
      BY <1>5, <3>4, ConcludeOps DEF Leave
    <3>6. \A x \in Op \ {"cleanup"} : WithCleanup(AfterRemoval(ops, p), r)[x] = AfterRemoval(ops,
         p)[x]
      BY <3>2, CleanupOps
    <3> QED
      BY <3>3, <3>5, <3>6
  <2> QED
    BY <2>1, <2>2, OpNames, AbsenceRemoval
<1>6. ASSUME NEW p \in Participant, NEW r \in Request \cup {None}, SelectTeam(p, r)
      PROVE AbsenceScheduled'
  <2>1. conn' = conn /\ joinedAt' = joinedAt /\ state' = state
    BY <1>6 DEF SelectTeam, room, sessions, vars
  <2>2. \A x \in Op \ {"cleanup"} : ops'[x] = ops[x]
    BY <1>6, CleanupOps DEF SelectTeam, Return, TypeOK, ScheduleOK, Times
  <2> QED
    BY <2>1, <2>2, OpNames, AbsenceKept DEF Members, Active
<1>7. ASSUME NEW p \in Participant, NEW r \in Request \cup {None}, TransferHost(p, r)
      PROVE AbsenceScheduled'
  <2>1. conn' = conn /\ joinedAt' = joinedAt /\ state' = state
    BY <1>7 DEF TransferHost, room, sessions, vars
  <2>2. \A x \in Op \ {"cleanup"} : ops'[x] = ops[x]
    BY <1>7, CleanupOps DEF TransferHost, Return, TypeOK, ScheduleOK, Times
  <2> QED
    BY <2>1, <2>2, OpNames, AbsenceKept DEF Members, Active
<1>8. ASSUME NEW p \in Participant, NEW r \in Request \cup {None}, Kick(p, r)
      PROVE AbsenceScheduled'
  <2>1. conn' = Invalidated(p) /\ joinedAt' = [joinedAt EXCEPT ![p] = None] /\ (Active' => Active)
    BY <1>8 DEF Kick, Remove, Active
  <2>2. \A x \in Op \ {"index", "cleanup", p} : ops'[x] = ops[x]
    <3>1. ops \in Times
      BY DEF TypeOK, ScheduleOK
    <3>2. [ops EXCEPT ![p] = None] \in Times
      BY <3>1 DEF Times, Time
    <3>3. \A x \in Op \ {p} : [ops EXCEPT ![p] = None][x] = ops[x]
      BY <3>1 DEF Times
    <3>4. WithCleanup([ops EXCEPT ![p] = None], r) \in Times
      BY <3>2, CleanupType
    <3>5. \A x \in Op \ {"index"} : ops'[x] = WithCleanup([ops EXCEPT ![p] = None], r)[x]
      BY <1>8, <3>4, ConcludeOps DEF Kick
    <3>6. \A x \in Op \ {"cleanup"} : WithCleanup([ops EXCEPT ![p] = None],
         r)[x] = [ops EXCEPT ![p] = None][x]
      BY <3>2, CleanupOps
    <3> QED
      BY <3>3, <3>5, <3>6
  <2> QED
    BY <2>1, <2>2, OpNames, AbsenceRemoval
<1>9. ASSUME NEW p \in Participant, NEW value \in BOOLEAN, NEW r \in Request \cup {None},
     SetReady(p, value, r) PROVE AbsenceScheduled'
  <2>1. conn' = conn /\ joinedAt' = joinedAt /\ state' = state
    BY <1>9 DEF SetReady, room, sessions, vars
  <2>2. \A x \in Op \ {"cleanup"} : ops'[x] = ops[x]
    BY <1>9, CleanupOps DEF SetReady, Return, TypeOK, ScheduleOK, Times
  <2> QED
    BY <2>1, <2>2, OpNames, AbsenceKept DEF Members, Active
<1>10. ASSUME NEW r \in Request \cup {None}, UpdateSettings(r) PROVE AbsenceScheduled'
  <2>1. conn' = conn /\ joinedAt' = joinedAt /\ state' = state
    BY <1>10 DEF UpdateSettings, room, sessions, vars
  <2>2. \A x \in Op \ {"index", "cleanup"} : ops'[x] = ops[x]
    <3>1. ops \in Times
      BY DEF TypeOK, ScheduleOK
    <3>2. WithCleanup(ops, r) \in Times
      BY <3>1, CleanupType
    <3>3. \A x \in Op \ {"index"} : ops'[x] = WithCleanup(ops, r)[x]
      BY <1>10, <3>2, ConcludeOps DEF UpdateSettings
    <3> QED
      BY <3>1, <3>3, CleanupOps
  <2> QED
    BY <2>1, <2>2, OpNames, AbsenceKept DEF Members, Active
<1>11. ASSUME NEW r \in Request \cup {None}, StartMatch(r) PROVE AbsenceScheduled'
  <2>1. conn' = conn /\ joinedAt' = joinedAt /\ (Active' => Active)
    BY <1>11 DEF StartMatch, sessions, Active
  <2>2. \A x \in Op \ {"index", "cleanup"} : ops'[x] = ops[x]
    <3>1. ops \in Times
      BY DEF TypeOK, ScheduleOK
    <3>2. WithCleanup(ops, r) \in Times
      BY <3>1, CleanupType
    <3>3. \A x \in Op \ {"index"} : ops'[x] = WithCleanup(ops, r)[x]
      BY <1>11, <3>2, ConcludeOps DEF StartMatch
    <3> QED
      BY <3>1, <3>3, CleanupOps
  <2> QED
    BY <2>1, <2>2, OpNames, AbsenceKept DEF Members, Active
<1>12. ASSUME NEW at \in 0 .. MaxTime, NEW r \in Request \cup {None}, Close(at, r)
      PROVE AbsenceScheduled'
  <2>1. conn' = conn /\ joinedAt' = joinedAt /\ (Active' => Active)
    BY <1>12 DEF Close, sessions, Active
  <2>2. \A x \in Op \ {"index", "cleanup", "retention"} : ops'[x] = ops[x]
    <3>1. ops \in Times
      BY DEF TypeOK, ScheduleOK
    <3>2. WithRetention(ops, at) \in Times
      BY <3>1, RetentionType, RoomAssumption
    <3>3. \A x \in Op \ {"retention"} : WithRetention(ops, at)[x] = ops[x]
      BY <3>1, RetentionOps, RoomAssumption
    <3>4. WithCleanup(WithRetention(ops, at), r) \in Times
      BY <3>2, CleanupType
    <3>5. \A x \in Op \ {"index"} : ops'[x] = WithCleanup(WithRetention(ops, at), r)[x]
      BY <1>12, <3>4, ConcludeOps DEF Close
    <3>6. \A x \in Op \ {"cleanup"} : WithCleanup(WithRetention(ops, at),
         r)[x] = WithRetention(ops, at)[x]
      BY <3>2, CleanupOps
    <3> QED
      BY <3>3, <3>5, <3>6
  <2> QED
    BY <2>1, <2>2, OpNames, AbsenceKept DEF Members, Active
<1>13. ASSUME NEW next \in {"preparing", "in_progress", "finished"}, Transition(next)
      PROVE AbsenceScheduled'
  <2>1. conn' = conn /\ joinedAt' = joinedAt /\ (Active' => Active)
    BY <1>13 DEF Transition, sessions, Active, AllowedTransition
  <2>2. \A x \in Op \ {"index", "retention"} : ops'[x] = ops[x]
    <3>1. ops \in Times
      BY DEF TypeOK, ScheduleOK
    <3>2. WithRetention(ops, now) \in Times /\ \A x \in Op \ {"retention"} : WithRetention(ops,
         now)[x] = ops[x]
      BY <3>1, RetentionType, RetentionOps DEF TypeOK, ScheduleOK
    <3>3. \E o \in {ops, WithRetention(ops, now)} : Conclude(o, TRUE, FALSE)
      BY <1>13 DEF Transition
    <3> QED
      BY <3>1, <3>2, <3>3, ConcludeOps
  <2> QED
    BY <2>1, <2>2, OpNames, AbsenceKept DEF Members, Active
<1>14. ASSUME NEW at \in 0 .. MaxTime, ScheduleOperation(at) PROVE AbsenceScheduled'
  <2>1. conn' = conn /\ joinedAt' = joinedAt /\ state' = state
    BY <1>14 DEF ScheduleOperation, room, sessions, vars
  <2>2. \A x \in Op \ {"marker"} : ops'[x] = ops[x]
    BY <1>14 DEF ScheduleOperation, Return, TypeOK, ScheduleOK, Times
  <2> QED
    BY <2>1, <2>2, OpNames, AbsenceKept DEF Members, Active
<1>15. CASE CancelScheduledOperation
  <2>1. conn' = conn /\ joinedAt' = joinedAt /\ state' = state
    BY <1>15 DEF CancelScheduledOperation, room, sessions, vars
  <2>2. \A x \in Op \ {"marker"} : ops'[x] = ops[x]
    BY <1>15 DEF CancelScheduledOperation, Return, TypeOK, ScheduleOK, Times
  <2> QED
    BY <2>1, <2>2, OpNames, AbsenceKept DEF Members, Active
<1>16. ASSUME NEW p \in Participant, NEW r \in Request, GameMessage(p, r) PROVE AbsenceScheduled'
  <2>1. conn' = conn /\ joinedAt' = joinedAt /\ state' = state
    BY <1>16 DEF GameMessage, room, sessions, vars
  <2>2. \A x \in Op \ {"cleanup"} : ops'[x] = ops[x]
    BY <1>16, CleanupOps DEF GameMessage, Return, TypeOK, ScheduleOK, Times
  <2> QED
    BY <2>1, <2>2, OpNames, AbsenceKept DEF Members, Active
<1>17. ASSUME NEW c \in Resume, NEW p \in Participant, Connect(c, p) PROVE AbsenceScheduled'
  <2>1. /\ joinedAt' = joinedAt /\ state' = state /\ ops' = ops
        /\ conn[c] = NoConnection
        /\ conn' = [conn EXCEPT ![c] = [who |-> p, generation |-> 1, live |-> TRUE,
                                       at |-> None, valid |-> TRUE]]
    BY <1>17 DEF Connect, Return, room
  <2>2. \A d \in Resume \ {c} : conn'[d] = conn[d]
    BY <2>1 DEF TypeOK
  <2>3. conn'[c] = [who |-> p, generation |-> 1, live |-> TRUE, at |-> None, valid |-> TRUE]
    BY <2>1 DEF TypeOK
  <2>4. Connected(p)'
    BY <2>3 DEF Connected, ConnectionsOf
  <2>5. ~conn[c].valid
    BY <2>1 DEF NoConnection
  <2>6. ASSUME NEW q \in Participant \ {p}
        PROVE  ConnectionsOf(q)' = ConnectionsOf(q) /\ (Connected(q)' <=> Connected(q))
    BY <2>2, <2>3, <2>5 DEF Connected, ConnectionsOf
  <2> QED
    BY <2>1, <2>4, <2>6 DEF AbsenceScheduled, Members, Active
<1>18. ASSUME NEW c \in Resume, ResumeSession(c) PROVE AbsenceScheduled'
  <2>0. PICK p \in Participant : p = conn[c].who
    BY <1>18 DEF ResumeSession, Resumable, Members
  <2> DEFINE back == [conn[c] EXCEPT !.generation = @ + 1, !.live = TRUE, !.at = None]
  <2>1. /\ joinedAt' = joinedAt /\ state' = state /\ ops' = [ops EXCEPT ![p] = None]
        /\ conn' = [conn EXCEPT ![c] = back]
    BY <1>18, <2>0 DEF ResumeSession, Return, room, TypeOK
  <2>2. \A d \in Resume \ {c} : conn'[d] = conn[d]
    BY <2>1 DEF TypeOK
  <2>3. conn'[c] = back /\ conn[c] \in Connections
    BY <2>1 DEF TypeOK
  <2>4. back.who = p /\ back.live /\ (back.valid <=> conn[c].valid)
    BY <2>0, <2>3 DEF Connections
  <2>5. conn[c].valid /\ p \in Members
    BY <1>18, <2>0 DEF ResumeSession, Resumable
  <2> HIDE DEF back
  <2>6. Connected(p)'
    BY <2>3, <2>4, <2>5 DEF Connected, ConnectionsOf
  <2>7. ASSUME NEW q \in Participant \ {p}
        PROVE  ConnectionsOf(q)' = ConnectionsOf(q) /\ (Connected(q)' <=> Connected(q))
    BY <2>0, <2>2, <2>3, <2>4, <2>5 DEF Connected, ConnectionsOf
  <2>8. \A q \in Participant \ {p} : ops'[q] = ops[q]
    BY <2>1, OpNames DEF TypeOK, ScheduleOK, Times
  <2> QED
    BY <2>1, <2>6, <2>7, <2>8 DEF AbsenceScheduled, Members, Active
<1>19. ASSUME NEW c \in Resume, ResumeTooLate(c) PROVE AbsenceScheduled'
  <2> DEFINE p == conn[c].who
  <2>1. p \in Participant /\ Active
    BY <1>19 DEF ResumeTooLate, Resumable, Members
  <2>2. CASE Remove(p) /\ Return(AfterRemoval(ops, p), TRUE)
    <3>1. \A q \in Participant \ {p} : ops'[q] = ops[q]
      BY <2>1, <2>2, RemovalOps, OpNames DEF Return, TypeOK, ScheduleOK
    <3> QED
      BY <2>1, <2>2, <3>1, AbsenceRemoval DEF Remove
  <2>3. CASE UNCHANGED <<room, sessions>> /\ Return([ops EXCEPT ![p] = LastSeen(p,
       conn[c].at) + Grace], TRUE)
    <3>1. conn[c].at \in Nat
      BY <1>19 DEF ResumeTooLate, Resumable, SessionsOK
    <3>2. LastSeen(p, conn[c].at) + Grace \in Nat
      BY <2>1, <3>1, LastSeenType, RoomAssumption
    <3>3. \A q \in Participant : ops'[q] = ops[q] \/ ops'[q] # None
      BY <2>3, <3>2, OpNames, RoomAssumption DEF Return, TypeOK, ScheduleOK, Times
    <3>4. \A q \in Participant : ConnectionsOf(q)' = ConnectionsOf(q) /\ (Connected(q)' <=> Connected(q))
      BY <2>3 DEF ConnectionsOf, Connected, sessions
    <3> QED
      BY <2>3, <3>3, <3>4 DEF AbsenceScheduled, Members, Active, room
  <2>4. CASE UNCHANGED <<room, sessions>> /\ Return(ops, TRUE)
    BY <2>4, AbsenceKept DEF Return, room, sessions, Members, Active
  <2> QED
    BY <1>19, <2>2, <2>3, <2>4 DEF ResumeTooLate
<1>20. ASSUME NEW c \in Resume, NEW g \in 1 .. MaxGeneration, SocketError(c, g)
      PROVE AbsenceScheduled'
  <2>1. MarkDisconnected(c, g) /\ state' = state /\ joinedAt' = joinedAt
    BY <1>20 DEF SocketError, room
  <2> QED
    BY <2>1, AbsenceMarked
<1>21. ASSUME NEW c \in Resume, NEW g \in 1 .. MaxGeneration, SocketClose(c, g)
      PROVE AbsenceScheduled'
  <2>1. MarkDisconnected(c, g) /\ state' = state /\ joinedAt' = joinedAt
    BY <1>21 DEF SocketClose, room
  <2> QED
    BY <2>1, AbsenceMarked
<1>22. ASSUME NEW t \in Task, UpsertServed(t) PROVE AbsenceScheduled'
  <2>1. conn' = conn /\ joinedAt' = joinedAt /\ state' = state
    BY <1>22 DEF UpsertServed, room, sessions, vars
  <2>2. \A x \in Op \ {} : ops'[x] = ops[x]
    BY <1>22 DEF UpsertServed, projection, vars
  <2> QED
    BY <2>1, <2>2, OpNames, AbsenceKept DEF Members, Active
<1>23. ASSUME NEW t \in Task, UpsertAnswered(t) PROVE AbsenceScheduled'
  <2>1. conn' = conn /\ joinedAt' = joinedAt /\ state' = state
    BY <1>23 DEF UpsertAnswered, room, sessions, vars
  <2>2. \A x \in Op \ {"index"} : ops'[x] = ops[x]
    BY <1>23, DoneOps DEF UpsertAnswered
  <2> QED
    BY <2>1, <2>2, OpNames, AbsenceKept DEF Members, Active
<1>24. ASSUME NEW t \in Task, UpsertFailed(t) PROVE AbsenceScheduled'
  <2>1. conn' = conn /\ joinedAt' = joinedAt /\ state' = state
    BY <1>24 DEF UpsertFailed, room, sessions, vars
  <2>2. \A x \in Op \ {"index"} : ops'[x] = ops[x]
    BY <1>24, RetriedOps DEF UpsertFailed
  <2> QED
    BY <2>1, <2>2, OpNames, AbsenceKept DEF Members, Active
<1>25. ASSUME NEW w \in late, LateWrite(w) PROVE AbsenceScheduled'
  <2>1. conn' = conn /\ joinedAt' = joinedAt /\ state' = state
    BY <1>25 DEF LateWrite, room, sessions, vars
  <2>2. \A x \in Op \ {} : ops'[x] = ops[x]
    BY <1>25 DEF LateWrite, projection, vars
  <2> QED
    BY <2>1, <2>2, OpNames, AbsenceKept DEF Members, Active
<1>26. CASE AlarmFires
  <2>1. conn' = conn /\ joinedAt' = joinedAt /\ state' = state
    BY <1>26 DEF AlarmFires, room, sessions, vars
  <2>2. \A x \in Op \ {} : ops'[x] = ops[x]
    BY <1>26 DEF AlarmFires, projection, vars
  <2> QED
    BY <2>1, <2>2, OpNames, AbsenceKept DEF Members, Active
<1>27. CASE AlarmIndex
  <2>1. conn' = conn /\ joinedAt' = joinedAt /\ state' = state
    BY <1>27 DEF AlarmIndex, room, sessions, vars
  <2>2. \A x \in Op \ {} : ops'[x] = ops[x]
    BY <1>27 DEF AlarmIndex, projection, vars
  <2> QED
    BY <2>1, <2>2, OpNames, AbsenceKept DEF Members, Active
<1>28. CASE AlarmUpsertServed
  <2>1. conn' = conn /\ joinedAt' = joinedAt /\ state' = state
    BY <1>28 DEF AlarmUpsertServed, room, sessions, vars
  <2>2. \A x \in Op \ {} : ops'[x] = ops[x]
    BY <1>28 DEF AlarmUpsertServed, projection, vars
  <2> QED
    BY <2>1, <2>2, OpNames, AbsenceKept DEF Members, Active
<1>29. CASE AlarmUpsertAnswered
  <2>1. conn' = conn /\ joinedAt' = joinedAt /\ state' = state
    BY <1>29 DEF AlarmUpsertAnswered, room, sessions, vars
  <2>2. \A x \in Op \ {"index"} : ops'[x] = ops[x]
    BY <1>29, DoneOps DEF AlarmUpsertAnswered
  <2> QED
    BY <2>1, <2>2, OpNames, AbsenceKept DEF Members, Active
<1>30. CASE AlarmUpsertFailed
  <2>1. conn' = conn /\ joinedAt' = joinedAt /\ state' = state
    BY <1>30 DEF AlarmUpsertFailed, room, sessions, vars
  <2>2. \A x \in Op \ {"index"} : ops'[x] = ops[x]
    BY <1>30, RetriedOps DEF AlarmUpsertFailed
  <2> QED
    BY <2>1, <2>2, OpNames, AbsenceKept DEF Members, Active
<1>31. CASE AlarmRetention
  <2>1. CASE DeleteRoom
    BY <2>1 DEF DeleteRoom, AbsenceScheduled, Active
  <2>2. CASE UNCHANGED <<room,
       sessions>> /\ (ops' = ops \/ ops' = [ops EXCEPT !["retention"] = None])
    <3>1. \A q \in Participant : ops'[q] = ops[q]
      BY <2>2, OpNames DEF TypeOK, ScheduleOK, Times
    <3> QED
      BY <2>2, <3>1, AbsenceKept DEF room, sessions, Members, Active
  <2> QED
    BY <1>31, <2>1, <2>2 DEF AlarmRetention, Continue
<1>32. CASE AlarmDeleteServed
  <2>1. conn' = conn /\ joinedAt' = joinedAt /\ state' = state
    BY <1>32 DEF AlarmDeleteServed, room, sessions, vars
  <2>2. \A x \in Op \ {} : ops'[x] = ops[x]
    BY <1>32 DEF AlarmDeleteServed, projection, vars
  <2> QED
    BY <2>1, <2>2, OpNames, AbsenceKept DEF Members, Active
<1>33. CASE AlarmDeleteAnswered
  BY <1>33 DEF AlarmDeleteAnswered, DeleteRoom, AbsenceScheduled, Active
<1>34. CASE AlarmDeleteFailed
  <2>1. conn' = conn /\ joinedAt' = joinedAt /\ state' = state
    BY <1>34 DEF AlarmDeleteFailed, room, sessions, vars
  <2>2. \A x \in Op \ {"retention"} : ops'[x] = ops[x]
    BY <1>34 DEF AlarmDeleteFailed, TypeOK, ScheduleOK, Times
  <2> QED
    BY <2>1, <2>2, OpNames, AbsenceKept DEF Members, Active
<1>35. ASSUME NEW p \in Participant, AlarmDisconnect(p) PROVE AbsenceScheduled'
  <2> DEFINE at == run.due[p] - Grace
  <2>1. CASE Remove(p) /\ Expired(p, at) /\ Continue(p, AfterRemoval(ops, p))
    <3>1. \A q \in Participant \ {p} : ops'[q] = ops[q]
      BY <2>1, RemovalOps, OpNames DEF Continue, TypeOK, ScheduleOK
    <3> QED
      BY <2>1, <3>1, AbsenceRemoval DEF Remove, Expired, Absent
  <2>2. CASE UNCHANGED <<room, sessions>> /\ Continue(p, [ops EXCEPT ![p] = LastSeen(p,
       at) + Grace])
    <3>1. run.due[p] \in Nat
      BY <1>35 DEF AlarmDisconnect, At, Op, TypeOK, ScheduleOK, Times, Time
    <3>2. at + Grace \in Nat
      BY <3>1, RoomAssumption
    <3>3. LastSeen(p, at) \in Nat \cup {at}
      BY LastSeenType
    <3> HIDE DEF at
    <3>4. LastSeen(p, at) + Grace \in Nat
      BY <3>2, <3>3, RoomAssumption
    <3>5. \A q \in Participant : ops'[q] = ops[q] \/ ops'[q] # None
      BY <2>2, <3>4, OpNames, RoomAssumption DEF Continue, TypeOK, ScheduleOK, Times
    <3>6. \A q \in Participant : ConnectionsOf(q)' = ConnectionsOf(q) /\ (Connected(q)' <=> Connected(q))
      BY <2>2 DEF ConnectionsOf, Connected, sessions
    <3> QED
      BY <2>2, <3>5, <3>6 DEF AbsenceScheduled, Members, Active, room
  <2>3. CASE ~Absent(p) /\ UNCHANGED <<room, sessions>> /\ Continue(p, [ops EXCEPT ![p] = None])
    <3>1. \A q \in Participant \ {p} : ops'[q] = ops[q]
      BY <2>3, OpNames DEF Continue, TypeOK, ScheduleOK, Times
    <3>2. \A q \in Participant : ConnectionsOf(q)' = ConnectionsOf(q) /\ (Connected(q)' <=> Connected(q))
      BY <2>3 DEF ConnectionsOf, Connected, sessions
    <3>3. Members' = Members /\ (Active' <=> Active)
      BY <2>3 DEF Members, Active, room
    <3> QED
      BY <2>3, <3>1, <3>2, <3>3 DEF AbsenceScheduled, Absent, Members
  <2> QED
    BY <1>35, <2>1, <2>2, <2>3 DEF AlarmDisconnect
<1>36. CASE AlarmCleanup
  <2>1. conn' = conn /\ joinedAt' = joinedAt /\ state' = state
    BY <1>36 DEF AlarmCleanup, room, sessions, vars
  <2>2. \A x \in Op \ {"cleanup"} : ops'[x] = ops[x]
    BY <1>36 DEF AlarmCleanup, Continue, TypeOK, ScheduleOK, Times
  <2> QED
    BY <2>1, <2>2, OpNames, AbsenceKept DEF Members, Active
<1>37. CASE AlarmMarker
  <2>1. conn' = conn /\ joinedAt' = joinedAt /\ state' = state
    BY <1>37 DEF AlarmMarker, room, sessions, vars
  <2>2. \A x \in Op \ {"marker"} : ops'[x] = ops[x]
    BY <1>37 DEF AlarmMarker, Continue, TypeOK, ScheduleOK, Times
  <2> QED
    BY <2>1, <2>2, OpNames, AbsenceKept DEF Members, Active
<1>38. CASE AlarmEnds
  <2>1. conn' = conn /\ joinedAt' = joinedAt /\ state' = state
    BY <1>38 DEF AlarmEnds, room, sessions, vars
  <2>2. \A x \in Op \ {} : ops'[x] = ops[x]
    BY <1>38 DEF AlarmEnds, projection, vars
  <2> QED
    BY <2>1, <2>2, OpNames, AbsenceKept DEF Members, Active
<1>39. CASE Restart
  <2>1. conn' = conn /\ joinedAt' = joinedAt /\ state' = state
    BY <1>39 DEF Restart, room, sessions, vars
  <2>2. \A x \in Op \ {} : ops'[x] = ops[x]
    BY <1>39 DEF Restart, projection, vars
  <2> QED
    BY <2>1, <2>2, OpNames, AbsenceKept DEF Members, Active
<1>40. CASE Tick
  <2>1. conn' = conn /\ joinedAt' = joinedAt /\ state' = state
    BY <1>40 DEF Tick, room, sessions, vars
  <2>2. \A x \in Op \ {} : ops'[x] = ops[x]
    BY <1>40 DEF Tick, projection, vars
  <2> QED
    BY <2>1, <2>2, OpNames, AbsenceKept DEF Members, Active
<1>41. CASE UNCHANGED vars
  <2>1. conn' = conn /\ joinedAt' = joinedAt /\ state' = state
    BY <1>41 DEF vars, room, sessions, vars
  <2>2. \A x \in Op \ {} : ops'[x] = ops[x]
    BY <1>41 DEF vars
  <2> QED
    BY <2>1, <2>2, OpNames, AbsenceKept DEF Members, Active
<1> QED
  BY <1>1, <1>2, <1>3, <1>4, <1>5, <1>6, <1>7, <1>8, <1>9, <1>10, <1>11, <1>12, <1>13, <1>14,
       <1>15, <1>16, <1>17, <1>18, <1>19, <1>20, <1>21, <1>22, <1>23, <1>24, <1>25, <1>26, <1>27,
            <1>28, <1>29, <1>30, <1>31, <1>32, <1>33, <1>34, <1>35, <1>36, <1>37, <1>38, <1>39,
                 <1>40, <1>41 DEF Next, Lifecycle, WebSockets, D1, AlarmStep

LEMMA EndStep == TypeOK /\ SessionsOK /\ RunOK /\ EndScheduled /\ [Next]_vars => EndScheduled'
<1> SUFFICES ASSUME TypeOK, SessionsOK, RunOK, EndScheduled, [Next]_vars PROVE EndScheduled'
  OBVIOUS
<1>1. CASE Initialize
  <2>1. state' = "finished" => state = "finished"
    BY <1>1 DEF Initialize, room, vars
  <2>2. \A x \in Op \ {"index"} : ops'[x] = ops[x]
    BY <1>1, ConcludeOps DEF Initialize, TypeOK, ScheduleOK, Times
  <2> QED
    BY <2>1, <2>2, OpNames DEF EndScheduled
<1>2. CASE InitializeAgain
  <2>1. state' = "finished" => state = "finished"
    BY <1>2 DEF InitializeAgain, room, vars
  <2>2. \A x \in Op \ {"index"} : ops'[x] = ops[x]
    BY <1>2, ConcludeOps DEF InitializeAgain, TypeOK, ScheduleOK, Times
  <2> QED
    BY <2>1, <2>2, OpNames DEF EndScheduled
<1>3. ASSUME NEW p \in Participant, Join(p) PROVE EndScheduled'
  <2>1. state' = "finished" => state = "finished"
    BY <1>3 DEF Join, room, vars
  <2>2. \A x \in Op \ {"index"} : ops'[x] = ops[x]
    BY <1>3, ConcludeOps DEF Join, TypeOK, ScheduleOK, Times
  <2> QED
    BY <2>1, <2>2, OpNames DEF EndScheduled
<1>4. ASSUME NEW p \in Participant, DisconnectCall(p) PROVE EndScheduled'
  <2>1. state' = "finished" => state = "finished"
    BY <1>4 DEF DisconnectCall, room, vars
  <2>2. \A x \in Op \ {p} : ops'[x] = ops[x]
    BY <1>4 DEF DisconnectCall, Return, TypeOK, ScheduleOK, Times
  <2> QED
    BY <2>1, <2>2, OpNames DEF EndScheduled
<1>5. ASSUME NEW p \in Participant, NEW r \in Request \cup {None}, Leave(p, r) PROVE EndScheduled'
  <2>1. AfterRemoval(ops, p) \in Times /\ ops \in Times
    BY <1>5, AfterRemovalType DEF TypeOK, ScheduleOK
  <2>2. WithCleanup(AfterRemoval(ops, p), r) \in Times
    BY <2>1, CleanupType
  <2>3. ops'["retention"] = AfterRemoval(ops, p)["retention"]
    BY <1>5, <2>1, <2>2, ConcludeOps, CleanupOps, OpNames DEF Leave
  <2>4. state' = "finished" => EndsRoom(p) \/ state = "finished"
    BY <1>5 DEF Leave, Remove, EndsRoom
  <2> QED
    BY <2>1, <2>3, <2>4, RemovalOps DEF EndScheduled
<1>6. ASSUME NEW p \in Participant, NEW r \in Request \cup {None}, SelectTeam(p, r)
      PROVE EndScheduled'
  <2>1. state' = "finished" => state = "finished"
    BY <1>6 DEF SelectTeam, room, vars
  <2>2. \A x \in Op \ {"cleanup"} : ops'[x] = ops[x]
    BY <1>6, CleanupOps DEF SelectTeam, Return, TypeOK, ScheduleOK, Times
  <2> QED
    BY <2>1, <2>2, OpNames DEF EndScheduled
<1>7. ASSUME NEW p \in Participant, NEW r \in Request \cup {None}, TransferHost(p, r)
      PROVE EndScheduled'
  <2>1. state' = "finished" => state = "finished"
    BY <1>7 DEF TransferHost, room, vars
  <2>2. \A x \in Op \ {"cleanup"} : ops'[x] = ops[x]
    BY <1>7, CleanupOps DEF TransferHost, Return, TypeOK, ScheduleOK, Times
  <2> QED
    BY <2>1, <2>2, OpNames DEF EndScheduled
<1>8. ASSUME NEW p \in Participant, NEW r \in Request \cup {None}, Kick(p, r) PROVE EndScheduled'
  <2>1. state' = "finished" => state = "finished"
    BY <1>8 DEF Kick, room, vars
  <2>2. \A x \in Op \ {"index", "cleanup", p} : ops'[x] = ops[x]
    <3>1. ops \in Times
      BY DEF TypeOK, ScheduleOK
    <3>2. [ops EXCEPT ![p] = None] \in Times
      BY <3>1 DEF Times, Time
    <3>3. \A x \in Op \ {p} : [ops EXCEPT ![p] = None][x] = ops[x]
      BY <3>1 DEF Times
    <3>4. WithCleanup([ops EXCEPT ![p] = None], r) \in Times
      BY <3>2, CleanupType
    <3>5. \A x \in Op \ {"index"} : ops'[x] = WithCleanup([ops EXCEPT ![p] = None], r)[x]
      BY <1>8, <3>4, ConcludeOps DEF Kick
    <3>6. \A x \in Op \ {"cleanup"} : WithCleanup([ops EXCEPT ![p] = None],
         r)[x] = [ops EXCEPT ![p] = None][x]
      BY <3>2, CleanupOps
    <3> QED
      BY <3>3, <3>5, <3>6
  <2> QED
    BY <2>1, <2>2, OpNames DEF EndScheduled
<1>9. ASSUME NEW p \in Participant, NEW value \in BOOLEAN, NEW r \in Request \cup {None},
     SetReady(p, value, r) PROVE EndScheduled'
  <2>1. state' = "finished" => state = "finished"
    BY <1>9 DEF SetReady, room, vars
  <2>2. \A x \in Op \ {"cleanup"} : ops'[x] = ops[x]
    BY <1>9, CleanupOps DEF SetReady, Return, TypeOK, ScheduleOK, Times
  <2> QED
    BY <2>1, <2>2, OpNames DEF EndScheduled
<1>10. ASSUME NEW r \in Request \cup {None}, UpdateSettings(r) PROVE EndScheduled'
  <2>1. state' = "finished" => state = "finished"
    BY <1>10 DEF UpdateSettings, room, vars
  <2>2. \A x \in Op \ {"index", "cleanup"} : ops'[x] = ops[x]
    <3>1. ops \in Times
      BY DEF TypeOK, ScheduleOK
    <3>2. WithCleanup(ops, r) \in Times
      BY <3>1, CleanupType
    <3>3. \A x \in Op \ {"index"} : ops'[x] = WithCleanup(ops, r)[x]
      BY <1>10, <3>2, ConcludeOps DEF UpdateSettings
    <3> QED
      BY <3>1, <3>3, CleanupOps
  <2> QED
    BY <2>1, <2>2, OpNames DEF EndScheduled
<1>11. ASSUME NEW r \in Request \cup {None}, StartMatch(r) PROVE EndScheduled'
  <2>1. state' = "finished" => state = "finished"
    BY <1>11 DEF StartMatch, room, vars
  <2>2. \A x \in Op \ {"index", "cleanup"} : ops'[x] = ops[x]
    <3>1. ops \in Times
      BY DEF TypeOK, ScheduleOK
    <3>2. WithCleanup(ops, r) \in Times
      BY <3>1, CleanupType
    <3>3. \A x \in Op \ {"index"} : ops'[x] = WithCleanup(ops, r)[x]
      BY <1>11, <3>2, ConcludeOps DEF StartMatch
    <3> QED
      BY <3>1, <3>3, CleanupOps
  <2> QED
    BY <2>1, <2>2, OpNames DEF EndScheduled
<1>12. ASSUME NEW at \in 0 .. MaxTime, NEW r \in Request \cup {None}, Close(at, r)
      PROVE EndScheduled'
  <2>1. ops \in Times /\ at \in Nat
    BY RoomAssumption DEF TypeOK, ScheduleOK
  <2>2. WithRetention(ops, at) \in Times
    BY <2>1, RetentionType
  <2>3. WithCleanup(WithRetention(ops, at), r) \in Times
    BY <2>2, CleanupType
  <2>4. ops'["retention"] = WithRetention(ops, at)["retention"]
    BY <1>12, <2>2, <2>3, ConcludeOps, CleanupOps, OpNames, ZenonT(30) DEF Close
  <2> QED
    BY <2>1, <2>4, RetentionOps DEF EndScheduled
<1>13. ASSUME NEW next \in {"preparing", "in_progress", "finished"}, Transition(next)
      PROVE EndScheduled'
  <2>1. CASE next # "finished"
    <3>1. state' # "finished"
      BY <1>13, <2>1 DEF Transition
    <3> QED
      BY <3>1 DEF EndScheduled
  <2>2. CASE next = "finished"
    <3>1. ops \in Times /\ now \in Nat
      BY DEF TypeOK, ScheduleOK
    <3>2. WithRetention(ops, now) \in Times
      BY <3>1, RetentionType
    <3>3. ops'["retention"] = WithRetention(ops, now)["retention"]
      BY <1>13, <2>2, <3>2, ConcludeOps, OpNames DEF Transition
    <3> QED
      BY <3>1, <3>3, RetentionOps DEF EndScheduled
  <2> QED
    BY <2>1, <2>2
<1>14. ASSUME NEW at \in 0 .. MaxTime, ScheduleOperation(at) PROVE EndScheduled'
  <2>1. state' = "finished" => state = "finished"
    BY <1>14 DEF ScheduleOperation, room, vars
  <2>2. \A x \in Op \ {"marker"} : ops'[x] = ops[x]
    BY <1>14 DEF ScheduleOperation, Return, TypeOK, ScheduleOK, Times
  <2> QED
    BY <2>1, <2>2, OpNames DEF EndScheduled
<1>15. CASE CancelScheduledOperation
  <2>1. state' = "finished" => state = "finished"
    BY <1>15 DEF CancelScheduledOperation, room, vars
  <2>2. \A x \in Op \ {"marker"} : ops'[x] = ops[x]
    BY <1>15 DEF CancelScheduledOperation, Return, TypeOK, ScheduleOK, Times
  <2> QED
    BY <2>1, <2>2, OpNames DEF EndScheduled
<1>16. ASSUME NEW p \in Participant, NEW r \in Request, GameMessage(p, r) PROVE EndScheduled'
  <2>1. state' = "finished" => state = "finished"
    BY <1>16 DEF GameMessage, room, vars
  <2>2. \A x \in Op \ {"cleanup"} : ops'[x] = ops[x]
    BY <1>16, CleanupOps DEF GameMessage, Return, TypeOK, ScheduleOK, Times
  <2> QED
    BY <2>1, <2>2, OpNames DEF EndScheduled
<1>17. ASSUME NEW c \in Resume, NEW p \in Participant, Connect(c, p) PROVE EndScheduled'
  <2>1. state' = "finished" => state = "finished"
    BY <1>17 DEF Connect, room, vars
  <2>2. \A x \in Op \ {} : ops'[x] = ops[x]
    BY <1>17 DEF Connect, Return, TypeOK, ScheduleOK, Times
  <2> QED
    BY <2>1, <2>2, OpNames DEF EndScheduled
<1>18. ASSUME NEW c \in Resume, ResumeSession(c) PROVE EndScheduled'
  <2>1. state' = state /\ ops' = [ops EXCEPT ![conn[c].who] = None] /\ conn[c].who \in Participant
    BY <1>18 DEF ResumeSession, Resumable, Members, Return, room
  <2> QED
    BY <2>1, OpNames DEF EndScheduled, TypeOK, ScheduleOK, Times
<1>19. ASSUME NEW c \in Resume, ResumeTooLate(c) PROVE EndScheduled'
  <2>0. PICK p \in Participant : p = conn[c].who
    BY <1>19 DEF ResumeTooLate, Resumable, Members
  <2>1. CASE Remove(p) /\ Return(AfterRemoval(ops, p), TRUE)
    <3>1. ops \in Times
      BY DEF TypeOK, ScheduleOK
    <3>2. ops' = AfterRemoval(ops, p) /\ (state' = "finished" => EndsRoom(p) \/ state = "finished")
      BY <2>1 DEF Remove, EndsRoom, Return
    <3> QED
      BY <3>1, <3>2, RemovalOps DEF EndScheduled
  <2>2. CASE state' = state /\ \E t \in Time : ops' = [ops EXCEPT ![p] = t]
    BY <2>2, OpNames DEF EndScheduled, TypeOK, ScheduleOK, Times
  <2>3. CASE state' = state /\ ops' = ops
    BY <2>3 DEF EndScheduled
  <2>4. LastSeen(p, conn[c].at) + Grace \in Time
    <3>1. conn[c].at \in Nat
      BY <1>19 DEF ResumeTooLate, Resumable, SessionsOK
    <3> QED
      BY <3>1, LastSeenType, RoomAssumption DEF Time
  <2> QED
    BY <1>19, <2>0, <2>1, <2>2, <2>3, <2>4 DEF ResumeTooLate, Return, room
<1>20. ASSUME NEW c \in Resume, NEW g \in 1 .. MaxGeneration, SocketError(c, g) PROVE EndScheduled'
  <2>1. MarkDisconnected(c, g) /\ state' = state /\ processed' = processed
    BY <1>20 DEF SocketError, room
  <2>2. ops' = ops \/ (conn[c].valid /\ ops' = [ops EXCEPT ![conn[c].who] = now + Grace])
    BY <2>1 DEF MarkDisconnected, Return
  <2>3. ops' = ops \/ \E p \in Participant : ops' = [ops EXCEPT ![p] = now + Grace]
    BY <2>2 DEF SessionsOK
  <2> QED
    BY <2>1, <2>3, OpNames DEF EndScheduled, TypeOK, ScheduleOK, Times
<1>21. ASSUME NEW c \in Resume, NEW g \in 1 .. MaxGeneration, SocketClose(c, g) PROVE EndScheduled'
  <2>1. MarkDisconnected(c, g) /\ state' = state /\ processed' = processed
    BY <1>21 DEF SocketClose, room
  <2>2. ops' = ops \/ (conn[c].valid /\ ops' = [ops EXCEPT ![conn[c].who] = now + Grace])
    BY <2>1 DEF MarkDisconnected, Return
  <2>3. ops' = ops \/ \E p \in Participant : ops' = [ops EXCEPT ![p] = now + Grace]
    BY <2>2 DEF SessionsOK
  <2> QED
    BY <2>1, <2>3, OpNames DEF EndScheduled, TypeOK, ScheduleOK, Times
<1>22. ASSUME NEW t \in Task, UpsertServed(t) PROVE EndScheduled'
  <2>1. state' = "finished" => state = "finished"
    BY <1>22 DEF UpsertServed, room, vars
  <2>2. \A x \in Op \ {} : ops'[x] = ops[x]
    BY <1>22 DEF UpsertServed, projection, vars
  <2> QED
    BY <2>1, <2>2, OpNames DEF EndScheduled
<1>23. ASSUME NEW t \in Task, UpsertAnswered(t) PROVE EndScheduled'
  <2>1. state' = "finished" => state = "finished"
    BY <1>23 DEF UpsertAnswered, room, vars
  <2>2. \A x \in Op \ {"index"} : ops'[x] = ops[x]
    BY <1>23, DoneOps DEF UpsertAnswered
  <2> QED
    BY <2>1, <2>2, OpNames DEF EndScheduled
<1>24. ASSUME NEW t \in Task, UpsertFailed(t) PROVE EndScheduled'
  <2>1. state' = "finished" => state = "finished"
    BY <1>24 DEF UpsertFailed, room, vars
  <2>2. \A x \in Op \ {"index"} : ops'[x] = ops[x]
    BY <1>24, RetriedOps DEF UpsertFailed
  <2> QED
    BY <2>1, <2>2, OpNames DEF EndScheduled
<1>25. ASSUME NEW w \in late, LateWrite(w) PROVE EndScheduled'
  <2>1. state' = "finished" => state = "finished"
    BY <1>25 DEF LateWrite, room, vars
  <2>2. \A x \in Op \ {} : ops'[x] = ops[x]
    BY <1>25 DEF LateWrite, projection, vars
  <2> QED
    BY <2>1, <2>2, OpNames DEF EndScheduled
<1>26. CASE AlarmFires
  <2>1. state' = "finished" => state = "finished"
    BY <1>26 DEF AlarmFires, room, vars
  <2>2. \A x \in Op \ {} : ops'[x] = ops[x]
    BY <1>26 DEF AlarmFires, projection, vars
  <2> QED
    BY <2>1, <2>2, OpNames DEF EndScheduled
<1>27. CASE AlarmIndex
  <2>1. state' = "finished" => state = "finished"
    BY <1>27 DEF AlarmIndex, room, vars
  <2>2. \A x \in Op \ {} : ops'[x] = ops[x]
    BY <1>27 DEF AlarmIndex, projection, vars
  <2> QED
    BY <2>1, <2>2, OpNames DEF EndScheduled
<1>28. CASE AlarmUpsertServed
  <2>1. state' = "finished" => state = "finished"
    BY <1>28 DEF AlarmUpsertServed, room, vars
  <2>2. \A x \in Op \ {} : ops'[x] = ops[x]
    BY <1>28 DEF AlarmUpsertServed, projection, vars
  <2> QED
    BY <2>1, <2>2, OpNames DEF EndScheduled
<1>29. CASE AlarmUpsertAnswered
  <2>1. state' = "finished" => state = "finished"
    BY <1>29 DEF AlarmUpsertAnswered, room, vars
  <2>2. \A x \in Op \ {"index"} : ops'[x] = ops[x]
    BY <1>29, DoneOps DEF AlarmUpsertAnswered
  <2> QED
    BY <2>1, <2>2, OpNames DEF EndScheduled
<1>30. CASE AlarmUpsertFailed
  <2>1. state' = "finished" => state = "finished"
    BY <1>30 DEF AlarmUpsertFailed, room, vars
  <2>2. \A x \in Op \ {"index"} : ops'[x] = ops[x]
    BY <1>30, RetriedOps DEF AlarmUpsertFailed
  <2> QED
    BY <2>1, <2>2, OpNames DEF EndScheduled
<1>31. CASE AlarmRetention
  <2>1. CASE DeleteRoom
    BY <2>1 DEF DeleteRoom, EndScheduled
  <2>2. CASE state' = state /\ (state # "finished" \/ ops' = ops)
    BY <2>2 DEF EndScheduled
  <2> QED
    BY <1>31, <2>1, <2>2 DEF AlarmRetention, room
<1>32. CASE AlarmDeleteServed
  <2>1. state' = "finished" => state = "finished"
    BY <1>32 DEF AlarmDeleteServed, room, vars
  <2>2. \A x \in Op \ {} : ops'[x] = ops[x]
    BY <1>32 DEF AlarmDeleteServed, projection, vars
  <2> QED
    BY <2>1, <2>2, OpNames DEF EndScheduled
<1>33. CASE AlarmDeleteAnswered
  BY <1>33 DEF AlarmDeleteAnswered, DeleteRoom, EndScheduled
<1>34. CASE AlarmDeleteFailed
  <2>1. "retention" \in Op /\ run.due["retention"] \in Nat
    BY <1>34, OpNames DEF AlarmDeleteFailed, RunOK
  <2>2. now \in Nat
    BY DEF TypeOK, ScheduleOK
  <2>3. Greater(now, run.due["retention"]) + RetryDelay # None
    BY <2>1, <2>2, RoomAssumption DEF Greater
  <2>4. state' = state /\ (ops' = ops \/ ops'["retention"] # None)
    BY <1>34, <2>1, <2>3 DEF AlarmDeleteFailed, room, TypeOK, ScheduleOK, Times
  <2> QED
    BY <2>4 DEF EndScheduled
<1>35. ASSUME NEW p \in Participant, AlarmDisconnect(p) PROVE EndScheduled'
  <2> DEFINE at == run.due[p] - Grace
  <2>1. CASE Remove(p) /\ Continue(p, AfterRemoval(ops, p))
    <3>1. ops \in Times
      BY DEF TypeOK, ScheduleOK
    <3>2. ops' = AfterRemoval(ops, p) /\ (state' = "finished" => EndsRoom(p) \/ state = "finished")
      BY <2>1 DEF Remove, EndsRoom, Continue
    <3> QED
      BY <3>1, <3>2, RemovalOps DEF EndScheduled
  <2>2. CASE state' = state /\ \E t : ops' = [ops EXCEPT ![p] = t]
    BY <2>2, OpNames DEF EndScheduled, TypeOK, ScheduleOK, Times
  <2> QED
    BY <1>35, <2>1, <2>2 DEF AlarmDisconnect, Continue, room
<1>36. CASE AlarmCleanup
  <2>1. state' = "finished" => state = "finished"
    BY <1>36 DEF AlarmCleanup, room, vars
  <2>2. \A x \in Op \ {"cleanup"} : ops'[x] = ops[x]
    BY <1>36 DEF AlarmCleanup, Continue, TypeOK, ScheduleOK, Times
  <2> QED
    BY <2>1, <2>2, OpNames DEF EndScheduled
<1>37. CASE AlarmMarker
  <2>1. state' = "finished" => state = "finished"
    BY <1>37 DEF AlarmMarker, room, vars
  <2>2. \A x \in Op \ {"marker"} : ops'[x] = ops[x]
    BY <1>37 DEF AlarmMarker, Continue, TypeOK, ScheduleOK, Times
  <2> QED
    BY <2>1, <2>2, OpNames DEF EndScheduled
<1>38. CASE AlarmEnds
  <2>1. state' = "finished" => state = "finished"
    BY <1>38 DEF AlarmEnds, room, vars
  <2>2. \A x \in Op \ {} : ops'[x] = ops[x]
    BY <1>38 DEF AlarmEnds, projection, vars
  <2> QED
    BY <2>1, <2>2, OpNames DEF EndScheduled
<1>39. CASE Restart
  <2>1. state' = "finished" => state = "finished"
    BY <1>39 DEF Restart, room, vars
  <2>2. \A x \in Op \ {} : ops'[x] = ops[x]
    BY <1>39 DEF Restart, projection, vars
  <2> QED
    BY <2>1, <2>2, OpNames DEF EndScheduled
<1>40. CASE Tick
  <2>1. state' = "finished" => state = "finished"
    BY <1>40 DEF Tick, room, vars
  <2>2. \A x \in Op \ {} : ops'[x] = ops[x]
    BY <1>40 DEF Tick, projection, vars
  <2> QED
    BY <2>1, <2>2, OpNames DEF EndScheduled
<1>41. CASE UNCHANGED vars
  <2>1. state' = "finished" => state = "finished"
    BY <1>41 DEF vars, room, vars
  <2>2. \A x \in Op \ {} : ops'[x] = ops[x]
    BY <1>41 DEF vars
  <2> QED
    BY <2>1, <2>2, OpNames DEF EndScheduled
<1> QED
  BY <1>1, <1>2, <1>3, <1>4, <1>5, <1>6, <1>7, <1>8, <1>9, <1>10, <1>11, <1>12, <1>13, <1>14,
       <1>15, <1>16, <1>17, <1>18, <1>19, <1>20, <1>21, <1>22, <1>23, <1>24, <1>25, <1>26, <1>27,
            <1>28, <1>29, <1>30, <1>31, <1>32, <1>33, <1>34, <1>35, <1>36, <1>37, <1>38, <1>39,
                 <1>40, <1>41 DEF Next, Lifecycle, WebSockets, D1, AlarmStep

LEMMA ResultsStep == TypeOK /\ SessionsOK /\ ResultsScheduled /\ [Next]_vars => ResultsScheduled'
<1> SUFFICES ASSUME TypeOK, SessionsOK, ResultsScheduled, [Next]_vars PROVE ResultsScheduled'
  OBVIOUS
<1>1. CASE Initialize
  <2>1. processed' = processed
    BY <1>1 DEF Initialize, vars
  <2>2. \A x \in Op \ {"index"} : ops'[x] = ops[x]
    BY <1>1, ConcludeOps DEF Initialize, TypeOK, ScheduleOK, Times
  <2> QED
    BY <2>1, <2>2, OpNames DEF ResultsScheduled
<1>2. CASE InitializeAgain
  <2>1. processed' = processed
    BY <1>2 DEF InitializeAgain, vars
  <2>2. \A x \in Op \ {"index"} : ops'[x] = ops[x]
    BY <1>2, ConcludeOps DEF InitializeAgain, TypeOK, ScheduleOK, Times
  <2> QED
    BY <2>1, <2>2, OpNames DEF ResultsScheduled
<1>3. ASSUME NEW p \in Participant, Join(p) PROVE ResultsScheduled'
  <2>1. processed' = processed
    BY <1>3 DEF Join, vars
  <2>2. \A x \in Op \ {"index"} : ops'[x] = ops[x]
    BY <1>3, ConcludeOps DEF Join, TypeOK, ScheduleOK, Times
  <2> QED
    BY <2>1, <2>2, OpNames DEF ResultsScheduled
<1>4. ASSUME NEW p \in Participant, DisconnectCall(p) PROVE ResultsScheduled'
  <2>1. processed' = processed
    BY <1>4 DEF DisconnectCall, vars
  <2>2. \A x \in Op \ {p} : ops'[x] = ops[x]
    BY <1>4 DEF DisconnectCall, Return, TypeOK, ScheduleOK, Times
  <2> QED
    BY <2>1, <2>2, OpNames DEF ResultsScheduled
<1>5. ASSUME NEW p \in Participant, NEW r \in Request \cup {None}, Leave(p, r)
      PROVE ResultsScheduled'
  <2>1. processed' = Stored(r)
    BY <1>5 DEF Leave
  <2>2. AfterRemoval(ops, p) \in Times /\ AfterRemoval(ops, p)["cleanup"] = ops["cleanup"]
    BY AfterRemovalType, RemovalOps, OpNames DEF TypeOK, ScheduleOK
  <2>3. WithCleanup(AfterRemoval(ops, p), r) \in Times
    BY <2>2, CleanupType
  <2>4. ops'["cleanup"] = WithCleanup(AfterRemoval(ops, p), r)["cleanup"]
    BY <1>5, <2>3, ConcludeOps, OpNames DEF Leave
  <2> QED
    BY <2>1, <2>2, <2>4, ResultsStored
<1>6. ASSUME NEW p \in Participant, NEW r \in Request \cup {None}, SelectTeam(p, r)
      PROVE ResultsScheduled'
  <2>1. processed' = Stored(r) /\ ops' = WithCleanup(ops, r)
    BY <1>6 DEF SelectTeam, Return
  <2>2. ops \in Times
    BY DEF TypeOK, ScheduleOK
  <2> QED
    BY <2>1, <2>2, ResultsStored
<1>7. ASSUME NEW p \in Participant, NEW r \in Request \cup {None}, TransferHost(p, r)
      PROVE ResultsScheduled'
  <2>1. processed' = Stored(r) /\ ops' = WithCleanup(ops, r)
    BY <1>7 DEF TransferHost, Return
  <2>2. ops \in Times
    BY DEF TypeOK, ScheduleOK
  <2> QED
    BY <2>1, <2>2, ResultsStored
<1>8. ASSUME NEW p \in Participant, NEW r \in Request \cup {None}, Kick(p, r)
      PROVE ResultsScheduled'
  <2>1. processed' = Stored(r)
    BY <1>8 DEF Kick
  <2>2. [ops EXCEPT ![p] = None] \in Times /\ [ops EXCEPT ![p] = None]["cleanup"] = ops["cleanup"]
    BY OpNames DEF Times, Time, TypeOK, ScheduleOK
  <2>3. WithCleanup([ops EXCEPT ![p] = None], r) \in Times
    BY <2>2, CleanupType
  <2>4. ops'["cleanup"] = WithCleanup([ops EXCEPT ![p] = None], r)["cleanup"]
    BY <1>8, <2>3, ConcludeOps, OpNames DEF Kick
  <2> QED
    BY <2>1, <2>2, <2>4, ResultsStored
<1>9. ASSUME NEW p \in Participant, NEW value \in BOOLEAN, NEW r \in Request \cup {None},
     SetReady(p, value, r) PROVE ResultsScheduled'
  <2>1. processed' = Stored(r) /\ ops' = WithCleanup(ops, r)
    BY <1>9 DEF SetReady, Return
  <2>2. ops \in Times
    BY DEF TypeOK, ScheduleOK
  <2> QED
    BY <2>1, <2>2, ResultsStored
<1>10. ASSUME NEW r \in Request \cup {None}, UpdateSettings(r) PROVE ResultsScheduled'
  <2>1. processed' = Stored(r)
    BY <1>10 DEF UpdateSettings
  <2>2. ops \in Times /\ ops["cleanup"] = ops["cleanup"]
    BY DEF TypeOK, ScheduleOK
  <2>3. WithCleanup(ops, r) \in Times
    BY <2>2, CleanupType
  <2>4. ops'["cleanup"] = WithCleanup(ops, r)["cleanup"]
    BY <1>10, <2>3, ConcludeOps, OpNames DEF UpdateSettings
  <2> QED
    BY <2>1, <2>2, <2>4, ResultsStored
<1>11. ASSUME NEW r \in Request \cup {None}, StartMatch(r) PROVE ResultsScheduled'
  <2>1. processed' = Stored(r)
    BY <1>11 DEF StartMatch
  <2>2. ops \in Times /\ ops["cleanup"] = ops["cleanup"]
    BY DEF TypeOK, ScheduleOK
  <2>3. WithCleanup(ops, r) \in Times
    BY <2>2, CleanupType
  <2>4. ops'["cleanup"] = WithCleanup(ops, r)["cleanup"]
    BY <1>11, <2>3, ConcludeOps, OpNames DEF StartMatch
  <2> QED
    BY <2>1, <2>2, <2>4, ResultsStored
<1>12. ASSUME NEW at \in 0 .. MaxTime, NEW r \in Request \cup {None}, Close(at, r)
      PROVE ResultsScheduled'
  <2>1. at \in Nat /\ processed' = Stored(r)
    BY <1>12, RoomAssumption DEF Close
  <2>2. WithRetention(ops, at) \in Times /\ WithRetention(ops, at)["cleanup"] = ops["cleanup"]
    BY <2>1, RetentionType, RetentionOps, OpNames DEF TypeOK, ScheduleOK
  <2>3. WithCleanup(WithRetention(ops, at), r) \in Times
    BY <2>2, CleanupType
  <2>4. ops'["cleanup"] = WithCleanup(WithRetention(ops, at), r)["cleanup"]
    BY <1>12, <2>3, ConcludeOps, OpNames DEF Close
  <2> QED
    BY <2>1, <2>2, <2>4, ResultsStored
<1>13. ASSUME NEW next \in {"preparing", "in_progress", "finished"}, Transition(next)
      PROVE ResultsScheduled'
  <2>1. processed' = processed
    BY <1>13 DEF Transition, vars
  <2>2. \A x \in Op \ {"index", "retention"} : ops'[x] = ops[x]
    <3>1. ops \in Times
      BY DEF TypeOK, ScheduleOK
    <3>2. WithRetention(ops, now) \in Times /\ \A x \in Op \ {"retention"} : WithRetention(ops,
         now)[x] = ops[x]
      BY <3>1, RetentionType, RetentionOps DEF TypeOK, ScheduleOK
    <3>3. \E o \in {ops, WithRetention(ops, now)} : Conclude(o, TRUE, FALSE)
      BY <1>13 DEF Transition
    <3> QED
      BY <3>1, <3>2, <3>3, ConcludeOps
  <2> QED
    BY <2>1, <2>2, OpNames DEF ResultsScheduled
<1>14. ASSUME NEW at \in 0 .. MaxTime, ScheduleOperation(at) PROVE ResultsScheduled'
  <2>1. processed' = processed
    BY <1>14 DEF ScheduleOperation, vars
  <2>2. \A x \in Op \ {"marker"} : ops'[x] = ops[x]
    BY <1>14 DEF ScheduleOperation, Return, TypeOK, ScheduleOK, Times
  <2> QED
    BY <2>1, <2>2, OpNames DEF ResultsScheduled
<1>15. CASE CancelScheduledOperation
  <2>1. processed' = processed
    BY <1>15 DEF CancelScheduledOperation, vars
  <2>2. \A x \in Op \ {"marker"} : ops'[x] = ops[x]
    BY <1>15 DEF CancelScheduledOperation, Return, TypeOK, ScheduleOK, Times
  <2> QED
    BY <2>1, <2>2, OpNames DEF ResultsScheduled
<1>16. ASSUME NEW p \in Participant, NEW r \in Request, GameMessage(p, r) PROVE ResultsScheduled'
  <2>1. processed' = Stored(r) /\ ops' = WithCleanup(ops, r)
    BY <1>16 DEF GameMessage, Return
  <2>2. ops \in Times
    BY DEF TypeOK, ScheduleOK
  <2> QED
    BY <2>1, <2>2, ResultsStored
<1>17. ASSUME NEW c \in Resume, NEW p \in Participant, Connect(c, p) PROVE ResultsScheduled'
  <2>1. processed' = processed
    BY <1>17 DEF Connect, vars
  <2>2. \A x \in Op \ {} : ops'[x] = ops[x]
    BY <1>17 DEF Connect, Return, TypeOK, ScheduleOK, Times
  <2> QED
    BY <2>1, <2>2, OpNames DEF ResultsScheduled
<1>18. ASSUME NEW c \in Resume, ResumeSession(c) PROVE ResultsScheduled'
  <2>1. processed' = processed /\ ops' = [ops EXCEPT ![conn[c].who] = None] /\ conn[c].who \in Participant
    BY <1>18 DEF ResumeSession, Resumable, Members, Return
  <2> QED
    BY <2>1, OpNames DEF ResultsScheduled, TypeOK, ScheduleOK, Times
<1>19. ASSUME NEW c \in Resume, ResumeTooLate(c) PROVE ResultsScheduled'
  <2>0. PICK p \in Participant : p = conn[c].who
    BY <1>19 DEF ResumeTooLate, Resumable, Members
  <2>1. CASE ops' = AfterRemoval(ops, p) /\ processed' = processed
    <3>1. ops \in Times
      BY DEF TypeOK, ScheduleOK
    <3>2. "cleanup" \in Op \ {p, "retention"}
      BY OpNames
    <3>3. ops'["cleanup"] = ops["cleanup"]
      BY <2>1, <3>1, <3>2, RemovalOps
    <3> QED
      BY <2>1, <3>3 DEF ResultsScheduled
  <2>2. CASE processed' = processed /\ \E t : ops' = [ops EXCEPT ![p] = t]
    BY <2>2, OpNames DEF ResultsScheduled, TypeOK, ScheduleOK, Times
  <2>3. CASE processed' = processed /\ ops' = ops
    BY <2>3 DEF ResultsScheduled
  <2> QED
    BY <1>19, <2>0, <2>1, <2>2, <2>3 DEF ResumeTooLate, Return
<1>20. ASSUME NEW c \in Resume, NEW g \in 1 .. MaxGeneration, SocketError(c, g)
      PROVE ResultsScheduled'
  <2>1. MarkDisconnected(c, g) /\ state' = state /\ processed' = processed
    BY <1>20 DEF SocketError, room
  <2>2. ops' = ops \/ (conn[c].valid /\ ops' = [ops EXCEPT ![conn[c].who] = now + Grace])
    BY <2>1 DEF MarkDisconnected, Return
  <2>3. ops' = ops \/ \E p \in Participant : ops' = [ops EXCEPT ![p] = now + Grace]
    BY <2>2 DEF SessionsOK
  <2> QED
    BY <2>1, <2>3, OpNames DEF ResultsScheduled, TypeOK, ScheduleOK, Times
<1>21. ASSUME NEW c \in Resume, NEW g \in 1 .. MaxGeneration, SocketClose(c, g)
      PROVE ResultsScheduled'
  <2>1. MarkDisconnected(c, g) /\ state' = state /\ processed' = processed
    BY <1>21 DEF SocketClose, room
  <2>2. ops' = ops \/ (conn[c].valid /\ ops' = [ops EXCEPT ![conn[c].who] = now + Grace])
    BY <2>1 DEF MarkDisconnected, Return
  <2>3. ops' = ops \/ \E p \in Participant : ops' = [ops EXCEPT ![p] = now + Grace]
    BY <2>2 DEF SessionsOK
  <2> QED
    BY <2>1, <2>3, OpNames DEF ResultsScheduled, TypeOK, ScheduleOK, Times
<1>22. ASSUME NEW t \in Task, UpsertServed(t) PROVE ResultsScheduled'
  <2>1. processed' = processed
    BY <1>22 DEF UpsertServed, vars
  <2>2. \A x \in Op \ {} : ops'[x] = ops[x]
    BY <1>22 DEF UpsertServed, projection, vars
  <2> QED
    BY <2>1, <2>2, OpNames DEF ResultsScheduled
<1>23. ASSUME NEW t \in Task, UpsertAnswered(t) PROVE ResultsScheduled'
  <2>1. processed' = processed
    BY <1>23 DEF UpsertAnswered, vars
  <2>2. \A x \in Op \ {"index"} : ops'[x] = ops[x]
    BY <1>23, DoneOps DEF UpsertAnswered
  <2> QED
    BY <2>1, <2>2, OpNames DEF ResultsScheduled
<1>24. ASSUME NEW t \in Task, UpsertFailed(t) PROVE ResultsScheduled'
  <2>1. processed' = processed
    BY <1>24 DEF UpsertFailed, vars
  <2>2. \A x \in Op \ {"index"} : ops'[x] = ops[x]
    BY <1>24, RetriedOps DEF UpsertFailed
  <2> QED
    BY <2>1, <2>2, OpNames DEF ResultsScheduled
<1>25. ASSUME NEW w \in late, LateWrite(w) PROVE ResultsScheduled'
  <2>1. processed' = processed
    BY <1>25 DEF LateWrite, vars
  <2>2. \A x \in Op \ {} : ops'[x] = ops[x]
    BY <1>25 DEF LateWrite, projection, vars
  <2> QED
    BY <2>1, <2>2, OpNames DEF ResultsScheduled
<1>26. CASE AlarmFires
  <2>1. processed' = processed
    BY <1>26 DEF AlarmFires, vars
  <2>2. \A x \in Op \ {} : ops'[x] = ops[x]
    BY <1>26 DEF AlarmFires, projection, vars
  <2> QED
    BY <2>1, <2>2, OpNames DEF ResultsScheduled
<1>27. CASE AlarmIndex
  <2>1. processed' = processed
    BY <1>27 DEF AlarmIndex, vars
  <2>2. \A x \in Op \ {} : ops'[x] = ops[x]
    BY <1>27 DEF AlarmIndex, projection, vars
  <2> QED
    BY <2>1, <2>2, OpNames DEF ResultsScheduled
<1>28. CASE AlarmUpsertServed
  <2>1. processed' = processed
    BY <1>28 DEF AlarmUpsertServed, vars
  <2>2. \A x \in Op \ {} : ops'[x] = ops[x]
    BY <1>28 DEF AlarmUpsertServed, projection, vars
  <2> QED
    BY <2>1, <2>2, OpNames DEF ResultsScheduled
<1>29. CASE AlarmUpsertAnswered
  <2>1. processed' = processed
    BY <1>29 DEF AlarmUpsertAnswered, vars
  <2>2. \A x \in Op \ {"index"} : ops'[x] = ops[x]
    BY <1>29, DoneOps DEF AlarmUpsertAnswered
  <2> QED
    BY <2>1, <2>2, OpNames DEF ResultsScheduled
<1>30. CASE AlarmUpsertFailed
  <2>1. processed' = processed
    BY <1>30 DEF AlarmUpsertFailed, vars
  <2>2. \A x \in Op \ {"index"} : ops'[x] = ops[x]
    BY <1>30, RetriedOps DEF AlarmUpsertFailed
  <2> QED
    BY <2>1, <2>2, OpNames DEF ResultsScheduled
<1>31. CASE AlarmRetention
  <2>1. CASE DeleteRoom
    BY <2>1 DEF DeleteRoom, ResultsScheduled
  <2>2. CASE processed' = processed /\ (ops' = ops \/ ops' = [ops EXCEPT !["retention"] = None])
    BY <2>2, OpNames DEF ResultsScheduled, TypeOK, ScheduleOK, Times
  <2> QED
    BY <1>31, <2>1, <2>2 DEF AlarmRetention, Continue
<1>32. CASE AlarmDeleteServed
  <2>1. processed' = processed
    BY <1>32 DEF AlarmDeleteServed, vars
  <2>2. \A x \in Op \ {} : ops'[x] = ops[x]
    BY <1>32 DEF AlarmDeleteServed, projection, vars
  <2> QED
    BY <2>1, <2>2, OpNames DEF ResultsScheduled
<1>33. CASE AlarmDeleteAnswered
  BY <1>33 DEF AlarmDeleteAnswered, DeleteRoom, ResultsScheduled
<1>34. CASE AlarmDeleteFailed
  <2>1. processed' = processed
    BY <1>34 DEF AlarmDeleteFailed, vars
  <2>2. \A x \in Op \ {"retention"} : ops'[x] = ops[x]
    BY <1>34 DEF AlarmDeleteFailed, TypeOK, ScheduleOK, Times
  <2> QED
    BY <2>1, <2>2, OpNames DEF ResultsScheduled
<1>35. ASSUME NEW p \in Participant, AlarmDisconnect(p) PROVE ResultsScheduled'
  <2>1. CASE ops' = AfterRemoval(ops, p) /\ processed' = processed
    <3>1. ops \in Times
      BY DEF TypeOK, ScheduleOK
    <3>2. "cleanup" \in Op \ {p, "retention"}
      BY OpNames
    <3>3. ops'["cleanup"] = ops["cleanup"]
      BY <2>1, <3>1, <3>2, RemovalOps
    <3> QED
      BY <2>1, <3>3 DEF ResultsScheduled
  <2>2. CASE processed' = processed /\ \E t : ops' = [ops EXCEPT ![p] = t]
    BY <2>2, OpNames DEF ResultsScheduled, TypeOK, ScheduleOK, Times
  <2> QED
    BY <1>35, <2>1, <2>2 DEF AlarmDisconnect, Continue
<1>36. CASE AlarmCleanup
  <2>1. processed' = Purged(run.at) /\ ops' = [ops EXCEPT !["cleanup"] = FirstExpiry]
    BY <1>36 DEF AlarmCleanup, FirstExpiry, Continue
  <2>2. Purged(run.at) \in [Request -> Time]
    BY DEF Purged, TypeOK, ScheduleOK, Time
  <2>3. ops'["cleanup"] = FirstExpiry
    BY <2>1, OpNames DEF TypeOK, ScheduleOK, Times
  <2> QED
    BY <2>1, <2>2, <2>3, FirstExpiryType DEF ResultsScheduled
<1>37. CASE AlarmMarker
  <2>1. processed' = processed
    BY <1>37 DEF AlarmMarker, vars
  <2>2. \A x \in Op \ {"marker"} : ops'[x] = ops[x]
    BY <1>37 DEF AlarmMarker, Continue, TypeOK, ScheduleOK, Times
  <2> QED
    BY <2>1, <2>2, OpNames DEF ResultsScheduled
<1>38. CASE AlarmEnds
  <2>1. processed' = processed
    BY <1>38 DEF AlarmEnds, vars
  <2>2. \A x \in Op \ {} : ops'[x] = ops[x]
    BY <1>38 DEF AlarmEnds, projection, vars
  <2> QED
    BY <2>1, <2>2, OpNames DEF ResultsScheduled
<1>39. CASE Restart
  <2>1. processed' = processed
    BY <1>39 DEF Restart, vars
  <2>2. \A x \in Op \ {} : ops'[x] = ops[x]
    BY <1>39 DEF Restart, projection, vars
  <2> QED
    BY <2>1, <2>2, OpNames DEF ResultsScheduled
<1>40. CASE Tick
  <2>1. processed' = processed
    BY <1>40 DEF Tick, vars
  <2>2. \A x \in Op \ {} : ops'[x] = ops[x]
    BY <1>40 DEF Tick, projection, vars
  <2> QED
    BY <2>1, <2>2, OpNames DEF ResultsScheduled
<1>41. CASE UNCHANGED vars
  <2>1. processed' = processed
    BY <1>41 DEF vars, vars
  <2>2. \A x \in Op \ {} : ops'[x] = ops[x]
    BY <1>41 DEF vars
  <2> QED
    BY <2>1, <2>2, OpNames DEF ResultsScheduled
<1> QED
  BY <1>1, <1>2, <1>3, <1>4, <1>5, <1>6, <1>7, <1>8, <1>9, <1>10, <1>11, <1>12, <1>13, <1>14,
       <1>15, <1>16, <1>17, <1>18, <1>19, <1>20, <1>21, <1>22, <1>23, <1>24, <1>25, <1>26, <1>27,
            <1>28, <1>29, <1>30, <1>31, <1>32, <1>33, <1>34, <1>35, <1>36, <1>37, <1>38, <1>39,
                 <1>40, <1>41 DEF Next, Lifecycle, WebSockets, D1, AlarmStep

-----------------------------------------------------------------------------
(* What the Room promises. *)

LEMMA InitInv == Init => Inv
<1> SUFFICES ASSUME Init PROVE Inv
  OBVIOUS
<1>1. NoDue \in Times /\ NoConnection \in Connections /\ events \in Seq(Nat)
  BY DEF Init, NoDue, NoConnection, Connections, Times, Time
<1>2. Idle \in [pc : {"idle", "loop", "upsert", "delete"}, due : Times,
                row : Rows \cup {None}, at : Nat, served : BOOLEAN]
  BY <1>1 DEF Idle
<1>3. ScheduleOK
  BY <1>1, <1>2 DEF Init, ScheduleOK, Time
<1>4. TypeOK
  BY <1>1, <1>3, RoomAssumption DEF Init, TypeOK, Time
<1>5. SessionsOK
  BY DEF Init, SessionsOK, NoConnection
<1>6. RunOK
  BY DEF Init, RunOK, Idle
<1>7. DutiesScheduled
  BY DEF Init, DutiesScheduled, Active
<1> QED
  BY <1>4, <1>5, <1>6, <1>7 DEF Inv

LEMMA InvStep == Inv /\ [Next]_vars => Inv'
<1> SUFFICES ASSUME Inv, [Next]_vars PROVE Inv'
  OBVIOUS
<1>1. TypeOK /\ SessionsOK /\ RunOK
  BY DEF Inv
<1>2. AbsenceScheduled /\ EndScheduled /\ ResultsScheduled
  BY DutyParts DEF Inv
<1>3. TypeOK' /\ SessionsOK' /\ RunOK'
  BY <1>1, TypeStep, SessionsStep, RunStep
<1>4. AbsenceScheduled' /\ EndScheduled' /\ ResultsScheduled'
  BY <1>1, <1>2, AbsenceStep, EndStep, ResultsStep
<1>5. DutiesScheduled'
  BY <1>4 DEF DutiesScheduled, AbsenceScheduled, EndScheduled, ResultsScheduled
<1> QED
  BY <1>3, <1>5 DEF Inv

\* The types of all variables; a session counts as lost once something happened
\* to its latest WebSocket; only a finished Room is being deleted.
THEOREM RoomInvariant == Spec => []Inv
  BY InitInv, InvStep, PTL DEF Spec

\* The deadline of whoever lost all connections, of a finished Room's retention
\* and of every stored result is in the table of scheduled operations.
THEOREM DutiesAreScheduled == Spec => []DutiesScheduled
<1>1. Inv => DutiesScheduled
  BY DEF Inv
<1> QED
  BY <1>1, RoomInvariant, PTL

\* Every handler of the Room is a step of the lobby, or changes nothing of it.
THEOREM ImplementsLobby == Spec => LobbyPromise
<1>1. Init => Promise!Init
  BY DEF Init, Promise!Init, Members
<1>2. Inv /\ [Next]_vars => [Promise!Next]_(Promise!lobby)
  BY LobbyStep DEF Inv
<1> QED
  BY <1>1, <1>2, RoomInvariant, PTL DEF Spec, LobbyPromise, Promise!Spec

LEMMA HostStep == HostPlays /\ [Promise!Next]_(Promise!lobby) => HostPlays'
<1> SUFFICES ASSUME HostPlays, [Promise!Next]_(Promise!lobby) PROVE HostPlays'
  OBVIOUS
<1> USE DEF HostPlays, Active, Custom, Players
<1>1. CASE Promise!Open
  BY <1>1 DEF Promise!Open
<1>2. CASE Promise!Arrive
  BY <1>2 DEF Promise!Arrive
<1>3. CASE Promise!Depart
  BY <1>3 DEF Promise!Depart, Promise!Candidates
<1>4. CASE Promise!HandOver
  BY <1>4 DEF Promise!HandOver, Promise!Candidates
<1>5. CASE Promise!Advance
  BY <1>5 DEF Promise!Advance
<1>6. CASE Promise!Finish \/ Promise!Delete
  BY <1>6 DEF Promise!Finish, Promise!Delete
<1>7. CASE UNCHANGED Promise!lobby
  BY <1>7 DEF Promise!lobby
<1> QED
  BY <1>1, <1>2, <1>3, <1>4, <1>5, <1>6, <1>7 DEF Promise!Next

\* The host of a custom Room that goes on is one of its players, after every leave,
\* hand-over, kick and expiry.
THEOREM HostIsPlayer == Spec => []HostPlays
<1>1. Init => HostPlays
  BY DEF Init, HostPlays, Active
<1>2. Inv /\ HostPlays /\ [Next]_vars => HostPlays'
  BY LobbyStep, HostStep DEF Inv
<1> QED
  BY <1>1, <1>2, RoomInvariant, PTL DEF Spec

LEMMA AttachedConnected ==
  ASSUME SessionsOK, NEW p, Attached(p)
  PROVE  Connected(p)
  BY DEF SessionsOK, Attached, Connected, ConnectionsOf

\* Neither the alarm nor a late resumption removes a participant with an open
\* WebSocket, even when events of its former one arrive late.
THEOREM ConnectedIsKept == Spec => ConnectedStays
<1> DEFINE Kept == \A p \in Members : Attached(p) => p \in Members'
<1>1. ASSUME Inv, Active, AlarmStep \/ \E c \in Resume : ResumeTooLate(c)
      PROVE  Kept
  <2> USE DEF Inv
  <2>1. ASSUME joinedAt' = joinedAt PROVE Kept
    BY <2>1 DEF Members
  <2>2. ASSUME NEW q \in Participant, Absent(q), Remove(q) PROVE Kept
    <3>1. Members' = Members \ {q}
      BY <1>1, <2>2, Gone DEF Remove
    <3>2. ~Attached(q)
      BY <1>1, <2>2, AttachedConnected DEF Absent
    <3> QED
      BY <3>1, <3>2
  <2> HIDE DEF Kept
  <2>3. ASSUME NEW c \in Resume, ResumeTooLate(c) PROVE Kept
    BY <2>1, <2>2, <2>3 DEF ResumeTooLate, Expired, Absent, Members, room
  <2>4. ASSUME NEW p \in Participant, AlarmDisconnect(p) PROVE Kept
    BY <2>1, <2>2, <2>4 DEF AlarmDisconnect, Expired, room
  <2>5. CASE AlarmRetention
    BY <1>1, <2>1, <2>5 DEF AlarmRetention, Active, room
  <2>6. CASE AlarmDeleteAnswered
    BY <1>1, <2>6 DEF AlarmDeleteAnswered, RunOK, Active
  <2>7. CASE \/ AlarmIndex \/ AlarmUpsertServed \/ AlarmUpsertAnswered \/ AlarmUpsertFailed
             \/ AlarmDeleteServed \/ AlarmDeleteFailed \/ AlarmCleanup \/ AlarmMarker \/ AlarmEnds
    BY <2>1, <2>7 DEF AlarmIndex, AlarmUpsertServed, AlarmUpsertAnswered, AlarmUpsertFailed,
         AlarmDeleteServed, AlarmDeleteFailed, AlarmCleanup, AlarmMarker, AlarmEnds, room
  <2> QED
    BY <1>1, <2>3, <2>4, <2>5, <2>6, <2>7 DEF AlarmStep
<1>2. Inv /\ [Next]_vars =>
        [(AlarmStep \/ \E c \in Resume : ResumeTooLate(c)) /\ Active
           => \A p \in Members : Attached(p) => p \in Members']_vars
  BY <1>1
<1> QED
  BY <1>2, RoomInvariant, PTL DEF Spec, ConnectedStays

LEMMA UpsertedNewer ==
  ASSUME TypeOK, NEW row \in Rows \cup {None}, listed # None, Upserted(row) # None
  PROVE  Upserted(row).revision >= listed.revision
  BY DEF Upserted, TypeOK, ScheduleOK, Rows

LEMMA ListedMoves ==
  ASSUME TypeOK, [Next]_vars
  PROVE  listed' \in {listed, None} \/ \E row \in Rows \cup {None} : listed' = Upserted(row)
<1> DEFINE ListMoved == listed' \in {listed,
     None} \/ \E row \in Rows \cup {None} : listed' = Upserted(row)
<1>1. CASE Initialize
  BY <1>1 DEF Initialize, projection, Return, Conclude, SyncIndex, Continue, MarkDisconnected,
       DeleteRoom, vars
<1>2. CASE InitializeAgain
  BY <1>2 DEF InitializeAgain, projection, Return, Conclude, SyncIndex, Continue,
       MarkDisconnected, DeleteRoom, vars
<1>3. ASSUME NEW p \in Participant, Join(p) PROVE ListMoved
  BY <1>3 DEF Join, projection, Return, Conclude, SyncIndex, Continue, MarkDisconnected,
       DeleteRoom, vars
<1>4. ASSUME NEW p \in Participant, DisconnectCall(p) PROVE ListMoved
  BY <1>4 DEF DisconnectCall, projection, Return, Conclude, SyncIndex, Continue,
       MarkDisconnected, DeleteRoom, vars
<1>5. ASSUME NEW p \in Participant, NEW r \in Request \cup {None}, Leave(p, r) PROVE ListMoved
  BY <1>5 DEF Leave, projection, Return, Conclude, SyncIndex, Continue, MarkDisconnected,
       DeleteRoom, vars
<1>6. ASSUME NEW p \in Participant, NEW r \in Request \cup {None}, SelectTeam(p, r) PROVE ListMoved
  BY <1>6 DEF SelectTeam, projection, Return, Conclude, SyncIndex, Continue, MarkDisconnected,
       DeleteRoom, vars
<1>7. ASSUME NEW p \in Participant, NEW r \in Request \cup {None}, TransferHost(p, r)
      PROVE ListMoved
  BY <1>7 DEF TransferHost, projection, Return, Conclude, SyncIndex, Continue, MarkDisconnected,
       DeleteRoom, vars
<1>8. ASSUME NEW p \in Participant, NEW r \in Request \cup {None}, Kick(p, r) PROVE ListMoved
  BY <1>8 DEF Kick, projection, Return, Conclude, SyncIndex, Continue, MarkDisconnected,
       DeleteRoom, vars
<1>9. ASSUME NEW p \in Participant, NEW value \in BOOLEAN, NEW r \in Request \cup {None},
     SetReady(p, value, r) PROVE ListMoved
  BY <1>9 DEF SetReady, projection, Return, Conclude, SyncIndex, Continue, MarkDisconnected,
       DeleteRoom, vars
<1>10. ASSUME NEW r \in Request \cup {None}, UpdateSettings(r) PROVE ListMoved
  BY <1>10 DEF UpdateSettings, projection, Return, Conclude, SyncIndex, Continue,
       MarkDisconnected, DeleteRoom, vars
<1>11. ASSUME NEW r \in Request \cup {None}, StartMatch(r) PROVE ListMoved
  BY <1>11 DEF StartMatch, projection, Return, Conclude, SyncIndex, Continue, MarkDisconnected,
       DeleteRoom, vars
<1>12. ASSUME NEW at \in 0 .. MaxTime, NEW r \in Request \cup {None}, Close(at, r) PROVE ListMoved
  BY <1>12 DEF Close, projection, Return, Conclude, SyncIndex, Continue, MarkDisconnected,
       DeleteRoom, vars
<1>13. ASSUME NEW next \in {"preparing", "in_progress", "finished"}, Transition(next)
      PROVE ListMoved
  BY <1>13 DEF Transition, projection, Return, Conclude, SyncIndex, Continue, MarkDisconnected,
       DeleteRoom, vars
<1>14. ASSUME NEW at \in 0 .. MaxTime, ScheduleOperation(at) PROVE ListMoved
  BY <1>14 DEF ScheduleOperation, projection, Return, Conclude, SyncIndex, Continue,
       MarkDisconnected, DeleteRoom, vars
<1>15. CASE CancelScheduledOperation
  BY <1>15 DEF CancelScheduledOperation, projection, Return, Conclude, SyncIndex, Continue,
       MarkDisconnected, DeleteRoom, vars
<1>16. ASSUME NEW p \in Participant, NEW r \in Request, GameMessage(p, r) PROVE ListMoved
  BY <1>16 DEF GameMessage, projection, Return, Conclude, SyncIndex, Continue, MarkDisconnected,
       DeleteRoom, vars
<1>17. ASSUME NEW c \in Resume, NEW p \in Participant, Connect(c, p) PROVE ListMoved
  BY <1>17 DEF Connect, projection, Return, Conclude, SyncIndex, Continue, MarkDisconnected,
       DeleteRoom, vars
<1>18. ASSUME NEW c \in Resume, ResumeSession(c) PROVE ListMoved
  BY <1>18 DEF ResumeSession, projection, Return, Conclude, SyncIndex, Continue,
       MarkDisconnected, DeleteRoom, vars
<1>19. ASSUME NEW c \in Resume, ResumeTooLate(c) PROVE ListMoved
  BY <1>19 DEF ResumeTooLate, projection, Return, Conclude, SyncIndex, Continue,
       MarkDisconnected, DeleteRoom, vars
<1>20. ASSUME NEW c \in Resume, NEW g \in 1 .. MaxGeneration, SocketError(c, g) PROVE ListMoved
  BY <1>20 DEF SocketError, projection, Return, Conclude, SyncIndex, Continue, MarkDisconnected,
       DeleteRoom, vars
<1>21. ASSUME NEW c \in Resume, NEW g \in 1 .. MaxGeneration, SocketClose(c, g) PROVE ListMoved
  BY <1>21 DEF SocketClose, projection, Return, Conclude, SyncIndex, Continue, MarkDisconnected,
       DeleteRoom, vars
<1>22. ASSUME NEW t \in Task, UpsertServed(t) PROVE ListMoved
  <2>1. task[t].row \in Rows
    BY <1>22 DEF UpsertServed, TypeOK, ScheduleOK
  <2> QED
    BY <1>22, <2>1 DEF UpsertServed
<1>23. ASSUME NEW t \in Task, UpsertAnswered(t) PROVE ListMoved
  BY <1>23 DEF UpsertAnswered, projection, Return, Conclude, SyncIndex, Continue,
       MarkDisconnected, DeleteRoom, vars
<1>24. ASSUME NEW t \in Task, UpsertFailed(t) PROVE ListMoved
  BY <1>24 DEF UpsertFailed, projection, Return, Conclude, SyncIndex, Continue, MarkDisconnected,
       DeleteRoom, vars
<1>25. ASSUME NEW w \in late, LateWrite(w) PROVE ListMoved
  BY <1>25 DEF LateWrite, TypeOK, ScheduleOK
<1>26. CASE AlarmFires
  BY <1>26 DEF AlarmFires, projection, Return, Conclude, SyncIndex, Continue, MarkDisconnected,
       DeleteRoom, vars
<1>27. CASE AlarmIndex
  BY <1>27 DEF AlarmIndex, projection, Return, Conclude, SyncIndex, Continue, MarkDisconnected,
       DeleteRoom, vars
<1>28. CASE AlarmUpsertServed
  BY <1>28 DEF AlarmUpsertServed, TypeOK, ScheduleOK
<1>29. CASE AlarmUpsertAnswered
  BY <1>29 DEF AlarmUpsertAnswered, projection, Return, Conclude, SyncIndex, Continue,
       MarkDisconnected, DeleteRoom, vars
<1>30. CASE AlarmUpsertFailed
  BY <1>30 DEF AlarmUpsertFailed, projection, Return, Conclude, SyncIndex, Continue,
       MarkDisconnected, DeleteRoom, vars
<1>31. CASE AlarmRetention
  BY <1>31 DEF AlarmRetention, projection, Return, Conclude, SyncIndex, Continue,
       MarkDisconnected, DeleteRoom, vars
<1>32. CASE AlarmDeleteServed
  BY <1>32 DEF AlarmDeleteServed, projection, Return, Conclude, SyncIndex, Continue,
       MarkDisconnected, DeleteRoom, vars
<1>33. CASE AlarmDeleteAnswered
  BY <1>33 DEF AlarmDeleteAnswered, projection, Return, Conclude, SyncIndex, Continue,
       MarkDisconnected, DeleteRoom, vars
<1>34. CASE AlarmDeleteFailed
  BY <1>34 DEF AlarmDeleteFailed, projection, Return, Conclude, SyncIndex, Continue,
       MarkDisconnected, DeleteRoom, vars
<1>35. ASSUME NEW p \in Participant, AlarmDisconnect(p) PROVE ListMoved
  BY <1>35 DEF AlarmDisconnect, projection, Return, Conclude, SyncIndex, Continue,
       MarkDisconnected, DeleteRoom, vars
<1>36. CASE AlarmCleanup
  BY <1>36 DEF AlarmCleanup, projection, Return, Conclude, SyncIndex, Continue, MarkDisconnected,
       DeleteRoom, vars
<1>37. CASE AlarmMarker
  BY <1>37 DEF AlarmMarker, projection, Return, Conclude, SyncIndex, Continue, MarkDisconnected,
       DeleteRoom, vars
<1>38. CASE AlarmEnds
  BY <1>38 DEF AlarmEnds, projection, Return, Conclude, SyncIndex, Continue, MarkDisconnected,
       DeleteRoom, vars
<1>39. CASE Restart
  BY <1>39 DEF Restart, projection, Return, Conclude, SyncIndex, Continue, MarkDisconnected,
       DeleteRoom, vars
<1>40. CASE Tick
  BY <1>40 DEF Tick, projection, Return, Conclude, SyncIndex, Continue, MarkDisconnected,
       DeleteRoom, vars
<1>41. CASE UNCHANGED vars
  BY <1>41 DEF vars, projection, Return, Conclude, SyncIndex, Continue, MarkDisconnected,
       DeleteRoom, vars
<1> QED
  BY <1>1, <1>2, <1>3, <1>4, <1>5, <1>6, <1>7, <1>8, <1>9, <1>10, <1>11, <1>12, <1>13, <1>14,
       <1>15, <1>16, <1>17, <1>18, <1>19, <1>20, <1>21, <1>22, <1>23, <1>24, <1>25, <1>26, <1>27,
            <1>28, <1>29, <1>30, <1>31, <1>32, <1>33, <1>34, <1>35, <1>36, <1>37, <1>38, <1>39,
                 <1>40, <1>41 DEF Next, Lifecycle, WebSockets, D1, AlarmStep

\* Whichever order D1 executes upserts, retries and late writes in, the listed row
\* is only replaced by one of the same or a later revision.
THEOREM ListMovesOn == Spec => ListNeverBack
<1>1. Inv /\ [Next]_vars =>
        [listed # None /\ listed' # None => listed'.revision >= listed.revision]_vars
  <2> SUFFICES ASSUME Inv, [Next]_vars, listed # None, listed' # None
               PROVE  listed'.revision >= listed.revision
    OBVIOUS
  <2>1. TypeOK
    BY DEF Inv
  <2>2. listed.revision >= listed.revision
    BY <2>1 DEF TypeOK, ScheduleOK, Rows
  <2> QED
    BY <2>1, <2>2, ListedMoves, UpsertedNewer
<1> QED
  BY <1>1, RoomInvariant, PTL DEF Spec, ListNeverBack

\* es holds the last events up to the revision r.
Retained(es, r) ==
  /\ Len(es) <= HistoryLimit
  /\ \A i \in 1..Len(es) : es[i] + Len(es) = r + i
  /\ Len(es) < HistoryLimit => Len(es) = r

LEMMA RecordedTail ==
  ASSUME NEW es \in Seq(Nat), NEW r \in Nat, Retained(es, r)
  PROVE  Retained(Recorded(es, r + 1), r + 1)
<1> DEFINE all == Append(es, r + 1)
           n == Len(all)
<1>1. all \in Seq(Nat) /\ n = Len(es) + 1 /\ Len(es) \in Nat
  OBVIOUS
<1>2. ASSUME NEW i \in 1..n PROVE all[i] + n = r + 1 + i
  <2>1. CASE i = n
    BY <1>1, <2>1
  <2>2. CASE i # n
    <3>1. i \in 1..Len(es) /\ all[i] = es[i]
      BY <1>1, <2>2
    <3>2. es[i] + Len(es) = r + i /\ es[i] \in Nat
      BY <3>1 DEF Retained
    <3>3. all[i] + n = es[i] + Len(es) + 1
      <4>1. n = Len(es) + 1 /\ Len(es) \in Nat
        BY <1>1
      <4> HIDE DEF n
      <4> QED
        BY <3>1, <3>2, <4>1
    <3> HIDE DEF all, n
    <3> QED
      BY <1>1, <3>2, <3>3
  <2> QED
    BY <2>1, <2>2
<1>3. CASE n > HistoryLimit
  <2> DEFINE m == n - HistoryLimit + 1
             kept == SubSeq(all, m, n)
  <2>1. Len(es) = HistoryLimit /\ HistoryLimit \in Nat \ {0}
    BY <1>1, <1>3, RoomAssumption DEF Retained
  <2>2. m = 2 /\ n = HistoryLimit + 1
    BY <1>1, <2>1
  <2>3. Recorded(es, r + 1) = kept
    BY <1>3 DEF Recorded
  <2>4. Len(kept) = HistoryLimit /\ \A i \in 1..HistoryLimit : kept[i] = all[i + 1]
    BY <1>1, <2>1, <2>2
  <2> HIDE DEF kept
  <2>5. ASSUME NEW i \in 1..HistoryLimit PROVE kept[i] + HistoryLimit = r + 1 + i
    <3>1. i + 1 \in 1..n /\ all[i + 1] \in Nat
      BY <1>1, <2>1, <2>2
    <3>2. all[i + 1] + n = r + 1 + (i + 1)
      BY <1>2, <3>1
    <3>3. kept[i] = all[i + 1]
      BY <2>4
    <3> HIDE DEF all
    <3>4. n = HistoryLimit + 1 /\ n \in Nat
      BY <2>1, <2>2
    <3> QED
      BY <2>1, <3>1, <3>2, <3>3, <3>4
  <2> QED
    BY <2>1, <2>3, <2>4, <2>5 DEF Retained
<1>4. CASE ~(n > HistoryLimit)
  <2>1. Recorded(es, r + 1) = all
    BY <1>4 DEF Recorded
  <2>2. n <= HistoryLimit /\ (n < HistoryLimit => n = r + 1)
    BY <1>1, <1>4, RoomAssumption, SMTT(30) DEF Retained
  <2>3. n = r + 1 \/ n = HistoryLimit
    BY <1>1, <2>2, RoomAssumption, SMTT(30)
  <2> HIDE DEF all
  <2> QED
    BY <1>2, <2>1, <2>2 DEF Retained
<1> QED
  BY <1>3, <1>4

LEMMA HistoryKept == HistoryIsTail /\ UNCHANGED <<revision, events>> => HistoryIsTail'
  BY DEF HistoryIsTail

LEMMA HistoryPublished == TypeOK /\ HistoryIsTail /\ Publish => HistoryIsTail'
<1> SUFFICES ASSUME TypeOK, HistoryIsTail, Publish PROVE HistoryIsTail'
  OBVIOUS
<1>1. Retained(events, revision) /\ events \in Seq(Nat) /\ revision \in Nat
  BY DEF HistoryIsTail, Retained, TypeOK
<1> QED
  BY <1>1, RecordedTail DEF Publish, HistoryIsTail, Retained

LEMMA HistoryStep == TypeOK /\ HistoryIsTail /\ [Next]_vars => HistoryIsTail'
<1> SUFFICES ASSUME TypeOK, HistoryIsTail, [Next]_vars PROVE HistoryIsTail'
  OBVIOUS
<1>1. CASE Initialize
  BY <1>1, HistoryKept DEF Initialize
<1>2. CASE InitializeAgain
  BY <1>2, HistoryKept DEF InitializeAgain, room
<1>3. ASSUME NEW p \in Participant, Join(p) PROVE HistoryIsTail'
  BY <1>3, HistoryPublished DEF Join
<1>4. ASSUME NEW p \in Participant, DisconnectCall(p) PROVE HistoryIsTail'
  BY <1>4, HistoryKept DEF DisconnectCall, room
<1>5. ASSUME NEW p \in Participant, NEW r \in Request \cup {None}, Leave(p, r) PROVE HistoryIsTail'
  BY <1>5, HistoryPublished DEF Leave, Remove
<1>6. ASSUME NEW p \in Participant, NEW r \in Request \cup {None}, SelectTeam(p, r)
      PROVE HistoryIsTail'
  BY <1>6, HistoryPublished DEF SelectTeam
<1>7. ASSUME NEW p \in Participant, NEW r \in Request \cup {None}, TransferHost(p, r)
      PROVE HistoryIsTail'
  BY <1>7, HistoryPublished DEF TransferHost
<1>8. ASSUME NEW p \in Participant, NEW r \in Request \cup {None}, Kick(p, r) PROVE HistoryIsTail'
  BY <1>8, HistoryPublished DEF Kick
<1>9. ASSUME NEW p \in Participant, NEW value \in BOOLEAN, NEW r \in Request \cup {None},
     SetReady(p, value, r) PROVE HistoryIsTail'
  BY <1>9, HistoryPublished DEF SetReady
<1>10. ASSUME NEW r \in Request \cup {None}, UpdateSettings(r) PROVE HistoryIsTail'
  BY <1>10, HistoryPublished DEF UpdateSettings
<1>11. ASSUME NEW r \in Request \cup {None}, StartMatch(r) PROVE HistoryIsTail'
  <2>1. Retained(events, revision) /\ events \in Seq(Nat) /\ revision \in Nat
    BY DEF HistoryIsTail, Retained, TypeOK
  <2>2. Retained(Recorded(events, revision + 1), revision + 1)
    BY <2>1, RecordedTail
  <2>3. Recorded(events, revision + 1) \in Seq(Nat) /\ revision + 1 \in Nat
    BY <2>1, RecordedType
  <2>4. revision' = revision + 1 + 1 /\ events' = Recorded(Recorded(events, revision + 1),
       revision + 1 + 1)
    BY <1>11, <2>1 DEF StartMatch
  <2>5. Retained(events', revision')
    BY <2>2, <2>3, <2>4, RecordedTail
  <2> QED
    BY <2>5 DEF HistoryIsTail, Retained
<1>12. ASSUME NEW at \in 0 .. MaxTime, NEW r \in Request \cup {None}, Close(at, r)
      PROVE HistoryIsTail'
  BY <1>12, HistoryPublished DEF Close
<1>13. ASSUME NEW next \in {"preparing", "in_progress", "finished"}, Transition(next)
      PROVE HistoryIsTail'
  BY <1>13, HistoryPublished DEF Transition
<1>14. ASSUME NEW at \in 0 .. MaxTime, ScheduleOperation(at) PROVE HistoryIsTail'
  BY <1>14, HistoryKept DEF ScheduleOperation, room
<1>15. CASE CancelScheduledOperation
  BY <1>15, HistoryKept DEF CancelScheduledOperation, room
<1>16. ASSUME NEW p \in Participant, NEW r \in Request, GameMessage(p, r) PROVE HistoryIsTail'
  BY <1>16, HistoryKept DEF GameMessage, room
<1>17. ASSUME NEW c \in Resume, NEW p \in Participant, Connect(c, p) PROVE HistoryIsTail'
  BY <1>17, HistoryKept DEF Connect, room
<1>18. ASSUME NEW c \in Resume, ResumeSession(c) PROVE HistoryIsTail'
  BY <1>18, HistoryKept DEF ResumeSession, room
<1>19. ASSUME NEW c \in Resume, ResumeTooLate(c) PROVE HistoryIsTail'
  BY <1>19, HistoryPublished, HistoryKept DEF ResumeTooLate, Remove, room
<1>20. ASSUME NEW c \in Resume, NEW g \in 1 .. MaxGeneration, SocketError(c, g) PROVE HistoryIsTail'
  BY <1>20, HistoryKept DEF SocketError, room
<1>21. ASSUME NEW c \in Resume, NEW g \in 1 .. MaxGeneration, SocketClose(c, g) PROVE HistoryIsTail'
  BY <1>21, HistoryKept DEF SocketClose, room
<1>22. ASSUME NEW t \in Task, UpsertServed(t) PROVE HistoryIsTail'
  BY <1>22, HistoryKept DEF UpsertServed, room
<1>23. ASSUME NEW t \in Task, UpsertAnswered(t) PROVE HistoryIsTail'
  BY <1>23, HistoryKept DEF UpsertAnswered, room
<1>24. ASSUME NEW t \in Task, UpsertFailed(t) PROVE HistoryIsTail'
  BY <1>24, HistoryKept DEF UpsertFailed, room
<1>25. ASSUME NEW w \in late, LateWrite(w) PROVE HistoryIsTail'
  BY <1>25, HistoryKept DEF LateWrite, room
<1>26. CASE AlarmFires
  BY <1>26, HistoryKept DEF AlarmFires, room
<1>27. CASE AlarmIndex
  BY <1>27, HistoryKept DEF AlarmIndex, room
<1>28. CASE AlarmUpsertServed
  BY <1>28, HistoryKept DEF AlarmUpsertServed, room
<1>29. CASE AlarmUpsertAnswered
  BY <1>29, HistoryKept DEF AlarmUpsertAnswered, room
<1>30. CASE AlarmUpsertFailed
  BY <1>30, HistoryKept DEF AlarmUpsertFailed, room
<1>31. CASE AlarmRetention
  <2>1. CASE DeleteRoom
    BY <2>1, RoomAssumption DEF DeleteRoom, HistoryIsTail
  <2>2. CASE UNCHANGED room
    BY <2>2, HistoryKept DEF room
  <2> QED
    BY <1>31, <2>1, <2>2 DEF AlarmRetention
<1>32. CASE AlarmDeleteServed
  BY <1>32, HistoryKept DEF AlarmDeleteServed, room
<1>33. CASE AlarmDeleteAnswered
  BY <1>33, RoomAssumption DEF AlarmDeleteAnswered, DeleteRoom, HistoryIsTail
<1>34. CASE AlarmDeleteFailed
  BY <1>34, HistoryKept DEF AlarmDeleteFailed, room
<1>35. ASSUME NEW p \in Participant, AlarmDisconnect(p) PROVE HistoryIsTail'
  BY <1>35, HistoryPublished, HistoryKept DEF AlarmDisconnect, Remove, room
<1>36. CASE AlarmCleanup
  BY <1>36, HistoryKept DEF AlarmCleanup, room
<1>37. CASE AlarmMarker
  BY <1>37, HistoryKept DEF AlarmMarker, room
<1>38. CASE AlarmEnds
  BY <1>38, HistoryKept DEF AlarmEnds, room
<1>39. CASE Restart
  BY <1>39, HistoryKept DEF Restart, room
<1>40. CASE Tick
  BY <1>40, HistoryKept DEF Tick, room
<1>41. CASE UNCHANGED vars
  BY <1>41, HistoryKept DEF vars, room
<1> QED
  BY <1>1, <1>2, <1>3, <1>4, <1>5, <1>6, <1>7, <1>8, <1>9, <1>10, <1>11, <1>12, <1>13, <1>14,
       <1>15, <1>16, <1>17, <1>18, <1>19, <1>20, <1>21,
     <1>22, <1>23, <1>24, <1>25, <1>26, <1>27, <1>28, <1>29, <1>30, <1>31, <1>32, <1>33, <1>34,
          <1>35, <1>36, <1>37, <1>38, <1>39, <1>40, <1>41
     DEF Next, Lifecycle, WebSockets, D1, AlarmStep

\* The retained events are the latest revisions, without a gap or a repetition: what
\* is after a revision a client has seen is all there, or known to be incomplete.
THEOREM HistoryIsContiguous == Spec => []HistoryIsTail
<1>1. Init => HistoryIsTail
  BY RoomAssumption DEF Init, HistoryIsTail
<1>2. Inv /\ HistoryIsTail /\ [Next]_vars => HistoryIsTail'
  BY HistoryStep DEF Inv
<1> QED
  BY <1>1, <1>2, RoomInvariant, PTL DEF Spec

\* No row is NULL.
NoneIsNoTask ==
  \A row, due, served : [due |-> due, row |-> row, served |-> served] # None

\* alarm is not later than any of the operations o.
Covered(o, a) == \A x \in Op : o[x] # None => a # None /\ a <= o[x]

LEMMA NextDueCovers ==
  ASSUME NEW o \in Times
  PROVE  Covered(o, NextDue(o))
  BY NextDueFirst DEF Covered

LEMMA FewerCovered ==
  ASSUME TypeOK, Covered(ops, alarm), NEW o, NEW a, a = alarm,
         \A x \in Op : o[x] \in {None, ops[x]}
  PROVE  Covered(o, a)
  BY DEF Covered

LEMMA ReturnCovers ==
  ASSUME TypeOK, AlarmCovers, NEW o \in Times, NEW armed \in BOOLEAN, Return(o, armed),
         ~armed => \A x \in Op : o[x] \in {None, ops[x]}
  PROVE  AlarmCovers'
<1>1. CASE armed
  BY <1>1, NextDueCovers DEF Return, AlarmCovers, Covered
<1>2. CASE ~armed
  <2>1. alarm' = alarm /\ ops' = o /\ UNCHANGED <<run, task>>
    BY <1>2 DEF Return, projection
  <2> QED
    BY <1>2, <2>1 DEF AlarmCovers, Quiet
<1> QED
  BY <1>1, <1>2

LEMMA ConcludeCovers ==
  ASSUME NoneIsNoTask, TypeOK, AlarmCovers, NEW o \in Times, NEW armed \in BOOLEAN,
       NEW arms \in BOOLEAN,
         Conclude(o, armed, arms),
         ~armed /\ ~arms => \A x \in Op : o[x] \in {None, ops[x]}
  PROVE  AlarmCovers'
<1>1. CASE Public
  <2>1. PICK t \in Task : task' = [task EXCEPT ![t] = [due |-> now, row |-> Row', served |-> FALSE]]
    BY <1>1 DEF Conclude, SyncIndex
  <2>2. task'[t] # None
    <3>1. task'[t] = [due |-> now, row |-> Row', served |-> FALSE]
      BY <2>1 DEF TypeOK, ScheduleOK
    <3> QED
      BY <3>1 DEF NoneIsNoTask
  <2> QED
    BY <2>2 DEF AlarmCovers, Quiet
<1>2. CASE ~Public
  <2>1. ops' = o /\ alarm' = (IF armed \/ arms THEN NextDue(o) ELSE alarm) /\ UNCHANGED <<run,
       task>>
    BY <1>2 DEF Conclude, projection
  <2>2. CASE armed \/ arms
    BY <2>1, <2>2, NextDueCovers DEF AlarmCovers, Covered
  <2>3. CASE ~(armed \/ arms)
    BY <2>1, <2>3 DEF AlarmCovers, Quiet
  <2> QED
    BY <2>2, <2>3
<1> QED
  BY <1>1, <1>2

LEMMA CoversStep ==
  ASSUME NoneIsNoTask, "restart" \notin Faults, TypeOK, SessionsOK, AlarmCovers, [Next]_vars
  PROVE  AlarmCovers'
<1>1. CASE Initialize
  <2>1. ops \in Times
    BY DEF TypeOK, ScheduleOK
  <2>2. Conclude(ops, FALSE, FALSE)
    BY <1>1 DEF Initialize
  <2> QED
    BY <2>1, <2>2, ConcludeCovers
<1>2. CASE InitializeAgain
  <2>1. ops \in Times
    BY DEF TypeOK, ScheduleOK
  <2>2. Conclude(ops, FALSE, FALSE)
    BY <1>2 DEF InitializeAgain
  <2> QED
    BY <2>1, <2>2, ConcludeCovers
<1>3. ASSUME NEW p \in Participant, Join(p) PROVE AlarmCovers'
  <2>1. ops \in Times
    BY DEF TypeOK, ScheduleOK
  <2>2. Conclude(ops, FALSE, FALSE)
    BY <1>3 DEF Join
  <2> QED
    BY <2>1, <2>2, ConcludeCovers
<1>4. ASSUME NEW p \in Participant, DisconnectCall(p) PROVE AlarmCovers'
  <2>1. [ops EXCEPT ![p] = now + Grace] \in Times
    BY GraceType, SetOpType, OpNames
  <2>2. Return([ops EXCEPT ![p] = now + Grace], TRUE)
    BY <1>4 DEF DisconnectCall
  <2> QED
    BY <2>1, <2>2, ReturnCovers
<1>5. ASSUME NEW p \in Participant, NEW r \in Request \cup {None}, Leave(p, r) PROVE AlarmCovers'
  <2> DEFINE o == AfterRemoval(ops, p)
  <2>1. o \in Times /\ (~EndsRoom(p) => \A x \in Op : o[x] \in {None, ops[x]})
    <3>1. o \in Times
      BY AfterRemovalType DEF TypeOK, ScheduleOK
    <3>2. ~EndsRoom(p) => \A x \in Op : o[x] \in {None, ops[x]}
      BY DEF AfterRemoval, TypeOK, ScheduleOK, Times
    <3> QED
      BY <3>1, <3>2
  <2>2. Conclude(WithCleanup(o, r), r # None, EndsRoom(p))
    BY <1>5 DEF Leave
  <2>3. EndsRoom(p) \in BOOLEAN
    BY DEF EndsRoom
  <2> HIDE DEF o
  <2>4. WithCleanup(o, r) \in Times
    BY <2>1, CleanupType
  <2>5. r = None => WithCleanup(o, r) = o
    BY DEF WithCleanup
  <2> QED
    BY <2>1, <2>2, <2>3, <2>4, <2>5, ConcludeCovers
<1>6. ASSUME NEW p \in Participant, NEW r \in Request \cup {None}, SelectTeam(p, r)
      PROVE AlarmCovers'
  <2>1. WithCleanup(ops, r) \in Times
    BY CleanupType DEF TypeOK, ScheduleOK
  <2>2. Return(WithCleanup(ops, r), r # None)
    BY <1>6 DEF SelectTeam
  <2>3. r = None => WithCleanup(ops, r) = ops
    BY DEF WithCleanup
  <2> QED
    BY <2>1, <2>2, <2>3, ReturnCovers
<1>7. ASSUME NEW p \in Participant, NEW r \in Request \cup {None}, TransferHost(p, r)
      PROVE AlarmCovers'
  <2>1. WithCleanup(ops, r) \in Times
    BY CleanupType DEF TypeOK, ScheduleOK
  <2>2. Return(WithCleanup(ops, r), r # None)
    BY <1>7 DEF TransferHost
  <2>3. r = None => WithCleanup(ops, r) = ops
    BY DEF WithCleanup
  <2> QED
    BY <2>1, <2>2, <2>3, ReturnCovers
<1>8. ASSUME NEW p \in Participant, NEW r \in Request \cup {None}, Kick(p, r) PROVE AlarmCovers'
  <2> DEFINE o == [ops EXCEPT ![p] = None]
  <2>1. o \in Times /\ \A x \in Op : o[x] \in {None, ops[x]}
    BY DEF TypeOK, ScheduleOK, Times, Time
  <2>2. Conclude(WithCleanup(o, r), r # None, FALSE)
    BY <1>8 DEF Kick
  <2> HIDE DEF o
  <2>3. WithCleanup(o, r) \in Times
    BY <2>1, CleanupType
  <2>4. r = None => WithCleanup(o, r) = o
    BY DEF WithCleanup
  <2> QED
    BY <2>1, <2>2, <2>3, <2>4, ConcludeCovers
<1>9. ASSUME NEW p \in Participant, NEW value \in BOOLEAN, NEW r \in Request \cup {None},
     SetReady(p, value, r) PROVE AlarmCovers'
  <2>1. WithCleanup(ops, r) \in Times
    BY CleanupType DEF TypeOK, ScheduleOK
  <2>2. Return(WithCleanup(ops, r), r # None)
    BY <1>9 DEF SetReady
  <2>3. r = None => WithCleanup(ops, r) = ops
    BY DEF WithCleanup
  <2> QED
    BY <2>1, <2>2, <2>3, ReturnCovers
<1>10. ASSUME NEW r \in Request \cup {None}, UpdateSettings(r) PROVE AlarmCovers'
  <2>1. WithCleanup(ops, r) \in Times
    BY CleanupType DEF TypeOK, ScheduleOK
  <2>2. Conclude(WithCleanup(ops, r), r # None, FALSE)
    BY <1>10 DEF UpdateSettings
  <2>3. r = None => WithCleanup(ops, r) = ops
    BY DEF WithCleanup
  <2> QED
    BY <2>1, <2>2, <2>3, ConcludeCovers
<1>11. ASSUME NEW r \in Request \cup {None}, StartMatch(r) PROVE AlarmCovers'
  <2>1. WithCleanup(ops, r) \in Times
    BY CleanupType DEF TypeOK, ScheduleOK
  <2>2. Conclude(WithCleanup(ops, r), r # None, FALSE)
    BY <1>11 DEF StartMatch
  <2>3. r = None => WithCleanup(ops, r) = ops
    BY DEF WithCleanup
  <2> QED
    BY <2>1, <2>2, <2>3, ConcludeCovers
<1>12. ASSUME NEW at \in 0 .. MaxTime, NEW r \in Request \cup {None}, Close(at, r)
      PROVE AlarmCovers'
  <2>1. WithCleanup(WithRetention(ops, at), r) \in Times
    <3>1. at \in Nat
      BY RoomAssumption
    <3> QED
      BY <3>1, RetentionType, CleanupType DEF TypeOK, ScheduleOK
  <2>2. Conclude(WithCleanup(WithRetention(ops, at), r), r # None, TRUE)
    BY <1>12 DEF Close
  <2> QED
    BY <2>1, <2>2, ConcludeCovers
<1>13. ASSUME NEW next \in {"preparing", "in_progress", "finished"}, Transition(next)
      PROVE AlarmCovers'
  <2>1. ops \in Times /\ WithRetention(ops, now) \in Times
    BY RetentionType DEF TypeOK, ScheduleOK
  <2>2. \E o \in {ops, WithRetention(ops, now)} : Conclude(o, TRUE, FALSE)
    BY <1>13 DEF Transition
  <2> QED
    BY <2>1, <2>2, ConcludeCovers
<1>14. ASSUME NEW at \in 0 .. MaxTime, ScheduleOperation(at) PROVE AlarmCovers'
  <2>1. [ops EXCEPT !["marker"] = at] \in Times
    BY RoomAssumption, SetOpType, OpNames DEF Time
  <2>2. Return([ops EXCEPT !["marker"] = at], TRUE)
    BY <1>14 DEF ScheduleOperation
  <2> QED
    BY <2>1, <2>2, ReturnCovers
<1>15. CASE CancelScheduledOperation
  <2>1. [ops EXCEPT !["marker"] = None] \in Times
    BY SetOpType, OpNames DEF Time
  <2>2. Return([ops EXCEPT !["marker"] = None], TRUE)
    BY <1>15 DEF CancelScheduledOperation
  <2> QED
    BY <2>1, <2>2, ReturnCovers
<1>16. ASSUME NEW p \in Participant, NEW r \in Request, GameMessage(p, r) PROVE AlarmCovers'
  <2>1. WithCleanup(ops, r) \in Times
    BY CleanupType DEF TypeOK, ScheduleOK
  <2>2. Return(WithCleanup(ops, r), TRUE)
    BY <1>16 DEF GameMessage
  <2> QED
    BY <2>1, <2>2, ReturnCovers
<1>17. ASSUME NEW c \in Resume, NEW p \in Participant, Connect(c, p) PROVE AlarmCovers'
  <2>1. ops \in Times
    BY DEF TypeOK, ScheduleOK
  <2>2. Return(ops, FALSE)
    BY <1>17 DEF Connect
  <2> QED
    BY <2>1, <2>2, ReturnCovers
<1>18. ASSUME NEW c \in Resume, ResumeSession(c) PROVE AlarmCovers'
  <2>1. [ops EXCEPT ![conn[c].who] = None] \in Times
    BY DEF TypeOK, ScheduleOK, Times, Time
  <2>2. Return([ops EXCEPT ![conn[c].who] = None], FALSE)
    BY <1>18 DEF ResumeSession
  <2>3. \A x \in Op : [ops EXCEPT ![conn[c].who] = None][x] \in {None, ops[x]}
    BY DEF TypeOK, ScheduleOK, Times
  <2> QED
    BY <2>1, <2>2, <2>3, ReturnCovers
<1>19. ASSUME NEW c \in Resume, ResumeTooLate(c) PROVE AlarmCovers'
  <2>1. conn[c].who \in Participant /\ conn[c].at \in Nat
    BY <1>19 DEF ResumeTooLate, Resumable, Members, SessionsOK
  <2>2. LastSeen(conn[c].who, conn[c].at) + Grace \in Time
    BY <2>1, LastSeenType, RoomAssumption DEF Time
  <2>3. \E o \in Times : Return(o, TRUE)
    BY <1>19, <2>1, <2>2, AfterRemovalType, SetOpType, OpNames DEF ResumeTooLate, TypeOK, ScheduleOK
  <2> QED
    BY <2>3, ReturnCovers
<1>20. ASSUME NEW c \in Resume, NEW g \in 1 .. MaxGeneration, SocketError(c, g) PROVE AlarmCovers'
  <2>1. [ops EXCEPT ![conn[c].who] = now + Grace] \in Times /\ ops \in Times
    BY GraceType DEF TypeOK, ScheduleOK, Times
  <2>2. Return([ops EXCEPT ![conn[c].who] = now + Grace], TRUE) \/ Return(ops, FALSE)
    BY <1>20 DEF SocketError, MarkDisconnected
  <2> QED
    BY <2>1, <2>2, ReturnCovers
<1>21. ASSUME NEW c \in Resume, NEW g \in 1 .. MaxGeneration, SocketClose(c, g) PROVE AlarmCovers'
  <2>1. [ops EXCEPT ![conn[c].who] = now + Grace] \in Times /\ ops \in Times
    BY GraceType DEF TypeOK, ScheduleOK, Times
  <2>2. Return([ops EXCEPT ![conn[c].who] = now + Grace], TRUE) \/ Return(ops, FALSE)
    BY <1>21 DEF SocketClose, MarkDisconnected
  <2> QED
    BY <2>1, <2>2, ReturnCovers
<1>22. ASSUME NEW t \in Task, UpsertServed(t) PROVE AlarmCovers'
  <2>1. task[t] \in [row : Rows, due : Nat, served : BOOLEAN]
    BY <1>22 DEF UpsertServed, TypeOK, ScheduleOK
  <2>2. task'[t] = [task[t] EXCEPT !.served = TRUE]
    BY <1>22 DEF UpsertServed, TypeOK, ScheduleOK
  <2>3. task'[t] = [due |-> task[t].due, row |-> task[t].row, served |-> TRUE]
    BY <2>1, <2>2
  <2>4. task'[t] # None
    BY <2>3 DEF NoneIsNoTask
  <2> QED
    BY <2>4 DEF AlarmCovers, Quiet
<1>23. ASSUME NEW t \in Task, UpsertAnswered(t) PROVE AlarmCovers'
  <2>1. ops' \in Times /\ alarm' = NextDue(ops')
    BY <1>23, DoneType, RetriedType DEF UpsertAnswered, TypeOK, ScheduleOK
  <2> QED
    BY <2>1, NextDueCovers DEF AlarmCovers, Covered
<1>24. ASSUME NEW t \in Task, UpsertFailed(t) PROVE AlarmCovers'
  <2>1. ops' \in Times /\ alarm' = NextDue(ops')
    BY <1>24, DoneType, RetriedType DEF UpsertFailed, TypeOK, ScheduleOK
  <2> QED
    BY <2>1, NextDueCovers DEF AlarmCovers, Covered
<1>25. ASSUME NEW w \in late, LateWrite(w) PROVE AlarmCovers'
  <2>1. UNCHANGED <<ops, alarm, run, task>>
    BY <1>25 DEF LateWrite, projection, vars
  <2> QED
    BY <2>1 DEF AlarmCovers, Quiet
<1>26. CASE AlarmFires
  <2>1. run'.pc # "idle"
    BY <1>26 DEF AlarmFires, At, Passed, TypeOK, ScheduleOK
  <2> QED
    BY <2>1 DEF AlarmCovers, Quiet
<1>27. CASE AlarmIndex
  <2>1. run'.pc # "idle"
    BY <1>27 DEF AlarmIndex, At, Passed, TypeOK, ScheduleOK
  <2> QED
    BY <2>1 DEF AlarmCovers, Quiet
<1>28. CASE AlarmUpsertServed
  <2>1. run'.pc # "idle"
    BY <1>28 DEF AlarmUpsertServed, At, Passed, TypeOK, ScheduleOK
  <2> QED
    BY <2>1 DEF AlarmCovers, Quiet
<1>29. CASE AlarmUpsertAnswered
  <2>1. run'.pc # "idle"
    BY <1>29 DEF AlarmUpsertAnswered, At, Passed, TypeOK, ScheduleOK
  <2> QED
    BY <2>1 DEF AlarmCovers, Quiet
<1>30. CASE AlarmUpsertFailed
  <2>1. run'.pc # "idle"
    BY <1>30 DEF AlarmUpsertFailed, At, Passed, TypeOK, ScheduleOK
  <2> QED
    BY <2>1 DEF AlarmCovers, Quiet
<1>31. CASE AlarmRetention
  <2>1. CASE DeleteRoom
    BY <2>1 DEF DeleteRoom, NoDue, AlarmCovers
  <2>2. CASE run'.pc # "idle"
    BY <2>2 DEF AlarmCovers, Quiet
  <2> QED
    BY <1>31, <2>1, <2>2 DEF AlarmRetention, Continue, Passed, TypeOK, ScheduleOK
<1>32. CASE AlarmDeleteServed
  <2>1. run'.pc # "idle"
    BY <1>32 DEF AlarmDeleteServed, At, Passed, TypeOK, ScheduleOK
  <2> QED
    BY <2>1 DEF AlarmCovers, Quiet
<1>33. CASE AlarmDeleteAnswered
  BY <1>33 DEF AlarmDeleteAnswered, DeleteRoom, NoDue, AlarmCovers
<1>34. CASE AlarmDeleteFailed
  <2>1. run'.pc # "idle"
    BY <1>34 DEF AlarmDeleteFailed, At, Passed, TypeOK, ScheduleOK
  <2> QED
    BY <2>1 DEF AlarmCovers, Quiet
<1>35. ASSUME NEW p \in Participant, AlarmDisconnect(p) PROVE AlarmCovers'
  <2>1. run'.pc # "idle"
    BY <1>35 DEF AlarmDisconnect, At, Continue, Passed, TypeOK, ScheduleOK
  <2> QED
    BY <2>1 DEF AlarmCovers, Quiet
<1>36. CASE AlarmCleanup
  <2>1. run'.pc # "idle"
    BY <1>36 DEF AlarmCleanup, At, Continue, Passed, TypeOK, ScheduleOK
  <2> QED
    BY <2>1 DEF AlarmCovers, Quiet
<1>37. CASE AlarmMarker
  <2>1. run'.pc # "idle"
    BY <1>37 DEF AlarmMarker, At, Continue, Passed, TypeOK, ScheduleOK
  <2> QED
    BY <2>1 DEF AlarmCovers, Quiet
<1>38. CASE AlarmEnds
  <2>1. ops' = ops /\ ops \in Times /\ alarm' = NextDue(ops)
    BY <1>38 DEF AlarmEnds, TypeOK, ScheduleOK
  <2> QED
    BY <2>1, NextDueCovers DEF AlarmCovers, Covered
<1>39. CASE Restart
  BY <1>39 DEF Restart
<1>40. CASE Tick
  <2>1. UNCHANGED <<ops, alarm, run, task>>
    BY <1>40 DEF Tick, projection, vars
  <2> QED
    BY <2>1 DEF AlarmCovers, Quiet
<1>41. CASE UNCHANGED vars
  <2>1. UNCHANGED <<ops, alarm, run, task>>
    BY <1>41 DEF vars, projection, vars
  <2> QED
    BY <2>1 DEF AlarmCovers, Quiet
<1> QED
  BY <1>1, <1>2, <1>3, <1>4, <1>5, <1>6, <1>7, <1>8, <1>9, <1>10, <1>11, <1>12, <1>13, <1>14,
       <1>15, <1>16, <1>17, <1>18, <1>19, <1>20, <1>21, <1>22, <1>23, <1>24, <1>25, <1>26, <1>27,
            <1>28, <1>29, <1>30, <1>31, <1>32, <1>33, <1>34, <1>35, <1>36, <1>37, <1>38, <1>39,
                 <1>40, <1>41 DEF Next, Lifecycle, WebSockets, D1, AlarmStep

\* Nothing scheduled is forgotten: unless the object restarts while a handler waits
\* for D1, the one alarm is set and not later than the first operation is due.
THEOREM AlarmIsSet ==
  ASSUME NoneIsNoTask, "restart" \notin Faults
  PROVE  Spec => []AlarmCovers
<1>1. Init => AlarmCovers
  BY DEF Init, NoDue, AlarmCovers
<1>2. Inv /\ AlarmCovers /\ [Next]_vars => AlarmCovers'
  BY CoversStep DEF Inv
<1> QED
  BY <1>1, <1>2, RoomInvariant, PTL DEF Spec
-----------------------------------------------------------------------------
(* The list in D1.  The rows on their way, over the state they are read in: *)
(* l is the revision of the latest, s, n and m what the Room shows.        *)

Agrees(row, s, n, m) ==
  /\ row.state = s
  /\ row.players >= n
  /\ row.spectators >= m
  /\ ~Expiring => row.players = n /\ row.spectators = m

Fits(row, l, s, n, m) ==
  /\ row # None
  /\ row.revision <= l
  /\ row.revision = l => Agrees(row, s, n, m)

Behind(row, ls) == ls # None /\ row.revision <= ls.revision

Last(i, pend, ls) == IF i # None THEN pend.revision ELSE ls.revision

\* What the operation and the list hold, and what is under way.
Held(l, s, n, m, rev, i, pend, ls) ==
  /\ l <= rev
  /\ IF i = None THEN ls # None ELSE Fits(pend, l, s, n, m)
  /\ ls # None => Fits(ls, l, s, n, m)

Awaits(rn) == rn.pc = "upsert" \/ (rn.pc = "loop" /\ rn.due["index"] # None)

UnderWay(l, s, n, m, rn, tk, lt, ls) ==
  /\ \A t \in Task : tk[t] # None =>
       Fits(tk[t].row, l, s, n, m) /\ (tk[t].served => Behind(tk[t].row, ls))
  /\ Awaits(rn) => Fits(rn.row, l, s, n, m)
  /\ rn.served => rn.pc = "upsert" /\ Behind(rn.row, ls)
  /\ \A w \in lt : Fits(w, l, s, n, m)

LEMMA ProjectionIs ==
  /\ ProjectionOK <=>
       /\ Held(Last(ops["index"], pending, listed), state, Row.players, Row.spectators,
               revision, ops["index"], pending, listed)
       /\ UnderWay(Last(ops["index"], pending, listed), state, Row.players, Row.spectators,
                   run, task, late, listed)
  /\ ProjectionOK' <=>
       /\ Held(Last(ops'["index"], pending', listed'), state', Row'.players, Row'.spectators,
               revision', ops'["index"], pending', listed')
       /\ UnderWay(Last(ops'["index"], pending', listed'), state', Row'.players, Row'.spectators,
                   run', task', late', listed')
  BY DEF ProjectionOK, Held, UnderWay, Awaits, Last, Fits, Behind, Agrees, OnTime, Overtaken,
         Latest, ShowsRoom

LEMMA CountType ==
  /\ Row.players \in Nat /\ Row.spectators \in Nat
  /\ Row'.players \in Nat /\ Row'.spectators \in Nat
<1>1. \A M \in SUBSET Participant : Cardinality(M) \in Nat
  BY RoomAssumption, FS_Subset, FS_CardinalityType
<1>2. /\ Cardinality(Players) \in Nat /\ Cardinality(Players)' \in Nat
      /\ Cardinality(Members \ Players) \in Nat /\ Cardinality(Members \ Players)' \in Nat
  BY <1>1 DEF Players, Members
<1> QED
  BY <1>2 DEF Row

Entries == Rows \cup {None}

LEMMA FitsFewer ==
  ASSUME NEW row \in Entries, NEW l, NEW s, NEW n \in Nat, NEW m \in Nat,
         Fits(row, l, s, n, m), NEW n2 \in Nat, NEW m2 \in Nat, n2 <= n, m2 <= m,
         ~Expiring => n2 = n /\ m2 = m
  PROVE  Fits(row, l, s, n2, m2)
  BY DEF Fits, Agrees, Rows, Entries

LEMMA FitsLater ==
  ASSUME NEW row \in Entries, NEW l \in Nat, NEW s, NEW n, NEW m, Fits(row, l, s, n, m),
         NEW l2 \in Nat, l < l2, NEW s2, NEW n2, NEW m2
  PROVE  Fits(row, l2, s2, n2, m2)
  BY DEF Fits, Rows, Entries

LEMMA EntryTypes ==
  ASSUME TypeOK
  PROVE  /\ pending \in Entries /\ listed \in Entries /\ late \subseteq Entries
         /\ run.row \in Entries /\ revision \in Nat
         /\ \A t \in Task : task[t] # None => task[t].row \in Rows
         /\ \A row \in Entries : row # None => row.revision \in Nat
         /\ "index" \in Op /\ ops["index"] \in Time /\ now \in Nat
  BY OpNames DEF TypeOK, ScheduleOK, Entries, Rows, Times

\* The revision of the latest row is a number.
LEMMA LatestType ==
  ASSUME TypeOK, ProjectionOK
  PROVE  Last(ops["index"], pending, listed) \in Nat
<1>1. IF ops["index"] = None THEN listed # None ELSE pending # None
  BY ProjectionIs DEF Held, Fits
<1> QED
  BY <1>1, EntryTypes DEF Last

\* What a handler that touches no row leaves.
RunQuiet ==
  \/ run' = run
  \/ /\ run.pc = "loop" /\ run'.pc \in {"loop", "idle"}
     /\ run'.row = run.row /\ ~run'.served
     /\ run'.due["index"] # None => run.due["index"] # None
  \/ run' = Idle

LEMMA IdleAwaits == ~Awaits(Idle) /\ ~Idle.served /\ Idle.due = NoDue
  BY DEF Awaits, Idle

\* Rows stay where they are; the Room may lose participants or gain a revision.
LEMMA QuietList ==
  ASSUME TypeOK, TypeOK', ProjectionOK, state' = state, revision <= revision',
         Row'.players <= Row.players, Row'.spectators <= Row.spectators,
         ~Expiring => Row'.players = Row.players /\ Row'.spectators = Row.spectators,
         UNCHANGED <<pending, task, late, listed>>, ops'["index"] = ops["index"], RunQuiet
  PROVE  ProjectionOK'
<1> DEFINE l == Last(ops["index"], pending, listed)
           n == Row.players
           m == Row.spectators
           n2 == Row'.players
           m2 == Row'.spectators
<1>1. l \in Nat /\ n \in Nat /\ m \in Nat /\ n2 \in Nat /\ m2 \in Nat
  BY LatestType, CountType
<1>2. n2 <= n /\ m2 <= m /\ (~Expiring => n2 = n /\ m2 = m)
  OBVIOUS
<1>3. Held(l, state, n, m, revision, ops["index"], pending, listed)
  BY ProjectionIs
<1>4. UnderWay(l, state, n, m, run, task, late, listed)
  BY ProjectionIs
<1> HIDE DEF l, n, m, n2, m2
<1>5. \A row \in Entries : Fits(row, l, state, n, m) => Fits(row, l, state, n2, m2)
  BY <1>1, <1>2, FitsFewer
<1>6. Held(l, state, n2, m2, revision', ops["index"], pending, listed)
  <2>1. l <= revision'
    BY <1>1, <1>3 DEF Held, TypeOK
  <2> QED
    BY <1>3, <1>5, <2>1, EntryTypes DEF Held
<1>7. UnderWay(l, state, n2, m2, run', task, late, listed)
  <2>1. run'.served => run' = run
    BY IdleAwaits DEF RunQuiet
  <2>2. Awaits(run') => Awaits(run) /\ run'.row = run.row
    BY IdleAwaits DEF RunQuiet, Awaits
  <2> QED
    BY <1>4, <1>5, <2>1, <2>2, EntryTypes DEF UnderWay, Entries
<1> QED
  BY <1>6, <1>7, ProjectionIs DEF l, n2, m2

\* A new row is handed over, of a later revision unless nothing has changed.
LEMMA SyncList ==
  ASSUME TypeOK, TypeOK', NEW o, NEW armed, SyncIndex(o, armed), now' = now, NEW row \in Rows,
         row = Row', None \notin Rows,
         \/ state = "none" /\ NothingYet
         \/ ProjectionOK /\ revision < revision'
         \/ ProjectionOK /\ UNCHANGED room
  PROVE  ProjectionOK'
<1> DEFINE n == Row'.players
           m == Row'.spectators
           l == revision'
<1>1. n \in Nat /\ m \in Nat /\ l \in Nat
  BY CountType DEF TypeOK
<1>2. row.revision = l /\ row.state = state' /\ row.players = n /\ row.spectators = m /\ row # None
  BY DEF Row
<1>3. pending' = row /\ ops'["index"] = now /\ now # None /\ UNCHANGED <<run, late, listed>>
  BY EntryTypes, RoomAssumption DEF SyncIndex, TypeOK, ScheduleOK, Times
<1>4. Last(ops'["index"], pending', listed') = l
  BY <1>2, <1>3 DEF Last
<1> HIDE DEF n, m, l
<1>5. Fits(row, l, state', n, m)
  BY <1>1, <1>2 DEF Fits, Agrees
<1>6. PICK t \in Task : task' = [task EXCEPT ![t] = [due |-> now, row |-> row, served |-> FALSE]]
  BY DEF SyncIndex
<1>7. /\ task'[t].row = row /\ ~task'[t].served
      /\ \A u \in Task \ {t} : task'[u] = task[u]
  BY <1>6 DEF TypeOK, ScheduleOK
<1>8. CASE state = "none" /\ NothingYet
  <2>1. listed' = None /\ run' = Idle /\ late' = {} /\ \A u \in Task \ {t} : task'[u] = None
    BY <1>3, <1>7, <1>8 DEF NothingYet
  <2>2. Held(l, state', n, m, revision', ops'["index"], pending', listed')
    BY <1>1, <1>3, <1>5, <2>1 DEF Held, l
  <2>3. UnderWay(l, state', n, m, run', task', late', listed')
    BY <1>5, <1>7, <2>1, IdleAwaits DEF UnderWay
  <2> QED
    BY <1>4, <2>2, <2>3, ProjectionIs DEF n, m
<1>9. CASE ProjectionOK /\ (revision < revision' \/ UNCHANGED room)
  <2> DEFINE k == Last(ops["index"], pending, listed)
  <2>1. k \in Nat /\ Held(k, state, Row.players, Row.spectators, revision, ops["index"], pending, listed)
    BY <1>9, LatestType, ProjectionIs
  <2>2. UnderWay(k, state, Row.players, Row.spectators, run, task, late, listed)
    BY <1>9, ProjectionIs
  <2> HIDE DEF k
  <2>3. k < l \/ (k = l /\ UNCHANGED room)
    BY <1>1, <1>9, <2>1 DEF Held, l, room, TypeOK
  <2>4. UNCHANGED room => state' = state /\ n = Row.players /\ m = Row.spectators
    BY DEF room, Row, Players, Members, n, m
  <2>5. \A x \in Entries : Fits(x, k, state, Row.players, Row.spectators) => Fits(x, l, state', n, m)
    BY <1>1, <2>1, <2>3, <2>4, FitsLater
  <2>6. Held(l, state', n, m, revision', ops'["index"], pending', listed')
    BY <1>1, <1>3, <1>5, <2>1, <2>5, EntryTypes DEF Held, l
  <2>7. UnderWay(l, state', n, m, run', task', late', listed')
    BY <1>3, <1>5, <1>7, <2>2, <2>5, EntryTypes DEF UnderWay, Entries
  <2> QED
    BY <1>4, <2>6, <2>7, ProjectionIs DEF n, m
<1> QED
  BY <1>8, <1>9

\* Rows reach nobody who did not have one, and the Room stays as it is.
LEMMA KeepList ==
  ASSUME TypeOK, TypeOK', ProjectionOK, UNCHANGED room, listed' = listed,
         Last(ops'["index"], pending', listed') = Last(ops["index"], pending, listed),
         IF ops'["index"] = None THEN listed # None ELSE pending' = pending /\ ops["index"] # None,
         \A t \in Task : task'[t] # None => task'[t] = task[t],
         Awaits(run') => \/ run'.row = run.row /\ Awaits(run)
                         \/ run'.row = pending /\ ops["index"] # None,
         run'.served => run' = run,
         \A w \in late' : \/ w \in late
                          \/ \E t \in Task : task[t] # None /\ task[t].row = w
                          \/ Awaits(run) /\ w = run.row
  PROVE  ProjectionOK'
<1> DEFINE l == Last(ops["index"], pending, listed)
           n == Row.players
           m == Row.spectators
<1>1. Held(l, state, n, m, revision, ops["index"], pending, listed)
  BY ProjectionIs
<1>2. UnderWay(l, state, n, m, run, task, late, listed)
  BY ProjectionIs
<1>3. state' = state /\ revision' = revision /\ Row' = Row
  BY DEF room, Row, Players, Members
<1> HIDE DEF l, n, m
<1>4. Held(l, state, n, m, revision, ops'["index"], pending', listed)
  BY <1>1 DEF Held
<1>5. UnderWay(l, state, n, m, run', task', late', listed)
  BY <1>1, <1>2 DEF UnderWay, Held
<1> QED
  BY <1>3, <1>4, <1>5, ProjectionIs DEF l, n, m

\* D1 executes an upsert: only a row as late as the listed one replaces it.
LEMMA ServeList ==
  ASSUME TypeOK, TypeOK', ProjectionOK, UNCHANGED <<room, ops, pending>>, NEW row \in Entries,
         Fits(row, Last(ops["index"], pending, listed), state, Row.players, Row.spectators),
         listed' = Upserted(row),
         \A t \in Task : task'[t] # None =>
           /\ task[t] # None
           /\ task'[t].row = task[t].row
           /\ task'[t].served => task[t].served \/ task[t].row = row,
         run'.pc = run.pc, run'.due = run.due, run'.row = run.row,
         run'.served => run.served \/ (run.pc = "upsert" /\ run.row = row),
         late' \subseteq late
  PROVE  ProjectionOK'
<1> DEFINE l == Last(ops["index"], pending, listed)
           n == Row.players
           m == Row.spectators
<1>1. l \in Nat /\ Held(l, state, n, m, revision, ops["index"], pending, listed)
  BY LatestType, ProjectionIs
<1>2. UnderWay(l, state, n, m, run, task, late, listed)
  BY ProjectionIs
<1>3. state' = state /\ revision' = revision /\ Row' = Row
  BY DEF room, Row, Players, Members
<1>4. Fits(row, l, state, n, m)
  OBVIOUS
<1>5. ops["index"] = None => listed # None /\ l = listed.revision
  BY <1>1 DEF Held, Last
<1>6. ops["index"] # None => l = pending.revision
  BY DEF Last
<1> HIDE DEF l, n, m
<1>7. row.revision \in Nat /\ (listed # None => listed.revision \in Nat)
  BY <1>4, EntryTypes DEF Fits
<1>8. /\ Fits(listed', l, state, n, m)
      /\ Behind(row, listed')
      /\ listed # None => listed.revision <= listed'.revision
      /\ ops["index"] = None => listed'.revision = l
  <2>1. CASE listed = None \/ row.revision >= listed.revision
    <3>1. listed' = row
      BY <2>1 DEF Upserted
    <3>2. ops["index"] = None => row.revision = l
      BY <2>1, <1>1, <1>4, <1>5, <1>7 DEF Fits
    <3> QED
      BY <2>1, <3>1, <3>2, <1>4, <1>7 DEF Fits, Behind
  <2>2. CASE ~(listed = None \/ row.revision >= listed.revision)
    <3>1. listed' = listed
      BY <2>2 DEF Upserted
    <3> QED
      BY <2>2, <3>1, <1>1, <1>5, <1>7 DEF Held, Behind
  <2> QED
    BY <2>1, <2>2
<1>9. Last(ops["index"], pending, listed') = l
  BY <1>6, <1>8 DEF Last
<1>10. Held(l, state, n, m, revision, ops["index"], pending, listed')
  BY <1>1, <1>8 DEF Held, Fits
<1>11. \A x \in Entries : x # None /\ Behind(x, listed) => Behind(x, listed')
  <2>1. listed' # None /\ listed'.revision \in Nat
    BY <1>8, EntryTypes DEF Fits, TypeOK, ScheduleOK, Rows
  <2> QED
    BY <2>1, <1>7, <1>8, EntryTypes DEF Behind
<1>12. UnderWay(l, state, n, m, run', task', late', listed')
  <2>1. \A t \in Task : task'[t] # None =>
          Fits(task'[t].row, l, state, n, m) /\ (task'[t].served => Behind(task'[t].row, listed'))
    BY <1>2, <1>8, <1>11, EntryTypes DEF UnderWay, Fits, Entries
  <2>2. Awaits(run') => Fits(run'.row, l, state, n, m)
    BY <1>2 DEF UnderWay, Awaits
  <2>3. run'.served => run'.pc = "upsert" /\ Behind(run'.row, listed')
    <3>1. CASE run.served
      <4>1. run.pc = "upsert" /\ Behind(run.row, listed) /\ run.row # None
        BY <3>1, <1>2 DEF UnderWay, Awaits, Fits
      <4> QED
        BY <4>1, <1>11, EntryTypes
    <3>2. CASE ~run.served
      BY <3>2, <1>8
    <3> QED
      BY <3>1, <3>2
  <2> QED
    BY <1>2, <2>1, <2>2, <2>3 DEF UnderWay
<1> QED
  BY <1>3, <1>9, <1>10, <1>12, ProjectionIs DEF l, n, m

\* What KeepList asks of the operation.
Keeps ==
  /\ Last(ops'["index"], pending', listed') = Last(ops["index"], pending, listed)
  /\ IF ops'["index"] = None THEN listed # None ELSE pending' = pending /\ ops["index"] # None

LEMMA DoneKeeps ==
  ASSUME TypeOK, ProjectionOK, NEW row \in Entries, NEW due \in Nat,
         Fits(row, Last(ops["index"], pending, listed), state, Row.players, Row.spectators),
         Behind(row, listed), ops' = Done(row, due), pending' = PendingAfter(ops'), listed' = listed
  PROVE  Keeps
<1> DEFINE l == Last(ops["index"], pending, listed)
<1>1. l \in Nat /\ Held(l, state, Row.players, Row.spectators, revision, ops["index"], pending, listed)
  BY LatestType, ProjectionIs
<1>2. due # None /\ "index" \in Op /\ DOMAIN ops = Op
  BY EntryTypes, RoomAssumption DEF TypeOK, ScheduleOK, Times
<1>3. CASE StillPending(row, due)
  <2>1. ops["index"] # None /\ pending = row /\ ops'["index"] = None
    BY <1>2, <1>3 DEF StillPending, Done
  <2>2. l = row.revision /\ row # None /\ listed # None
    BY <2>1 DEF Last, Behind, Fits
  <2>3. listed.revision <= l /\ l <= listed.revision /\ listed.revision \in Nat
    BY <1>1, <2>2, EntryTypes DEF Held, Fits, Behind
  <2>4. listed.revision = l
    BY <1>1, <2>3
  <2> QED
    BY <2>1, <2>2, <2>4 DEF Keeps, Last
<1>4. CASE ~StillPending(row, due)
  <2>1. ops' = ops
    BY <1>4 DEF Done
  <2> QED
    BY <2>1, <1>1 DEF Keeps, Last, PendingAfter, Held
<1> QED
  BY <1>3, <1>4

LEMMA RetriedKeeps ==
  ASSUME TypeOK, ProjectionOK, NEW row, NEW due \in Nat, ops' = Retried(row, due),
         pending' = pending, listed' = listed
  PROVE  Keeps
<1>1. Held(Last(ops["index"], pending, listed), state, Row.players, Row.spectators, revision,
           ops["index"], pending, listed)
  BY ProjectionIs
<1>2. due # None /\ "index" \in Op /\ DOMAIN ops = Op /\ now \in Nat
  BY EntryTypes, RoomAssumption DEF TypeOK, ScheduleOK, Times
<1>3. CASE StillPending(row, due)
  <2>1. Greater(now, due) + RetryDelay \in Nat
    BY <1>2, RoomAssumption DEF Greater
  <2>2. Greater(now, due) + RetryDelay # None
    BY <2>1, RoomAssumption
  <2>3. ops["index"] # None /\ ops'["index"] # None
    BY <1>2, <1>3, <2>2 DEF StillPending, Retried
  <2> QED
    BY <2>3 DEF Keeps, Last
<1>4. CASE ~StillPending(row, due)
  <2>1. ops' = ops
    BY <1>4 DEF Retried
  <2> QED
    BY <2>1, <1>1 DEF Keeps, Last, Held
<1> QED
  BY <1>3, <1>4

LEMMA SameKeeps ==
  ASSUME ProjectionOK, ops'["index"] = ops["index"], pending' = pending, listed' = listed
  PROVE  Keeps
<1>1. Held(Last(ops["index"], pending, listed), state, Row.players, Row.spectators, revision,
           ops["index"], pending, listed)
  BY ProjectionIs
<1> QED
  BY <1>1 DEF Keeps, Last, Held

ListParts ==
  /\ state = "none" => NothingYet
  /\ Active => ProjectionOK
  /\ ~Expiring => \A p \in Participant : ops[p] = None /\ run.due[p] = None

\* A step that neither moves a row nor changes what the list shows of the Room.
LEMMA QuietShown ==
  ASSUME TypeOK, TypeOK', ListParts, UNCHANGED <<state, joinedAt, pending, task, late, listed>>,
         revision <= revision', ops'["index"] = ops["index"], RunQuiet
  PROVE  Active' => ProjectionOK'
<1>1. Active' => Active
  BY DEF Active
<1>2. Row'.players = Row.players /\ Row'.spectators = Row.spectators
  BY DEF Row, Players, Members
<1>3. Row.players <= Row.players /\ Row.spectators <= Row.spectators
  BY CountType
<1> QED
  BY <1>1, <1>2, <1>3, QuietList DEF ListParts

LEMMA ReturnShown ==
  ASSUME TypeOK, TypeOK', ListParts, UNCHANGED <<state, joinedAt>>, revision <= revision',
         NEW o, NEW armed, Return(o, armed), o["index"] = ops["index"]
  PROVE  Active' => ProjectionOK'
  BY QuietShown DEF Return, projection, RunQuiet

\* Somebody is removed, and nothing is projected.
LEMMA RemoveShown ==
  ASSUME TypeOK, TypeOK', ListParts, Expiring, NEW p \in Participant, Remove(p),
         UNCHANGED <<pending, task, late, listed>>, ops'["index"] = ops["index"], RunQuiet
  PROVE  Active' => ProjectionOK'
<1>1. Active' => Active /\ state' = state
  BY DEF Active, Remove
<1>2. revision <= revision'
  BY DEF Remove, Publish, TypeOK
<1>3. /\ Players' \subseteq Players /\ (Members \ Players)' \subseteq Members \ Players
      /\ Members \subseteq Participant
  BY DEF Remove, Players, Members, TypeOK
<1>4. IsFiniteSet(Players) /\ IsFiniteSet(Members \ Players)
  <2>1. Players \subseteq Participant /\ Members \ Players \subseteq Participant
    BY DEF Players, Members
  <2> QED
    BY <2>1, RoomAssumption, FS_Subset
<1>5. /\ Cardinality(Players)' <= Cardinality(Players)
      /\ Cardinality(Members \ Players)' <= Cardinality(Members \ Players)
  BY <1>3, <1>4, FS_Subset
<1>6. Row'.players <= Row.players /\ Row'.spectators <= Row.spectators
  BY <1>5 DEF Row
<1> QED
  BY <1>1, <1>2, <1>6, QuietList DEF ListParts

\* A handler that hands the row of the Room over.
LEMMA ConcludeShown ==
  ASSUME TypeOK, TypeOK', ListParts, None \notin Rows, Public,
         NEW o, NEW armed, NEW arms, Conclude(o, armed, arms),
         state = "none" \/ Active \/ ~Active',
         state = "none" \/ revision < revision' \/ UNCHANGED room
  PROVE  Active' => ProjectionOK'
<1> SUFFICES ASSUME Active' PROVE ProjectionOK'
  OBVIOUS
<1>1. SyncIndex(o, armed) /\ now' = now
  BY DEF Conclude
<1>2. Row' \in Rows
  BY RowType DEF Active, TypeOK
<1>3. \/ state = "none" /\ NothingYet
      \/ ProjectionOK /\ revision < revision'
      \/ ProjectionOK /\ UNCHANGED room
  BY DEF ListParts, Active
<1> QED
  BY <1>1, <1>2, <1>3, SyncList

LEMMA PublishNewer ==
  ASSUME TypeOK, Publish
  PROVE  revision < revision' /\ revision <= revision'
  BY DEF TypeOK, Publish

LEMMA IndexKept ==
  ASSUME TypeOK
  PROVE  /\ \A o \in Times : \A r : WithCleanup(o, r)["index"] = o["index"]
         /\ \A o \in Times : \A p \in Participant : AfterRemoval(o, p)["index"] = o["index"]
         /\ \A x \in Op \ {"index"} : \A d : [ops EXCEPT ![x] = d]["index"] = ops["index"]
<1>1. "index" \in Op \ {"cleanup", "retention"} /\ "index" \notin Participant
  BY OpNames, RoomAssumption
<1>2. \A o \in Times : \A r : WithCleanup(o, r)["index"] = o["index"]
  BY <1>1, CleanupOps
<1>3. ASSUME NEW o \in Times, NEW p \in Participant
      PROVE  AfterRemoval(o, p)["index"] = o["index"]
  BY <1>1, RemovalOps
<1>4. \A x \in Op \ {"index"} : \A d : [ops EXCEPT ![x] = d]["index"] = ops["index"]
  BY <1>1 DEF TypeOK, ScheduleOK, Times
<1> QED
  BY <1>2, <1>3, <1>4

\* The loop of the alarm handler moves past o.
LEMMA PassedFields ==
  ASSUME TypeOK, NEW o \in Op
  PROVE  /\ Passed(o).pc = "loop" /\ Passed(o).row = run.row /\ ~Passed(o).served
         /\ Passed(o).due[o] = None
         /\ \A x \in Op \ {o} : Passed(o).due[x] = run.due[x]
  BY DEF Passed, TypeOK, ScheduleOK, Times

LEMMA ContinueShown ==
  ASSUME TypeOK, TypeOK', ListParts, Locked, NEW o \in Op \ {"index"}, NEW o1, Continue(o, o1),
         o1["index"] = ops["index"],
         \/ UNCHANGED <<state, joinedAt, revision>>
         \/ Expiring /\ \E p \in Participant : Remove(p)
  PROVE  Active' => ProjectionOK'
<1>1. UNCHANGED <<pending, task, late, listed>> /\ ops'["index"] = ops["index"]
  BY DEF Continue
<1>2. RunQuiet
  BY PassedFields, OpNames DEF Continue, RunQuiet, Locked
<1>3. revision <= revision
  BY DEF TypeOK
<1> QED
  BY <1>1, <1>2, <1>3, QuietShown, RemoveShown

LEMMA LifecycleShown ==
  ASSUME TypeOK, TypeOK', ListParts, None \notin Rows, Public, Lifecycle
  PROVE  Active' => ProjectionOK'
<1>0. ops \in Times /\ \A o \in Times : \A r : WithCleanup(o, r)["index"] = o["index"]
  BY IndexKept DEF TypeOK, ScheduleOK
<1>1. CASE Initialize
  BY <1>1, ConcludeShown DEF Initialize
<1>2. CASE InitializeAgain
  BY <1>2, ConcludeShown DEF InitializeAgain, Active, room
<1>3. ASSUME NEW p \in Participant, Join(p) PROVE Active' => ProjectionOK'
  BY <1>3, ConcludeShown, PublishNewer DEF Join, Active
<1>4. ASSUME NEW p \in Participant, DisconnectCall(p) PROVE Active' => ProjectionOK'
  <2>1. [ops EXCEPT ![p] = now + Grace]["index"] = ops["index"]
    BY IndexKept, OpNames
  <2>2. revision <= revision
    BY DEF TypeOK
  <2> QED
    BY <1>4, <2>1, <2>2, ReturnShown DEF DisconnectCall, room
<1>5. ASSUME NEW p \in Participant, NEW r \in Request \cup {None}, Leave(p, r)
      PROVE Active' => ProjectionOK'
  <2>1. Active /\ revision < revision'
    BY <1>5, PublishNewer DEF Leave, Remove
  <2>2. PICK o, arms : Conclude(o, r # None, arms)
    BY <1>5 DEF Leave
  <2> QED
    BY <2>1, <2>2, ConcludeShown
<1>6. ASSUME NEW p \in Participant, NEW r \in Request \cup {None},
             SelectTeam(p, r) \/ TransferHost(p, r)
      PROVE Active' => ProjectionOK'
  BY <1>0, <1>6, ReturnShown, PublishNewer DEF SelectTeam, TransferHost
<1>7. ASSUME NEW p \in Participant, NEW r \in Request \cup {None}, Kick(p, r)
      PROVE Active' => ProjectionOK'
  <2>1. Active /\ revision < revision'
    BY <1>7, PublishNewer DEF Kick, Active
  <2>2. PICK o : Conclude(o, r # None, FALSE)
    BY <1>7 DEF Kick
  <2> QED
    BY <2>1, <2>2, ConcludeShown
<1>8. ASSUME NEW p \in Participant, NEW value \in BOOLEAN, NEW r \in Request \cup {None},
             SetReady(p, value, r)
      PROVE Active' => ProjectionOK'
  BY <1>0, <1>8, ReturnShown, PublishNewer DEF SetReady
<1>9. ASSUME NEW r \in Request \cup {None}, UpdateSettings(r)
      PROVE Active' => ProjectionOK'
  <2>1. Active /\ revision < revision'
    BY <1>9, PublishNewer DEF UpdateSettings, Active
  <2>2. PICK o : Conclude(o, r # None, FALSE)
    BY <1>9 DEF UpdateSettings
  <2> QED
    BY <2>1, <2>2, ConcludeShown
<1>10. ASSUME NEW r \in Request \cup {None}, StartMatch(r)
       PROVE Active' => ProjectionOK'
  <2>1. Active /\ revision < revision'
    BY <1>10 DEF StartMatch, Active, TypeOK
  <2>2. PICK o : Conclude(o, r # None, FALSE)
    BY <1>10 DEF StartMatch
  <2> QED
    BY <2>1, <2>2, ConcludeShown
<1>11. CASE \/ \E at \in 0 .. MaxTime, r \in Request \cup {None} : Close(at, r)
            \/ Transition("finished")
  BY <1>11 DEF Close, Transition, Active
<1>12. ASSUME NEW next \in {"preparing", "in_progress"}, Transition(next)
       PROVE Active' => ProjectionOK'
  <2>1. Active /\ revision < revision'
    BY <1>12, PublishNewer DEF Transition, Active, AllowedTransition
  <2>2. PICK o : Conclude(o, TRUE, FALSE)
    BY <1>12 DEF Transition
  <2> QED
    BY <2>1, <2>2, ConcludeShown
<1>13. CASE CancelScheduledOperation \/ \E at \in 0 .. MaxTime : ScheduleOperation(at)
  <2>1. PICK d : Return([ops EXCEPT !["marker"] = d], TRUE)
    BY <1>13 DEF CancelScheduledOperation, ScheduleOperation
  <2>2. UNCHANGED <<state, joinedAt, revision>> /\ revision <= revision'
    <3>1. UNCHANGED <<state, joinedAt, revision>>
      BY <1>13 DEF CancelScheduledOperation, ScheduleOperation, room
    <3> QED
      BY <3>1 DEF TypeOK
  <2>3. [ops EXCEPT !["marker"] = d]["index"] = ops["index"]
    BY IndexKept, OpNames, RoomAssumption
  <2> QED
    BY <2>1, <2>2, <2>3, ReturnShown
<1> QED
  BY <1>1, <1>2, <1>3, <1>4, <1>5, <1>6, <1>7, <1>8, <1>9, <1>10, <1>11, <1>12, <1>13
     DEF Lifecycle

LEMMA WebSocketsShown ==
  ASSUME TypeOK, TypeOK', SessionsOK, ListParts, WebSockets
  PROVE  Active' => ProjectionOK'
<1>0. revision <= revision /\ ops \in Times
  BY DEF TypeOK, ScheduleOK
<1>1. ASSUME NEW p \in Participant, NEW r \in Request, GameMessage(p, r)
      PROVE Active' => ProjectionOK'
  BY <1>0, <1>1, IndexKept, ReturnShown DEF GameMessage, room
<1>2. ASSUME NEW c \in Resume, NEW p \in Participant, Connect(c, p)
      PROVE Active' => ProjectionOK'
  BY <1>0, <1>2, ReturnShown DEF Connect, room
<1>3. \A c \in Resume : conn[c].valid => conn[c].who \in Op \ {"index"}
  BY OpNames DEF SessionsOK
<1>4. ASSUME NEW c \in Resume, ResumeSession(c)
      PROVE Active' => ProjectionOK'
  <2>1. [ops EXCEPT ![conn[c].who] = None]["index"] = ops["index"]
    BY <1>3, <1>4, IndexKept DEF ResumeSession, Resumable
  <2> QED
    BY <1>0, <1>4, <2>1, ReturnShown DEF ResumeSession, room
<1>5. ASSUME NEW c \in Resume, ResumeTooLate(c)
      PROVE Active' => ProjectionOK'
  <2>1. conn[c].who \in Participant /\ conn[c].who \in Op \ {"index"} /\ Expiring
    BY <1>3, <1>5 DEF ResumeTooLate, Resumable, SessionsOK, Expiring
  <2>2. CASE Remove(conn[c].who) /\ Return(AfterRemoval(ops, conn[c].who), TRUE)
    <3>1. AfterRemoval(ops, conn[c].who)["index"] = ops["index"]
      BY <1>0, <2>1, IndexKept
    <3> QED
      BY <2>1, <2>2, <3>1, RemoveShown DEF Return, projection, RunQuiet
  <2>3. CASE /\ UNCHANGED room
             /\ \/ Return([ops EXCEPT ![conn[c].who] = LastSeen(conn[c].who, conn[c].at) + Grace], TRUE)
                \/ Return(ops, TRUE)
    <3>1. \A d : [ops EXCEPT ![conn[c].who] = d]["index"] = ops["index"]
      BY <2>1, IndexKept
    <3> QED
      BY <1>0, <2>3, <3>1, ReturnShown DEF room
  <2> QED
    BY <1>5, <2>2, <2>3 DEF ResumeTooLate
<1>6. ASSUME NEW c \in Resume, NEW g \in 1 .. MaxGeneration, SocketError(c, g) \/ SocketClose(c, g)
      PROVE Active' => ProjectionOK'
  <2>1. UNCHANGED <<state, joinedAt, revision>> /\ MarkDisconnected(c, g)
    BY <1>6 DEF SocketError, SocketClose, room
  <2>2. CASE conn[c].valid /\ Return([ops EXCEPT ![conn[c].who] = now + Grace], TRUE)
    <3>1. [ops EXCEPT ![conn[c].who] = now + Grace]["index"] = ops["index"]
      BY <2>2, <1>3, IndexKept
    <3> QED
      BY <1>0, <2>1, <2>2, <3>1, ReturnShown
  <2>3. CASE Return(ops, FALSE)
    BY <1>0, <2>1, <2>3, ReturnShown
  <2> QED
    BY <2>1, <2>2, <2>3 DEF MarkDisconnected
<1> QED
  BY <1>1, <1>2, <1>4, <1>5, <1>6 DEF WebSockets

\* D1 executes, answers or loses an upsert.
LEMMA D1Shown ==
  ASSUME TypeOK, TypeOK', ListParts, D1
  PROVE  Active' => ProjectionOK'
<1> SUFFICES ASSUME ProjectionOK, state' = state PROVE ProjectionOK'
  <2>1. state' = state
    BY DEF D1, UpsertServed, UpsertAnswered, UpsertFailed, LateWrite, room
  <2> QED
    BY <2>1 DEF ListParts, Active
<1> DEFINE l == Last(ops["index"], pending, listed)
<1>1. UnderWay(l, state, Row.players, Row.spectators, run, task, late, listed)
  BY ProjectionIs
<1>2. ASSUME NEW t \in Task, UpsertServed(t) PROVE ProjectionOK'
  <2>1. task[t].row \in Entries /\ Fits(task[t].row, l, state, Row.players, Row.spectators)
    BY <1>1, <1>2, EntryTypes DEF UpsertServed, UnderWay, Entries
  <2>2. \A u \in Task : task'[u] # None =>
          /\ task[u] # None
          /\ task'[u].row = task[u].row
          /\ task'[u].served => task[u].served \/ task[u].row = task[t].row
    BY <1>2 DEF UpsertServed, TypeOK, ScheduleOK
  <2>3. /\ UNCHANGED <<room, ops, pending, run, late>> /\ listed' = Upserted(task[t].row)
        /\ late' \subseteq late
    BY <1>2 DEF UpsertServed
  <2> QED
    BY <2>1, <2>2, <2>3, ServeList
<1>3. ASSUME NEW t \in Task, UpsertAnswered(t) PROVE ProjectionOK'
  <2>1. /\ task[t].row \in Entries /\ task[t].due \in Nat
        /\ Fits(task[t].row, l, state, Row.players, Row.spectators) /\ Behind(task[t].row, listed)
    BY <1>1, <1>3, EntryTypes DEF UpsertAnswered, UnderWay, Entries, TypeOK, ScheduleOK
  <2>2. Keeps
    BY <1>3, <2>1, DoneKeeps DEF UpsertAnswered
  <2>3. /\ UNCHANGED <<room, run, late, listed>>
        /\ \A u \in Task : task'[u] # None => task'[u] = task[u]
    BY <1>3 DEF UpsertAnswered, TypeOK, ScheduleOK
  <2> QED
    BY <2>2, <2>3, KeepList DEF Keeps
<1>4. ASSUME NEW t \in Task, UpsertFailed(t) PROVE ProjectionOK'
  <2>1. task[t].due \in Nat
    BY <1>4 DEF UpsertFailed, TypeOK, ScheduleOK
  <2>2. Keeps
    BY <1>4, <2>1, RetriedKeeps DEF UpsertFailed
  <2>3. /\ UNCHANGED <<room, run, listed>>
        /\ \A u \in Task : task'[u] # None => task'[u] = task[u]
    BY <1>4 DEF UpsertFailed, TypeOK, ScheduleOK
  <2>4. \A w \in late' : w \in late \/ w = task[t].row
    BY <1>4 DEF UpsertFailed, Outcomes
  <2> QED
    BY <1>4, <2>2, <2>3, <2>4, KeepList DEF Keeps, UpsertFailed
<1>5. ASSUME NEW w \in late, LateWrite(w) PROVE ProjectionOK'
  <2>1. w \in Entries /\ Fits(w, l, state, Row.players, Row.spectators)
    BY <1>1, EntryTypes DEF UnderWay
  <2>2. /\ UNCHANGED <<room, ops, pending, run, task>> /\ listed' = Upserted(w)
        /\ late' \subseteq late
    BY <1>5, <2>1 DEF LateWrite, Fits
  <2> QED
    BY <2>1, <2>2, ServeList
<1> QED
  BY <1>2, <1>3, <1>4, <1>5 DEF D1

\* The alarm handler reads the operations, with the row of "index".
LEMMA FiresShown ==
  ASSUME TypeOK, TypeOK', ListParts, AlarmFires
  PROVE  Active' => ProjectionOK'
<1> SUFFICES ASSUME ProjectionOK PROVE ProjectionOK'
  BY DEF ListParts, Active, AlarmFires, room
<1>1. UNCHANGED <<room, ops, pending, task, late, listed>>
  BY DEF AlarmFires
<1>2. Keeps
  BY <1>1, SameKeeps
<1>3. /\ ~run'.served /\ run'.row = pending
      /\ Awaits(run') => ops["index"] # None
  BY EntryTypes DEF AlarmFires, Awaits
<1> QED
  BY <1>1, <1>2, <1>3, KeepList DEF Keeps

LEMMA UpsertsShown ==
  ASSUME TypeOK, TypeOK', RunOK, ListParts,
         AlarmIndex \/ AlarmUpsertServed \/ AlarmUpsertAnswered \/ AlarmUpsertFailed
  PROVE  Active' => ProjectionOK'
<1> SUFFICES ASSUME ProjectionOK PROVE ProjectionOK'
  BY DEF ListParts, Active, AlarmIndex, AlarmUpsertServed, AlarmUpsertAnswered,
         AlarmUpsertFailed, room
<1> DEFINE l == Last(ops["index"], pending, listed)
<1>1. UnderWay(l, state, Row.players, Row.spectators, run, task, late, listed)
  BY ProjectionIs
<1>2. "index" \in Op
  BY OpNames
<1>3. ~Awaits(Passed("index")) /\ ~Passed("index").served
  BY <1>2, PassedFields DEF Awaits
<1>4. CASE AlarmIndex
  <2>1. UNCHANGED <<room, ops, pending, task, late, listed>>
    BY <1>4 DEF AlarmIndex
  <2>2. Keeps
    BY <2>1, SameKeeps
  <2>3. Awaits(run) /\ ~run.served /\ run'.row = run.row /\ run'.served = run.served
    BY <1>1, <1>4 DEF AlarmIndex, At, Locked, Awaits, UnderWay, TypeOK, ScheduleOK
  <2> QED
    BY <2>1, <2>2, <2>3, KeepList DEF Keeps
<1>5. CASE AlarmUpsertServed
  <2>1. run.row \in Entries /\ Fits(run.row, l, state, Row.players, Row.spectators)
    BY <1>1, <1>5, EntryTypes DEF AlarmUpsertServed, UnderWay, Awaits
  <2>2. /\ UNCHANGED <<room, ops, pending, task, late>> /\ listed' = Upserted(run.row)
        /\ run'.pc = run.pc /\ run'.due = run.due /\ run'.row = run.row /\ run.pc = "upsert"
        /\ late' \subseteq late
    BY <1>5 DEF AlarmUpsertServed, TypeOK, ScheduleOK
  <2> QED
    BY <2>1, <2>2, ServeList
<1>6. CASE AlarmUpsertAnswered
  <2>1. /\ run.row \in Entries /\ run.due["index"] \in Nat
        /\ Fits(run.row, l, state, Row.players, Row.spectators) /\ Behind(run.row, listed)
    BY <1>1, <1>6, EntryTypes DEF AlarmUpsertAnswered, UnderWay, Awaits, RunOK
  <2>2. Keeps
    BY <1>6, <2>1, DoneKeeps DEF AlarmUpsertAnswered
  <2>3. UNCHANGED <<room, task, late, listed>> /\ run' = Passed("index")
    BY <1>6 DEF AlarmUpsertAnswered
  <2> QED
    BY <1>3, <2>2, <2>3, KeepList DEF Keeps
<1>7. CASE AlarmUpsertFailed
  <2>1. run.due["index"] \in Nat
    BY <1>7 DEF AlarmUpsertFailed, RunOK
  <2>2. Keeps
    BY <1>7, <2>1, RetriedKeeps DEF AlarmUpsertFailed
  <2>3. UNCHANGED <<room, task, listed>> /\ run' = Passed("index") /\ Awaits(run)
    BY <1>7 DEF AlarmUpsertFailed, Awaits
  <2>4. \A w \in late' : w \in late \/ w = run.row
    BY <1>7 DEF AlarmUpsertFailed, Outcomes
  <2> QED
    BY <1>3, <2>2, <2>3, <2>4, KeepList DEF Keeps
<1> QED
  BY <1>4, <1>5, <1>6, <1>7

LEMMA RestartShown ==
  ASSUME TypeOK, TypeOK', RunOK, ListParts, Restart
  PROVE  Active' => ProjectionOK'
<1> SUFFICES ASSUME ProjectionOK, Active PROVE ProjectionOK'
  BY DEF ListParts, Active, Restart, room
<1>1. UNCHANGED <<room, ops, pending, listed>> /\ run' = Idle
  BY DEF Restart
<1>2. Keeps
  BY <1>1, SameKeeps
<1>3. \A t \in Task : task'[t] = None
  BY DEF Restart
<1>4. run.pc # "delete"
  BY DEF RunOK, Active
<1>5. \A w \in late' : \/ w \in late
                       \/ \E t \in Task : task[t] # None /\ task[t].row = w
                       \/ Awaits(run) /\ w = run.row
  BY <1>4 DEF Restart, Unserved, Awaits
<1> QED
  BY <1>1, <1>2, <1>3, <1>5, IdleAwaits, KeepList DEF Keeps

LEMMA AlarmShown ==
  ASSUME TypeOK, TypeOK', RunOK, ListParts, AlarmStep
  PROVE  Active' => ProjectionOK'
<1>0. ops \in Times /\ \A x \in Op \ {"index"} : \A d : [ops EXCEPT ![x] = d]["index"] = ops["index"]
  BY IndexKept DEF TypeOK, ScheduleOK
<1>1. CASE AlarmIndex \/ AlarmUpsertServed \/ AlarmUpsertAnswered \/ AlarmUpsertFailed
  BY <1>1, UpsertsShown
<1>2. CASE AlarmRetention
  <2>1. CASE state = "finished"
    BY <1>2, <2>1 DEF AlarmRetention, DeleteRoom, Active, room
  <2>2. CASE state # "finished"
    <3>1. /\ UNCHANGED <<state, joinedAt, revision>> /\ Locked
          /\ Continue("retention", [ops EXCEPT !["retention"] = None])
      BY <1>2, <2>2 DEF AlarmRetention, room, At
    <3> QED
      BY <1>0, <3>1, OpNames, RoomAssumption, ContinueShown
  <2> QED
    BY <2>1, <2>2
<1>3. CASE AlarmDeleteServed \/ AlarmDeleteAnswered \/ AlarmDeleteFailed
  BY <1>3 DEF AlarmDeleteServed, AlarmDeleteAnswered, AlarmDeleteFailed, DeleteRoom, Active, RunOK, room
<1>4. ASSUME NEW p \in Participant, AlarmDisconnect(p) PROVE Active' => ProjectionOK'
  <2>1. p \in Op \ {"index"} /\ Locked /\ run.due[p] # None
    BY <1>4, OpNames DEF AlarmDisconnect, At
  <2>2. Expiring
    BY <2>1 DEF ListParts
  <2>3. CASE Remove(p) /\ Continue(p, AfterRemoval(ops, p))
    <3>1. AfterRemoval(ops, p)["index"] = ops["index"]
      BY <1>0, IndexKept
    <3> QED
      BY <2>1, <2>2, <2>3, <3>1, ContinueShown
  <2>4. ASSUME UNCHANGED room, NEW d, Continue(p, [ops EXCEPT ![p] = d])
        PROVE  Active' => ProjectionOK'
    <3>1. [ops EXCEPT ![p] = d]["index"] = ops["index"] /\ UNCHANGED <<state, joinedAt, revision>>
      BY <1>0, <2>1, <2>4 DEF room
    <3> QED
      BY <2>1, <2>4, <3>1, ContinueShown
  <2> QED
    BY <1>4, <2>3, <2>4 DEF AlarmDisconnect
<1>5. CASE AlarmCleanup
  <2>1. PICK d : Continue("cleanup", [ops EXCEPT !["cleanup"] = d])
    BY <1>5 DEF AlarmCleanup
  <2>2. UNCHANGED <<state, joinedAt, revision>> /\ Locked
    BY <1>5 DEF AlarmCleanup, room, At
  <2> QED
    BY <1>0, <2>1, <2>2, OpNames, RoomAssumption, ContinueShown
<1>6. CASE AlarmMarker
  <2>1. UNCHANGED <<state, joinedAt, revision>> /\ Locked
    BY <1>6 DEF AlarmMarker, room, At
  <2> QED
    BY <1>0, <1>6, <2>1, OpNames, RoomAssumption, ContinueShown DEF AlarmMarker
<1>7. CASE AlarmEnds
  <2>1. UNCHANGED <<state, joinedAt, revision>> /\ revision <= revision'
    <3>1. UNCHANGED <<state, joinedAt, revision>>
      BY <1>7 DEF AlarmEnds, room
    <3> QED
      BY <3>1 DEF TypeOK
  <2> QED
    BY <1>7, <2>1, QuietShown DEF AlarmEnds, RunQuiet
<1> QED
  BY <1>1, <1>2, <1>3, <1>4, <1>5, <1>6, <1>7 DEF AlarmStep

\* Whatever the handlers of a public Room do, no row that may still be written is
\* later than the latest one, or as late and of another content.
LEMMA ShownStep ==
  ASSUME TypeOK, TypeOK', SessionsOK, RunOK, ListParts, None \notin Rows, Public, [Next]_vars
  PROVE  Active' => ProjectionOK'
<1>1. revision \in Nat
  BY DEF TypeOK
<1>2. CASE Tick
  BY <1>1, <1>2, QuietShown DEF Tick, room, projection, RunQuiet
<1>3. CASE UNCHANGED vars
  BY <1>1, <1>3, QuietShown DEF vars, room, projection, RunQuiet
<1> QED
  BY <1>2, <1>3, LifecycleShown, WebSocketsShown, D1Shown, FiresShown, AlarmShown, RestartShown
     DEF Next

\* Before initialize() no handler finds anything to do.
LEMMA NothingStep ==
  ASSUME state = "none", NothingYet, [Next]_vars, state' = "none"
  PROVE  NothingYet'
<1> USE DEF Active, Exists
<1>1. Members' = {} /\ UNCHANGED <<ops, alarm, listed, run, task, late>> => NothingYet'
  BY DEF NothingYet
<1>2. ~Lifecycle
  <2>1. ~Initialize /\ ~InitializeAgain
    BY DEF Initialize, InitializeAgain
  <2>2. \A p \in Participant : ~Join(p) /\ ~DisconnectCall(p)
    BY DEF Join, DisconnectCall, NothingYet
  <2>3. \A r \in Request \cup {None} : \A p \in Participant :
          /\ ~Leave(p, r) /\ ~SelectTeam(p, r) /\ ~TransferHost(p, r) /\ ~Kick(p, r)
          /\ \A value \in BOOLEAN : ~SetReady(p, value, r)
    BY DEF Leave, SelectTeam, TransferHost, Kick, SetReady
  <2>4. \A r \in Request \cup {None} :
          ~UpdateSettings(r) /\ ~StartMatch(r) /\ \A at \in 0 .. MaxTime : ~Close(at, r)
    BY DEF UpdateSettings, StartMatch, Close
  <2>5. \A next : ~Transition(next)
    BY DEF Transition, AllowedTransition
  <2>6. ~CancelScheduledOperation /\ \A at : ~ScheduleOperation(at)
    BY OpNames DEF CancelScheduledOperation, ScheduleOperation, NothingYet, NoDue
  <2> QED
    BY <2>1, <2>2, <2>3, <2>4, <2>5, <2>6 DEF Lifecycle
<1>3. CASE WebSockets
  <2>1. ASSUME NEW c, NEW g, SocketError(c, g) \/ SocketClose(c, g)
        PROVE  UNCHANGED <<joinedAt, ops, alarm, listed, run, task, late>>
    BY <2>1 DEF SocketError, SocketClose, MarkDisconnected, Return, room, projection
  <2>2. \A p, r, c : ~GameMessage(p, r) /\ ~Connect(c, p) /\ ~ResumeSession(c) /\ ~ResumeTooLate(c)
    BY DEF GameMessage, Connect, ResumeSession, ResumeTooLate, Resumable
  <2>3. UNCHANGED <<joinedAt, ops, alarm, listed, run, task, late>>
    BY <1>3, <2>1, <2>2 DEF WebSockets
  <2> QED
    BY <1>1, <2>3 DEF Members, NothingYet
<1>4. ~D1 /\ ~AlarmFires /\ ~Restart
  BY DEF D1, UpsertServed, UpsertAnswered, UpsertFailed, AlarmFires, Restart, NothingYet, Idle
<1>5. ~AlarmStep
  BY DEF AlarmStep, AlarmIndex, AlarmUpsertServed, AlarmUpsertAnswered, AlarmUpsertFailed,
         AlarmRetention, AlarmDeleteServed, AlarmDeleteAnswered, AlarmDeleteFailed,
         AlarmDisconnect, AlarmCleanup, AlarmMarker, AlarmEnds, At, Locked, NothingYet, Idle
<1>6. CASE Tick \/ UNCHANGED vars
  BY <1>1, <1>6 DEF Tick, vars, room, projection, Members, NothingYet
<1> QED
  BY <1>2, <1>3, <1>4, <1>5, <1>6 DEF Next

\* Nobody waits for the end of a grace period.
NoGrace == \A p \in Participant : ops[p] = None /\ run.due[p] = None

Free(o) == DOMAIN o = Op /\ \A p \in Participant : o[p] = None

LEMMA FreeOps ==
  ASSUME TypeOK, NoGrace
  PROVE  /\ Free(ops)
         /\ \A o, r : Free(o) => Free(WithCleanup(o, r))
         /\ \A o, at : Free(o) => Free(WithRetention(o, at))
         /\ \A o : \A p \in Participant : Free(o) => Free(AfterRemoval(o, p))
         /\ \A x \in {"retention", "cleanup", "index", "marker"} :
              \A d : Free([ops EXCEPT ![x] = d])
         /\ \A p \in Participant : Free([ops EXCEPT ![p] = None])
         /\ \A row, due : Free(Done(row, due)) /\ Free(Retried(row, due))
<1> USE OpNames DEF Free
<1>1. Free(ops)
  BY DEF NoGrace, TypeOK, ScheduleOK, Times
<1>2. \A o : \A x \in {"retention", "cleanup", "index", "marker"} : \A d :
        Free(o) => Free([o EXCEPT ![x] = d])
  OBVIOUS
<1>3. \A o : \A p \in Participant : Free(o) => Free([o EXCEPT ![p] = None])
  OBVIOUS
<1> HIDE DEF Free
<1>4. \A o, r : Free(o) => Free(WithCleanup(o, r))
  BY <1>2 DEF WithCleanup
<1>5. \A o, at : Free(o) => Free(WithRetention(o, at))
  BY <1>2 DEF WithRetention
<1>6. \A o : \A p \in Participant : Free(o) => Free(AfterRemoval(o, p))
  BY <1>3, <1>5 DEF AfterRemoval
<1>7. \A row, due : Free(Done(row, due)) /\ Free(Retried(row, due))
  BY <1>1, <1>2 DEF Done, Retried
<1> QED
  BY <1>1, <1>2, <1>3, <1>4, <1>5, <1>6, <1>7

LEMMA FreeStays ==
  ASSUME TypeOK, NoGrace, NEW o, Free(o)
  PROVE  /\ \A armed, arms : Conclude(o, armed, arms) => NoGrace'
         /\ \A armed : Return(o, armed) => NoGrace'
         /\ \A x \in Op : Continue(x, o) => NoGrace'
<1>1. Free([o EXCEPT !["index"] = now])
  BY OpNames DEF Free
<1>2. Free(ops') /\ run' = run => NoGrace'
  BY DEF Free, NoGrace
<1>3. ASSUME NEW armed, NEW arms, Conclude(o, armed, arms) PROVE NoGrace'
  BY <1>1, <1>2, <1>3 DEF Conclude, SyncIndex, projection
<1>4. ASSUME NEW armed, Return(o, armed) PROVE NoGrace'
  BY <1>2, <1>4 DEF Return, projection
<1>5. ASSUME NEW x \in Op, Continue(x, o) PROVE NoGrace'
  <2>1. \A p \in Participant : Passed(x).due[p] = None
    BY PassedFields, OpNames DEF NoGrace
  <2> QED
    BY <1>5, <2>1 DEF Continue, Free, NoGrace
<1> QED
  BY <1>3, <1>4, <1>5

\* Without connections and without disconnect() there is no grace period.
LEMMA GraceStep ==
  ASSUME TypeOK, NoGrace, ~Expiring, [Next]_vars
  PROVE  NoGrace'
<1>0. Resume = {} /\ "disconnect" \notin Rpc
  BY DEF Expiring
<1>1. CASE Lifecycle
  <2> USE FreeOps, FreeStays
  <2>1. CASE Initialize \/ InitializeAgain
    BY <2>1 DEF Initialize, InitializeAgain
  <2>2. ASSUME NEW p \in Participant, Join(p) \/ DisconnectCall(p) PROVE NoGrace'
    BY <1>0, <2>2 DEF Join, DisconnectCall
  <2>3. ASSUME NEW p \in Participant, NEW r \in Request \cup {None}, Leave(p, r) PROVE NoGrace'
    BY <2>3 DEF Leave
  <2>4. ASSUME NEW p \in Participant, NEW r \in Request \cup {None}, SelectTeam(p, r)
        PROVE NoGrace'
    BY <2>4 DEF SelectTeam
  <2>5. ASSUME NEW p \in Participant, NEW r \in Request \cup {None}, TransferHost(p, r)
        PROVE NoGrace'
    BY <2>5 DEF TransferHost
  <2>6. ASSUME NEW p \in Participant, NEW r \in Request \cup {None}, Kick(p, r) PROVE NoGrace'
    BY <2>6 DEF Kick
  <2>7. ASSUME NEW p \in Participant, NEW value \in BOOLEAN, NEW r \in Request \cup {None},
               SetReady(p, value, r)
        PROVE NoGrace'
    BY <2>7 DEF SetReady
  <2>8. ASSUME NEW r \in Request \cup {None}, UpdateSettings(r) \/ StartMatch(r) PROVE NoGrace'
    BY <2>8 DEF UpdateSettings, StartMatch
  <2>9. ASSUME NEW r \in Request \cup {None}, NEW at \in 0 .. MaxTime, Close(at, r) PROVE NoGrace'
    BY <2>9 DEF Close
  <2>10. ASSUME NEW next, Transition(next) PROVE NoGrace'
    BY <2>10 DEF Transition
  <2>11. CASE CancelScheduledOperation \/ \E at \in 0 .. MaxTime : ScheduleOperation(at)
    BY <2>11 DEF CancelScheduledOperation, ScheduleOperation
  <2> QED
    BY <1>1, <2>1, <2>2, <2>3, <2>4, <2>5, <2>6, <2>7, <2>8, <2>9, <2>10, <2>11 DEF Lifecycle
<1>2. CASE WebSockets
  <2>1. PICK p \in Participant, r \in Request : GameMessage(p, r)
    BY <1>0, <1>2 DEF WebSockets
  <2> QED
    BY <2>1, FreeOps, FreeStays DEF GameMessage
<1>3. CASE D1
  <2>1. run' = run /\ Free(ops')
    BY <1>3, FreeOps DEF D1, UpsertServed, UpsertAnswered, UpsertFailed, LateWrite
  <2> QED
    BY <2>1 DEF NoGrace, Free
<1>4. CASE AlarmFires
  BY <1>4, OpNames DEF AlarmFires, NoGrace
<1>5. CASE AlarmStep
  <2>1. /\ \A p \in Participant : Idle.due[p] = None
        /\ \A x \in Op : \A p \in Participant : Passed(x).due[p] = None
    BY PassedFields, OpNames DEF NoGrace, Idle, NoDue
  <2>2. ASSUME Free(ops'), \A p \in Participant : run'.due[p] = None PROVE NoGrace'
    BY <2>2 DEF NoGrace, Free
  <2>3. run.due = [x \in Op |-> run.due[x]] /\ Free(NoDue) /\ {"index", "retention"} \subseteq Op
    BY OpNames DEF TypeOK, ScheduleOK, Times, Free, NoDue
  <2>4. CASE AlarmIndex \/ AlarmUpsertServed
    <3>1. run'.due = run.due /\ ops' = ops
      BY <2>4 DEF AlarmIndex, AlarmUpsertServed, TypeOK, ScheduleOK
    <3> QED
      BY <3>1 DEF NoGrace
  <2>5. CASE AlarmUpsertAnswered \/ AlarmUpsertFailed
    BY <2>1, <2>2, <2>3, <2>5, FreeOps DEF AlarmUpsertAnswered, AlarmUpsertFailed
  <2>6. CASE DeleteRoom
    BY <2>1, <2>2, <2>3, <2>6 DEF DeleteRoom
  <2>7. CASE AlarmRetention
    <3>1. CASE DeleteRoom
      BY <2>6, <3>1
    <3>2. CASE run' = [run EXCEPT !.pc = "delete"] /\ ops' = ops
      <4>1. run'.due = run.due
        BY <3>2 DEF TypeOK, ScheduleOK
      <4> QED
        BY <3>2, <4>1 DEF NoGrace
    <3>3. CASE Continue("retention", [ops EXCEPT !["retention"] = None])
      BY <2>3, <3>3, FreeOps, FreeStays
    <3> QED
      BY <2>7, <3>1, <3>2, <3>3 DEF AlarmRetention
  <2>8. CASE AlarmDeleteServed
    <3>1. run'.due = run.due /\ ops' = ops
      BY <2>8 DEF AlarmDeleteServed, TypeOK, ScheduleOK
    <3> QED
      BY <3>1 DEF NoGrace
  <2>9. CASE AlarmDeleteAnswered
    BY <2>6, <2>9 DEF AlarmDeleteAnswered
  <2>10. CASE AlarmDeleteFailed
    <3>1. \E d : ops' = ops \/ ops' = [ops EXCEPT !["retention"] = d]
      BY <2>10 DEF AlarmDeleteFailed
    <3> QED
      BY <2>1, <2>2, <2>3, <2>10, <3>1, FreeOps DEF AlarmDeleteFailed
  <2>11. ASSUME NEW p \in Participant, AlarmDisconnect(p) PROVE NoGrace'
    BY <2>11 DEF AlarmDisconnect, At, NoGrace
  <2>12. CASE AlarmCleanup \/ AlarmMarker
    BY <2>12, FreeOps, FreeStays, OpNames DEF AlarmCleanup, AlarmMarker
  <2>13. CASE AlarmEnds
    BY <2>1, <2>13 DEF AlarmEnds, NoGrace
  <2> QED
    BY <1>5, <2>4, <2>5, <2>7, <2>8, <2>9, <2>10, <2>11, <2>12, <2>13 DEF AlarmStep
<1>6. CASE Restart \/ Tick \/ UNCHANGED vars
  BY <1>6 DEF Restart, Tick, vars, projection, NoGrace, Idle, NoDue, Op
<1> QED
  BY <1>1, <1>2, <1>3, <1>4, <1>5, <1>6 DEF Next

LEMMA ListStep ==
  ASSUME None \notin Rows, Inv, Inv', ListInv, [Next]_vars
  PROVE  ListInv'
<1> SUFFICES ASSUME Public PROVE ListInv'
  BY DEF ListInv
<1>1. ListParts
  BY DEF ListInv, ListParts
<1>2. state' = "none" => state = "none"
  BY LobbyStep DEF Inv, Promise!Next, Promise!lobby, Promise!Open, Promise!Arrive,
     Promise!Depart, Promise!HandOver, Promise!Advance, Promise!Finish, Promise!Delete
<1>3. state' = "none" => NothingYet'
  BY <1>1, <1>2, NothingStep DEF ListParts
<1>4. Active' => ProjectionOK'
  BY <1>1, ShownStep DEF Inv
<1>5. ~Expiring => NoGrace'
  BY <1>1, GraceStep DEF ListParts, NoGrace, Inv
<1> QED
  BY <1>3, <1>4, <1>5 DEF ListInv, NoGrace

\* With no upsert left to be repeated, the list shows a public Room as it is, in
\* whichever order D1 executed, lost or answered the upserts and however often
\* the object restarted meanwhile.
THEOREM ListIsCurrent ==
  ASSUME None \notin Rows
  PROVE  Spec => []ListCurrent
<1>1. Init => ListInv
  BY OpNames DEF Init, ListInv, NothingYet, Active, Members, NoDue, Idle
<1>2. Inv /\ Inv' /\ ListInv /\ [Next]_vars => ListInv'
  BY ListStep
<1>3. ListInv => ListCurrent
  <2> SUFFICES ASSUME ListInv, Public, Active, ops["index"] = None
               PROVE  listed # None /\ ShowsRoom(listed)
    BY DEF ListCurrent
  <2>1. listed # None /\ OnTime(listed) /\ Latest = listed.revision
    BY DEF ListInv, ProjectionOK, Latest
  <2> QED
    BY <2>1 DEF OnTime
<1> QED
  BY <1>1, <1>2, <1>3, RoomInvariant, PTL DEF Spec
=============================================================================
