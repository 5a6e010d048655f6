--------------------------- MODULE RoomProperties ---------------------------
(* What one Room promises. *)
EXTENDS Room

Time == Nat \cup {None}
Rows == [revision : Nat, state : {"waiting", "preparing", "in_progress", "finished"},
         players : Nat, spectators : Nat]
Connections == [who : Participant \cup {None}, generation : Nat, live : BOOLEAN,
                at : Time, valid : BOOLEAN]

Times == [Op -> Time]

ScheduleOK ==
  /\ ops \in Times
  /\ pending \in Rows \cup {None}
  /\ alarm \in Time
  /\ run \in [pc : {"idle", "loop", "upsert", "delete"}, due : Times,
              row : Rows \cup {None}, at : Nat, served : BOOLEAN]
  /\ task \in [Task -> [row : Rows, due : Nat, served : BOOLEAN] \cup {None}]
  /\ late \subseteq Rows \cup {None}
  /\ listed \in Rows \cup {None}
  /\ now \in Nat

\* The types of all variables.
TypeOK ==
  /\ state \in {"none", "waiting", "preparing", "in_progress", "finished", "deleted"}
  /\ host \in Participant \cup {None}
  /\ joinedAt \in [Participant -> Time]
  /\ ready \subseteq Participant
  /\ revision \in Nat
  /\ events \in Seq(Nat)
  /\ conn \in [Resume -> Connections]
  /\ open \subseteq Resume \X Nat
  /\ broken \subseteq Resume \X Nat
  /\ processed \in [Request -> Time]
  /\ ScheduleOK

\* A custom Room that is not over has a host, and the host is one of its
\* players, however the former one went: leave, hand-over, expiry.
HostPlays == Active /\ Custom => host \in Players

\* The retained events are the latest revisions without a gap or a repetition,
\* so a resumption from any of them can be answered by events (readResumeEvents).
HistoryIsTail ==
  /\ Len(events) <= HistoryLimit
  /\ \A i \in 1..Len(events) : events[i] + Len(events) = revision + i
  /\ Len(events) < HistoryLimit => Len(events) = revision

\* What must happen later has its scheduled operation: the removal of a
\* participant all of whose connections are lost, the deletion of a finished
\* Room, and the removal of stored results no later than the first expires.
DutiesScheduled ==
  /\ Active => \A p \in Members : ConnectionsOf(p) # {} /\ ~Connected(p) => ops[p] # None
  /\ state = "finished" => ops["retention"] # None
  /\ \A r \in Request : processed[r] # None =>
       ops["cleanup"] # None /\ ops["cleanup"] <= processed[r]

\* Nobody waits for D1 and the alarm handler does not run.
Quiet == run.pc = "idle" /\ \A t \in Task : task[t] = None

\* When no handler waits, the one alarm of the object is set, and not later
\* than the first scheduled operation is due (synchronizeAlarm).
AlarmCovers ==
  Quiet => \A o \in Op : ops[o] # None => alarm # None /\ alarm <= ops[o]

\* p holds a WebSocket neither error nor close of which was delivered.
Attached(p) ==
  \E c \in Resume : conn[c].who = p /\ conn[c].valid /\ <<c, conn[c].generation>> \in open

\* The grace period never removes somebody who is connected: not after a
\* resumption, and not when a late event of the previous WebSocket arrives.
ConnectedStays ==
  [][(AlarmStep \/ \E c \in Resume : ResumeTooLate(c)) /\ Active
       => \A p \in Members : Attached(p) => p \in Members']_vars

\* Somebody whose connections are all lost, with the grace period inside the run.
Abandoned(p) ==
  /\ Active
  /\ p \in Members
  /\ ConnectionsOf(p) # {}
  /\ ~Connected(p)
  /\ \A c \in ConnectionsOf(p) : conn[c].at + Grace <= MaxTime

\* The place of a participant who does not come back is freed: it is removed,
\* it resumes, or the Room is over.
AbandonedLeaves == \A p \in Participant : Abandoned(p) ~> ~Abandoned(p)

\* A finished Room is deleted once its retention has passed.
FinishedIsDeleted ==
  (state = "finished" /\ ops["retention"] <= MaxTime) ~> (state = "deleted")

\* What the one alarm is for happens in the end.
TimeIsKept == AbandonedLeaves /\ FinishedIsDeleted

\* A participant may be removed because a grace period is over.
Expiring == Resume # {} \/ "disconnect" \in Rpc

\* row says of the Room what it is.  Who was removed after a grace period may
\* still be counted: that removal is not projected.
ShowsRoom(row) ==
  /\ row.state = state
  /\ row.players >= Row.players
  /\ row.spectators >= Row.spectators
  /\ ~Expiring => row.players = Row.players /\ row.spectators = Row.spectators

\* Once no upsert of a public Room is left to be repeated, the list in D1 shows
\* the Room as it is, whichever order D1 executed and answered the upserts in.
ListCurrent ==
  Public /\ Active /\ ops["index"] = None => listed # None /\ ShowsRoom(listed)

\* The list never shows an older revision after a newer one.
ListNeverBack ==
  [][listed # None /\ listed' # None => listed'.revision >= listed.revision]_vars

\* The lobby the Room implements.
Promise == INSTANCE Lobby WITH
  Everyone <- Participant, Audience <- Spectator, Owner <- Founder,
  present <- Members, leader <- host, phase <- state
LobbyPromise == Promise!Spec
-----------------------------------------------------------------------------
(* What the properties above rest on. *)

\* A lost connection was seen before now; the latest WebSocket of a valid session
\* counts as lost once something happened to it; nobody connects to no Room.
SessionsOK ==
  \A c \in Resume :
    /\ conn[c].valid => conn[c].who \in Participant /\ state # "none"
    /\ conn[c].valid /\ ~conn[c].live => conn[c].at \in Nat /\ conn[c].at <= now
    /\ conn[c].valid /\ <<c, conn[c].generation>> \in open => conn[c].live

\* What the alarm handler waits for is an operation it read, and only a finished
\* Room is being deleted.
RunOK ==
  /\ run.pc = "upsert" => run.due["index"] \in Nat
  /\ run.pc = "delete" => run.due["retention"] \in Nat /\ state = "finished"

Inv == TypeOK /\ SessionsOK /\ RunOK /\ DutiesScheduled

\* The revision of the last row that was handed to the projection: until it is
\* in the list, the operation "index" keeps it.
Latest == IF ops["index"] # None THEN pending.revision ELSE listed.revision

\* A row that may still be written, or has been: none is later than the latest,
\* and one as late shows the Room.
OnTime(row) ==
  /\ row # None
  /\ row.revision <= Latest
  /\ row.revision = Latest => ShowsRoom(row)

Overtaken(row) == listed # None /\ row.revision <= listed.revision

\* The rows of an active Room, wherever they are: in the operation, with a
\* handler that waits, with the alarm handler, on their own, in the list.
ProjectionOK ==
  /\ Latest <= revision
  /\ IF ops["index"] = None THEN listed # None ELSE OnTime(pending)
  /\ listed # None => OnTime(listed)
  /\ \A t \in Task : task[t] # None =>
       OnTime(task[t].row) /\ (task[t].served => Overtaken(task[t].row))
  /\ run.pc = "upsert" \/ (run.pc = "loop" /\ run.due["index"] # None) => OnTime(run.row)
  /\ run.served => run.pc = "upsert" /\ Overtaken(run.row)
  /\ \A w \in late : OnTime(w)

\* Before initialize() there is nobody in the Room and nothing to do.
NothingYet ==
  /\ Members = {}
  /\ ops = NoDue
  /\ alarm = None
  /\ listed = None
  /\ run = Idle
  /\ \A t \in Task : task[t] = None
  /\ late = {}

\* The inductive invariant of ListCurrent.
ListInv ==
  Public =>
    /\ state = "none" => NothingYet
    /\ Active => ProjectionOK
    /\ ~Expiring => \A p \in Participant : ops[p] = None /\ run.due[p] = None
=============================================================================
