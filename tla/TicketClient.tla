----------------------------- MODULE TicketClient -----------------------------
(***************************************************************************)
(* The ticket handle of the client SDK (MatchmakingTicketImpl): its HTTP   *)
(* requests, its event connection and its waiters, against the Match Pool  *)
(* as this one ticket sees it.                                             *)
(*                                                                         *)
(* A step of the client is one task of its event loop with the microtasks  *)
(* behind it.  The events of other tickets, which only make gaps in the    *)
(* sequence, are left out: an event is the index of its row.               *)
(***************************************************************************)
EXTENDS Integers, Sequences

CONSTANTS
  Waiter,       \* calls of waitForMatch()
  MaxAttempts,  \* reconnect.maxAttempts
  MaxDrops,     \* bound: connections and attempts the network loses
  MaxFailures,  \* bound: HTTP requests that fail
  Faults        \* of "abort", "dispose", "release", "refusal"

ASSUME TicketClientAssumption ==
  {MaxAttempts, MaxDrops, MaxFailures} \subseteq Nat

VARIABLES
  events,    \* flarelobby_matchmaking_events of the ticket; empty before it exists
  status,    \* its row
  join,      \* where joinMatchmaking() is: "idle", "posting", "confirming" an aborted
             \* POST, "starting", "cancelling", or "returned", "failed", "withdrawn"
  aborted,   \* the AbortSignal of joinMatchmaking()
  http,      \* the requests: "none", "sent", "failed" or the status they answer
  failures,
  socket,    \* "none", "connecting", "accepted" by the Pool, "open" at the client
  wire,      \* events of the Pool on the socket
  drops,
  shown,     \* snapshotState
  last,      \* lastSequence
  ended,     \* terminalProgressStatus is set
  told,      \* terminal progress notifications so far
  stopped,   \* dispose() was called
  timer,     \* reconnectTimer is set
  attempts,  \* reconnectAttempt
  waiter,    \* what waitForMatch() returned
  room       \* roomPromise: "none", "loading", "ready"

server == <<events, status>>
requests == <<http, failures>>
link == <<socket, wire, drops, timer, attempts>>
handle == <<shown, last, ended, told, stopped, waiter, room>>
vars == <<server, join, aborted, requests, link, handle>>

Rank == [creating |-> 0, waiting |-> 1, reserved |-> 2, matched |-> 3, cancelled |-> 3, expired |-> 3]
Terminal == {"matched", "cancelled", "expired"}
Waiting == {v \in Waiter : waiter[v] = "waiting"}

Init ==
  /\ events = << >>
  /\ status = "creating"
  /\ join = "idle"
  /\ aborted = FALSE
  /\ http = [x \in {"create", "refresh", "cancel"} |-> "none"]
  /\ failures = 0
  /\ socket = "none"
  /\ wire = << >>
  /\ drops = 0
  /\ shown = "creating"
  /\ last = 0
  /\ ended = FALSE
  /\ told = 0
  /\ stopped = FALSE
  /\ timer = FALSE
  /\ attempts = 0
  /\ waiter = [v \in Waiter |-> "none"]
  /\ room = "none"
-----------------------------------------------------------------------------
(* The Match Pool *)

\* getWebSockets(tag): whom notifyTicketEvent reaches.
Listening == socket \in {"accepted", "open"}

\* appendTicketEvent, for one change of the row.
Announce(s) ==
  /\ status' = s
  /\ events' = Append(events, s)
  /\ wire' = IF Listening THEN Append(wire, Len(events) + 1) ELSE wire

\* createTicket(): the first of these calls makes the ticket.
CreateServed ==
  /\ join # "idle"
  /\ events = << >>
  /\ status' = "waiting"
  /\ events' = <<"creating", "waiting">>
  /\ UNCHANGED <<join, aborted, requests, link, handle>>

\* Its answer is the ticket as it was at some time since then.
CreateAnswered ==
  /\ http["create"] = "sent"
  /\ \E i \in 2 .. Len(events) : http' = [http EXCEPT !["create"] = events[i]]
  /\ UNCHANGED <<server, join, aborted, failures, link, handle>>

\* getTicket()
RefreshServed ==
  /\ http["refresh"] = "sent"
  /\ http' = [http EXCEPT !["refresh"] = status]
  /\ UNCHANGED <<server, join, aborted, failures, link, handle>>

\* cancelTicket(): a ticket that is reserved or matched is refused.
CancelServed ==
  /\ http["cancel"] = "sent"
  /\ \/ /\ status = "waiting"
        /\ Announce("cancelled")
        /\ http' = [http EXCEPT !["cancel"] = "cancelled"]
     \/ /\ status \in {"cancelled", "expired"}
        /\ http' = [http EXCEPT !["cancel"] = status]
        /\ UNCHANGED <<server, wire>>
     \/ /\ status \in {"reserved", "matched"}
        /\ http' = [http EXCEPT !["cancel"] = "failed"]
        /\ UNCHANGED <<server, wire>>
  /\ UNCHANGED <<join, aborted, failures, socket, drops, timer, attempts, handle>>

Moves == {<<"waiting", "reserved">>, <<"reserved", "matched">>, <<"waiting", "expired">>}

\* Search, settlement, expiry.
Progress ==
  /\ \E m \in Moves : status = m[1] /\ Announce(m[2])
  /\ UNCHANGED <<join, aborted, requests, socket, drops, timer, attempts, handle>>

\* releaseReservedCandidate(): the settlement is given up, and no event tells so.
Release ==
  /\ "release" \in Faults
  /\ status = "reserved"
  /\ status' = "cancelled"
  /\ UNCHANGED <<events, join, aborted, requests, link, handle>>

\* The rows with a later event_id.
After(n) == [i \in 1 .. Len(events) - n |-> n + i]

NothingMissed == << >>    \* mutant: a connection starts with the next event
\* readTicketEvents(after)
Missed == After(last)

\* The upgrade in fetch(): the socket is accepted and the history sent at once.
Accept ==
  /\ socket = "connecting"
  /\ socket' = "accepted"
  /\ wire' = Missed
  /\ UNCHANGED <<server, join, aborted, requests, drops, timer, attempts, handle>>
-----------------------------------------------------------------------------
(* What the handle does with a ticket it is given *)

AnyStatus(s) == TRUE    \* mutant: the latest answer wins
\* applyTicket() never takes a status of a lower rank.
NotBehind(s) == Rank[s] >= Rank[shown]

EndedOrNot == FALSE    \* mutant: terminalProgressStatus is not looked at
\* terminalProgressStatus !== undefined
AlreadyEnded == ended

Settled(v, s) == [waiter EXCEPT ![v] = s]
AllRejected == [v \in Waiter |-> IF v \in Waiting THEN "rejected" ELSE waiter[v]]

\* resolveWaiters(): the waiters of a matched ticket get its Room.
LoadRoom == room' = IF Waiting # {} /\ room = "none" THEN "loading" ELSE room

\* stopConnection(): an attempt that is under way goes on.
HungUp == IF socket = "open" THEN "none" ELSE socket

\* applyTicket(), handleTerminalState()
Apply(s) ==
  IF AlreadyEnded \/ ~NotBehind(s)
    THEN UNCHANGED <<shown, ended, told, waiter, room, socket, timer>>
    ELSE /\ shown' = s
         /\ IF s \in Terminal
              THEN /\ ended' = TRUE
                   /\ told' = told + 1
                   /\ socket' = HungUp
                   /\ timer' = FALSE
                   /\ IF s = "matched"
                        THEN LoadRoom /\ UNCHANGED waiter
                        ELSE waiter' = AllRejected /\ UNCHANGED room
              ELSE UNCHANGED <<ended, told, waiter, room, socket, timer>>

Answered(x) == http' = [http EXCEPT ![x] = "none"]
Send(x) == http' = [http EXCEPT ![x] = "sent"]
IsAnswer(s) == s \notin {"none", "sent", "failed"}
-----------------------------------------------------------------------------
(* joinMatchmaking() *)

Join ==
  /\ join = "idle"
  /\ join' = "posting"
  /\ Send("create")
  /\ UNCHANGED <<server, aborted, failures, link, handle>>

GiveUp == "withdrawn"    \* mutant: an abort is not confirmed
\* An aborted POST is sent once more, without the signal.
Confirm == "confirming"

\* The signal is aborted: connect() and the POST give up at once.
Abort ==
  /\ "abort" \in Faults
  /\ ~aborted
  /\ aborted' = TRUE
  /\ \/ /\ join = "posting"
        /\ join' = Confirm
        /\ Send("create")
        /\ UNCHANGED <<socket, wire>>
     \/ /\ join = "starting"
        /\ join' = "cancelling"
        /\ Send("cancel")
        /\ socket' = "none"
        /\ wire' = << >>
  /\ UNCHANGED <<server, failures, drops, timer, attempts, handle>>

\* start(): a ticket that has ended needs no connection.
Created ==
  /\ join \in {"posting", "confirming"}
  /\ IsAnswer(http["create"])
  /\ shown' = http["create"]
  /\ IF aborted
       THEN /\ join' = "cancelling"
            /\ http' = [http EXCEPT !["create"] = "none", !["cancel"] = "sent"]
            /\ UNCHANGED socket
       ELSE /\ Answered("create")
            /\ IF shown' \in Terminal
                 THEN join' = "returned" /\ UNCHANGED socket
                 ELSE join' = "starting" /\ socket' = "connecting"
  /\ UNCHANGED <<server, aborted, failures, wire, drops, timer, attempts, last, ended, told,
                 stopped, waiter, room>>

\* joinMatchmaking() throws; nobody cancels a ticket the Pool may have made.
CreateFailed ==
  /\ join \in {"posting", "confirming"}
  /\ http["create"] = "failed"
  /\ join' = IF aborted THEN "withdrawn" ELSE "failed"
  /\ Answered("create")
  /\ UNCHANGED <<server, aborted, failures, link, handle>>
-----------------------------------------------------------------------------
(* The event connection *)

\* connect(), attachConnection(): only dispose() is looked for.
Open ==
  /\ socket = "accepted"
  /\ IF stopped
       THEN socket' = "none" /\ wire' = << >> /\ UNCHANGED <<join, attempts>>
       ELSE /\ socket' = "open"
            /\ attempts' = 0
            /\ join' = IF join = "starting" THEN "returned" ELSE join
            /\ UNCHANGED wire
  /\ UNCHANGED <<server, aborted, requests, drops, timer, handle>>

\* handleEvent()
Receive ==
  /\ socket = "open"
  /\ wire # << >>
  /\ IF Head(wire) > last
       THEN last' = Head(wire) /\ Apply(events[Head(wire)])
       ELSE UNCHANGED <<last, shown, ended, told, waiter, room, socket, timer>>
  /\ wire' = IF socket' = "open" THEN Tail(wire) ELSE << >>
  /\ UNCHANGED <<server, join, aborted, requests, drops, attempts, stopped>>

\* The network loses the connection or refuses the attempt, for good or not.
\* handleConnectionClosed(), the catch of attemptReconnect(), of joinMatchmaking().
Drop(retryable) ==
  /\ drops < MaxDrops
  /\ socket # "none"
  /\ drops' = drops + 1
  /\ socket' = "none"
  /\ wire' = << >>
  /\ IF join = "starting"
       THEN /\ join' = "failed"
            /\ stopped' = TRUE
            /\ UNCHANGED timer
       ELSE /\ timer' = (/\ retryable
                         /\ ~stopped
                         /\ attempts < MaxAttempts
                         /\ socket = "open" => shown \notin Terminal)
            /\ UNCHANGED <<join, stopped>>
  /\ UNCHANGED <<server, aborted, requests, attempts, shown, last, ended, told, waiter, room>>

\* attemptReconnect()
TimerFires ==
  /\ timer
  /\ timer' = FALSE
  /\ IF shown \in Terminal
       THEN UNCHANGED <<attempts, socket>>
       ELSE attempts' = attempts + 1 /\ socket' = "connecting"
  /\ UNCHANGED <<server, join, aborted, requests, wire, drops, handle>>
-----------------------------------------------------------------------------
(* refresh(), cancel() *)

Usable == join = "returned" /\ ~stopped

Call(x) ==
  /\ Usable
  /\ http[x] = "none"
  /\ Send(x)
  /\ UNCHANGED <<server, join, aborted, failures, link, handle>>

\* A request comes to nothing; what it asked for may have been done.
HttpFails(x) ==
  /\ failures < MaxFailures
  /\ http[x] # "none"
  /\ http[x] # "failed"
  /\ failures' = failures + 1
  /\ http' = [http EXCEPT ![x] = "failed"]
  /\ UNCHANGED <<server, join, aborted, link, handle>>

\* joinMatchmaking() is done with a ticket whose join was aborted.
Withdraw(x) ==
  IF join = "cancelling" /\ x = "cancel"
    THEN join' = "withdrawn" /\ stopped' = TRUE
    ELSE UNCHANGED <<join, stopped>>

\* The answer is applied even when the handle was disposed of meanwhile.
CallAnswered(x) ==
  /\ IsAnswer(http[x])
  /\ Apply(http[x])
  /\ wire' = IF socket' = "none" THEN << >> ELSE wire
  /\ Answered(x)
  /\ Withdraw(x)
  /\ UNCHANGED <<server, aborted, failures, drops, attempts, last>>

CallFailed(x) ==
  /\ http[x] = "failed"
  /\ Answered(x)
  /\ Withdraw(x)
  /\ UNCHANGED <<server, aborted, failures, link, shown, last, ended, told, waiter, room>>
-----------------------------------------------------------------------------
(* waitForMatch() *)

NoRoom == UNCHANGED room    \* mutant: only a later event loads the Room
\* A ticket that has matched already: resolveWaiters() at once.
RoomAtOnce == room' = IF shown = "matched" /\ room = "none" THEN "loading" ELSE room

Wait(v) ==
  /\ Usable
  /\ waiter[v] = "none"
  /\ CASE shown \in {"cancelled", "expired"} -> waiter' = Settled(v, "rejected")
       [] shown = "matched" /\ room = "ready" -> waiter' = Settled(v, "resolved")
       [] OTHER -> waiter' = Settled(v, "waiting")
  /\ RoomAtOnce
  /\ UNCHANGED <<server, join, aborted, requests, link, shown, last, ended, told, stopped>>

\* The last waiter that gives up cancels a ticket that is still searching.
AbortWait(v) ==
  /\ "abort" \in Faults
  /\ waiter[v] = "waiting"
  /\ waiter' = Settled(v, "rejected")
  /\ IF Waiting = {v} /\ shown \in {"creating", "waiting"} /\ http["cancel"] = "none"
       THEN Send("cancel")
       ELSE UNCHANGED http
  /\ UNCHANGED <<server, join, aborted, failures, link, shown, last, ended, told, stopped, room>>

\* ensureMatchRoom() ends; a failure is forgotten, and the next call tries again.
RoomLoaded ==
  /\ room = "loading"
  /\ \/ room' = "ready" /\ waiter' = [v \in Waiter |-> IF v \in Waiting THEN "resolved" ELSE waiter[v]]
     \/ /\ failures < MaxFailures
        /\ room' = "none"
        /\ waiter' = AllRejected
  /\ failures' = IF room' = "none" THEN failures + 1 ELSE failures
  /\ UNCHANGED <<server, join, aborted, http, link, shown, last, ended, told, stopped>>

\* dispose(), by the client or by the API that made the ticket.
Dispose ==
  /\ "dispose" \in Faults
  /\ join \in {"posting", "confirming", "starting", "cancelling", "returned"}
  /\ ~stopped
  /\ stopped' = TRUE
  /\ join' = IF join = "returned" THEN join ELSE "failed"
  /\ socket' = HungUp
  /\ wire' = IF socket' = "none" THEN << >> ELSE wire
  /\ timer' = FALSE
  /\ waiter' = AllRejected
  /\ UNCHANGED <<server, aborted, requests, drops, attempts, shown, last, ended, told, room>>
-----------------------------------------------------------------------------
Own == {"refresh", "cancel"}

Works ==
  \/ CreateServed \/ CreateAnswered \/ RefreshServed \/ CancelServed \/ Accept
  \/ Created \/ CreateFailed \/ Open \/ Receive \/ TimerFires \/ RoomLoaded
  \/ \E x \in Own : CallAnswered(x) \/ CallFailed(x)

Next ==
  \/ Works
  \/ Progress \/ Release
  \/ Join \/ Abort \/ Dispose
  \/ \E retryable \in {TRUE} \cup {"refusal" \notin Faults} : Drop(retryable)
  \/ \E x \in Own : Call(x)
  \/ \E x \in DOMAIN http : HttpFails(x)
  \/ \E v \in Waiter : Wait(v) \/ AbortWait(v)

Spec == Init /\ [][Next]_vars

\* The Pool and the network answer, a Room handle settles, timers fire.
FairSpec ==
  /\ Spec
  /\ WF_vars(CreateServed) /\ WF_vars(CreateAnswered) /\ WF_vars(RefreshServed)
  /\ WF_vars(CancelServed) /\ WF_vars(Accept) /\ WF_vars(Created) /\ WF_vars(CreateFailed)
  /\ WF_vars(Open) /\ WF_vars(Receive) /\ WF_vars(TimerFires) /\ WF_vars(RoomLoaded)
  /\ \A x \in Own : WF_vars(CallAnswered(x)) /\ WF_vars(CallFailed(x))
=============================================================================
