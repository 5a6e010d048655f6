------------------------ MODULE TicketClientProperties ------------------------
(***************************************************************************)
(* What a player may rely on in the ticket handle of the client SDK.       *)
(***************************************************************************)
EXTENDS TicketClient

Statuses == DOMAIN Rank

\* The types of all variables.
TypeOK ==
  /\ events \in Seq(Statuses)
  /\ status \in Statuses
  /\ join \in {"idle", "posting", "confirming", "starting", "cancelling", "returned", "failed",
               "withdrawn"}
  /\ aborted \in BOOLEAN
  /\ http \in [{"create"} \cup Own -> Statuses \cup {"none", "sent", "failed"}]
  /\ failures \in Nat
  /\ socket \in {"none", "connecting", "accepted", "open"}
  /\ wire \in Seq(Nat)
  /\ drops \in Nat
  /\ shown \in Statuses
  /\ last \in Nat
  /\ ended \in BOOLEAN
  /\ told \in Nat
  /\ stopped \in BOOLEAN
  /\ timer \in BOOLEAN
  /\ attempts \in Nat
  /\ waiter \in [Waiter -> {"none", "waiting", "resolved", "rejected"}]
  /\ room \in {"none", "loading", "ready"}

\* Events of the handle's connection and answers of its HTTP requests overtake
\* each other; still what it shows never goes back, and an end is for good
\* (applyTicket()).
TicketForward ==
  [][\/ shown' = shown
     \/ Rank[shown'] > Rank[shown]]_vars

\* The end of the ticket reaches the listeners at most once, whether an event, a
\* refresh() or a cancel() brings it (docs/matchmaking-guide.md).
ToldOnce == told <= 1

\* A handle whose connection is open and has nothing on the way shows the ticket
\* as the Pool last announced it: a reconnection missed nothing.
QuietTicketIsCurrent ==
  (socket = "open" /\ wire = << >>) => Rank[shown] >= Rank[events[Len(events)]]

Announced == events # << >> /\ events[Len(events)] \in Terminal
\* No connection and no attempt at one is left.
GivenUp == socket = "none" /\ ~timer

\* Once the ticket has ended every waitForMatch() settles, unless the handle has
\* stopped to reconnect.
WaitersSettle ==
  \A v \in Waiter :
    (waiter[v] = "waiting" /\ Announced)
      ~> (waiter[v] # "waiting" \/ (GivenUp /\ shown \notin Terminal))

\* A join that was aborted leaves nobody in the queue, unless an HTTP request
\* failed on the way (joinMatchmaking()).
AbandonedIsCancelled ==
  (join = "withdrawn" /\ failures = 0) => (events # << >> /\ status # "waiting")
-----------------------------------------------------------------------------
(* The inductive invariant: what the properties above rest on.             *)

NoHandleYet ==
  /\ shown = "creating"
  /\ last = 0
  /\ socket = "none"
  /\ ~timer
  /\ \A x \in Own : http[x] = "none"
  /\ \A v \in Waiter : waiter[v] = "none"

\* Before the Pool has made the ticket, and until the join hears of it, there is
\* no handle.
NothingYet ==
  /\ events = << >> =>
       /\ status = "creating"
       /\ join \in {"idle", "posting", "confirming", "failed", "withdrawn"}
       /\ http["create"] \in {"none", "sent", "failed"}
       /\ NoHandleYet
  /\ join \in {"idle", "posting", "confirming"} => NoHandleYet

\* There is one end: every event, answer and snapshot that tells an end tells
\* the one the row has.
OneEnd ==
  /\ \A i \in DOMAIN events : events[i] \in Terminal => events[i] = status
  /\ \A x \in DOMAIN http : http[x] \in Terminal => http[x] = status
  /\ shown \in Terminal => shown = status

\* terminalProgressStatus is set with the one notification of the end.
ToldWhenEnded ==
  /\ told = IF ended THEN 1 ELSE 0
  /\ ended => shown \in Terminal

\* The wire brings what follows the last event the handle took, and the handle
\* is not behind that one.
Followed ==
  /\ last <= Len(events)
  /\ wire = IF Listening THEN After(last) ELSE << >>
  /\ timer => socket = "none"
  /\ last > 0 => Rank[shown] >= Rank[events[last]]

\* An aborted join has asked for a cancellation, and the answer leaves no ticket
\* that waits.
Abandoning ==
  /\ http["create"] = "failed" => failures > 0
  /\ join = "cancelling" /\ failures = 0 =>
       http["cancel"] = "sent" \/ status \notin {"creating", "waiting"}
  /\ AbandonedIsCancelled

Inv == TypeOK /\ NothingYet /\ OneEnd /\ ToldWhenEnded /\ Followed /\ Abandoning
=============================================================================
