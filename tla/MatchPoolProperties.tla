------------------------ MODULE MatchPoolProperties ------------------------
(***************************************************************************)
(* What the Match Pool must keep true, and what its documents say of it.   *)
(***************************************************************************)
EXTENDS MatchPool

TaskRecords ==
    [kind : {"idle", "create", "cancel", "settle", "alarm", "match"},
     pc : {"idle", "begin", "ratings", "undo", "init", "matchRelease",
           "closeRelease", "verify"},
     request : Requests \cup {None},
     ticket : Tickets \cup {None},
     cand : Candidates \cup {None},
     todo : SUBSET Candidates,
     token : Nat,
     ending : SUBSET Tickets]

IntentRecords ==
    [status : Live \cup {"none", "matched", "failed"}, attempts : Nat,
     due : BOOLEAN, result : Nat \cup {None}]

\* The shape of the rows of the Pool's SQLite tables and of its handlers.
TypeOK ==
    /\ status \in [Tickets -> Statuses]
    /\ source \in [Tickets -> Requests \cup {None}]
    /\ candidate \in [Tickets -> Candidates \cup {None}]
    /\ result \in [Tickets -> Nat \cup {None}]
    /\ queuePlayer \in [Players -> Tickets \cup {None}]
    /\ overdue \subseteq Tickets
    /\ events \in [Tickets -> Seq(Statuses)]
    /\ intent \in [Candidates -> IntentRecords]
    /\ processed \in [Requests -> Tickets \cup {None}]
    /\ alarm \in BOOLEAN
    /\ task \in [Handlers -> TaskRecords]
    /\ detached \subseteq Tickets
    /\ frozen \subseteq Tickets
    /\ rooms \subseteq Candidates
    /\ crashes \in Nat
-----------------------------------------------------------------------------
(* Safety                                                                  *)

\* No player waits, or is about to play, in two tickets: the INSERTs of
\* createTicket() claim every member in queue_players, and no handler deletes
\* the row of a ticket that is still in the queue.
QueueExclusive ==
    \A t, u \in Tickets :
        t # u /\ status[t] \in {"waiting", "reserved"} /\ status[u] \in {"waiting", "reserved"}
        => Members[source[t]] \cap Members[source[u]] = {}

\* A reserved ticket can still be settled: its partner is reserved with it and
\* the intent of their candidate is pending or initializing.  No order of
\* retries, late answers and crashes strands a reservation.
ReservedCanSettle ==
    \A t \in Tickets : status[t] = "reserved" =>
        /\ candidate[t] \in Candidates /\ t \in candidate[t]
        /\ intent[candidate[t]].status \in Live
        /\ \A u \in candidate[t] : status[u] = "reserved" /\ candidate[u] = candidate[t]

\* A match is one match for both its tickets: they carry the same result, and
\* the Room it sends them to was initialised first.
MatchedTogether ==
    \A t \in Tickets : status[t] = "matched" =>
        /\ candidate[t] \in rooms /\ t \in candidate[t]
        /\ \A u \in candidate[t] :
              status[u] = "matched" /\ candidate[u] = candidate[t] /\ result[u] = result[t]

\* The result an intent records is the one its tickets carry, whichever of
\* several overlapping attempts finished first.
IntentAgrees ==
    \A c \in Candidates : intent[c].status = "matched" =>
        \A t \in c : status[t] = "matched" /\ candidate[t] = c /\ result[t] = intent[c].result

\* A ticket that has ended blocks none of its players from queueing again.
EndedReleasesPlayers ==
    \A p \in Players : queuePlayer[p] # None => status[queuePlayer[p]] \notin Ended

\* A Party stays frozen only for a ticket that is queued, or that some handler
\* is creating or thawing.
FreezeHasCause ==
    \A t \in frozen :
        \/ status[t] \in Active
        \/ t \in detached
        \/ \E k \in Handlers : t = task[k].ticket \/ t \in task[k].ending

\* While a ticket is queued or reserved, the alarm is set or a handler that will
\* set it is under way, even after a restart.
WorkIsScheduled ==
    (\E t \in Tickets : status[t] \in Active) => alarm \/ \E k \in Handlers : task[k] # Idle

WasQueued(t) == \E i \in DOMAIN events[t] : events[t][i] = "waiting"

\* One requestId puts one ticket in the queue, however often it is sent.
OneTicketPerRequest ==
    \A t, u \in Tickets :
        WasQueued(t) /\ WasQueued(u) /\ source[t] = source[u] => t = u

\* A ticket that has ended stays as it ended, with the result it ended with.
EndedIsFinal ==
    [][\A t \in Tickets : status[t] \in Ended =>
            status'[t] = status[t] /\ result'[t] = result[t]]_vars

-----------------------------------------------------------------------------
(* The inductive invariant: what the safety properties rest on.            *)

\* A ticket that exists has the request it was created from.
SourceOK == \A t \in Tickets : status[t] # "none" => source[t] \in Requests

\* Every member of a waiting or reserved ticket has that ticket's row.
QueueRows ==
    \A t \in Tickets : status[t] \in {"waiting", "reserved"} =>
        \A p \in Members[source[t]] : queuePlayer[p] = t

\* An intent exists for tickets that have left the queue only.
IntentFresh ==
    \A c \in Candidates : intent[c].status # "none" =>
        \A t \in c : status[t] \in {"reserved"} \cup Ended

\* What a waiting handler may rely on when it is answered.
TaskOK(rec) ==
    /\ rec.kind = "create" => rec.request \in Requests /\ rec.ticket \in Tickets
    /\ rec.pc \in {"begin", "ratings", "undo"} => rec.kind = "create"
    /\ rec.pc \in {"begin", "ratings"} => status[rec.ticket] = "none"
    /\ rec.pc \in {"init", "verify", "matchRelease"} =>
          rec.cand \in Candidates /\ intent[rec.cand].status # "none"
    /\ rec.pc = "verify" => rec.token = 0
    /\ rec.pc = "matchRelease" => SameResult(rec.cand, rec.token)

\* No two handlers create the same ticket.
TaskTickets ==
    \A j, k \in Handlers :
        j # k /\ task[k].ticket # None => task[j].ticket # task[k].ticket

\* The rows, the intents and what every waiting handler relies on, together:
\* each handler of the Pool keeps all of it.
IInv ==
    /\ TypeOK
    /\ SourceOK
    /\ QueueRows
    /\ IntentFresh
    /\ ReservedCanSettle
    /\ MatchedTogether
    /\ IntentAgrees
    /\ \A k \in Handlers : TaskOK(task[k])
    /\ TaskTickets
-----------------------------------------------------------------------------
(* What WorkIsScheduled, EndedReleasesPlayers, FreezeHasCause and          *)
(* OneTicketPerRequest rest on, each where the faults it cannot bear are   *)
(* left out (MatchPoolProofs).                                             *)

\* A row of queue_players names a ticket that is queued or reserved.
RowsActive == \A p \in Players : queuePlayer[p] # None => status[queuePlayer[p]] \in Active

\* The alarm handler is at none of the calls that end without synchronizeAlarm().
AlarmPc == task[AlarmTask].pc \in {"idle", "init", "matchRelease", "closeRelease"}

\* What has a deadline has an alarm, or the alarm handler is under way.
Wakes == HasDeadline(status, intent) => alarm \/ task[AlarmTask].pc # "idle"

ScheduleInv == RowsActive /\ AlarmPc /\ Wakes

\* Handler k thaws the Party of t, or goes on to insert t.
Holds(k, t) ==
    \/ t \in task[k].ending
    \/ task[k].pc \in {"ratings", "undo"} /\ task[k].ticket = t

\* A frozen Party has a ticket in the queue or somebody who will thaw it.
FreezeOwned ==
    \A t \in frozen : status[t] \in Active \/ t \in detached \/ \E k \in Handlers : Holds(k, t)

\* Parties are frozen for the tickets of Parties, and thawed by the handlers
\* that say so.
PartiesOnly ==
    /\ \A t \in frozen : status[t] # "none" => source[t] \in PartyRequests
    /\ \A k \in Handlers :
        /\ task[k].pc \in {"begin", "ratings", "undo"} => task[k].request \in PartyRequests
        /\ task[k].pc \notin {"matchRelease", "closeRelease"} => task[k].ending = {}

FreezeInv == FreezeOwned /\ PartiesOnly

\* The requestId r stands for the ticket t: it is processed, or in flight.
Claims(r, t) ==
    \/ processed[r] = t
    \/ \E k \in Handlers : /\ task[k].kind = "create"
                           /\ task[k].request = r /\ task[k].ticket = t

\* A request stands for one ticket, and a ticket that entered the queue is the
\* one its request stands for.
ClaimsInv ==
    /\ \A r \in Requests : \A t, u \in Tickets : Claims(r, t) /\ Claims(r, u) => t = u
    /\ \A t \in Tickets : WasQueued(t) => Claims(source[t], t)
    /\ \A t \in Tickets : status[t] = "none" => ~WasQueued(t)
    /\ \A k \in Handlers :
        /\ task[k].pc = "undo" => ~WasQueued(task[k].ticket)
        /\ task[k].pc \in {"idle", "verify", "closeRelease"} => task[k].kind # "create"
-----------------------------------------------------------------------------
(* Refinement                                                              *)

Stage(s) ==
    CASE s = "none" -> "absent"
      [] s \in Queued -> "open"
      [] s = "reserved" -> "paired"
      [] s = "matched" -> "matched"
      [] s \in {"cancelled", "expired"} -> "closed"

Pairing == INSTANCE TicketPairing WITH
    Nobody <- None,
    stage <- [t \in Tickets |-> Stage(status[t])],
    pair <- candidate

\* The Match Pool keeps the promise of TicketPairing: no ticket is paired
\* twice, and the two tickets of a pair are settled in one step.
PairsAsPromised == Pairing!PairingSpec
-----------------------------------------------------------------------------
(* Liveness                                                                *)

\* Every ticket that enters the queue leaves it: it is matched, cancelled or
\* expired, though calls fail and the object restarts.
QueueDrains ==
    \A t \in Tickets : (status[t] \in Active) ~> (status[t] \in Ended)
-----------------------------------------------------------------------------
(* What the documents say and the code does not keep                       *)

\* A ticket's last event is the state it ended in.
EndIsAnnounced ==
    \A t \in Tickets : status[t] \in Ended =>
        \E i \in DOMAIN events[t] : events[t][i] = status[t]

\* A createTicket() that was refused leaves no ticket behind.
RefusalLeavesNothing ==
    \A t \in Tickets : status[t] = "creating" =>
        \E k \in Handlers : task[k].ticket = t

\* An intent that failed matched nobody.
FailedMatchesNobody ==
    \A c \in Candidates : intent[c].status = "failed" =>
        \A t \in c : status[t] # "matched"
=============================================================================
