--------------------------- MODULE MatchPoolProofs ---------------------------
(***************************************************************************)
(* Proofs about the Match Pool, for every set of tickets, players and      *)
(* requests, and any number of concurrent handlers, failures and restarts. *)
(*                                                                         *)
(* Every step is first shown to be of one of a few shapes (StepShape): for *)
(* the tickets, for the intents, and for the rows of queue_players.  That  *)
(* the invariant is kept, that an end is final and that pairs are settled  *)
(* as TicketPairing promises follow from the shape alone.                  *)
(***************************************************************************)
EXTENDS MatchPoolProperties, TLAPS
-----------------------------------------------------------------------------
(* The shape of a step.                                                    *)

Same(t) ==
    /\ status'[t] = status[t] /\ source'[t] = source[t]
    /\ candidate'[t] = candidate[t] /\ result'[t] = result[t]

Enters(t) ==
    /\ status[t] = "none" /\ status'[t] \in Queued /\ source'[t] \in Requests
    /\ candidate'[t] = candidate[t] /\ result'[t] = result[t]

Closes(t) ==
    /\ status[t] \in Queued /\ status'[t] \in {"cancelled", "expired"}
    /\ source'[t] = source[t] /\ candidate'[t] = candidate[t] /\ result'[t] = result[t]

Reserves(t) ==
    /\ source'[t] \in Requests
    /\ status[t] = "waiting" => source'[t] = source[t]
    /\ result'[t] = result[t]
    /\ candidate'[t] \in Candidates /\ t \in candidate'[t]
    /\ intent'[candidate'[t]].status \in Live
    /\ \A u \in candidate'[t] : /\ status[u] \in {"none", "waiting"}
                                /\ status'[u] = "reserved"
                                /\ candidate'[u] = candidate'[t]

QueueTurn == \A t \in Tickets : Same(t) \/ Enters(t) \/ Closes(t) \/ Reserves(t)

Settles(c, s) ==
    /\ BothReserved(c)
    /\ \A t \in c : status'[t] = s
    /\ \A t \in Tickets \ c : status'[t] = status[t] /\ result'[t] = result[t]
    /\ UNCHANGED <<source, candidate>>

MatchSettles(c) ==
    /\ Settles(c, "matched")
    /\ c \in rooms'
    /\ \E n \in Nat : \A t \in c : result'[t] = n

CloseSettles(c) ==
    /\ Settles(c, "cancelled")
    /\ UNCHANGED result

TicketShape ==
    QueueTurn \/ \E c \in Candidates : MatchSettles(c) \/ CloseSettles(c)

\* An intent stays or moves on, is born with its reservation, is completed
\* with its tickets' result, or fails with no ticket still reserved for it: i
\* is what becomes of the intent of c.
IntentMoves(c, i) ==
    \/ i.status = intent[c].status /\ i.result = intent[c].result
    \/ intent[c].status \in Live /\ i.status \in Live
    \/ /\ intent[c].status = "none" /\ i.status \in Live
       /\ \A t \in c : status'[t] = "reserved"
    \/ /\ i.status = "matched"
       /\ \A t \in c : status'[t] = "matched" /\ candidate'[t] = c /\ result'[t] = i.result
    \/ /\ intent[c].status # "none" /\ i.status = "failed"
       /\ \A t \in c : ~(status'[t] = "reserved" /\ candidate'[t] = c)

IntentShape(c) == IntentMoves(c, intent'[c])

RowShape ==
    /\ \A p \in Players :
          \/ queuePlayer'[p] = queuePlayer[p]
          \/ queuePlayer[p] = None
          \/ queuePlayer[p] \in Tickets /\ status'[queuePlayer[p]] \in Ended
    /\ \A t \in Tickets : status[t] = "none" /\ status'[t] \in {"waiting", "reserved"} =>
          \A p \in Members[source'[t]] : queuePlayer'[p] = t

StepShape ==
    /\ TicketShape
    /\ \A c \in Candidates : IntentShape(c)
    /\ RowShape
    /\ rooms \subseteq rooms'
-----------------------------------------------------------------------------
(* What follows from the shape.                                            *)

LEMMA CandidateType == Candidates \subseteq SUBSET Tickets
  BY DEF Candidates

\* An end is final: the ticket keeps its state, candidate and result.
LEMMA ShapeKeepsEnds ==
  ASSUME TypeOK, TicketShape, NEW t \in Tickets, status[t] \in Ended
  PROVE  Same(t)
  BY CandidateType DEF TicketShape, QueueTurn, Enters, Closes, Reserves, MatchSettles,
     CloseSettles, Settles, BothReserved, Same, Ended, Queued, Candidates

LEMMA ShapeKeepsSources ==
  ASSUME TypeOK, SourceOK, TicketShape
  PROVE  SourceOK'
  BY CandidateType DEF TypeOK, SourceOK, TicketShape, QueueTurn, Same, Enters, Closes, Reserves,
     MatchSettles, CloseSettles, Settles, BothReserved, Queued

LEMMA ShapeKeepsRows ==
  ASSUME TypeOK, SourceOK, QueueRows, StepShape
  PROVE  QueueRows'
<1> SUFFICES ASSUME NEW t \in Tickets, status'[t] \in {"waiting", "reserved"},
                    NEW p \in Members[source'[t]]
             PROVE  queuePlayer'[p] = t
  BY DEF QueueRows
<1>1. CASE status[t] = "none"
  BY <1>1 DEF StepShape, RowShape
<1>2. CASE status[t] # "none"
  <2>1. status[t] \in {"waiting", "reserved"} /\ source'[t] = source[t]
    BY <1>2, CandidateType DEF StepShape, TicketShape, QueueTurn, Same, Enters, Closes, Reserves,
       MatchSettles, CloseSettles, Settles, BothReserved, Queued
  <2>2. queuePlayer[p] = t
    BY <2>1 DEF QueueRows
  <2>3. p \in Players
    BY <2>1, PoolAssumption DEF TypeOK, SourceOK
  <2>. QED
    BY <2>2, <2>3, PoolAssumption DEF StepShape, RowShape, Ended
<1>. QED
  BY <1>1, <1>2

LEMMA ShapeKeepsFreshIntents ==
  ASSUME TypeOK, IntentFresh, StepShape
  PROVE  IntentFresh'
<1> SUFFICES ASSUME NEW c \in Candidates, intent'[c].status # "none", NEW t \in c
             PROVE  status'[t] \in {"reserved"} \cup Ended
  BY DEF IntentFresh
<1>0. t \in Tickets
  BY CandidateType
<1>1. CASE intent[c].status = "none"
  BY <1>1 DEF StepShape, IntentShape, IntentMoves, Live, Ended
<1>2. CASE intent[c].status # "none"
  <2>1. status[t] \in {"reserved"} \cup Ended
    BY <1>2 DEF IntentFresh
  <2>. QED
    BY <1>0, <2>1, CandidateType DEF StepShape, TicketShape, QueueTurn, Same, Enters, Closes,
       Reserves, MatchSettles, CloseSettles, Settles, BothReserved, Queued, Ended
<1>. QED
  BY <1>1, <1>2

LEMMA ShapeKeepsMatches ==
  ASSUME TypeOK, MatchedTogether, StepShape
  PROVE  MatchedTogether'
<1> SUFFICES ASSUME NEW t \in Tickets, status'[t] = "matched"
             PROVE  /\ candidate'[t] \in rooms' /\ t \in candidate'[t]
                    /\ \A u \in candidate'[t] : /\ status'[u] = "matched"
                                               /\ candidate'[u] = candidate'[t]
                                               /\ result'[u] = result'[t]
  BY DEF MatchedTogether
<1>1. CASE status[t] = "matched"
  <2>1. /\ candidate[t] \in rooms /\ t \in candidate[t]
        /\ \A u \in candidate[t] : /\ status[u] = "matched"
                                   /\ candidate[u] = candidate[t] /\ result[u] = result[t]
    BY <1>1 DEF MatchedTogether
  <2>2. candidate[t] \subseteq Tickets
    BY <2>1, CandidateType DEF TypeOK
  <2>3. \A u \in candidate[t] : Same(u)
    BY <2>1, <2>2, ShapeKeepsEnds DEF StepShape, Ended
  <2>. QED
    BY <2>1, <2>3 DEF Same, StepShape
<1>2. CASE status[t] # "matched"
  <2>1. PICK c \in Candidates : MatchSettles(c) /\ t \in c
    BY <1>2, CandidateType DEF StepShape, TicketShape, QueueTurn, Same, Enters, Closes, Reserves,
       MatchSettles, CloseSettles, Settles, BothReserved, Queued
  <2>. QED
    BY <2>1 DEF MatchSettles, Settles, BothReserved
<1>. QED
  BY <1>1, <1>2

LEMMA ShapeKeepsAgreement ==
  ASSUME TypeOK, IntentAgrees, StepShape
  PROVE  IntentAgrees'
<1> SUFFICES ASSUME NEW c \in Candidates, intent'[c].status = "matched", NEW t \in c
             PROVE  /\ status'[t] = "matched" /\ candidate'[t] = c
                    /\ result'[t] = intent'[c].result
  BY DEF IntentAgrees
<1>1. \/ /\ intent[c].status = "matched" /\ intent'[c].result = intent[c].result
      \/ status'[t] = "matched" /\ candidate'[t] = c /\ result'[t] = intent'[c].result
  BY DEF StepShape, IntentShape, IntentMoves, Live
<1>2. CASE intent[c].status = "matched" /\ intent'[c].result = intent[c].result
  <2>1. status[t] = "matched" /\ candidate[t] = c /\ result[t] = intent[c].result
    BY <1>2 DEF IntentAgrees
  <2>2. Same(t)
    BY <2>1, ShapeKeepsEnds, CandidateType DEF StepShape, Ended
  <2>. QED
    BY <1>2, <2>1, <2>2 DEF Same
<1>. QED
  BY <1>1, <1>2

LEMMA ShapeKeepsReservations ==
  ASSUME TypeOK, IntentFresh, ReservedCanSettle, IntentAgrees, StepShape
  PROVE  ReservedCanSettle'
<1> SUFFICES ASSUME NEW t \in Tickets, status'[t] = "reserved"
             PROVE  /\ candidate'[t] \in Candidates /\ t \in candidate'[t]
                    /\ intent'[candidate'[t]].status \in Live
                    /\ \A u \in candidate'[t] : /\ status'[u] = "reserved"
                                               /\ candidate'[u] = candidate'[t]
  BY DEF ReservedCanSettle
<1>1. CASE status[t] = "reserved"
  <2> DEFINE c == candidate[t]
  <2>1. /\ c \in Candidates /\ t \in c /\ intent[c].status \in Live
        /\ \A u \in c : status[u] = "reserved" /\ candidate[u] = c
    BY <1>1 DEF ReservedCanSettle
  <2>2. \A u \in c : u \in Tickets
    BY <2>1, CandidateType
  <2>3. candidate'[t] = c /\ \A u \in c : status'[u] = "reserved" /\ candidate'[u] = c
    BY <1>1, <2>1, <2>2, CandidateType DEF StepShape, TicketShape, QueueTurn, Same, Enters,
       Closes, Reserves, MatchSettles, CloseSettles, Settles, BothReserved, Queued
  <2>4. IntentShape(c)
    BY <2>1 DEF StepShape
  <2>5. intent'[c].status \in Live
    <3>1. CASE intent'[c].status = "matched"
      BY <2>1, <2>3, <2>4, <3>1 DEF IntentShape, IntentMoves, Live
    <3>. QED
      BY <2>1, <2>3, <2>4, <3>1 DEF IntentShape, IntentMoves, Live
  <2>. QED
    BY <2>1, <2>3, <2>5
<1>2. CASE status[t] # "reserved"
  <2>1. Reserves(t)
    BY <1>2, CandidateType DEF StepShape, TicketShape, QueueTurn, Same, Enters, Closes,
       MatchSettles, CloseSettles, Settles, BothReserved, Queued
  <2>. QED
    BY <2>1 DEF Reserves
<1>. QED
  BY <1>1, <1>2
-----------------------------------------------------------------------------
(* What the operators shared by the handlers do.                           *)

SameTask(j) ==
    /\ task'[j].kind = task[j].kind /\ task'[j].pc = task[j].pc
    /\ task'[j].request = task[j].request /\ task'[j].ticket = task[j].ticket
    /\ task'[j].cand = task[j].cand /\ task'[j].token = task[j].token

LEMMA IdleType == Idle \in TaskRecords
  BY DEF Idle, TaskRecords

\* The loop of processPendingMatches() claims at most one intent, and leaves
\* its handler idle or waiting for the Room of the intent it claimed.
LEMMA ContinueEffect ==
  ASSUME TypeOK,
         NEW k \in Handlers,
         NEW rec \in TaskRecords,
         rec.kind = "create" => rec.request \in Requests /\ rec.ticket \in Tickets,
         NEW int \in [Candidates -> IntentRecords],
         NEW armed \in BOOLEAN,
         Continue(k, rec, int, armed)
  PROVE  /\ intent' \in [Candidates -> IntentRecords]
         /\ \A c \in Candidates :
               \/ intent'[c].status = int[c].status /\ intent'[c].result = int[c].result
               \/ int[c].status \in Live /\ intent'[c].status \in Live
         /\ task' \in [Handlers -> TaskRecords]
         /\ \A j \in Handlers \ {k} : SameTask(j)
         /\ \/ task'[k] = Idle
            \/ /\ task'[k].pc = "init"
               /\ task'[k].cand \in Candidates /\ int[task'[k].cand].status \in Live
               /\ task'[k].kind = rec.kind /\ task'[k].request = rec.request
               /\ task'[k].ticket = rec.ticket
         /\ processed' \in [Requests -> Tickets \cup {None}]
         /\ alarm' \in BOOLEAN
<1>1. CASE Return(k, rec, int)
  <2>1. intent' = int /\ task' = [task EXCEPT ![k] = Idle]
    BY <1>1 DEF Return
  <2>2. task' \in [Handlers -> TaskRecords]
    BY <2>1, IdleType DEF TypeOK
  <2>3. \A j \in Handlers \ {k} : SameTask(j)
    BY <2>1 DEF TypeOK, SameTask
  <2>4. processed' \in [Requests -> Tickets \cup {None}]
    BY <1>1 DEF Return, TypeOK
  <2>5. alarm' \in BOOLEAN
    BY <1>1, Zenon DEF Return, HasDeadline
  <2>. QED
    BY <2>1, <2>2, <2>3, <2>4, <2>5 DEF TypeOK
<1>2. CASE \E c \in {d \in rec.todo : Claimable(int[d])} :
              ClaimMatchIntent(k, rec, int, c) /\ alarm' = armed
  <2>1. PICK c \in rec.todo : /\ Claimable(int[c])
                              /\ ClaimMatchIntent(k, rec, int, c) /\ alarm' = armed
    BY <1>2
  <2>2. c \in Candidates
    BY DEF TaskRecords
  <2>3. int[c] \in IntentRecords /\ int[c].status \in Live
    BY <2>1, <2>2 DEF Claimable
  <2>4. intent' = [int EXCEPT ![c] = [status |-> "initializing", attempts |-> int[c].attempts + 1,
                                      due |-> FALSE, result |-> int[c].result]]
    BY <2>1, <2>2, <2>3 DEF ClaimMatchIntent, IntentRecords
  <2>5. /\ intent' \in [Candidates -> IntentRecords]
        /\ \A d \in Candidates :
              \/ intent'[d].status = int[d].status /\ intent'[d].result = int[d].result
              \/ int[d].status \in Live /\ intent'[d].status \in Live
    BY <2>2, <2>3, <2>4 DEF IntentRecords, Live
  <2>6. PICK kept \in SUBSET {j \in Handlers \ {k} : c \in task[j].todo} :
          task' = [j \in Handlers |->
                    IF j = k
                    THEN [rec EXCEPT !.pc = "init", !.cand = c, !.todo = @ \ {c},
                                     !.token = int[c].attempts + 1, !.ending = {}]
                    ELSE IF j \in kept THEN task[j]
                    ELSE [task[j] EXCEPT !.todo = @ \ {c}]]
    BY <2>1 DEF ClaimMatchIntent
  <2>7. /\ task'[k] \in TaskRecords
        /\ task'[k].pc = "init" /\ task'[k].cand = c /\ task'[k].kind = rec.kind
        /\ task'[k].request = rec.request /\ task'[k].ticket = rec.ticket
    <3>1. task'[k] = [rec EXCEPT !.pc = "init", !.cand = c, !.todo = @ \ {c},
                                 !.token = int[c].attempts + 1, !.ending = {}]
      BY <2>6
    <3>2. int[c].attempts + 1 \in Nat
      BY <2>3 DEF IntentRecords
    <3>3. rec.todo \ {c} \in SUBSET Candidates
      BY DEF TaskRecords
    <3>. QED
      BY <2>2, <3>1, <3>2, <3>3 DEF TaskRecords
  <2>8. \A j \in Handlers \ {k} : task'[j] \in TaskRecords /\ SameTask(j)
    BY <2>6, ZenonT(30) DEF TypeOK, TaskRecords, SameTask
  <2>9. task' \in [Handlers -> TaskRecords]
    BY <2>6, <2>7, <2>8
  <2>10. processed' \in [Requests -> Tickets \cup {None}] /\ alarm' \in BOOLEAN
    BY <2>1 DEF ClaimMatchIntent, TypeOK
  <2>. QED
    BY <2>2, <2>3, <2>5, <2>7, <2>8, <2>9, <2>10
<1>. QED
  BY <1>1, <1>2 DEF Continue

\* What a waiting handler relies on is kept by a step that is not its own,
\* unless the step gives a row to the ticket it is about to create.
LEMMA TaskKept ==
  ASSUME IInv, StepShape, NEW j \in Handlers, SameTask(j),
         \A t \in Tickets : status[t] = "none" /\ status'[t] # "none" => task[j].ticket # t
  PROVE  TaskOK(task[j])'
<1>1. TaskOK(task[j])
  BY DEF IInv
<1>2. task'[j].kind = "create" => task'[j].request \in Requests /\ task'[j].ticket \in Tickets
  BY <1>1 DEF TaskOK, SameTask
<1>3. task'[j].pc \in {"begin", "ratings", "undo"} => task'[j].kind = "create"
  BY <1>1 DEF TaskOK, SameTask
<1>4. task'[j].pc \in {"begin", "ratings"} => status'[task'[j].ticket] = "none"
  BY <1>1 DEF TaskOK, SameTask
<1>5. task'[j].pc \in {"init", "verify", "matchRelease"} =>
         task'[j].cand \in Candidates /\ intent'[task'[j].cand].status # "none"
  BY <1>1 DEF TaskOK, SameTask, StepShape, IntentShape, IntentMoves, Live
<1>7. task'[j].pc = "verify" => task'[j].token = 0
  BY <1>1 DEF TaskOK, SameTask
<1>6. ASSUME task'[j].pc = "matchRelease"
      PROVE  SameResult(task[j].cand, task[j].token)'
  <2>1. SameResult(task[j].cand, task[j].token) /\ task[j].cand \in Candidates
    BY <1>1, <1>6 DEF TaskOK, SameTask
  <2>2. \A t \in task[j].cand : Same(t)
    BY <2>1, CandidateType, ShapeKeepsEnds DEF SameResult, StepShape, Ended, IInv
  <2>. QED
    BY <2>1, <2>2 DEF SameResult, Same, SameTask
<1>. QED
  BY <1>2, <1>3, <1>4, <1>5, <1>6, <1>7 DEF TaskOK

LEMMA TasksKept ==
  ASSUME IInv, StepShape, NEW k \in Handlers,
         \A j \in Handlers \ {k} : SameTask(j),
         TaskOK(task[k])',
         task'[k].ticket # None =>
            \A j \in Handlers \ {k} : task[j].ticket # task'[k].ticket,
         \A t \in Tickets : status[t] = "none" /\ status'[t] # "none" =>
            \A j \in Handlers \ {k} : task[j].ticket # t
  PROVE  (\A j \in Handlers : TaskOK(task[j]))' /\ TaskTickets'
<1>1. \A j \in Handlers \ {k} : TaskOK(task[j])'
  BY TaskKept
<1>2. TaskTickets'
  BY DEF TaskTickets, SameTask, IInv
<1>. QED
  BY <1>1, <1>2

\* What is to be shown of every step.
Kept == IInv' /\ TicketShape

LEMMA StepKeepsInvariant ==
  ASSUME IInv, TypeOK', StepShape, (\A j \in Handlers : TaskOK(task[j]))', TaskTickets'
  PROVE  Kept
  BY ShapeKeepsSources, ShapeKeepsRows, ShapeKeepsFreshIntents, ShapeKeepsReservations,
     ShapeKeepsMatches, ShapeKeepsAgreement DEF IInv, StepShape, Kept

Reserved(k, rec, st, S) ==
    /\ \A t \in UNION S : Reserves(t)
    /\ \A t \in Tickets \ UNION S : status'[t] = st[t] /\ candidate'[t] = candidate[t]
    /\ \A c \in Candidates : IntentShape(c)
    /\ status' \in [Tickets -> Statuses]
    /\ candidate' \in [Tickets -> Candidates \cup {None}]
    /\ events' \in [Tickets -> Seq(Statuses)]
    /\ intent' \in [Candidates -> IntentRecords]
    /\ task' \in [Handlers -> TaskRecords]
    /\ processed' \in [Requests -> Tickets \cup {None}]
    /\ alarm' \in BOOLEAN
    /\ \A j \in Handlers \ {k} : SameTask(j)
    /\ TaskOK(task[k])'
    /\ task'[k].ticket \in {None, rec.ticket}

\* Reserving the pairs S of a queue st that a step has brought up to date, and
\* settling what is due.
LEMMA ReserveEffect ==
  ASSUME IInv,
         NEW k \in Handlers,
         NEW rec \in TaskRecords,
         rec.kind = "create" => rec.request \in Requests /\ rec.ticket \in Tickets,
         NEW st \in [Tickets -> Statuses],
         NEW ev \in [Tickets -> Seq(Statuses)],
         NEW armed \in BOOLEAN,
         NEW S \in SUBSET Candidates,
         \A t \in UNION S : st[t] = "waiting",
         \A c, d \in S : c # d => c \cap d = {},
         \A t \in Tickets : st[t] = "waiting" => status[t] \in {"none", "waiting"},
         \A t \in UNION S : /\ source'[t] \in Requests
                            /\ status[t] = "waiting" => source'[t] = source[t],
         UNCHANGED result,
         Reserve(S, st, ev),
         ProcessPendingMatches(k, rec, IntentsFor(S), armed)
  PROVE  Reserved(k, rec, st, S)
<1> DEFINE loop == [rec EXCEPT !.todo = {c \in Candidates : Claimable(IntentsFor(S)[c])}]
<1>1. loop \in TaskRecords /\ loop.kind = rec.kind /\ loop.request = rec.request
      /\ loop.ticket = rec.ticket
  BY DEF TaskRecords
<1>2. IntentsFor(S) \in [Candidates -> IntentRecords]
  BY DEF IntentsFor, IntentRecords, IInv, TypeOK, Live
<1>3. Continue(k, loop, IntentsFor(S), armed)
  BY DEF ProcessPendingMatches
<1> HIDE DEF loop
<1>4. /\ intent' \in [Candidates -> IntentRecords]
      /\ \A c \in Candidates :
            \/ /\ intent'[c].status = IntentsFor(S)[c].status
               /\ intent'[c].result = IntentsFor(S)[c].result
            \/ IntentsFor(S)[c].status \in Live /\ intent'[c].status \in Live
      /\ task' \in [Handlers -> TaskRecords]
      /\ \A j \in Handlers \ {k} : SameTask(j)
      /\ \/ task'[k] = Idle
         \/ /\ task'[k].pc = "init"
            /\ task'[k].cand \in Candidates /\ IntentsFor(S)[task'[k].cand].status \in Live
            /\ task'[k].kind = rec.kind /\ task'[k].request = rec.request
            /\ task'[k].ticket = rec.ticket
      /\ processed' \in [Requests -> Tickets \cup {None}]
      /\ alarm' \in BOOLEAN
  BY <1>1, <1>2, <1>3, ContinueEffect DEF IInv
<1>5. UNION S \subseteq Tickets
  BY CandidateType
<1>6. /\ \A t \in Tickets : status'[t] = IF t \in UNION S THEN "reserved" ELSE st[t]
      /\ status' \in [Tickets -> Statuses]
  BY DEF Reserve, Mark, Statuses
<1>7. /\ \A t \in Tickets \ UNION S : candidate'[t] = candidate[t]
      /\ \A c \in S : \A t \in c : candidate'[t] = c
      /\ candidate' \in [Tickets -> Candidates \cup {None}]
  <2>1. \A t \in UNION S : (CHOOSE c \in S : t \in c) \in S /\ t \in (CHOOSE c \in S : t \in c)
    OBVIOUS
  <2>2. candidate' = [t \in Tickets |-> IF t \in UNION S THEN CHOOSE c \in S : t \in c
                                                         ELSE candidate[t]]
    BY DEF Reserve
  <2>3. candidate' \in [Tickets -> Candidates \cup {None}]
    BY <2>1, <2>2 DEF IInv, TypeOK
  <2>4. ASSUME NEW c \in S, NEW t \in c
        PROVE  candidate'[t] = c
    <3>1. t \in UNION S /\ t \in Tickets
      BY <1>5
    <3>2. candidate'[t] \in S /\ t \in candidate'[t]
      BY <2>1, <2>2, <3>1
    <3>. QED
      BY <3>2
  <2>. QED
    BY <2>2, <2>3, <2>4
<1>8. \A c \in S : intent[c].status = "none" /\ IntentsFor(S)[c].status \in Live
  <2> TAKE c \in S
  <2>1. PICK t \in c : t \in Tickets
    BY DEF Candidates
  <2>2. t \in UNION S /\ status[t] \in {"none", "waiting"}
    BY <2>1
  <2>3. c \in Candidates /\ IntentFresh
    BY DEF IInv
  <2>4. intent[c].status = "none"
    BY <2>2, <2>3, ZenonT(30) DEF IntentFresh, Ended
  <2>. QED
    BY <2>3, <2>4 DEF IntentsFor, Live
<1>9. ASSUME NEW t \in UNION S
      PROVE  Reserves(t)
  <2>1. PICK c \in S : t \in c
    BY <1>9
  <2>2. c \in Candidates /\ candidate'[t] = c
    BY <1>7, <2>1
  <2>3. intent'[c].status \in Live
    BY <1>4, <1>8, <2>2
  <2>4. \A u \in c : /\ status[u] \in {"none", "waiting"}
                     /\ status'[u] = "reserved" /\ candidate'[u] = c
    BY <1>5, <1>6, <1>7, <2>1
  <2>. QED
    BY <1>5, <2>1, <2>2, <2>3, <2>4 DEF Reserves
<1>10. ASSUME NEW c \in Candidates
       PROVE  IntentShape(c)
  <2>1. CASE c \in S
    BY <1>4, <1>5, <1>6, <1>8, <2>1 DEF IntentShape, IntentMoves, Live
  <2>2. CASE c \notin S
    <3>1. IntentsFor(S)[c] = intent[c]
      BY <2>2 DEF IntentsFor
    <3>. QED
      BY <1>4, <3>1 DEF IntentShape, IntentMoves
  <2>. QED
    BY <2>1, <2>2
<1>11. TaskOK(task[k])' /\ task'[k].ticket \in {None, rec.ticket}
  <2>1. CASE task'[k] = Idle
    BY <2>1 DEF Idle, TaskOK
  <2>2. CASE task'[k] # Idle
    <3>1. /\ task'[k].pc = "init" /\ task'[k].cand \in Candidates
          /\ IntentsFor(S)[task'[k].cand].status \in Live
          /\ task'[k].kind = rec.kind /\ task'[k].request = rec.request
          /\ task'[k].ticket = rec.ticket
      BY <1>4, <2>2
    <3>2. intent'[task'[k].cand].status # "none"
      BY <1>4, <3>1 DEF Live
    <3>. QED
      BY <3>1, <3>2 DEF TaskOK
  <2>. QED
    BY <2>1, <2>2
<1>12. events' \in [Tickets -> Seq(Statuses)]
  BY DEF Reserve, Log, Statuses
<1>. QED
  BY <1>4, <1>6, <1>7, <1>9, <1>10, <1>11, <1>12 DEF Reserved

LEMMA HasDeadlineType ==
  ASSUME NEW st, NEW int
  PROVE  HasDeadline(st, int) \in BOOLEAN
  BY DEF HasDeadline

\* Steps that leave the rows of tickets and players as they are.
LEMMA QuietShape ==
  ASSUME TypeOK, UNCHANGED <<status, source, candidate, result, queuePlayer>>
  PROVE  TicketShape /\ RowShape
  BY DEF TicketShape, QueueTurn, Same, RowShape

\* Steps that close queued tickets and delete their players' rows.
LEMMA CloseShape ==
  ASSUME TypeOK,
         NEW T \in SUBSET Tickets, \A t \in T : status[t] \in Queued,
         NEW s \in {"cancelled", "expired"},
         status' = Mark(status, T, s), queuePlayer' = Dequeue(T),
         UNCHANGED <<source, candidate, result>>
  PROVE  /\ TicketShape /\ RowShape
         /\ status' \in [Tickets -> Statuses]
         /\ queuePlayer' \in [Players -> Tickets \cup {None}]
         /\ \A t \in Tickets : status[t] = "none" => status'[t] = "none"
<1>1. \A t \in Tickets : Same(t) \/ Closes(t)
  BY DEF Mark, Same, Closes
<1>2. \A t \in Tickets : status[t] = "none" => status'[t] = "none"
  BY DEF Mark, Queued
<1>3. RowShape
  BY <1>2 DEF RowShape, Dequeue, Mark, Ended, TypeOK
<1>. QED
  BY <1>1, <1>2, <1>3 DEF TicketShape, QueueTurn, TypeOK, Mark, Dequeue, Statuses

\* A step in which handler k goes on with the loop of processPendingMatches(),
\* after it has made of the intents what int is.
LEMMA ContinueStep ==
  ASSUME IInv,
         NEW k \in Handlers,
         NEW rec \in TaskRecords,
         rec.kind = "create" => rec.request \in Requests /\ rec.ticket \in Tickets,
         rec.ticket \in {None, task[k].ticket},
         NEW int \in [Candidates -> IntentRecords],
         \A c \in Candidates : IntentMoves(c, int[c]),
         NEW armed \in BOOLEAN,
         Continue(k, rec, int, armed),
         TicketShape, RowShape, rooms \subseteq rooms',
         \A t \in Tickets : status[t] = "none" => status'[t] = "none"
  PROVE  /\ StepShape
         /\ (\A j \in Handlers : TaskOK(task[j]))' /\ TaskTickets'
         /\ intent' \in [Candidates -> IntentRecords]
         /\ task' \in [Handlers -> TaskRecords]
         /\ processed' \in [Requests -> Tickets \cup {None}]
         /\ alarm' \in BOOLEAN
<1>1. /\ intent' \in [Candidates -> IntentRecords]
      /\ \A c \in Candidates :
            \/ intent'[c].status = int[c].status /\ intent'[c].result = int[c].result
            \/ int[c].status \in Live /\ intent'[c].status \in Live
      /\ task' \in [Handlers -> TaskRecords]
      /\ \A j \in Handlers \ {k} : SameTask(j)
      /\ \/ task'[k] = Idle
         \/ /\ task'[k].pc = "init"
            /\ task'[k].cand \in Candidates /\ int[task'[k].cand].status \in Live
            /\ task'[k].kind = rec.kind /\ task'[k].request = rec.request
            /\ task'[k].ticket = rec.ticket
      /\ processed' \in [Requests -> Tickets \cup {None}]
      /\ alarm' \in BOOLEAN
  BY ContinueEffect DEF IInv
<1>2. \A c \in Candidates : IntentShape(c)
  BY <1>1 DEF IntentShape, IntentMoves, Live
<1>3. StepShape
  BY <1>2 DEF StepShape
<1>4. TaskOK(task[k])' /\ task'[k].ticket \in {None, task[k].ticket}
  <2>1. CASE task'[k] = Idle
    BY <2>1 DEF Idle, TaskOK
  <2>2. CASE task'[k] # Idle
    <3>1. intent'[task'[k].cand].status # "none"
      BY <1>1, <2>2 DEF Live
    <3>. QED
      BY <1>1, <2>2, <3>1 DEF TaskOK
  <2>. QED
    BY <2>1, <2>2
<1>5. task'[k].ticket # None => \A j \in Handlers \ {k} : task[j].ticket # task'[k].ticket
  BY <1>4 DEF IInv, TaskTickets
<1>. QED
  BY <1>1, <1>3, <1>4, <1>5, TasksKept

\* A step in which handler k begins to wait, or ends, and settles nothing.
LEMMA BeginStep ==
  ASSUME IInv,
         NEW k \in Handlers,
         NEW rec \in TaskRecords,
         task' = [task EXCEPT ![k] = rec],
         \A c \in Candidates : IntentShape(c),
         TicketShape, RowShape, rooms \subseteq rooms',
         \A t \in Tickets : status[t] = "none" /\ status'[t] # "none" =>
            \A j \in Handlers \ {k} : task[j].ticket # t,
         TaskOK(rec)',
         rec.ticket # None => \A j \in Handlers \ {k} : task[j].ticket # rec.ticket
  PROVE  /\ StepShape
         /\ (\A j \in Handlers : TaskOK(task[j]))' /\ TaskTickets'
         /\ task' \in [Handlers -> TaskRecords]
<1>1. task' \in [Handlers -> TaskRecords] /\ task'[k] = rec
  BY DEF IInv, TypeOK
<1>2. \A j \in Handlers \ {k} : SameTask(j)
  BY DEF IInv, TypeOK, SameTask
<1>3. StepShape
  BY DEF StepShape
<1>. QED
  BY <1>1, <1>2, <1>3, TasksKept DEF TaskOK
-----------------------------------------------------------------------------
(* Every action keeps the invariant.                                       *)

\* What an action may do to the state outside the queue.
OutsideOK ==
    /\ detached' \subseteq Tickets /\ frozen' \subseteq Tickets
    /\ rooms' \subseteq Candidates /\ rooms \subseteq rooms'
    /\ crashes' \in Nat

LEMMA QuietBegin ==
  ASSUME IInv, NEW k \in Handlers, NEW rec \in TaskRecords,
         Begin(k, rec), UNCHANGED queue, OutsideOK, TaskOK(rec),
         rec.ticket # None => \A j \in Handlers \ {k} : task[j].ticket # rec.ticket
  PROVE  Kept
<1>1. TicketShape /\ RowShape
  BY QuietShape DEF queue, IInv
<1>2. \A c \in Candidates : IntentShape(c)
  BY DEF IntentShape, IntentMoves, Begin
<1>3. TaskOK(rec)'
  BY DEF TaskOK, SameResult, Begin, queue
<1>4. /\ StepShape /\ (\A j \in Handlers : TaskOK(task[j]))' /\ TaskTickets'
      /\ task' \in [Handlers -> TaskRecords]
  BY <1>1, <1>2, <1>3, BeginStep DEF Begin, OutsideOK, queue
<1>5. TypeOK'
  BY <1>4 DEF IInv, TypeOK, OutsideOK, Begin, queue
<1>. QED
  BY <1>4, <1>5, StepKeepsInvariant

LEMMA TaskFields ==
  ASSUME IInv, NEW k \in Handlers
  PROVE  /\ task[k] \in TaskRecords /\ TaskOK(task[k])
         /\ task[k].ticket # None => \A j \in Handlers \ {k} : task[j].ticket # task[k].ticket
  BY DEF IInv, TypeOK, TaskTickets

\* A handler that ends without having changed anything in the Pool.
LEMMA QuietDone ==
  ASSUME IInv, NEW k \in Handlers, Done(k), UNCHANGED queue, OutsideOK
  PROVE  Kept
<1>1. TaskOK(Idle) /\ Idle.ticket = None
  BY DEF TaskOK, Idle
<1>. QED
  BY <1>1, QuietBegin, IdleType DEF Done

LEMMA CreatePartyKeeps ==
  ASSUME IInv, NEW k \in Handlers, NEW r \in Requests, NEW t \in Tickets, CreateParty(k, r, t)
  PROVE  Kept
<1> DEFINE rec == [CreateRec(r, t) EXCEPT !.pc = "begin"]
<1>1. rec \in TaskRecords /\ rec.ticket = t
  BY DEF CreateRec, Idle, TaskRecords
<1>2. TaskOK(rec)
  BY DEF CreateRec, Idle, TaskOK, CreateParty, MayCreate, FreshTicket
<1>3. \A j \in Handlers \ {k} : task[j].ticket # t
  BY DEF CreateParty, MayCreate, FreshTicket
<1>4. OutsideOK
  BY DEF CreateParty, external, OutsideOK, IInv, TypeOK
<1>. QED
  BY <1>1, <1>2, <1>3, <1>4, QuietBegin DEF CreateParty

LEMMA PartyAnswersKeep ==
  ASSUME IInv, NEW k \in Handlers,
         PartyFrozen(k) \/ PartyRefused(k) \/ RatingsFailed(k) \/ CreateUndone(k)
  PROVE  Kept
<1>1. task[k].pc \in {"begin", "ratings", "undo"} /\ task[k].ticket \in Tickets
  BY TaskFields DEF PartyFrozen, PartyRefused, RatingsFailed, CreateUndone, TaskOK
<1>2. OutsideOK
  BY <1>1 DEF PartyFrozen, PartyRefused, RatingsFailed, CreateUndone, EndQueueTicket, external,
     OutsideOK, IInv, TypeOK
<1>3. ASSUME NEW p \in {"undo", "ratings"}, p = "ratings" => task[k].pc = "begin",
             Begin(k, [task[k] EXCEPT !.pc = p]), UNCHANGED queue
      PROVE  Kept
  <2> DEFINE rec == [task[k] EXCEPT !.pc = p]
  <2>1. /\ rec \in TaskRecords /\ rec.ticket = task[k].ticket /\ rec.kind = task[k].kind
        /\ rec.request = task[k].request /\ rec.pc = p
    BY TaskFields DEF TaskRecords
  <2>2. TaskOK(rec)
    BY <1>1, <1>3, <2>1, TaskFields DEF TaskOK
  <2>. QED
    BY <1>2, <1>3, <2>1, <2>2, TaskFields, QuietBegin
<1>4. CASE PartyFrozen(k)
  BY <1>3, <1>4 DEF PartyFrozen
<1>5. CASE PartyRefused(k) \/ CreateUndone(k)
  BY <1>2, <1>5, QuietDone DEF PartyRefused, CreateUndone
<1>6. CASE RatingsFailed(k)
  BY <1>3, <1>6 DEF RatingsFailed
<1>. QED
  BY <1>4, <1>5, <1>6

LEMMA InsertTicketKeeps ==
  ASSUME IInv, NEW k \in Handlers, NEW rec \in TaskRecords,
         rec.kind = "create", rec.request \in Requests, rec.ticket \in Tickets,
         status[rec.ticket] = "none",
         \A j \in Handlers \ {k} : task[j].ticket # rec.ticket,
         InsertTicket(k, rec), UNCHANGED <<detached, external, crashes>>
  PROVE  Kept
<1> DEFINE r == rec.request
           t == rec.ticket
           src == [source EXCEPT ![t] = r]
<1>1. OutsideOK
  BY DEF external, OutsideOK, IInv, TypeOK
<1>2. src \in [Tickets -> Requests \cup {None}]
  BY DEF IInv, TypeOK
<1> DEFINE undo == [rec EXCEPT !.pc = "undo"]
           Reject == IF r \in PartyRequests THEN Begin(k, undo) ELSE Done(k)
<1>3. /\ undo \in TaskRecords /\ undo.ticket = t /\ undo.kind = "create" /\ undo.request = r
      /\ undo.pc = "undo"
  BY DEF TaskRecords
<1>4. CASE Reject /\ UNCHANGED queue
  <2>1. TaskOK(undo)
    BY <1>3 DEF TaskOK
  <2>. QED
    BY <1>1, <1>3, <1>4, <2>1, QuietBegin, QuietDone
<1>5. CASE /\ status' = [status EXCEPT ![t] = "creating"]
           /\ source' = src
           /\ Reject
           /\ UNCHANGED <<candidate, result, queuePlayer, overdue, events>>
  <2>1. TicketShape /\ RowShape
    BY <1>5 DEF TicketShape, QueueTurn, RowShape, Same, Enters, IInv, TypeOK, Queued
  <2>2. \A c \in Candidates : IntentShape(c)
    BY <1>5 DEF IntentShape, IntentMoves, Begin, Done
  <2>3. \A u \in Tickets : status[u] = "none" /\ status'[u] # "none" =>
            \A j \in Handlers \ {k} : task[j].ticket # u
    BY <1>5 DEF IInv, TypeOK
  <2>4. TaskOK(undo)' /\ TaskOK(Idle)' /\ Idle.ticket = None
    BY <1>3 DEF TaskOK, Idle
  <2> HIDE DEF undo
  <2>5. /\ StepShape /\ (\A j \in Handlers : TaskOK(task[j]))' /\ TaskTickets'
        /\ task' \in [Handlers -> TaskRecords]
    <3>1. CASE r \in PartyRequests
      <4>1. task' = [task EXCEPT ![k] = undo]
        BY <1>5, <3>1 DEF Begin
      <4>2. undo.ticket # None => \A j \in Handlers \ {k} : task[j].ticket # undo.ticket
        BY <1>3
      <4>3. rooms \subseteq rooms'
        BY <1>1 DEF OutsideOK
      <4>. QED
        BY <1>3, <2>1, <2>2, <2>3, <2>4, <4>1, <4>2, <4>3, BeginStep
    <3>2. CASE r \notin PartyRequests
      BY <1>1, <1>5, <2>1, <2>2, <2>3, <2>4, <3>2, BeginStep, IdleType DEF Begin, Done, OutsideOK
    <3>. QED
      BY <3>1, <3>2
  <2>6. TypeOK'
    BY <1>1, <1>2, <1>5, <2>5 DEF TypeOK, IInv, OutsideOK, Begin, Done, Statuses
  <2>. QED
    BY <2>5, <2>6, StepKeepsInvariant
<1>6. CASE /\ ~AnyQueued(r)
           /\ source' = src
           /\ queuePlayer' = [p \in Players |-> IF p \in Members[r] THEN t ELSE queuePlayer[p]]
           /\ LET st == [status EXCEPT ![t] = "waiting"]
                  ev == [events EXCEPT ![t] = @ \o <<"creating", "waiting">>]
              IN \E S \in Searches(st) :
                    /\ FullTeams(S, src)
                    /\ Reserve(S, st, ev)
                    /\ ProcessPendingMatches(k, rec, IntentsFor(S), alarm)
           /\ UNCHANGED <<result, overdue>>
  <2> DEFINE st == [status EXCEPT ![t] = "waiting"]
             ev == [events EXCEPT ![t] = @ \o <<"creating", "waiting">>]
  <2>1. PICK S \in Searches(st) :
          /\ Reserve(S, st, ev)
          /\ ProcessPendingMatches(k, rec, IntentsFor(S), alarm)
    BY <1>6
  <2>2. st \in [Tickets -> Statuses] /\ alarm \in BOOLEAN
    BY DEF IInv, TypeOK, Statuses
  <2>3. ev \in [Tickets -> Seq(Statuses)]
    <3>1. <<"creating", "waiting">> \in Seq(Statuses)
      BY DEF Statuses
    <3>2. events[t] \in Seq(Statuses)
      BY DEF IInv, TypeOK
    <3>3. events[t] \o <<"creating", "waiting">> \in Seq(Statuses)
      BY <3>1, <3>2
    <3>. QED
      BY <3>3 DEF IInv, TypeOK
  <2>4. /\ S \in SUBSET Candidates /\ \A u \in UNION S : st[u] = "waiting"
        /\ \A c, d \in S : c # d => c \cap d = {}
    BY DEF Searches
  <2>5. \A u \in Tickets : st[u] = IF u = t THEN "waiting" ELSE status[u]
    BY DEF IInv, TypeOK
  <2>6. \A u \in Tickets : source'[u] = IF u = t THEN r ELSE source[u]
    BY <1>6 DEF IInv, TypeOK
  <2> HIDE DEF st, ev, src
  <2>7. \A u \in UNION S : /\ source'[u] \in Requests
                           /\ status[u] = "waiting" => source'[u] = source[u]
    <3> SUFFICES ASSUME NEW u \in UNION S
                 PROVE  /\ source'[u] \in Requests
                        /\ status[u] = "waiting" => source'[u] = source[u]
      OBVIOUS
    <3>1. u \in Tickets
      BY <2>4, CandidateType
    <3>. QED
      BY <2>4, <2>5, <2>6, <3>1 DEF IInv, SourceOK
  <2>8. \A u \in Tickets : st[u] = "waiting" => status[u] \in {"none", "waiting"}
    BY <2>5
  <2>9. /\ \A u \in UNION S : Reserves(u)
        /\ \A u \in Tickets \ UNION S : status'[u] = st[u] /\ candidate'[u] = candidate[u]
        /\ \A c \in Candidates : IntentShape(c)
        /\ status' \in [Tickets -> Statuses]
        /\ candidate' \in [Tickets -> Candidates \cup {None}]
        /\ events' \in [Tickets -> Seq(Statuses)]
        /\ intent' \in [Candidates -> IntentRecords]
        /\ task' \in [Handlers -> TaskRecords]
        /\ processed' \in [Requests -> Tickets \cup {None}]
        /\ alarm' \in BOOLEAN
        /\ \A j \in Handlers \ {k} : SameTask(j)
        /\ TaskOK(task[k])'
        /\ task'[k].ticket \in {None, rec.ticket}
    <3>1. UNCHANGED result
      BY <1>6
    <3>2. Reserved(k, rec, st, S)
      BY <2>1, <2>2, <2>3, <2>4, <2>7, <2>8, <3>1, ReserveEffect
    <3>. QED
      BY <3>2 DEF Reserved
  <2>10. QueueTurn
    <3> SUFFICES ASSUME NEW u \in Tickets, u \notin UNION S
                 PROVE  Same(u) \/ Enters(u)
      BY <2>9 DEF QueueTurn
    <3>1. status'[u] = st[u] /\ candidate'[u] = candidate[u] /\ result'[u] = result[u]
      BY <1>6, <2>9
    <3>. QED
      BY <2>5, <2>6, <3>1 DEF Same, Enters, Queued
  <2>11. \A u \in Tickets : status[u] = "none" /\ status'[u] # "none" => u = t
    BY <2>4, <2>5, <2>9, CandidateType
  <2>12. RowShape
    <3>1. \A p \in Players : queuePlayer'[p] = queuePlayer[p] \/ queuePlayer[p] = None
      BY <1>6 DEF AnyQueued
    <3>2. \A p \in Members[source'[t]] : queuePlayer'[p] = t
      BY <1>6, <2>6, PoolAssumption
    <3>. QED
      BY <2>11, <3>1, <3>2 DEF RowShape
  <2>13. StepShape
    BY <1>1, <2>9, <2>10, <2>12 DEF StepShape, TicketShape, OutsideOK
  <2>14. (\A j \in Handlers : TaskOK(task[j]))' /\ TaskTickets'
    <3>1. task'[k].ticket # None =>
             \A j \in Handlers \ {k} : task[j].ticket # task'[k].ticket
      BY <2>9
    <3>2. \A u \in Tickets : status[u] = "none" /\ status'[u] # "none" =>
             \A j \in Handlers \ {k} : task[j].ticket # u
      BY <2>11
    <3>. QED
      BY <2>9, <2>13, <3>1, <3>2, TasksKept
  <2>15. queuePlayer' \in [Players -> Tickets \cup {None}]
    BY <1>6 DEF IInv, TypeOK
  <2>16. TypeOK'
    BY <1>1, <1>2, <1>6, <2>9, <2>15 DEF TypeOK, IInv, OutsideOK, src
  <2>. QED
    BY <2>13, <2>14, <2>16, StepKeepsInvariant
<1>. QED
  BY <1>4, <1>5, <1>6 DEF InsertTicket

LEMMA CreateKeeps ==
  ASSUME IInv, NEW k \in Handlers,
         RatingsRead(k) \/ \E r \in Requests, t \in Tickets : CreateSolo(k, r, t)
  PROVE  Kept
<1>1. CASE RatingsRead(k)
  <2>1. /\ task[k].kind = "create" /\ task[k].request \in Requests /\ task[k].ticket \in Tickets
        /\ status[task[k].ticket] = "none"
    BY <1>1, TaskFields DEF RatingsRead, TaskOK
  <2>2. task[k].ticket # None
    BY <2>1, PoolAssumption
  <2>. QED
    BY <1>1, <2>1, <2>2, TaskFields, InsertTicketKeeps DEF RatingsRead
<1>2. ASSUME NEW r \in Requests, NEW t \in Tickets, CreateSolo(k, r, t)
      PROVE  Kept
  <2>1. /\ CreateRec(r, t) \in TaskRecords /\ CreateRec(r, t).kind = "create"
        /\ CreateRec(r, t).request = r /\ CreateRec(r, t).ticket = t
    BY DEF CreateRec, Idle, TaskRecords
  <2>2. status[t] = "none" /\ \A j \in Handlers \ {k} : task[j].ticket # t
    BY <1>2 DEF CreateSolo, MayCreate, FreshTicket
  <2>. QED
    BY <1>2, <2>1, <2>2, InsertTicketKeeps DEF CreateSolo
<1>. QED
  BY <1>1, <1>2

\* A search after the tickets T have expired, and the settlement it starts.
LEMMA SearchAndSettleKeeps ==
  ASSUME IInv, NEW k \in Handlers,
         NEW T \in SUBSET Tickets, \A t \in T : status[t] \in Queued,
         NEW st, st = Mark(status, T, "expired"),
         NEW ev \in [Tickets -> Seq(Statuses)],
         NEW armed, armed \in BOOLEAN,
         NEW S \in SUBSET Candidates,
         \A t \in UNION S : st[t] = "waiting",
         \A c, d \in S : c # d => c \cap d = {},
         Reserve(S, st, ev),
         NEW rec \in TaskRecords, rec.kind # "create", rec.ticket = None,
         ProcessPendingMatches(k, rec, IntentsFor(S), armed),
         queuePlayer' = Dequeue(T),
         UNCHANGED <<source, result, overdue>>, OutsideOK
  PROVE  Kept
<1>1. /\ st \in [Tickets -> Statuses]
      /\ \A t \in Tickets : st[t] = IF t \in T THEN "expired" ELSE status[t]
  BY DEF Mark, Statuses, IInv, TypeOK
<1>2. \A t \in Tickets : st[t] = "waiting" => status[t] \in {"none", "waiting"}
  BY <1>1
<1>3. UNION S \subseteq Tickets
  BY CandidateType
<1>4. \A t \in UNION S : /\ source'[t] \in Requests
                         /\ status[t] = "waiting" => source'[t] = source[t]
  BY <1>1, <1>3 DEF IInv, SourceOK
<1>5. UNCHANGED result
  OBVIOUS
<1>6. Reserved(k, rec, st, S)
  BY <1>1, <1>2, <1>4, <1>5, ReserveEffect, ZenonT(30)
<1>7. QueueTurn
  <2> SUFFICES ASSUME NEW t \in Tickets, t \notin UNION S
               PROVE  Same(t) \/ Closes(t)
    BY <1>6 DEF QueueTurn, Reserved
  <2>. QED
    BY <1>1, <1>6 DEF Reserved, Same, Closes
<1>8. \A t \in Tickets : status[t] = "none" => status'[t] = "none"
  BY <1>1, <1>3, <1>6 DEF Reserved, Queued
<1>9. RowShape
  <2>1. \A t \in T : status'[t] = "expired"
    BY <1>1, <1>6 DEF Reserved
  <2>. QED
    BY <1>8, <2>1 DEF RowShape, Dequeue, Ended
<1>10. StepShape
  BY <1>6, <1>7, <1>9 DEF StepShape, TicketShape, OutsideOK, Reserved
<1>11. (\A j \in Handlers : TaskOK(task[j]))' /\ TaskTickets'
  <2>1. task'[k].ticket = None /\ TaskOK(task[k])' /\ \A j \in Handlers \ {k} : SameTask(j)
    BY <1>6 DEF Reserved
  <2>. QED
    BY <1>8, <1>10, <2>1, TasksKept
<1>12. queuePlayer' \in [Players -> Tickets \cup {None}]
  BY DEF Dequeue, IInv, TypeOK
<1>13. TypeOK'
  BY <1>6, <1>12 DEF Reserved, TypeOK, IInv, OutsideOK
<1>. QED
  BY <1>10, <1>11, <1>13, StepKeepsInvariant

LEMMA MarkNone ==
  ASSUME IInv
  PROVE  status = Mark(status, {}, "expired") /\ queuePlayer = Dequeue({})
  BY DEF Mark, Dequeue, IInv, TypeOK

LEMMA SettleRec ==
  LET rec == [Idle EXCEPT !.kind = "settle"]
  IN  rec \in TaskRecords /\ rec.kind # "create" /\ rec.ticket = None
  BY DEF Idle, TaskRecords

LEMMA SearchesType ==
  ASSUME NEW st, NEW S \in Searches(st)
  PROVE  /\ S \in SUBSET Candidates /\ \A t \in UNION S : st[t] = "waiting"
         /\ \A c, d \in S : c # d => c \cap d = {}
  BY DEF Searches

LEMMA SearchKeeps ==
  ASSUME IInv, NEW k \in Handlers,
         SearchAndSettle(k, status, events, alarm),
         UNCHANGED <<source, result, queuePlayer, overdue>>, OutsideOK
  PROVE  Kept
<1>1. PICK S \in Searches(status) :
        /\ Reserve(S, status, events)
        /\ ProcessPendingMatches(k, [Idle EXCEPT !.kind = "settle"], IntentsFor(S), alarm)
  BY DEF SearchAndSettle
<1>2. /\ S \in SUBSET Candidates /\ \A t \in UNION S : status[t] = "waiting"
      /\ \A c, d \in S : c # d => c \cap d = {}
  BY SearchesType
<1>3. events \in [Tickets -> Seq(Statuses)] /\ alarm \in BOOLEAN
  BY DEF IInv, TypeOK
<1>4. queuePlayer' = Dequeue({}) /\ UNCHANGED <<source, result, overdue>>
  BY MarkNone
<1>5. {} \in SUBSET Tickets /\ (\A t \in {} : status[t] \in Queued)
  OBVIOUS
<1> DEFINE rec == [Idle EXCEPT !.kind = "settle"]
<1>6. rec \in TaskRecords /\ rec.kind # "create" /\ rec.ticket = None
  BY SettleRec
<1>7. ProcessPendingMatches(k, rec, IntentsFor(S), alarm) /\ Reserve(S, status, events)
  BY <1>1
<1>8. status = Mark(status, {}, "expired")
  BY MarkNone
<1> HIDE DEF rec
<1>. QED
  BY <1>2, <1>3, <1>4, <1>5, <1>6, <1>7, <1>8, SearchAndSettleKeeps

LEMMA SearchRpcKeeps ==
  ASSUME IInv, NEW k \in Handlers, SearchRpc(k)
  PROVE  Kept
<1>1. OutsideOK
  BY DEF SearchRpc, external, OutsideOK, IInv, TypeOK
<1>. QED
  BY <1>1, SearchKeeps DEF SearchRpc

LEMMA ReserveCandidateKeeps ==
  ASSUME IInv, NEW k \in Handlers, NEW c \in Candidates, ReserveCandidate(k, c)
  PROVE  Kept
<1>1. OutsideOK /\ UNCHANGED <<source, result, overdue>> /\ queuePlayer' = Dequeue({})
  BY MarkNone DEF ReserveCandidate, external, OutsideOK, IInv, TypeOK
<1>2. /\ {c} \in SUBSET Candidates /\ \A t \in UNION {c} : status[t] = "waiting"
      /\ \A d, e \in {c} : d # e => d \cap e = {}
  BY DEF ReserveCandidate
<1>3. events \in [Tickets -> Seq(Statuses)] /\ alarm \in BOOLEAN
  BY DEF IInv, TypeOK
<1>4. /\ Reserve({c}, status, events)
      /\ ProcessPendingMatches(k, [Idle EXCEPT !.kind = "settle"], IntentsFor({c}), alarm)
  BY DEF ReserveCandidate
<1>. QED
  BY <1>1, <1>2, <1>3, <1>4, MarkNone, SettleRec, SearchAndSettleKeeps

LEMMA CreateReplayKeeps ==
  ASSUME IInv, NEW k \in Handlers, NEW r \in Requests, CreateReplay(k, r)
  PROVE  Kept
<1> DEFINE rec == [Idle EXCEPT !.kind = "settle", !.todo = {c \in Candidates : Claimable(intent[c])}]
<1>1. /\ rec \in TaskRecords /\ rec.kind # "create" /\ rec.ticket = None
  BY DEF Idle, TaskRecords
<1>2. Continue(k, rec, intent, alarm)
  BY DEF CreateReplay, ProcessPendingMatches, Idle
<1>3. OutsideOK /\ UNCHANGED queue
  BY DEF CreateReplay, external, OutsideOK, IInv, TypeOK
<1>4. TicketShape /\ RowShape
  BY <1>3, QuietShape DEF queue, IInv
<1>5. /\ intent \in [Candidates -> IntentRecords] /\ alarm \in BOOLEAN
      /\ \A c \in Candidates : IntentMoves(c, intent[c])
  BY DEF IInv, TypeOK, IntentMoves
<1>6. /\ rooms \subseteq rooms'
      /\ \A t \in Tickets : status[t] = "none" => status'[t] = "none"
  BY <1>3 DEF OutsideOK, queue
<1> HIDE DEF rec
<1>7. /\ StepShape /\ (\A j \in Handlers : TaskOK(task[j]))' /\ TaskTickets'
      /\ intent' \in [Candidates -> IntentRecords] /\ task' \in [Handlers -> TaskRecords]
      /\ processed' \in [Requests -> Tickets \cup {None}] /\ alarm' \in BOOLEAN
  BY <1>1, <1>2, <1>4, <1>5, <1>6, ContinueStep
<1>8. TypeOK'
  BY <1>3, <1>7 DEF IInv, TypeOK, OutsideOK, queue
<1>. QED
  BY <1>7, <1>8, StepKeepsInvariant

\* Completing the intent of a pair whose tickets carry the result.
LEMMA CompleteMoves ==
  ASSUME IInv, NEW c \in Candidates, NEW token \in Nat, SameResult(c, token)'
  PROVE  /\ Complete(c, token) \in [Candidates -> IntentRecords]
         /\ \A d \in Candidates : IntentMoves(d, Complete(c, token)[d])
<1>1. intent \in [Candidates -> IntentRecords]
  BY DEF IInv, TypeOK
<1>2. CASE intent[c].status = "failed"
  BY <1>1, <1>2 DEF Complete, IntentMoves
<1>3. CASE intent[c].status # "failed"
  <2> DEFINE i == [intent[c] EXCEPT !.status = "matched", !.due = FALSE, !.result = token]
  <2>1. Complete(c, token) = [intent EXCEPT ![c] = i]
    BY <1>1, <1>3 DEF Complete, IntentRecords
  <2>2. i \in IntentRecords /\ i.status = "matched" /\ i.result = token
    BY <1>1 DEF IntentRecords
  <2> HIDE DEF i
  <2>3. Complete(c, token) \in [Candidates -> IntentRecords]
    BY <1>1, <2>1, <2>2
  <2>4. \A d \in Candidates : Complete(c, token)[d] = IF d = c THEN i ELSE intent[d]
    BY <1>1, <2>1
  <2>5. ASSUME NEW d \in Candidates
        PROVE  IntentMoves(d, Complete(c, token)[d])
    BY <2>2, <2>4 DEF IntentMoves, SameResult
  <2>. QED
    BY <2>3, <2>5
<1>. QED
  BY <1>2, <1>3

\* applyMatchResult() on a reserved pair.
LEMMA ApplyShape ==
  ASSUME IInv, NEW c \in Candidates, NEW token \in Nat,
         BothReserved(c), ApplyMatchResult(c, token), c \in rooms'
  PROVE  /\ TicketShape /\ RowShape
         /\ SameResult(c, token)'
         /\ \A t \in Tickets : status[t] = "none" => status'[t] = "none"
         /\ status' \in [Tickets -> Statuses]
         /\ result' \in [Tickets -> Nat \cup {None}]
         /\ events' \in [Tickets -> Seq(Statuses)]
         /\ queuePlayer' \in [Players -> Tickets \cup {None}]
         /\ UNCHANGED <<source, candidate, overdue>>
<1>1. /\ status \in [Tickets -> Statuses] /\ candidate \in [Tickets -> Candidates \cup {None}]
      /\ result \in [Tickets -> Nat \cup {None}] /\ events \in [Tickets -> Seq(Statuses)]
      /\ queuePlayer \in [Players -> Tickets \cup {None}] /\ c \subseteq Tickets
  BY CandidateType DEF IInv, TypeOK
<1>2. /\ \A t \in Tickets : status'[t] = IF t \in c THEN "matched" ELSE status[t]
      /\ \A t \in Tickets : result'[t] = IF t \in c THEN token ELSE result[t]
      /\ UNCHANGED <<source, candidate, overdue>>
  BY DEF ApplyMatchResult, Mark
<1>3. MatchSettles(c) /\ SameResult(c, token)'
  BY <1>1, <1>2 DEF MatchSettles, Settles, SameResult, BothReserved
<1>4. \A t \in Tickets : status[t] = "none" => status'[t] = "none"
  BY <1>1, <1>2 DEF BothReserved
<1>5. RowShape
  BY <1>1, <1>2, <1>4 DEF RowShape, ApplyMatchResult, Dequeue, Ended
<1>6. /\ status' \in [Tickets -> Statuses] /\ result' \in [Tickets -> Nat \cup {None}]
      /\ events' \in [Tickets -> Seq(Statuses)] /\ queuePlayer' \in [Players -> Tickets \cup {None}]
  BY <1>1 DEF ApplyMatchResult, Mark, Log, Dequeue, Statuses
<1>. QED
  BY <1>2, <1>3, <1>4, <1>5, <1>6 DEF TicketShape

LEMMA InitTask ==
  ASSUME IInv, NEW k \in Handlers, task[k].pc \in {"init", "verify", "matchRelease"}
  PROVE  /\ task[k].cand \in Candidates /\ intent[task[k].cand].status # "none"
         /\ task[k].token \in Nat
         /\ task[k].kind = "create" => task[k].request \in Requests /\ task[k].ticket \in Tickets
  BY TaskFields DEF TaskOK, TaskRecords

\* The catch block of processClaimedMatchIntent().
LEMMA SettlementFailedKeeps ==
  ASSUME IInv, NEW k \in Handlers, task[k].pc = "init",
         NEW retryable \in BOOLEAN, SettlementFailed(k, retryable),
         rooms \subseteq rooms', rooms' \subseteq Candidates,
         UNCHANGED <<frozen, crashes>>
  PROVE  Kept
<1> DEFINE c == task[k].cand
           i == intent[c]
           undone == {t \in c : status[t] = "reserved" /\ candidate[t] = c}
           closed == undone \cup {t \in c : status[t] = "cancelled"}
<1>1. /\ c \in Candidates /\ i.status # "none" /\ task[k] \in TaskRecords
      /\ task[k].kind = "create" => task[k].request \in Requests /\ task[k].ticket \in Tickets
      /\ c \subseteq Tickets
  BY InitTask, TaskFields, CandidateType
<1>2. /\ intent \in [Candidates -> IntentRecords] /\ alarm \in BOOLEAN
      /\ crashes' \in Nat /\ frozen' \subseteq Tickets
  BY DEF IInv, TypeOK
<1>3. ASSUME NEW int \in [Candidates -> IntentRecords],
             \A d \in Candidates : IntentMoves(d, int[d]),
             UNCHANGED <<queue, detached>>,
             Continue(k, task[k], int, alarm)
      PROVE  Kept
  <2>1. TicketShape /\ RowShape
    BY <1>3, QuietShape DEF queue, IInv
  <2>2. \A t \in Tickets : status[t] = "none" => status'[t] = "none"
    BY <1>3 DEF queue
  <2>3. /\ StepShape /\ (\A j \in Handlers : TaskOK(task[j]))' /\ TaskTickets'
        /\ intent' \in [Candidates -> IntentRecords] /\ task' \in [Handlers -> TaskRecords]
        /\ processed' \in [Requests -> Tickets \cup {None}] /\ alarm' \in BOOLEAN
    BY <1>1, <1>2, <1>3, <2>1, <2>2, ContinueStep
  <2>4. TypeOK'
    BY <1>2, <1>3, <2>3 DEF IInv, TypeOK, queue
  <2>. QED
    BY <2>3, <2>4, StepKeepsInvariant
<1>4. CASE /\ i.status = "matched"
           /\ UNCHANGED <<queue, detached>>
           /\ Continue(k, task[k], intent, alarm)
  <2>1. \A d \in Candidates : IntentMoves(d, intent[d])
    BY DEF IntentMoves
  <2>. QED
    BY <1>2, <1>3, <1>4, <2>1
<1>5. CASE /\ status' = Mark(status, undone, "cancelled")
           /\ queuePlayer' = Dequeue(closed)
           /\ detached' = detached \cup PartyTickets(closed)
           /\ UNCHANGED <<source, candidate, result, overdue, events>>
           /\ Continue(k, task[k],
                       [intent EXCEPT ![c].status = "failed", ![c].due = FALSE], alarm)
  <2> DEFINE int == [intent EXCEPT ![c].status = "failed", ![c].due = FALSE]
  <2>1. \A t \in Tickets : status'[t] = IF t \in undone THEN "cancelled" ELSE status[t]
    BY <1>5 DEF Mark
  <2>2. undone = {} \/ BothReserved(c)
    BY <1>1 DEF BothReserved, IInv, ReservedCanSettle
  <2>3. TicketShape
    <3>1. CASE undone = {}
      BY <1>5, <2>1, <3>1 DEF TicketShape, QueueTurn, Same
    <3>2. CASE BothReserved(c)
      <4>1. \A t \in Tickets : t \in undone <=> t \in c
        BY <1>1, <3>2 DEF BothReserved
      <4>2. CloseSettles(c)
        BY <1>1, <1>5, <2>1, <3>2, <4>1 DEF CloseSettles, Settles
      <4>. QED
        BY <1>1, <4>2 DEF TicketShape
    <3>. QED
      BY <2>2, <3>1, <3>2
  <2>4. \A t \in Tickets : status[t] = "none" => status'[t] = "none"
    BY <2>1
  <2>5. closed \subseteq Tickets /\ \A t \in closed : status'[t] \in Ended
    BY <1>1, <2>1 DEF Ended
  <2>6. RowShape
    BY <1>5, <2>4, <2>5 DEF RowShape, Dequeue
  <2>7. int \in [Candidates -> IntentRecords] /\ \A d \in Candidates :
           IF d = c THEN int[d].status = "failed" ELSE int[d] = intent[d]
    BY <1>1, <1>2, ZenonT(30) DEF IntentRecords
  <2>8. \A t \in c : ~(status'[t] = "reserved" /\ candidate'[t] = c)
    BY <1>1, <1>5, <2>1
  <2>9. \A d \in Candidates : IntentMoves(d, int[d])
    BY <1>1, <2>7, <2>8 DEF IntentMoves
  <2>10. status' \in [Tickets -> Statuses] /\ queuePlayer' \in [Players -> Tickets \cup {None}]
    BY <1>5 DEF Mark, Dequeue, Statuses, IInv, TypeOK
  <2>11. Continue(k, task[k], int, alarm)
    BY <1>5
  <2>12. detached' \subseteq Tickets
    BY <1>5, <2>5 DEF PartyTickets, IInv, TypeOK
  <2> HIDE DEF int, undone, closed
  <2>13. /\ StepShape /\ (\A j \in Handlers : TaskOK(task[j]))' /\ TaskTickets'
         /\ intent' \in [Candidates -> IntentRecords] /\ task' \in [Handlers -> TaskRecords]
         /\ processed' \in [Requests -> Tickets \cup {None}] /\ alarm' \in BOOLEAN
    BY <1>1, <1>2, <2>3, <2>4, <2>6, <2>7, <2>9, <2>11, ContinueStep
  <2>14. TypeOK'
    BY <1>2, <1>5, <2>10, <2>12, <2>13 DEF IInv, TypeOK
  <2>. QED
    BY <2>13, <2>14, StepKeepsInvariant
<1>6. CASE /\ UNCHANGED <<queue, detached>>
           /\ Continue(k, task[k],
                       IF i.status = "initializing"
                       THEN [intent EXCEPT ![c].status = "pending", ![c].due = FALSE]
                       ELSE intent, alarm)
  <2> DEFINE int == IF i.status = "initializing"
                    THEN [intent EXCEPT ![c].status = "pending", ![c].due = FALSE]
                    ELSE intent
  <2>1. int \in [Candidates -> IntentRecords]
    <3> DEFINE later == [i EXCEPT !.status = "pending", !.due = FALSE]
    <3>0. i \in IntentRecords
      BY <1>1, <1>2
    <3>1. later \in IntentRecords
      <4> HIDE DEF i
      <4>. QED
        BY <3>0 DEF IntentRecords, Live
    <3>2. [intent EXCEPT ![c].status = "pending", ![c].due = FALSE] = [intent EXCEPT ![c] = later]
      BY <1>1, <1>2 DEF IntentRecords
    <3>. QED
      BY <1>1, <1>2, <3>1, <3>2
  <2>2. \A d \in Candidates : IntentMoves(d, int[d])
    BY <1>1, <1>2 DEF IntentMoves, Live, IntentRecords
  <2>3. UNCHANGED <<queue, detached>> /\ Continue(k, task[k], int, alarm)
    BY <1>6
  <2> HIDE DEF int
  <2>. QED
    BY <1>3, <2>1, <2>2, <2>3
<1>. QED
  BY <1>4, <1>5, <1>6 DEF SettlementFailed

\* A handler that is not creating a ticket returns.
LEMMA ReturnStep ==
  ASSUME IInv, NEW k \in Handlers,
         NEW int \in [Candidates -> IntentRecords],
         \A c \in Candidates : IntentMoves(c, int[c]),
         Return(k, Idle, int),
         TicketShape, RowShape, rooms \subseteq rooms',
         \A t \in Tickets : status[t] = "none" => status'[t] = "none"
  PROVE  /\ StepShape
         /\ (\A j \in Handlers : TaskOK(task[j]))' /\ TaskTickets'
         /\ intent' \in [Candidates -> IntentRecords]
         /\ task' \in [Handlers -> TaskRecords]
         /\ processed' \in [Requests -> Tickets \cup {None}]
         /\ alarm' \in BOOLEAN
<1>1. Idle \in TaskRecords /\ Idle.kind # "create" /\ Idle.ticket = None /\ Idle.todo = {}
  BY DEF Idle, TaskRecords
<1>2. Continue(k, Idle, int, TRUE)
  BY <1>1 DEF Continue
<1>. QED
  BY <1>1, <1>2, ContinueStep

\* The step that applies a result and waits for the Parties to be thawed.
LEMMA AwaitReleaseKeeps ==
  ASSUME IInv, NEW k \in Handlers, task[k].pc \in {"init", "verify"},
         NEW c \in Candidates, c = task[k].cand,
         NEW token \in Nat, token = task[k].token,
         BothReserved(c), ApplyMatchResult(c, token), c \in rooms', OutsideOK,
         AwaitRelease(k, task[k], PartyTickets(c))
  PROVE  Kept
<1> DEFINE rec == [task[k] EXCEPT !.pc = "matchRelease", !.ending = PartyTickets(c)]
<1>1. /\ intent[c].status # "none"
      /\ task[k].kind = "create" => task[k].request \in Requests /\ task[k].ticket \in Tickets
  BY InitTask
<1>2. /\ TicketShape /\ RowShape
      /\ SameResult(c, token)'
      /\ \A t \in Tickets : status[t] = "none" => status'[t] = "none"
      /\ status' \in [Tickets -> Statuses]
      /\ result' \in [Tickets -> Nat \cup {None}]
      /\ events' \in [Tickets -> Seq(Statuses)]
      /\ queuePlayer' \in [Players -> Tickets \cup {None}]
      /\ UNCHANGED <<source, candidate, overdue>>
  BY ApplyShape
<1>3. PartyTickets(c) \in SUBSET Tickets
  BY CandidateType DEF PartyTickets
<1>4. /\ rec \in TaskRecords /\ rec.ticket = task[k].ticket /\ rec.kind = task[k].kind
      /\ rec.request = task[k].request /\ rec.pc = "matchRelease" /\ rec.cand = c
      /\ rec.token = token
  BY <1>3, TaskFields DEF TaskRecords
<1>5. task' = [task EXCEPT ![k] = rec] /\ UNCHANGED <<intent, processed, alarm>>
  BY DEF AwaitRelease, Begin
<1>6. PICK new : new = rec
  OBVIOUS
<1>7. /\ new \in TaskRecords /\ new.ticket = task[k].ticket /\ new.kind = task[k].kind
      /\ new.request = task[k].request /\ new.pc = "matchRelease" /\ new.cand = c
      /\ new.token = token
  BY <1>4, <1>6
<1>8. task' = [task EXCEPT ![k] = new]
  BY <1>5, <1>6
<1> HIDE DEF rec
<1>9. TaskOK(new)'
  <2>1. SameResult(new.cand, new.token)'
    BY <1>2, <1>7
  <2>. QED
    BY <1>1, <1>5, <1>7, <2>1 DEF TaskOK
<1>10. \A d \in Candidates : IntentShape(d)
  BY <1>5 DEF IntentShape, IntentMoves
<1>11. new.ticket # None => \A j \in Handlers \ {k} : task[j].ticket # new.ticket
  BY <1>7, TaskFields
<1>12. /\ StepShape /\ (\A j \in Handlers : TaskOK(task[j]))' /\ TaskTickets'
       /\ task' \in [Handlers -> TaskRecords]
  BY <1>2, <1>7, <1>8, <1>9, <1>10, <1>11, BeginStep DEF OutsideOK
<1>13. TypeOK'
  BY <1>2, <1>5, <1>12 DEF IInv, TypeOK, OutsideOK
<1>. QED
  BY <1>12, <1>13, StepKeepsInvariant

\* The step that applies a result and goes on with the loop at once.
LEMMA AppliedKeeps ==
  ASSUME IInv, NEW k \in Handlers, NEW rec \in TaskRecords,
         rec.kind = "create" => rec.request \in Requests /\ rec.ticket \in Tickets,
         rec.ticket \in {None, task[k].ticket},
         NEW c \in Candidates, NEW token \in Nat,
         BothReserved(c), ApplyMatchResult(c, token), c \in rooms', OutsideOK,
         Continue(k, rec, Complete(c, token), HasDeadline(status', Complete(c, token)))
  PROVE  Kept
<1>1. /\ TicketShape /\ RowShape
      /\ SameResult(c, token)'
      /\ \A t \in Tickets : status[t] = "none" => status'[t] = "none"
      /\ status' \in [Tickets -> Statuses]
      /\ result' \in [Tickets -> Nat \cup {None}]
      /\ events' \in [Tickets -> Seq(Statuses)]
      /\ queuePlayer' \in [Players -> Tickets \cup {None}]
      /\ UNCHANGED <<source, candidate, overdue>>
  BY ApplyShape
<1>2. PICK int : int = Complete(c, token)
  OBVIOUS
<1>3. int \in [Candidates -> IntentRecords] /\ \A d \in Candidates : IntentMoves(d, int[d])
  BY <1>1, <1>2, CompleteMoves
<1>4. PICK armed : armed = HasDeadline(status', int) /\ armed \in BOOLEAN
  BY HasDeadlineType
<1>5. Continue(k, rec, int, armed)
  BY <1>2, <1>4
<1>6. rooms \subseteq rooms'
  BY DEF OutsideOK
<1>7. /\ StepShape /\ (\A j \in Handlers : TaskOK(task[j]))' /\ TaskTickets'
      /\ intent' \in [Candidates -> IntentRecords] /\ task' \in [Handlers -> TaskRecords]
      /\ processed' \in [Requests -> Tickets \cup {None}] /\ alarm' \in BOOLEAN
  <2>1. armed \in BOOLEAN
    BY <1>4
  <2>2. TicketShape /\ RowShape /\ \A t \in Tickets : status[t] = "none" => status'[t] = "none"
    BY <1>1
  <2> HIDE <1>1, <1>2, <1>4
  <2>. QED
    BY <1>3, <1>5, <1>6, <2>1, <2>2, ContinueStep
<1>8. TypeOK'
  BY <1>1, <1>7 DEF IInv, TypeOK, OutsideOK
<1>. QED
  BY <1>7, <1>8, StepKeepsInvariant

LEMMA RoomInitializedKeeps ==
  ASSUME IInv, NEW k \in Handlers, RoomInitialized(k)
  PROVE  Kept
<1>1. PICK c \in Candidates : c = task[k].cand
  BY InitTask DEF RoomInitialized
<1>2. PICK token \in Nat : token = task[k].token
  BY InitTask DEF RoomInitialized
<1>3. /\ intent[c].status # "none" /\ task[k] \in TaskRecords /\ task[k].pc = "init"
      /\ task[k].kind = "create" => task[k].request \in Requests /\ task[k].ticket \in Tickets
  BY <1>1, InitTask, TaskFields DEF RoomInitialized
<1>4. rooms' = rooms \cup {c} /\ UNCHANGED <<frozen, crashes>>
  BY <1>1 DEF RoomInitialized
<1>5. rooms \subseteq rooms' /\ rooms' \subseteq Candidates /\ c \in rooms'
  BY <1>4 DEF IInv, TypeOK
<1>6. CASE SettlementFailed(k, TRUE)
  BY <1>3, <1>4, <1>5, <1>6, SettlementFailedKeeps
<1>7. CASE /\ BothReserved(c)
           /\ ApplyMatchResult(c, token)
           /\ IF PartyTickets(c) = {}
              THEN Continue(k, task[k], Complete(c, token), HasDeadline(status', Complete(c, token)))
              ELSE AwaitRelease(k, task[k], PartyTickets(c))
           /\ UNCHANGED detached
  <2>1. OutsideOK
    BY <1>4, <1>5, <1>7 DEF OutsideOK, IInv, TypeOK
  <2>2. CASE PartyTickets(c) # {}
    BY <1>1, <1>2, <1>3, <1>5, <1>7, <2>1, <2>2, AwaitReleaseKeeps
  <2>3. CASE PartyTickets(c) = {}
    <3>1. Continue(k, task[k], Complete(c, token), HasDeadline(status', Complete(c, token)))
      BY <1>7, <2>3
    <3>. QED
      BY <1>3, <1>5, <1>7, <2>1, <3>1, AppliedKeeps
  <2>. QED
    BY <2>2, <2>3
<1>. QED
  BY <1>1, <1>2, <1>6, <1>7 DEF RoomInitialized

LEMMA RoomFailedKeeps ==
  ASSUME IInv, NEW k \in Handlers, RoomFailed(k)
  PROVE  Kept
<1>1. task[k].pc = "init" /\ task[k].cand \in Candidates
  BY InitTask DEF RoomFailed
<1>2. /\ rooms \subseteq rooms' /\ rooms' \subseteq Candidates
      /\ UNCHANGED <<frozen, crashes>>
  BY <1>1 DEF RoomFailed, IInv, TypeOK
<1>. QED
  BY <1>1, <1>2, SettlementFailedKeeps DEF RoomFailed

\* Steps that go on with the loop and leave the queue as it is.
LEMMA QuietContinue ==
  ASSUME IInv, NEW k \in Handlers, NEW rec \in TaskRecords,
         rec.kind = "create" => rec.request \in Requests /\ rec.ticket \in Tickets,
         rec.ticket \in {None, task[k].ticket},
         NEW int \in [Candidates -> IntentRecords],
         \A c \in Candidates : IntentMoves(c, int[c]),
         NEW armed, armed \in BOOLEAN,
         Continue(k, rec, int, armed),
         UNCHANGED queue, OutsideOK
  PROVE  Kept
<1>1. TicketShape /\ RowShape
  BY QuietShape DEF queue, IInv
<1>2. rooms \subseteq rooms' /\ \A t \in Tickets : status[t] = "none" => status'[t] = "none"
  BY DEF OutsideOK, queue
<1>3. /\ StepShape /\ (\A j \in Handlers : TaskOK(task[j]))' /\ TaskTickets'
      /\ intent' \in [Candidates -> IntentRecords] /\ task' \in [Handlers -> TaskRecords]
      /\ processed' \in [Requests -> Tickets \cup {None}] /\ alarm' \in BOOLEAN
  BY <1>1, <1>2, ContinueStep
<1>4. TypeOK'
  BY <1>3 DEF IInv, TypeOK, OutsideOK, queue
<1>. QED
  BY <1>3, <1>4, StepKeepsInvariant

\* A handler that is not creating a ticket returns, and the queue is as it was.
LEMMA QuietReturn ==
  ASSUME IInv, NEW k \in Handlers,
         NEW int \in [Candidates -> IntentRecords],
         \A c \in Candidates : IntentMoves(c, int[c]),
         Return(k, Idle, int), UNCHANGED queue, OutsideOK
  PROVE  Kept
<1>1. Idle \in TaskRecords /\ Idle.kind # "create" /\ Idle.ticket = None /\ Idle.todo = {}
  BY DEF Idle, TaskRecords
<1>2. Continue(k, Idle, int, TRUE)
  BY <1>1 DEF Continue
<1>. QED
  BY <1>1, <1>2, QuietContinue

LEMMA IntentsStay ==
  ASSUME IInv
  PROVE  /\ intent \in [Candidates -> IntentRecords]
         /\ \A c \in Candidates : IntentMoves(c, intent[c])
  BY DEF IInv, TypeOK, IntentMoves

LEMMA MatchReleasedKeeps ==
  ASSUME IInv, NEW k \in Handlers, MatchReleased(k)
  PROVE  Kept
<1>0. task[k].pc = "matchRelease" /\ UNCHANGED <<queue, detached, rooms, crashes>>
  BY DEF MatchReleased
<1>1. PICK c \in Candidates : c = task[k].cand
  BY <1>0, InitTask
<1>2. PICK token \in Nat : token = task[k].token
  BY <1>0, InitTask
<1>3. /\ intent[c].status # "none"
      /\ task[k].kind = "create" => task[k].request \in Requests /\ task[k].ticket \in Tickets
  BY <1>0, <1>1, InitTask
<1>4. SameResult(c, token)
  BY <1>0, <1>1, <1>2, TaskFields DEF TaskOK
<1>5. SameResult(c, token)'
  BY <1>0, <1>4 DEF SameResult, queue
<1>6. PICK t \in task[k].ending :
        /\ EndQueueTicket(t)
        /\ IF task[k].ending = {t}
           THEN Continue(k, [task[k] EXCEPT !.ending = {}], Complete(c, token),
                         HasDeadline(status, Complete(c, token)))
           ELSE Begin(k, [task[k] EXCEPT !.ending = @ \ {t}])
  <2>1. [task[k] EXCEPT !.ending = {}].cand = c /\ [task[k] EXCEPT !.ending = {}].token = token
    BY <1>1, <1>2, TaskFields DEF TaskRecords
  <2>. QED
    BY <2>1 DEF MatchReleased
<1>7. OutsideOK
  BY <1>0, <1>6 DEF EndQueueTicket, OutsideOK, IInv, TypeOK
<1>8. CASE Begin(k, [task[k] EXCEPT !.ending = @ \ {t}])
  <2> DEFINE rec == [task[k] EXCEPT !.ending = @ \ {t}]
  <2>1. /\ rec \in TaskRecords /\ rec.ticket = task[k].ticket /\ rec.kind = task[k].kind
        /\ rec.request = task[k].request /\ rec.pc = "matchRelease" /\ rec.cand = c
        /\ rec.token = token
    BY <1>0, <1>1, <1>2, TaskFields DEF TaskRecords
  <2> HIDE DEF rec
  <2>2. TaskOK(rec)
    BY <1>3, <1>4, <2>1 DEF TaskOK
  <2>3. rec.ticket # None => \A j \in Handlers \ {k} : task[j].ticket # rec.ticket
    BY <2>1, TaskFields
  <2>4. Begin(k, rec) /\ UNCHANGED queue
    BY <1>0, <1>8 DEF rec
  <2>. QED
    BY <1>7, <2>1, <2>2, <2>3, <2>4, QuietBegin
<1>9. CASE Continue(k, [task[k] EXCEPT !.ending = {}], Complete(c, token),
                    HasDeadline(status, Complete(c, token)))
  <2> DEFINE rec == [task[k] EXCEPT !.ending = {}]
  <2>1. /\ rec \in TaskRecords /\ rec.ticket = task[k].ticket /\ rec.kind = task[k].kind
        /\ rec.request = task[k].request
    BY TaskFields DEF TaskRecords
  <2>2. PICK int : int = Complete(c, token)
    OBVIOUS
  <2>3. int \in [Candidates -> IntentRecords] /\ \A d \in Candidates : IntentMoves(d, int[d])
    BY <1>3, <1>5, <2>2, CompleteMoves
  <2>4. PICK armed : armed = HasDeadline(status, int) /\ armed \in BOOLEAN
    BY HasDeadlineType
  <2>5. Continue(k, rec, int, armed)
    BY <1>9, <2>2, <2>4
  <2>6. armed \in BOOLEAN /\ UNCHANGED queue
    BY <1>0, <2>4
  <2>7. /\ rec.kind = "create" => rec.request \in Requests /\ rec.ticket \in Tickets
        /\ rec.ticket \in {None, task[k].ticket}
    BY <1>3, <2>1
  <2> HIDE DEF rec
  <2> HIDE <2>2, <2>4
  <2>. QED
    BY <1>7, <2>1, <2>3, <2>5, <2>6, <2>7, QuietContinue
<1>. QED
  BY <1>6, <1>8, <1>9

\* Steps that change neither the queue, nor the intents, nor a handler.
LEMMA QuietStep ==
  ASSUME IInv, UNCHANGED <<status, source, candidate, result, queuePlayer, events>>,
         UNCHANGED <<processed, task>>,
         overdue' \subseteq Tickets, alarm' \in BOOLEAN, OutsideOK,
         intent' \in [Candidates -> IntentRecords],
         \A c \in Candidates : IntentMoves(c, intent'[c])
  PROVE  Kept
<1>1. TicketShape /\ RowShape
  BY QuietShape DEF IInv
<1>2. StepShape
  BY <1>1 DEF StepShape, IntentShape, OutsideOK
<1>3. (\A j \in Handlers : TaskOK(task[j]))' /\ TaskTickets'
  <2>1. \A j \in Handlers : SameTask(j)
    BY DEF SameTask
  <2>2. \A j \in Handlers : TaskOK(task[j])'
    BY <1>2, <2>1, TaskKept
  <2>. QED
    BY <2>2 DEF IInv, TaskTickets
<1>4. TypeOK'
  BY DEF IInv, TypeOK, OutsideOK
<1>. QED
  BY <1>2, <1>3, <1>4, StepKeepsInvariant

LEMMA TimeKeeps ==
  ASSUME IInv,
         \/ \E t \in Tickets : DetachedReleased(t) \/ TicketDue(t)
         \/ \E c \in Candidates : IntentDue(c)
         \/ UNCHANGED vars
  PROVE  Kept
<1>1. OutsideOK /\ overdue' \subseteq Tickets /\ alarm' \in BOOLEAN
  BY DEF DetachedReleased, TicketDue, IntentDue, EndQueueTicket, vars, queue, external,
     OutsideOK, IInv, TypeOK
<1>2. /\ UNCHANGED <<status, source, candidate, result, queuePlayer, events>>
      /\ UNCHANGED <<processed, task>>
  BY DEF DetachedReleased, TicketDue, IntentDue, vars, queue
<1>3. ASSUME NEW c \in Candidates, IntentDue(c)
      PROVE  /\ intent' \in [Candidates -> IntentRecords]
             /\ \A d \in Candidates : IntentMoves(d, intent'[d])
  BY <1>3, ZenonT(30) DEF IntentDue, IntentRecords, IntentMoves, IInv, TypeOK
<1>4. ASSUME UNCHANGED intent
      PROVE  /\ intent' \in [Candidates -> IntentRecords]
             /\ \A d \in Candidates : IntentMoves(d, intent'[d])
  BY <1>4, IntentsStay
<1>5. /\ intent' \in [Candidates -> IntentRecords]
      /\ \A d \in Candidates : IntentMoves(d, intent'[d])
  BY <1>3, <1>4 DEF DetachedReleased, TicketDue, vars, queue
<1>. QED
  BY <1>1, <1>2, <1>5, QuietStep

\* The record of a handler that waits for the Parties of closed tickets.
ClosingRec(rec) ==
    /\ rec \in TaskRecords /\ rec.ticket = None
    /\ rec.kind \in {"cancel", "alarm"} /\ rec.pc = "closeRelease"

\* Closing queued tickets and waiting for their Parties to be thawed.
LEMMA CloseBeginKeeps ==
  ASSUME IInv, NEW k \in Handlers, NEW rec, ClosingRec(rec),
         NEW T \in SUBSET Tickets, \A t \in T : status[t] \in Queued,
         NEW s \in {"cancelled", "expired"},
         status' = Mark(status, T, s), queuePlayer' = Dequeue(T), events' = Log(events, T, s),
         UNCHANGED <<source, candidate, result, overdue, intent, processed>>,
         task' = [task EXCEPT ![k] = rec], alarm' \in BOOLEAN, OutsideOK
  PROVE  Kept
<1>1. /\ TicketShape /\ RowShape
      /\ status' \in [Tickets -> Statuses]
      /\ queuePlayer' \in [Players -> Tickets \cup {None}]
      /\ \A t \in Tickets : status[t] = "none" => status'[t] = "none"
  <2>1. TypeOK
    BY DEF IInv
  <2>. QED
    BY <2>1, CloseShape
<1>2. \A c \in Candidates : IntentShape(c)
  BY DEF IntentShape, IntentMoves
<1>3. TaskOK(rec)' /\ rec.ticket = None /\ rec \in TaskRecords
  BY DEF TaskOK, ClosingRec
<1>4. /\ StepShape /\ (\A j \in Handlers : TaskOK(task[j]))' /\ TaskTickets'
      /\ task' \in [Handlers -> TaskRecords]
  BY <1>1, <1>2, <1>3, BeginStep DEF OutsideOK
<1>5. events' \in [Tickets -> Seq(Statuses)]
  BY DEF Log, Statuses, IInv, TypeOK
<1>6. TypeOK'
  BY <1>1, <1>4, <1>5 DEF IInv, TypeOK, OutsideOK
<1>. QED
  BY <1>4, <1>6, StepKeepsInvariant

\* Closing queued tickets that are of no Party.
LEMMA CloseReturnKeeps ==
  ASSUME IInv, NEW k \in Handlers,
         NEW T \in SUBSET Tickets, \A t \in T : status[t] \in Queued,
         NEW s \in {"cancelled", "expired"}, Close(T, s),
         Return(k, Idle, intent), OutsideOK
  PROVE  Kept
<1>1. /\ status' = Mark(status, T, s) /\ queuePlayer' = Dequeue(T) /\ events' = Log(events, T, s)
      /\ UNCHANGED <<source, candidate, result, overdue>>
  BY DEF Close
<1>2. /\ TicketShape /\ RowShape
      /\ status' \in [Tickets -> Statuses]
      /\ queuePlayer' \in [Players -> Tickets \cup {None}]
      /\ \A t \in Tickets : status[t] = "none" => status'[t] = "none"
  <2>1. TypeOK
    BY DEF IInv
  <2>. QED
    BY <1>1, <2>1, CloseShape
<1>3. /\ StepShape /\ (\A j \in Handlers : TaskOK(task[j]))' /\ TaskTickets'
      /\ intent' \in [Candidates -> IntentRecords] /\ task' \in [Handlers -> TaskRecords]
      /\ processed' \in [Requests -> Tickets \cup {None}] /\ alarm' \in BOOLEAN
  BY <1>2, IntentsStay, ReturnStep DEF OutsideOK
<1>4. events' \in [Tickets -> Seq(Statuses)]
  BY <1>1 DEF Log, Statuses, IInv, TypeOK
<1>5. TypeOK'
  BY <1>1, <1>2, <1>3, <1>4 DEF IInv, TypeOK, OutsideOK
<1>. QED
  BY <1>3, <1>5, StepKeepsInvariant

LEMMA CancelTicketKeeps ==
  ASSUME IInv, NEW k \in Handlers, NEW t \in Tickets, CancelTicket(k, t)
  PROVE  Kept
<1>1. /\ {t} \in SUBSET Tickets /\ \A u \in {t} : status[u] \in Queued
      /\ Close({t}, "cancelled") /\ OutsideOK
  BY DEF CancelTicket, external, OutsideOK, IInv, TypeOK
<1>2. CASE Return(k, Idle, intent)
  BY <1>1, <1>2, CloseReturnKeeps
<1>3. CASE Begin(k, [Idle EXCEPT !.kind = "cancel", !.pc = "closeRelease", !.ending = {t}])
  <2>1. PICK rec : rec = [Idle EXCEPT !.kind = "cancel", !.pc = "closeRelease", !.ending = {t}]
    OBVIOUS
  <2>2. ClosingRec(rec)
    BY <2>1 DEF ClosingRec, Idle, TaskRecords
  <2>3. /\ task' = [task EXCEPT ![k] = rec] /\ UNCHANGED <<intent, processed>>
        /\ alarm' \in BOOLEAN
    BY <1>3, <2>1 DEF Begin, IInv, TypeOK
  <2>. QED
    BY <1>1, <2>2, <2>3, CloseBeginKeeps DEF Close
<1>. QED
  BY <1>2, <1>3 DEF CancelTicket

LEMMA ExpireDueTicketsKeeps ==
  ASSUME IInv, NEW k \in Handlers, ExpireDueTickets(k)
  PROVE  Kept
<1>1. /\ Overdue \in SUBSET Tickets /\ \A u \in Overdue : status[u] \in Queued
      /\ Close(Overdue, "expired") /\ OutsideOK
  BY DEF ExpireDueTickets, Overdue, external, OutsideOK, IInv, TypeOK
<1>2. CASE Return(k, Idle, intent)
  BY <1>1, <1>2, CloseReturnKeeps
<1>3. CASE Begin(k, [Idle EXCEPT !.kind = "cancel", !.pc = "closeRelease",
                                 !.ending = PartyTickets(Overdue)])
  <2>1. PICK rec : rec = [Idle EXCEPT !.kind = "cancel", !.pc = "closeRelease",
                                      !.ending = PartyTickets(Overdue)]
    OBVIOUS
  <2>2. ClosingRec(rec)
    BY <1>1, <2>1 DEF ClosingRec, Idle, TaskRecords, PartyTickets
  <2>3. /\ task' = [task EXCEPT ![k] = rec] /\ UNCHANGED <<intent, processed>>
        /\ alarm' \in BOOLEAN
    BY <1>3, <2>1 DEF Begin, IInv, TypeOK
  <2>. QED
    BY <1>1, <2>2, <2>3, CloseBeginKeeps DEF Close
<1>. QED
  BY <1>2, <1>3 DEF ExpireDueTickets

\* The RPC that releases nobody.
LEMMA ExpireTicketKeeps ==
  ASSUME IInv, NEW t \in Tickets, ExpireTicket(t)
  PROVE  Kept
<1>1. alarm' \in BOOLEAN
  BY HasDeadlineType, Zenon DEF ExpireTicket
<1>2. /\ status[t] \in Queued /\ status' = Mark(status, {t}, "expired")
      /\ events' = Log(events, {t}, "expired")
      /\ UNCHANGED <<source, candidate, result, queuePlayer, overdue, intent, processed, task,
                     detached, frozen, rooms, crashes>>
  BY DEF ExpireTicket, external
<1>3. \A u \in Tickets : Same(u) \/ Closes(u)
  BY <1>2 DEF Same, Closes, Mark
<1>4. \A u \in Tickets : status[u] = "none" => status'[u] = "none"
  BY <1>2 DEF Mark, Queued
<1>5. StepShape
  BY <1>2, <1>3, <1>4 DEF StepShape, TicketShape, QueueTurn, RowShape, IntentShape, IntentMoves
<1>6. (\A j \in Handlers : TaskOK(task[j]))' /\ TaskTickets'
  <2>1. \A j \in Handlers : SameTask(j)
    BY <1>2 DEF SameTask
  <2>2. \A j \in Handlers : TaskOK(task[j])'
    BY <1>4, <1>5, <2>1, TaskKept
  <2>. QED
    BY <1>2, <2>2 DEF IInv, TaskTickets
<1>7. status' \in [Tickets -> Statuses] /\ events' \in [Tickets -> Seq(Statuses)]
  BY <1>2 DEF Mark, Log, Statuses, IInv, TypeOK
<1>8. TypeOK'
  BY <1>1, <1>2, <1>7 DEF IInv, TypeOK
<1>. QED
  BY <1>5, <1>6, <1>8, StepKeepsInvariant

LEMMA AlarmKeeps ==
  ASSUME IInv, Alarm
  PROVE  Kept
<1> DEFINE parties == PartyTickets(Overdue)
<1>1. /\ Overdue \in SUBSET Tickets /\ \A u \in Overdue : status[u] \in Queued
      /\ AlarmTask \in Handlers
      /\ OutsideOK /\ queuePlayer' = Dequeue(Overdue) /\ UNCHANGED <<source, result, overdue>>
  BY DEF Alarm, Overdue, Handlers, external, OutsideOK, IInv, TypeOK
<1>2. CASE /\ status' = Mark(status, Overdue, "expired")
           /\ events' = Log(events, Overdue, "expired")
           /\ task' = [task EXCEPT ![AlarmTask] =
                            [Idle EXCEPT !.kind = "alarm", !.pc = "closeRelease",
                                         !.ending = parties]]
           /\ alarm' = FALSE
           /\ UNCHANGED <<candidate, intent, processed>>
  <2>1. PICK rec : rec = [Idle EXCEPT !.kind = "alarm", !.pc = "closeRelease",
                                      !.ending = parties]
    OBVIOUS
  <2>2. ClosingRec(rec)
    BY <1>1, <2>1 DEF ClosingRec, Idle, TaskRecords, PartyTickets
  <2>3. task' = [task EXCEPT ![AlarmTask] = rec] /\ alarm' \in BOOLEAN
    BY <1>2, <2>1
  <2> HIDE <2>1
  <2>. QED
    BY <1>1, <1>2, <2>2, <2>3, CloseBeginKeeps
<1>3. CASE SearchAndSettle(AlarmTask, Mark(status, Overdue, "expired"),
                           Log(events, Overdue, "expired"), FALSE)
  <2>0. PICK armed : armed = FALSE
    OBVIOUS
  <2>8. armed \in BOOLEAN
    BY <2>0
  <2>1. PICK st : st = Mark(status, Overdue, "expired")
    OBVIOUS
  <2>2. PICK ev : ev = Log(events, Overdue, "expired")
    OBVIOUS
  <2>3. ev \in [Tickets -> Seq(Statuses)]
    BY <2>2 DEF Log, Statuses, IInv, TypeOK
  <2>4. PICK rec : rec = [Idle EXCEPT !.kind = "settle"]
    OBVIOUS
  <2>5. rec \in TaskRecords /\ rec.kind # "create" /\ rec.ticket = None
    BY <2>4, SettleRec
  <2>6. PICK S \in Searches(st) :
          Reserve(S, st, ev) /\ ProcessPendingMatches(AlarmTask, rec, IntentsFor(S), armed)
    BY <1>3, <2>0, <2>1, <2>2, <2>4 DEF SearchAndSettle
  <2>7. /\ S \in SUBSET Candidates /\ \A t \in UNION S : st[t] = "waiting"
        /\ \A c, d \in S : c # d => c \cap d = {}
    BY SearchesType
  <2> HIDE <2>0, <2>2, <2>4
  <2>. QED
    BY <1>1, <2>1, <2>3, <2>5, <2>6, <2>7, <2>8, SearchAndSettleKeeps
<1>. QED
  BY <1>2, <1>3 DEF Alarm

LEMMA CloseReleasedKeeps ==
  ASSUME IInv, NEW k \in Handlers, CloseReleased(k)
  PROVE  Kept
<1>1. PICK t \in task[k].ending :
        /\ EndQueueTicket(t)
        /\ \/ /\ Begin(k, [task[k] EXCEPT !.ending = @ \ {t}])
              /\ UNCHANGED queue
           \/ UNCHANGED queue /\ Return(k, Idle, intent)
           \/ /\ SearchAndSettle(k, status, events, alarm)
              /\ UNCHANGED <<source, result, queuePlayer, overdue>>
  BY DEF CloseReleased
<1>2. OutsideOK
  BY <1>1 DEF CloseReleased, EndQueueTicket, OutsideOK, IInv, TypeOK
<1>3. CASE Begin(k, [task[k] EXCEPT !.ending = @ \ {t}]) /\ UNCHANGED queue
  <2>1. PICK rec : rec = [task[k] EXCEPT !.ending = @ \ {t}]
    OBVIOUS
  <2>2. /\ rec \in TaskRecords /\ rec.pc = task[k].pc /\ rec.ticket = task[k].ticket
        /\ rec.kind = task[k].kind /\ rec.request = task[k].request
    BY <2>1, TaskFields DEF TaskRecords
  <2>3. Begin(k, rec)
    BY <1>3, <2>1
  <2>4. rec.pc = "closeRelease"
    BY <2>2 DEF CloseReleased
  <2>5. TaskOK(rec)
    BY <2>2, <2>4, TaskFields DEF TaskOK
  <2>6. rec.ticket # None => \A j \in Handlers \ {k} : task[j].ticket # rec.ticket
    BY <2>2, TaskFields
  <2> HIDE <2>1
  <2>. QED
    BY <1>2, <1>3, <2>2, <2>3, <2>5, <2>6, QuietBegin
<1>4. CASE UNCHANGED queue /\ Return(k, Idle, intent)
  BY <1>2, <1>4, IntentsStay, QuietReturn
<1>5. CASE /\ SearchAndSettle(k, status, events, alarm)
           /\ UNCHANGED <<source, result, queuePlayer, overdue>>
  BY <1>2, <1>5, SearchKeeps
<1>. QED
  BY <1>1, <1>3, <1>4, <1>5

LEMMA MatchCandidateKeeps ==
  ASSUME IInv, NEW k \in Handlers, NEW c \in Candidates, MatchCandidate(k, c)
  PROVE  Kept
<1>1. OutsideOK /\ UNCHANGED queue
  BY DEF MatchCandidate, external, OutsideOK, IInv, TypeOK
<1>2. CASE /\ BothReserved(c)
           /\ Begin(k, [Idle EXCEPT !.kind = "match", !.pc = "verify", !.cand = c])
  <2>1. PICK rec : rec = [Idle EXCEPT !.kind = "match", !.pc = "verify", !.cand = c]
    OBVIOUS
  <2>2. /\ rec \in TaskRecords /\ rec.ticket = None /\ rec.kind = "match" /\ rec.pc = "verify"
        /\ rec.cand = c /\ rec.token = 0
    BY <2>1 DEF Idle, TaskRecords
  <2>3. intent[c].status # "none"
    <3>1. PICK t \in c : t \in Tickets
      BY DEF Candidates
    <3>2. status[t] = "reserved" /\ candidate[t] = c
      BY <1>2, <3>1 DEF BothReserved
    <3>. QED
      BY <3>1, <3>2 DEF IInv, ReservedCanSettle, Live
  <2>4. TaskOK(rec)
    BY <2>2, <2>3 DEF TaskOK
  <2>5. Begin(k, rec)
    BY <1>2, <2>1
  <2> HIDE <2>1
  <2>. QED
    BY <1>1, <2>2, <2>4, <2>5, QuietBegin
<1>3. CASE /\ SameResult(c, 0)
           /\ intent' = Complete(c, 0)
           /\ UNCHANGED <<task, processed, alarm>>
  <2>1. SameResult(c, 0)'
    BY <1>1, <1>3 DEF SameResult, queue
  <2>2. /\ intent' \in [Candidates -> IntentRecords]
        /\ \A d \in Candidates : IntentMoves(d, intent'[d])
    BY <1>3, <2>1, CompleteMoves
  <2>3. /\ UNCHANGED <<status, source, candidate, result, queuePlayer, events>>
        /\ overdue' \subseteq Tickets /\ alarm' \in BOOLEAN
    BY <1>1, <1>3 DEF queue, IInv, TypeOK
  <2>. QED
    BY <1>1, <1>3, <2>2, <2>3, QuietStep
<1>. QED
  BY <1>2, <1>3 DEF MatchCandidate

LEMMA RoomVerifiedKeeps ==
  ASSUME IInv, NEW k \in Handlers, RoomVerified(k)
  PROVE  Kept
<1>1. PICK c \in Candidates : c = task[k].cand
  BY InitTask DEF RoomVerified
<1>2. PICK token \in Nat : token = 0 /\ token = task[k].token
  BY TaskFields DEF RoomVerified, TaskOK
<1>3. OutsideOK /\ task[k].pc = "verify" /\ c \in rooms'
  BY <1>1 DEF RoomVerified, Verified, external, OutsideOK, IInv, TypeOK
<1>4. CASE /\ BothReserved(c)
           /\ ApplyMatchResult(c, token)
           /\ AwaitRelease(k, task[k], PartyTickets(c))
  BY <1>1, <1>2, <1>3, <1>4, AwaitReleaseKeeps
<1>5. CASE /\ BothReserved(c)
           /\ ApplyMatchResult(c, token)
           /\ Return(k, Idle, Complete(c, token))
  <2>1. PICK rec : rec = Idle
    OBVIOUS
  <2>2. rec \in TaskRecords /\ rec.kind # "create" /\ rec.ticket = None /\ rec.todo = {}
    BY <2>1 DEF Idle, TaskRecords
  <2>3. Continue(k, rec, Complete(c, token), HasDeadline(status', Complete(c, token)))
    BY <1>5, <2>1, <2>2 DEF Continue
  <2> HIDE <2>1
  <2>. QED
    BY <1>3, <1>5, <2>2, <2>3, AppliedKeeps
<1>6. CASE /\ SameResult(c, token)
           /\ intent' = Complete(c, token)
           /\ task' = [task EXCEPT ![k] = Idle]
           /\ UNCHANGED <<queue, processed, alarm>>
  <2>1. SameResult(c, token)'
    BY <1>6 DEF SameResult, queue
  <2>2. /\ intent' \in [Candidates -> IntentRecords]
        /\ \A d \in Candidates : IntentShape(d)
    BY <1>6, <2>1, CompleteMoves DEF IntentShape
  <2>3. TicketShape /\ RowShape /\ UNCHANGED status
    BY <1>6, QuietShape DEF queue, IInv
  <2>4. Idle \in TaskRecords /\ TaskOK(Idle)' /\ Idle.ticket = None
    BY IdleType DEF Idle, TaskOK
  <2>5. /\ StepShape /\ (\A j \in Handlers : TaskOK(task[j]))' /\ TaskTickets'
        /\ task' \in [Handlers -> TaskRecords]
    BY <1>3, <1>6, <2>2, <2>3, <2>4, BeginStep DEF OutsideOK
  <2>6. TypeOK'
    BY <1>3, <1>6, <2>2, <2>5 DEF IInv, TypeOK, OutsideOK, queue
  <2>. QED
    BY <2>5, <2>6, StepKeepsInvariant
<1>7. CASE Done(k) /\ UNCHANGED queue
  BY <1>3, <1>7, QuietDone
<1>. QED
  BY <1>1, <1>2, <1>4, <1>5, <1>6, <1>7 DEF RoomVerified

LEMMA VerifyFailedKeeps ==
  ASSUME IInv, NEW k \in Handlers, VerifyFailed(k)
  PROVE  Kept
<1>1. OutsideOK
  BY DEF VerifyFailed, external, OutsideOK, IInv, TypeOK
<1>. QED
  BY <1>1, QuietDone DEF VerifyFailed

\* A restart loses the handlers; the rows stay.
LEMMA CrashKeeps ==
  ASSUME IInv, Crash
  PROVE  Kept
<1>1. /\ UNCHANGED <<queue, intent, processed>> /\ task' = [k \in Handlers |-> Idle]
      /\ alarm' = (alarm \/ task[AlarmTask] # Idle)
  BY DEF Crash
<1>2. frozen' \subseteq Tickets
  <2>1. PICK begun \in SUBSET {task[k].ticket : k \in {h \in Handlers : task[h].pc \in {"begin"}}} :
          frozen' \subseteq frozen \cup begun
    BY DEF Crash
  <2>2. \A k \in Handlers : task[k].pc = "begin" => task[k].ticket \in Tickets
    BY TaskFields DEF TaskOK
  <2>3. begun \subseteq Tickets
    BY <2>2
  <2>4. frozen \subseteq Tickets
    BY DEF IInv, TypeOK
  <2>. QED
    BY <2>1, <2>3, <2>4
<1>3. rooms \subseteq rooms' /\ rooms' \subseteq Candidates
  <2>1. PICK made \in SUBSET {task[k].cand : k \in {h \in Handlers : task[h].pc \in {"init"}}} :
          rooms' = rooms \cup made
    BY DEF Crash
  <2>2. \A k \in Handlers : task[k].pc = "init" => task[k].cand \in Candidates
    BY TaskFields DEF TaskOK
  <2>. QED
    BY <2>1, <2>2 DEF IInv, TypeOK
<1>4. detached' \subseteq Tickets /\ crashes' \in Nat
  BY DEF Crash, IInv, TypeOK
<1>5. StepShape
  <2>1. TicketShape /\ RowShape
    BY <1>1, QuietShape DEF queue, IInv
  <2>. QED
    BY <1>1, <1>3, <2>1 DEF StepShape, IntentShape, IntentMoves
<1>6. (\A j \in Handlers : TaskOK(task[j]))' /\ TaskTickets'
  BY <1>1 DEF TaskOK, TaskTickets, Idle
<1>7. task' \in [Handlers -> TaskRecords] /\ alarm' \in BOOLEAN
  BY <1>1, IdleType
<1>8. TypeOK'
  BY <1>1, <1>2, <1>3, <1>4, <1>7 DEF IInv, TypeOK, queue
<1>. QED
  BY <1>5, <1>6, <1>8, StepKeepsInvariant

LEMMA InitHolds == Init => IInv
<1> SUFFICES ASSUME Init PROVE IInv
  OBVIOUS
<1>1. TypeOK
  <2>1. status \in [Tickets -> Statuses] /\ <<>> \in Seq(Statuses)
    BY DEF Init, Statuses
  <2>2. events \in [Tickets -> Seq(Statuses)]
    BY <2>1 DEF Init
  <2>3. NoIntent \in IntentRecords
    BY DEF NoIntent, IntentRecords
  <2>4. intent \in [Candidates -> IntentRecords] /\ task \in [Handlers -> TaskRecords]
    BY <2>3, IdleType DEF Init
  <2>5. /\ source \in [Tickets -> Requests \cup {None}]
        /\ candidate \in [Tickets -> Candidates \cup {None}]
        /\ result \in [Tickets -> Nat \cup {None}]
        /\ queuePlayer \in [Players -> Tickets \cup {None}]
        /\ processed \in [Requests -> Tickets \cup {None}]
    BY DEF Init
  <2>6. /\ overdue \subseteq Tickets /\ alarm \in BOOLEAN /\ detached \subseteq Tickets
        /\ frozen \subseteq Tickets /\ rooms \subseteq Candidates /\ crashes \in Nat
    BY DEF Init
  <2>. QED
    BY <2>1, <2>2, <2>4, <2>5, <2>6 DEF TypeOK
<1>2. SourceOK /\ QueueRows /\ IntentFresh /\ ReservedCanSettle /\ MatchedTogether /\ IntentAgrees
  BY DEF Init, SourceOK, QueueRows, IntentFresh, ReservedCanSettle, MatchedTogether, IntentAgrees,
     NoIntent
<1>3. (\A k \in Handlers : TaskOK(task[k])) /\ TaskTickets
  BY DEF Init, TaskOK, TaskTickets, Idle
<1>. QED
  BY <1>1, <1>2, <1>3 DEF IInv
-----------------------------------------------------------------------------
(* The theorems.                                                           *)

\* Every step of the Pool, one by one: each action keeps the invariant.
LEMMA NextKeeps ==
  ASSUME IInv, [Next]_vars
  PROVE  Kept
<1>1. ASSUME NEW k \in Tasks, Call(k)
      PROVE  Kept
  <2>1. k \in Handlers
    BY DEF Handlers
  <2>2. CASE \E r \in Requests : CreateReplay(k, r)
    BY <2>1, <2>2, CreateReplayKeeps
  <2>3. CASE \E r \in Requests, t \in Tickets : CreateSolo(k, r, t)
    BY <2>1, <2>3, CreateKeeps
  <2>4. CASE \E r \in Requests, t \in Tickets : CreateParty(k, r, t)
    BY <2>1, <2>4, CreatePartyKeeps
  <2>5. CASE \E t \in Tickets : CancelTicket(k, t)
    BY <2>1, <2>5, CancelTicketKeeps
  <2>6. CASE SearchRpc(k)
    BY <2>1, <2>6, SearchRpcKeeps
  <2>7. CASE ExpireDueTickets(k)
    BY <2>1, <2>7, ExpireDueTicketsKeeps
  <2>8. CASE \E c \in Candidates : ReserveCandidate(k, c)
    BY <2>1, <2>8, ReserveCandidateKeeps
  <2>9. CASE \E c \in Candidates : MatchCandidate(k, c)
    BY <2>1, <2>9, MatchCandidateKeeps
  <2>. QED
    BY <1>1, <2>2, <2>3, <2>4, <2>5, <2>6, <2>7, <2>8, <2>9 DEF Call
<1>2. ASSUME NEW k \in Handlers, Answer(k)
      PROVE  Kept
  BY <1>2, PartyAnswersKeep, CreateKeeps, RoomInitializedKeeps, RoomFailedKeeps,
     MatchReleasedKeeps, CloseReleasedKeeps, RoomVerifiedKeeps, VerifyFailedKeeps DEF Answer
<1>3. CASE Alarm
  BY <1>3, AlarmKeeps
<1>4. CASE \E t \in Tickets : ExpireTicket(t)
  BY <1>4, ExpireTicketKeeps
<1>5. CASE \/ \E t \in Tickets : DetachedReleased(t) \/ TicketDue(t)
           \/ \E c \in Candidates : IntentDue(c)
           \/ UNCHANGED vars
  BY <1>5, TimeKeeps
<1>6. CASE Crash
  BY <1>6, CrashKeeps
<1>. QED
  BY <1>1, <1>2, <1>3, <1>4, <1>5, <1>6 DEF Next

\* The inductive invariant: what the Pool's rows and its waiting handlers keep
\* true between any two steps.
THEOREM Invariance == Spec => []IInv
<1>1. IInv /\ [Next]_vars => IInv'
  BY NextKeeps DEF Kept
<1>. QED
  BY <1>1, InitHolds, PTL DEF Spec

\* The tables and the handlers keep the shape the schema gives them.
THEOREM TypeCorrect == Spec => []TypeOK
<1>1. IInv => TypeOK
  BY DEF IInv
<1>. QED
  BY <1>1, Invariance, PTL

\* No player is in two tickets that wait or are reserved.
THEOREM PlayersQueueOnce == Spec => []QueueExclusive
<1>1. IInv => QueueExclusive
  BY DEF IInv, QueueRows, QueueExclusive
<1>. QED
  BY <1>1, Invariance, PTL

\* No order of retries, late answers and restarts strands a reservation.
THEOREM ReservationsSettle == Spec => []ReservedCanSettle
<1>1. IInv => ReservedCanSettle
  BY DEF IInv
<1>. QED
  BY <1>1, Invariance, PTL

\* Both tickets of a pair are matched with one result, in a Room that exists.
THEOREM MatchesAreShared == Spec => [](MatchedTogether /\ IntentAgrees)
<1>1. IInv => MatchedTogether /\ IntentAgrees
  BY DEF IInv
<1>. QED
  BY <1>1, Invariance, PTL

\* A ticket that has ended keeps its state and its result.
THEOREM EndsAreFinal == Spec => EndedIsFinal
<1>1. IInv /\ [Next]_vars => [\A t \in Tickets : status[t] \in Ended =>
            status'[t] = status[t] /\ result'[t] = result[t]]_vars
  BY NextKeeps, ShapeKeepsEnds DEF Kept, IInv, Same
<1>. QED
  BY <1>1, Invariance, PTL DEF Spec, EndedIsFinal
-----------------------------------------------------------------------------
(* What has a deadline is woken up for, and no ended ticket keeps a player *)
(* (ScheduleInv).  expireTicket() breaks both: its RPC releases nobody.    *)

\* Rows stay active when every ticket that leaves the queue is dequeued.
LEMMA RowsStayActive ==
  ASSUME TypeOK, RowsActive, NEW D,
         \A p \in Players : queuePlayer'[p] = IF queuePlayer[p] \in D THEN None ELSE queuePlayer[p],
         \A t \in Tickets \ D : status'[t] = status[t] \/ status'[t] \in Active
  PROVE  RowsActive'
<1> SUFFICES ASSUME NEW p \in Players, queuePlayer'[p] # None
             PROVE  status'[queuePlayer'[p]] \in Active
  BY DEF RowsActive
<1>1. queuePlayer'[p] = queuePlayer[p] /\ queuePlayer[p] \notin D
  OBVIOUS
<1>2. queuePlayer[p] \in Tickets
  BY <1>1 DEF TypeOK
<1>3. status[queuePlayer[p]] \in Active
  BY <1>1 DEF RowsActive
<1>. QED
  BY <1>1, <1>2, <1>3

\* Steps that take no ticket out of the queue.
LEMMA RowsStay ==
  ASSUME TypeOK, RowsActive, UNCHANGED queuePlayer,
         \A t \in Tickets : status'[t] = status[t] \/ status'[t] \in Active
  PROVE  RowsActive'
<1> SUFFICES ASSUME NEW p \in Players, queuePlayer[p] # None
             PROVE  status'[queuePlayer[p]] \in Active
  BY DEF RowsActive
<1>. QED
  BY DEF RowsActive, TypeOK

\* The loop of processPendingMatches() ends with synchronizeAlarm(), and leaves
\* the alarm alone as long as it waits.
LEMMA ContinueWakes ==
  ASSUME IInv, AlarmPc,
         NEW k \in Handlers,
         NEW rec \in TaskRecords,
         rec.kind = "create" => rec.request \in Requests /\ rec.ticket \in Tickets,
         NEW int \in [Candidates -> IntentRecords],
         NEW armed \in BOOLEAN,
         Continue(k, rec, int, armed),
         HasDeadline(status', int) => armed \/ task[AlarmTask].pc # "idle" \/ k = AlarmTask
  PROVE  AlarmPc' /\ Wakes'
<1>1. AlarmTask \in Handlers
  BY DEF Handlers
<1>2. CASE Return(k, rec, int)
  <2>1. /\ intent' = int /\ task' = [task EXCEPT ![k] = Idle]
        /\ alarm' = HasDeadline(status', int)
    BY <1>2 DEF Return
  <2>2. Wakes'
    BY <2>1 DEF Wakes
  <2>3. AlarmPc'
    BY <1>1, <2>1 DEF AlarmPc, Idle, IInv, TypeOK
  <2>. QED
    BY <2>2, <2>3
<1>3. CASE ~Return(k, rec, int)
  <2>1. PICK c \in rec.todo : ClaimMatchIntent(k, rec, int, c) /\ alarm' = armed
    BY <1>3 DEF Continue
  <2>2. task'[k].pc = "init"
    BY <2>1 DEF ClaimMatchIntent, TaskRecords
  <2>3. /\ \A d \in Candidates : intent'[d].status \in Live => int[d].status \in Live
        /\ \A j \in Handlers \ {k} : SameTask(j)
    BY ContinueEffect DEF IInv
  <2>4. task'[AlarmTask].pc = IF k = AlarmTask THEN "init" ELSE task[AlarmTask].pc
    BY <1>1, <2>2, <2>3 DEF SameTask
  <2>5. HasDeadline(status', intent') => HasDeadline(status', int)
    BY <2>3 DEF HasDeadline
  <2>. QED
    BY <2>1, <2>4, <2>5 DEF AlarmPc, Wakes
<1>. QED
  BY <1>2, <1>3

\* A step that makes no deadline and leaves the alarm and its handler alone.
LEMMA NoNewDeadline ==
  ASSUME AlarmPc, Wakes,
         HasDeadline(status', intent') => HasDeadline(status, intent),
         alarm' = alarm, task'[AlarmTask].pc = task[AlarmTask].pc
  PROVE  AlarmPc' /\ Wakes'
BY DEF AlarmPc, Wakes
-----------------------------------------------------------------------------
(* Every action but expireTicket() keeps ScheduleInv.                      *)

\* A handler that begins to wait, or ends, and makes no deadline.
LEMMA BeginWakes ==
  ASSUME IInv, AlarmPc, Wakes, NEW k \in Handlers, NEW rec,
         task' = [task EXCEPT ![k] = rec], UNCHANGED alarm,
         HasDeadline(status', intent') => HasDeadline(status, intent),
         k = AlarmTask => rec.pc \in {"init", "matchRelease", "closeRelease"}
  PROVE  AlarmPc' /\ Wakes'
<1>1. task'[AlarmTask] = IF k = AlarmTask THEN rec ELSE task[AlarmTask]
  BY DEF IInv, TypeOK, Handlers
<1>. QED
  BY <1>1 DEF AlarmPc, Wakes

LEMMA QuietBeginWakes ==
  ASSUME IInv, ScheduleInv, NEW k \in Handlers, NEW rec, Begin(k, rec), UNCHANGED queue,
         k = AlarmTask => rec.pc \in {"init", "matchRelease", "closeRelease"}
  PROVE  ScheduleInv'
<1>1. RowsActive'
  BY RowsStay DEF ScheduleInv, queue, IInv
<1>2. UNCHANGED <<status, intent, alarm>> /\ task' = [task EXCEPT ![k] = rec]
  BY DEF Begin, queue
<1>3. HasDeadline(status', intent') => HasDeadline(status, intent)
  BY <1>2
<1>4. AlarmPc' /\ Wakes'
  BY <1>2, <1>3, BeginWakes DEF ScheduleInv
<1>. QED
  BY <1>1, <1>4 DEF ScheduleInv

\* The alarm handler makes no call a createTicket() or matchCandidate() makes.
LEMMA NotTheAlarm ==
  ASSUME ScheduleInv, NEW k \in Handlers, task[k].pc \in {"begin", "ratings", "undo", "verify"}
  PROVE  k # AlarmTask
BY DEF ScheduleInv, AlarmPc

LEMMA PartyAnswersWake ==
  ASSUME IInv, ScheduleInv, NEW k \in Handlers,
         PartyFrozen(k) \/ PartyRefused(k) \/ RatingsFailed(k) \/ CreateUndone(k) \/ VerifyFailed(k)
  PROVE  ScheduleInv'
<1>1. k # AlarmTask
  BY NotTheAlarm DEF PartyFrozen, PartyRefused, RatingsFailed, CreateUndone, VerifyFailed
<1>2. UNCHANGED queue /\ \E rec : Begin(k, rec)
  BY DEF PartyFrozen, PartyRefused, RatingsFailed, CreateUndone, VerifyFailed, Done
<1>. QED
  BY <1>1, <1>2, QuietBeginWakes

\* A ticket whose members are queued meets a deadline that is there already:
\* the row of a member names a ticket that is queued or reserved.
LEMMA QueuedHasDeadline ==
  ASSUME IInv, RowsActive, NEW r \in Requests, AnyQueued(r)
  PROVE  HasDeadline(status, intent)
<1>1. PICK p \in Members[r] : queuePlayer[p] # None
  BY DEF AnyQueued
<1>2. p \in Players /\ queuePlayer[p] \in Tickets /\ status[queuePlayer[p]] \in Active
  BY <1>1, PoolAssumption DEF RowsActive, IInv, TypeOK
<1>. QED
  BY <1>2 DEF IInv, ReservedCanSettle, HasDeadline, Active, Queued

LEMMA InsertTicketWakes ==
  ASSUME IInv, ScheduleInv, NEW k \in Handlers, k # AlarmTask, NEW rec \in TaskRecords,
         rec.kind = "create", rec.request \in Requests, rec.ticket \in Tickets,
         status[rec.ticket] = "none", InsertTicket(k, rec)
  PROVE  ScheduleInv'
<1> DEFINE r == rec.request
           t == rec.ticket
           src == [source EXCEPT ![t] = r]
           undo == [rec EXCEPT !.pc = "undo"]
           Reject == IF r \in PartyRequests THEN Begin(k, undo) ELSE Done(k)
<1>1. CASE Reject /\ UNCHANGED queue
  BY <1>1, QuietBeginWakes DEF Done
<1>2. CASE /\ AnyQueued(r)
           /\ status' = [status EXCEPT ![t] = "creating"]
           /\ Reject
           /\ UNCHANGED queuePlayer
  <2>1. RowsActive'
    BY <1>2, RowsStay DEF ScheduleInv, IInv, TypeOK, Active
  <2>2. PICK new : task' = [task EXCEPT ![k] = new] /\ UNCHANGED <<intent, alarm>>
    BY <1>2 DEF Begin, Done
  <2>3. HasDeadline(status, intent)
    BY <1>2, QueuedHasDeadline DEF ScheduleInv
  <2>4. AlarmPc' /\ Wakes'
    BY <2>2, <2>3, BeginWakes DEF ScheduleInv
  <2>. QED
    BY <2>1, <2>4 DEF ScheduleInv
<1>3. CASE /\ queuePlayer' = [p \in Players |-> IF p \in Members[r] THEN t ELSE queuePlayer[p]]
           /\ LET st == [status EXCEPT ![t] = "waiting"]
                  ev == [events EXCEPT ![t] = @ \o <<"creating", "waiting">>]
              IN \E S \in Searches(st) :
                    /\ FullTeams(S, src)
                    /\ Reserve(S, st, ev)
                    /\ ProcessPendingMatches(k, rec, IntentsFor(S), alarm)
  <2> DEFINE st == [status EXCEPT ![t] = "waiting"]
             ev == [events EXCEPT ![t] = @ \o <<"creating", "waiting">>]
             loop(S) == [rec EXCEPT !.todo = {c \in Candidates : Claimable(IntentsFor(S)[c])}]
  <2>1. PICK S \in Searches(st) :
          Reserve(S, st, ev) /\ ProcessPendingMatches(k, rec, IntentsFor(S), alarm)
    BY <1>3
  <2>2. /\ S \in SUBSET Candidates /\ \A u \in UNION S : st[u] = "waiting"
        /\ \A u \in Tickets : st[u] = IF u = t THEN "waiting" ELSE status[u]
    <3>1. S \in SUBSET Candidates /\ \A u \in UNION S : st[u] = "waiting"
      BY DEF Searches
    <3>. QED
      BY <3>1 DEF IInv, TypeOK
  <2>3. \A u \in Tickets : status'[u] = IF u \in UNION S THEN "reserved" ELSE st[u]
    BY <2>1 DEF Reserve, Mark
  <2>4. RowsActive'
    <3>1. ASSUME NEW p \in Players, queuePlayer'[p] # None
          PROVE  status'[queuePlayer'[p]] \in Active
      <4>1. queuePlayer'[p] \in Tickets /\ (queuePlayer'[p] = t \/ queuePlayer'[p] = queuePlayer[p])
        BY <1>3, <3>1 DEF IInv, TypeOK
      <4>2. queuePlayer'[p] # t => status[queuePlayer'[p]] \in Active
        BY <3>1, <4>1 DEF ScheduleInv, RowsActive
      <4>. QED
        BY <2>2, <2>3, <4>1, <4>2 DEF Active
    <3>. QED
      BY <3>1 DEF RowsActive
  <2>5. loop(S) \in TaskRecords /\ loop(S).kind = "create" /\ loop(S).request = r
        /\ loop(S).ticket = t
    BY DEF TaskRecords
  <2>6. Continue(k, loop(S), IntentsFor(S), alarm)
    BY <2>1 DEF ProcessPendingMatches
  <2>7. IntentsFor(S) \in [Candidates -> IntentRecords] /\ alarm \in BOOLEAN
    BY DEF IntentsFor, IntentRecords, IInv, TypeOK, Live
  <2>8. CASE HasDeadline(status, intent)
    <3>1. alarm \/ task[AlarmTask].pc # "idle"
      BY <2>8 DEF ScheduleInv, Wakes
    <3>2. AlarmPc' /\ Wakes'
      <4> HIDE DEF loop
      <4>. QED
        BY <2>5, <2>6, <2>7, <3>1, ContinueWakes DEF ScheduleInv
    <3>. QED
      BY <2>4, <3>2 DEF ScheduleInv
  \* The first deadline: nothing can be claimed, and the handler returns.
  <2>9. CASE ~HasDeadline(status, intent)
    <3>1. S = {}
      <4> SUFFICES ASSUME NEW c \in S PROVE FALSE
        OBVIOUS
      <4>1. PICK u \in c : u \in Tickets /\ u # t
        BY <2>2 DEF Candidates
      <4>2. status[u] = "waiting"
        BY <2>2, <4>1
      <4>. QED
        BY <2>9, <4>1, <4>2 DEF HasDeadline, Queued
    <3>2. \A c \in Candidates : IntentsFor(S)[c] = intent[c] /\ intent[c].status \notin Live
      BY <2>9, <3>1 DEF IntentsFor, HasDeadline
    <3>3. {c \in loop(S).todo : Claimable(IntentsFor(S)[c])} = {}
      BY <3>2, <2>5 DEF Claimable, TaskRecords
    <3>4. Return(k, loop(S), IntentsFor(S))
      BY <2>6, <3>3 DEF Continue
    <3>5. /\ intent' = IntentsFor(S) /\ task' = [task EXCEPT ![k] = Idle]
          /\ alarm' = HasDeadline(status', IntentsFor(S))
      BY <3>4 DEF Return
    <3>6. Wakes'
      BY <3>5 DEF Wakes
    <3>7. AlarmPc'
      BY <3>5 DEF ScheduleInv, AlarmPc, Handlers, IInv, TypeOK
    <3>. QED
      BY <2>4, <3>6, <3>7 DEF ScheduleInv
  <2>. QED
    BY <2>8, <2>9
<1>. QED
  BY <1>1, <1>2, <1>3 DEF InsertTicket

LEMMA CreateWakes ==
  ASSUME IInv, ScheduleInv, NEW k \in Handlers, k # AlarmTask \/ task[k] # Idle,
         RatingsRead(k) \/ \E r \in Requests, t \in Tickets : CreateSolo(k, r, t)
  PROVE  ScheduleInv'
<1>1. CASE RatingsRead(k)
  <2>1. /\ task[k].kind = "create" /\ task[k].request \in Requests /\ task[k].ticket \in Tickets
        /\ status[task[k].ticket] = "none"
    BY <1>1, TaskFields DEF RatingsRead, TaskOK
  <2>2. k # AlarmTask
    BY <1>1, NotTheAlarm DEF RatingsRead
  <2>. QED
    BY <1>1, <2>1, <2>2, TaskFields, InsertTicketWakes DEF RatingsRead
<1>2. ASSUME NEW r \in Requests, NEW t \in Tickets, CreateSolo(k, r, t)
      PROVE  ScheduleInv'
  <2>1. /\ CreateRec(r, t) \in TaskRecords /\ CreateRec(r, t).kind = "create"
        /\ CreateRec(r, t).request = r /\ CreateRec(r, t).ticket = t
    BY DEF CreateRec, Idle, TaskRecords
  <2>2. status[t] = "none" /\ k # AlarmTask
    BY <1>2 DEF CreateSolo, MayCreate, FreshTicket
  <2>. QED
    BY <1>2, <2>1, <2>2, InsertTicketWakes DEF CreateSolo
<1>. QED
  BY <1>1, <1>2

\* A search after the tickets T have expired, and the settlement it starts.
LEMMA SearchWakes ==
  ASSUME IInv, ScheduleInv, NEW k \in Handlers,
         NEW T \in SUBSET Tickets,
         NEW st, \A t \in Tickets : st[t] = IF t \in T THEN "expired" ELSE status[t],
         NEW ev, NEW armed, armed \in BOOLEAN, armed = alarm \/ k = AlarmTask,
         NEW S \in SUBSET Candidates,
         \A t \in UNION S : st[t] = "waiting",
         Reserve(S, st, ev),
         NEW rec \in TaskRecords, rec.kind # "create",
         ProcessPendingMatches(k, rec, IntentsFor(S), armed),
         queuePlayer' = Dequeue(T)
  PROVE  ScheduleInv'
<1> DEFINE loop == [rec EXCEPT !.todo = {c \in Candidates : Claimable(IntentsFor(S)[c])}]
<1>1. \A u \in Tickets : status'[u] = IF u \in UNION S THEN "reserved" ELSE st[u]
  BY DEF Reserve, Mark
<1>2. RowsActive'
  <2>1. \A p \in Players : queuePlayer'[p] = IF queuePlayer[p] \in T THEN None ELSE queuePlayer[p]
    BY DEF Dequeue
  <2>2. \A t \in Tickets \ T : status'[t] = status[t] \/ status'[t] \in Active
    BY <1>1 DEF Active
  <2>. QED
    BY <2>1, <2>2, RowsStayActive DEF ScheduleInv, IInv
<1>3. loop \in TaskRecords /\ loop.kind # "create"
  BY DEF TaskRecords
<1>4. Continue(k, loop, IntentsFor(S), armed)
  BY DEF ProcessPendingMatches
<1>5. IntentsFor(S) \in [Candidates -> IntentRecords]
  BY DEF IntentsFor, IntentRecords, IInv, TypeOK, Live
<1>6. HasDeadline(status', IntentsFor(S)) => HasDeadline(status, intent)
  <2>1. CASE S = {}
    <3>1. \A c \in Candidates : IntentsFor(S)[c] = intent[c]
      BY <2>1 DEF IntentsFor
    <3>2. \A u \in Tickets : status'[u] \in Queued => status[u] \in Queued
      BY <1>1, <2>1 DEF Queued
    <3>. QED
      BY <3>1, <3>2 DEF HasDeadline
  <2>2. CASE S # {}
    <3>1. PICK c \in S : TRUE
      BY <2>2
    <3>2. PICK u \in c : u \in Tickets
      BY DEF Candidates
    <3>3. st[u] = "waiting"
      BY <3>1, <3>2
    <3>4. status[u] = "waiting"
      BY <3>2, <3>3
    <3>. QED
      BY <3>2, <3>4 DEF HasDeadline, Queued
  <2>. QED
    BY <2>1, <2>2
<1>7. HasDeadline(status', IntentsFor(S)) => armed \/ task[AlarmTask].pc # "idle" \/ k = AlarmTask
  BY <1>6 DEF ScheduleInv, Wakes
<1> HIDE DEF loop
<1>8. AlarmPc' /\ Wakes'
  BY <1>3, <1>4, <1>5, <1>7, ContinueWakes DEF ScheduleInv
<1>. QED
  BY <1>2, <1>8 DEF ScheduleInv

LEMMA SearchNowWakes ==
  ASSUME IInv, ScheduleInv, NEW k \in Handlers, NEW S \in SUBSET Candidates,
         \A t \in UNION S : status[t] = "waiting",
         Reserve(S, status, events),
         ProcessPendingMatches(k, [Idle EXCEPT !.kind = "settle"], IntentsFor(S), alarm),
         UNCHANGED queuePlayer
  PROVE  ScheduleInv'
<1>1. PICK rec : rec = [Idle EXCEPT !.kind = "settle"]
  OBVIOUS
<1>2. rec \in TaskRecords /\ rec.kind # "create"
  BY <1>1, SettleRec
<1>3. ProcessPendingMatches(k, rec, IntentsFor(S), alarm)
  BY <1>1
<1>4. queuePlayer' = Dequeue({}) /\ alarm \in BOOLEAN
  BY MarkNone DEF IInv, TypeOK
<1>5. \A t \in Tickets : status[t] = IF t \in {} THEN "expired" ELSE status[t]
  OBVIOUS
<1> HIDE <1>1
<1>. QED
  BY <1>2, <1>3, <1>4, <1>5, SearchWakes

LEMMA SearchesWake ==
  ASSUME IInv, ScheduleInv, NEW k \in Handlers,
         \/ SearchAndSettle(k, status, events, alarm) /\ UNCHANGED queuePlayer
         \/ \E c \in Candidates : ReserveCandidate(k, c)
  PROVE  ScheduleInv'
<1>1. PICK S \in SUBSET Candidates :
        /\ \A t \in UNION S : status[t] = "waiting"
        /\ Reserve(S, status, events)
        /\ ProcessPendingMatches(k, [Idle EXCEPT !.kind = "settle"], IntentsFor(S), alarm)
        /\ UNCHANGED queuePlayer
  <2>1. CASE SearchAndSettle(k, status, events, alarm) /\ UNCHANGED queuePlayer
    BY <2>1, SearchesType DEF SearchAndSettle
  <2>2. ASSUME NEW c \in Candidates, ReserveCandidate(k, c)
        PROVE  /\ {c} \in SUBSET Candidates /\ \A t \in UNION {c} : status[t] = "waiting"
               /\ Reserve({c}, status, events)
               /\ ProcessPendingMatches(k, [Idle EXCEPT !.kind = "settle"], IntentsFor({c}), alarm)
               /\ UNCHANGED queuePlayer
    BY <2>2 DEF ReserveCandidate
  <2>. QED
    BY <2>1, <2>2
<1>. QED
  BY <1>1, SearchNowWakes

\* The loop goes on, and the step made no deadline.
LEMMA LoopWakes ==
  ASSUME IInv, ScheduleInv, NEW k \in Handlers, NEW rec \in TaskRecords,
         rec.kind = "create" => rec.request \in Requests /\ rec.ticket \in Tickets,
         NEW int \in [Candidates -> IntentRecords], NEW armed, armed \in BOOLEAN,
         Continue(k, rec, int, armed),
         \/ armed = HasDeadline(status', int)
         \/ /\ armed = alarm
            /\ \A t \in Tickets : status'[t] \in Queued => status[t] \in Queued
            /\ \A c \in Candidates : int[c].status \in Live => intent[c].status \in Live,
         NEW D, queuePlayer' = Dequeue(D),
         \A t \in Tickets \ D : status'[t] = status[t] \/ status'[t] \in Active
  PROVE  ScheduleInv'
<1>1. RowsActive'
  <2>1. \A p \in Players : queuePlayer'[p] = IF queuePlayer[p] \in D THEN None ELSE queuePlayer[p]
    BY DEF Dequeue
  <2>. QED
    BY <2>1, RowsStayActive DEF ScheduleInv, IInv
<1>2. HasDeadline(status', int) => armed \/ task[AlarmTask].pc # "idle"
  <2>1. CASE armed = HasDeadline(status', int)
    BY <2>1
  <2>2. CASE /\ armed = alarm
             /\ \A t \in Tickets : status'[t] \in Queued => status[t] \in Queued
             /\ \A c \in Candidates : int[c].status \in Live => intent[c].status \in Live
    <3>1. HasDeadline(status', int) => HasDeadline(status, intent)
      BY <2>2 DEF HasDeadline
    <3>. QED
      BY <2>2, <3>1 DEF ScheduleInv, Wakes
  <2>. QED
    BY <2>1, <2>2
<1>3. AlarmPc' /\ Wakes'
  BY <1>2, ContinueWakes DEF ScheduleInv
<1>. QED
  BY <1>1, <1>3 DEF ScheduleInv

LEMMA CreateReplayWakes ==
  ASSUME IInv, ScheduleInv, NEW k \in Handlers, NEW r \in Requests, CreateReplay(k, r)
  PROVE  ScheduleInv'
<1> DEFINE rec == [Idle EXCEPT !.kind = "settle", !.todo = {c \in Candidates : Claimable(intent[c])}]
<1>1. rec \in TaskRecords /\ rec.kind # "create"
  BY DEF Idle, TaskRecords
<1>2. Continue(k, rec, intent, alarm) /\ UNCHANGED <<status, queuePlayer>>
  BY DEF CreateReplay, ProcessPendingMatches, Idle, queue
<1>3. /\ intent \in [Candidates -> IntentRecords] /\ alarm \in BOOLEAN
      /\ queuePlayer' = Dequeue({})
  BY <1>2, MarkNone DEF IInv, TypeOK
<1>4. \A t \in Tickets \ {} : status'[t] = status[t] \/ status'[t] \in Active
  BY <1>2
<1> HIDE DEF rec
<1>. QED
  BY <1>1, <1>2, <1>3, <1>4, LoopWakes

LEMMA FailedAttemptWakes ==
  ASSUME IInv, ScheduleInv, NEW k \in Handlers, task[k].pc = "init",
         NEW retryable \in BOOLEAN, SettlementFailed(k, retryable)
  PROVE  ScheduleInv'
<1> DEFINE c == task[k].cand
           i == intent[c]
           undone == {t \in c : status[t] = "reserved" /\ candidate[t] = c}
           closed == undone \cup {t \in c : status[t] = "cancelled"}
<1>1. /\ c \in Candidates /\ i.status # "none" /\ task[k] \in TaskRecords
      /\ task[k].kind = "create" => task[k].request \in Requests /\ task[k].ticket \in Tickets
      /\ c \subseteq Tickets
  BY InitTask, TaskFields, CandidateType
<1>2. intent \in [Candidates -> IntentRecords] /\ alarm \in BOOLEAN
  BY DEF IInv, TypeOK
<1>3. ASSUME NEW int \in [Candidates -> IntentRecords],
             \A d \in Candidates : int[d].status \in Live => intent[d].status \in Live,
             UNCHANGED queue,
             Continue(k, task[k], int, alarm)
      PROVE  ScheduleInv'
  <2>1. queuePlayer' = Dequeue({}) /\ UNCHANGED status
    BY <1>3, MarkNone DEF queue
  <2>2. \A t \in Tickets \ {} : status'[t] = status[t] \/ status'[t] \in Active
    BY <2>1
  <2>. QED
    BY <1>1, <1>2, <1>3, <2>1, <2>2, LoopWakes
<1>4. CASE UNCHANGED queue /\ Continue(k, task[k], intent, alarm)
  BY <1>2, <1>3, <1>4
<1>5. CASE /\ status' = Mark(status, undone, "cancelled")
           /\ queuePlayer' = Dequeue(closed)
           /\ Continue(k, task[k],
                       [intent EXCEPT ![c].status = "failed", ![c].due = FALSE], alarm)
  <2> DEFINE int == [intent EXCEPT ![c].status = "failed", ![c].due = FALSE]
  <2>1. \A t \in Tickets : status'[t] = IF t \in undone THEN "cancelled" ELSE status[t]
    BY <1>5 DEF Mark
  <2>2. /\ \A t \in Tickets : status'[t] \in Queued => status[t] \in Queued
        /\ \A t \in Tickets \ closed : status'[t] = status[t] \/ status'[t] \in Active
    BY <2>1 DEF Queued
  <2>3. int \in [Candidates -> IntentRecords] /\ \A d \in Candidates :
           IF d = c THEN int[d].status = "failed" ELSE int[d] = intent[d]
    BY <1>1, <1>2, ZenonT(30) DEF IntentRecords
  <2>4. \A d \in Candidates : int[d].status \in Live => intent[d].status \in Live
    BY <2>3 DEF Live
  <2>5. Continue(k, task[k], int, alarm) /\ queuePlayer' = Dequeue(closed)
    BY <1>5
  <2> HIDE DEF int, undone, closed
  <2>. QED
    BY <1>1, <1>2, <2>2, <2>3, <2>4, <2>5, LoopWakes
<1>6. CASE /\ UNCHANGED queue
           /\ Continue(k, task[k],
                       IF i.status = "initializing"
                       THEN [intent EXCEPT ![c].status = "pending", ![c].due = FALSE]
                       ELSE intent, alarm)
  <2> DEFINE int == IF i.status = "initializing"
                    THEN [intent EXCEPT ![c].status = "pending", ![c].due = FALSE]
                    ELSE intent
  <2>1. int \in [Candidates -> IntentRecords]
    <3> DEFINE later == [i EXCEPT !.status = "pending", !.due = FALSE]
    <3>0. i \in IntentRecords
      BY <1>1, <1>2
    <3>1. later \in IntentRecords
      <4> HIDE DEF i
      <4>. QED
        BY <3>0 DEF IntentRecords, Live
    <3>2. [intent EXCEPT ![c].status = "pending", ![c].due = FALSE] = [intent EXCEPT ![c] = later]
      BY <1>1, <1>2 DEF IntentRecords
    <3>. QED
      BY <1>1, <1>2, <3>1, <3>2
  <2>2. \A d \in Candidates : int[d].status \in Live => intent[d].status \in Live
    BY <1>1, <1>2 DEF Live, IntentRecords
  <2>3. Continue(k, task[k], int, alarm)
    BY <1>6
  <2> HIDE DEF int
  <2>. QED
    BY <1>3, <1>6, <2>1, <2>2, <2>3
<1>. QED
  BY <1>4, <1>5, <1>6 DEF SettlementFailed

\* Applying a result dequeues the pair.
LEMMA ApplyDequeues ==
  ASSUME NEW c \in Candidates, NEW token, ApplyMatchResult(c, token)
  PROVE  /\ queuePlayer' = Dequeue(c)
         /\ \A t \in Tickets \ c : status'[t] = status[t] \/ status'[t] \in Active
         /\ \A t \in Tickets : status'[t] \in Queued => status[t] \in Queued
BY DEF ApplyMatchResult, Mark, Queued

\* The type of the intents after one of them is completed.
LEMMA CompleteType ==
  ASSUME TypeOK, NEW c \in Candidates, NEW token \in Nat
  PROVE  /\ Complete(c, token) \in [Candidates -> IntentRecords]
         /\ \A d \in Candidates : Complete(c, token)[d].status \in Live => intent[d].status \in Live
<1>1. intent \in [Candidates -> IntentRecords] /\ intent[c] \in IntentRecords
  BY DEF TypeOK
<1>2. CASE intent[c].status = "failed"
  BY <1>1, <1>2 DEF Complete
<1>3. CASE intent[c].status # "failed"
  <2> DEFINE i == [intent[c] EXCEPT !.status = "matched", !.due = FALSE, !.result = token]
  <2>1. Complete(c, token) = [intent EXCEPT ![c] = i]
    BY <1>1, <1>3 DEF Complete, IntentRecords
  <2>2. i \in IntentRecords /\ i.status = "matched"
    BY <1>1 DEF IntentRecords
  <2> HIDE DEF i
  <2>. QED
    BY <1>1, <2>1, <2>2 DEF Live
<1>. QED
  BY <1>2, <1>3

LEMMA AppliedWakes ==
  ASSUME IInv, ScheduleInv, NEW k \in Handlers, NEW rec \in TaskRecords,
         rec.kind = "create" => rec.request \in Requests /\ rec.ticket \in Tickets,
         NEW c \in Candidates, NEW token \in Nat,
         ApplyMatchResult(c, token),
         Continue(k, rec, Complete(c, token), HasDeadline(status', Complete(c, token)))
  PROVE  ScheduleInv'
<1>1. PICK int : int = Complete(c, token)
  OBVIOUS
<1>2. int \in [Candidates -> IntentRecords]
  BY <1>1, CompleteType DEF IInv
<1>3. PICK armed : armed = HasDeadline(status', int) /\ armed \in BOOLEAN
  BY HasDeadlineType
<1>4. Continue(k, rec, int, armed) /\ armed = HasDeadline(status', int) /\ armed \in BOOLEAN
  BY <1>1, <1>3
<1> HIDE <1>1, <1>3
<1>. QED
  BY <1>2, <1>4, ApplyDequeues, LoopWakes

\* Applying a result and waiting for the Parties to be thawed.
LEMMA AwaitReleaseWakes ==
  ASSUME IInv, ScheduleInv, NEW k \in Handlers, NEW c \in Candidates, NEW token,
         NEW T, ApplyMatchResult(c, token), AwaitRelease(k, task[k], T)
  PROVE  ScheduleInv'
<1>1. PICK rec : rec = [task[k] EXCEPT !.pc = "matchRelease", !.ending = T]
  OBVIOUS
<1>2. rec.pc = "matchRelease"
  BY <1>1, TaskFields DEF TaskRecords
<1>3. task' = [task EXCEPT ![k] = rec] /\ UNCHANGED <<intent, alarm>>
  BY <1>1 DEF AwaitRelease, Begin
<1>4. /\ queuePlayer' = Dequeue(c)
      /\ \A t \in Tickets \ c : status'[t] = status[t] \/ status'[t] \in Active
      /\ \A t \in Tickets : status'[t] \in Queued => status[t] \in Queued
  BY ApplyDequeues
<1>5. RowsActive'
  <2>1. \A p \in Players : queuePlayer'[p] = IF queuePlayer[p] \in c THEN None ELSE queuePlayer[p]
    BY <1>4 DEF Dequeue
  <2>. QED
    BY <1>4, <2>1, RowsStayActive DEF ScheduleInv, IInv
<1>6. HasDeadline(status', intent') => HasDeadline(status, intent)
  BY <1>3, <1>4 DEF HasDeadline
<1>7. AlarmPc' /\ Wakes'
  BY <1>2, <1>3, <1>6, BeginWakes DEF ScheduleInv
<1>. QED
  BY <1>5, <1>7 DEF ScheduleInv

LEMMA RoomAnswersWake ==
  ASSUME IInv, ScheduleInv, NEW k \in Handlers, RoomInitialized(k) \/ RoomFailed(k)
  PROVE  ScheduleInv'
<1>1. task[k].pc = "init"
  BY DEF RoomInitialized, RoomFailed
<1>2. PICK c \in Candidates : c = task[k].cand
  BY <1>1, InitTask
<1>3. PICK token \in Nat : token = task[k].token
  BY <1>1, InitTask
<1>4. /\ task[k] \in TaskRecords
      /\ task[k].kind = "create" => task[k].request \in Requests /\ task[k].ticket \in Tickets
  BY <1>1, InitTask, TaskFields
<1>5. CASE \E retryable \in BOOLEAN : SettlementFailed(k, retryable)
  BY <1>1, <1>5, FailedAttemptWakes
<1>6. CASE /\ ApplyMatchResult(c, token)
           /\ Continue(k, task[k], Complete(c, token), HasDeadline(status', Complete(c, token)))
  BY <1>4, <1>6, AppliedWakes
<1>7. CASE ApplyMatchResult(c, token) /\ AwaitRelease(k, task[k], PartyTickets(c))
  BY <1>7, AwaitReleaseWakes
<1>. QED
  BY <1>2, <1>3, <1>5, <1>6, <1>7 DEF RoomInitialized, RoomFailed

LEMMA MatchReleasedWakes ==
  ASSUME IInv, ScheduleInv, NEW k \in Handlers, MatchReleased(k)
  PROVE  ScheduleInv'
<1>0. task[k].pc = "matchRelease" /\ UNCHANGED queue
  BY DEF MatchReleased
<1>1. PICK c \in Candidates : c = task[k].cand
  BY <1>0, InitTask
<1>2. PICK token \in Nat : token = task[k].token
  BY <1>0, InitTask
<1>3. PICK t \in task[k].ending :
        IF task[k].ending = {t}
        THEN Continue(k, [task[k] EXCEPT !.ending = {}], Complete(c, token),
                      HasDeadline(status, Complete(c, token)))
        ELSE Begin(k, [task[k] EXCEPT !.ending = @ \ {t}])
  <2>1. [task[k] EXCEPT !.ending = {}].cand = c /\ [task[k] EXCEPT !.ending = {}].token = token
    BY <1>1, <1>2, TaskFields DEF TaskRecords
  <2>. QED
    BY <2>1 DEF MatchReleased
<1>4. CASE Begin(k, [task[k] EXCEPT !.ending = @ \ {t}])
  <2>1. [task[k] EXCEPT !.ending = @ \ {t}].pc = "matchRelease"
    BY <1>0, TaskFields DEF TaskRecords
  <2>. QED
    BY <1>0, <1>4, <2>1, QuietBeginWakes
<1>5. CASE Continue(k, [task[k] EXCEPT !.ending = {}], Complete(c, token),
                    HasDeadline(status, Complete(c, token)))
  <2> DEFINE rec == [task[k] EXCEPT !.ending = {}]
  <2>1. /\ rec \in TaskRecords
        /\ rec.kind = "create" => rec.request \in Requests /\ rec.ticket \in Tickets
    <3>1. /\ rec \in TaskRecords /\ rec.kind = task[k].kind
          /\ rec.request = task[k].request /\ rec.ticket = task[k].ticket
      BY TaskFields DEF TaskRecords
    <3>. QED
      BY <1>0, <3>1, InitTask
  <2>2. PICK int : int = Complete(c, token)
    OBVIOUS
  <2>3. int \in [Candidates -> IntentRecords]
    BY <2>2, CompleteType DEF IInv
  <2>4. PICK armed : armed = HasDeadline(status, int) /\ armed \in BOOLEAN
    BY HasDeadlineType
  <2>5. UNCHANGED status /\ queuePlayer' = Dequeue({})
    BY <1>0, MarkNone DEF queue
  <2>6. Continue(k, rec, int, armed) /\ armed = HasDeadline(status', int) /\ armed \in BOOLEAN
    BY <1>5, <2>2, <2>4, <2>5
  <2>7. \A u \in Tickets \ {} : status'[u] = status[u] \/ status'[u] \in Active
    BY <2>5
  <2> HIDE DEF rec
  <2> HIDE <2>2, <2>4
  <2>. QED
    BY <2>1, <2>3, <2>5, <2>6, <2>7, LoopWakes
<1>. QED
  BY <1>3, <1>4, <1>5

\* Closing queued tickets, and what the handler does next.
LEMMA CloseWakes ==
  ASSUME IInv, ScheduleInv, NEW k \in Handlers, NEW T \in SUBSET Tickets,
         NEW s, s \in Ended,
         status' = Mark(status, T, s), queuePlayer' = Dequeue(T),
         \/ Return(k, Idle, intent)
         \/ \E rec : /\ rec.pc = "closeRelease"
                     /\ task' = [task EXCEPT ![k] = rec] /\ UNCHANGED intent
                     /\ alarm' = alarm \/ k = AlarmTask
  PROVE  ScheduleInv'
<1>1. \A t \in Tickets : status'[t] = IF t \in T THEN s ELSE status[t]
  BY DEF Mark
<1>2. RowsActive'
  <2>1. \A p \in Players : queuePlayer'[p] = IF queuePlayer[p] \in T THEN None ELSE queuePlayer[p]
    BY DEF Dequeue
  <2>. QED
    BY <1>1, <2>1, RowsStayActive DEF ScheduleInv, IInv
<1>3. CASE Return(k, Idle, intent)
  <2>1. /\ intent' = intent /\ task' = [task EXCEPT ![k] = Idle]
        /\ alarm' = HasDeadline(status', intent)
    BY <1>3 DEF Return
  <2>2. Wakes'
    BY <2>1 DEF Wakes
  <2>3. AlarmPc'
    BY <2>1 DEF ScheduleInv, AlarmPc, Handlers, Idle, IInv, TypeOK
  <2>. QED
    BY <1>2, <2>2, <2>3 DEF ScheduleInv
<1>4. ASSUME NEW rec, rec.pc = "closeRelease",
             task' = [task EXCEPT ![k] = rec], UNCHANGED intent,
             alarm' = alarm \/ k = AlarmTask
      PROVE  AlarmPc' /\ Wakes'
  <2>1. HasDeadline(status', intent') => HasDeadline(status, intent)
    BY <1>1, <1>4 DEF HasDeadline, Queued, Ended
  <2>2. task'[AlarmTask] = IF k = AlarmTask THEN rec ELSE task[AlarmTask]
    BY <1>4 DEF IInv, TypeOK, Handlers
  <2>. QED
    BY <1>4, <2>1, <2>2 DEF ScheduleInv, AlarmPc, Wakes
<1>. QED
  BY <1>2, <1>3, <1>4 DEF ScheduleInv

LEMMA ClosesWake ==
  ASSUME IInv, ScheduleInv, NEW k \in Handlers,
         ExpireDueTickets(k) \/ \E t \in Tickets : CancelTicket(k, t)
  PROVE  ScheduleInv'
<1>1. CASE ExpireDueTickets(k)
  <2>1. PICK rec : rec = [Idle EXCEPT !.kind = "cancel", !.pc = "closeRelease",
                                      !.ending = PartyTickets(Overdue)]
    OBVIOUS
  <2>2. rec.pc = "closeRelease"
    BY <2>1 DEF Idle
  <2>3. /\ status' = Mark(status, Overdue, "expired") /\ queuePlayer' = Dequeue(Overdue)
        /\ Overdue \in SUBSET Tickets /\ "expired" \in Ended
    BY <1>1 DEF ExpireDueTickets, Close, Overdue, Ended, IInv, TypeOK
  <2>4. \/ Return(k, Idle, intent)
        \/ /\ task' = [task EXCEPT ![k] = rec] /\ UNCHANGED intent /\ alarm' = alarm
    BY <1>1, <2>1 DEF ExpireDueTickets, Begin
  <2> HIDE <2>1
  <2>. QED
    BY <2>2, <2>3, <2>4, CloseWakes
<1>2. ASSUME NEW t \in Tickets, CancelTicket(k, t)
      PROVE  ScheduleInv'
  <2>1. PICK rec : rec = [Idle EXCEPT !.kind = "cancel", !.pc = "closeRelease", !.ending = {t}]
    OBVIOUS
  <2>2. rec.pc = "closeRelease"
    BY <2>1 DEF Idle
  <2>3. /\ status' = Mark(status, {t}, "cancelled") /\ queuePlayer' = Dequeue({t})
        /\ {t} \in SUBSET Tickets /\ "cancelled" \in Ended
    BY <1>2 DEF CancelTicket, Close, Ended
  <2>4. \/ Return(k, Idle, intent)
        \/ /\ task' = [task EXCEPT ![k] = rec] /\ UNCHANGED intent /\ alarm' = alarm
    BY <1>2, <2>1 DEF CancelTicket, Begin
  <2> HIDE <2>1
  <2>. QED
    BY <2>2, <2>3, <2>4, CloseWakes
<1>. QED
  BY <1>1, <1>2

LEMMA AlarmWakes ==
  ASSUME IInv, ScheduleInv, Alarm
  PROVE  ScheduleInv'
<1>1. /\ Overdue \in SUBSET Tickets /\ AlarmTask \in Handlers /\ "expired" \in Ended
      /\ queuePlayer' = Dequeue(Overdue)
  BY DEF Alarm, Overdue, Handlers, Ended, IInv, TypeOK
<1>2. CASE /\ status' = Mark(status, Overdue, "expired")
           /\ task' = [task EXCEPT ![AlarmTask] =
                            [Idle EXCEPT !.kind = "alarm", !.pc = "closeRelease",
                                         !.ending = PartyTickets(Overdue)]]
           /\ UNCHANGED intent
  <2>1. PICK rec : rec = [Idle EXCEPT !.kind = "alarm", !.pc = "closeRelease",
                                      !.ending = PartyTickets(Overdue)]
    OBVIOUS
  <2>2. rec.pc = "closeRelease" /\ task' = [task EXCEPT ![AlarmTask] = rec]
    BY <1>2, <2>1 DEF Idle
  <2> HIDE <2>1
  <2>. QED
    BY <1>1, <1>2, <2>2, CloseWakes
<1>3. CASE SearchAndSettle(AlarmTask, Mark(status, Overdue, "expired"),
                           Log(events, Overdue, "expired"), FALSE)
  <2>1. PICK armed : armed = FALSE
    OBVIOUS
  <2>2. armed \in BOOLEAN
    BY <2>1
  <2>3. PICK st : st = Mark(status, Overdue, "expired")
    OBVIOUS
  <2>4. \A t \in Tickets : st[t] = IF t \in Overdue THEN "expired" ELSE status[t]
    BY <2>3 DEF Mark
  <2>5. PICK ev : ev = Log(events, Overdue, "expired")
    OBVIOUS
  <2>6. PICK rec : rec = [Idle EXCEPT !.kind = "settle"]
    OBVIOUS
  <2>7. rec \in TaskRecords /\ rec.kind # "create"
    BY <2>6, SettleRec
  <2>8. PICK S \in Searches(st) :
          Reserve(S, st, ev) /\ ProcessPendingMatches(AlarmTask, rec, IntentsFor(S), armed)
    BY <1>3, <2>1, <2>3, <2>5, <2>6 DEF SearchAndSettle
  <2>9. S \in SUBSET Candidates /\ \A t \in UNION S : st[t] = "waiting"
    BY SearchesType
  <2> HIDE <2>1, <2>3, <2>5, <2>6
  <2>. QED
    BY <1>1, <2>2, <2>4, <2>7, <2>8, <2>9, SearchWakes
<1>. QED
  BY <1>2, <1>3 DEF Alarm

LEMMA CloseReleasedWakes ==
  ASSUME IInv, ScheduleInv, NEW k \in Handlers, CloseReleased(k)
  PROVE  ScheduleInv'
<1>1. PICK t \in task[k].ending :
        \/ /\ Begin(k, [task[k] EXCEPT !.ending = @ \ {t}])
           /\ UNCHANGED queue
        \/ UNCHANGED queue /\ Return(k, Idle, intent)
        \/ /\ SearchAndSettle(k, status, events, alarm)
           /\ UNCHANGED <<source, result, queuePlayer, overdue>>
  BY DEF CloseReleased
<1>2. CASE Begin(k, [task[k] EXCEPT !.ending = @ \ {t}]) /\ UNCHANGED queue
  <2>1. [task[k] EXCEPT !.ending = @ \ {t}].pc = "closeRelease"
    BY TaskFields DEF CloseReleased, TaskRecords
  <2>. QED
    BY <1>2, <2>1, QuietBeginWakes
<1>3. CASE UNCHANGED queue /\ Return(k, Idle, intent)
  <2>1. /\ {} \in SUBSET Tickets /\ "expired" \in Ended /\ queuePlayer' = Dequeue({})
        /\ status' = Mark(status, {}, "expired")
    BY <1>3, MarkNone DEF queue, Ended
  <2>. QED
    BY <1>3, <2>1, CloseWakes
<1>4. CASE /\ SearchAndSettle(k, status, events, alarm)
           /\ UNCHANGED <<source, result, queuePlayer, overdue>>
  BY <1>4, SearchesWake
<1>. QED
  BY <1>1, <1>2, <1>3, <1>4

LEMMA SearchRpcWakes ==
  ASSUME IInv, ScheduleInv, NEW k \in Handlers, SearchRpc(k)
  PROVE  ScheduleInv'
BY SearchesWake DEF SearchRpc

LEMMA MatchCandidateWakes ==
  ASSUME IInv, ScheduleInv, NEW k \in Tasks, NEW c \in Candidates, MatchCandidate(k, c)
  PROVE  ScheduleInv'
<1>1. k \in Handlers /\ k # AlarmTask
  BY PoolAssumption DEF Handlers
<1>2. CASE /\ UNCHANGED queue
           /\ Begin(k, [Idle EXCEPT !.kind = "match", !.pc = "verify", !.cand = c])
  BY <1>1, <1>2, QuietBeginWakes
<1>3. CASE /\ intent' = Complete(c, 0)
           /\ UNCHANGED <<task, alarm, status, queuePlayer>>
  <2>1. RowsActive'
    BY <1>3, RowsStay DEF ScheduleInv, IInv
  <2>2. \A d \in Candidates : Complete(c, 0)[d].status \in Live => intent[d].status \in Live
    BY CompleteType DEF IInv
  <2>3. HasDeadline(status', intent') => HasDeadline(status, intent)
    BY <1>3, <2>2 DEF HasDeadline
  <2>4. AlarmPc' /\ Wakes'
    BY <1>3, <2>3, NoNewDeadline DEF ScheduleInv
  <2>. QED
    BY <2>1, <2>4 DEF ScheduleInv
<1>. QED
  BY <1>2, <1>3 DEF MatchCandidate, queue

LEMMA RoomVerifiedWakes ==
  ASSUME IInv, ScheduleInv, NEW k \in Handlers, RoomVerified(k)
  PROVE  ScheduleInv'
<1>1. PICK c \in Candidates : c = task[k].cand
  BY InitTask DEF RoomVerified
<1>2. k # AlarmTask
  BY NotTheAlarm DEF RoomVerified
<1>3. CASE ApplyMatchResult(c, 0) /\ Return(k, Idle, Complete(c, 0))
  <2>1. PICK rec : rec = Idle
    OBVIOUS
  <2>2. rec \in TaskRecords /\ rec.kind # "create" /\ rec.todo = {}
    BY <2>1 DEF Idle, TaskRecords
  <2>3. Continue(k, rec, Complete(c, 0), HasDeadline(status', Complete(c, 0)))
    BY <1>3, <2>1, <2>2 DEF Continue
  <2> HIDE <2>1
  <2>. QED
    BY <1>3, <2>2, <2>3, AppliedWakes
<1>4. CASE ApplyMatchResult(c, 0) /\ AwaitRelease(k, task[k], PartyTickets(c))
  BY <1>4, AwaitReleaseWakes
<1>5. CASE /\ intent' = Complete(c, 0)
           /\ task' = [task EXCEPT ![k] = Idle]
           /\ UNCHANGED <<queue, alarm>>
  <2>1. RowsActive'
    BY <1>5, RowsStay DEF ScheduleInv, IInv, queue
  <2>2. \A d \in Candidates : Complete(c, 0)[d].status \in Live => intent[d].status \in Live
    BY CompleteType DEF IInv
  <2>3. HasDeadline(status', intent') => HasDeadline(status, intent)
    BY <1>5, <2>2 DEF HasDeadline, queue
  <2>4. AlarmPc' /\ Wakes'
    BY <1>2, <1>5, <2>3, BeginWakes DEF ScheduleInv
  <2>. QED
    BY <2>1, <2>4 DEF ScheduleInv
<1>6. CASE Done(k) /\ UNCHANGED queue
  BY <1>2, <1>6, QuietBeginWakes DEF Done
<1>. QED
  BY <1>1, <1>3, <1>4, <1>5, <1>6 DEF RoomVerified

\* A restart rearms the alarm whose handler it interrupts.
LEMMA CrashWakes ==
  ASSUME IInv, ScheduleInv, Crash
  PROVE  ScheduleInv'
<1>1. /\ UNCHANGED <<queue, intent>> /\ task'[AlarmTask] = Idle
      /\ alarm' = (alarm \/ task[AlarmTask] # Idle)
  BY DEF Crash, Handlers
<1>2. RowsActive'
  BY <1>1, RowsStay DEF ScheduleInv, IInv, queue
<1>3. HasDeadline(status', intent') = HasDeadline(status, intent)
  BY <1>1 DEF queue
<1>4. AlarmPc' /\ Wakes'
  <2>1. AlarmPc'
    BY <1>1 DEF AlarmPc, Idle
  <2>2. HasDeadline(status, intent) => alarm \/ task[AlarmTask] # Idle
    BY DEF ScheduleInv, Wakes, Idle
  <2>3. Wakes'
    BY <1>1, <1>3, <2>2, Zenon DEF Wakes
  <2>. QED
    BY <2>1, <2>3
<1>. QED
  BY <1>2, <1>4 DEF ScheduleInv

LEMMA TimeWakes ==
  ASSUME IInv, ScheduleInv,
         \/ \E t \in Tickets : DetachedReleased(t) \/ TicketDue(t)
         \/ \E c \in Candidates : IntentDue(c)
         \/ UNCHANGED vars
  PROVE  ScheduleInv'
<1>1. UNCHANGED <<status, queuePlayer, alarm, task>>
  BY DEF DetachedReleased, TicketDue, IntentDue, vars, queue
<1>2. RowsActive'
  BY <1>1, RowsStay DEF ScheduleInv, IInv
<1>3. \A c \in Candidates : intent'[c].status \in Live => intent[c].status \in Live
  BY DEF DetachedReleased, TicketDue, IntentDue, vars, IInv, TypeOK, IntentRecords
<1>4. HasDeadline(status', intent') => HasDeadline(status, intent)
  BY <1>1, <1>3 DEF HasDeadline
<1>5. AlarmPc' /\ Wakes'
  BY <1>1, <1>4, NoNewDeadline DEF ScheduleInv
<1>. QED
  BY <1>2, <1>5 DEF ScheduleInv

LEMMA NextWakes ==
  ASSUME "expireTicket" \notin Operator, IInv, ScheduleInv, [Next]_vars
  PROVE  ScheduleInv'
<1>1. ASSUME NEW k \in Tasks, Call(k)
      PROVE  ScheduleInv'
  <2>1. k \in Handlers /\ k # AlarmTask
    BY PoolAssumption DEF Handlers
  <2>2. CASE \E r \in Requests : CreateReplay(k, r)
    BY <2>1, <2>2, CreateReplayWakes
  <2>3. CASE \E r \in Requests, t \in Tickets : CreateSolo(k, r, t)
    BY <2>1, <2>3, CreateWakes
  <2>4. CASE \E r \in Requests, t \in Tickets : CreateParty(k, r, t)
    BY <2>1, <2>4, QuietBeginWakes DEF CreateParty
  <2>5. CASE ExpireDueTickets(k) \/ \E t \in Tickets : CancelTicket(k, t)
    BY <2>1, <2>5, ClosesWake
  <2>6. CASE SearchRpc(k)
    BY <2>1, <2>6, SearchRpcWakes
  <2>7. CASE \E c \in Candidates : ReserveCandidate(k, c)
    BY <2>1, <2>7, SearchesWake
  <2>8. CASE \E c \in Candidates : MatchCandidate(k, c)
    BY <2>8, MatchCandidateWakes
  <2>. QED
    BY <1>1, <2>2, <2>3, <2>4, <2>5, <2>6, <2>7, <2>8 DEF Call
<1>2. ASSUME NEW k \in Handlers, Answer(k)
      PROVE  ScheduleInv'
  <2>1. CASE RatingsRead(k)
    <3>1. k # AlarmTask
      BY <2>1, NotTheAlarm DEF RatingsRead
    <3>. QED
      BY <2>1, <3>1, CreateWakes
  <2>. QED
    BY <1>2, <2>1, PartyAnswersWake, RoomAnswersWake, MatchReleasedWakes, CloseReleasedWakes,
       RoomVerifiedWakes DEF Answer
<1>3. CASE Alarm
  BY <1>3, AlarmWakes
<1>4. ASSUME NEW t \in Tickets, ExpireTicket(t)
      PROVE  ScheduleInv'
  BY <1>4 DEF ExpireTicket
<1>5. CASE \/ \E t \in Tickets : DetachedReleased(t) \/ TicketDue(t)
           \/ \E c \in Candidates : IntentDue(c)
           \/ UNCHANGED vars
  BY <1>5, TimeWakes
<1>6. CASE Crash
  BY <1>6, CrashWakes
<1>. QED
  BY <1>1, <1>2, <1>3, <1>4, <1>5, <1>6 DEF Next

\* Unless expireTicket() is called, every deadline of the queue has an alarm and
\* every row of queue_players an active ticket, whatever fails or restarts.
LEMMA Scheduled ==
  ASSUME "expireTicket" \notin Operator
  PROVE  Spec => []ScheduleInv
<1>1. Init => ScheduleInv
  BY DEF Init, ScheduleInv, RowsActive, AlarmPc, Wakes, HasDeadline, Queued, Live, NoIntent, Idle,
     Handlers
<1>2. IInv /\ ScheduleInv /\ [Next]_vars => ScheduleInv'
  BY NextWakes
<1>. QED
  BY <1>1, <1>2, Invariance, PTL DEF Spec

\* Where expireTicket() is not called, a ticket that has ended keeps none of its
\* players out of the queue: each handler that ends a ticket deletes the rows
\* of queue_players in the same step.
THEOREM EndsReleasePlayers ==
  ASSUME "expireTicket" \notin Operator
  PROVE  Spec => []EndedReleasesPlayers
<1>1. ScheduleInv => EndedReleasesPlayers
  BY DEF ScheduleInv, RowsActive, EndedReleasesPlayers, Active, Ended
<1>. QED
  BY <1>1, Scheduled, PTL

\* Where expireTicket() is not called, no ticket is queued or reserved without
\* an alarm or a handler that sets it, however many calls fail and restarts
\* interrupt them.
THEOREM WorkHasAlarm ==
  ASSUME "expireTicket" \notin Operator
  PROVE  Spec => []WorkIsScheduled
<1>1. IInv /\ ScheduleInv => WorkIsScheduled
  <2> SUFFICES ASSUME IInv, ScheduleInv, NEW t \in Tickets, status[t] \in Active
               PROVE  alarm \/ \E k \in Handlers : task[k] # Idle
    BY DEF WorkIsScheduled
  <2>1. HasDeadline(status, intent)
    BY DEF IInv, ReservedCanSettle, HasDeadline, Active, Queued
  <2>2. alarm \/ task[AlarmTask].pc # "idle"
    BY <2>1 DEF ScheduleInv, Wakes
  <2>. QED
    BY <2>2 DEF Handlers, Idle
<1>. QED
  BY <1>1, Invariance, Scheduled, PTL
-----------------------------------------------------------------------------
(* A frozen Party has a cause (FreezeInv), as long as no endQueueTicket()  *)
(* fails, no restart loses the handler that would call it, and             *)
(* expireTicket() is not called: each of the three leaves Parties frozen.  *)

\* The handlers other than k stay where they are, and k's record after the step
\* is one PartiesOnly allows.
Elsewhere(k) ==
    \A j \in Handlers \ {k} : SameTask(j) /\ task'[j].ending = task[j].ending

GoodRec(rec) ==
    /\ rec.pc \in {"begin", "ratings", "undo"} => rec.request \in PartyRequests
    /\ rec.pc \notin {"matchRelease", "closeRelease"} => rec.ending = {}

LEMMA BeginElsewhere ==
  ASSUME IInv, NEW k \in Handlers, NEW rec, task' = [task EXCEPT ![k] = rec]
  PROVE  Elsewhere(k) /\ task'[k] = rec
BY DEF Elsewhere, SameTask, IInv, TypeOK

\* The loop of processPendingMatches() leaves the other handlers what they thaw.
LEMMA ContinueElsewhere ==
  ASSUME IInv, NEW k \in Handlers, NEW rec \in TaskRecords, NEW int, NEW armed,
         Continue(k, rec, int, armed)
  PROVE  /\ Elsewhere(k) /\ task'[k].ending = {}
         /\ task'[k].pc \in {"idle", "init"}
<1>1. CASE Return(k, rec, int)
  <2>1. task' = [task EXCEPT ![k] = Idle]
    BY <1>1 DEF Return
  <2>2. Elsewhere(k) /\ task'[k] = Idle
    BY <2>1, BeginElsewhere
  <2>. QED
    BY <2>2 DEF Idle
<1>2. CASE ~Return(k, rec, int)
  <2>1. PICK c \in rec.todo : ClaimMatchIntent(k, rec, int, c)
    BY <1>2 DEF Continue
  <2>2. PICK kept \in SUBSET {j \in Handlers \ {k} : c \in task[j].todo} :
          task' = [j \in Handlers |->
                    IF j = k
                    THEN [rec EXCEPT !.pc = "init", !.cand = c, !.todo = @ \ {c},
                                     !.token = int[c].attempts + 1, !.ending = {}]
                    ELSE IF j \in kept THEN task[j]
                    ELSE [task[j] EXCEPT !.todo = @ \ {c}]]
    BY <2>1 DEF ClaimMatchIntent
  <2>3. task'[k].pc = "init" /\ task'[k].ending = {}
    BY <2>2 DEF TaskRecords
  <2>4. Elsewhere(k)
    BY <2>2, ZenonT(30) DEF Elsewhere, IInv, TypeOK, TaskRecords, SameTask
  <2>. QED
    BY <2>3, <2>4
<1>. QED
  BY <1>1, <1>2

\* What becomes of the Party of t in a step of handler k.
Fate(k, t) ==
    \/ status'[t] \in Active \/ t \in detached' \/ Holds(k, t)'
    \/ /\ t \in frozen /\ status'[t] = status[t] /\ ~Holds(k, t)
       /\ t \in detached => t \in detached'

Origin(t) ==
    \/ t \in frozen /\ status[t] # "none" /\ source'[t] = source[t]
    \/ status'[t] = "none"
    \/ source'[t] \in PartyRequests

LEMMA FreezeKept ==
  ASSUME FreezeInv, NEW k \in Handlers, Elsewhere(k), GoodRec(task[k])',
         \A t \in frozen' : Fate(k, t) /\ Origin(t)
  PROVE  FreezeInv'
<1>1. ASSUME NEW t \in frozen'
      PROVE  status'[t] \in Active \/ t \in detached' \/ \E j \in Handlers : Holds(j, t)'
  <2>1. CASE /\ t \in frozen /\ status'[t] = status[t] /\ ~Holds(k, t)
             /\ t \in detached => t \in detached'
    <3>1. status[t] \in Active \/ t \in detached \/ \E j \in Handlers \ {k} : Holds(j, t)
      BY <2>1 DEF FreezeInv, FreezeOwned
    <3>2. ASSUME NEW j \in Handlers \ {k}, Holds(j, t)
          PROVE  Holds(j, t)'
      BY <3>2 DEF Elsewhere, SameTask, Holds
    <3>. QED
      BY <2>1, <3>1, <3>2
  <2>. QED
    BY <2>1 DEF Fate
<1>2. FreezeOwned'
  BY <1>1 DEF FreezeOwned
<1>3. PartiesOnly'
  <2>1. \A t \in frozen' : status'[t] # "none" => source'[t] \in PartyRequests
    BY DEF Origin, FreezeInv, PartiesOnly
  <2>2. \A j \in Handlers : GoodRec(task[j])'
    BY DEF Elsewhere, SameTask, FreezeInv, PartiesOnly, GoodRec
  <2>. QED
    BY <2>1, <2>2 DEF PartiesOnly, GoodRec
<1>. QED
  BY <1>2, <1>3 DEF FreezeInv

\* A handler at no call of a Party holds none.
LEMMA HoldsNothing ==
  ASSUME FreezeInv, NEW k \in Handlers,
         task[k].pc \in {"idle", "begin", "init", "verify"}, NEW t
  PROVE  ~Holds(k, t)
BY DEF Holds, FreezeInv, PartiesOnly

\* A frozen ticket that exists is a ticket of a Party.
LEMMA FrozenIsParty ==
  ASSUME FreezeInv, NEW t \in frozen, status[t] # "none", NEW T, t \in T
  PROVE  t \in PartyTickets(T)
BY DEF FreezeInv, PartiesOnly, PartyTickets
-----------------------------------------------------------------------------
(* Every action keeps FreezeInv.                                           *)

\* The queue is left alone, and no freeze is made.
LEMMA QuietFreeze ==
  ASSUME IInv, FreezeInv, NEW k \in Handlers, Elsewhere(k), GoodRec(task[k])',
         UNCHANGED queue, frozen' \subseteq frozen, detached \subseteq detached',
         \A t \in frozen' : Holds(k, t) => Holds(k, t)'
  PROVE  FreezeInv'
<1>1. \A t \in frozen' : Fate(k, t) /\ Origin(t)
  BY DEF Fate, Origin, queue
<1>. QED
  BY <1>1, FreezeKept

LEMMA PartyAnswersFreeze ==
  ASSUME "party" \notin Faults, IInv, FreezeInv, NEW k \in Handlers,
         \/ PartyFrozen(k) \/ PartyRefused(k) \/ RatingsFailed(k) \/ CreateUndone(k)
         \/ VerifyFailed(k)
  PROVE  FreezeInv'
<1>0. /\ task[k] \in TaskRecords /\ GoodRec(task[k])
      /\ task[k].pc \in {"begin", "ratings", "undo"} => task[k].ticket \in Tickets
  BY TaskFields DEF FreezeInv, PartiesOnly, GoodRec, TaskOK
<1>1. CASE PartyFrozen(k)
  <2>1. PICK rec : rec = [task[k] EXCEPT !.pc = IF Cardinality(Members[task[k].request]) > MaxPartySize
                                                THEN "undo" ELSE "ratings"]
    OBVIOUS
  <2>2. /\ rec.pc \in {"undo", "ratings"} /\ rec.ending = task[k].ending
        /\ rec.request = task[k].request /\ rec.ticket = task[k].ticket
    BY <1>0, <2>1 DEF TaskRecords
  <2>3. /\ task' = [task EXCEPT ![k] = rec] /\ UNCHANGED <<queue, detached>>
        /\ frozen' = frozen \cup {task[k].ticket} /\ task[k].pc = "begin"
    BY <1>1, <2>1 DEF PartyFrozen, Begin
  <2>4. Elsewhere(k) /\ task'[k] = rec
    BY <2>3, BeginElsewhere
  <2>5. status[task[k].ticket] = "none"
    BY <2>3, TaskFields DEF TaskOK
  <2>6. GoodRec(task[k])'
    BY <1>0, <2>2, <2>3, <2>4 DEF GoodRec
  <2>7. \A t \in frozen' : Fate(k, t) /\ Origin(t)
    BY <1>0, <2>2, <2>3, <2>4, <2>5, HoldsNothing DEF Fate, Origin, queue, Holds
  <2>. QED
    BY <2>4, <2>6, <2>7, FreezeKept
<1>2. CASE PartyRefused(k) \/ VerifyFailed(k)
  <2>1. /\ task' = [task EXCEPT ![k] = Idle] /\ UNCHANGED <<queue, detached, frozen>>
        /\ task[k].pc \in {"begin", "verify"}
    BY <1>2 DEF PartyRefused, VerifyFailed, Done, Begin, external
  <2>2. Elsewhere(k) /\ task'[k] = Idle
    BY <2>1, BeginElsewhere
  <2>. QED
    BY <2>1, <2>2, HoldsNothing, QuietFreeze DEF GoodRec, Idle
<1>3. CASE RatingsFailed(k)
  <2>1. PICK rec : rec = [task[k] EXCEPT !.pc = "undo"]
    OBVIOUS
  <2>2. /\ rec.pc = "undo" /\ rec.ending = task[k].ending
        /\ rec.request = task[k].request /\ rec.ticket = task[k].ticket
    BY <1>0, <2>1 DEF TaskRecords
  <2>3. /\ task' = [task EXCEPT ![k] = rec] /\ UNCHANGED <<queue, detached, frozen>>
        /\ task[k].pc = "ratings"
    BY <1>3, <2>1 DEF RatingsFailed, Begin, external
  <2>4. Elsewhere(k) /\ task'[k] = rec
    BY <2>3, BeginElsewhere
  <2>. QED
    BY <1>0, <2>2, <2>3, <2>4, QuietFreeze DEF GoodRec, Holds
<1>4. CASE CreateUndone(k)
  <2>1. /\ task' = [task EXCEPT ![k] = Idle] /\ UNCHANGED <<queue, detached>>
        /\ frozen' = frozen \ {task[k].ticket} /\ task[k].pc = "undo"
    BY <1>4 DEF CreateUndone, EndQueueTicket, Done, Begin
  <2>2. Elsewhere(k) /\ task'[k] = Idle
    BY <2>1, BeginElsewhere
  <2>3. \A t \in frozen' : ~Holds(k, t)
    BY <1>0, <2>1 DEF GoodRec, Holds
  <2>. QED
    BY <2>1, <2>2, <2>3, QuietFreeze DEF GoodRec, Idle
<1>. QED
  BY <1>1, <1>2, <1>3, <1>4

\* Steps that only put tickets into the queue or pair them, and settle.
LEMMA SettlingFreeze ==
  ASSUME IInv, FreezeInv, NEW k \in Handlers, Elsewhere(k),
         task'[k].pc \in {"idle", "init"}, task'[k].ending = {},
         \A t \in frozen : ~Holds(k, t),
         \A t \in frozen : status'[t] = status[t] \/ status'[t] \in Active \/ t \in detached',
         \A t \in frozen : (status[t] # "none" /\ source'[t] = source[t]) \/ status'[t] = "none",
         frozen' \subseteq frozen, detached \subseteq detached'
  PROVE  FreezeInv'
<1>1. \A t \in frozen' : Fate(k, t) /\ Origin(t)
  BY DEF Fate, Origin
<1>. QED
  BY <1>1, FreezeKept DEF GoodRec

LEMMA InsertTicketFreeze ==
  ASSUME IInv, FreezeInv, NEW k \in Handlers, NEW rec \in TaskRecords,
         rec.kind = "create", rec.request \in Requests, rec.ticket \in Tickets,
         status[rec.ticket] = "none", rec.ending = {},
         InsertTicket(k, rec), UNCHANGED <<detached, frozen>>,
         rec.ticket \in frozen => rec.request \in PartyRequests,
         \A u \in frozen : Holds(k, u) => u = rec.ticket
  PROVE  FreezeInv'
<1> DEFINE r == rec.request
           t == rec.ticket
           src == [source EXCEPT ![t] = r]
           undo == [rec EXCEPT !.pc = "undo"]
           Reject == IF r \in PartyRequests THEN Begin(k, undo) ELSE Done(k)
<1>0. /\ undo.pc = "undo" /\ undo.ending = {} /\ undo.request = r /\ undo.ticket = t
  BY DEF TaskRecords
<1>1. ASSUME Reject
      PROVE  /\ Elsewhere(k) /\ GoodRec(task[k])'
             /\ r \in PartyRequests => \A u : u = t => Holds(k, u)'
  <2>1. CASE r \in PartyRequests
    <3>1. task' = [task EXCEPT ![k] = undo]
      BY <1>1, <2>1 DEF Begin
    <3>2. Elsewhere(k) /\ task'[k] = undo
      BY <3>1, BeginElsewhere
    <3>. QED
      BY <1>0, <2>1, <3>2 DEF GoodRec, Holds
  <2>2. CASE r \notin PartyRequests
    <3>1. task' = [task EXCEPT ![k] = Idle]
      BY <1>1, <2>2 DEF Begin, Done
    <3>2. Elsewhere(k) /\ task'[k] = Idle
      BY <3>1, BeginElsewhere
    <3>. QED
      BY <2>2, <3>2 DEF GoodRec, Idle
  <2>. QED
    BY <2>1, <2>2
<1>2. CASE Reject /\ UNCHANGED queue
  BY <1>1, <1>2, QuietFreeze
<1>3. CASE /\ status' = [status EXCEPT ![t] = "creating"]
           /\ source' = src
           /\ Reject
  <2>1. /\ \A u \in Tickets : status'[u] = IF u = t THEN "creating" ELSE status[u]
        /\ \A u \in Tickets : source'[u] = IF u = t THEN r ELSE source[u]
    BY <1>3 DEF IInv, TypeOK
  <2>2. frozen' \subseteq Tickets
    BY DEF IInv, TypeOK
  <2>3. \A u \in frozen' : Fate(k, u)
    BY <2>1, <2>2 DEF Fate, Active
  <2>4. \A u \in frozen' : Origin(u)
    BY <2>1, <2>2 DEF Origin
  <2>. QED
    BY <1>1, <1>3, <2>3, <2>4, FreezeKept
<1>4. CASE /\ source' = src
           /\ LET st == [status EXCEPT ![t] = "waiting"]
                  ev == [events EXCEPT ![t] = @ \o <<"creating", "waiting">>]
              IN \E S \in Searches(st) :
                    /\ FullTeams(S, src)
                    /\ Reserve(S, st, ev)
                    /\ ProcessPendingMatches(k, rec, IntentsFor(S), alarm)
  <2> DEFINE st == [status EXCEPT ![t] = "waiting"]
             ev == [events EXCEPT ![t] = @ \o <<"creating", "waiting">>]
             loop(S) == [rec EXCEPT !.todo = {c \in Candidates : Claimable(IntentsFor(S)[c])}]
  <2>1. PICK S \in Searches(st) :
          Reserve(S, st, ev) /\ ProcessPendingMatches(k, rec, IntentsFor(S), alarm)
    BY <1>4
  <2>2. /\ \A u \in UNION S : st[u] = "waiting"
        /\ \A u \in Tickets : st[u] = IF u = t THEN "waiting" ELSE status[u]
    <3>1. \A u \in UNION S : st[u] = "waiting"
      BY DEF Searches
    <3>. QED
      BY <3>1 DEF IInv, TypeOK
  <2>3. \A u \in Tickets : status'[u] = IF u \in UNION S THEN "reserved" ELSE st[u]
    BY <2>1 DEF Reserve, Mark
  <2>4. \A u \in Tickets : source'[u] = IF u = t THEN r ELSE source[u]
    BY <1>4 DEF IInv, TypeOK
  <2>5. loop(S) \in TaskRecords
    BY DEF TaskRecords
  <2>6. Continue(k, loop(S), IntentsFor(S), alarm)
    BY <2>1 DEF ProcessPendingMatches
  <2>7. Elsewhere(k) /\ task'[k].ending = {} /\ task'[k].pc \in {"idle", "init"}
    BY <2>5, <2>6, ContinueElsewhere
  <2> HIDE DEF st, ev, loop
  <2>8. \A u \in frozen' : u \in Tickets /\ Fate(k, u)
    BY <2>2, <2>3 DEF Fate, Active, IInv, TypeOK
  <2>9. \A u \in frozen' : Origin(u)
    BY <2>2, <2>3, <2>4, <2>8 DEF Origin
  <2>. QED
    BY <2>7, <2>8, <2>9, FreezeKept DEF GoodRec
<1>. QED
  BY <1>2, <1>3, <1>4 DEF InsertTicket

LEMMA CreateFreeze ==
  ASSUME IInv, FreezeInv, NEW k \in Handlers,
         RatingsRead(k) \/ \E r \in Requests, t \in Tickets : CreateSolo(k, r, t)
  PROVE  FreezeInv'
<1>1. CASE RatingsRead(k)
  <2>1. /\ task[k].kind = "create" /\ task[k].request \in Requests /\ task[k].ticket \in Tickets
        /\ status[task[k].ticket] = "none"
    BY <1>1, TaskFields DEF RatingsRead, TaskOK
  <2>2. task[k].request \in PartyRequests /\ task[k].ending = {}
    BY <1>1 DEF RatingsRead, FreezeInv, PartiesOnly
  <2>3. \A u \in frozen : Holds(k, u) => u = task[k].ticket
    BY <2>2 DEF Holds
  <2>4. InsertTicket(k, task[k]) /\ UNCHANGED <<detached, frozen>> /\ task[k] \in TaskRecords
    BY <1>1, TaskFields DEF RatingsRead, external
  <2>. QED
    BY <2>1, <2>2, <2>3, <2>4, InsertTicketFreeze
<1>2. ASSUME NEW r \in Requests, NEW t \in Tickets, CreateSolo(k, r, t)
      PROVE  FreezeInv'
  <2>1. /\ CreateRec(r, t) \in TaskRecords /\ CreateRec(r, t).kind = "create"
        /\ CreateRec(r, t).request = r /\ CreateRec(r, t).ticket = t /\ CreateRec(r, t).ending = {}
    BY DEF CreateRec, Idle, TaskRecords
  <2>2. status[t] = "none" /\ t \notin frozen /\ task[k].pc = "idle"
    BY <1>2 DEF CreateSolo, MayCreate, FreshTicket, Idle
  <2>3. \A u \in frozen : ~Holds(k, u)
    BY <2>2, HoldsNothing
  <2>4. InsertTicket(k, CreateRec(r, t)) /\ UNCHANGED <<detached, frozen>>
    BY <1>2 DEF CreateSolo, external
  <2>. QED
    BY <2>1, <2>2, <2>3, <2>4, InsertTicketFreeze
<1>. QED
  BY <1>1, <1>2

LEMMA CreatePartyFreeze ==
  ASSUME IInv, FreezeInv, NEW k \in Handlers, NEW r \in Requests, NEW t \in Tickets,
         CreateParty(k, r, t)
  PROVE  FreezeInv'
<1>1. PICK rec : rec = [CreateRec(r, t) EXCEPT !.pc = "begin"]
  OBVIOUS
<1>2. rec.pc = "begin" /\ rec.ending = {} /\ rec.request = r /\ r \in PartyRequests
  BY <1>1 DEF CreateRec, Idle, CreateParty
<1>3. /\ task' = [task EXCEPT ![k] = rec] /\ UNCHANGED <<queue, detached, frozen>>
      /\ task[k].pc = "idle"
  BY <1>1 DEF CreateParty, MayCreate, Begin, external, Idle
<1>4. Elsewhere(k) /\ task'[k] = rec
  BY <1>3, BeginElsewhere
<1>. QED
  BY <1>2, <1>3, <1>4, HoldsNothing, QuietFreeze DEF GoodRec

\* A search after the tickets T have expired, none of which is of a Party.
LEMMA SearchFreeze ==
  ASSUME IInv, FreezeInv, NEW k \in Handlers, \A t \in frozen : ~Holds(k, t),
         NEW T \in SUBSET Tickets, T \cap frozen = {},
         NEW st, \A t \in Tickets : st[t] = IF t \in T THEN "expired" ELSE status[t],
         NEW ev, NEW armed, NEW S \in SUBSET Candidates,
         \A t \in UNION S : st[t] = "waiting",
         Reserve(S, st, ev),
         NEW rec \in TaskRecords,
         ProcessPendingMatches(k, rec, IntentsFor(S), armed),
         UNCHANGED source, frozen' \subseteq frozen, detached \subseteq detached'
  PROVE  FreezeInv'
<1> DEFINE loop == [rec EXCEPT !.todo = {c \in Candidates : Claimable(IntentsFor(S)[c])}]
<1>1. \A u \in Tickets : status'[u] = IF u \in UNION S THEN "reserved" ELSE st[u]
  BY DEF Reserve, Mark
<1>2. loop \in TaskRecords
  BY DEF TaskRecords
<1>3. Continue(k, loop, IntentsFor(S), armed)
  BY DEF ProcessPendingMatches
<1> HIDE DEF loop
<1>4. Elsewhere(k) /\ task'[k].ending = {} /\ task'[k].pc \in {"idle", "init"}
  BY <1>2, <1>3, ContinueElsewhere
<1>5. \A t \in frozen : t \in Tickets
  BY DEF IInv, TypeOK
<1>6. \A t \in frozen : status'[t] = status[t] \/ status'[t] \in Active
  BY <1>1, <1>5 DEF Active
<1>7. \A t \in frozen : status[t] # "none" \/ status'[t] = "none"
  BY <1>1, <1>5
<1>. QED
  BY <1>4, <1>6, <1>7, SettlingFreeze

LEMMA SearchNowFreeze ==
  ASSUME IInv, FreezeInv, NEW k \in Handlers, \A t \in frozen' : ~Holds(k, t) \/ t \notin frozen,
         NEW S \in SUBSET Candidates,
         \A t \in UNION S : status[t] = "waiting",
         Reserve(S, status, events),
         ProcessPendingMatches(k, [Idle EXCEPT !.kind = "settle"], IntentsFor(S), alarm),
         UNCHANGED source, frozen' \subseteq frozen, detached \subseteq detached'
  PROVE  FreezeInv'
<1> DEFINE rec == [Idle EXCEPT !.kind = "settle"]
           loop == [rec EXCEPT !.todo = {c \in Candidates : Claimable(IntentsFor(S)[c])}]
<1>1. \A u \in Tickets : status'[u] = IF u \in UNION S THEN "reserved" ELSE status[u]
  BY DEF Reserve, Mark
<1>2. rec \in TaskRecords
  BY SettleRec
<1>3. loop \in TaskRecords
  <2> HIDE DEF rec
  <2>. QED
    BY <1>2 DEF TaskRecords
<1>4. Continue(k, loop, IntentsFor(S), alarm)
  BY DEF ProcessPendingMatches
<1> HIDE DEF loop
<1>5. Elsewhere(k) /\ task'[k].ending = {} /\ task'[k].pc \in {"idle", "init"}
  BY <1>3, <1>4, ContinueElsewhere
<1>6. \A t \in frozen' : t \in frozen /\ t \in Tickets
  BY DEF IInv, TypeOK
<1>7. \A t \in frozen' : Fate(k, t) /\ Origin(t)
  BY <1>1, <1>6 DEF Fate, Origin, Active
<1>. QED
  BY <1>5, <1>7, FreezeKept DEF GoodRec

LEMMA SearchesFreeze ==
  ASSUME IInv, FreezeInv, NEW k \in Handlers,
         SearchRpc(k) \/ \E c \in Candidates : ReserveCandidate(k, c)
  PROVE  FreezeInv'
<1>0. task[k] = Idle /\ UNCHANGED <<source, frozen, detached>>
  BY DEF SearchRpc, ReserveCandidate, external
<1>1. task[k].pc = "idle" /\ UNCHANGED <<source, frozen, detached>>
  BY <1>0 DEF Idle
<1>2. PICK S \in SUBSET Candidates :
        /\ \A t \in UNION S : status[t] = "waiting"
        /\ Reserve(S, status, events)
        /\ ProcessPendingMatches(k, [Idle EXCEPT !.kind = "settle"], IntentsFor(S), alarm)
  <2>1. CASE SearchRpc(k)
    BY <2>1, SearchesType DEF SearchRpc, SearchAndSettle
  <2>2. ASSUME NEW c \in Candidates, ReserveCandidate(k, c)
        PROVE  /\ {c} \in SUBSET Candidates /\ \A t \in UNION {c} : status[t] = "waiting"
               /\ Reserve({c}, status, events)
               /\ ProcessPendingMatches(k, [Idle EXCEPT !.kind = "settle"], IntentsFor({c}), alarm)
    BY <2>2 DEF ReserveCandidate
  <2>. QED
    BY <2>1, <2>2
<1>3. \A t \in frozen' : ~Holds(k, t)
  BY <1>1, HoldsNothing
<1>. QED
  BY <1>1, <1>2, <1>3, SearchNowFreeze

LEMMA CreateReplayFreeze ==
  ASSUME IInv, FreezeInv, NEW k \in Handlers, NEW r \in Requests, CreateReplay(k, r)
  PROVE  FreezeInv'
<1> DEFINE rec == [Idle EXCEPT !.kind = "settle", !.todo = {c \in Candidates : Claimable(intent[c])}]
<1>1. rec \in TaskRecords
  BY DEF Idle, TaskRecords
<1>2. /\ Continue(k, rec, intent, alarm) /\ UNCHANGED <<queue, frozen, detached>>
      /\ task[k].pc = "idle"
  BY DEF CreateReplay, ProcessPendingMatches, Idle, external
<1> HIDE DEF rec
<1>3. Elsewhere(k) /\ task'[k].ending = {} /\ task'[k].pc \in {"idle", "init"}
  BY <1>1, <1>2, ContinueElsewhere
<1>. QED
  BY <1>2, <1>3, HoldsNothing, QuietFreeze DEF GoodRec

\* The loop goes on after tickets have ended: none of them is frozen, or its
\* endQueueTicket() is under way without a handler.
LEMMA LoopFreeze ==
  ASSUME IInv, FreezeInv, NEW k \in Handlers, NEW rec \in TaskRecords, NEW int, NEW armed,
         Continue(k, rec, int, armed),
         \A t \in frozen' : ~Holds(k, t),
         \A t \in frozen : status'[t] = status[t] \/ (status[t] # "none" /\ t \in detached'),
         UNCHANGED source, frozen' \subseteq frozen, detached \subseteq detached'
  PROVE  FreezeInv'
<1>1. Elsewhere(k) /\ task'[k].ending = {} /\ task'[k].pc \in {"idle", "init"}
  BY ContinueElsewhere
<1>2. \A t \in frozen' : Fate(k, t) /\ Origin(t)
  BY DEF Fate, Origin
<1>. QED
  BY <1>1, <1>2, FreezeKept DEF GoodRec

LEMMA FailedAttemptFreeze ==
  ASSUME IInv, FreezeInv, NEW k \in Handlers, task[k].pc = "init",
         NEW retryable \in BOOLEAN, SettlementFailed(k, retryable), UNCHANGED frozen
  PROVE  FreezeInv'
<1> DEFINE c == task[k].cand
           i == intent[c]
           undone == {t \in c : status[t] = "reserved" /\ candidate[t] = c}
           closed == undone \cup {t \in c : status[t] = "cancelled"}
<1>1. task[k] \in TaskRecords /\ \A t \in frozen' : ~Holds(k, t)
  BY TaskFields, HoldsNothing
<1>2. frozen \subseteq Tickets
  BY DEF IInv, TypeOK
<1>3. ASSUME NEW int, UNCHANGED <<queue, detached>>, Continue(k, task[k], int, alarm)
      PROVE  FreezeInv'
  <2>1. UNCHANGED <<status, source, detached>>
    BY <1>3 DEF queue
  <2>. QED
    BY <1>1, <1>3, <2>1, LoopFreeze
<1>4. ASSUME NEW int,
             status' = Mark(status, undone, "cancelled"),
             detached' = detached \cup PartyTickets(closed),
             UNCHANGED source,
             Continue(k, task[k], int, alarm)
      PROVE  FreezeInv'
  <2>1. \A t \in Tickets : status'[t] = IF t \in undone THEN "cancelled" ELSE status[t]
    BY <1>4 DEF Mark
  <2>2. ASSUME NEW t \in frozen, t \in undone
        PROVE  status[t] # "none" /\ t \in detached'
    BY <1>4, <2>2, FrozenIsParty
  <2>3. \A t \in frozen : status'[t] = status[t] \/ (status[t] # "none" /\ t \in detached')
    BY <1>2, <2>1, <2>2
  <2>4. detached \subseteq detached'
    BY <1>4
  <2> HIDE DEF undone, closed
  <2>. QED
    BY <1>1, <1>4, <2>3, <2>4, LoopFreeze
<1>. QED
  BY <1>3, <1>4 DEF SettlementFailed

\* Applying a result to a pair: its frozen tickets are those of Parties.
LEMMA ApplyFreezes ==
  ASSUME IInv, FreezeInv, NEW c \in Candidates, NEW token,
         BothReserved(c), ApplyMatchResult(c, token)
  PROVE  \A t \in frozen : /\ t \in Tickets /\ source'[t] = source[t]
                           /\ \/ status'[t] = status[t]
                              \/ status[t] # "none" /\ t \in PartyTickets(c)
<1>1. \A t \in Tickets : status'[t] = IF t \in c THEN "matched" ELSE status[t]
  BY DEF ApplyMatchResult, Mark
<1>2. \A t \in c \cap frozen : status[t] # "none" /\ t \in PartyTickets(c)
  BY FrozenIsParty DEF BothReserved
<1>. QED
  BY <1>1, <1>2 DEF ApplyMatchResult, IInv, TypeOK

LEMMA AppliedFreeze ==
  ASSUME IInv, FreezeInv, NEW k \in Handlers, task[k].pc \in {"init", "verify"},
         NEW rec \in TaskRecords, NEW c \in Candidates, NEW token, NEW int, NEW armed,
         BothReserved(c), ApplyMatchResult(c, token), PartyTickets(c) = {},
         Continue(k, rec, int, armed), UNCHANGED <<detached, frozen>>
  PROVE  FreezeInv'
<1>1. \A t \in frozen : status'[t] = status[t]
  BY ApplyFreezes
<1>2. UNCHANGED source /\ \A t \in frozen' : ~Holds(k, t)
  BY HoldsNothing DEF ApplyMatchResult
<1>. QED
  BY <1>1, <1>2, LoopFreeze

LEMMA AwaitReleaseFreeze ==
  ASSUME IInv, FreezeInv, NEW k \in Handlers, task[k].pc \in {"init", "verify"},
         NEW c \in Candidates, NEW token,
         BothReserved(c), ApplyMatchResult(c, token),
         AwaitRelease(k, task[k], PartyTickets(c)), UNCHANGED <<detached, frozen>>
  PROVE  FreezeInv'
<1>1. PICK rec : rec = [task[k] EXCEPT !.pc = "matchRelease", !.ending = PartyTickets(c)]
  OBVIOUS
<1>2. rec.pc = "matchRelease" /\ rec.ending = PartyTickets(c)
  BY <1>1, TaskFields DEF TaskRecords
<1>3. task' = [task EXCEPT ![k] = rec]
  BY <1>1 DEF AwaitRelease, Begin
<1>4. Elsewhere(k) /\ task'[k] = rec
  BY <1>3, BeginElsewhere
<1>5. \A t \in PartyTickets(c) : Holds(k, t)'
  BY <1>2, <1>4 DEF Holds
<1>6. \A t \in frozen' : Fate(k, t) /\ Origin(t)
  BY <1>5, ApplyFreezes, HoldsNothing DEF Fate, Origin
<1>. QED
  BY <1>2, <1>4, <1>6, FreezeKept DEF GoodRec

LEMMA RoomAnswersFreeze ==
  ASSUME IInv, FreezeInv, NEW k \in Handlers, RoomInitialized(k) \/ RoomFailed(k)
  PROVE  FreezeInv'
<1>1. task[k].pc = "init" /\ UNCHANGED frozen /\ task[k] \in TaskRecords
  BY TaskFields DEF RoomInitialized, RoomFailed
<1>2. PICK c \in Candidates : c = task[k].cand
  BY <1>1, InitTask
<1>3. PICK token : token = task[k].token
  OBVIOUS
<1>4. CASE \E retryable \in BOOLEAN : SettlementFailed(k, retryable)
  BY <1>1, <1>4, FailedAttemptFreeze
<1>5. CASE /\ BothReserved(c) /\ ApplyMatchResult(c, token) /\ UNCHANGED detached
           /\ PartyTickets(c) = {}
           /\ Continue(k, task[k], Complete(c, token), HasDeadline(status', Complete(c, token)))
  BY <1>1, <1>5, AppliedFreeze
<1>6. CASE /\ BothReserved(c) /\ ApplyMatchResult(c, token) /\ UNCHANGED detached
           /\ AwaitRelease(k, task[k], PartyTickets(c))
  BY <1>1, <1>6, AwaitReleaseFreeze
<1>. QED
  BY <1>2, <1>3, <1>4, <1>5, <1>6 DEF RoomInitialized, RoomFailed

LEMMA MatchReleasedFreeze ==
  ASSUME "party" \notin Faults, IInv, FreezeInv, NEW k \in Handlers, MatchReleased(k)
  PROVE  FreezeInv'
<1>0. /\ task[k].pc = "matchRelease" /\ UNCHANGED <<queue, detached>>
      /\ task[k] \in TaskRecords
  BY TaskFields DEF MatchReleased
<1>1. PICK t \in task[k].ending :
        /\ frozen' = frozen \ {t}
        /\ IF task[k].ending = {t}
           THEN \E int, armed : Continue(k, [task[k] EXCEPT !.ending = {}], int, armed)
           ELSE Begin(k, [task[k] EXCEPT !.ending = @ \ {t}])
  BY DEF MatchReleased, EndQueueTicket
<1>2. CASE task[k].ending # {t}
  <2>1. PICK rec : rec = [task[k] EXCEPT !.ending = @ \ {t}]
    OBVIOUS
  <2>2. rec.pc = "matchRelease" /\ rec.ending = task[k].ending \ {t}
    BY <1>0, <2>1 DEF TaskRecords
  <2>3. task' = [task EXCEPT ![k] = rec]
    BY <1>1, <1>2, <2>1 DEF Begin
  <2>4. Elsewhere(k) /\ task'[k] = rec
    BY <2>3, BeginElsewhere
  <2>. QED
    BY <1>0, <1>1, <2>2, <2>4, QuietFreeze DEF GoodRec, Holds
<1>3. CASE task[k].ending = {t}
  <2>1. PICK rec : rec = [task[k] EXCEPT !.ending = {}]
    OBVIOUS
  <2>2. rec \in TaskRecords
    BY <1>0, <2>1 DEF TaskRecords
  <2>3. PICK int, armed : Continue(k, rec, int, armed)
    BY <1>1, <1>3, <2>1
  <2>4. \A u \in frozen' : ~Holds(k, u)
    BY <1>0, <1>1, <1>3 DEF Holds
  <2>5. Elsewhere(k) /\ task'[k].ending = {} /\ task'[k].pc \in {"idle", "init"}
    BY <2>2, <2>3, ContinueElsewhere
  <2>. QED
    BY <1>0, <1>1, <2>4, <2>5, QuietFreeze DEF GoodRec
<1>. QED
  BY <1>2, <1>3

\* Handler k, with the record rec, thaws the Parties of T, or ends if there are none.
Thaws(k, T, rec) ==
    /\ task' = [task EXCEPT ![k] = rec]
    /\ rec.ending = PartyTickets(T)
    /\ rec.pc = "closeRelease" \/ (rec.pc = "idle" /\ rec.ending = {})

\* Closing queued tickets, and what the handler does next.
LEMMA CloseFreeze ==
  ASSUME IInv, FreezeInv, NEW k \in Handlers, task[k] = Idle,
         NEW T \in SUBSET Tickets, \A t \in T : status[t] \in Queued,
         NEW s \in Ended, status' = Mark(status, T, s), UNCHANGED <<source, detached, frozen>>,
         NEW rec, Thaws(k, T, rec)
  PROVE  FreezeInv'
<1>0. /\ task' = [task EXCEPT ![k] = rec]
      /\ rec.ending = PartyTickets(T)
      /\ rec.pc = "closeRelease" \/ (rec.pc = "idle" /\ rec.ending = {})
  BY DEF Thaws
<1>1. \A t \in Tickets : status'[t] = IF t \in T THEN s ELSE status[t]
  BY DEF Mark
<1>2. task[k].pc = "idle" /\ \A t \in T : status[t] # "none"
  BY DEF Idle, Queued
<1>3. Elsewhere(k) /\ task'[k] = rec
  BY <1>0, BeginElsewhere
<1>4. \A t \in T \cap frozen : Holds(k, t)'
  BY <1>0, <1>2, <1>3, FrozenIsParty DEF Holds
<1>5. \A t \in frozen' : t \in Tickets /\ Fate(k, t) /\ Origin(t)
  BY <1>1, <1>2, <1>4, HoldsNothing DEF Fate, Origin, IInv, TypeOK
<1>. QED
  BY <1>0, <1>3, <1>5, FreezeKept DEF GoodRec

LEMMA ClosesFreeze ==
  ASSUME IInv, FreezeInv, NEW k \in Handlers,
         ExpireDueTickets(k) \/ \E t \in Tickets : CancelTicket(k, t)
  PROVE  FreezeInv'
<1>1. PICK T \in SUBSET Tickets, s \in Ended :
        /\ \A t \in T : status[t] \in Queued
        /\ status' = Mark(status, T, s) /\ task[k] = Idle
        /\ UNCHANGED <<source, detached, frozen>>
        /\ \/ task' = [task EXCEPT ![k] = Idle] /\ PartyTickets(T) = {}
           \/ task' = [task EXCEPT ![k] = [Idle EXCEPT !.kind = "cancel", !.pc = "closeRelease",
                                                       !.ending = PartyTickets(T)]]
  <2>1. CASE ExpireDueTickets(k)
    <3>1. Overdue \in SUBSET Tickets /\ \A t \in Overdue : status[t] \in Queued
      BY DEF Overdue, IInv, TypeOK
    <3>. QED
      BY <2>1, <3>1 DEF ExpireDueTickets, Close, Begin, Return, external, Ended
  <2>2. ASSUME NEW t \in Tickets, CancelTicket(k, t)
        PROVE  /\ {t} \in SUBSET Tickets /\ \A u \in {t} : status[u] \in Queued
               /\ status' = Mark(status, {t}, "cancelled") /\ task[k] = Idle
               /\ UNCHANGED <<source, detached, frozen>>
               /\ \/ task' = [task EXCEPT ![k] = Idle] /\ PartyTickets({t}) = {}
                  \/ task' = [task EXCEPT ![k] = [Idle EXCEPT !.kind = "cancel",
                                                              !.pc = "closeRelease",
                                                              !.ending = PartyTickets({t})]]
    <3>1. PartyTickets({t}) = IF source[t] \in PartyRequests THEN {t} ELSE {}
      BY DEF PartyTickets
    <3>2. UNCHANGED <<source, detached, frozen>> /\ status' = Mark(status, {t}, "cancelled")
      BY <2>2 DEF CancelTicket, Close, external
    <3>. QED
      BY <2>2, <3>1, <3>2 DEF CancelTicket, Begin, Return
  <2>. QED
    BY <2>1, <2>2 DEF Ended
<1>2. CASE task' = [task EXCEPT ![k] = Idle] /\ PartyTickets(T) = {}
  <2>1. Thaws(k, T, Idle)
    BY <1>2 DEF Thaws, Idle
  <2>. QED
    BY <1>1, <2>1, CloseFreeze
<1>3. CASE task' = [task EXCEPT ![k] = [Idle EXCEPT !.kind = "cancel", !.pc = "closeRelease",
                                                    !.ending = PartyTickets(T)]]
  <2>1. PICK rec : rec = [Idle EXCEPT !.kind = "cancel", !.pc = "closeRelease",
                                      !.ending = PartyTickets(T)]
    OBVIOUS
  <2>2. rec.pc = "closeRelease" /\ rec.ending = PartyTickets(T)
    BY <2>1 DEF Idle
  <2>3. Thaws(k, T, rec)
    BY <1>3, <2>1, <2>2 DEF Thaws
  <2> HIDE <2>1
  <2>. QED
    BY <1>1, <2>3, CloseFreeze
<1>. QED
  BY <1>1, <1>2, <1>3

LEMMA AlarmFreeze ==
  ASSUME IInv, FreezeInv, Alarm
  PROVE  FreezeInv'
<1>1. /\ Overdue \in SUBSET Tickets /\ AlarmTask \in Handlers
      /\ (\A t \in Overdue : status[t] \in Queued) /\ task[AlarmTask] = Idle
      /\ UNCHANGED <<source, detached, frozen>> /\ "expired" \in Ended
  BY DEF Alarm, Overdue, Ended, Handlers, external, IInv, TypeOK
<1>2. CASE /\ status' = Mark(status, Overdue, "expired")
           /\ task' = [task EXCEPT ![AlarmTask] =
                            [Idle EXCEPT !.kind = "alarm", !.pc = "closeRelease",
                                         !.ending = PartyTickets(Overdue)]]
  <2>1. PICK rec : rec = [Idle EXCEPT !.kind = "alarm", !.pc = "closeRelease",
                                      !.ending = PartyTickets(Overdue)]
    OBVIOUS
  <2>2. rec.pc = "closeRelease" /\ rec.ending = PartyTickets(Overdue)
    BY <2>1 DEF Idle
  <2>3. Thaws(AlarmTask, Overdue, rec)
    BY <1>2, <2>1, <2>2 DEF Thaws
  <2> HIDE <2>1
  <2>. QED
    BY <1>1, <1>2, <2>3, CloseFreeze
<1>3. CASE /\ PartyTickets(Overdue) = {}
           /\ SearchAndSettle(AlarmTask, Mark(status, Overdue, "expired"),
                              Log(events, Overdue, "expired"), FALSE)
  <2>1. PICK st : st = Mark(status, Overdue, "expired")
    OBVIOUS
  <2>2. \A t \in Tickets : st[t] = IF t \in Overdue THEN "expired" ELSE status[t]
    BY <2>1 DEF Mark
  <2>3. PICK rec : rec = [Idle EXCEPT !.kind = "settle"]
    OBVIOUS
  <2>4. rec \in TaskRecords
    BY <2>3, SettleRec
  <2>5. PICK S \in Searches(st) : \E ev, armed :
          Reserve(S, st, ev) /\ ProcessPendingMatches(AlarmTask, rec, IntentsFor(S), armed)
    BY <1>3, <2>1, <2>3 DEF SearchAndSettle
  <2>6. S \in SUBSET Candidates /\ \A t \in UNION S : st[t] = "waiting"
    BY SearchesType
  <2>7. Overdue \cap frozen = {}
    BY <1>1, <1>3, FrozenIsParty DEF Queued
  <2>8. \A t \in frozen : ~Holds(AlarmTask, t)
    BY <1>1, HoldsNothing DEF Idle
  <2> HIDE <2>1, <2>3
  <2>. QED
    BY <1>1, <2>2, <2>4, <2>5, <2>6, <2>7, <2>8, SearchFreeze
<1>. QED
  BY <1>2, <1>3 DEF Alarm

LEMMA CloseReleasedFreeze ==
  ASSUME "party" \notin Faults, IInv, FreezeInv, NEW k \in Handlers, CloseReleased(k)
  PROVE  FreezeInv'
<1>0. task[k].pc = "closeRelease" /\ UNCHANGED detached /\ task[k] \in TaskRecords
  BY TaskFields DEF CloseReleased
<1>1. PICK t \in task[k].ending :
        /\ frozen' = frozen \ {t}
        /\ \/ /\ Begin(k, [task[k] EXCEPT !.ending = @ \ {t}])
              /\ UNCHANGED queue
           \/ task[k].ending = {t} /\ UNCHANGED queue /\ Return(k, Idle, intent)
           \/ /\ task[k].ending = {t}
              /\ SearchAndSettle(k, status, events, alarm)
              /\ UNCHANGED <<source, result, queuePlayer, overdue>>
  BY DEF CloseReleased, EndQueueTicket
<1>2. CASE Begin(k, [task[k] EXCEPT !.ending = @ \ {t}]) /\ UNCHANGED queue
  <2>1. PICK rec : rec = [task[k] EXCEPT !.ending = @ \ {t}]
    OBVIOUS
  <2>2. rec.pc = "closeRelease" /\ rec.ending = task[k].ending \ {t}
    BY <1>0, <2>1 DEF TaskRecords
  <2>3. task' = [task EXCEPT ![k] = rec]
    BY <1>2, <2>1 DEF Begin
  <2>4. Elsewhere(k) /\ task'[k] = rec
    BY <2>3, BeginElsewhere
  <2>. QED
    BY <1>0, <1>1, <1>2, <2>2, <2>4, QuietFreeze DEF GoodRec, Holds
<1>3. CASE task[k].ending = {t} /\ UNCHANGED queue /\ Return(k, Idle, intent)
  <2>1. task' = [task EXCEPT ![k] = Idle]
    BY <1>3 DEF Return
  <2>2. Elsewhere(k) /\ task'[k] = Idle
    BY <2>1, BeginElsewhere
  <2>. QED
    BY <1>0, <1>1, <1>3, <2>2, QuietFreeze DEF GoodRec, Idle, Holds
<1>4. CASE /\ task[k].ending = {t}
           /\ SearchAndSettle(k, status, events, alarm)
           /\ UNCHANGED <<source, result, queuePlayer, overdue>>
  <2>1. PICK S \in Searches(status) :
          /\ Reserve(S, status, events)
          /\ ProcessPendingMatches(k, [Idle EXCEPT !.kind = "settle"], IntentsFor(S), alarm)
    BY <1>4 DEF SearchAndSettle
  <2>2. S \in SUBSET Candidates /\ \A u \in UNION S : status[u] = "waiting"
    BY SearchesType
  <2>3. \A u \in frozen' : ~Holds(k, u)
    BY <1>0, <1>1, <1>4 DEF Holds
  <2>. QED
    BY <1>0, <1>1, <1>4, <2>1, <2>2, <2>3, SearchNowFreeze
<1>. QED
  BY <1>1, <1>2, <1>3, <1>4

LEMMA MatchCandidateFreeze ==
  ASSUME IInv, FreezeInv, NEW k \in Handlers, NEW c \in Candidates, MatchCandidate(k, c)
  PROVE  FreezeInv'
<1>1. UNCHANGED <<queue, detached, frozen>> /\ task[k] = Idle
  BY DEF MatchCandidate, external
<1>2. PICK rec : /\ rec.pc \in {"idle", "verify"} /\ rec.ending = {}
                 /\ task' = [task EXCEPT ![k] = rec]
  <2>1. CASE Begin(k, [Idle EXCEPT !.kind = "match", !.pc = "verify", !.cand = c])
    <3>1. PICK rec : rec = [Idle EXCEPT !.kind = "match", !.pc = "verify", !.cand = c]
      OBVIOUS
    <3>2. rec.pc = "verify" /\ rec.ending = {}
      BY <3>1 DEF Idle
    <3>. QED
      BY <2>1, <3>1, <3>2 DEF Begin
  <2>2. CASE UNCHANGED task
    <3>1. task' = [task EXCEPT ![k] = Idle]
      BY <1>1, <2>2 DEF IInv, TypeOK
    <3>2. Idle.pc = "idle" /\ Idle.ending = {}
      BY DEF Idle
    <3>. QED
      BY <3>1, <3>2
  <2>. QED
    BY <2>1, <2>2 DEF MatchCandidate
<1>3. Elsewhere(k) /\ task'[k] = rec
  BY <1>2, BeginElsewhere
<1>4. task[k].pc = "idle"
  BY <1>1 DEF Idle
<1>. QED
  BY <1>1, <1>2, <1>3, <1>4, HoldsNothing, QuietFreeze DEF GoodRec

LEMMA RoomVerifiedFreeze ==
  ASSUME IInv, FreezeInv, NEW k \in Handlers, RoomVerified(k)
  PROVE  FreezeInv'
<1>1. PICK c \in Candidates : c = task[k].cand
  BY InitTask DEF RoomVerified
<1>2. task[k].pc = "verify" /\ UNCHANGED <<detached, frozen>>
  BY DEF RoomVerified, external
<1>3. CASE /\ BothReserved(c) /\ ApplyMatchResult(c, 0) /\ PartyTickets(c) = {}
           /\ Return(k, Idle, Complete(c, 0))
  <2>1. PICK rec : rec = Idle
    OBVIOUS
  <2>2. rec \in TaskRecords /\ rec.todo = {}
    BY <2>1, IdleType DEF Idle
  <2>3. Continue(k, rec, Complete(c, 0), TRUE)
    BY <1>3, <2>1, <2>2 DEF Continue
  <2> HIDE <2>1
  <2>. QED
    BY <1>2, <1>3, <2>2, <2>3, AppliedFreeze
<1>4. CASE /\ BothReserved(c) /\ ApplyMatchResult(c, 0)
           /\ AwaitRelease(k, task[k], PartyTickets(c))
  BY <1>2, <1>4, AwaitReleaseFreeze
<1>5. CASE task' = [task EXCEPT ![k] = Idle] /\ UNCHANGED queue
  <2>1. Elsewhere(k) /\ task'[k] = Idle
    BY <1>5, BeginElsewhere
  <2>. QED
    BY <1>2, <1>5, <2>1, HoldsNothing, QuietFreeze DEF GoodRec, Idle
<1>. QED
  BY <1>1, <1>3, <1>4, <1>5 DEF RoomVerified, Done, Begin

LEMMA TimeFreeze ==
  ASSUME "party" \notin Faults, IInv, FreezeInv,
         \/ \E t \in Tickets : DetachedReleased(t) \/ TicketDue(t)
         \/ \E c \in Candidates : IntentDue(c)
         \/ UNCHANGED vars
  PROVE  FreezeInv'
<1>1. /\ UNCHANGED <<status, source, task>> /\ frozen' \subseteq frozen
      /\ \A t \in frozen' : t \in detached => t \in detached'
  BY DEF DetachedReleased, TicketDue, IntentDue, EndQueueTicket, vars, queue, external
<1>2. FreezeOwned'
  BY <1>1 DEF FreezeInv, FreezeOwned, Holds
<1>3. PartiesOnly'
  BY <1>1 DEF FreezeInv, PartiesOnly
<1>. QED
  BY <1>2, <1>3 DEF FreezeInv

LEMMA NextFreeze ==
  ASSUME "party" \notin Faults, "expireTicket" \notin Operator, MaxCrashes = 0,
         IInv, FreezeInv, [Next]_vars
  PROVE  FreezeInv'
<1>1. ASSUME NEW k \in Tasks, Call(k)
      PROVE  FreezeInv'
  <2>1. k \in Handlers
    BY DEF Handlers
  <2>2. CASE \E r \in Requests : CreateReplay(k, r)
    BY <2>1, <2>2, CreateReplayFreeze
  <2>3. CASE \E r \in Requests, t \in Tickets : CreateSolo(k, r, t)
    BY <2>1, <2>3, CreateFreeze
  <2>4. CASE \E r \in Requests, t \in Tickets : CreateParty(k, r, t)
    BY <2>1, <2>4, CreatePartyFreeze
  <2>5. CASE ExpireDueTickets(k) \/ \E t \in Tickets : CancelTicket(k, t)
    BY <2>1, <2>5, ClosesFreeze
  <2>6. CASE SearchRpc(k) \/ \E c \in Candidates : ReserveCandidate(k, c)
    BY <2>1, <2>6, SearchesFreeze
  <2>7. CASE \E c \in Candidates : MatchCandidate(k, c)
    BY <2>1, <2>7, MatchCandidateFreeze
  <2>. QED
    BY <1>1, <2>2, <2>3, <2>4, <2>5, <2>6, <2>7 DEF Call
<1>2. ASSUME NEW k \in Handlers, Answer(k)
      PROVE  FreezeInv'
  BY <1>2, PartyAnswersFreeze, CreateFreeze, RoomAnswersFreeze, MatchReleasedFreeze,
     CloseReleasedFreeze, RoomVerifiedFreeze DEF Answer
<1>3. CASE Alarm
  BY <1>3, AlarmFreeze
<1>4. ASSUME NEW t \in Tickets, ExpireTicket(t)
      PROVE  FreezeInv'
  BY <1>4 DEF ExpireTicket
<1>5. CASE \/ \E t \in Tickets : DetachedReleased(t) \/ TicketDue(t)
           \/ \E c \in Candidates : IntentDue(c)
           \/ UNCHANGED vars
  BY <1>5, TimeFreeze
<1>6. CASE Crash
  BY <1>6 DEF Crash, IInv, TypeOK
<1>. QED
  BY <1>1, <1>2, <1>3, <1>4, <1>5, <1>6 DEF Next

\* As long as no call to a Party fails, the object does not restart and
\* expireTicket() is not called, a Party is frozen only for a ticket that is in
\* the queue or that a handler is creating or thawing: whatever else fails and
\* however handlers interleave, no freeze is forgotten.
THEOREM FreezesHaveCause ==
  ASSUME "party" \notin Faults, "expireTicket" \notin Operator, MaxCrashes = 0
  PROVE  Spec => []FreezeHasCause
<1>1. Init => FreezeInv
  BY DEF Init, FreezeInv, FreezeOwned, PartiesOnly, Idle
<1>2. IInv /\ FreezeInv /\ [Next]_vars => FreezeInv'
  BY NextFreeze
<1>3. FreezeInv => FreezeHasCause
  BY DEF FreezeInv, FreezeOwned, FreezeHasCause, Holds
<1>. QED
  BY <1>1, <1>2, <1>3, Invariance, PTL DEF Spec
-----------------------------------------------------------------------------
(* A requestId stands for one ticket (ClaimsInv), as long as no restart    *)
(* comes between the INSERT of its ticket and the row of                   *)
(* processed_commands.                                                     *)

EvQueued(ev, t) == \E i \in DOMAIN ev[t] : ev[t][i] = "waiting"

\* Claims(r, t), of any processed_commands p and any handlers h.
Held(p, h, r, t) ==
    \/ p[r] = t
    \/ \E k \in Handlers : h[k].kind = "create" /\ h[k].request = r /\ h[k].ticket = t

\* What ClaimsInv says of a handler whose record is rec.
ClaimRec(rec, ev) ==
    /\ rec.pc = "undo" => ~EvQueued(ev, rec.ticket)
    /\ rec.pc \in {"idle", "verify", "closeRelease"} => rec.kind # "create"

LEMMA ClaimsAre ==
  /\ ClaimsInv <=>
       /\ \A r \in Requests : \A t, u \in Tickets :
             Held(processed, task, r, t) /\ Held(processed, task, r, u) => t = u
       /\ \A t \in Tickets : EvQueued(events, t) => Held(processed, task, source[t], t)
       /\ \A t \in Tickets : status[t] = "none" => ~EvQueued(events, t)
       /\ \A k \in Handlers : ClaimRec(task[k], events)
  /\ ClaimsInv' <=>
       /\ \A r \in Requests : \A t, u \in Tickets :
             Held(processed', task', r, t) /\ Held(processed', task', r, u) => t = u
       /\ \A t \in Tickets : EvQueued(events', t) => Held(processed', task', source'[t], t)
       /\ \A t \in Tickets : status'[t] = "none" => ~EvQueued(events', t)
       /\ \A k \in Handlers : ClaimRec(task'[k], events')
<1>1. /\ \A t : WasQueued(t) <=> EvQueued(events, t)
      /\ \A t : WasQueued(t)' <=> EvQueued(events', t)
  BY DEF WasQueued, EvQueued
<1>2. /\ \A r, t : Claims(r, t) <=> Held(processed, task, r, t)
      /\ \A r, t : Claims(r, t)' <=> Held(processed', task', r, t)
  BY DEF Claims, Held
<1>. QED
  BY DEF ClaimsInv, ClaimRec, Claims, Held, WasQueued, EvQueued

\* No announcement but that of createTicket() puts a ticket in the queue.
LEMMA LogQueues ==
  ASSUME NEW ev \in [Tickets -> Seq(Statuses)], NEW T, NEW s \in Statuses, s # "waiting",
         NEW t \in Tickets, EvQueued(Log(ev, T, s), t)
  PROVE  EvQueued(ev, t)
<1>1. ev[t] \in Seq(Statuses)
  OBVIOUS
<1>2. CASE t \notin T
  BY <1>2 DEF EvQueued, Log
<1>3. CASE t \in T
  <2>1. Log(ev, T, s)[t] = Append(ev[t], s)
    BY <1>3 DEF Log
  <2>2. PICK i \in DOMAIN Append(ev[t], s) : Append(ev[t], s)[i] = "waiting"
    BY <2>1 DEF EvQueued
  <2>3. i \in DOMAIN ev[t] /\ ev[t][i] = "waiting"
    BY <1>1, <2>2
  <2>. QED
    BY <2>3 DEF EvQueued
<1>. QED
  BY <1>2, <1>3

\* No request loses its claim to a ticket that is queued, and a request that
\* had no ticket gets one at most.
ClaimTurn ==
    /\ \A r \in Requests, t \in Tickets :
          Held(processed, task, r, t) => Held(processed', task', r, t) \/ ~EvQueued(events', t)
    /\ \A r \in Requests :
          \/ \A t \in Tickets : Held(processed', task', r, t) => Held(processed, task, r, t)
          \/ \E new \in Tickets : \A t \in Tickets :
                /\ ~Held(processed, task, r, t)
                /\ Held(processed', task', r, t) => t = new

\* A ticket that enters the queue in a step of k is k's, and its request's.
EnterTurn(k) ==
    \A t \in Tickets : EvQueued(events', t) =>
        \/ EvQueued(events, t)
        \/ /\ status'[t] # "none" /\ Held(processed', task', source'[t], t)
           /\ \A j \in Handlers \ {k} : task[j].ticket # t

LEMMA ClaimsKept ==
  ASSUME IInv, TicketShape, ClaimsInv, NEW k \in Handlers,
         Elsewhere(k), ClaimTurn, EnterTurn(k), ClaimRec(task'[k], events')
  PROVE  ClaimsInv'
<1>1. ASSUME NEW r \in Requests, NEW t \in Tickets, NEW u \in Tickets,
             Held(processed', task', r, t), Held(processed', task', r, u)
      PROVE  t = u
  BY <1>1, ClaimsAre DEF ClaimTurn
<1>2. ASSUME NEW t \in Tickets
      PROVE  status[t] # "none" => status'[t] # "none" /\ source'[t] = source[t]
  BY CandidateType DEF IInv, TypeOK, TicketShape, QueueTurn, Same, Enters, Closes, Reserves,
     MatchSettles, CloseSettles, Settles, BothReserved, Queued
<1>3. ASSUME NEW t \in Tickets, EvQueued(events', t)
      PROVE  Held(processed', task', source'[t], t) /\ status'[t] # "none"
  <2>1. CASE EvQueued(events, t)
    <3>1. status[t] # "none" /\ Held(processed, task, source[t], t)
      BY <2>1, ClaimsAre
    <3>2. source[t] \in Requests /\ source'[t] = source[t] /\ status'[t] # "none"
      BY <1>2, <3>1 DEF IInv, SourceOK
    <3>. QED
      BY <1>3, <3>1, <3>2 DEF ClaimTurn
  <2>. QED
    BY <1>3, <2>1 DEF EnterTurn
<1>4. ASSUME NEW j \in Handlers \ {k}
      PROVE  ClaimRec(task'[j], events')
  <2>0. ClaimRec(task[j], events)
    BY ClaimsAre
  <2>1. task'[j].pc = task[j].pc /\ task'[j].kind = task[j].kind /\ task'[j].ticket = task[j].ticket
    BY DEF Elsewhere, SameTask
  <2>2. ASSUME task[j].pc = "undo"
        PROVE  ~EvQueued(events', task[j].ticket)
    <3>1. task[j].ticket \in Tickets
      BY <2>2, TaskFields DEF TaskOK
    <3>. QED
      BY <2>0, <2>2, <3>1 DEF EnterTurn, ClaimRec
  <2>. QED
    BY <2>0, <2>1, <2>2 DEF ClaimRec
<1>. QED
  BY <1>1, <1>3, <1>4, ClaimsAre
-----------------------------------------------------------------------------
(* The claims after a step of handler k.                                   *)

SameId(k, rec) ==
    /\ rec.kind = "create" <=> task[k].kind = "create"
    /\ rec.kind = "create" => rec.request = task[k].request /\ rec.ticket = task[k].ticket

NothingEnters == \A t \in Tickets : EvQueued(events', t) => EvQueued(events, t)

\* The request of a handler that creates is not processed for another ticket.
LEMMA Unprocessed ==
  ASSUME IInv, ClaimsInv, NEW k \in Handlers, task[k].kind = "create"
  PROVE  /\ task[k].request \in Requests /\ task[k].ticket \in Tickets
         /\ processed[task[k].request] \in {None, task[k].ticket}
<1>1. task[k].request \in Requests /\ task[k].ticket \in Tickets
  BY TaskFields DEF TaskOK
<1>2. processed[task[k].request] \in Tickets \cup {None}
  BY <1>1 DEF IInv, TypeOK
<1>3. Held(processed, task, task[k].request, task[k].ticket)
  BY DEF Held
<1>4. ASSUME processed[task[k].request] \in Tickets
      PROVE  processed[task[k].request] = task[k].ticket
  <2>1. Held(processed, task, task[k].request, processed[task[k].request])
    BY DEF Held
  <2>. QED
    BY <1>1, <1>3, <1>4, <2>1, ClaimsAre
<1>. QED
  BY <1>1, <1>2, <1>4

\* The loop of processPendingMatches() keeps the claims it starts with: the
\* claim of a handler that returns is a row of processed_commands.
LEMMA LoopClaims ==
  ASSUME IInv, NEW k \in Handlers, NEW rec \in TaskRecords, NEW int, NEW armed,
         rec.kind = "create" => /\ rec.request \in Requests /\ rec.ticket \in Tickets
                                /\ processed[rec.request] \in {None, rec.ticket},
         Continue(k, rec, int, armed)
  PROVE  /\ \A r \in Requests, t \in Tickets :
               Held(processed', task', r, t) <=>
                   \/ processed[r] = t
                   \/ \E j \in Handlers \ {k} : /\ task[j].kind = "create"
                                               /\ task[j].request = r /\ task[j].ticket = t
                   \/ rec.kind = "create" /\ rec.request = r /\ rec.ticket = t
         /\ Elsewhere(k)
         /\ ClaimRec(task'[k], events')
<1>0. /\ Elsewhere(k) /\ processed \in [Requests -> Tickets \cup {None}]
      /\ None \notin Tickets
  BY ContinueElsewhere, PoolAssumption DEF IInv, TypeOK
<1>1. CASE Return(k, rec, int)
  <2>1. /\ task'[k] = Idle
        /\ processed' = IF rec.kind = "create"
                        THEN [processed EXCEPT ![rec.request] = rec.ticket]
                        ELSE processed
    BY <1>1 DEF Return, IInv, TypeOK
  <2>2. task'[k].kind # "create" /\ ClaimRec(task'[k], events')
    BY <2>1 DEF Idle, ClaimRec
  <2>3. ASSUME NEW r \in Requests, NEW t \in Tickets
        PROVE  processed'[r] = t <=> \/ processed[r] = t
                                     \/ rec.kind = "create" /\ rec.request = r /\ rec.ticket = t
    BY <1>0, <2>1
  <2>. QED
    BY <1>0, <2>2, <2>3 DEF Held, Elsewhere, SameTask
<1>2. CASE ~Return(k, rec, int)
  <2>1. PICK c \in rec.todo : ClaimMatchIntent(k, rec, int, c)
    BY <1>2 DEF Continue
  <2>2. PICK kept \in SUBSET {j \in Handlers \ {k} : c \in task[j].todo} :
          task' = [j \in Handlers |->
                    IF j = k
                    THEN [rec EXCEPT !.pc = "init", !.cand = c, !.todo = @ \ {c},
                                     !.token = int[c].attempts + 1, !.ending = {}]
                    ELSE IF j \in kept THEN task[j]
                    ELSE [task[j] EXCEPT !.todo = @ \ {c}]]
    BY <2>1 DEF ClaimMatchIntent
  <2>3. /\ task'[k].pc = "init" /\ task'[k].kind = rec.kind
        /\ task'[k].request = rec.request /\ task'[k].ticket = rec.ticket
    BY <2>2 DEF TaskRecords
  <2>4. processed' = processed
    BY <2>1 DEF ClaimMatchIntent
  <2>5. ClaimRec(task'[k], events')
    BY <2>3 DEF ClaimRec
  <2>. QED
    BY <1>0, <2>3, <2>4, <2>5 DEF Held, Elsewhere, SameTask
<1>. QED
  BY <1>1, <1>2

\* A loop of a handler that keeps what it creates.
LEMMA LoopKeepsClaims ==
  ASSUME IInv, TicketShape, ClaimsInv, NEW k \in Handlers,
         NEW rec \in TaskRecords, NEW int, NEW armed,
         SameId(k, rec), Continue(k, rec, int, armed), NothingEnters
  PROVE  ClaimsInv'
<1>1. rec.kind = "create" => /\ rec.request \in Requests /\ rec.ticket \in Tickets
                             /\ processed[rec.request] \in {None, rec.ticket}
  BY Unprocessed DEF SameId
<1>2. /\ \A r \in Requests, t \in Tickets :
               Held(processed', task', r, t) <=>
                   \/ processed[r] = t
                   \/ \E j \in Handlers \ {k} : /\ task[j].kind = "create"
                                               /\ task[j].request = r /\ task[j].ticket = t
                   \/ rec.kind = "create" /\ rec.request = r /\ rec.ticket = t
      /\ Elsewhere(k) /\ ClaimRec(task'[k], events')
  BY <1>1, LoopClaims
<1>3. \A r \in Requests, t \in Tickets :
          Held(processed', task', r, t) <=> Held(processed, task, r, t)
  BY <1>2 DEF Held, SameId
<1>. QED
  BY <1>2, <1>3, ClaimsKept DEF ClaimTurn, EnterTurn, NothingEnters

\* A handler that goes on to its next call with what it creates.
LEMMA CallKeepsClaims ==
  ASSUME IInv, TicketShape, ClaimsInv, NEW k \in Handlers, NEW rec,
         SameId(k, rec), task' = [task EXCEPT ![k] = rec], processed' = processed,
         ClaimRec(rec, events'), NothingEnters
  PROVE  ClaimsInv'
<1>1. Elsewhere(k) /\ task'[k] = rec
  BY BeginElsewhere
<1>2. \A r \in Requests, t \in Tickets :
          Held(processed', task', r, t) <=> Held(processed, task, r, t)
  BY <1>1 DEF Held, SameId, Elsewhere, SameTask
<1>. QED
  BY <1>1, <1>2, ClaimsKept DEF ClaimTurn, EnterTurn, NothingEnters

\* A handler that gives up what it creates, which has never been queued.
LEMMA DropKeepsClaims ==
  ASSUME IInv, TicketShape, ClaimsInv, NEW k \in Handlers,
         task[k].kind = "create" => ~EvQueued(events, task[k].ticket),
         task' = [task EXCEPT ![k] = Idle], processed' = processed, NothingEnters
  PROVE  ClaimsInv'
<1>1. Elsewhere(k) /\ task'[k] = Idle
  BY BeginElsewhere
<1>2. task'[k].kind # "create" /\ ClaimRec(task'[k], events')
  BY <1>1 DEF Idle, ClaimRec
<1>3. \A r \in Requests, t \in Tickets :
        /\ Held(processed', task', r, t) => Held(processed, task, r, t)
        /\ Held(processed, task, r, t) =>
              \/ Held(processed', task', r, t)
              \/ task[k].kind = "create" /\ task[k].ticket = t
  BY <1>1, <1>2 DEF Held, Elsewhere, SameTask
<1>4. ClaimTurn
  BY <1>3 DEF ClaimTurn, NothingEnters
<1>. QED
  BY <1>1, <1>2, <1>4, ClaimsKept DEF EnterTurn, NothingEnters
-----------------------------------------------------------------------------
(* Every action keeps ClaimsInv.                                           *)

LEMMA StillUnqueued ==
  ASSUME IInv, ClaimsInv, NEW k \in Handlers, task[k].pc \in {"begin", "ratings", "undo"}
  PROVE  /\ task[k].kind = "create" /\ task[k].ticket \in Tickets
         /\ ~EvQueued(events, task[k].ticket)
<1>1. task[k].kind = "create" /\ task[k].ticket \in Tickets
  BY TaskFields DEF TaskOK
<1>2. task[k].pc \in {"begin", "ratings"} => status[task[k].ticket] = "none"
  BY TaskFields DEF TaskOK
<1>. QED
  BY <1>1, <1>2, ClaimsAre DEF ClaimRec

LEMMA PartyAnswersClaims ==
  ASSUME IInv, TicketShape, ClaimsInv, NEW k \in Handlers,
         \/ PartyFrozen(k) \/ PartyRefused(k) \/ RatingsFailed(k) \/ CreateUndone(k)
         \/ VerifyFailed(k)
  PROVE  ClaimsInv'
<1>0. task[k] \in TaskRecords
  BY TaskFields
<1>1. CASE PartyFrozen(k) \/ RatingsFailed(k)
  <2>1. PICK pc \in {"undo", "ratings"} : task' = [task EXCEPT ![k] = [task[k] EXCEPT !.pc = pc]]
    BY <1>1 DEF PartyFrozen, RatingsFailed, Begin
  <2>2. task[k].pc \in {"begin", "ratings"} /\ processed' = processed /\ events' = events
    BY <1>1 DEF PartyFrozen, RatingsFailed, Begin, queue
  <2>3. PICK rec : rec = [task[k] EXCEPT !.pc = pc]
    OBVIOUS
  <2>4. /\ rec.pc = pc /\ rec.kind = task[k].kind
        /\ rec.request = task[k].request /\ rec.ticket = task[k].ticket
    BY <1>0, <2>3 DEF TaskRecords
  <2>5. SameId(k, rec) /\ ClaimRec(rec, events') /\ NothingEnters
    BY <2>2, <2>4, StillUnqueued DEF SameId, ClaimRec, NothingEnters
  <2>. QED
    BY <2>1, <2>2, <2>3, <2>5, CallKeepsClaims
<1>2. CASE PartyRefused(k) \/ CreateUndone(k) \/ VerifyFailed(k)
  <2>1. /\ task' = [task EXCEPT ![k] = Idle] /\ processed' = processed /\ events' = events
        /\ task[k].pc \in {"begin", "undo", "verify"}
    BY <1>2 DEF PartyRefused, CreateUndone, VerifyFailed, Done, Begin, queue
  <2>2. task[k].kind = "create" => ~EvQueued(events, task[k].ticket)
    BY <2>1, StillUnqueued, ClaimsAre DEF ClaimRec
  <2>. QED
    BY <2>1, <2>2, DropKeepsClaims DEF NothingEnters
<1>. QED
  BY <1>1, <1>2

LEMMA CreatePartyClaims ==
  ASSUME IInv, TicketShape, ClaimsInv, NEW k \in Handlers, NEW r \in Requests, NEW t \in Tickets,
         CreateParty(k, r, t)
  PROVE  ClaimsInv'
<1>1. PICK rec : rec = [CreateRec(r, t) EXCEPT !.pc = "begin"]
  OBVIOUS
<1>2. rec.pc = "begin" /\ rec.kind = "create" /\ rec.request = r /\ rec.ticket = t
  BY <1>1 DEF CreateRec, Idle
<1>3. /\ task' = [task EXCEPT ![k] = rec] /\ processed' = processed /\ events' = events
      /\ task[k] = Idle /\ processed[r] = None /\ ~InFlight(r)
  BY <1>1 DEF CreateParty, MayCreate, Begin, queue
<1>4. Elsewhere(k) /\ task'[k] = rec
  BY <1>3, BeginElsewhere
<1>5. \A q \in Requests, u \in Tickets :
        Held(processed', task', q, u) <=> \/ Held(processed, task, q, u)
                                          \/ q = r /\ u = t
  BY <1>2, <1>3, <1>4 DEF Held, Elsewhere, SameTask, Idle
<1>6. \A u \in Tickets : ~Held(processed, task, r, u)
  BY <1>3, PoolAssumption DEF Held, InFlight
<1>7. ClaimTurn
  BY <1>5, <1>6 DEF ClaimTurn
<1>. QED
  BY <1>2, <1>3, <1>4, <1>7, ClaimsKept DEF EnterTurn, ClaimRec

LEMMA InsertTicketClaims ==
  ASSUME IInv, TicketShape, ClaimsInv, NEW k \in Handlers, NEW rec \in TaskRecords,
         rec.kind = "create", rec.request \in Requests, rec.ticket \in Tickets,
         status[rec.ticket] = "none", processed[rec.request] \in {None, rec.ticket},
         \A j \in Handlers \ {k} : task[j].ticket # rec.ticket,
         \/ SameId(k, rec)
         \/ /\ task[k] = Idle /\ rec.request \notin PartyRequests
            /\ processed[rec.request] = None /\ ~InFlight(rec.request),
         InsertTicket(k, rec)
  PROVE  ClaimsInv'
<1> DEFINE r == rec.request
           t == rec.ticket
           undo == [rec EXCEPT !.pc = "undo"]
           Reject == IF r \in PartyRequests THEN Begin(k, undo) ELSE Done(k)
<1>0. ~EvQueued(events, t)
  BY ClaimsAre
<1>1. CASE Reject /\ events' = events
  <2>1. NothingEnters
    BY <1>1 DEF NothingEnters
  <2>2. CASE r \in PartyRequests
    <3>1. PICK go : go = undo
      OBVIOUS
    <3>2. go.pc = "undo" /\ go.kind = rec.kind /\ go.request = r /\ go.ticket = t
      BY <3>1 DEF TaskRecords
    <3>3. task' = [task EXCEPT ![k] = go] /\ processed' = processed
      BY <1>1, <2>2, <3>1 DEF Begin
    <3>4. SameId(k, go) /\ ClaimRec(go, events')
      BY <1>0, <1>1, <2>2, <3>2 DEF SameId, ClaimRec
    <3>. QED
      BY <2>1, <3>3, <3>4, CallKeepsClaims
  <2>3. CASE r \notin PartyRequests
    <3>1. task' = [task EXCEPT ![k] = Idle] /\ processed' = processed
      BY <1>1, <2>3 DEF Begin, Done
    <3>2. task[k].kind = "create" => ~EvQueued(events, task[k].ticket)
      BY <1>0 DEF SameId, Idle
    <3>. QED
      BY <2>1, <3>1, <3>2, DropKeepsClaims
  <2>. QED
    BY <2>2, <2>3
<1>2. CASE /\ source' = [source EXCEPT ![t] = r]
           /\ LET st == [status EXCEPT ![t] = "waiting"]
                  ev == [events EXCEPT ![t] = @ \o <<"creating", "waiting">>]
              IN \E S \in Searches(st) :
                    /\ Reserve(S, st, ev)
                    /\ ProcessPendingMatches(k, rec, IntentsFor(S), alarm)
  <2> DEFINE st == [status EXCEPT ![t] = "waiting"]
             ev == [events EXCEPT ![t] = @ \o <<"creating", "waiting">>]
             loop(S) == [rec EXCEPT !.todo = {c \in Candidates : Claimable(IntentsFor(S)[c])}]
  <2>1. PICK S \in Searches(st) :
          Reserve(S, st, ev) /\ ProcessPendingMatches(k, rec, IntentsFor(S), alarm)
    BY <1>2
  <2>2. PICK go : go = loop(S)
    OBVIOUS
  <2>3. /\ go \in TaskRecords /\ go.kind = "create" /\ go.request = r /\ go.ticket = t
    BY <2>2 DEF TaskRecords
  <2>4. Continue(k, go, IntentsFor(S), alarm)
    BY <2>1, <2>2 DEF ProcessPendingMatches
  <2>5. /\ \A q \in Requests, u \in Tickets :
             Held(processed', task', q, u) <=>
                   \/ processed[q] = u
                   \/ \E j \in Handlers \ {k} : /\ task[j].kind = "create"
                                               /\ task[j].request = q /\ task[j].ticket = u
                   \/ r = q /\ t = u
        /\ Elsewhere(k) /\ ClaimRec(task'[k], events')
    BY <2>3, <2>4, LoopClaims
  <2>6. \A q \in Requests, u \in Tickets :
             Held(processed', task', q, u) <=> Held(processed, task, q, u) \/ (q = r /\ u = t)
    BY <2>5 DEF Held, SameId, Idle
  <2>7. Held(processed, task, r, t) \/ \A u \in Tickets : ~Held(processed, task, r, u)
    BY PoolAssumption DEF Held, SameId, InFlight
  <2>8. ClaimTurn
    BY <2>6, <2>7 DEF ClaimTurn
  <2>9. /\ ev \in [Tickets -> Seq(Statuses)]
        /\ \A u \in Tickets \ {t} : ev[u] = events[u]
        /\ events' = Log(ev, UNION S, "reserved")
        /\ \A u \in Tickets : st[u] = "none" \/ status'[u] # "none"
    <3>1. ev \in [Tickets -> Seq(Statuses)]
      BY DEF IInv, TypeOK, Statuses
    <3>2. \A u \in Tickets \ {t} : ev[u] = events[u]
      BY DEF IInv, TypeOK
    <3>3. status' = Mark(st, UNION S, "reserved") /\ events' = Log(ev, UNION S, "reserved")
      BY <2>1 DEF Reserve
    <3>. QED
      BY <3>1, <3>2, <3>3 DEF Mark
  <2>10. status'[t] # "none" /\ source'[t] = r
    <3>1. st[t] # "none"
      BY DEF IInv, TypeOK
    <3>2. source'[t] = r
      BY <1>2 DEF IInv, TypeOK
    <3>. QED
      BY <2>9, <3>1, <3>2
  <2> HIDE DEF ev, st
  <2>11. ASSUME NEW u \in Tickets, EvQueued(events', u), u # t
         PROVE  EvQueued(events, u)
    <3>1. EvQueued(ev, u)
      BY <2>9, <2>11, LogQueues DEF Statuses
    <3>. QED
      BY <2>9, <2>11, <3>1 DEF EvQueued
  <2>12. EnterTurn(k)
    BY <2>6, <2>10, <2>11 DEF EnterTurn
  <2>. QED
    BY <2>5, <2>8, <2>12, ClaimsKept
<1>. QED
  BY <1>1, <1>2 DEF InsertTicket, queue

LEMMA CreateClaims ==
  ASSUME IInv, TicketShape, ClaimsInv, NEW k \in Handlers,
         RatingsRead(k) \/ \E r \in Requests, t \in Tickets : CreateSolo(k, r, t)
  PROVE  ClaimsInv'
<1>1. CASE RatingsRead(k)
  <2>1. task[k].kind = "create" /\ task[k].ticket \in Tickets /\ status[task[k].ticket] = "none"
    BY <1>1, TaskFields DEF RatingsRead, TaskOK
  <2>2. \A j \in Handlers \ {k} : task[j].ticket # task[k].ticket
    BY <2>1, TaskFields, PoolAssumption
  <2>3. InsertTicket(k, task[k]) /\ task[k] \in TaskRecords /\ SameId(k, task[k])
    BY <1>1, TaskFields DEF RatingsRead, SameId
  <2>. QED
    BY <2>1, <2>2, <2>3, Unprocessed, InsertTicketClaims
<1>2. ASSUME NEW r \in Requests, NEW t \in Tickets, CreateSolo(k, r, t)
      PROVE  ClaimsInv'
  <2>1. PICK rec : rec = CreateRec(r, t)
    OBVIOUS
  <2>2. rec \in TaskRecords /\ rec.kind = "create" /\ rec.request = r /\ rec.ticket = t
    BY <2>1 DEF CreateRec, Idle, TaskRecords
  <2>3. /\ status[t] = "none" /\ task[k] = Idle /\ r \notin PartyRequests
        /\ processed[r] = None /\ ~InFlight(r) /\ \A j \in Handlers : task[j].ticket # t
    BY <1>2 DEF CreateSolo, MayCreate, FreshTicket
  <2>4. InsertTicket(k, rec)
    BY <1>2, <2>1 DEF CreateSolo
  <2>. QED
    BY <2>2, <2>3, <2>4, InsertTicketClaims
<1>. QED
  BY <1>1, <1>2

LEMMA NothingLogged ==
  ASSUME IInv, NEW T, NEW s \in Statuses, s # "waiting", events' = Log(events, T, s)
  PROVE  NothingEnters
BY LogQueues DEF NothingEnters, IInv, TypeOK

LEMMA LoggedTwice ==
  ASSUME IInv, NEW T, NEW U, NEW s \in Statuses, s # "waiting",
         events' = Log(Log(events, T, s), U, "reserved")
  PROVE  NothingEnters
<1>1. PICK ev : ev = Log(events, T, s)
  OBVIOUS
<1>2. ev \in [Tickets -> Seq(Statuses)]
  <2>1. events \in [Tickets -> Seq(Statuses)]
    BY DEF IInv, TypeOK
  <2>. QED
    BY <1>1, <2>1 DEF Log
<1>3. events' = Log(ev, U, "reserved") /\ "reserved" \in Statuses
  BY <1>1 DEF Statuses
<1>4. ASSUME NEW t \in Tickets, EvQueued(events', t)
      PROVE  EvQueued(events, t)
  <2>1. EvQueued(ev, t)
    BY <1>2, <1>3, <1>4, LogQueues
  <2>2. events \in [Tickets -> Seq(Statuses)]
    BY DEF IInv, TypeOK
  <2>. QED
    BY <1>1, <2>1, <2>2, LogQueues
<1>. QED
  BY <1>4 DEF NothingEnters

\* A settlement loop of a handler that creates nothing.
LEMMA SettleClaims ==
  ASSUME IInv, TicketShape, ClaimsInv, NEW k \in Handlers, task[k].kind # "create",
         NEW int, NEW armed,
         ProcessPendingMatches(k, [Idle EXCEPT !.kind = "settle"], int, armed), NothingEnters
  PROVE  ClaimsInv'
<1>1. PICK rec : rec = [[Idle EXCEPT !.kind = "settle"] EXCEPT
                            !.todo = {c \in Candidates : Claimable(int[c])}]
  OBVIOUS
<1>2. rec \in TaskRecords /\ rec.kind = "settle"
  BY <1>1 DEF Idle, TaskRecords
<1>3. Continue(k, rec, int, armed) /\ SameId(k, rec)
  BY <1>1, <1>2 DEF ProcessPendingMatches, SameId
<1>. QED
  BY <1>2, <1>3, LoopKeepsClaims

LEMMA SearchesClaims ==
  ASSUME IInv, TicketShape, ClaimsInv, NEW k \in Handlers,
         \/ SearchRpc(k) \/ \E c \in Candidates : ReserveCandidate(k, c)
         \/ \E r \in Requests : CreateReplay(k, r)
  PROVE  ClaimsInv'
<1>1. task[k].kind # "create"
  <2>1. task[k] = Idle
    BY DEF SearchRpc, ReserveCandidate, CreateReplay
  <2>. QED
    BY <2>1 DEF Idle
<1>2. CASE \E r \in Requests : CreateReplay(k, r)
  BY <1>1, <1>2, SettleClaims DEF CreateReplay, queue, NothingEnters, EvQueued
<1>3. CASE SearchRpc(k) \/ \E c \in Candidates : ReserveCandidate(k, c)
  <2>1. PICK S : /\ events' = Log(events, UNION S, "reserved")
                 /\ ProcessPendingMatches(k, [Idle EXCEPT !.kind = "settle"], IntentsFor(S), alarm)
    BY <1>3 DEF SearchRpc, SearchAndSettle, ReserveCandidate, Reserve
  <2>2. NothingEnters
    BY <2>1, NothingLogged DEF Statuses
  <2>. QED
    BY <1>1, <2>1, <2>2, SettleClaims
<1>. QED
  BY <1>2, <1>3

\* Closing tickets, and waiting for the Parties of some of them.
LEMMA ClosesClaims ==
  ASSUME IInv, TicketShape, ClaimsInv, NEW k \in Handlers,
         ExpireDueTickets(k) \/ \E t \in Tickets : CancelTicket(k, t)
  PROVE  ClaimsInv'
<1>1. task[k] = Idle /\ task[k].kind # "create"
  <2>1. task[k] = Idle
    BY DEF ExpireDueTickets, CancelTicket
  <2>. QED
    BY <2>1 DEF Idle
<1>2. \E T : events' = Log(events, T, "cancelled") \/ events' = Log(events, T, "expired")
  BY DEF ExpireDueTickets, CancelTicket, Close
<1>3. NothingEnters
  BY <1>2, NothingLogged DEF Statuses
<1>4. PICK rec : /\ task' = [task EXCEPT ![k] = rec] /\ rec.kind # "create"
                 /\ rec.pc # "undo"
                 /\ processed' = processed
  <2>1. CASE Return(k, Idle, intent)
    <3>1. Idle.kind # "create" /\ Idle.pc # "undo"
      BY DEF Idle
    <3>. QED
      BY <2>1, <3>1 DEF Return
  <2>2. ASSUME NEW E, Begin(k, [Idle EXCEPT !.kind = "cancel", !.pc = "closeRelease", !.ending = E])
        PROVE  \E rec : /\ task' = [task EXCEPT ![k] = rec] /\ rec.kind # "create"
                        /\ rec.pc # "undo"
                        /\ processed' = processed
    <3>1. PICK rec : rec = [Idle EXCEPT !.kind = "cancel", !.pc = "closeRelease", !.ending = E]
      OBVIOUS
    <3>2. rec.kind # "create" /\ rec.pc # "undo"
      BY <3>1 DEF Idle
    <3>. QED
      BY <2>2, <3>1, <3>2 DEF Begin
  <2>. QED
    BY <2>1, <2>2 DEF ExpireDueTickets, CancelTicket
<1>5. SameId(k, rec) /\ ClaimRec(rec, events')
  BY <1>1, <1>4 DEF SameId, ClaimRec
<1>. QED
  BY <1>3, <1>4, <1>5, CallKeepsClaims

LEMMA AlarmClaims ==
  ASSUME IInv, TicketShape, ClaimsInv, Alarm
  PROVE  ClaimsInv'
<1>0. /\ AlarmTask \in Handlers /\ task[AlarmTask].kind # "create"
      /\ task[AlarmTask] = Idle /\ "expired" \in Statuses
  BY DEF Alarm, Handlers, Idle, Statuses
<1>1. CASE SearchAndSettle(AlarmTask, Mark(status, Overdue, "expired"),
                           Log(events, Overdue, "expired"), FALSE)
  <2>1. PICK S : /\ events' = Log(Log(events, Overdue, "expired"), UNION S, "reserved")
                 /\ ProcessPendingMatches(AlarmTask, [Idle EXCEPT !.kind = "settle"],
                                          IntentsFor(S), FALSE)
    BY <1>1 DEF SearchAndSettle, Reserve
  <2>2. NothingEnters
    BY <1>0, <2>1, LoggedTwice
  <2>. QED
    BY <1>0, <2>1, <2>2, SettleClaims
<1>2. CASE /\ events' = Log(events, Overdue, "expired") /\ processed' = processed
           /\ task' = [task EXCEPT ![AlarmTask] =
                            [Idle EXCEPT !.kind = "alarm", !.pc = "closeRelease",
                                         !.ending = PartyTickets(Overdue)]]
  <2>1. PICK rec : rec = [Idle EXCEPT !.kind = "alarm", !.pc = "closeRelease",
                                      !.ending = PartyTickets(Overdue)]
    OBVIOUS
  <2>2. rec.kind = "alarm" /\ rec.pc = "closeRelease"
    BY <2>1 DEF Idle
  <2>3. SameId(AlarmTask, rec) /\ ClaimRec(rec, events')
    BY <1>0, <2>2 DEF SameId, ClaimRec
  <2>4. NothingEnters
    BY <1>0, <1>2, NothingLogged
  <2>. QED
    BY <1>0, <1>2, <2>1, <2>3, <2>4, CallKeepsClaims
<1>. QED
  BY <1>1, <1>2 DEF Alarm

LEMMA FailedAttemptClaims ==
  ASSUME IInv, TicketShape, ClaimsInv, NEW k \in Handlers,
         NEW retryable \in BOOLEAN, SettlementFailed(k, retryable)
  PROVE  ClaimsInv'
<1>1. PICK int : Continue(k, task[k], int, alarm) /\ events' = events
  BY DEF SettlementFailed, queue
<1>2. task[k] \in TaskRecords /\ SameId(k, task[k]) /\ NothingEnters
  BY <1>1, TaskFields DEF SameId, NothingEnters
<1>. QED
  BY <1>1, <1>2, LoopKeepsClaims

\* A handler that has applied a result waits for the Parties of the pair.
LEMMA AwaitReleaseClaims ==
  ASSUME IInv, TicketShape, ClaimsInv, NEW k \in Handlers, NEW T,
         AwaitRelease(k, task[k], T), NothingEnters
  PROVE  ClaimsInv'
<1>1. PICK rec : rec = [task[k] EXCEPT !.pc = "matchRelease", !.ending = T]
  OBVIOUS
<1>2. /\ rec.pc = "matchRelease" /\ rec.kind = task[k].kind
      /\ rec.request = task[k].request /\ rec.ticket = task[k].ticket
  <2>1. task[k] \in TaskRecords
    BY TaskFields
  <2>. QED
    BY <1>1, <2>1 DEF TaskRecords
<1>3. task' = [task EXCEPT ![k] = rec] /\ processed' = processed
  BY <1>1 DEF AwaitRelease, Begin
<1>4. SameId(k, rec) /\ ClaimRec(rec, events')
  BY <1>2 DEF SameId, ClaimRec
<1>. QED
  BY <1>3, <1>4, CallKeepsClaims

LEMMA RoomAnswersClaims ==
  ASSUME IInv, TicketShape, ClaimsInv, NEW k \in Handlers,
         RoomInitialized(k) \/ RoomFailed(k) \/ RoomVerified(k)
  PROVE  ClaimsInv'
<1>1. CASE \E retryable \in BOOLEAN : SettlementFailed(k, retryable)
  BY <1>1, FailedAttemptClaims
<1>2. ASSUME NEW c, NEW token, ApplyMatchResult(c, token)
      PROVE  NothingEnters
  <2>1. events' = Log(events, c, "matched") /\ "matched" \in Statuses
    BY <1>2 DEF ApplyMatchResult, Statuses
  <2>. QED
    BY <2>1, NothingLogged
<1>3. CASE NothingEnters /\ \E T : AwaitRelease(k, task[k], T)
  BY <1>3, AwaitReleaseClaims
<1>4. CASE NothingEnters /\ \E int, armed : Continue(k, task[k], int, armed)
  <2>1. task[k] \in TaskRecords /\ SameId(k, task[k])
    BY TaskFields DEF SameId
  <2>. QED
    BY <1>4, <2>1, LoopKeepsClaims
<1>5. CASE /\ NothingEnters /\ task[k].pc = "verify"
           /\ task' = [task EXCEPT ![k] = Idle] /\ processed' = processed
  <2>1. task[k].kind # "create"
    BY <1>5, ClaimsAre DEF ClaimRec
  <2>. QED
    BY <1>5, <2>1, DropKeepsClaims
<1>6. CASE RoomInitialized(k)
  <2>1. CASE SettlementFailed(k, TRUE)
    BY <1>1, <2>1
  <2>2. CASE /\ ApplyMatchResult(task[k].cand, task[k].token)
             /\ \/ AwaitRelease(k, task[k], PartyTickets(task[k].cand))
                \/ \E int, armed : Continue(k, task[k], int, armed)
    BY <1>2, <1>3, <1>4, <2>2
  <2>. QED
    BY <1>6, <2>1, <2>2 DEF RoomInitialized
<1>7. CASE RoomVerified(k)
  <2>1. CASE UNCHANGED queue /\ processed' = processed /\ task' = [task EXCEPT ![k] = Idle]
    BY <1>5, <1>7, <2>1 DEF RoomVerified, queue, NothingEnters
  <2>2. CASE /\ ApplyMatchResult(task[k].cand, 0)
             /\ \/ AwaitRelease(k, task[k], PartyTickets(task[k].cand))
                \/ processed' = processed /\ task' = [task EXCEPT ![k] = Idle]
    BY <1>2, <1>3, <1>5, <1>7, <2>2 DEF RoomVerified
  <2>3. Idle.kind # "create"
    BY DEF Idle
  <2>. QED
    BY <1>7, <2>1, <2>2, <2>3 DEF RoomVerified, Return, Done, Begin
<1>. QED
  BY <1>1, <1>6, <1>7 DEF RoomFailed

LEMMA ReleasesClaims ==
  ASSUME IInv, TicketShape, ClaimsInv, NEW k \in Handlers,
         MatchReleased(k) \/ CloseReleased(k)
  PROVE  ClaimsInv'
<1>0. task[k] \in TaskRecords
  BY TaskFields
<1>1. ASSUME NEW t, Begin(k, [task[k] EXCEPT !.ending = @ \ {t}]), events' = events,
             task[k].pc \in {"matchRelease", "closeRelease"}
      PROVE  ClaimsInv'
  <2>1. PICK rec : rec = [task[k] EXCEPT !.ending = @ \ {t}]
    OBVIOUS
  <2>2. /\ rec.pc = task[k].pc /\ rec.kind = task[k].kind
        /\ rec.request = task[k].request /\ rec.ticket = task[k].ticket
    BY <1>0, <2>1 DEF TaskRecords
  <2>3. task' = [task EXCEPT ![k] = rec] /\ processed' = processed
    BY <1>1, <2>1 DEF Begin
  <2>4. ClaimRec(task[k], events)
    BY ClaimsAre
  <2>5. SameId(k, rec) /\ ClaimRec(rec, events') /\ NothingEnters
    BY <1>1, <2>2, <2>4 DEF SameId, ClaimRec, NothingEnters
  <2>. QED
    BY <2>3, <2>5, CallKeepsClaims
<1>2. CASE MatchReleased(k)
  <2>1. events' = events /\ task[k].pc = "matchRelease"
    BY <1>2 DEF MatchReleased, queue
  <2>2. ASSUME NEW int, NEW armed, Continue(k, [task[k] EXCEPT !.ending = {}], int, armed)
        PROVE  ClaimsInv'
    <3>1. PICK rec : rec = [task[k] EXCEPT !.ending = {}]
      OBVIOUS
    <3>2. rec \in TaskRecords /\ SameId(k, rec)
      BY <1>0, <3>1 DEF TaskRecords, SameId
    <3>. QED
      BY <2>1, <2>2, <3>1, <3>2, LoopKeepsClaims DEF NothingEnters
  <2>3. \/ \E t : Begin(k, [task[k] EXCEPT !.ending = @ \ {t}])
        \/ \E int, armed : Continue(k, [task[k] EXCEPT !.ending = {}], int, armed)
    BY <1>2 DEF MatchReleased
  <2>. QED
    BY <1>1, <2>1, <2>2, <2>3
<1>3. CASE CloseReleased(k)
  <2>1. task[k].pc = "closeRelease" /\ task[k].kind # "create"
    BY <1>3, ClaimsAre DEF CloseReleased, ClaimRec
  <2>2. CASE UNCHANGED queue /\ \E t : Begin(k, [task[k] EXCEPT !.ending = @ \ {t}])
    BY <1>1, <2>1, <2>2 DEF queue
  <2>3. CASE UNCHANGED queue /\ Return(k, Idle, intent)
    <3>1. task' = [task EXCEPT ![k] = Idle] /\ processed' = processed
      BY <2>3 DEF Return, Idle
    <3>. QED
      BY <2>1, <2>3, <3>1, DropKeepsClaims DEF queue, NothingEnters
  <2>4. CASE SearchAndSettle(k, status, events, alarm)
    <3>1. PICK S : /\ events' = Log(events, UNION S, "reserved")
                   /\ ProcessPendingMatches(k, [Idle EXCEPT !.kind = "settle"], IntentsFor(S), alarm)
      BY <2>4 DEF SearchAndSettle, Reserve
    <3>2. NothingEnters
      BY <3>1, NothingLogged DEF Statuses
    <3>. QED
      BY <2>1, <3>1, <3>2, SettleClaims
  <2>. QED
    BY <1>3, <2>2, <2>3, <2>4 DEF CloseReleased
<1>. QED
  BY <1>2, <1>3

LEMMA MatchCandidateClaims ==
  ASSUME IInv, TicketShape, ClaimsInv, NEW k \in Handlers, NEW c \in Candidates,
         MatchCandidate(k, c)
  PROVE  ClaimsInv'
<1>1. task[k] = Idle /\ NothingEnters /\ processed' = processed
  BY DEF MatchCandidate, queue, NothingEnters, Begin
<1>2. task[k].kind # "create"
  BY <1>1 DEF Idle
<1>3. CASE Begin(k, [Idle EXCEPT !.kind = "match", !.pc = "verify", !.cand = c])
  <2>1. PICK rec : rec = [Idle EXCEPT !.kind = "match", !.pc = "verify", !.cand = c]
    OBVIOUS
  <2>2. SameId(k, rec) /\ ClaimRec(rec, events')
    BY <1>2, <2>1 DEF SameId, ClaimRec, Idle
  <2>. QED
    BY <1>1, <1>3, <2>1, <2>2, CallKeepsClaims DEF Begin
<1>4. CASE UNCHANGED task
  <2>1. task' = [task EXCEPT ![k] = Idle]
    BY <1>1, <1>4 DEF IInv, TypeOK
  <2>. QED
    BY <1>1, <1>2, <2>1, DropKeepsClaims
<1>. QED
  BY <1>3, <1>4 DEF MatchCandidate

LEMMA TimeClaims ==
  ASSUME IInv, TicketShape, ClaimsInv,
         \/ \E t \in Tickets : ExpireTicket(t) \/ DetachedReleased(t) \/ TicketDue(t)
         \/ \E c \in Candidates : IntentDue(c)
         \/ UNCHANGED vars
  PROVE  ClaimsInv'
<1>1. UNCHANGED <<processed, task>>
  BY DEF ExpireTicket, DetachedReleased, TicketDue, IntentDue, vars
<1>2. NothingEnters
  <2>1. CASE UNCHANGED events
    BY <2>1 DEF NothingEnters
  <2>2. ASSUME NEW t \in Tickets, ExpireTicket(t)
        PROVE  NothingEnters
    BY <2>2, NothingLogged DEF ExpireTicket, Statuses
  <2>. QED
    BY <2>1, <2>2 DEF DetachedReleased, TicketDue, IntentDue, vars, queue
<1>3. AlarmTask \in Handlers /\ task' = [task EXCEPT ![AlarmTask] = task[AlarmTask]]
  BY <1>1 DEF Handlers, IInv, TypeOK
<1>4. ClaimRec(task[AlarmTask], events')
  <2>1. ClaimRec(task[AlarmTask], events)
    BY <1>3, ClaimsAre
  <2>2. task[AlarmTask].pc = "undo" => task[AlarmTask].ticket \in Tickets
    BY <1>3, StillUnqueued
  <2>. QED
    BY <1>2, <2>1, <2>2 DEF ClaimRec, NothingEnters
<1>. QED
  BY <1>1, <1>2, <1>3, <1>4, CallKeepsClaims DEF SameId

LEMMA NextClaims ==
  ASSUME MaxCrashes = 0, IInv, ClaimsInv, [Next]_vars
  PROVE  ClaimsInv'
<1>0. TicketShape
  BY NextKeeps DEF Kept
<1>1. ASSUME NEW k \in Tasks, Call(k)
      PROVE  ClaimsInv'
  <2>1. k \in Handlers
    BY DEF Handlers
  <2>2. CASE \E r \in Requests, t \in Tickets : CreateSolo(k, r, t)
    BY <1>0, <2>1, <2>2, CreateClaims
  <2>3. CASE \E r \in Requests, t \in Tickets : CreateParty(k, r, t)
    BY <1>0, <2>1, <2>3, CreatePartyClaims
  <2>4. CASE ExpireDueTickets(k) \/ \E t \in Tickets : CancelTicket(k, t)
    BY <1>0, <2>1, <2>4, ClosesClaims
  <2>5. CASE \/ SearchRpc(k) \/ \E c \in Candidates : ReserveCandidate(k, c)
             \/ \E r \in Requests : CreateReplay(k, r)
    BY <1>0, <2>1, <2>5, SearchesClaims
  <2>6. CASE \E c \in Candidates : MatchCandidate(k, c)
    BY <1>0, <2>1, <2>6, MatchCandidateClaims
  <2>. QED
    BY <1>1, <2>2, <2>3, <2>4, <2>5, <2>6 DEF Call
<1>2. ASSUME NEW k \in Handlers, Answer(k)
      PROVE  ClaimsInv'
  BY <1>0, <1>2, PartyAnswersClaims, CreateClaims, RoomAnswersClaims, ReleasesClaims DEF Answer
<1>3. CASE Alarm
  BY <1>0, <1>3, AlarmClaims
<1>4. CASE \/ \E t \in Tickets : ExpireTicket(t) \/ DetachedReleased(t) \/ TicketDue(t)
           \/ \E c \in Candidates : IntentDue(c)
           \/ UNCHANGED vars
  BY <1>0, <1>4, TimeClaims
<1>5. CASE Crash
  BY <1>5 DEF Crash, IInv, TypeOK
<1>. QED
  BY <1>1, <1>2, <1>3, <1>4, <1>5 DEF Next

\* As long as the object does not restart, the tickets that entered the queue
\* under one requestId are one ticket, however often the request is sent and
\* whatever its handler waits for between its two reads of processed_commands.
THEOREM RequestsQueueOnce ==
  ASSUME MaxCrashes = 0
  PROVE  Spec => []OneTicketPerRequest
<1>1. Init => ClaimsInv
  BY PoolAssumption DEF Init, ClaimsInv, Claims, WasQueued, Idle
<1>2. IInv /\ ClaimsInv /\ [Next]_vars => ClaimsInv'
  BY NextClaims
<1>3. IInv /\ ClaimsInv => OneTicketPerRequest
  <2>1. ASSUME IInv, ClaimsInv, NEW t \in Tickets, NEW u \in Tickets,
               WasQueued(t), WasQueued(u), source[t] = source[u]
        PROVE  t = u
    <3>1. Claims(source[t], t) /\ Claims(source[t], u) /\ status[t] # "none"
      BY <2>1 DEF ClaimsInv
    <3>2. source[t] \in Requests
      BY <2>1, <3>1 DEF IInv, SourceOK
    <3>. QED
      BY <2>1, <3>1, <3>2 DEF ClaimsInv
  <2>. QED
    BY <2>1 DEF OneTicketPerRequest
<1>. QED
  BY <1>1, <1>2, <1>3, Invariance, PTL DEF Spec
-----------------------------------------------------------------------------
(* The refinement of TicketPairing.                                        *)

LEMMA StageValues ==
  /\ Stage("none") = "absent" /\ Stage("reserved") = "paired" /\ Stage("matched") = "matched"
  /\ Stage("cancelled") = "closed" /\ Stage("expired") = "closed"
  BY DEF Stage, Queued

LEMMA SamePairs == Pairing!Pairs = Candidates
  BY DEF Pairing!Pairs, Candidates

\* A step of one of the shapes is a step of TicketPairing, or changes nothing
\* that TicketPairing speaks of.
LEMMA ShapeRefines ==
  ASSUME TypeOK, TypeOK', TicketShape
  PROVE  Pairing!PairingNext
<1>2. CASE QueueTurn
  <2>1. ASSUME NEW t \in Tickets
        PROVE  Pairing!Rest(t) \/ Pairing!Enter(t) \/ Pairing!Leave(t) \/ Pairing!Pair(t)
    <3>1. CASE Same(t)
      BY <3>1 DEF Same, Pairing!Rest
    <3>2. CASE Enters(t)
      BY <3>2 DEF Enters, Pairing!Enter, Stage, Queued
    <3>3. CASE Closes(t)
      BY <3>3 DEF Closes, Pairing!Leave, Stage, Queued
    <3>4. CASE Reserves(t)
      <4>1. \A u \in candidate'[t] : u \in Tickets
        BY <3>4, CandidateType DEF Reserves
      <4>. QED
        BY <3>4, <4>1, SamePairs DEF Reserves, Pairing!Pair, Stage, Queued
    <3>. QED
      BY <1>2, <3>1, <3>2, <3>3, <3>4 DEF QueueTurn
  <2>. QED
    BY <2>1 DEF Pairing!PairingNext, Pairing!Turn
<1>3. ASSUME NEW c \in Candidates, MatchSettles(c) \/ CloseSettles(c)
      PROVE  Pairing!PairingNext
  <2>1. c \subseteq Tickets
    BY CandidateType
  <2>2. CASE MatchSettles(c)
    <3>0. BothReserved(c) /\ Settles(c, "matched")
      BY <2>2 DEF MatchSettles, Settles
    <3>1. Pairing!Settle(c, "matched")
      BY <2>1, <3>0, StageValues DEF Settles, BothReserved, Pairing!Settle
    <3>. QED
      BY <3>1, SamePairs DEF Pairing!PairingNext
  <2>3. CASE CloseSettles(c)
    <3>0. BothReserved(c) /\ Settles(c, "cancelled")
      BY <2>3 DEF CloseSettles, Settles
    <3>1. Pairing!Settle(c, "closed")
      BY <2>1, <3>0, StageValues DEF Settles, BothReserved, Pairing!Settle
    <3>. QED
      BY <3>1, SamePairs DEF Pairing!PairingNext
  <2>. QED
    BY <1>3, <2>2, <2>3
<1>. QED
  BY <1>2, <1>3 DEF TicketShape

\* The Match Pool implements TicketPairing: however calls interleave, fail and
\* restart, a ticket is paired at most once and a pair is settled as one.
THEOREM PoolPairsAsPromised == Spec => PairsAsPromised
<1>1. Init => Pairing!PairingInit
  BY StageValues DEF Init, Pairing!PairingInit
<1>2. IInv /\ [Next]_vars => [Pairing!PairingNext]_Pairing!pairingVars
  BY NextKeeps, ShapeRefines DEF Kept, IInv
<1>. QED
  BY <1>1, <1>2, Invariance, PTL DEF Spec, PairsAsPromised, Pairing!PairingSpec
=============================================================================
