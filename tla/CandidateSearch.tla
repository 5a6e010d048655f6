--------------------------- MODULE CandidateSearch ---------------------------
(***************************************************************************)
(* How a Match Pool finds the pairs of tickets it reserves: the search of  *)
(* @flarelobby/core, and when the Pool runs it.  MatchPool leaves open     *)
(* which pairs a search picks; here are the ratings, the widths that grow  *)
(* with the time a ticket waits, the limits of a search and the one alarm  *)
(* that is to repeat it when a width grows.                                *)
(*                                                                         *)
(* A handler searches, awaits the match Rooms of the pairs it has          *)
(* reserved, and only then sets the alarm: time passes in between, and     *)
(* other handlers run.                                                     *)
(***************************************************************************)
EXTENDS Integers, FiniteSets, Sequences, FiniteSetsExt, Functions

CONSTANTS
  Ticket,       \* natural numbers: the order of their ids
  Roster,       \* the members of a ticket, with their ratings
  InputMethod,  \* of each ticket
  TeamSize,
  Policy,       \* the policies an operator configures, valid or not
  FirstPolicy,
  Lifetime,     \* how long a ticket may wait
  MaxTime,      \* bound: the clock
  MaxOpen,      \* bound: handlers that have yet to set the alarm
  Never

ASSUME SearchAssumption ==
  /\ IsFiniteSet(Ticket) /\ Ticket \subseteq Nat
  /\ \A t \in Ticket : /\ IsFiniteSet(DOMAIN Roster[t])
                       /\ Roster[t] \in [DOMAIN Roster[t] -> Int]
  /\ TeamSize \in Nat \ {0}
  /\ FirstPolicy \in Policy
  /\ \A p \in Policy : /\ p.stages \in Seq([after : Nat, width : Nat])
                       /\ p.pairs \in Nat /\ p.matches \in Nat
  /\ Lifetime \subseteq Nat
  /\ Never \notin Nat

VARIABLES
  clock,
  stage,      \* per ticket
  partner,    \* the ticket it is reserved with
  queuedAt,   \* queued_at: when its creation began
  expiresAt,  \* expires_at_ms
  policy,     \* search_policy_json
  wakeAt,     \* the alarm
  waking,     \* the alarm handler has yet to set it
  open        \* how many other handlers have

searchVars == <<clock, stage, partner, queuedAt, expiresAt, policy, wakeAt, waking, open>>
-----------------------------------------------------------------------------
(* Search widths *)

\* normalizeMatchmakingSearchPolicy(), normalizeStages(): widths never shrink.
ValidStages(s) ==
  /\ Len(s) \in 1 .. 32
  /\ s[1].after = 0
  /\ \A i \in 2 .. Len(s) : s[i - 1].after < s[i].after /\ s[i - 1].width <= s[i].width

ValidPolicy(p) ==
  /\ ValidStages(p.stages)
  /\ \A i \in DOMAIN p.stages : p.stages[i].width <= p.cap
  /\ p.tickets > 0 /\ p.pairs > 0 /\ p.matches > 0

Waited(t, at) == Max({0, at - queuedAt[t]})

\* getMatchmakingSearchWidth(): a stage begins at its boundary.
StageAt(p, wait) == Max({i \in DOMAIN p.stages : i = 1 \/ p.stages[i].after <= wait})
Width(t, at, p) == Min({p.cap, p.stages[StageAt(p, Waited(t, at))].width})

\* getNextMatchmakingSearchAt(): boundaries still to come.
Boundaries(t, at, p) ==
  {b \in {queuedAt[t] + p.stages[i].after : i \in DOMAIN p.stages \ {1}} : b > at}
-----------------------------------------------------------------------------
(* Candidates: averages and deviations are multiplied by TeamSize *)

Members(t) == DOMAIN Roster[t]
Total(t) == FoldFunction(LAMBDA a, b : a + b, 0, Roster[t])
Distance(a, b) == Max({a - b, b - a})
RatingDifference(a, b) == Distance(Total(a), Total(b))

\* maxMemberRatingDeviation()
Deviation(t) == Max({Distance(TeamSize * Roster[t][m], Total(t)) : m \in Members(t)})

\* evaluateMatchCandidate(): every ticket has the pool and the region of the Pool.
Possible(a, b, at, p) ==
  /\ a # b
  /\ Members(a) \cap Members(b) = {}
  /\ Cardinality(Members(a)) = TeamSize /\ Cardinality(Members(b)) = TeamSize
  /\ RatingDifference(a, b) <= TeamSize * Width(a, at, p)
  /\ RatingDifference(a, b) <= TeamSize * Width(b, at, p)

\* compareMatchCandidateQuality(): the smaller, the better.
Quality(a, b) ==
  <<RatingDifference(a, b), IF InputMethod[a] = InputMethod[b] THEN 0 ELSE 1,
    Max({Deviation(a), Deviation(b)}), Min({queuedAt[a], queuedAt[b]}),
    Max({queuedAt[a], queuedAt[b]}), Min({a, b}), Max({a, b})>>

Before(v, w) ==
  \E i \in DOMAIN v : v[i] < w[i] /\ \A j \in 1 .. i - 1 : v[j] = w[j]

Worse(c, d) == Before(Quality(d[1], d[2]), Quality(c[1], c[2]))    \* mutant: the order is reversed
Better(c, d) == Before(Quality(c[1], c[2]), Quality(d[1], d[2]))

\* compareSearchTickets()
Older(a, b) == Before(<<queuedAt[a], a>>, <<queuedAt[b], b>>)
First(S, n) == {t \in S : Cardinality({u \in S : Older(u, t)}) < n}
-----------------------------------------------------------------------------
(* The search *)

\* The pairs of a round, in the order of the two loops.
Ordered(S) == {c \in S \X S : Older(c[1], c[2])}
Sooner(c, d) == Older(c[1], d[1]) \/ (c[1] = d[1] /\ Older(c[2], d[2]))

\* The pairs a round evaluates before the limit of the search is reached.
Evaluated(S, n) == {c \in Ordered(S) : Cardinality({d \in Ordered(S) : Sooner(d, c)}) < n}

Candidates(S, n, at, p) == {c \in Evaluated(S, n) : Possible(c[1], c[2], at, p)}
Best(C) == CHOOSE c \in C : \A d \in C \ {c} : Better(c, d)

\* selectMatchCandidates(): each round picks the best pair of those left over.
Pick(S, at, p) ==
  LET f[i \in 0 .. p.matches] ==
        IF i = 0 THEN [left |-> S, spent |-> 0, pairs |-> {}]
        ELSE LET r == f[i - 1]
                 C == Candidates(r.left, p.pairs - r.spent, at, p) IN
             IF C = {} THEN r
             ELSE LET c == Best(C) IN
                  [left |-> r.left \ {c[1], c[2]},
                   spent |-> r.spent + Cardinality(Evaluated(r.left, p.pairs - r.spent)),
                   pairs |-> r.pairs \cup {{c[1], c[2]}}]
  IN f[p.matches].pairs

\* readWaitingTicketRows(): the oldest ones; an expired ticket is not read.
Rows(st, p) ==
  First({t \in Ticket : st[t] = "waiting" /\ expiresAt[t] > clock}, p.tickets)

\* searchAndReserveCandidatesAt(), from the stages st.
SearchFrom(st, p) ==
  LET pairs == Pick(Rows(st, p), clock, p)
      reserved == UNION pairs IN
  /\ stage' = [t \in Ticket |-> IF t \in reserved THEN "reserved" ELSE st[t]]
  /\ partner' = [t \in Ticket |->
       IF t \in reserved THEN CHOOSE u \in Ticket \ {t} : {t, u} \in pairs ELSE partner[t]]
-----------------------------------------------------------------------------
(* The alarm *)

\* The next widening and the next expiry, from what the tickets are now.
Widenings(at) == UNION {Boundaries(t, at, policy) : t \in Rows(stage, policy)}
Expiries == {expiresAt[t] : t \in {u \in Ticket : stage[u] = "waiting"}}

KeptAlarm(at) ==    \* mutant: an alarm that is set is left alone
  LET times == Widenings(at) \cup Expiries IN
  IF wakeAt # Never \/ times = {} THEN wakeAt ELSE Min(times)

\* synchronizeAlarm(): an alarm that is due and has not run is set anew as well.
NextWake(at) ==
  LET times == Widenings(at) \cup Expiries IN
  IF times = {} THEN Never ELSE Min(times)

NotYet == open < MaxOpen /\ open' = open + 1

\* A handler comes to its end.
Synchronize ==
  /\ open > 0
  /\ open' = open - 1
  /\ wakeAt' = NextWake(clock)
  /\ UNCHANGED <<clock, stage, partner, queuedAt, expiresAt, policy, waking>>

\* searchCandidates() and a policy that is in force already: they change no ticket,
\* but they set the alarm.
SearchCandidates ==
  /\ wakeAt' = NextWake(clock)
  /\ UNCHANGED <<clock, stage, partner, queuedAt, expiresAt, policy, waking, open>>

\* alarm(): it expires the tickets that are due and searches.
Alarm ==
  LET due == {t \in Ticket : stage[t] = "waiting" /\ expiresAt[t] <= clock} IN
  /\ wakeAt # Never /\ wakeAt <= clock
  /\ ~waking
  /\ waking' = TRUE
  /\ wakeAt' = Never
  /\ SearchFrom([t \in Ticket |-> IF t \in due THEN "ended" ELSE stage[t]], policy)
  /\ UNCHANGED <<clock, queuedAt, expiresAt, policy, open>>

AlarmEnds ==
  /\ waking
  /\ waking' = FALSE
  /\ wakeAt' = NextWake(clock)
  /\ UNCHANGED <<clock, stage, partner, queuedAt, expiresAt, policy, open>>
-----------------------------------------------------------------------------
(* Tickets and policies *)

\* A creation begins; the freeze of a Party may be waited for.
CreateTicket(t) ==
  /\ stage[t] = "none"
  /\ stage' = [stage EXCEPT ![t] = "coming"]
  /\ queuedAt' = [queuedAt EXCEPT ![t] = clock]
  /\ \E l \in Lifetime : expiresAt' = [expiresAt EXCEPT ![t] = clock + l]
  /\ UNCHANGED <<clock, partner, policy, wakeAt, waking, open>>

\* The ticket is inserted and the Pool searched.
Enqueue(t) ==
  /\ stage[t] = "coming"
  /\ NotYet
  /\ SearchFrom([stage EXCEPT ![t] = "waiting"], policy)
  /\ UNCHANGED <<clock, queuedAt, expiresAt, policy, wakeAt, waking>>

\* cancelTicket(), expireTicket(): no search follows.
Withdraw(t) ==
  /\ stage[t] = "waiting"
  /\ NotYet
  /\ stage' = [stage EXCEPT ![t] = "ended"]
  /\ UNCHANGED <<clock, partner, queuedAt, expiresAt, policy, wakeAt, waking>>

\* configureSearchPolicy(), and initialize() with another policy.
ConfigureSearchPolicy(p) ==
  /\ ValidPolicy(p)
  /\ p # policy
  /\ NotYet
  /\ policy' = p
  /\ SearchFrom(stage, p)
  /\ UNCHANGED <<clock, queuedAt, expiresAt, wakeAt, waking>>

Tick ==
  /\ clock < MaxTime
  /\ clock' = clock + 1
  /\ UNCHANGED <<stage, partner, queuedAt, expiresAt, policy, wakeAt, waking, open>>
-----------------------------------------------------------------------------
SearchInit ==
  /\ clock = 0
  /\ stage = [t \in Ticket |-> "none"]
  /\ partner = [t \in Ticket |-> t]
  /\ queuedAt = [t \in Ticket |-> 0]
  /\ expiresAt = [t \in Ticket |-> 0]
  /\ policy = FirstPolicy
  /\ wakeAt = Never
  /\ waking = FALSE
  /\ open = 0

Searching ==
  \/ \E t \in Ticket : Enqueue(t)
  \/ Alarm
  \/ \E p \in Policy : ConfigureSearchPolicy(p)

SearchNext ==
  \/ Searching
  \/ Synchronize \/ SearchCandidates \/ AlarmEnds \/ Tick
  \/ \E t \in Ticket : CreateTicket(t) \/ Withdraw(t)

SearchSpec == SearchInit /\ [][SearchNext]_searchVars
=============================================================================
