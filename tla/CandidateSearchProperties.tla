---------------------- MODULE CandidateSearchProperties ----------------------
(***************************************************************************)
(* What a search must choose, and when the Pool must be awake for one.     *)
(***************************************************************************)
EXTENDS CandidateSearch

\* The shape of the tickets, the policy in force and the alarm.
SearchTypeOK ==
  /\ clock \in Nat /\ open \in Nat /\ waking \in BOOLEAN
  /\ stage \in [Ticket -> {"none", "coming", "waiting", "reserved", "ended"}]
  /\ partner \in [Ticket -> Ticket]
  /\ queuedAt \in [Ticket -> Nat] /\ expiresAt \in [Ticket -> Nat]
  /\ policy \in Policy
  /\ wakeAt \in Nat \cup {Never}

-----------------------------------------------------------------------------
(* What a search picks *)

Reserved == {t \in Ticket : stage[t] # "reserved" /\ stage'[t] = "reserved"}

\* The tickets a search has read: those it reserved and those it left.
Read == First(Reserved \cup {t \in Ticket : stage'[t] = "waiting" /\ expiresAt[t] > clock},
              policy'.tickets)

\* The limits of the policy may have ended the search.
CutShort ==
  LET n == Cardinality(Read)
      m == Cardinality(Reserved) \div 2 IN
  m >= policy'.matches \/ n * n * (m + 1) > policy'.pairs

\* A search whose limits suffice leaves no two tickets that could be matched and
\* are closer to one another than to what they were reserved with, if anything.
NoneWouldRather ==
  [][Searching /\ ~CutShort =>
       \A a, b \in Read : Possible(a, b, clock, policy') =>
         \E t \in {a, b} \cap Reserved :
            RatingDifference(t, partner'[t]) <= RatingDifference(a, b)]_searchVars
-----------------------------------------------------------------------------
(* When the Pool searches *)

\* No handler has yet to set the alarm.
Quiet == open = 0 /\ ~waking

\* The alarm is set for each time at which a ticket that a search reads widens.
WideningsAwaited ==
  Quiet => \A b \in Widenings(clock) : wakeAt # Never /\ wakeAt <= b

\* The document says more: tickets that can be matched are, at the latest when
\* the alarm that is due has run.
NoPairIsMissed ==
  Quiet /\ (wakeAt = Never \/ wakeAt > clock) =>
    \A a, b \in Rows(stage, policy) : ~Possible(a, b, clock, policy)
=============================================================================
