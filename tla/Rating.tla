------------------------------- MODULE Rating -------------------------------
(***************************************************************************)
(* Registration of match results in D1: registerMatchResult (two players)  *)
(* and registerTeamMatchResult, called by the Gateway for a match of the   *)
(* Match Pool or by the game's own server code.  Any number of Workers     *)
(* register at once; a call of D1 is atomic and everything may happen      *)
(* between two of them.  The batch that applies a result guards itself by  *)
(* the versions of the ratings it was computed from.                       *)
(*                                                                         *)
(* A rating stands for the matches it was computed from: the calculation   *)
(* adds one match to what was read.                                        *)
(***************************************************************************)
EXTENDS Naturals, FiniteSets

CONSTANTS
  Match, Result, Player, Claim, Algorithm,
  Submission,   \* the results that are submitted, each as often as there are calls
  Input,        \* the record of a submission
  Call,         \* calls of the two functions
  MaxRetries,   \* maxRetries
  Faults,       \* of "d1"
  MaxLate,      \* bound: batches D1 executes after their call failed
  None

\* claim: what is compared with a stored match besides the two ids and the players.
Inputs == [match : Match, result : Result, roster : SUBSET Player, claim : Claim,
           team : BOOLEAN, algorithm : Algorithm]

\* Matches of two players and of teams are stored in different tables, so an id
\* means one of both.
ASSUME RatingAssumption ==
  /\ Input \in [Submission -> Inputs]
  /\ \A s \in Submission : IsFiniteSet(Input[s].roster) /\ Input[s].roster # {}
  /\ \A s, t \in Submission :
       Input[s].match = Input[t].match \/ Input[s].result = Input[t].result
         => Input[s].team = Input[t].team
  /\ {MaxRetries, MaxLate} \subseteq Nat
  /\ None \notin Inputs \cup Algorithm \cup Nat \cup {"applied", "known"}

VARIABLES
  season,    \* flarelobby_rating_seasons.algorithm, None without the row
  version,   \* flarelobby_ratings.version by player, None without a row
  value,     \* flarelobby_ratings.rating_value and, with Glicko-2, its deviation
  matches,   \* flarelobby_rating_matches, flarelobby_team_rating_matches
  history,   \* the rows of their participants
  seated,    \* teams of a match Room: who still has a row in it
  call,
  late       \* batches whose call failed and that D1 may still execute

database == <<season, version, value, matches, history>>
vars == <<database, seated, call, late>>

New == [pc |-> "new", input |-> None, seen |-> None, attempt |-> 0,
        error |-> "failed", answer |-> None]

\* The players of a team match.
Seats(m) ==
  UNION {Input[s].roster : s \in {t \in Submission : Input[t].match = m /\ Input[t].team}}

Init ==
  /\ season = None
  /\ version = [p \in Player |-> None]
  /\ value = [p \in Player |-> {}]
  /\ matches = [m \in Match |-> None]
  /\ history = {}
  /\ seated = [m \in Match |-> Seats(m)]
  /\ call = [c \in Call |-> New]
  /\ late = {}
-----------------------------------------------------------------------------
(* One call of D1 each. *)

\* INSERT OR IGNORE of the season and of the players' rows.
Ensure(ps, algorithm) ==
  /\ season' = IF season = None THEN algorithm ELSE season
  /\ version' = [p \in Player |-> IF p \in ps /\ version[p] = None THEN 0 ELSE version[p]]
  /\ UNCHANGED <<value, matches, history>>

Rows == {matches[m] : m \in Match} \ {None}

\* findExistingMatch: by the match, else by the result.
Existing(i) ==
  LET byMatch  == {row \in Rows : row.match = i.match}
      byResult == {row \in Rows : row.result = i.result}
  IN  IF byMatch # {} THEN CHOOSE row \in byMatch : TRUE
      ELSE IF byResult # {} THEN CHOOSE row \in byResult : TRUE
      ELSE None

\* readRatingState, for the players of the input.
State(i) ==
  [version |-> [p \in Player |-> IF p \in i.roster THEN version[p] ELSE None],
   value |-> [p \in Player |-> IF p \in i.roster THEN value[p] ELSE {}]]

Unguarded(i, seen) == i.roster    \* mutant: the batch does not ask for the versions
Fits(i, seen) == {p \in i.roster : version[p] = seen.version[p]}

OutcomeByMatch(i, seen) ==    \* mutant: result_id is not UNIQUE
  IF matches[i.match] # None THEN "duplicate"
  ELSE IF Fits(i, seen) = i.roster THEN "applied" ELSE "stale"

\* The batch.  Its match is inserted if every version fits; a rating is updated if
\* its own version fits and the match is there; participants are inserted if the
\* match is there.  A duplicate key undoes the batch.
Outcome(i, seen) ==
  LET inserts == Fits(i, seen) = i.roster
      taken == \E row \in Rows : row.match = i.match \/ row.result = i.result
      slots == \E h \in history : h.match = i.match /\ (i.team => h.player \in i.roster)
  IN  IF inserts THEN IF taken THEN "duplicate" ELSE "applied"
      ELSE IF matches[i.match] = None THEN "stale"
      ELSE IF slots THEN "duplicate" ELSE "mixed"

Execute(i, seen) ==
  IF Outcome(i, seen) \in {"applied", "mixed"}
  THEN /\ version' = [p \in Player |-> IF p \in Fits(i, seen) THEN version[p] + 1 ELSE version[p]]
       /\ value' = [p \in Player |-> IF p \in Fits(i, seen) THEN seen.value[p] \cup {i.match}
                                     ELSE value[p]]
       /\ matches' = IF Outcome(i, seen) = "applied" THEN [matches EXCEPT ![i.match] = i]
                     ELSE matches
       /\ history' = history \cup
            {[match |-> i.match, version |-> seen.version[p], player |-> p] : p \in i.roster}
       /\ UNCHANGED season
  ELSE UNCHANGED database

MatchOnly(row, i) == row.match = i.match    \* mutant: only the id of the match is compared

\* The comparison of resolveExistingMatch; resolveExistingTeamMatch leaves the
\* players out.
Agrees(row, i) ==
  /\ row.match = i.match /\ row.result = i.result /\ row.claim = i.claim
  /\ i.team \/ row.roster = i.roster
-----------------------------------------------------------------------------
(* A call.  pc names the call of D1 it makes next. *)

Answered(c, a) == [New EXCEPT !.pc = "done", !.input = call[c].input, !.answer = a]

\* Server code of the game registers a result.
Register(c, s) ==
  /\ call[c].pc = "new"
  /\ call' = [call EXCEPT ![c].pc = "ensure", ![c].input = Input[s]]
  /\ UNCHANGED <<database, seated, late>>

\* The Gateway takes the players from the tickets of the match, and the teams from
\* its Room (resolveMatchTeamIds): a player who is not in it is a CONFLICT.
GatewayRegister(c, s) ==
  LET i == Input[s] IN
  /\ call[c].pc = "new"
  /\ call' = [call EXCEPT ![c] =
       IF i.team /\ ~(i.roster \subseteq seated[i.match])
       THEN [New EXCEPT !.pc = "done", !.input = i, !.answer = "conflict"]
       ELSE [New EXCEPT !.pc = "ensure", !.input = i]]
  /\ UNCHANGED <<database, seated, late>>

EnsureRows(c) ==
  /\ call[c].pc = "ensure"
  /\ Ensure(call[c].input.roster, call[c].input.algorithm)
  /\ call' = [call EXCEPT ![c].pc = "find"]
  /\ UNCHANGED <<seated, late>>

\* The existing row decides, and is read again with its participants.
Found(c, row) ==
  IF Agrees(row, call[c].input) THEN [call[c] EXCEPT !.pc = "resolve", !.seen = None]
                                ELSE Answered(c, "conflict")

FindExisting(c) ==
  LET row == Existing(call[c].input) IN
  /\ call[c].pc = "find"
  /\ call' = [call EXCEPT ![c] = IF row = None THEN [@ EXCEPT !.pc = "read"] ELSE Found(c, row)]
  /\ UNCHANGED <<database, seated, late>>

ReadState(c) ==
  /\ call[c].pc = "read"
  /\ call' = [call EXCEPT ![c] =
       IF season # call[c].input.algorithm THEN Answered(c, "conflict")
       ELSE [@ EXCEPT !.pc = "apply", !.seen = State(call[c].input)]]
  /\ UNCHANGED <<database, seated, late>>

NotReadAgain(c) ==    \* mutant: the next attempt does not read the versions again
  IF call[c].attempt < MaxRetries THEN [call[c] EXCEPT !.attempt = @ + 1]
  ELSE [call[c] EXCEPT !.pc = "recover", !.error = "conflict", !.seen = None]

\* The versions moved on: read again and recompute, MaxRetries times.
NextAttempt(c) ==
  IF call[c].attempt < MaxRetries
  THEN [call[c] EXCEPT !.pc = "read", !.attempt = @ + 1, !.seen = None]
  ELSE [call[c] EXCEPT !.pc = "recover", !.error = "conflict", !.seen = None]

Apply(c) ==
  LET outcome == Outcome(call[c].input, call[c].seen) IN
  /\ call[c].pc = "apply"
  /\ Execute(call[c].input, call[c].seen)
  /\ call' = [call EXCEPT ![c] =
       IF outcome = "applied" THEN [@ EXCEPT !.pc = "confirm", !.seen = None]
       ELSE IF outcome = "duplicate" THEN [@ EXCEPT !.pc = "recover", !.seen = None]
       ELSE NextAttempt(c)]
  /\ UNCHANGED <<seated, late>>

\* readMatchRecord
Confirm(c) ==
  /\ call[c].pc \in {"confirm", "resolve"}
  /\ call' = [call EXCEPT ![c] = Answered(c, IF call[c].pc = "confirm" THEN "applied" ELSE "known")]
  /\ UNCHANGED <<database, seated, late>>

\* The catch block: whatever went wrong, the result may be registered.
Recover(c) ==
  LET row == Existing(call[c].input) IN
  /\ call[c].pc = "recover"
  /\ call' = [call EXCEPT ![c] = IF row = None THEN Answered(c, call[c].error) ELSE Found(c, row)]
  /\ UNCHANGED <<database, seated, late>>

\* A call of D1 fails outside the try block.  An INSERT OR IGNORE may have been executed.
Fails(c) ==
  /\ "d1" \in Faults
  /\ call[c].pc \in {"ensure", "find", "read", "resolve", "recover"}
  /\ call' = [call EXCEPT ![c] = Answered(c, "failed")]
  /\ \/ UNCHANGED database
     \/ call[c].pc = "ensure" /\ Ensure(call[c].input.roster, call[c].input.algorithm)
  /\ UNCHANGED <<seated, late>>

\* The batch fails: it was executed, or it is not, or not yet.
ApplyFails(c) ==
  /\ "d1" \in Faults
  /\ call[c].pc = "apply"
  /\ call' = [call EXCEPT ![c].pc = "recover", ![c].seen = None]
  /\ \/ Execute(call[c].input, call[c].seen) /\ UNCHANGED late
     \/ UNCHANGED <<database, late>>
     \/ /\ Cardinality(late) < MaxLate
        /\ late' = late \cup {[input |-> call[c].input, seen |-> call[c].seen]}
        /\ UNCHANGED database
  /\ UNCHANGED seated

\* The result is applied, but the record cannot be read.
ConfirmFails(c) ==
  /\ "d1" \in Faults
  /\ call[c].pc = "confirm"
  /\ call' = [call EXCEPT ![c].pc = "recover"]
  /\ UNCHANGED <<database, seated, late>>

LateBatch(b) ==
  /\ Execute(b.input, b.seen)
  /\ late' = late \ {b}
  /\ UNCHANGED <<seated, call>>

\* Reading a rating creates its row.
GetRating(p, algorithm) ==
  /\ Ensure({p}, algorithm)
  /\ UNCHANGED <<seated, call, late>>

\* A participant's row of a match Room goes (leave, kick, grace period, deletion).
Departs(m, p) ==
  /\ p \in seated[m]
  /\ seated' = [seated EXCEPT ![m] = @ \ {p}]
  /\ UNCHANGED <<database, call, late>>

CallStep(c) ==
  \/ \E s \in Submission : Register(c, s) \/ GatewayRegister(c, s)
  \/ EnsureRows(c) \/ FindExisting(c) \/ ReadState(c) \/ Apply(c) \/ Confirm(c) \/ Recover(c)
  \/ Fails(c) \/ ApplyFails(c) \/ ConfirmFails(c)

Next ==
  \/ \E c \in Call : CallStep(c)
  \/ \E b \in late : LateBatch(b)
  \/ \E p \in Player, algorithm \in Algorithm : GetRating(p, algorithm)
  \/ \E m \in Match, p \in Player : Departs(m, p)

Spec == Init /\ [][Next]_vars
=============================================================================
