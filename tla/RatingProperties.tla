--------------------------- MODULE RatingProperties ---------------------------
(* What the registration of match results promises. *)
EXTENDS Rating

States == [version : [Player -> Nat \cup {None}], value : [Player -> SUBSET Match]]
Calls ==
  [pc : {"new", "ensure", "find", "read", "apply", "confirm", "resolve", "recover", "done"},
   input : Inputs \cup {None}, seen : States \cup {None}, attempt : Nat,
   error : {"failed", "conflict"},
   answer : {"applied", "known", "conflict", "failed", None}]

DatabaseOK ==
  /\ season \in Algorithm \cup {None}
  /\ version \in [Player -> Nat \cup {None}]
  /\ value \in [Player -> SUBSET Match]
  /\ matches \in [Match -> Inputs \cup {None}]
  /\ history \subseteq [match : Match, player : Player, version : Nat]

\* The types of all variables.
TypeOK ==
  /\ DatabaseOK
  /\ seated \in [Match -> SUBSET Player]
  /\ call \in [Call -> Calls]
  /\ late \subseteq [input : Inputs, seen : States]

\* The history of a player numbers the updates of its rating without a gap or a
\* repetition, and the rating was computed from exactly the matches it lists: no
\* update is lost or counted twice, however many Workers register at once.
RatingsFollowHistory ==
  /\ \A p \in Player : value[p] = {h.match : h \in {g \in history : g.player = p}}
  /\ \A h \in history : version[h.player] # None /\ h.version < version[h.player]
  /\ \A g, h \in history : g.player = h.player /\ g.version = h.version => g = h
  /\ \A p \in Player : version[p] # None =>
       \A v \in 0..version[p] : v < version[p] => \E h \in history : h.player = p /\ h.version = v

\* A match is entered with all its players or not at all.
MatchesWhole ==
  \A m \in Match :
    {h.player : h \in {g \in history : g.match = m}}
      = IF matches[m] = None THEN {} ELSE matches[m].roster

Says(row, i) ==
  /\ row.match = i.match /\ row.result = i.result /\ row.claim = i.claim
  /\ ~i.team => row.roster = i.roster

\* Who is answered with a match has registered it, or somebody else has with the
\* same content; and at most one call of a match is told that it applied it.
AnswersTrue ==
  /\ \A c \in Call : call[c].answer \in {"applied", "known"} =>
       \E row \in Rows : Says(row, call[c].input)
  /\ \A c, d \in Call :
       /\ call[c].answer = "applied" /\ call[d].answer = "applied"
       /\ call[c].input.match = call[d].input.match
       => c = d

\* A call repeats its attempt, and in the end gives up, only because that many
\* results of its own players were applied meanwhile: somebody always gets on.
RetriesHaveCause ==
  \A c \in Call : call[c].pc \in {"read", "apply", "recover"} =>
    LET overtaken == Cardinality({h \in history : h.player \in call[c].input.roster})
    IN  /\ call[c].attempt <= overtaken
        /\ call[c].error = "conflict" => MaxRetries < overtaken

\* The registration implements the ledger.
Ledger == INSTANCE RatingLedger WITH
  People <- Player, Lines <- {Input[s] : s \in Submission}, entered <- Rows, points <- value
ExactlyOnce == Ledger!Spec
-----------------------------------------------------------------------------
(* What the properties above rest on. *)

Submitted(i) == \E s \in Submission : i = Input[s]
Ensured(i) == \A p \in i.roster : version[p] # None

\* What was read of the ratings is not newer than they are, and true as long as
\* the version is the same.
SeenTrue(i, seen) ==
  \A p \in i.roster :
    /\ version[p] \in Nat
    /\ seen.version[p] \in Nat
    /\ seen.version[p] <= version[p]
    /\ seen.version[p] = version[p] => seen.value[p] = value[p]

RowsOK == \A m \in Match : matches[m] # None => matches[m].match = m /\ Submitted(matches[m])

CallOK(r) ==
  /\ r.pc # "new" => Submitted(r.input)
  /\ r.pc \in {"find", "read", "apply", "confirm", "resolve", "recover"} => Ensured(r.input)
  /\ r.pc = "apply" => r.seen \in States /\ SeenTrue(r.input, r.seen)
  /\ r.pc # "done" => r.answer \notin {"applied", "known"}

CallsOK == \A c \in Call : CallOK(call[c])

LateOK == \A b \in late : Submitted(b.input) /\ SeenTrue(b.input, b.seen)

TablesOK == DatabaseOK /\ RowsOK /\ MatchesWhole /\ RatingsFollowHistory
Inv == TypeOK /\ TablesOK /\ CallsOK /\ LateOK

\* Who was told, or is about to be told, that its call applied the match.
Credited(c) == call[c].pc = "confirm" \/ call[c].answer = "applied"

AnswersOK ==
  /\ \A c \in Call : call[c].pc \in {"confirm", "resolve"} \/ call[c].answer \in {"applied", "known"}
       => \E row \in Rows : Says(row, call[c].input)
  /\ \A c, d \in Call :
       Credited(c) /\ Credited(d) /\ call[c].input.match = call[d].input.match => c = d

\* The lines of history that players of i had when seen was read.
SeenLines(i, seen) == {h \in history : h.player \in i.roster /\ h.version < seen.version[h.player]}
Lines(i) == {h \in history : h.player \in i.roster}

\* A call that is about to apply has made no more attempts than there were lines
\* when it read; the others, no more than there are.
CauseOK(r) ==
  /\ r.pc \in {"new", "ensure", "find"} => r.attempt = 0
  /\ r.pc \in {"new", "ensure", "find", "read", "apply", "confirm"} => r.error = "failed"
  /\ r.pc \in {"read", "confirm", "recover"} => r.attempt <= Cardinality(Lines(r.input))
  /\ r.pc = "apply" => r.attempt <= Cardinality(SeenLines(r.input, r.seen))
  /\ r.pc = "recover" /\ r.error = "conflict" => MaxRetries < Cardinality(Lines(r.input))

CausesOK == IsFiniteSet(history) /\ \A c \in Call : CauseOK(call[c])

\* Two results of one team match have a player in common.
TeamsMeet ==
  \A s, t \in Submission :
    Input[s].match = Input[t].match /\ Input[s].team => Input[s].roster \cap Input[t].roster # {}
=============================================================================
