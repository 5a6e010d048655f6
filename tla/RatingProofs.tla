---------------------------- MODULE RatingProofs ----------------------------
(***************************************************************************)
(* Proofs about the registration of match results: ratings follow their    *)
(* history and a result counts once, for any number of Workers, matches    *)
(* and retries.                                                            *)
(***************************************************************************)
EXTENDS RatingProperties, FiniteSetTheorems, TLAPS

LEMMA SubmittedType ==
  ASSUME NEW i, Submitted(i)
  PROVE  /\ i \in Inputs
         /\ i.match \in Match /\ i.result \in Result /\ i.roster \subseteq Player
         /\ i.roster # {}
<1>1. PICK s \in Submission : i = Input[s]
  BY DEF Submitted
<1>2. i \in Inputs /\ i.roster # {}
  BY <1>1, RatingAssumption
<1> QED
  BY <1>2 DEF Inputs

\* A row is stored under its match.
LEMMA RowFacts ==
  ASSUME DatabaseOK, RowsOK, NEW row \in Rows
  PROVE  row.match \in Match /\ matches[row.match] = row /\ Submitted(row) /\ row # None
<1>1. PICK m \in Match : row = matches[m] /\ row # None
  BY DEF Rows
<1> QED
  BY <1>1 DEF RowsOK
-----------------------------------------------------------------------------
(* The batch. *)

\* The match that is there has participants, so a batch that does not insert it
\* cannot insert its participants either.
LEMMA NotMixed ==
  ASSUME TeamsMeet, DatabaseOK, RowsOK, MatchesWhole, NEW i, NEW seen, Submitted(i)
  PROVE  Outcome(i, seen) # "mixed"
<1> SUFFICES ASSUME Fits(i, seen) # i.roster, matches[i.match] # None
             PROVE  \E h \in history : h.match = i.match /\ (i.team => h.player \in i.roster)
  BY DEF Outcome
<1> DEFINE row == matches[i.match]
<1>1. i.match \in Match /\ Submitted(row) /\ row.match = i.match
  BY SubmittedType DEF RowsOK
<1>2. PICK s \in Submission, t \in Submission : i = Input[s] /\ row = Input[t]
  BY <1>1 DEF Submitted
<1>3. row.roster # {} /\ (i.team => i.roster \cap row.roster # {})
  <2>1. row.roster # {}
    BY <1>1, SubmittedType
  <2>2. i.team => i.roster \cap row.roster # {}
    BY <1>1, <1>2 DEF TeamsMeet
  <2> QED
    BY <2>1, <2>2
<1>4. {h.player : h \in {g \in history : g.match = i.match}} = row.roster
  BY <1>1 DEF MatchesWhole
<1>5. PICK p \in row.roster : i.team => p \in i.roster
  BY <1>3
<1>6. PICK h \in {g \in history : g.match = i.match} : h.player = p
  BY <1>4
<1> QED
  BY <1>5, <1>6

\* A batch that is applied finds every version as it was read, and neither its
\* match nor its result registered.
LEMMA AppliedFacts ==
  ASSUME DatabaseOK, RowsOK, NEW i, NEW seen, Submitted(i), SeenTrue(i, seen),
         Outcome(i, seen) = "applied"
  PROVE  /\ Fits(i, seen) = i.roster
         /\ \A row \in Rows : row.match # i.match /\ row.result # i.result
         /\ matches[i.match] = None
         /\ \A p \in i.roster : seen.version[p] = version[p] /\ seen.value[p] = value[p]
<1>1. Fits(i, seen) = i.roster /\ \A row \in Rows : row.match # i.match /\ row.result # i.result
  BY DEF Outcome
<1>2. matches[i.match] = None
  BY <1>1, SubmittedType DEF Rows, RowsOK
<1>3. \A p \in i.roster : seen.version[p] = version[p] /\ seen.value[p] = value[p]
  BY <1>1 DEF Fits, SeenTrue
<1> QED
  BY <1>1, <1>2, <1>3

\* A batch is applied or changes nothing.
LEMMA ExecuteEffect ==
  ASSUME TeamsMeet, DatabaseOK, RowsOK, MatchesWhole, NEW i, NEW seen, Submitted(i),
         SeenTrue(i, seen), Execute(i, seen)
  PROVE  \/ /\ Outcome(i, seen) # "applied"
            /\ UNCHANGED database
         \/ /\ Outcome(i, seen) = "applied"
            /\ season' = season
            /\ version' = [p \in Player |-> IF p \in i.roster THEN version[p] + 1 ELSE version[p]]
            /\ value' = [p \in Player |-> IF p \in i.roster THEN value[p] \cup {i.match}
                                          ELSE value[p]]
            /\ matches' = [matches EXCEPT ![i.match] = i]
            /\ history' = history \cup
                 {[match |-> i.match, version |-> version[p], player |-> p] : p \in i.roster}
<1>1. CASE Outcome(i, seen) # "applied"
  BY <1>1, NotMixed DEF Execute
<1>2. CASE Outcome(i, seen) = "applied"
  <2>1. /\ Fits(i, seen) = i.roster
        /\ \A p \in i.roster : seen.version[p] = version[p] /\ seen.value[p] = value[p]
    BY <1>2, AppliedFacts
  <2>2. /\ version' = [p \in Player |-> IF p \in Fits(i, seen) THEN version[p] + 1 ELSE version[p]]
        /\ value' = [p \in Player |-> IF p \in Fits(i, seen) THEN seen.value[p] \cup {i.match}
                                      ELSE value[p]]
        /\ matches' = [matches EXCEPT ![i.match] = i]
        /\ history' = history \cup
             {[match |-> i.match, version |-> seen.version[p], player |-> p] : p \in i.roster}
        /\ season' = season
    BY <1>2 DEF Execute
  <2>3. value' = [p \in Player |-> IF p \in i.roster THEN value[p] \cup {i.match} ELSE value[p]]
    BY <2>1, <2>2
  <2>4. {[match |-> i.match, version |-> seen.version[p], player |-> p] : p \in i.roster}
          = {[match |-> i.match, version |-> version[p], player |-> p] : p \in i.roster}
    BY <2>1
  <2> QED
    BY <1>2, <2>1, <2>2, <2>3, <2>4
<1> QED
  BY <1>1, <1>2

LEMMA ExecuteType ==
  ASSUME TeamsMeet, DatabaseOK, RowsOK, MatchesWhole, NEW i, NEW seen, Submitted(i),
         SeenTrue(i, seen), Execute(i, seen)
  PROVE  DatabaseOK' /\ RowsOK'
<1>1. CASE UNCHANGED database
  BY <1>1 DEF database, DatabaseOK, RowsOK
<1>2. CASE /\ season' = season
           /\ version' = [p \in Player |-> IF p \in i.roster THEN version[p] + 1 ELSE version[p]]
           /\ value' = [p \in Player |-> IF p \in i.roster THEN value[p] \cup {i.match}
                                         ELSE value[p]]
           /\ matches' = [matches EXCEPT ![i.match] = i]
           /\ history' = history \cup
                {[match |-> i.match, version |-> version[p], player |-> p] : p \in i.roster}
  <2>1. i \in Inputs /\ i.match \in Match /\ i.roster \subseteq Player
    BY SubmittedType
  <2>2. \A p \in i.roster : version[p] \in Nat
    BY DEF SeenTrue
  <2>3. version' \in [Player -> Nat \cup {None}]
    BY <1>2, <2>2 DEF DatabaseOK
  <2>4. value' \in [Player -> SUBSET Match]
    BY <1>2, <2>1 DEF DatabaseOK
  <2>5. matches' \in [Match -> Inputs \cup {None}]
    BY <1>2, <2>1 DEF DatabaseOK
  <2>6. history' \subseteq [match : Match, player : Player, version : Nat]
    BY <1>2, <2>1, <2>2 DEF DatabaseOK
  <2>7. RowsOK'
    BY <1>2, <2>1 DEF DatabaseOK, RowsOK
  <2> QED
    BY <1>2, <2>3, <2>4, <2>5, <2>6, <2>7 DEF DatabaseOK
<1> QED
  BY <1>1, <1>2, ExecuteEffect

LEMMA ExecuteWhole ==
  ASSUME TeamsMeet, DatabaseOK, RowsOK, MatchesWhole, NEW i, NEW seen, Submitted(i),
         SeenTrue(i, seen), Execute(i, seen)
  PROVE  MatchesWhole'
<1>1. CASE UNCHANGED database
  BY <1>1 DEF database, MatchesWhole
<1>2. CASE /\ Outcome(i, seen) = "applied"
           /\ matches' = [matches EXCEPT ![i.match] = i]
           /\ history' = history \cup
                {[match |-> i.match, version |-> version[p], player |-> p] : p \in i.roster}
  <2>1. i.match \in Match /\ i # None /\ matches[i.match] = None
    BY <1>2, SubmittedType, AppliedFacts, RatingAssumption
  <2>2. \A g \in history : g.match # i.match
    BY <2>1 DEF MatchesWhole
  <2>3. ASSUME NEW m \in Match, m # i.match
        PROVE  /\ matches'[m] = matches[m]
               /\ {g \in history' : g.match = m} = {g \in history : g.match = m}
    BY <1>2, <2>3 DEF DatabaseOK
  <2>4. matches'[i.match] = i
    BY <1>2, <2>1 DEF DatabaseOK
  <2>5. {h.player : h \in {g \in history' : g.match = i.match}} = i.roster
    <3> DEFINE line(p) == [match |-> i.match, version |-> version[p], player |-> p]
    <3>1. \A p : line(p).match = i.match /\ line(p).player = p
      OBVIOUS
    <3>2. history' = history \cup {line(p) : p \in i.roster}
      BY <1>2
    <3> HIDE DEF line
    <3>3. {g \in history' : g.match = i.match} = {line(p) : p \in i.roster}
      BY <2>2, <3>1, <3>2
    <3> QED
      BY <3>1, <3>3
  <2> QED
    BY <2>1, <2>3, <2>4, <2>5 DEF MatchesWhole
<1> QED
  BY <1>1, <1>2, ExecuteEffect

LEMMA ExecuteHistory ==
  ASSUME TeamsMeet, DatabaseOK, RowsOK, MatchesWhole, RatingsFollowHistory, NEW i, NEW seen,
         Submitted(i), SeenTrue(i, seen), Execute(i, seen)
  PROVE  RatingsFollowHistory'
<1>1. CASE UNCHANGED database
  BY <1>1 DEF database, RatingsFollowHistory
<1>2. CASE /\ version' = [p \in Player |-> IF p \in i.roster THEN version[p] + 1 ELSE version[p]]
           /\ value' = [p \in Player |-> IF p \in i.roster THEN value[p] \cup {i.match}
                                         ELSE value[p]]
           /\ history' = history \cup
                {[match |-> i.match, version |-> version[p], player |-> p] : p \in i.roster}
  <2> DEFINE line(p) == [match |-> i.match, version |-> version[p], player |-> p]
  <2>1. i.roster \subseteq Player /\ \A p \in i.roster : version[p] \in Nat
    BY SubmittedType DEF SeenTrue
  <2>2. \A p \in Player : version'[p] = IF p \in i.roster THEN version[p] + 1 ELSE version[p]
    BY <1>2
  <2>3. \A p \in Player : value'[p] = IF p \in i.roster THEN value[p] \cup {i.match} ELSE value[p]
    BY <1>2
  <2>4. /\ \A p \in i.roster : line(p) \in history'
        /\ \A h \in history' : h \in history \/ \E p \in i.roster : h = line(p)
        /\ history \subseteq history'
    BY <1>2
  <2>5. \A p \in i.roster :
           line(p).match = i.match /\ line(p).player = p /\ line(p).version = version[p]
    OBVIOUS
  <2>6. \A h \in history : h.player \in Player /\ h.version \in Nat
    BY DEF DatabaseOK
  <2>7. \A h \in history : version[h.player] \in Nat /\ h.version < version[h.player]
    BY <2>6, RatingAssumption DEF RatingsFollowHistory, DatabaseOK
  <2> HIDE DEF line
  <2>8. ASSUME NEW p \in Player
        PROVE  value'[p] = {h.match : h \in {g \in history' : g.player = p}}
    <3>1. value[p] = {h.match : h \in {g \in history : g.player = p}}
      BY DEF RatingsFollowHistory
    <3>2. CASE p \in i.roster
      <4>1. {g \in history' : g.player = p} = {g \in history : g.player = p} \cup {line(p)}
        BY <2>4, <2>5, <3>2
      <4>2. {h.match : h \in {g \in history : g.player = p} \cup {line(p)}}
              = {h.match : h \in {g \in history : g.player = p}} \cup {line(p).match}
        OBVIOUS
      <4> QED
        BY <2>3, <2>5, <3>1, <3>2, <4>1, <4>2
    <3>3. CASE p \notin i.roster
      <4>1. {g \in history' : g.player = p} = {g \in history : g.player = p}
        BY <2>4, <2>5, <3>3
      <4> QED
        BY <2>3, <3>1, <3>3, <4>1
    <3> QED
      BY <3>2, <3>3
  <2>9. ASSUME NEW h \in history'
        PROVE  version'[h.player] # None /\ h.version < version'[h.player]
    <3>1. CASE h \in history
      <4>1. version'[h.player] \in Nat /\ h.version < version'[h.player]
        BY <2>2, <2>6, <2>7, <3>1
      <4> QED
        BY <4>1, RatingAssumption
    <3>2. CASE \E p \in i.roster : h = line(p)
      <4>1. PICK p \in i.roster : h = line(p)
        BY <3>2
      <4>2. h.player = p /\ h.version = version[p] /\ version[p] \in Nat /\ p \in Player
        BY <2>1, <2>5, <4>1
      <4>3. version'[p] = version[p] + 1
        BY <2>2, <4>2
      <4>4. version'[p] \in Nat /\ h.version < version'[p]
        BY <4>2, <4>3
      <4> QED
        BY <4>2, <4>4, RatingAssumption
    <3> QED
      BY <2>4, <3>1, <3>2
  <2>10. ASSUME NEW g \in history', NEW h \in history',
                g.player = h.player, g.version = h.version
         PROVE  g = h
    <3>1. CASE g \in history /\ h \in history
      BY <2>10, <3>1 DEF RatingsFollowHistory
    <3>2. ASSUME NEW x \in history, NEW p \in i.roster, x.player = p PROVE x.version # version[p]
      BY <2>1, <2>6, <2>7, <3>2
    <3> QED
      BY <2>4, <2>5, <2>10, <3>1, <3>2
  <2>11. ASSUME NEW p \in Player, version'[p] # None, NEW v \in 0 .. version'[p], v < version'[p]
         PROVE  \E h \in history' : h.player = p /\ h.version = v
    <3>1. CASE p \in i.roster
      <4>1. version'[p] = version[p] + 1 /\ version[p] \in Nat
        BY <2>1, <2>2, <3>1
      <4>2. v = version[p] \/ (v \in 0 .. version[p] /\ v < version[p])
        BY <2>11, <4>1
      <4>3. CASE v = version[p]
        BY <2>4, <2>5, <3>1, <4>3
      <4>4. CASE v \in 0 .. version[p] /\ v < version[p]
        <5>1. version[p] # None
          BY <4>1, RatingAssumption
        <5> QED
          BY <2>4, <4>4, <5>1 DEF RatingsFollowHistory
      <4> QED
        BY <4>2, <4>3, <4>4
    <3>2. CASE p \notin i.roster
      <4>1. version'[p] = version[p]
        BY <2>2, <3>2
      <4> QED
        BY <2>4, <2>11, <4>1 DEF RatingsFollowHistory
    <3> QED
      BY <3>1, <3>2
  <2> QED
    BY <2>8, <2>9, <2>10, <2>11 DEF RatingsFollowHistory
<1> QED
  BY <1>1, <1>2, ExecuteEffect

\* What another call read stays true.
LEMMA ExecuteSeen ==
  ASSUME TeamsMeet, DatabaseOK, RowsOK, MatchesWhole, NEW i, NEW seen, Submitted(i),
         SeenTrue(i, seen), Execute(i, seen),
         NEW j, NEW read, Submitted(j)
  PROVE  /\ SeenTrue(j, read) => SeenTrue(j, read)'
         /\ Ensured(j) => Ensured(j)'
<1>1. j.roster \subseteq Player
  BY SubmittedType
<1>2. CASE UNCHANGED database
  BY <1>2 DEF database, SeenTrue, Ensured
<1>3. CASE /\ version' = [p \in Player |-> IF p \in i.roster THEN version[p] + 1 ELSE version[p]]
           /\ value' = [p \in Player |-> IF p \in i.roster THEN value[p] \cup {i.match}
                                         ELSE value[p]]
  <2>1. ASSUME NEW p \in Player, p \notin i.roster
        PROVE  version'[p] = version[p] /\ value'[p] = value[p]
    BY <1>3, <2>1
  <2>2. ASSUME NEW p \in i.roster, p \in Player
        PROVE  version[p] \in Nat /\ version'[p] = version[p] + 1
    BY <1>3, <2>2 DEF SeenTrue
  <2>3. ASSUME SeenTrue(j, read) PROVE SeenTrue(j, read)'
    <3> SUFFICES ASSUME NEW p \in j.roster
                 PROVE  /\ version'[p] \in Nat
                        /\ read.version[p] \in Nat
                        /\ read.version[p] <= version'[p]
                        /\ read.version[p] = version'[p] => read.value[p] = value'[p]
      BY DEF SeenTrue
    <3>1. /\ version[p] \in Nat /\ read.version[p] \in Nat /\ read.version[p] <= version[p]
          /\ read.version[p] = version[p] => read.value[p] = value[p]
      BY <2>3 DEF SeenTrue
    <3>2. CASE p \in i.roster
      BY <1>1, <2>2, <3>1, <3>2
    <3>3. CASE p \notin i.roster
      BY <1>1, <2>1, <3>1, <3>3
    <3> QED
      BY <3>2, <3>3
  <2>4. ASSUME Ensured(j), NEW p \in j.roster PROVE version'[p] # None
    <3>1. CASE p \in i.roster
      <4>1. version'[p] \in Nat
        BY <1>1, <2>2, <3>1
      <4> QED
        BY <4>1, RatingAssumption
    <3>2. CASE p \notin i.roster
      BY <1>1, <2>1, <2>4, <3>2 DEF Ensured
    <3> QED
      BY <3>1, <3>2
  <2> QED
    BY <2>3, <2>4 DEF Ensured
<1> QED
  BY <1>2, <1>3, ExecuteEffect

LEMMA ExecuteLedger ==
  ASSUME TeamsMeet, DatabaseOK, RowsOK, MatchesWhole, NEW i, NEW seen, Submitted(i),
         SeenTrue(i, seen), Execute(i, seen)
  PROVE  /\ [Ledger!Next]_(Ledger!ledger)
         /\ Rows \subseteq Rows'
         /\ Outcome(i, seen) = "applied" =>
              i \in Rows' /\ \A row \in Rows : row.match # i.match
<1>1. CASE Outcome(i, seen) # "applied" /\ UNCHANGED database
  BY <1>1 DEF database, Rows, Ledger!ledger
<1>2. CASE /\ Outcome(i, seen) = "applied"
           /\ value' = [p \in Player |-> IF p \in i.roster THEN value[p] \cup {i.match}
                                         ELSE value[p]]
           /\ matches' = [matches EXCEPT ![i.match] = i]
  <2>1. i.match \in Match /\ i # None
    BY SubmittedType, RatingAssumption
  <2>2. matches[i.match] = None /\ \A row \in Rows : row.match # i.match /\ row.result # i.result
    BY <1>2, AppliedFacts
  <2>3. Rows' = Rows \cup {i}
    BY <1>2, <2>1, <2>2 DEF Rows, DatabaseOK
  <2>4. Ledger!Enter(i)
    BY <1>2, <2>2, <2>3 DEF Ledger!Enter
  <2>5. i \in {Input[s] : s \in Submission}
    BY DEF Submitted
  <2> QED
    BY <2>2, <2>3, <2>4, <2>5 DEF Ledger!Next
<1> QED
  BY <1>1, <1>2, ExecuteEffect
-----------------------------------------------------------------------------
(* The rows of ratings that did not exist. *)

LEMMA EnsureEffect ==
  ASSUME DatabaseOK, RatingsFollowHistory, NEW ps, NEW algorithm \in Algorithm,
         Ensure(ps, algorithm)
  PROVE  /\ DatabaseOK'
         /\ RatingsFollowHistory'
         /\ UNCHANGED <<value, matches, history>>
         /\ \A p \in Player : version[p] # None => version'[p] = version[p]
         /\ \A p \in Player \cap ps : version'[p] # None
<1>1. /\ version' = [p \in Player |-> IF p \in ps /\ version[p] = None THEN 0 ELSE version[p]]
      /\ UNCHANGED <<value, matches, history>>
  BY DEF Ensure
<1>2. 0 # None
  BY RatingAssumption
<1>3. DatabaseOK'
  BY <1>1 DEF Ensure, DatabaseOK
<1>4. /\ \A p \in Player : version[p] # None => version'[p] = version[p]
      /\ \A p \in Player \cap ps : version'[p] # None
      /\ \A p \in Player : version'[p] = version[p] \/ version'[p] = 0
  BY <1>1, <1>2
<1>5. \A h \in history : h.player \in Player
  BY DEF DatabaseOK
<1>6. RatingsFollowHistory'
  <2>1. \A p \in Player : value'[p] = {h.match : h \in {g \in history' : g.player = p}}
    BY <1>1 DEF RatingsFollowHistory
  <2>2. \A h \in history' : version'[h.player] # None /\ h.version < version'[h.player]
    BY <1>1, <1>4, <1>5 DEF RatingsFollowHistory
  <2>3. \A g, h \in history' : g.player = h.player /\ g.version = h.version => g = h
    BY <1>1 DEF RatingsFollowHistory
  <2>4. ASSUME NEW p \in Player, version'[p] # None, NEW v \in 0 .. version'[p], v < version'[p]
        PROVE  \E h \in history' : h.player = p /\ h.version = v
    <3>1. version'[p] = version[p]
      BY <1>4, <2>4
    <3> QED
      BY <1>1, <2>4, <3>1 DEF RatingsFollowHistory
  <2> QED
    BY <2>1, <2>2, <2>3, <2>4 DEF RatingsFollowHistory
<1> QED
  BY <1>1, <1>3, <1>4, <1>6

LEMMA EnsureSeen ==
  ASSUME DatabaseOK, NEW j, NEW read, Submitted(j), UNCHANGED value,
         \A p \in Player : version[p] # None => version'[p] = version[p]
  PROVE  /\ SeenTrue(j, read) => SeenTrue(j, read)'
         /\ Ensured(j) => Ensured(j)'
<1>1. j.roster \subseteq Player
  BY SubmittedType
<1>2. \A p \in Player : version[p] \in Nat => version'[p] = version[p]
  BY RatingAssumption
<1> QED
  BY <1>1, <1>2 DEF SeenTrue, Ensured
-----------------------------------------------------------------------------
(* Every step. *)

\* What was read stays true, and rows of ratings stay.
StaysTrue ==
  \A j, read : Submitted(j) => /\ SeenTrue(j, read) => SeenTrue(j, read)'
                               /\ Ensured(j) => Ensured(j)'

Kept == TablesOK' /\ StaysTrue /\ [Ledger!Next]_(Ledger!ledger) /\ Rows \subseteq Rows'

LEMMA SameKeeps ==
  ASSUME TablesOK, UNCHANGED database
  PROVE  Kept
<1>1. UNCHANGED <<season, version, value, matches, history>>
  BY DEF database
<1>2. TablesOK'
  BY <1>1 DEF TablesOK, DatabaseOK, RowsOK, MatchesWhole, RatingsFollowHistory
<1>3. StaysTrue
  BY <1>1 DEF StaysTrue, SeenTrue, Ensured
<1>4. UNCHANGED Rows
  BY <1>1 DEF Rows
<1> QED
  BY <1>1, <1>2, <1>3, <1>4 DEF Kept, Ledger!ledger

LEMMA ExecuteKeeps ==
  ASSUME TeamsMeet, TablesOK, NEW i, NEW seen, Submitted(i), SeenTrue(i, seen), Execute(i, seen)
  PROVE  Kept
<1>1. DatabaseOK /\ RowsOK /\ MatchesWhole /\ RatingsFollowHistory
  BY DEF TablesOK
<1>2. TablesOK'
  BY <1>1, ExecuteType, ExecuteWhole, ExecuteHistory DEF TablesOK
<1>3. StaysTrue
  BY <1>1, ExecuteSeen DEF StaysTrue
<1> QED
  BY <1>1, <1>2, <1>3, ExecuteLedger DEF Kept

LEMMA EnsureKeeps ==
  ASSUME TablesOK, NEW ps, NEW algorithm \in Algorithm, Ensure(ps, algorithm)
  PROVE  Kept
<1>1. DatabaseOK /\ RowsOK /\ MatchesWhole /\ RatingsFollowHistory
  BY DEF TablesOK
<1>2. /\ DatabaseOK' /\ RatingsFollowHistory'
      /\ UNCHANGED <<value, matches, history>>
      /\ \A p \in Player : version[p] # None => version'[p] = version[p]
  BY <1>1, EnsureEffect
<1>3. RowsOK' /\ MatchesWhole'
  BY <1>1, <1>2 DEF RowsOK, MatchesWhole
<1>4. StaysTrue
  BY <1>1, <1>2, EnsureSeen DEF StaysTrue
<1>5. UNCHANGED Rows
  BY <1>2 DEF Rows
<1> QED
  BY <1>2, <1>3, <1>4, <1>5 DEF Kept, TablesOK, Ledger!ledger

\* What a call that was started stands for.
LEMMA CallFacts ==
  ASSUME Inv, NEW c \in Call
  PROVE  /\ call[c] \in Calls
         /\ CallOK(call[c])
         /\ call[c].pc # "new" => Submitted(call[c].input) /\ call[c].input.algorithm \in Algorithm
<1>1. call[c] \in Calls /\ CallOK(call[c])
  BY DEF Inv, TypeOK, CallsOK
<1>2. call[c].pc # "new" => Submitted(call[c].input)
  BY <1>1 DEF CallOK
<1>3. call[c].pc # "new" => call[c].input \in Inputs
  BY <1>2, SubmittedType
<1> QED
  BY <1>1, <1>2, <1>3 DEF Inputs

LEMMA TablesStep ==
  ASSUME TeamsMeet, Inv, Next
  PROVE  Kept
<1> USE DEF Inv
<1>1. CASE UNCHANGED database
  BY <1>1, SameKeeps
<1>2. ASSUME NEW c \in Call, EnsureRows(c) PROVE Kept
  <2>1. Ensure(call[c].input.roster, call[c].input.algorithm) /\ call[c].pc # "new"
    BY <1>2 DEF EnsureRows
  <2>2. call[c].input.algorithm \in Algorithm
    BY <2>1, CallFacts
  <2> QED
    BY <2>1, <2>2, EnsureKeeps
<1>3. ASSUME NEW c \in Call, Fails(c) PROVE Kept
  <2>1. CASE call[c].pc = "ensure" /\ Ensure(call[c].input.roster, call[c].input.algorithm)
    <3>1. call[c].input.algorithm \in Algorithm
      BY <2>1, CallFacts
    <3> QED
      BY <2>1, <3>1, EnsureKeeps
  <2> QED
    BY <1>1, <1>3, <2>1 DEF Fails
<1>4. ASSUME NEW c \in Call, call[c].pc = "apply", Execute(call[c].input, call[c].seen) PROVE Kept
  <2>1. Submitted(call[c].input) /\ SeenTrue(call[c].input, call[c].seen)
    BY <1>4, CallFacts DEF CallOK
  <2> QED
    BY <1>4, <2>1, ExecuteKeeps
<1>5. ASSUME NEW b \in late, LateBatch(b) PROVE Kept
  <2>1. Submitted(b.input) /\ SeenTrue(b.input, b.seen)
    BY DEF LateOK
  <2> QED
    BY <1>5, <2>1, ExecuteKeeps DEF LateBatch
<1>6. ASSUME NEW p \in Player, NEW algorithm \in Algorithm, GetRating(p, algorithm) PROVE Kept
  BY <1>6, EnsureKeeps DEF GetRating
<1>7. ASSUME NEW c \in Call, CallStep(c) PROVE Kept
  <2>1. ASSUME NEW s \in Submission, Register(c, s) \/ GatewayRegister(c, s) PROVE Kept
    BY <1>1, <2>1 DEF Register, GatewayRegister
  <2>2. CASE FindExisting(c) \/ ReadState(c) \/ Confirm(c) \/ Recover(c) \/ ConfirmFails(c)
    BY <1>1, <2>2 DEF FindExisting, ReadState, Confirm, Recover, ConfirmFails
  <2>3. CASE Apply(c)
    BY <1>4, <2>3 DEF Apply
  <2>4. CASE ApplyFails(c)
    BY <1>1, <1>4, <2>4 DEF ApplyFails
  <2> QED
    BY <1>2, <1>3, <1>7, <2>1, <2>2, <2>3, <2>4 DEF CallStep
<1>8. ASSUME NEW m \in Match, NEW p \in Player, Departs(m, p) PROVE Kept
  BY <1>1, <1>8 DEF Departs
<1> QED
  BY <1>5, <1>6, <1>7, <1>8 DEF Next
-----------------------------------------------------------------------------
(* The calls and the late batches. *)

\* One call moves to r, the others see what stays true.
LEMMA CallMoves ==
  ASSUME Inv, StaysTrue, NEW c \in Call, NEW r \in Calls, call' = [call EXCEPT ![c] = r],
         CallOK(r)'
  PROVE  call' \in [Call -> Calls] /\ CallsOK'
<1>1. call \in [Call -> Calls] /\ CallsOK
  BY DEF Inv, TypeOK
<1>2. call' \in [Call -> Calls]
  BY <1>1
<1>3. ASSUME NEW d \in Call, d # c PROVE CallOK(call[d])'
  <2>1. PICK q : q = call[d]
    OBVIOUS
  <2>2. call'[d] = q /\ CallOK(q)
    BY <1>1, <1>3, <2>1 DEF CallsOK
  <2>3. /\ q.pc # "new" => Submitted(q.input)
        /\ Submitted(q.input) => /\ Ensured(q.input) => Ensured(q.input)'
                                 /\ SeenTrue(q.input, q.seen) => SeenTrue(q.input, q.seen)'
    BY <2>2 DEF CallOK, StaysTrue
  <2>4. CallOK(q)'
    BY <2>2, <2>3 DEF CallOK
  <2> QED
    BY <2>2, <2>4
<1>4. call'[c] = r
  BY <1>1
<1> QED
  BY <1>2, <1>3, <1>4 DEF CallsOK

\* What a step gives the call it is about.
Moves(c, r) == call' = [call EXCEPT ![c] = r] /\ r \in Calls /\ CallOK(r)'

LEMMA NewCall ==
  /\ New \in Calls
  /\ \A i \in Inputs, a \in {"applied", "known", "conflict", "failed"} :
       [New EXCEPT !.pc = "done", !.input = i, !.answer = a] \in Calls
BY DEF New, Calls

\* The end of a call.
LEMMA AnsweredMoves ==
  ASSUME Inv, NEW c \in Call, call[c].pc # "new",
         NEW a \in {"applied", "known", "conflict", "failed"}, NEW r, r = Answered(c, a)
  PROVE  r \in Calls /\ CallOK(r)'
<1>1. Submitted(call[c].input) /\ call[c].input \in Inputs
  BY CallFacts, SubmittedType
<1>2. r \in Calls
  BY <1>1, NewCall DEF Answered
<1>3. r.pc = "done" /\ r.input = call[c].input
  BY DEF Answered, New
<1>4. Submitted(r.input)
  BY <1>1, <1>3
<1> QED
  BY <1>2, <1>3, <1>4 DEF CallOK, Submitted

\* What a call that starts becomes.
Started(c, s, r) ==
  /\ call' = [call EXCEPT ![c] = r]
  /\ \/ r = [call[c] EXCEPT !.pc = "ensure", !.input = Input[s]]
     \/ r = [New EXCEPT !.pc = "done", !.input = Input[s], !.answer = "conflict"]
     \/ r = [New EXCEPT !.pc = "ensure", !.input = Input[s]]

LEMMA CallStarted ==
  ASSUME NEW c \in Call, NEW s \in Submission, call \in [Call -> Calls],
         Register(c, s) \/ GatewayRegister(c, s)
  PROVE  \E r : Started(c, s, r)
<1>1. CASE Register(c, s)
  <2>1. call' = [call EXCEPT ![c] = [call[c] EXCEPT !.pc = "ensure", !.input = Input[s]]]
    BY <1>1 DEF Register, Calls
  <2> QED
    BY <2>1 DEF Started
<1>2. CASE GatewayRegister(c, s)
  <2>1. \/ call' = [call EXCEPT ![c] = [New EXCEPT !.pc = "done", !.input = Input[s], !.answer = "conflict"]]
        \/ call' = [call EXCEPT ![c] = [New EXCEPT !.pc = "ensure", !.input = Input[s]]]
    BY <1>2, ZenonT(30) DEF GatewayRegister
  <2> QED
    BY <2>1 DEF Started
<1> QED
  BY <1>1, <1>2

LEMMA CallStarts ==
  ASSUME Inv, NEW c \in Call, NEW s \in Submission, Register(c, s) \/ GatewayRegister(c, s)
  PROVE  \E r : Moves(c, r)
<1>1. call[c] \in Calls /\ CallOK(call[c]) /\ call[c].pc = "new"
  BY CallFacts DEF Register, GatewayRegister
<1>2. Input[s] \in Inputs /\ Submitted(Input[s])
  BY RatingAssumption DEF Submitted
<1>3. PICK r : Started(c, s, r)
  BY CallStarted DEF Inv, TypeOK
<1>4. r \in Calls
  <2>1. [call[c] EXCEPT !.pc = "ensure", !.input = Input[s]] \in Calls
    BY <1>1, <1>2 DEF Calls
  <2>2. [New EXCEPT !.pc = "ensure", !.input = Input[s]] \in Calls
    BY <1>2, NewCall DEF Calls
  <2> QED
    BY <1>2, <1>3, <2>1, <2>2, NewCall DEF Started
<1>5. r.input = Input[s] /\ r.pc \in {"ensure", "done"}
  BY <1>1, <1>2, <1>3 DEF Calls, New, Started
<1>6. r.pc = "ensure" => r.answer \notin {"applied", "known"}
  <2>1. None \notin {"applied", "known"}
    BY RatingAssumption
  <2>2. call[c].answer \notin {"applied", "known"}
    BY <1>1 DEF CallOK
  <2> QED
    BY <1>1, <1>3, <2>1, <2>2 DEF Calls, New, Started
<1>7. Submitted(r.input)
  BY <1>2, <1>5
<1> QED
  BY <1>3, <1>4, <1>5, <1>6, <1>7 DEF Moves, CallOK, Submitted, Started

\* A call that found a row.
LEMMA FoundMoves ==
  ASSUME Inv, StaysTrue, NEW c \in Call, call[c].pc \in {"find", "recover"}, NEW row, NEW r,
         r = Found(c, row)
  PROVE  r \in Calls /\ CallOK(r)'
<1>1. CASE r = Answered(c, "conflict")
  BY <1>1, AnsweredMoves
<1>2. CASE r = [call[c] EXCEPT !.pc = "resolve", !.seen = None]
  <2>1. call[c] \in Calls /\ CallOK(call[c])
    BY CallFacts
  <2>2. r \in Calls /\ r.pc = "resolve" /\ r.input = call[c].input /\ r.answer = call[c].answer
    BY <1>2, <2>1 DEF Calls
  <2>3. Submitted(r.input) /\ Ensured(r.input) /\ r.answer \notin {"applied", "known"}
    BY <2>1, <2>2 DEF CallOK
  <2>4. Ensured(r.input)'
    BY <2>3 DEF StaysTrue
  <2> QED
    BY <2>2, <2>3, <2>4 DEF CallOK, Submitted
<1> QED
  BY <1>1, <1>2 DEF Found

\* A call that goes on to pc within its attempts.
LEMMA GoesOn ==
  ASSUME Inv, StaysTrue, NEW c \in Call,
         call[c].pc \in {"find", "read", "apply", "confirm", "recover"},
         NEW r \in Calls, r.input = call[c].input, r.answer = call[c].answer,
         r.pc \in {"find", "read", "confirm", "resolve", "recover"}
  PROVE  CallOK(r)'
<1>1. CallOK(call[c])
  BY CallFacts
<1>2. Submitted(r.input) /\ Ensured(r.input) /\ r.answer \notin {"applied", "known"}
  BY <1>1 DEF CallOK
<1>3. Ensured(r.input)'
  BY <1>2 DEF StaysTrue
<1> QED
  BY <1>2, <1>3 DEF CallOK, Submitted

LEMMA CallReads ==
  ASSUME Inv, StaysTrue, NEW c \in Call, ReadState(c)
  PROVE  \E r : Moves(c, r)
<1>1. call[c].pc = "read" /\ call[c] \in Calls /\ CallOK(call[c])
  BY CallFacts DEF ReadState
<1>2. PICK r : /\ call' = [call EXCEPT ![c] = r]
               /\ \/ r = Answered(c, "conflict")
                  \/ r = [call[c] EXCEPT !.pc = "apply", !.seen = State(call[c].input)]
  BY DEF ReadState
<1>3. CASE r = Answered(c, "conflict")
  BY <1>1, <1>2, <1>3, AnsweredMoves DEF Moves
<1>4. CASE r = [call[c] EXCEPT !.pc = "apply", !.seen = State(call[c].input)]
  <2>1. DatabaseOK
    BY DEF Inv, TablesOK
  <2>2. State(call[c].input) \in States
    BY <2>1, RatingAssumption DEF State, States, DatabaseOK
  <2>3. /\ r \in Calls /\ r.pc = "apply" /\ r.input = call[c].input
        /\ r.answer = call[c].answer /\ r.seen = State(call[c].input)
    BY <1>1, <1>4, <2>2 DEF Calls
  <2>4. Submitted(r.input) /\ Ensured(r.input) /\ r.answer \notin {"applied", "known"}
    BY <1>1, <2>3 DEF CallOK
  <2>5. r.input.roster \subseteq Player
    BY <2>4, SubmittedType
  <2>6. SeenTrue(r.input, r.seen)
    <3> SUFFICES ASSUME NEW p \in r.input.roster
                 PROVE  /\ version[p] \in Nat
                        /\ r.seen.version[p] = version[p]
                        /\ r.seen.value[p] = value[p]
      BY DEF SeenTrue
    <3>1. version[p] \in Nat
      BY <2>1, <2>4, <2>5 DEF Ensured, DatabaseOK
    <3>2. r.seen.version[p] = version[p] /\ r.seen.value[p] = value[p]
      BY <2>3, <2>5 DEF State
    <3> QED
      BY <3>1, <3>2
  <2>7. Ensured(r.input)' /\ SeenTrue(r.input, r.seen)'
    BY <2>4, <2>6 DEF StaysTrue
  <2> QED
    BY <1>2, <2>2, <2>3, <2>4, <2>7 DEF Moves, CallOK, Submitted
<1> QED
  BY <1>2, <1>3, <1>4

\* The call after its batch: confirmed, to be repeated or to be recovered.
LEMMA CallApplies ==
  ASSUME Inv, StaysTrue, NEW c \in Call, Apply(c) \/ ApplyFails(c)
  PROVE  \E r : Moves(c, r)
<1>1. call[c].pc = "apply" /\ call[c] \in Calls
  BY CallFacts DEF Apply, ApplyFails
<1>2. PICK r : /\ call' = [call EXCEPT ![c] = r]
               /\ \/ r = [call[c] EXCEPT !.pc = "confirm", !.seen = None]
                  \/ r = [call[c] EXCEPT !.pc = "recover", !.seen = None]
                  \/ r = [call[c] EXCEPT !.pc = "read", !.attempt = @ + 1, !.seen = None]
                  \/ r = [call[c] EXCEPT !.pc = "recover", !.error = "conflict", !.seen = None]
  <2>1. CASE Apply(c)
    <3> DEFINE q == IF Outcome(call[c].input, call[c].seen) = "applied"
                    THEN [call[c] EXCEPT !.pc = "confirm", !.seen = None]
                    ELSE IF Outcome(call[c].input, call[c].seen) = "duplicate"
                    THEN [call[c] EXCEPT !.pc = "recover", !.seen = None]
                    ELSE NextAttempt(c)
    <3>1. call' = [call EXCEPT ![c] = q]
      BY <2>1 DEF Apply
    <3>2. \/ q = [call[c] EXCEPT !.pc = "confirm", !.seen = None]
          \/ q = [call[c] EXCEPT !.pc = "recover", !.seen = None]
          \/ q = [call[c] EXCEPT !.pc = "read", !.attempt = @ + 1, !.seen = None]
          \/ q = [call[c] EXCEPT !.pc = "recover", !.error = "conflict", !.seen = None]
      BY DEF NextAttempt
    <3> HIDE DEF q
    <3> QED
      BY <3>1, <3>2
  <2>2. CASE ApplyFails(c)
    <3>1. call' = [call EXCEPT ![c] = [call[c] EXCEPT !.pc = "recover", !.seen = None]]
      BY <1>1, <2>2 DEF ApplyFails, Calls
    <3> QED
      BY <3>1
  <2> QED
    BY <2>1, <2>2
<1>3. r.input = call[c].input /\ r.answer = call[c].answer /\ r.pc \in {"confirm", "recover", "read"}
  BY <1>1, <1>2 DEF Calls
<1>4. r \in Calls
  <2>1. call[c].attempt + 1 \in Nat
    BY <1>1 DEF Calls
  <2>2. [call[c] EXCEPT !.pc = "confirm", !.seen = None] \in Calls
    BY <1>1 DEF Calls
  <2>3. [call[c] EXCEPT !.pc = "recover", !.seen = None] \in Calls
    BY <1>1 DEF Calls
  <2>4. [call[c] EXCEPT !.pc = "read", !.attempt = @ + 1, !.seen = None] \in Calls
    BY <1>1, <2>1 DEF Calls
  <2>5. [call[c] EXCEPT !.pc = "recover", !.error = "conflict", !.seen = None] \in Calls
    BY <1>1 DEF Calls
  <2> QED
    BY <1>2, <2>2, <2>3, <2>4, <2>5
<1>5. CallOK(r)'
  BY <1>1, <1>3, <1>4, GoesOn
<1> QED
  BY <1>2, <1>4, <1>5 DEF Moves

\* Every other step of a call.
LEMMA CallContinues ==
  ASSUME Inv, StaysTrue, NEW c \in Call,
         \/ EnsureRows(c) \/ FindExisting(c) \/ Confirm(c) \/ Recover(c)
         \/ Fails(c) \/ ConfirmFails(c)
  PROVE  \E r : Moves(c, r)
<1>1. call[c] \in Calls /\ CallOK(call[c]) /\ call[c].pc # "new"
  BY CallFacts DEF EnsureRows, FindExisting, Confirm, Recover, Fails, ConfirmFails
<1>2. ASSUME NEW a \in {"applied", "known", "conflict", "failed"},
             call' = [call EXCEPT ![c] = Answered(c, a)]
      PROVE  \E r : Moves(c, r)
  <2>1. PICK r : r = Answered(c, a)
    OBVIOUS
  <2> QED
    BY <1>1, <1>2, <2>1, AnsweredMoves DEF Moves
<1>3. ASSUME NEW row, call' = [call EXCEPT ![c] = Found(c, row)],
             call[c].pc \in {"find", "recover"}
      PROVE  \E r : Moves(c, r)
  <2>1. PICK r : r = Found(c, row)
    OBVIOUS
  <2> QED
    BY <1>3, <2>1, FoundMoves DEF Moves
<1>4. ASSUME NEW pc \in {"find", "read", "recover"}, call' = [call EXCEPT ![c].pc = pc],
             call[c].pc \in {"find", "confirm"}
      PROVE  \E r : Moves(c, r)
  <2>1. PICK r : r = [call[c] EXCEPT !.pc = pc]
    OBVIOUS
  <2>2. call' = [call EXCEPT ![c] = r]
    BY <1>4, <2>1
  <2>3. r \in Calls /\ r.input = call[c].input /\ r.answer = call[c].answer /\ r.pc = pc
    BY <1>1, <2>1 DEF Calls
  <2>4. CallOK(r)'
    BY <1>4, <2>3, GoesOn
  <2> QED
    BY <2>2, <2>3, <2>4 DEF Moves
<1>5. CASE EnsureRows(c)
  <2>1. PICK r : r = [call[c] EXCEPT !.pc = "find"]
    OBVIOUS
  <2>2. call' = [call EXCEPT ![c] = r] /\ call[c].pc = "ensure"
    BY <1>5, <2>1 DEF EnsureRows
  <2>3. r \in Calls /\ r.input = call[c].input /\ r.answer = call[c].answer /\ r.pc = "find"
    BY <1>1, <2>1 DEF Calls
  <2>4. Submitted(r.input) /\ r.answer \notin {"applied", "known"}
    BY <1>1, <2>2, <2>3 DEF CallOK
  <2>5. Ensured(r.input)'
    <3>1. DatabaseOK /\ RatingsFollowHistory
      BY DEF Inv, TablesOK
    <3>2. PICK i : i = call[c].input
      OBVIOUS
    <3>3. Submitted(i) /\ i.algorithm \in Algorithm /\ i.roster \subseteq Player
      BY <2>2, <3>2, CallFacts, SubmittedType
    <3>4. Ensure(i.roster, i.algorithm)
      BY <1>5, <3>2 DEF EnsureRows
    <3>5. \A p \in Player \cap i.roster : version'[p] # None
      BY <3>1, <3>3, <3>4, EnsureEffect
    <3> QED
      BY <2>3, <3>2, <3>3, <3>5 DEF Ensured
  <2> QED
    BY <2>2, <2>3, <2>4, <2>5 DEF Moves, CallOK, Submitted
<1>6. CASE FindExisting(c)
  <2>1. call[c].pc = "find"
    BY <1>6 DEF FindExisting
  <2>2. CASE call' = [call EXCEPT ![c].pc = "read"]
    BY <1>4, <2>1, <2>2
  <2>3. CASE call' = [call EXCEPT ![c] = Found(c, Existing(call[c].input))]
    <3>1. PICK row : row = Existing(call[c].input)
      OBVIOUS
    <3> QED
      BY <1>3, <2>1, <2>3, <3>1
  <2> QED
    BY <1>6, <2>2, <2>3 DEF FindExisting
<1>7. CASE Confirm(c)
  BY <1>2, <1>7 DEF Confirm
<1>8. CASE Recover(c)
  <2>1. call[c].pc = "recover" /\ call[c].error \in {"failed", "conflict"}
    BY <1>1, <1>8 DEF Recover, Calls
  <2>2. PICK row, a : row = Existing(call[c].input) /\ a = call[c].error
    OBVIOUS
  <2>3. call' = [call EXCEPT ![c] = IF row = None THEN Answered(c, a) ELSE Found(c, row)]
    BY <1>8, <2>2 DEF Recover
  <2>4. a \in {"applied", "known", "conflict", "failed"}
    BY <2>1, <2>2
  <2> QED
    BY <1>2, <1>3, <2>1, <2>3, <2>4
<1>9. CASE Fails(c)
  BY <1>2, <1>9 DEF Fails
<1>10. CASE ConfirmFails(c)
  BY <1>4, <1>10 DEF ConfirmFails
<1> QED
  BY <1>5, <1>6, <1>7, <1>8, <1>9, <1>10

LEMMA CallsStep ==
  ASSUME TeamsMeet, Inv, Next
  PROVE  call' \in [Call -> Calls] /\ CallsOK'
<1>1. StaysTrue
  BY TablesStep DEF Kept
<1>2. ASSUME NEW c \in Call, CallStep(c) PROVE call' \in [Call -> Calls] /\ CallsOK'
  <2>1. PICK r : Moves(c, r)
    BY <1>1, <1>2, CallStarts, CallReads, CallApplies, CallContinues DEF CallStep
  <2> QED
    BY <1>1, <2>1, CallMoves DEF Moves
<1>3. CASE UNCHANGED call
  <2>1. ASSUME NEW d \in Call PROVE call[d] \in Calls /\ CallOK(call[d])'
    <3>1. PICK q : q = call[d]
      OBVIOUS
    <3>2. call'[d] = q /\ CallOK(q) /\ q \in Calls
      BY <1>3, <3>1, CallFacts
    <3>3. /\ q.pc # "new" => Submitted(q.input)
          /\ Submitted(q.input) => /\ Ensured(q.input) => Ensured(q.input)'
                                   /\ SeenTrue(q.input, q.seen) => SeenTrue(q.input, q.seen)'
      BY <1>1, <3>2 DEF CallOK, StaysTrue
    <3>4. CallOK(q)'
      BY <3>2, <3>3 DEF CallOK, Submitted
    <3> QED
      BY <3>1, <3>2, <3>4
  <2> QED
    BY <1>3, <2>1 DEF CallsOK, Inv, TypeOK
<1>4. ASSUME NEW b \in late, LateBatch(b) PROVE UNCHANGED call
  BY <1>4 DEF LateBatch
<1>5. ASSUME NEW p \in Player, NEW algorithm \in Algorithm, GetRating(p, algorithm)
      PROVE  UNCHANGED call
  BY <1>5 DEF GetRating
<1>6. ASSUME NEW m \in Match, NEW p \in Player, Departs(m, p) PROVE UNCHANGED call
  BY <1>6 DEF Departs
<1> QED
  BY <1>2, <1>3, <1>4, <1>5, <1>6 DEF Next

LEMMA LateStep ==
  ASSUME TeamsMeet, Inv, Next
  PROVE  late' \subseteq [input : Inputs, seen : States] /\ LateOK'
<1> DEFINE Line(b) == b \in [input : Inputs, seen : States]
           True(b) == Submitted(b.input) /\ SeenTrue(b.input, b.seen)
<1>1. StaysTrue
  BY TablesStep DEF Kept
<1>2. \A b \in late : Line(b) /\ True(b)
  BY DEF Inv, TypeOK, LateOK
<1>3. \A b \in late : True(b)'
  BY <1>1, <1>2 DEF StaysTrue, Submitted
<1>4. late' \subseteq late
      \/ \E c \in Call : /\ call[c].pc = "apply"
                        /\ late' = late \cup {[input |-> call[c].input, seen |-> call[c].seen]}
  <2>1. ASSUME NEW c \in Call, CallStep(c)
        PROVE  late' = late
               \/ (/\ call[c].pc = "apply"
                   /\ late' = late \cup {[input |-> call[c].input, seen |-> call[c].seen]})
    <3>1. CASE ApplyFails(c)
      BY <3>1 DEF ApplyFails
    <3> QED
      BY <2>1, <3>1 DEF CallStep, Register, GatewayRegister, EnsureRows, FindExisting, ReadState,
                        Apply, Confirm, Recover, Fails, ConfirmFails
  <2>2. ASSUME NEW b \in late, LateBatch(b) PROVE late' \subseteq late
    BY <2>2 DEF LateBatch
  <2>3. ASSUME NEW p \in Player, NEW algorithm \in Algorithm, GetRating(p, algorithm)
        PROVE  late' = late
    BY <2>3 DEF GetRating
  <2>4. ASSUME NEW m \in Match, NEW p \in Player, Departs(m, p) PROVE late' = late
    BY <2>4 DEF Departs
  <2> QED
    BY <2>1, <2>2, <2>3, <2>4 DEF Next
<1>5. CASE late' \subseteq late
  BY <1>2, <1>3, <1>5 DEF LateOK
<1>6. ASSUME NEW c \in Call, call[c].pc = "apply",
             late' = late \cup {[input |-> call[c].input, seen |-> call[c].seen]}
      PROVE  late' \subseteq [input : Inputs, seen : States] /\ LateOK'
  <2>1. PICK b : b = [input |-> call[c].input, seen |-> call[c].seen]
    OBVIOUS
  <2>2. b.input = call[c].input /\ b.seen = call[c].seen
    BY <2>1
  <2>3. Submitted(b.input) /\ b.seen \in States /\ SeenTrue(b.input, b.seen)
    BY <1>6, <2>2, CallFacts DEF CallOK
  <2>4. b.input \in Inputs
    BY <2>3, SubmittedType
  <2>5. Line(b)
    BY <2>1, <2>2, <2>3, <2>4
  <2>6. Submitted(b.input) /\ SeenTrue(b.input, b.seen)'
    BY <1>1, <2>3 DEF StaysTrue
  <2>7. True(b)'
    BY <2>6 DEF Submitted
  <2>8. late' = late \cup {b}
    BY <1>6, <2>1
  <2> QED
    BY <1>2, <1>3, <2>5, <2>7, <2>8 DEF LateOK
<1> QED
  BY <1>4, <1>5, <1>6

LEMMA SeatedStep ==
  ASSUME Inv, Next
  PROVE  seated' \in [Match -> SUBSET Player]
<1>1. seated \in [Match -> SUBSET Player]
  BY DEF Inv, TypeOK
<1>2. ASSUME NEW m \in Match, NEW p \in Player, Departs(m, p)
      PROVE  seated' \in [Match -> SUBSET Player]
  BY <1>1, <1>2 DEF Departs
<1>3. ASSUME NEW c \in Call, CallStep(c) PROVE UNCHANGED seated
  BY <1>3 DEF CallStep, Register, GatewayRegister, EnsureRows, FindExisting, ReadState,
              Apply, Confirm, Recover, Fails, ApplyFails, ConfirmFails
<1> QED
  BY <1>1, <1>2, <1>3 DEF Next, LateBatch, GetRating

LEMMA InitInv == Init => Inv
<1> SUFFICES ASSUME Init PROVE Inv
  OBVIOUS
<1>1. DatabaseOK
  BY DEF Init, DatabaseOK
<1>2. \A m \in Match : matches[m] = None
  BY DEF Init
<1>3. RowsOK
  BY <1>2 DEF RowsOK
<1>4. MatchesWhole
  BY <1>2 DEF Init, MatchesWhole
<1>5. RatingsFollowHistory
  BY DEF Init, RatingsFollowHistory
<1>6. New \in Calls /\ New.pc = "new" /\ New.answer = None
  BY NewCall DEF New
<1>7. call \in [Call -> Calls] /\ \A c \in Call : call[c] = New
  BY <1>6 DEF Init
<1>8. CallsOK
  BY <1>6, <1>7, RatingAssumption DEF CallsOK, CallOK
<1>9. seated \in [Match -> SUBSET Player]
  <2>1. \A s \in Submission : Input[s].roster \subseteq Player
    BY RatingAssumption DEF Inputs
  <2>2. \A m \in Match : Seats(m) \subseteq Player
    BY <2>1 DEF Seats
  <2> QED
    BY <2>2 DEF Init
<1>10. late = {}
  BY DEF Init
<1> QED
  BY <1>1, <1>3, <1>4, <1>5, <1>7, <1>8, <1>9, <1>10 DEF Inv, TypeOK, TablesOK, LateOK

LEMMA InvStep == ASSUME TeamsMeet, Inv, [Next]_vars PROVE Inv'
<1>1. CASE Next
  <2>1. TablesOK'
    BY <1>1, TablesStep DEF Kept
  <2>2. TypeOK'
    BY <1>1, <2>1, CallsStep, LateStep, SeatedStep DEF TypeOK, TablesOK
  <2> QED
    BY <1>1, <2>1, <2>2, CallsStep, LateStep DEF Inv
<1>2. CASE UNCHANGED vars
  <2>1. UNCHANGED <<season, version, value, matches, history, seated, call, late>>
    BY <1>2 DEF vars, database
  <2>2. TypeOK'
    BY <2>1 DEF Inv, TypeOK, DatabaseOK
  <2>3. TablesOK'
    BY <2>1 DEF Inv, TablesOK, DatabaseOK, RowsOK, MatchesWhole, RatingsFollowHistory
  <2>4. CallsOK'
    BY <2>1 DEF Inv, CallsOK, CallOK, Ensured, SeenTrue
  <2>5. LateOK'
    BY <2>1 DEF Inv, LateOK, SeenTrue
  <2> QED
    BY <2>2, <2>3, <2>4, <2>5 DEF Inv
<1> QED
  BY <1>1, <1>2

\* The inductive invariant holds of every database and every call, for any number
\* of Workers, retries and late batches, if two results of one team match always
\* have a player in common.
THEOREM RatingInvariant == ASSUME TeamsMeet PROVE Spec => []Inv
<1>1. Inv /\ [Next]_vars => Inv'
  BY InvStep
<1> QED
  BY <1>1, InitInv, PTL DEF Spec

\* The ratings are those of the matches in the history, each player's updates are
\* numbered without a gap (the batch of registerMatchResult and registerTeamMatchResult).
THEOREM RatingsAreSound ==
  ASSUME TeamsMeet PROVE Spec => []RatingsFollowHistory
<1>1. Inv => RatingsFollowHistory
  BY DEF Inv, TablesOK
<1> QED
  BY <1>1, RatingInvariant, PTL

\* The registration implements the ledger: a match and a result id are entered at
\* most once, with all players of the match in one step.
THEOREM CountedOnce == ASSUME TeamsMeet PROVE Spec => ExactlyOnce
<1>1. Init => Ledger!Init
  BY DEF Init, Rows, Ledger!Init
<1>2. Inv /\ [Next]_vars => [Ledger!Next]_(Ledger!ledger)
  <2>1. ASSUME Inv, Next PROVE [Ledger!Next]_(Ledger!ledger)
    BY <2>1, TablesStep DEF Kept
  <2>2. ASSUME UNCHANGED vars PROVE [Ledger!Next]_(Ledger!ledger)
    BY <2>2 DEF vars, database, Rows, Ledger!ledger
  <2> QED
    BY <2>1, <2>2
<1> QED
  BY <1>1, <1>2, RatingInvariant, PTL DEF Spec, ExactlyOnce, Ledger!Spec
-----------------------------------------------------------------------------
(* Answers. *)

\* What an answer, or a call about to give one, says of the rows.
Backed(r) ==
  r.pc \in {"confirm", "resolve"} \/ r.answer \in {"applied", "known"}
    => \E row \in Rows : Says(row, r.input)

Credit(r) == r.pc = "confirm" \/ r.answer = "applied"

\* Except for a batch that is applied, a step credits nobody new.
LEMMA AnswerMoves ==
  ASSUME Inv, AnswersOK, Rows \subseteq Rows', NEW c \in Call, NEW r,
         call' = [call EXCEPT ![c] = r], Backed(r),
         Credit(r) => Credited(c) /\ r.input = call[c].input
  PROVE  AnswersOK'
<1>1. call'[c] = r /\ \A d \in Call : d # c => call'[d] = call[d]
  BY DEF Inv, TypeOK
<1>2. \A d \in Call : Credited(d)' => Credited(d) /\ call'[d].input = call[d].input
  BY <1>1 DEF Credited, Credit
<1>3. \A d, e \in Call :
         Credited(d)' /\ Credited(e)' /\ call'[d].input.match = call'[e].input.match => d = e
  BY <1>2 DEF AnswersOK
<1>4. \A d \in Call : call'[d].pc \in {"confirm", "resolve"} \/ call'[d].answer \in {"applied", "known"}
         => \E row \in Rows' : Says(row, call'[d].input)
  BY <1>1 DEF AnswersOK, Backed
<1> QED
  BY <1>3, <1>4 DEF AnswersOK, Says, Credited

\* A call that gives no answer and confirms none.
LEMMA NoAnswer ==
  ASSUME Inv, AnswersOK, Rows \subseteq Rows', NEW c \in Call, NEW r,
         call' = [call EXCEPT ![c] = r], r.pc \notin {"confirm", "resolve"},
         r.answer \notin {"applied", "known"}
  PROVE  AnswersOK'
<1>1. Backed(r) /\ ~Credit(r)
  BY DEF Backed, Credit
<1> QED
  BY <1>1, AnswerMoves

LEMMA ExistingFacts ==
  ASSUME NEW i, Existing(i) # None
  PROVE  Existing(i) \in Rows
<1> DEFINE byMatch == {row \in Rows : row.match = i.match}
           byResult == {row \in Rows : row.result = i.result}
<1>1. CASE byMatch # {}
  <2>1. (CHOOSE row \in byMatch : TRUE) \in byMatch
    BY <1>1
  <2> QED
    BY <1>1, <2>1 DEF Existing
<1>2. CASE byMatch = {} /\ byResult # {}
  <2>1. (CHOOSE row \in byResult : TRUE) \in byResult
    BY <1>2
  <2> QED
    BY <1>2, <2>1 DEF Existing
<1>3. CASE byMatch = {} /\ byResult = {}
  BY <1>3 DEF Existing
<1> QED
  BY <1>1, <1>2, <1>3

LEMMA FoundAnswer ==
  ASSUME Inv, AnswersOK, Rows \subseteq Rows', NEW c \in Call,
         call[c].pc \in {"find", "recover"}, NEW row \in Rows,
         call' = [call EXCEPT ![c] = Found(c, row)]
  PROVE  AnswersOK'
<1>1. call[c] \in Calls /\ call[c].answer \notin {"applied", "known"}
  BY CallFacts DEF CallOK
<1>2. PICK r : r = Found(c, row)
  OBVIOUS
<1>3. CASE Agrees(row, call[c].input)
  <2>1. r.pc = "resolve" /\ r.input = call[c].input /\ r.answer = call[c].answer
    BY <1>1, <1>2, <1>3 DEF Found, Calls
  <2>2. Backed(r) /\ ~Credit(r)
    BY <1>1, <1>3, <2>1 DEF Backed, Credit, Says, Agrees
  <2> QED
    BY <1>2, <2>2, AnswerMoves
<1>4. CASE ~Agrees(row, call[c].input)
  <2>1. r.pc = "done" /\ r.answer = "conflict"
    BY <1>2, <1>4 DEF Found, Answered, New
  <2> QED
    BY <1>2, <2>1, NoAnswer
<1> QED
  BY <1>3, <1>4

\* A batch that was applied: nobody was credited with its match before.
LEMMA AppliedAnswer ==
  ASSUME TeamsMeet, Inv, AnswersOK, NEW c \in Call, Apply(c),
         Outcome(call[c].input, call[c].seen) = "applied"
  PROVE  AnswersOK'
<1>1. call[c] \in Calls /\ CallOK(call[c]) /\ call[c].pc = "apply"
  BY CallFacts DEF Apply
<1>2. PICK i, seen, r : /\ i = call[c].input /\ seen = call[c].seen
                        /\ r = [call[c] EXCEPT !.pc = "confirm", !.seen = None]
  OBVIOUS
<1>3. Submitted(i) /\ SeenTrue(i, seen) /\ Execute(i, seen) /\ Outcome(i, seen) = "applied"
  BY <1>1, <1>2 DEF CallOK, Apply
<1>4. DatabaseOK /\ RowsOK /\ MatchesWhole
  BY DEF Inv, TablesOK
<1>5. Rows \subseteq Rows' /\ i \in Rows' /\ \A row \in Rows : row.match # i.match
  BY <1>3, <1>4, ExecuteLedger
<1>6. call' = [call EXCEPT ![c] = r] /\ r.input = i /\ r.pc = "confirm"
  BY <1>1, <1>2, <1>3 DEF Apply, Calls
<1>7. call'[c] = r /\ \A d \in Call : d # c => call'[d] = call[d]
  BY <1>6 DEF Inv, TypeOK
<1>8. \A d \in Call : Credited(d) => call[d].input.match # i.match
  BY <1>5 DEF AnswersOK, Credited, Says
<1>9. ASSUME NEW d \in Call, NEW e \in Call, Credited(d)', Credited(e)',
             call'[d].input.match = call'[e].input.match
      PROVE  d = e
  <2>1. CASE d = c \/ e = c
    BY <1>6, <1>7, <1>8, <1>9, <2>1 DEF Credited
  <2>2. CASE d # c /\ e # c
    BY <1>7, <1>9, <2>2 DEF Credited, AnswersOK
  <2> QED
    BY <2>1, <2>2
<1>10. ASSUME NEW d \in Call,
              call'[d].pc \in {"confirm", "resolve"} \/ call'[d].answer \in {"applied", "known"}
       PROVE  \E row \in Rows' : Says(row, call'[d].input)
  <2>1. CASE d = c
    BY <1>5, <1>6, <1>7, <2>1 DEF Says
  <2>2. CASE d # c
    BY <1>5, <1>7, <1>10, <2>2 DEF AnswersOK
  <2> QED
    BY <2>1, <2>2
<1> QED
  BY <1>9, <1>10 DEF AnswersOK, Says, Credited

LEMMA AnswersStep == ASSUME TeamsMeet, Inv, AnswersOK, [Next]_vars PROVE AnswersOK'
<1>1. Rows \subseteq Rows'
  <2>1. CASE Next
    BY <2>1, TablesStep DEF Kept
  <2>2. CASE UNCHANGED vars
    BY <2>2 DEF vars, database, Rows
  <2> QED
    BY <2>1, <2>2
<1>2. CASE UNCHANGED call
  BY <1>1, <1>2 DEF AnswersOK, Says, Credited
<1>3. ASSUME NEW c \in Call, CallStep(c) PROVE AnswersOK'
  <2>1. call[c] \in Calls /\ CallOK(call[c])
    BY CallFacts
  <2>2. ASSUME NEW a \in {"failed", "conflict"}, call' = [call EXCEPT ![c] = Answered(c, a)]
        PROVE  AnswersOK'
    <3>1. PICK r : r = Answered(c, a)
      OBVIOUS
    <3>2. r.pc = "done" /\ r.answer = a
      BY <3>1 DEF Answered, New
    <3> QED
      BY <1>1, <2>2, <3>1, <3>2, NoAnswer
  <2>3. ASSUME NEW r, call' = [call EXCEPT ![c] = r], r.answer = call[c].answer,
               r.pc \notin {"confirm", "resolve"}, call[c].pc # "done"
        PROVE  AnswersOK'
    BY <1>1, <2>1, <2>3, NoAnswer DEF CallOK
  <2>4. ASSUME NEW s \in Submission, Register(c, s) \/ GatewayRegister(c, s) PROVE AnswersOK'
    <3>1. call[c].pc = "new"
      BY <2>4 DEF Register, GatewayRegister
    <3>2. PICK r : Started(c, s, r)
      BY <2>4, CallStarted DEF Inv, TypeOK
    <3>3. r.answer \in {call[c].answer, None, "conflict"} /\ r.pc \in {"ensure", "done"}
      BY <2>1, <3>2 DEF Calls, New, Started
    <3>4. r.answer \notin {"applied", "known"}
      BY <2>1, <3>1, <3>3, RatingAssumption DEF CallOK
    <3> QED
      BY <1>1, <3>2, <3>3, <3>4, NoAnswer DEF Started
  <2>5. CASE EnsureRows(c)
    <3>1. PICK r : r = [call[c] EXCEPT !.pc = "find"]
      OBVIOUS
    <3>2. call' = [call EXCEPT ![c] = r] /\ call[c].pc = "ensure"
      BY <2>5, <3>1 DEF EnsureRows
    <3>3. r.answer = call[c].answer /\ r.pc = "find"
      BY <2>1, <3>1 DEF Calls
    <3> QED
      BY <2>3, <3>2, <3>3
  <2>6. ASSUME NEW row, row = Existing(call[c].input), row # None,
               call[c].pc \in {"find", "recover"}, call' = [call EXCEPT ![c] = Found(c, row)]
        PROVE  AnswersOK'
    BY <1>1, <2>6, ExistingFacts, FoundAnswer
  <2>7. CASE FindExisting(c)
    <3>1. PICK row, r : row = Existing(call[c].input) /\ r = [call[c] EXCEPT !.pc = "read"]
      OBVIOUS
    <3>2. call[c].pc = "find" /\ call' = [call EXCEPT ![c] = IF row = None THEN r ELSE Found(c, row)]
      BY <2>7, <3>1 DEF FindExisting
    <3>3. r.answer = call[c].answer /\ r.pc = "read"
      BY <2>1, <3>1 DEF Calls
    <3> QED
      BY <2>3, <2>6, <3>1, <3>2, <3>3
  <2>8. CASE ReadState(c)
    <3>1. PICK r : r = [call[c] EXCEPT !.pc = "apply", !.seen = State(call[c].input)]
      OBVIOUS
    <3>2. r.answer = call[c].answer /\ r.pc = "apply"
      BY <2>1, <3>1 DEF Calls
    <3>3. call[c].pc = "read" /\ ( \/ call' = [call EXCEPT ![c] = Answered(c, "conflict")]
                                  \/ call' = [call EXCEPT ![c] = r])
      BY <2>8, <3>1 DEF ReadState
    <3> QED
      BY <2>2, <2>3, <3>2, <3>3
  <2>9. CASE Apply(c)
    <3>1. CASE Outcome(call[c].input, call[c].seen) = "applied"
      BY <2>9, <3>1, AppliedAnswer
    <3>2. CASE Outcome(call[c].input, call[c].seen) # "applied"
      <4>1. PICK r : /\ call' = [call EXCEPT ![c] = r]
                     /\ r = IF Outcome(call[c].input, call[c].seen) = "duplicate"
                            THEN [call[c] EXCEPT !.pc = "recover", !.seen = None]
                            ELSE NextAttempt(c)
        BY <2>9, <3>2 DEF Apply
      <4>2. r.answer = call[c].answer /\ r.pc \in {"recover", "read"}
        BY <2>1, <4>1 DEF NextAttempt, Calls
      <4>3. call[c].pc = "apply"
        BY <2>9 DEF Apply
      <4> QED
        BY <2>3, <4>1, <4>2, <4>3
    <3> QED
      BY <3>1, <3>2
  <2>10. CASE Confirm(c)
    <3>1. PICK a, r : /\ a = IF call[c].pc = "confirm" THEN "applied" ELSE "known"
                      /\ r = Answered(c, a)
      OBVIOUS
    <3>2. call' = [call EXCEPT ![c] = r] /\ call[c].pc \in {"confirm", "resolve"}
      BY <2>10, <3>1 DEF Confirm
    <3>3. r.pc = "done" /\ r.answer = a /\ r.input = call[c].input
      BY <3>1 DEF Answered, New
    <3>4. Backed(r)
      BY <3>2, <3>3 DEF AnswersOK, Backed
    <3>5. Credit(r) => Credited(c)
      BY <3>1, <3>2, <3>3 DEF Credit, Credited
    <3> QED
      BY <1>1, <3>2, <3>3, <3>4, <3>5, AnswerMoves
  <2>11. CASE Recover(c)
    <3>1. PICK row, a : row = Existing(call[c].input) /\ a = call[c].error
      OBVIOUS
    <3>2. call[c].pc = "recover" /\ a \in {"failed", "conflict"}
      BY <2>1, <2>11, <3>1 DEF Recover, Calls
    <3>3. call' = [call EXCEPT ![c] = IF row = None THEN Answered(c, a) ELSE Found(c, row)]
      BY <2>11, <3>1 DEF Recover
    <3> QED
      BY <2>2, <2>6, <3>1, <3>2, <3>3
  <2>12. CASE Fails(c)
    BY <2>2, <2>12 DEF Fails
  <2>13. CASE ApplyFails(c) \/ ConfirmFails(c)
    <3>1. PICK r : /\ r = [call[c] EXCEPT !.pc = "recover"]
                      \/ r = [call[c] EXCEPT !.pc = "recover", !.seen = None]
                   /\ call' = [call EXCEPT ![c] = r]
      <4>1. CASE ApplyFails(c)
        <5>1. call' = [call EXCEPT ![c] = [call[c] EXCEPT !.pc = "recover", !.seen = None]]
          BY <2>1, <4>1 DEF ApplyFails, Calls
        <5> QED
          BY <5>1
      <4>2. CASE ConfirmFails(c)
        <5>1. call' = [call EXCEPT ![c] = [call[c] EXCEPT !.pc = "recover"]]
          BY <2>1, <4>2 DEF ConfirmFails, Calls
        <5> QED
          BY <5>1
      <4> QED
        BY <2>13, <4>1, <4>2
    <3>2. r.answer = call[c].answer /\ r.pc = "recover"
      BY <2>1, <3>1 DEF Calls
    <3>3. call[c].pc \in {"apply", "confirm"}
      BY <2>13 DEF ApplyFails, ConfirmFails
    <3> QED
      BY <2>3, <3>1, <3>2, <3>3
  <2> QED
    BY <1>3, <2>4, <2>5, <2>7, <2>8, <2>9, <2>10, <2>11, <2>12, <2>13 DEF CallStep
<1>4. ASSUME ~(\E c \in Call : CallStep(c)) PROVE UNCHANGED call
  BY <1>4 DEF Next, LateBatch, GetRating, Departs, vars
<1> QED
  BY <1>2, <1>3, <1>4

\* A call that is answered with a match has a row that says the same, and at most one
\* call is told that it applied the match.
THEOREM AnswersAreTrue == ASSUME TeamsMeet PROVE Spec => []AnswersTrue
<1>1. Init => AnswersOK
  <2> SUFFICES ASSUME Init PROVE AnswersOK
    OBVIOUS
  <2>1. \A c \in Call : call[c].pc = "new" /\ call[c].answer = None
    BY DEF Init, New
  <2> QED
    BY <2>1, RatingAssumption DEF AnswersOK, Credited
<1>2. Inv /\ AnswersOK /\ [Next]_vars => AnswersOK'
  BY AnswersStep
<1>3. AnswersOK => AnswersTrue
  BY DEF AnswersOK, AnswersTrue, Credited
<1> QED
  BY <1>1, <1>2, <1>3, RatingInvariant, PTL DEF Spec
-----------------------------------------------------------------------------
(* Retries and refusals have a cause. *)

\* History only grows, by finitely many lines.
LEMMA HistoryGrows ==
  ASSUME TeamsMeet, Inv, IsFiniteSet(history), Next
  PROVE  IsFiniteSet(history') /\ history \subseteq history'
<1>0. DatabaseOK /\ RowsOK /\ MatchesWhole
  BY DEF Inv, TablesOK
<1>1. ASSUME NEW i, NEW seen, Submitted(i), SeenTrue(i, seen), Execute(i, seen)
      PROVE  IsFiniteSet(history') /\ history \subseteq history'
  <2>1. CASE UNCHANGED history
    BY <2>1
  <2>2. CASE history' = history \cup
               {[match |-> i.match, version |-> version[p], player |-> p] : p \in i.roster}
    <3> DEFINE line(p) == [match |-> i.match, version |-> version[p], player |-> p]
               lines == {line(p) : p \in i.roster}
    <3>1. IsFiniteSet(i.roster)
      BY <1>1, RatingAssumption DEF Submitted
    <3>2. PICK f : f = [p \in i.roster |-> line(p)]
      OBVIOUS
    <3>3. history' = history \cup lines
      BY <2>2
    <3> HIDE DEF line
    <3>4. f \in Surjection(i.roster, lines)
      BY <3>2 DEF Surjection
    <3>5. IsFiniteSet(lines)
      BY <3>1, <3>4, FS_Surjection
    <3> HIDE DEF lines
    <3> QED
      BY <3>3, <3>5, FS_Union
  <2> QED
    BY <1>0, <1>1, <2>1, <2>2, ExecuteEffect DEF database
<1>2. CASE UNCHANGED history
  BY <1>2
<1>3. ASSUME NEW c \in Call, CallStep(c)
      PROVE  IsFiniteSet(history') /\ history \subseteq history'
  <2>1. CASE call[c].pc = "apply" /\ Execute(call[c].input, call[c].seen)
    <3>1. Submitted(call[c].input) /\ SeenTrue(call[c].input, call[c].seen)
      BY <2>1, CallFacts DEF CallOK
    <3> QED
      BY <1>1, <2>1, <3>1
  <2>2. CASE Apply(c) \/ ApplyFails(c)
    BY <1>2, <2>1, <2>2 DEF Apply, ApplyFails, database
  <2>3. CASE EnsureRows(c) \/ Fails(c)
    BY <1>2, <2>3 DEF EnsureRows, Fails, Ensure, database
  <2>4. CASE \/ \E s \in Submission : Register(c, s) \/ GatewayRegister(c, s)
             \/ FindExisting(c) \/ ReadState(c) \/ Confirm(c) \/ Recover(c) \/ ConfirmFails(c)
    BY <1>2, <2>4 DEF Register, GatewayRegister, FindExisting, ReadState, Confirm, Recover,
                      ConfirmFails, database
  <2> QED
    BY <1>3, <2>2, <2>3, <2>4 DEF CallStep
<1>4. ASSUME NEW b \in late, LateBatch(b)
      PROVE  IsFiniteSet(history') /\ history \subseteq history'
  <2>1. Submitted(b.input) /\ SeenTrue(b.input, b.seen)
    BY DEF Inv, LateOK
  <2> QED
    BY <1>1, <1>4, <2>1 DEF LateBatch
<1>5. ASSUME NEW p \in Player, NEW algorithm \in Algorithm, GetRating(p, algorithm)
      PROVE  UNCHANGED history
  BY <1>5 DEF GetRating, Ensure
<1>6. ASSUME NEW m \in Match, NEW p \in Player, Departs(m, p)
      PROVE  UNCHANGED history
  BY <1>6 DEF Departs, database
<1> QED
  BY <1>2, <1>3, <1>4, <1>5, <1>6 DEF Next

\* Lines(i) and SeenLines(i, seen), of any history.
LinesOf(h, i) == {l \in h : l.player \in i.roster}
SeenOf(h, i, seen) == {l \in h : l.player \in i.roster /\ l.version < seen.version[l.player]}

\* CauseOK(r), of any history.
CauseIn(h, r) ==
  /\ r.pc \in {"new", "ensure", "find"} => r.attempt = 0
  /\ r.pc \in {"new", "ensure", "find", "read", "apply", "confirm"} => r.error = "failed"
  /\ r.pc \in {"read", "confirm", "recover"} => r.attempt <= Cardinality(LinesOf(h, r.input))
  /\ r.pc = "apply" => r.attempt <= Cardinality(SeenOf(h, r.input, r.seen))
  /\ r.pc = "recover" /\ r.error = "conflict" => MaxRetries < Cardinality(LinesOf(h, r.input))

LEMMA CausesAre ==
  /\ CausesOK <=> IsFiniteSet(history) /\ \A c \in Call : CauseIn(history, call[c])
  /\ CausesOK' <=> IsFiniteSet(history') /\ \A c \in Call : CauseIn(history', call'[c])
<1>1. /\ \A i : Lines(i) = LinesOf(history, i)
      /\ \A i, seen : SeenLines(i, seen) = SeenOf(history, i, seen)
  BY DEF Lines, SeenLines, LinesOf, SeenOf
<1>2. \A r : CauseOK(r) <=> CauseIn(history, r)
  BY <1>1 DEF CauseOK, CauseIn
<1>3. /\ \A c : Lines(call[c].input)' = LinesOf(history', call'[c].input)
      /\ \A c : SeenLines(call[c].input, call[c].seen)' = SeenOf(history', call'[c].input, call'[c].seen)
  BY DEF Lines, SeenLines, LinesOf, SeenOf
<1>4. \A c : CauseOK(call[c])' <=> CauseIn(history', call'[c])
  BY <1>3 DEF CauseOK, CauseIn
<1> QED
  BY <1>2, <1>4 DEF CausesOK

\* A cause stays one as history grows.
LEMMA LinesOrder ==
  ASSUME NEW g, IsFiniteSet(g), NEW h \in SUBSET g, NEW i, NEW seen
  PROVE  /\ Cardinality(LinesOf(h, i)) \in Nat /\ Cardinality(LinesOf(g, i)) \in Nat
         /\ Cardinality(SeenOf(h, i, seen)) \in Nat /\ Cardinality(SeenOf(g, i, seen)) \in Nat
         /\ Cardinality(LinesOf(h, i)) <= Cardinality(LinesOf(g, i))
         /\ Cardinality(SeenOf(h, i, seen)) <= Cardinality(SeenOf(g, i, seen))
         /\ Cardinality(SeenOf(g, i, seen)) <= Cardinality(LinesOf(g, i))
<1>1. /\ LinesOf(g, i) \in SUBSET g
      /\ LinesOf(h, i) \in SUBSET LinesOf(g, i) /\ SeenOf(g, i, seen) \in SUBSET LinesOf(g, i)
      /\ SeenOf(h, i, seen) \in SUBSET SeenOf(g, i, seen)
  BY DEF LinesOf, SeenOf
<1>2. IsFiniteSet(LinesOf(g, i))
  BY <1>1, FS_Subset
<1>3. IsFiniteSet(LinesOf(h, i)) /\ IsFiniteSet(SeenOf(g, i, seen))
  BY <1>1, <1>2, FS_Subset
<1>4. IsFiniteSet(SeenOf(h, i, seen))
  BY <1>1, <1>3, FS_Subset
<1>5. /\ Cardinality(LinesOf(h, i)) <= Cardinality(LinesOf(g, i))
      /\ Cardinality(SeenOf(g, i, seen)) <= Cardinality(LinesOf(g, i))
  BY <1>1, <1>2, FS_Subset
<1>6. Cardinality(SeenOf(h, i, seen)) <= Cardinality(SeenOf(g, i, seen))
  BY <1>1, <1>3, FS_Subset
<1> QED
  BY <1>2, <1>3, <1>4, <1>5, <1>6, FS_CardinalityType

LEMMA CauseStays ==
  ASSUME NEW g, IsFiniteSet(g), NEW h \in SUBSET g, NEW r, r.attempt \in Nat, CauseIn(h, r)
  PROVE  CauseIn(g, r)
<1>1. /\ Cardinality(LinesOf(h, r.input)) \in Nat /\ Cardinality(LinesOf(g, r.input)) \in Nat
      /\ Cardinality(SeenOf(h, r.input, r.seen)) \in Nat /\ Cardinality(SeenOf(g, r.input, r.seen)) \in Nat
      /\ Cardinality(LinesOf(h, r.input)) <= Cardinality(LinesOf(g, r.input))
      /\ Cardinality(SeenOf(h, r.input, r.seen)) <= Cardinality(SeenOf(g, r.input, r.seen))
  BY LinesOrder
<1>2. MaxRetries \in Nat
  BY RatingAssumption
<1> QED
  BY <1>1, <1>2 DEF CauseIn

\* A batch that is refused for its versions has been overtaken: a line is new
\* since they were read.
LEMMA StaleCause ==
  ASSUME TablesOK, IsFiniteSet(history), NEW i, NEW seen, Submitted(i), SeenTrue(i, seen),
         Fits(i, seen) # i.roster
  PROVE  Cardinality(SeenOf(history, i, seen)) < Cardinality(LinesOf(history, i))
<1>1. PICK p \in i.roster : version[p] # seen.version[p]
  BY DEF Fits
<1>2. /\ p \in Player /\ version[p] \in Nat /\ seen.version[p] \in Nat
      /\ seen.version[p] < version[p]
  BY <1>1, SubmittedType DEF SeenTrue
<1>3. version[p] # None /\ seen.version[p] \in 0..version[p]
  BY <1>2, RatingAssumption
<1>4. PICK l \in history : l.player = p /\ l.version = seen.version[p]
  BY <1>2, <1>3 DEF TablesOK, RatingsFollowHistory
<1>5. l \in LinesOf(history, i) /\ l \notin SeenOf(history, i, seen)
  BY <1>1, <1>2, <1>4 DEF LinesOf, SeenOf
<1>6. /\ LinesOf(history, i) \in SUBSET history
      /\ SeenOf(history, i, seen) \in SUBSET LinesOf(history, i)
  BY DEF LinesOf, SeenOf
<1>7. IsFiniteSet(LinesOf(history, i))
  BY <1>6, FS_Subset
<1>8. /\ Cardinality(SeenOf(history, i, seen)) <= Cardinality(LinesOf(history, i))
      /\ Cardinality(SeenOf(history, i, seen)) # Cardinality(LinesOf(history, i))
  BY <1>5, <1>6, <1>7, FS_Subset
<1>9. Cardinality(SeenOf(history, i, seen)) \in Nat /\ Cardinality(LinesOf(history, i)) \in Nat
  BY LinesOrder
<1> QED
  BY <1>8, <1>9

\* What is read of the ratings covers all lines.
LEMMA ReadCause ==
  ASSUME TablesOK, NEW i, Submitted(i), Ensured(i)
  PROVE  SeenOf(history, i, State(i)) = LinesOf(history, i)
<1>1. ASSUME NEW l \in history, l.player \in i.roster
      PROVE  l.version < State(i).version[l.player]
  <2>1. l.version < version[l.player] /\ l.player \in Player
    BY <1>1, SubmittedType DEF TablesOK, RatingsFollowHistory
  <2>2. State(i).version[l.player] = version[l.player]
    BY <1>1, <2>1 DEF State
  <2> QED
    BY <2>1, <2>2
<1> QED
  BY <1>1 DEF SeenOf, LinesOf

LEMMA CauseMoves ==
  ASSUME Inv, CausesOK, IsFiniteSet(history'), history \subseteq history',
         NEW c \in Call, NEW r, call' = [call EXCEPT ![c] = r], CauseIn(history', r)
  PROVE  CausesOK'
<1>1. call \in [Call -> Calls]
  BY DEF Inv, TypeOK
<1>2. ASSUME NEW d \in Call, d # c
      PROVE  CauseIn(history', call'[d])
  <2>1. call'[d] = call[d] /\ call[d].attempt \in Nat
    BY <1>1, <1>2 DEF Calls
  <2>2. CauseIn(history, call[d])
    BY CausesAre
  <2> QED
    BY <2>1, <2>2, CauseStays
<1>3. call'[c] = r
  BY <1>1
<1> QED
  BY <1>2, <1>3, CausesAre

\* A call that is over, or that found a row, has nothing to justify.
LEMMA EndedCause ==
  ASSUME NEW h, NEW r, r.pc \in {"done", "resolve"}
  PROVE  CauseIn(h, r)
BY DEF CauseIn

LEMMA AnsweredCause ==
  ASSUME NEW c, NEW a, NEW h
  PROVE  CauseIn(h, Answered(c, a))
<1>1. Answered(c, a).pc = "done"
  BY DEF Answered, New
<1> QED
  BY <1>1, EndedCause

LEMMA FoundCause ==
  ASSUME NEW c, call[c] \in Calls, NEW row, NEW h
  PROVE  CauseIn(h, Found(c, row))
<1>1. CASE Found(c, row) = Answered(c, "conflict")
  BY <1>1, AnsweredCause
<1>2. CASE Found(c, row) = [call[c] EXCEPT !.pc = "resolve", !.seen = None]
  <2>1. Found(c, row).pc = "resolve"
    BY <1>2 DEF Calls
  <2> QED
    BY <2>1, EndedCause
<1> QED
  BY <1>1, <1>2 DEF Found

\* What the record of call c becomes in a step, with what the step finds.
LEMMA ApplyCause ==
  ASSUME TeamsMeet, Inv, CausesOK, IsFiniteSet(history'), history \subseteq history',
         NEW c \in Call, Apply(c) \/ ApplyFails(c)
  PROVE  CausesOK'
<1> DEFINE i == call[c].input
           seen == call[c].seen
<1>0. /\ call[c] \in Calls /\ call[c].pc = "apply" /\ Submitted(i) /\ SeenTrue(i, seen)
      /\ CauseIn(history, call[c]) /\ TablesOK /\ IsFiniteSet(history)
  BY CallFacts, CausesAre DEF Apply, ApplyFails, CallOK, Inv
<1>1. /\ call[c].attempt \in Nat /\ call[c].error = "failed"
      /\ call[c].attempt <= Cardinality(SeenOf(history, i, seen))
  BY <1>0 DEF Calls, CauseIn
<1>2. /\ Cardinality(SeenOf(history, i, seen)) \in Nat
      /\ Cardinality(LinesOf(history, i)) \in Nat
      /\ Cardinality(LinesOf(history', i)) \in Nat
      /\ Cardinality(SeenOf(history, i, seen)) <= Cardinality(LinesOf(history, i))
      /\ Cardinality(LinesOf(history, i)) <= Cardinality(LinesOf(history', i))
  <2>1. history \in SUBSET history /\ history \in SUBSET history'
    OBVIOUS
  <2> QED
    BY <1>0, <2>1, LinesOrder
<1>3. ASSUME NEW pc \in {"confirm", "recover"},
             call' = [call EXCEPT ![c] = [call[c] EXCEPT !.pc = pc, !.seen = None]]
      PROVE  CausesOK'
  <2>1. PICK r : r = [call[c] EXCEPT !.pc = pc, !.seen = None]
    OBVIOUS
  <2>2. /\ r.pc = pc /\ r.attempt = call[c].attempt /\ r.error = "failed" /\ r.input = i
    BY <1>0, <1>1, <2>1 DEF Calls
  <2>3. CauseIn(history', r)
    BY <1>1, <1>2, <2>2 DEF CauseIn
  <2> QED
    BY <1>3, <2>1, <2>3, CauseMoves
<1>4. ASSUME Outcome(i, seen) \notin {"applied", "duplicate"},
             call' = [call EXCEPT ![c] = NextAttempt(c)]
      PROVE  CausesOK'
  <2>1. Fits(i, seen) # i.roster
    BY <1>4 DEF Outcome
  <2>2. Cardinality(SeenOf(history, i, seen)) < Cardinality(LinesOf(history, i))
    BY <1>0, <2>1, StaleCause
  <2>3. PICK r : r = NextAttempt(c)
    OBVIOUS
  <2>4. CASE call[c].attempt < MaxRetries
    <3>1. r = [call[c] EXCEPT !.pc = "read", !.attempt = @ + 1, !.seen = None]
      BY <2>3, <2>4 DEF NextAttempt
    <3>2. /\ r.pc = "read" /\ r.attempt = call[c].attempt + 1
          /\ r.error = "failed" /\ r.input = i
      BY <1>0, <1>1, <3>1 DEF Calls
    <3>3. CauseIn(history', r)
      BY <1>1, <1>2, <2>2, <3>2 DEF CauseIn
    <3> QED
      BY <1>4, <2>3, <3>3, CauseMoves
  <2>5. CASE ~(call[c].attempt < MaxRetries)
    <3>1. r = [call[c] EXCEPT !.pc = "recover", !.error = "conflict", !.seen = None]
      BY <2>3, <2>5 DEF NextAttempt
    <3>2. r.pc = "recover" /\ r.attempt = call[c].attempt /\ r.input = i
      BY <1>0, <3>1 DEF Calls
    <3>3. MaxRetries \in Nat
      BY RatingAssumption
    <3>4. CauseIn(history', r)
      BY <1>1, <1>2, <2>2, <2>5, <3>2, <3>3 DEF CauseIn
    <3> QED
      BY <1>4, <2>3, <3>4, CauseMoves
  <2> QED
    BY <2>4, <2>5
<1>5. CASE Apply(c)
  <2>1. CASE Outcome(i, seen) = "applied"
    <3>1. call' = [call EXCEPT ![c] = [call[c] EXCEPT !.pc = "confirm", !.seen = None]]
      BY <1>5, <2>1 DEF Apply
    <3> QED
      BY <1>3, <3>1
  <2>2. CASE Outcome(i, seen) = "duplicate"
    <3>1. call' = [call EXCEPT ![c] = [call[c] EXCEPT !.pc = "recover", !.seen = None]]
      BY <1>5, <2>2 DEF Apply
    <3> QED
      BY <1>3, <3>1
  <2>3. CASE Outcome(i, seen) \notin {"applied", "duplicate"}
    <3>1. call' = [call EXCEPT ![c] = NextAttempt(c)]
      BY <1>5, <2>3 DEF Apply
    <3> QED
      BY <1>4, <2>3, <3>1
  <2> QED
    BY <2>1, <2>2, <2>3
<1>6. CASE ApplyFails(c)
  <2>1. call' = [call EXCEPT ![c] = [call[c] EXCEPT !.pc = "recover", !.seen = None]]
    BY <1>0, <1>6 DEF ApplyFails, Calls
  <2> QED
    BY <1>3, <2>1
<1> QED
  BY <1>5, <1>6

LEMMA CallCause ==
  ASSUME TeamsMeet, Inv, CausesOK, IsFiniteSet(history'), history \subseteq history',
         NEW c \in Call, CallStep(c)
  PROVE  CausesOK'
<1>0. /\ call[c] \in Calls /\ CallOK(call[c]) /\ CauseIn(history, call[c]) /\ TablesOK
      /\ IsFiniteSet(history)
  BY CallFacts, CausesAre DEF Inv
<1>1. ASSUME NEW a, call' = [call EXCEPT ![c] = Answered(c, a)]
      PROVE  CausesOK'
  <2>1. PICK r : r = Answered(c, a)
    OBVIOUS
  <2>2. CauseIn(history', r)
    BY <2>1, AnsweredCause
  <2> QED
    BY <1>1, <2>1, <2>2, CauseMoves
<1>2. ASSUME NEW row, call' = [call EXCEPT ![c] = Found(c, row)]
      PROVE  CausesOK'
  <2>1. PICK r : r = Found(c, row)
    OBVIOUS
  <2>2. CauseIn(history', r)
    BY <1>0, <2>1, FoundCause
  <2> QED
    BY <1>2, <2>1, <2>2, CauseMoves
<1>3. ASSUME NEW r, call' = [call EXCEPT ![c] = r], r.pc \in {"ensure", "find", "read"},
             r.attempt = 0, r.error = "failed"
      PROVE  CausesOK'
  <2>1. Cardinality(LinesOf(history', r.input)) \in Nat
    BY LinesOrder
  <2>2. CauseIn(history', r)
    BY <1>3, <2>1 DEF CauseIn
  <2> QED
    BY <1>3, <2>2, CauseMoves
<1>4. ASSUME NEW s \in Submission, Register(c, s) \/ GatewayRegister(c, s)
      PROVE  CausesOK'
  <2>1. call[c].pc = "new" /\ call[c].attempt = 0 /\ call[c].error = "failed"
    BY <1>0, <1>4 DEF Register, GatewayRegister, CauseIn
  <2>2. PICK r : Started(c, s, r)
    BY <1>4, CallStarted DEF Inv, TypeOK
  <2>3. \/ r.pc = "done"
        \/ r.pc = "ensure" /\ r.attempt = 0 /\ r.error = "failed"
    BY <1>0, <2>1, <2>2 DEF Started, New, Calls
  <2>4. CASE r.pc = "done"
    <3>1. CauseIn(history', r)
      BY <2>4, EndedCause
    <3> QED
      BY <2>2, <3>1, CauseMoves DEF Started
  <2> QED
    BY <1>3, <2>2, <2>3, <2>4 DEF Started
<1>5. CASE EnsureRows(c)
  <2>1. PICK r : r = [call[c] EXCEPT !.pc = "find"]
    OBVIOUS
  <2>2. call' = [call EXCEPT ![c] = r] /\ call[c].pc = "ensure"
    BY <1>5, <2>1 DEF EnsureRows
  <2>3. r.pc = "find" /\ r.attempt = 0 /\ r.error = "failed"
    BY <1>0, <2>1, <2>2 DEF CauseIn, Calls
  <2> QED
    BY <1>3, <2>2, <2>3
<1>6. CASE FindExisting(c)
  <2>0. call[c].pc = "find"
    BY <1>6 DEF FindExisting
  <2>1. CASE call' = [call EXCEPT ![c] = [call[c] EXCEPT !.pc = "read"]]
    <3>1. PICK r : r = [call[c] EXCEPT !.pc = "read"]
      OBVIOUS
    <3>2. r.pc = "read" /\ r.attempt = 0 /\ r.error = "failed"
      BY <1>0, <2>0, <3>1 DEF CauseIn, Calls
    <3> QED
      BY <1>3, <2>1, <3>1, <3>2
  <2>2. CASE call' = [call EXCEPT ![c] = Found(c, Existing(call[c].input))]
    BY <1>2, <2>2
  <2> QED
    BY <1>6, <2>1, <2>2 DEF FindExisting
<1>7. CASE ReadState(c)
  <2>1. CASE call' = [call EXCEPT ![c] = Answered(c, "conflict")]
    BY <1>1, <2>1
  <2>2. CASE call' = [call EXCEPT ![c] = [call[c] EXCEPT !.pc = "apply", !.seen = State(call[c].input)]]
    <3>0. call[c].pc = "read"
      BY <1>7 DEF ReadState
    <3>1. PICK r, i : /\ r = [call[c] EXCEPT !.pc = "apply", !.seen = State(call[c].input)]
                      /\ i = call[c].input
      OBVIOUS
    <3>2. /\ r.pc = "apply" /\ r.attempt = call[c].attempt /\ r.error = call[c].error
          /\ r.input = i /\ r.seen = State(i) /\ r.attempt \in Nat
      BY <1>0, <3>1 DEF Calls
    <3>3. r.error = "failed" /\ r.attempt <= Cardinality(LinesOf(history, i))
      BY <1>0, <3>0, <3>1, <3>2 DEF CauseIn
    <3>4. SeenOf(history, i, State(i)) = LinesOf(history, i)
      BY <1>0, <3>0, <3>1, ReadCause DEF CallOK
    <3>5. CauseIn(history, r)
      BY <3>2, <3>3, <3>4 DEF CauseIn
    <3>6. CauseIn(history', r)
      BY <3>2, <3>5, CauseStays
    <3> QED
      BY <2>2, <3>1, <3>6, CauseMoves
  <2> QED
    BY <1>7, <2>1, <2>2 DEF ReadState
<1>8. CASE Confirm(c) \/ Fails(c)
  BY <1>1, <1>8 DEF Confirm, Fails
<1>9. CASE Recover(c)
  <2>1. \/ call' = [call EXCEPT ![c] = Answered(c, call[c].error)]
        \/ call' = [call EXCEPT ![c] = Found(c, Existing(call[c].input))]
    BY <1>9 DEF Recover
  <2> QED
    BY <1>1, <1>2, <2>1
<1>10. CASE ConfirmFails(c)
  <2>1. PICK r : r = [call[c] EXCEPT !.pc = "recover"]
    OBVIOUS
  <2>2. call' = [call EXCEPT ![c] = r] /\ call[c].pc = "confirm"
    BY <1>10, <2>1 DEF ConfirmFails
  <2>3. /\ r.pc = "recover" /\ r.attempt = call[c].attempt /\ r.error = call[c].error
        /\ r.input = call[c].input /\ r.attempt \in Nat
    BY <1>0, <2>1 DEF Calls
  <2>4. CauseIn(history, r)
    BY <1>0, <2>2, <2>3 DEF CauseIn
  <2>5. CauseIn(history', r)
    BY <2>3, <2>4, CauseStays
  <2> QED
    BY <2>2, <2>5, CauseMoves
<1>11. CASE Apply(c) \/ ApplyFails(c)
  BY <1>11, ApplyCause
<1> QED
  BY <1>4, <1>5, <1>6, <1>7, <1>8, <1>9, <1>10, <1>11 DEF CallStep

LEMMA CausesStep ==
  ASSUME TeamsMeet, Inv, CausesOK, [Next]_vars
  PROVE  CausesOK'
<1>1. CASE UNCHANGED <<history, call>>
  <2>1. CausesOK => CausesOK'
    BY <1>1, CausesAre
  <2> QED
    BY <2>1
<1>2. ASSUME Next, NEW c \in Call, CallStep(c)
      PROVE  CausesOK'
  BY <1>2, HistoryGrows, CallCause DEF CausesOK
<1>3. ASSUME Next, UNCHANGED call
      PROVE  CausesOK'
  <2>1. IsFiniteSet(history') /\ history \subseteq history'
    BY <1>3, HistoryGrows DEF CausesOK
  <2>2. ASSUME NEW c \in Call
        PROVE  CauseIn(history', call'[c])
    <3>1. CauseIn(history, call[c]) /\ call[c].attempt \in Nat
      BY CausesAre, CallFacts DEF Calls
    <3> QED
      BY <1>3, <2>1, <3>1, CauseStays
  <2> QED
    BY <2>1, <2>2, CausesAre
<1>4. ASSUME Next
      PROVE  UNCHANGED call \/ \E c \in Call : CallStep(c)
  BY <1>4 DEF Next, LateBatch, GetRating, Departs
<1> QED
  BY <1>1, <1>2, <1>3, <1>4 DEF vars, database

\* A call of registerMatchResult or registerTeamMatchResult repeats its batch, and
\* in the end gives up as a CONFLICT, only because that many results of its own
\* players were entered meanwhile: the optimistic lock never fails a call while
\* nobody else gets on.
THEOREM RetriesAreCaused ==
  ASSUME TeamsMeet PROVE Spec => []RetriesHaveCause
<1>1. Init => CausesOK
  <2> SUFFICES ASSUME Init PROVE CausesOK
    OBVIOUS
  <2>1. IsFiniteSet(history)
    BY FS_EmptySet DEF Init
  <2>2. New.pc = "new" /\ New.attempt = 0 /\ New.error = "failed"
    BY DEF New
  <2> QED
    BY <2>1, <2>2 DEF Init, CausesOK, CauseOK
<1>2. TeamsMeet /\ Inv /\ CausesOK /\ [Next]_vars => CausesOK'
  BY CausesStep
<1>3. Inv /\ CausesOK => RetriesHaveCause
  <2> SUFFICES ASSUME Inv, CausesOK, NEW c \in Call, call[c].pc \in {"read", "apply", "recover"}
               PROVE  /\ call[c].attempt <= Cardinality(Lines(call[c].input))
                      /\ call[c].error = "conflict" => MaxRetries < Cardinality(Lines(call[c].input))
    BY DEF RetriesHaveCause, Lines
  <2>1. /\ call[c].attempt \in Nat /\ CauseOK(call[c]) /\ IsFiniteSet(history)
    BY CallFacts DEF CausesOK, Calls
  <2>2. /\ Cardinality(SeenLines(call[c].input, call[c].seen)) \in Nat
        /\ Cardinality(Lines(call[c].input)) \in Nat
        /\ Cardinality(SeenLines(call[c].input, call[c].seen)) <= Cardinality(Lines(call[c].input))
    BY <2>1, LinesOrder DEF Lines, SeenLines, LinesOf, SeenOf
  <2> QED
    BY <2>1, <2>2 DEF CauseOK
<1> QED
  BY <1>1, <1>2, <1>3, RatingInvariant, PTL DEF Spec
=============================================================================
