---------------------------- MODULE RatingLedger ----------------------------
(***************************************************************************)
(* What the registration of results promises: a match, and a result id, is *)
(* entered at most once, and the match counts for all its players in the   *)
(* same step, on top of everything entered for them before.                *)
(***************************************************************************)
CONSTANTS People, Lines     \* a line has a match, a result id and a roster
VARIABLES entered, points

ledger == <<entered, points>>

Init == entered = {} /\ points = [p \in People |-> {}]

Enter(l) ==
  /\ \A k \in entered : k.match # l.match /\ k.result # l.result
  /\ entered' = entered \cup {l}
  /\ points' = [p \in People |-> IF p \in l.roster THEN points[p] \cup {l.match} ELSE points[p]]

Next == \E l \in Lines : Enter(l)

Spec == Init /\ [][Next]_ledger
=============================================================================
