------------------------------- MODULE Lobby -------------------------------
(***************************************************************************)
(* The promise of a lobby room: who is in it, who leads it and how far it  *)
(* got.  One person comes or goes at a time; whoever leads and goes is     *)
(* succeeded by a player, and without one the lobby is over.               *)
(***************************************************************************)
CONSTANTS Everyone, Audience, Owner, None
VARIABLES present, leader, phase

lobby == <<present, leader, phase>>

Phases == {"none", "waiting", "preparing", "in_progress", "finished", "deleted"}
Ongoing == phase \in {"waiting", "preparing", "in_progress"}
Candidates == present \ Audience

Init == present = {} /\ leader = None /\ phase = "none"

\* The owner, if there is one, is a player who is there from the start.
Open ==
  /\ phase = "none"
  /\ phase' = "waiting"
  /\ leader' = Owner
  /\ present' \in SUBSET Everyone
  /\ Owner # None => Owner \in present' \ Audience

Arrive ==
  /\ phase = "waiting"
  /\ \E p \in Everyone \ present : present' = present \cup {p}
  /\ UNCHANGED <<leader, phase>>

Depart ==
  /\ Ongoing
  /\ \E p \in present :
       /\ present' = present \ {p}
       /\ \/ p # leader /\ UNCHANGED <<leader, phase>>
          \/ p = leader /\ leader' \in Candidates \ {p} /\ UNCHANGED phase
          \/ p = leader /\ Candidates \subseteq {p} /\ phase' = "finished" /\ UNCHANGED leader

HandOver ==
  /\ phase = "waiting"
  /\ leader # None
  /\ leader' \in Candidates \ {leader}
  /\ UNCHANGED <<present, phase>>

Advance ==
  /\ <<phase, phase'>> \in {<<"waiting", "preparing">>, <<"waiting", "in_progress">>,
                            <<"preparing", "in_progress">>}
  /\ UNCHANGED <<present, leader>>

Finish ==
  /\ Ongoing
  /\ phase' = "finished"
  /\ UNCHANGED <<present, leader>>

Delete ==
  /\ phase = "finished"
  /\ phase' = "deleted"
  /\ present' = {}
  /\ leader' = None

Next == Open \/ Arrive \/ Depart \/ HandOver \/ Advance \/ Finish \/ Delete

Spec == Init /\ [][Next]_lobby
=============================================================================
