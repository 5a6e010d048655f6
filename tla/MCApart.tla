------------------------------- MODULE MCApart -------------------------------
(***************************************************************************)
(* Instances for TLC of three components that share no state with one      *)
(* another: the candidate search of a Match Pool, the public list of rooms *)
(* and the calls of the client.  A behaviour is one of one of them, while  *)
(* the others stay as they begin.                                          *)
(***************************************************************************)
EXTENDS CandidateSearchProperties, RoomListingProperties, ClientCallsProperties, TLC

CONSTANTS s1, s2, k1

VARIABLE part  \* the component that moves

\* CandidateSearch: four players whose ratings let each choose between others.
Ratings == <<0, 3, 4, 7>>
Soloists == [t \in Ticket |-> [m \in {t} |-> Ratings[t]]]
Inputs == <<"pad", "keys", "pad", "keys">>

\* A width that grows, one with tight limits, and one that is refused: it shrinks.
Growing == [stages |-> <<[after |-> 0, width |-> 1], [after |-> 1, width |-> 4]>>,
            cap |-> 4, tickets |-> 4, pairs |-> 99, matches |-> 2]
Tight == [stages |-> <<[after |-> 0, width |-> 4]>>,
          cap |-> 4, tickets |-> 3, pairs |-> 4, matches |-> 1]
Shrinking == [Tight EXCEPT !.stages = <<[after |-> 0, width |-> 4], [after |-> 1, width |-> 3]>>]
Policies == {Growing, Tight, Shrinking}

\* RoomListing: two queries, and one whose filter is empty.
Queries == {[states |-> {"waiting"}, free |-> 1, limit |-> 1],
            [states |-> {"waiting", "finished"}, free |-> 0, limit |-> 2],
            [states |-> {}, free |-> 0, limit |-> 1]}

\* ClientCalls: a command over one of two connections.
OneVia == k1 :> s1

ApartInit ==
  /\ part \in {"search", "list", "calls"}
  /\ SearchInit /\ ListInit /\ CallsInit
  /\ part # "list" => \A r \in Listed : row[r] = [born |-> 0, free |-> 0, state |-> Nothing]
  /\ part # "calls" => timed = {}

ApartNext ==
  \/ part = "search" /\ SearchNext /\ UNCHANGED <<part, listVars, callVars>>
  \/ part = "list" /\ ListNext /\ UNCHANGED <<part, searchVars, callVars>>
  \/ part = "calls" /\ CallsNext /\ UNCHANGED <<part, searchVars, listVars>>

ApartSpec == ApartInit /\ [][ApartNext]_<<part, searchVars, listVars, callVars>>
=============================================================================
