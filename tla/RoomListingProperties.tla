------------------------ MODULE RoomListingProperties ------------------------
(***************************************************************************)
(* What a caller may expect of the pages of the list, though the list      *)
(* changes between them.                                                   *)
(***************************************************************************)
EXTENDS RoomListing

\* The shape of the list, of a walk and of its history.
ListTypeOK ==
  /\ row \in [Listed -> ListRow]
  /\ time \in 0 .. MaxBorn /\ altered \in 0 .. MaxAlter
  /\ walk.at \in {"start", "walking", "done"}
  /\ seen \subseteq Listed /\ again \subseteq Listed /\ steady \subseteq Listed

\* A room that matches the query from the first page to the last is shown,
\* whatever else comes, goes or changes in between, and no room is shown twice,
\* not even one that was deleted and created again.
ShownExactlyOnce ==
  /\ again = {}
  /\ walk.at = "done" => steady \subseteq seen
=============================================================================
