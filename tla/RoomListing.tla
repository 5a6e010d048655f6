------------------------------ MODULE RoomListing ------------------------------
(***************************************************************************)
(* GET /v1/custom-rooms: the public list of custom rooms, page by page.    *)
(*                                                                         *)
(* The Worker keeps nothing between two pages: the cursor it signs names   *)
(* the last room of the page and the query it belongs to.  The rows of the *)
(* list change meanwhile; Room says when each Room writes its own.         *)
(***************************************************************************)
EXTENDS Integers, FiniteSets

CONSTANTS
  Listed,    \* natural numbers: the order of the Rooms' ids
  Query,     \* what the caller asks for, valid or not
  MaxPage,   \* MAX_PAGE_SIZE
  RoomState, \* the states of a Room
  Free,      \* how many player slots may be free
  MaxBorn,   \* bound: the clock of the Rooms' creations
  MaxAlter,  \* bound: changes of the list
  Nothing

ASSUME ListAssumption ==
  /\ IsFiniteSet(Listed) /\ Listed \subseteq Nat
  /\ MaxPage \in Nat /\ MaxBorn \in Nat /\ MaxAlter \in Nat
  /\ Free \subseteq Nat
  /\ \A q \in Query : q.states \subseteq RoomState /\ q.free \in Nat
  /\ Nothing \notin RoomState
  /\ Nothing \notin [born : Nat, room : Listed, query : Query]

VARIABLES
  row,       \* flarelobby_custom_room_index; born is the created_at of the Room,
             \* also before its first upsert
  time,
  altered,
  walk,      \* the query and the cursor of a caller that asks page after page
  seen,      \* history: the rooms of its pages
  again,     \* history: the rooms it was shown twice
  steady     \* history: the rooms its query has matched ever since it began

listVars == <<row, time, altered, walk, seen, again, steady>>
-----------------------------------------------------------------------------
(* The query *)

\* CustomRoomIndexRow; the state of a Room that is not in the list is Nothing.
ListRow == [born : 0 .. MaxBorn, free : Free, state : RoomState \cup {Nothing}]
InList(r) == row[r].state # Nothing

\* normalizeCustomRoomListQuery(): an empty filter is refused, not ignored.
ValidQuery(q) == q.limit \in 1 .. MaxPage /\ q.states # {}

Matches(q, r) ==
  /\ row[r].state \in q.states
  /\ row[r].free >= q.free

\* ORDER BY created_at DESC, room_id DESC
Ahead(r, s) == row[r].born > row[s].born \/ (row[r].born = row[s].born /\ r > s)

Younger(c, r) == c = Nothing \/ row[r].born < c.born    \* mutant: the id does not count

\* The condition of a cursor; the first page has none.
After(c, r) ==
  c = Nothing \/ row[r].born < c.born \/ (row[r].born = c.born /\ r < c.room)

\* queryCustomRoomIndex(): the first n rows.
Select(q, c, n) ==
  LET found == {r \in Listed : Matches(q, r) /\ After(c, r)} IN
  {r \in found : Cardinality({s \in found : Ahead(s, r)}) < n}

\* listCustomRooms() asks for one row more than it shows.
Lookahead == 1
More(q, c) == Cardinality(Select(q, c, q.limit + Lookahead)) > q.limit
Page(q, c) == Select(q, c, q.limit)
Last(S) == CHOOSE r \in S : \A s \in S \ {r} : Ahead(s, r)

\* encodeCursor(), decodeCursor(): a cursor is bound to its query.
Encode(q, r) == [born |-> row[r].born, room |-> r, query |-> q]
Accepted(c, q) == c = Nothing \/ c.query = q
-----------------------------------------------------------------------------
(* A caller walks through the pages *)

\* A page is shown; nextCursor leads on from its last room.
Show(q, c) ==
  LET page == Page(q, c) IN
  /\ seen' = seen \cup page
  /\ again' = again \cup (seen \cap page)
  /\ walk' = [query |-> q, at |-> IF More(q, c) THEN "walking" ELSE "done",
              cursor |-> IF More(q, c) THEN Encode(q, Last(page)) ELSE Nothing]
  /\ UNCHANGED <<row, time, altered>>

FirstPage(q) ==
  /\ walk.at = "start"
  /\ ValidQuery(q)
  /\ steady' = {r \in Listed : Matches(q, r)}
  /\ Show(q, Nothing)

\* The caller may try its cursor with another query, and is refused.
NextPage(q) ==
  /\ walk.at = "walking"
  /\ ValidQuery(q)
  /\ Accepted(walk.cursor, q)
  /\ Show(q, walk.cursor)
  /\ UNCHANGED steady
-----------------------------------------------------------------------------
(* The list changes: the rows that Rooms write *)

Alter(r, new) ==
  /\ altered < MaxAlter
  /\ altered' = altered + 1
  /\ row' = [row EXCEPT ![r] = new]
  /\ steady' = IF walk.at = "walking" /\ (new.state \notin walk.query.states
                                            \/ new.free < walk.query.free)
                 THEN steady \ {r} ELSE steady
  /\ UNCHANGED <<time, walk, seen, again>>

\* The first upsert of a Room may come long after its initialization, and another
\* Room of the id may be initialized when the first was deleted.
Publish(r) ==
  /\ ~InList(r)
  /\ \E b \in row[r].born .. time, s \in RoomState, f \in Free :
        Alter(r, [born |-> b, free |-> f, state |-> s])

\* Its later ones carry the same created_at.
Update(r) ==
  /\ InList(r)
  /\ \E s \in RoomState, f \in Free : Alter(r, [row[r] EXCEPT !.state = s, !.free = f])

Remove(r) ==
  /\ InList(r)
  /\ Alter(r, [row[r] EXCEPT !.state = Nothing])

TimePasses ==
  /\ time < MaxBorn
  /\ time' = time + 1
  /\ UNCHANGED <<row, altered, walk, seen, again, steady>>
-----------------------------------------------------------------------------
\* The caller may begin with any list.
ListInit ==
  /\ row \in [Listed -> {l \in ListRow : l.born = 0}]
  /\ time = 0
  /\ altered = 0
  /\ walk = [query |-> Nothing, at |-> "start", cursor |-> Nothing]
  /\ seen = {}
  /\ again = {}
  /\ steady = {}

ListNext ==
  \/ \E q \in Query : FirstPage(q) \/ NextPage(q)
  \/ \E r \in Listed : Publish(r) \/ Update(r) \/ Remove(r)
  \/ TimePasses

ListSpec == ListInit /\ [][ListNext]_listVars
=============================================================================
