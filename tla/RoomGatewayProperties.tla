------------------------ MODULE RoomGatewayProperties ------------------------
(* What the handlers of RoomGateway promise their clients. *)
EXTENDS RoomGateway

Answered(cmd) == {a \in answers : a.command = cmd}

Forgotten(k, r) == k \in deleted \/ <<k, r>> \in forgotten

\* However often a creation is sent, and whatever was forgotten in between, its
\* answers name one participant and one code; another payload is answered only
\* once the first one is forgotten.
CreatedOnce ==
  \A a, b \in Answered("create") : a.room = b.room =>
    IF a.payload = b.payload
      THEN a.participant = b.participant /\ a.code = b.code
      ELSE Forgotten(a.room, CreateKey)

\* A creation is refused only for a collision of codes, another payload of the
\* same request or because its Room was deleted, never for having half happened before.
RefusedForCause ==
  \A a \in refused : a.command = "create" =>
    \/ a.room \in deleted
    \/ \E m \in Method \ {a.payload} : <<a.room, m>> \in asked
    \/ \E k \in Room \ {a.room} : Exists(a.room) /\ invite[room[a.room].code] = k

Joining(k, x) == \E w \in Active : call[w].room = k /\ call[w].participant = x

\* Nobody sits in a Room unknown to its client: a participant has been answered,
\* or its call is under way, or ended without an answer.  Only a player who sent
\* a request again while it was being handled may leave one behind.
EveryoneKnows ==
  \A k \in Room : Exists(k) => \A p \in Members(k) :
    LET x == room[k].member[p] IN
    \/ Joining(k, x)
    \/ <<k, x>> \in lost
    \/ \E r \in Request : <<p, r>> \in doubled
    \/ \E a \in answers : a.room = k /\ a.player = p /\ a.participant = x

\* One join request of a player leads to one participant, until its result expires.
JoinedOnce ==
  \A a, b \in Answered("join") :
    /\ a.player = b.player /\ a.room = b.room /\ a.request = b.request
    /\ ~Forgotten(a.room, <<a.player, a.request>>)
    => a.participant = b.participant

\* A request, sent any number of times, has one outcome.
OneOutcome == CreatedOnce /\ JoinedOnce
=============================================================================
