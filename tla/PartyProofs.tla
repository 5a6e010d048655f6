----------------------------- MODULE PartyProofs -----------------------------
(***************************************************************************)
(* Proofs about Parties, for every set of parties, players and tickets, and *)
(* any number of handlers, invites and restarts: the shape of the state,   *)
(* that a Party never has two leaders, that a player is a member of one    *)
(* Party at most, and that a frozen Party is thawed for a reason.          *)
(***************************************************************************)
EXTENDS PartyProperties, FiniteSetTheorems, TLAPS
-----------------------------------------------------------------------------
(* Rows and records.                                                       *)

\* Without() drops at most the row of pl, and leaves rows only.
LEMMA WithoutRows ==
  ASSUME NEW s \in Seq(Players), NEW pl
  PROVE  /\ Without(s, pl) \in Seq(Players)
         /\ Range(s) \ {pl} \subseteq Range(Without(s, pl))
<1> DEFINE i == CHOOSE j \in DOMAIN s : s[j] = pl
           l == SubSeq(s, 1, i - 1)
           r == SubSeq(s, i + 1, Len(s))
<1>1. CASE pl \notin Range(s)
  BY <1>1 DEF Without
<1>2. CASE pl \in Range(s)
  <2>1. i \in 1 .. Len(s) /\ s[i] = pl
    BY <1>2 DEF Range
  <2>2. Without(s, pl) = l \o r
    BY <1>2 DEF Without
  <2> HIDE DEF i
  <2>3. l \in Seq(Players) /\ Len(l) = i - 1 /\ \A j \in 1 .. i - 1 : l[j] = s[j]
    BY <2>1
  <2>4. r \in Seq(Players) /\ Len(r) = Len(s) - i /\ \A j \in 1 .. Len(s) - i : r[j] = s[i + j]
    BY <2>1
  <2> HIDE DEF l, r
  <2>5. Without(s, pl) \in Seq(Players)
    BY <2>2, <2>3, <2>4
  <2>6. ASSUME NEW j \in 1 .. Len(s), s[j] # pl
        PROVE  s[j] \in Range(l \o r)
    <3>1. CASE j < i
      <4>1. (l \o r)[j] = s[j] /\ j \in DOMAIN (l \o r)
        BY <3>1, <2>1, <2>3, <2>4
      <4> QED BY <4>1 DEF Range
    <3>2. CASE j > i
      <4>1. j - 1 \in DOMAIN (l \o r) /\ (l \o r)[j - 1] = r[j - i] /\ r[j - i] = s[j]
        BY <3>2, <2>1, <2>3, <2>4
      <4> QED BY <4>1 DEF Range
    <3> QED BY <3>1, <3>2, <2>6, <2>1
  <2> QED BY <2>2, <2>5, <2>6 DEF Range
<1> QED BY <1>1, <1>2

LEMMA AppendRows ==
  ASSUME NEW s \in Seq(Players), NEW pl \in Players
  PROVE  /\ Append(s, pl) \in Seq(Players)
         /\ Range(s) \subseteq Range(Append(s, pl))
         /\ pl \in Range(Append(s, pl))
<1>1. Append(s, pl) \in Seq(Players) /\ Len(Append(s, pl)) = Len(s) + 1
  OBVIOUS
<1>2. \A j \in 1 .. Len(s) : Append(s, pl)[j] = s[j]
  OBVIOUS
<1>3. Append(s, pl)[Len(s) + 1] = pl
  OBVIOUS
<1> QED BY <1>1, <1>2, <1>3 DEF Range

LEMMA HeadIsRow ==
  ASSUME NEW s \in Seq(Players), s # <<>>
  PROVE  Head(s) \in Players /\ Head(s) \in Range(s) /\ Tail(s) \in Seq(Players)
  BY DEF Range

\* What a handler may be.
Handlers == TaskRecords \cup {Idle}

\* A handler that takes its next step keeps the other handlers as they are.
LEMMA StepKeepsRecords ==
  ASSUME task \in [Tasks -> Handlers], NEW k \in Tasks, NEW rec \in Handlers, Step(k, rec)
  PROVE  /\ task' \in [Tasks -> Handlers]
         /\ task'[k] = rec
         /\ \A j \in Tasks \ {k} : task'[j] = task[j]
  BY DEF Step

\* A handler that waits is not Idle.
LEMMA WaitingIsRecord ==
  ASSUME NEW rec \in Handlers, rec.kind # "idle" \/ rec.pc # "idle"
  PROVE  rec \in TaskRecords
  BY DEF Handlers, Idle

LEMMA IdleIsHandler == Idle \in Handlers /\ TaskRecords \subseteq Handlers
  BY DEF Handlers
-----------------------------------------------------------------------------
(* Type correctness.                                                       *)

\* The members and the roles of the parties.
RowsOK ==
    /\ members \in [Parties -> Seq(Players)]
    /\ leaders \in [Parties -> SUBSET Players]
    /\ \A p \in Parties : leaders[p] \subseteq Range(members[p])

\* The rest of a Party's tables.
TablesOK ==
    /\ exists \subseteq Parties /\ founded \subseteq Parties
    /\ queued \in [Parties -> Tickets \cup {None}]
    /\ invite \in [Parties -> [Players -> {"none", "open", "expired", "used"}]]
    /\ issued \in [Parties -> [Players -> Nat]]

\* What is not in a Party's tables.
OthersOK ==
    /\ registry \in [Players -> Parties \cup {None}]
    /\ ticket \in [Tickets -> TicketRecords]
    /\ crashes \in Nat

LEMMA TypeParts == TypeOK <=> RowsOK /\ TablesOK /\ OthersOK /\ task \in [Tasks -> Handlers]
  BY DEF TypeOK, RowsOK, TablesOK, OthersOK, Handlers

LEMMA RemoveType ==
  ASSUME RowsOK, task \in [Tasks -> Handlers], NEW k \in Tasks, NEW rec,
         NEW p \in Parties, NEW pl \in Players, Remove(k, rec, p, pl),
         [rec EXCEPT !.pc = "release", !.player = pl] \in TaskRecords
  PROVE  RowsOK' /\ task' \in [Tasks -> Handlers]
<1>1. task' \in [Tasks -> Handlers]
  <2>1. PICK r \in TaskRecords : r = [rec EXCEPT !.pc = "release", !.player = pl]
    OBVIOUS
  <2> QED BY <2>1, IdleIsHandler, StepKeepsRecords DEF Remove
<1>2. Without(members[p], pl) \in Seq(Players)
      /\ Range(members[p]) \ {pl} \subseteq Range(Without(members[p], pl))
  BY WithoutRows DEF RowsOK
<1>3. PICK s \in Seq(Players) : s = Without(members[p], pl)
  BY <1>2
<1>4. members' = [members EXCEPT ![p] = s] /\ leaders' = [leaders EXCEPT ![p] = @ \ {pl}]
  BY <1>3 DEF Remove
<1>5. Range(members[p]) \ {pl} \subseteq Range(s)
  BY <1>2, <1>3
<1>6. members' \in [Parties -> Seq(Players)] /\ leaders' \in [Parties -> SUBSET Players]
  BY <1>4 DEF RowsOK
<1>7. ASSUME NEW x \in Parties
      PROVE  leaders'[x] \subseteq Range(members'[x])
  <2>1. CASE x = p
    <3>1. leaders'[x] = leaders[p] \ {pl} /\ members'[x] = s
      BY <2>1, <1>4 DEF RowsOK
    <3> QED BY <2>1, <3>1, <1>5 DEF RowsOK
  <2>2. CASE x # p
    <3>1. leaders'[x] = leaders[x] /\ members'[x] = members[x]
      BY <2>2, <1>4 DEF RowsOK
    <3> QED BY <3>1 DEF RowsOK
  <2> QED BY <2>1, <2>2
<1> QED BY <1>1, <1>6, <1>7 DEF RowsOK

LEMMA DissolveRestType ==
  ASSUME TypeOK, NEW k \in Tasks, NEW p \in Parties, NEW rows \in Seq(Players),
         NEW q \in [Parties -> Tickets \cup {None}],
         NEW inv \in [Parties -> [Players -> {"none", "open", "expired", "used"}]],
         DissolveRest(k, p, rows, q, inv), UNCHANGED <<founded, issued, registry, crashes>>,
         ticket' \in [Tickets -> TicketRecords]
  PROVE  TypeOK'
<1>1. CASE rows = <<>>
  <2>0. /\ exists' = exists \ {p}
        /\ queued' = [q EXCEPT ![p] = None]
        /\ invite' = [inv EXCEPT ![p] = [pl \in Players |-> "none"]]
        /\ Step(k, Idle)
        /\ UNCHANGED <<members, leaders>>
    BY <1>1 DEF DissolveRest
  <2>1. RowsOK'
    BY <2>0 DEF TypeOK, RowsOK
  <2>2. TablesOK'
    BY <2>0 DEF TypeOK, TablesOK
  <2>3. task' \in [Tasks -> Handlers]
    BY <2>0, IdleIsHandler, StepKeepsRecords, TypeParts
  <2> QED BY <2>1, <2>2, <2>3 DEF TypeOK, RowsOK, TablesOK, Handlers
<1>2. CASE rows # <<>>
  <2> DEFINE rec == [Idle EXCEPT !.kind = "dissolve", !.party = p, !.todo = Tail(rows)]
  <2>1. Head(rows) \in Players /\ Tail(rows) \in Seq(Players)
    BY <1>2, HeadIsRow
  <2>2. [rec EXCEPT !.pc = "release", !.player = Head(rows)] \in TaskRecords
    BY <2>1 DEF Idle, TaskRecords
  <2>3. Remove(k, rec, p, Head(rows)) /\ queued' = q /\ invite' = inv /\ exists' = exists
    BY <1>2 DEF DissolveRest
  <2> HIDE DEF rec
  <2>4. RowsOK' /\ task' \in [Tasks -> Handlers]
    BY <2>1, <2>2, <2>3, RemoveType, TypeParts
  <2>5. TablesOK'
    BY <2>3 DEF TypeOK, TablesOK
  <2> QED BY <2>4, <2>5 DEF TypeOK, RowsOK, TablesOK, Handlers
<1> QED BY <1>1, <1>2

LEMMA DissolveType ==
  ASSUME TypeOK, NEW k \in Tasks, NEW p \in Parties,
         NEW q \in [Parties -> Tickets \cup {None}],
         NEW inv \in [Parties -> [Players -> {"none", "open", "expired", "used"}]],
         Dissolve(k, p, q, inv), UNCHANGED <<founded, issued, registry, crashes>>,
         ticket' \in [Tickets -> TicketRecords]
  PROVE  TypeOK'
<1>1. PICK rows \in Seq(Players) : rows = members[p]
  BY DEF TypeOK
<1>2. DissolveRest(k, p, rows, q, inv)
  BY <1>1 DEF Dissolve
<1> HIDE <1>1
<1> QED BY <1>2, DissolveRestType

\* A step of a handler that changes the tables of a Party and its members not.
LEMMA QuietType ==
  ASSUME TypeOK, UNCHANGED party, task' \in [Tasks -> Handlers], OthersOK'
  PROVE  TypeOK'
<1>1. RowsOK /\ TablesOK
  BY TypeParts
<1>2. RowsOK'
  BY <1>1 DEF RowsOK, party
<1>3. TablesOK'
  BY <1>1 DEF TablesOK, party
<1> QED BY <1>2, <1>3 DEF TypeOK, RowsOK, TablesOK, OthersOK, Handlers

LEMMA TicketStateType ==
  ASSUME ticket \in [Tickets -> TicketRecords], NEW t,
         NEW s \in {"none", "frozen", "queued", "reserved", "ending", "ended"}
  PROVE  [ticket EXCEPT ![t].state = s] \in [Tickets -> TicketRecords]
<1>1. CASE t \in Tickets
  <2>1. PICK r : r = [ticket[t] EXCEPT !.state = s]
    OBVIOUS
  <2>2. r \in TicketRecords
    BY <2>1, <1>1 DEF TicketRecords
  <2>3. [ticket EXCEPT ![t].state = s] = [ticket EXCEPT ![t] = r]
    BY <2>1
  <2> QED BY <2>2, <2>3
<1>2. CASE t \notin Tickets
  <2>1. [ticket EXCEPT ![t].state = s] = ticket
    BY <1>2
  <2> QED BY <2>1
<1> QED BY <1>1, <1>2

LEMMA PcType ==
  ASSUME NEW rec \in TaskRecords,
         NEW pc \in {"claim", "claimed", "refused", "release", "released",
                     "cancel", "thaw", "cancelled"}
  PROVE  [rec EXCEPT !.pc = pc] \in Handlers
  BY DEF TaskRecords, Handlers

LEMMA ServeType ==
  ASSUME TypeOK, NEW k \in Tasks, Serve(k)
  PROVE  TypeOK'
<1> DEFINE At(pc) == [task[k] EXCEPT !.pc = pc]
<1>1. task \in [Tasks -> Handlers]
  BY TypeParts
<1>2. task[k].pc # "idle"
  BY DEF Serve, ClaimServed, ReleaseServed, CancelServed
<1>3. task[k] \in TaskRecords
  BY <1>1, <1>2, WaitingIsRecord
<1>4. \A pc \in {"claimed", "refused", "released", "thaw", "cancelled"} : At(pc) \in Handlers
  BY <1>3, PcType
<1> HIDE DEF At
<1>5. CASE ClaimServed(k)
  <2>1. PICK rec \in Handlers : Step(k, rec)
    BY <1>5, <1>4 DEF ClaimServed, At
  <2>2. task' \in [Tasks -> Handlers]
    BY <2>1, <1>1, StepKeepsRecords
  <2>3. task[k].party \in Parties
    BY <1>3 DEF TaskRecords
  <2>4. OthersOK'
    BY <1>5, <2>3 DEF ClaimServed, TypeOK, OthersOK
  <2> QED BY <1>5, <2>2, <2>4, QuietType DEF ClaimServed
<1>6. CASE ReleaseServed(k)
  <2>1. PICK rec \in Handlers : Step(k, rec)
    BY <1>6, <1>4 DEF ReleaseServed, At
  <2>2. task' \in [Tasks -> Handlers]
    BY <2>1, <1>1, StepKeepsRecords
  <2>3. OthersOK'
    BY <1>6 DEF ReleaseServed, TypeOK, OthersOK
  <2> QED BY <1>6, <2>2, <2>3, QuietType DEF ReleaseServed
<1>7. CASE CancelServed(k)
  <2>1. PICK rec \in Handlers : Step(k, rec)
    <3>1. Step(k, At("thaw")) \/ Step(k, At("cancelled"))
      BY <1>7 DEF CancelServed, At
    <3> QED BY <3>1, <1>4
  <2>2. task' \in [Tasks -> Handlers]
    BY <2>1, <1>1, StepKeepsRecords
  <2>3. ticket' \in [Tickets -> TicketRecords]
    <3>1. PICK t : \/ ticket' = ticket
                   \/ ticket' = [ticket EXCEPT ![t].state = "ending"]
      BY <1>7 DEF CancelServed
    <3>2. [ticket EXCEPT ![t].state = "ending"] \in [Tickets -> TicketRecords]
      BY TicketStateType DEF TypeOK
    <3> QED BY <3>1, <3>2 DEF TypeOK
  <2>4. OthersOK'
    BY <1>7, <2>3 DEF CancelServed, TypeOK, OthersOK
  <2> QED BY <1>7, <2>2, <2>4, QuietType DEF CancelServed
<1> QED BY <1>5, <1>6, <1>7 DEF Serve

LEMMA CellType ==
  ASSUME NEW S, NEW f \in [Parties -> [Players -> S]], NEW p, NEW pl, NEW v \in S
  PROVE  [f EXCEPT ![p][pl] = v] \in [Parties -> [Players -> S]]
<1>1. CASE p \in Parties
  <2>1. PICK g : g = [f[p] EXCEPT ![pl] = v]
    OBVIOUS
  <2>2. g \in [Players -> S]
    BY <2>1, <1>1
  <2>3. [f EXCEPT ![p][pl] = v] = [f EXCEPT ![p] = g]
    BY <2>1
  <2> QED BY <2>2, <2>3
<1>2. CASE p \notin Parties
  <2>1. [f EXCEPT ![p][pl] = v] = f
    BY <1>2
  <2> QED BY <2>1
<1> QED BY <1>1, <1>2

\* A Party's members become the rows s, and its leaders the set l.
LEMMA NewRowsType ==
  ASSUME RowsOK, NEW p \in Parties, NEW s \in Seq(Players), NEW l \in SUBSET Players,
         l \subseteq Range(s),
         members' = [members EXCEPT ![p] = s], leaders' = [leaders EXCEPT ![p] = l]
  PROVE  RowsOK'
<1>1. members' \in [Parties -> Seq(Players)] /\ leaders' \in [Parties -> SUBSET Players]
  BY DEF RowsOK
<1>2. ASSUME NEW x \in Parties
      PROVE  leaders'[x] \subseteq Range(members'[x])
  <2>1. CASE x = p
    <3>1. leaders'[x] = l /\ members'[x] = s
      BY <2>1 DEF RowsOK
    <3> QED BY <3>1
  <2>2. CASE x # p
    <3>1. leaders'[x] = leaders[x] /\ members'[x] = members[x]
      BY <2>2 DEF RowsOK
    <3> QED BY <3>1 DEF RowsOK
  <2> QED BY <2>1, <2>2
<1> QED BY <1>1, <1>2 DEF RowsOK

LEMMA CreatedType ==
  ASSUME TypeOK, NEW k \in Tasks, task[k] \in TaskRecords, Created(k)
  PROVE  TypeOK'
<1>1. PICK p, pl : p = task[k].party /\ pl = task[k].player
  OBVIOUS
<1>2. p \in Parties /\ pl \in Players
  BY <1>1 DEF TaskRecords
<1>3. /\ exists' = exists \cup {p}
      /\ members' = [members EXCEPT ![p] = <<pl>>]
      /\ leaders' = [leaders EXCEPT ![p] = {pl}]
      /\ Step(k, Idle)
      /\ UNCHANGED <<founded, queued, invite, issued, registry, ticket, crashes>>
  BY <1>1 DEF Created
<1> HIDE <1>1
<1>4. <<pl>> \in Seq(Players) /\ {pl} \subseteq Range(<<pl>>)
  BY <1>2 DEF Range
<1>5. RowsOK'
  <2>1. PICK s \in Seq(Players) : s = <<pl>>
    BY <1>4
  <2>2. PICK l \in SUBSET Players : l = {pl}
    BY <1>2
  <2>3. l \subseteq Range(s)
    BY <2>1, <2>2, <1>4
  <2>4. members' = [members EXCEPT ![p] = s] /\ leaders' = [leaders EXCEPT ![p] = l]
    BY <2>1, <2>2, <1>3
  <2> HIDE <2>1, <2>2
  <2> QED BY <2>3, <2>4, <1>2, NewRowsType, TypeParts
<1>6. task' \in [Tasks -> Handlers]
  BY <1>3, IdleIsHandler, StepKeepsRecords, TypeParts
<1>7. TablesOK'
  BY <1>2, <1>3, TypeParts DEF TablesOK
<1>8. OthersOK'
  BY <1>3, TypeParts DEF OthersOK
<1> QED BY <1>5, <1>6, <1>7, <1>8 DEF TypeOK, RowsOK, TablesOK, OthersOK, Handlers

LEMMA AcceptedType ==
  ASSUME TypeOK, NEW k \in Tasks, task[k] \in TaskRecords, Accepted(k)
  PROVE  TypeOK'
<1>1. PICK p, pl : p = task[k].party /\ pl = task[k].player
  OBVIOUS
<1>2. p \in Parties /\ pl \in Players
  BY <1>1 DEF TaskRecords
<1>3. /\ \/ invite' = [invite EXCEPT ![p][pl] = "used"]
         \/ invite' = invite
      /\ \/ members' = members
         \/ members' = [members EXCEPT ![p] = Append(@, pl)]
      /\ Step(k, Idle)
      /\ UNCHANGED <<founded, exists, queued, leaders, issued, registry, ticket, crashes>>
  BY <1>1 DEF Accepted
<1> HIDE <1>1
<1>4. RowsOK'
  <2>1. CASE members' = members
    BY <2>1, <1>3, TypeParts DEF RowsOK
  <2>2. CASE members' = [members EXCEPT ![p] = Append(@, pl)]
    <3>1. members[p] \in Seq(Players)
      BY <1>2 DEF TypeOK
    <3>2. Append(members[p], pl) \in Seq(Players)
          /\ Range(members[p]) \subseteq Range(Append(members[p], pl))
      BY <3>1, <1>2, AppendRows
    <3>3. PICK r \in Seq(Players) : r = Append(members[p], pl)
      BY <3>2
    <3>4. PICK l \in SUBSET Players : l = leaders[p]
      BY <1>2 DEF TypeOK
    <3>5. l \subseteq Range(r)
      BY <3>2, <3>3, <3>4, <1>2 DEF TypeOK
    <3>6. members' = [members EXCEPT ![p] = r] /\ leaders' = [leaders EXCEPT ![p] = l]
      BY <2>2, <3>3, <3>4, <1>3 DEF TypeOK
    <3> HIDE <3>3, <3>4
    <3> QED BY <3>5, <3>6, <1>2, NewRowsType, TypeParts
  <2> QED BY <2>1, <2>2, <1>3
<1>5. task' \in [Tasks -> Handlers]
  BY <1>3, IdleIsHandler, StepKeepsRecords, TypeParts
<1>6. invite' \in [Parties -> [Players -> {"none", "open", "expired", "used"}]]
  <2>1. [invite EXCEPT ![p][pl] = "used"]
           \in [Parties -> [Players -> {"none", "open", "expired", "used"}]]
    BY CellType DEF TypeOK
  <2> QED BY <2>1, <1>3 DEF TypeOK
<1>7. TablesOK'
  BY <1>3, <1>6, TypeParts DEF TablesOK
<1>8. OthersOK'
  BY <1>3, TypeParts DEF OthersOK
<1> QED BY <1>4, <1>5, <1>7, <1>8 DEF TypeOK, RowsOK, TablesOK, OthersOK, Handlers

LEMMA LeftType ==
  ASSUME TypeOK, NEW k \in Tasks, task[k] \in TaskRecords, Left(k)
  PROVE  TypeOK'
<1>1. PICK p : p = task[k].party
  OBVIOUS
<1>2. p \in Parties
  BY <1>1 DEF TaskRecords
<1>3. UNCHANGED <<founded, issued, registry, ticket, crashes>>
  BY DEF Left
<1>4. \/ Dissolve(k, p, queued, invite)
      \/ /\ \/ leaders' = leaders
            \/ /\ members[p] # <<>>
               /\ leaders' = [leaders EXCEPT ![p] = @ \cup {Head(members[p])}]
         /\ Step(k, Idle)
         /\ UNCHANGED <<exists, queued, members, invite>>
  BY <1>1 DEF Left
<1> HIDE <1>1
<1>5. CASE Dissolve(k, p, queued, invite)
  BY <1>5, <1>2, <1>3, DissolveType DEF TypeOK
<1>6. CASE /\ Step(k, Idle)
           /\ leaders' = leaders
           /\ UNCHANGED <<exists, queued, members, invite>>
  <2>1. task' \in [Tasks -> Handlers]
    BY <1>6, IdleIsHandler, StepKeepsRecords, TypeParts
  <2>2. OthersOK'
    BY <1>3, TypeParts DEF OthersOK
  <2> QED BY <1>3, <1>6, <2>1, <2>2, QuietType DEF party
<1>7. CASE /\ Step(k, Idle)
           /\ members[p] # <<>>
           /\ leaders' = [leaders EXCEPT ![p] = @ \cup {Head(members[p])}]
           /\ UNCHANGED <<exists, queued, members, invite>>
  <2>1. task' \in [Tasks -> Handlers]
    BY <1>7, IdleIsHandler, StepKeepsRecords, TypeParts
  <2>2. OthersOK'
    BY <1>3, TypeParts DEF OthersOK
  <2>3. TablesOK'
    BY <1>3, <1>7, TypeParts DEF TablesOK
  <2>4. PICK r \in Seq(Players) : r = members[p]
    BY <1>2 DEF TypeOK
  <2>5. Head(r) \in Players /\ Head(r) \in Range(r)
    BY <2>4, <1>7, HeadIsRow
  <2>6. PICK l \in SUBSET Players : l = leaders[p] \cup {Head(r)}
    BY <2>5, <1>2 DEF TypeOK
  <2>7. l \subseteq Range(r)
    BY <2>4, <2>5, <2>6, <1>2 DEF TypeOK
  <2>8. members' = [members EXCEPT ![p] = r] /\ leaders' = [leaders EXCEPT ![p] = l]
    BY <2>4, <2>6, <1>7 DEF TypeOK
  <2> HIDE <2>4, <2>6
  <2>9. RowsOK'
    BY <2>7, <2>8, <1>2, NewRowsType, TypeParts
  <2> QED BY <2>1, <2>2, <2>3, <2>9 DEF TypeOK, RowsOK, TablesOK, OthersOK, Handlers
<1> QED BY <1>4, <1>5, <1>6, <1>7

LEMMA RemovedType ==
  ASSUME TypeOK, NEW k \in Tasks, task[k] \in TaskRecords, Removed(k)
  PROVE  TypeOK'
<1>1. PICK p, r : p = task[k].party /\ r = task[k].todo
  OBVIOUS
<1>2. p \in Parties /\ r \in Seq(Players)
  BY <1>1 DEF TaskRecords
<1>3. /\ DissolveRest(k, p, r, queued, invite)
      /\ UNCHANGED <<founded, issued, registry, ticket, crashes>>
  BY <1>1 DEF Removed
<1> HIDE <1>1
<1> QED BY <1>2, <1>3, DissolveRestType DEF TypeOK

LEMMA ThawType ==
  ASSUME queued \in [Parties -> Tickets \cup {None}], NEW p, NEW t
  PROVE  Thaw(p, t) \in [Parties -> Tickets \cup {None}]
  BY DEF Thaw

LEMMA CancelledType ==
  ASSUME TypeOK, NEW k \in Tasks, task[k] \in TaskRecords, Cancelled(k)
  PROVE  TypeOK'
<1>1. PICK p, t : p = task[k].party /\ t = task[k].ticket
  OBVIOUS
<1>2. p \in Parties
  BY <1>1 DEF TaskRecords
<1>3. /\ Dissolve(k, p, Thaw(p, t), invite)
      /\ UNCHANGED <<founded, issued, registry, ticket, crashes>>
  BY <1>1 DEF Cancelled
<1> HIDE <1>1
<1>4. PICK q \in [Parties -> Tickets \cup {None}] : q = Thaw(p, t)
  BY ThawType DEF TypeOK
<1>5. Dissolve(k, p, q, invite)
  BY <1>3, <1>4
<1> HIDE <1>4
<1> QED BY <1>2, <1>3, <1>5, DissolveType DEF TypeOK

LEMMA AnswerType ==
  ASSUME TypeOK, NEW k \in Tasks, Answer(k)
  PROVE  TypeOK'
<1>1. task[k].kind # "idle" \/ task[k].pc # "idle"
  BY DEF Answer, Refused, Created, Accepted, Left, Removed, Cancelled, Lost
<1>2. task[k] \in TaskRecords
  BY <1>1, WaitingIsRecord, TypeParts
<1>3. CASE Refused(k) \/ Lost(k)
  <2>1. Step(k, Idle) /\ UNCHANGED <<party, registry, ticket, crashes>>
    BY <1>3 DEF Refused, Lost
  <2>2. task' \in [Tasks -> Handlers]
    BY <2>1, IdleIsHandler, StepKeepsRecords, TypeParts
  <2>3. OthersOK'
    BY <2>1, TypeParts DEF OthersOK
  <2> QED BY <2>1, <2>2, <2>3, QuietType
<1> QED BY <1>2, <1>3, CreatedType, AcceptedType, LeftType, RemovedType, CancelledType DEF Answer

LEMMA CallType ==
  ASSUME TypeOK, NEW k \in Tasks, NEW p \in Parties, Call(k, p)
  PROVE  TypeOK'
<1>1. CASE \E pl \in Players : CreateParty(k, p, pl)
  <2>1. PICK pl \in Players : CreateParty(k, p, pl)
    BY <1>1
  <2>2. PICK rec : rec = [Idle EXCEPT !.kind = "create", !.pc = "claim", !.party = p,
                                      !.player = pl]
    OBVIOUS
  <2>3. rec \in TaskRecords
    <3>1. <<>> \in Seq(Players)
      OBVIOUS
    <3> QED BY <2>2, <3>1 DEF Idle, TaskRecords
  <2>4. Step(k, rec) /\ founded' = founded \cup {p}
        /\ UNCHANGED <<exists, queued, members, leaders, invite, issued, registry, ticket, crashes>>
    BY <2>1, <2>2 DEF CreateParty
  <2> HIDE <2>2
  <2>5. task' \in [Tasks -> Handlers]
    BY <2>3, <2>4, IdleIsHandler, StepKeepsRecords, TypeParts
  <2>6. RowsOK' /\ TablesOK' /\ OthersOK'
    BY <2>4, TypeParts DEF RowsOK, TablesOK, OthersOK
  <2> QED BY <2>5, <2>6 DEF TypeOK, RowsOK, TablesOK, OthersOK, Handlers
<1>2. CASE \E pl \in Players : AcceptInvite(k, p, pl)
  <2>1. PICK pl \in Players : AcceptInvite(k, p, pl)
    BY <1>2
  <2>2. PICK n : n = issued[p][pl]
    OBVIOUS
  <2>3. n \in Nat
    BY <2>2 DEF TypeOK
  <2>4. PICK rec : rec = [Idle EXCEPT !.kind = "accept", !.pc = "claim", !.party = p,
                                      !.player = pl, !.token = n]
    OBVIOUS
  <2>5. rec \in TaskRecords
    <3>1. <<>> \in Seq(Players)
      OBVIOUS
    <3> QED BY <2>3, <2>4, <3>1 DEF Idle, TaskRecords
  <2>6. Step(k, rec) /\ UNCHANGED <<party, registry, ticket, crashes>>
    BY <2>1, <2>2, <2>4 DEF AcceptInvite
  <2> HIDE <2>4
  <2>7. task' \in [Tasks -> Handlers]
    BY <2>5, <2>6, IdleIsHandler, StepKeepsRecords, TypeParts
  <2>8. OthersOK'
    BY <2>6, TypeParts DEF OthersOK
  <2> QED BY <2>6, <2>7, <2>8, QuietType
<1>3. CASE \E pl \in Players : LeaveParty(k, p, pl)
  <2>1. PICK pl \in Players : LeaveParty(k, p, pl)
    BY <1>3
  <2>2. PICK n, b : n = Len(members[p]) - 1 /\ b = (pl \in leaders[p])
    OBVIOUS
  <2>3. n \in Nat /\ b \in BOOLEAN
    <3>1. members[p] \in Seq(Players) /\ pl \in Range(members[p])
      BY <2>1 DEF LeaveParty, TypeOK
    <3>2. Len(members[p]) \in Nat \ {0}
      BY <3>1 DEF Range
    <3> QED BY <2>2, <3>2
  <2>4. PICK rec : rec = [Idle EXCEPT !.kind = "leave", !.party = p, !.led = b, !.left = n]
    OBVIOUS
  <2>5. [rec EXCEPT !.pc = "release", !.player = pl] \in TaskRecords
    <3>1. <<>> \in Seq(Players)
      OBVIOUS
    <3> QED BY <2>3, <2>4, <3>1 DEF Idle, TaskRecords
  <2>6. Remove(k, rec, p, pl)
        /\ UNCHANGED <<founded, exists, queued, invite, issued, registry, ticket, crashes>>
    BY <2>1, <2>2, <2>4 DEF LeaveParty
  <2> HIDE <2>2, <2>4
  <2>7. RowsOK' /\ task' \in [Tasks -> Handlers]
    BY <2>5, <2>6, RemoveType, TypeParts
  <2>8. TablesOK' /\ OthersOK'
    BY <2>6, TypeParts DEF TablesOK, OthersOK
  <2> QED BY <2>7, <2>8 DEF TypeOK, RowsOK, TablesOK, OthersOK, Handlers
<1>4. CASE \E pl \in Players : DissolveParty(k, p, pl)
  <2>1. PICK pl \in Players : DissolveParty(k, p, pl)
    BY <1>4
  <2>2. UNCHANGED <<founded, issued, registry, ticket, crashes>>
    BY <2>1 DEF DissolveParty
  <2>3. CASE Dissolve(k, p, queued, invite)
    BY <2>2, <2>3, DissolveType DEF TypeOK
  <2>4. CASE ~Dissolve(k, p, queued, invite)
    <3>1. PICK rec : rec = [Idle EXCEPT !.kind = "cancel", !.pc = "cancel", !.party = p,
                                        !.player = pl, !.ticket = queued[p]]
      OBVIOUS
    <3>2. rec \in TaskRecords
      <4>1. <<>> \in Seq(Players) /\ queued[p] \in Tickets \cup {None}
        BY DEF TypeOK
      <4> QED BY <3>1, <4>1 DEF Idle, TaskRecords
    <3>3. Step(k, rec) /\ UNCHANGED <<party, registry, ticket, crashes>>
      BY <2>1, <2>4, <3>1 DEF DissolveParty, party
    <3> HIDE <3>1
    <3>4. task' \in [Tasks -> Handlers]
      BY <3>2, <3>3, IdleIsHandler, StepKeepsRecords, TypeParts
    <3>5. OthersOK'
      BY <3>3, TypeParts DEF OthersOK
    <3> QED BY <3>3, <3>4, <3>5, QuietType
  <2> QED BY <2>3, <2>4
<1>5. CASE IdleAlarm(k, p)
  <2>1. PICK inv \in [Parties -> [Players -> {"none", "open", "expired", "used"}]] : inv = Swept(p)
    BY DEF Swept, TypeOK
  <2>2. Dissolve(k, p, queued, inv) /\ UNCHANGED <<founded, issued, registry, ticket, crashes>>
    BY <1>5, <2>1 DEF IdleAlarm
  <2> HIDE <2>1
  <2> QED BY <2>2, DissolveType DEF TypeOK
<1> QED BY <1>1, <1>2, <1>3, <1>4, <1>5 DEF Call

LEMMA QuickType ==
  ASSUME TypeOK, NEW p \in Parties, Quick(p)
  PROVE  TypeOK'
<1>1. CASE \E pl \in Players : InviteMember(p, pl)
  <2>1. PICK pl \in Players : InviteMember(p, pl)
    BY <1>1
  <2>2. PICK n : n = issued[p][pl] + 1
    OBVIOUS
  <2>3. n \in Nat
    BY <2>2 DEF TypeOK
  <2>4. [invite EXCEPT ![p][pl] = "open"]
           \in [Parties -> [Players -> {"none", "open", "expired", "used"}]]
    BY CellType DEF TypeOK
  <2>5. [issued EXCEPT ![p][pl] = n] \in [Parties -> [Players -> Nat]]
    BY <2>3, CellType DEF TypeOK
  <2>6. /\ invite' = [invite EXCEPT ![p][pl] = "open"]
        /\ issued' = [issued EXCEPT ![p][pl] = n]
        /\ UNCHANGED <<founded, exists, queued, members, leaders, registry, task, ticket, crashes>>
    BY <2>1, <2>2 DEF InviteMember, TypeOK
  <2>7. TablesOK'
    BY <2>4, <2>5, <2>6, TypeParts DEF TablesOK
  <2>8. RowsOK' /\ OthersOK' /\ task' \in [Tasks -> Handlers]
    BY <2>6, TypeParts DEF RowsOK, OthersOK
  <2> QED BY <2>7, <2>8 DEF TypeOK, RowsOK, TablesOK, OthersOK, Handlers
<1>2. CASE (\E pl \in Players : InviteExpires(p, pl)) \/ InviteAlarm(p)
  <2>1. invite' \in [Parties -> [Players -> {"none", "open", "expired", "used"}]]
    <3>1. CASE \E pl \in Players : InviteExpires(p, pl)
      <4>1. PICK pl \in Players : InviteExpires(p, pl)
        BY <3>1
      <4> QED BY <4>1, CellType DEF InviteExpires, TypeOK
    <3>2. CASE InviteAlarm(p)
      BY <3>2 DEF InviteAlarm, Swept, TypeOK
    <3> QED BY <1>2, <3>1, <3>2
  <2>2. UNCHANGED <<founded, exists, queued, members, leaders, issued, registry, task, ticket,
                    crashes>>
    BY <1>2 DEF InviteExpires, InviteAlarm
  <2>3. TablesOK'
    BY <2>1, <2>2, TypeParts DEF TablesOK
  <2>4. RowsOK' /\ OthersOK' /\ task' \in [Tasks -> Handlers]
    BY <2>2, TypeParts DEF RowsOK, OthersOK
  <2> QED BY <2>3, <2>4 DEF TypeOK, RowsOK, TablesOK, OthersOK, Handlers
<1>3. CASE \E pl \in Players : TransferLeadership(p, pl)
  <2>1. PICK pl \in Players : TransferLeadership(p, pl)
    BY <1>3
  <2>2. PICK s \in Seq(Players) : s = members[p]
    BY DEF TypeOK
  <2>3. PICK l \in SUBSET Players : l = {pl}
    OBVIOUS
  <2>4. l \subseteq Range(s) /\ members' = [members EXCEPT ![p] = s]
        /\ leaders' = [leaders EXCEPT ![p] = l]
    BY <2>1, <2>2, <2>3 DEF TransferLeadership, NewLeader, TypeOK
  <2> HIDE <2>2, <2>3
  <2>5. RowsOK'
    BY <2>4, NewRowsType, TypeParts
  <2>6. TablesOK' /\ OthersOK' /\ task' \in [Tasks -> Handlers]
    BY <2>1, TypeParts DEF TransferLeadership, TablesOK, OthersOK
  <2> QED BY <2>5, <2>6 DEF TypeOK, RowsOK, TablesOK, OthersOK, Handlers
<1>4. CASE \E pl \in Players : \E t \in Tickets : BeginQueueTicket(t, p, pl)
  <2>1. PICK pl \in Players, t \in Tickets : BeginQueueTicket(t, p, pl)
    BY <1>4
  <2>2. PICK r \in TicketRecords : r = [state |-> "frozen", party |-> p, owner |-> pl,
                                        members |-> Range(members[p])]
    <3>1. Range(members[p]) \subseteq Players
      BY DEF Range, TypeOK
    <3> QED BY <3>1 DEF TicketRecords
  <2>3. ticket' = [ticket EXCEPT ![t] = r]
    BY <2>1, <2>2 DEF BeginQueueTicket
  <2> HIDE <2>2
  <2>4. ticket' \in [Tickets -> TicketRecords]
    BY <2>3 DEF TypeOK
  <2>5. TablesOK' /\ OthersOK'
    BY <2>1, <2>4, TypeParts DEF BeginQueueTicket, TablesOK, OthersOK
  <2>6. RowsOK' /\ task' \in [Tasks -> Handlers]
    BY <2>1, TypeParts DEF BeginQueueTicket, RowsOK
  <2> QED BY <2>5, <2>6 DEF TypeOK, RowsOK, TablesOK, OthersOK, Handlers
<1> QED BY <1>1, <1>2, <1>3, <1>4 DEF Quick

LEMMA TicketType ==
  ASSUME TypeOK, NEW t \in Tickets,
         \/ TicketMoves(t, "frozen", "queued") \/ TicketMoves(t, "queued", "reserved")
         \/ TicketEnds(t) \/ EndQueueTicket(t)
  PROVE  TypeOK'
<1>1. PICK s \in {"queued", "reserved", "ending", "ended"} :
         ticket' = [ticket EXCEPT ![t].state = s]
  BY DEF TicketMoves, TicketEnds, EndQueueTicket
<1>2. ticket' \in [Tickets -> TicketRecords]
  BY <1>1, TicketStateType DEF TypeOK
<1>3. UNCHANGED <<founded, exists, members, leaders, invite, issued, registry, task, crashes>>
  BY DEF TicketMoves, TicketEnds, EndQueueTicket, party
<1>4. queued' \in [Parties -> Tickets \cup {None}]
  <2>1. queued' = queued \/ \E p : queued' = Thaw(p, t)
    BY DEF TicketMoves, TicketEnds, EndQueueTicket, party
  <2> QED BY <2>1, ThawType DEF TypeOK
<1>5. TablesOK'
  BY <1>3, <1>4, TypeParts DEF TablesOK
<1>6. RowsOK' /\ OthersOK' /\ task' \in [Tasks -> Handlers]
  BY <1>2, <1>3, TypeParts DEF RowsOK, OthersOK
<1> QED BY <1>5, <1>6 DEF TypeOK, RowsOK, TablesOK, OthersOK, Handlers

LEMMA CrashType ==
  ASSUME TypeOK, NEW p \in Parties, Crash(p)
  PROVE  TypeOK'
<1>1. ASSUME NEW k \in Tasks
      PROVE  task'[k] \in Handlers
  <2>1. PICK rec \in Handlers : rec = task[k]
    BY TypeParts
  <2>2. \/ task'[k] = rec \/ task'[k] = Idle
        \/ rec.pc # "idle" /\ task'[k] = [rec EXCEPT !.kind = "lost"]
    BY <2>1 DEF Crash
  <2>3. ASSUME rec.pc # "idle" PROVE [rec EXCEPT !.kind = "lost"] \in Handlers
    <3>1. rec \in TaskRecords
      BY <2>3, WaitingIsRecord
    <3> QED BY <3>1 DEF TaskRecords, Handlers
  <2> QED BY <2>2, <2>3, IdleIsHandler
<1>2. task' \in [Tasks -> Handlers]
  <2>1. task' = [k \in Tasks |-> task'[k]]
    BY DEF Crash
  <2> QED BY <1>1, <2>1
<1>3. OthersOK'
  BY TypeParts DEF Crash, OthersOK
<1> QED BY <1>2, <1>3, QuietType DEF Crash

LEMMA InitType == Init => TypeOK
<1> SUFFICES ASSUME Init PROVE TypeOK
  OBVIOUS
<1>1. <<>> \in Seq(Players)
  OBVIOUS
<1>2. RowsOK
  BY <1>1 DEF Init, RowsOK
<1>3. TablesOK
  BY DEF Init, TablesOK
<1>4. NoTicket \in TicketRecords
  BY DEF NoTicket, TicketRecords
<1>5. OthersOK
  BY <1>4 DEF Init, OthersOK
<1>6. task \in [Tasks -> Handlers]
  BY IdleIsHandler DEF Init
<1> QED BY <1>2, <1>3, <1>5, <1>6, TypeParts

LEMMA NextType == TypeOK /\ [Next]_vars => TypeOK'
<1> SUFFICES ASSUME TypeOK, [Next]_vars PROVE TypeOK'
  OBVIOUS
<1>1. CASE UNCHANGED vars
  BY <1>1 DEF vars, TypeOK
<1>2. CASE Next
  BY <1>2, ServeType, AnswerType, CallType, QuickType, TicketType, CrashType DEF Next
<1> QED BY <1>1, <1>2

\* The tables, registries, handlers and tickets keep their shape, and nobody
\* has the role `leader' without a row in party_members.
THEOREM TypeCorrect == Spec => []TypeOK
  BY InitType, NextType, PTL DEF Spec
-----------------------------------------------------------------------------
(* One leader at most.  Most steps only take roles away, end handlers, or   *)
(* start such as neither create a Party nor are a leader's departure.       *)

QuietTask(k) ==
    \/ task'[k] = Idle
    \/ /\ task[k] # Idle
       /\ task'[k].party = task[k].party
       /\ task'[k].kind = task[k].kind /\ task'[k].led = task[k].led
    \/ /\ task[k] # Idle
       /\ task'[k].party = task[k].party
       /\ task'[k].kind \notin {"create", "leave"}
    \/ /\ task'[k].party \in exists
       /\ task'[k].kind # "create"
       /\ task'[k].kind = "leave" => ~task'[k].led

QuietStep ==
    /\ founded' = founded
    /\ exists' \subseteq exists
    /\ \A p \in Parties : leaders'[p] \subseteq leaders[p]
    /\ \A k \in Tasks : QuietTask(k)

LEMMA IdleFields == Idle.kind = "idle" /\ Idle.pc = "idle" /\ Idle.party = None /\ None \notin Parties
  BY PartyAssumption DEF Idle

LEMMA QuietKeeps ==
  ASSUME TypeOK, LeaderInv, QuietStep
  PROVE  LeaderInv'
<1> USE IdleFields
<1>1. founded \subseteq Parties /\ exists \subseteq founded
  BY DEF TypeOK, LeaderInv
<1>2. \A p \in Parties : \A a, b \in leaders'[p] : a = b
  BY DEF QuietStep, LeaderInv
<1>3. \A p \in Parties : leaders'[p] # {} => p \in founded'
  BY DEF QuietStep, LeaderInv
<1>4. exists' \subseteq founded'
  BY DEF QuietStep, LeaderInv
<1>5. \A k \in Tasks : task'[k] = Idle \/ task'[k].party \in founded'
  BY DEF QuietStep, QuietTask, LeaderInv
<1>6. \A k \in Tasks : LeaderGone(k)' => LeaderGone(k) /\ task'[k].party = task[k].party
  BY DEF QuietStep, QuietTask, LeaderGone
<1>7. \A k \in Tasks : LeaderGone(k) => task[k].party \in Parties
  BY <1>1 DEF LeaderInv, LeaderGone
<1>8. \A k \in Tasks : LeaderGone(k)' => leaders'[task'[k].party] = {}
  BY <1>6, <1>7 DEF QuietStep, LeaderInv
<1>9. \A j, k \in Tasks :
         LeaderGone(j)' /\ LeaderGone(k)' /\ task'[j].party = task'[k].party => j = k
  BY <1>6 DEF LeaderInv
<1>10. ASSUME NEW k \in Tasks, task'[k].kind = "create"
       PROVE  /\ task'[k].party \notin exists'
              /\ leaders'[task'[k].party] = {}
              /\ \A j \in Tasks \ {k} : task'[j].party # task'[k].party
  <2>1. task[k].kind = "create" /\ task'[k].party = task[k].party
    BY <1>10 DEF QuietStep, QuietTask
  <2>2. task[k].party \in founded /\ task[k].party \in Parties
    BY <2>1, <1>1 DEF LeaderInv
  <2>3. ASSUME NEW j \in Tasks \ {k} PROVE task'[j].party # task'[k].party
    <3>1. task[j].party # task[k].party /\ task[k].party \notin exists
      BY <2>1 DEF LeaderInv
    <3> QED BY <2>1, <2>2, <3>1 DEF QuietStep, QuietTask
  <2> QED BY <2>1, <2>2, <2>3 DEF QuietStep, LeaderInv
<1> QED BY <1>2, <1>3, <1>4, <1>5, <1>8, <1>9, <1>10 DEF LeaderInv, LeaderGone

\* A handler that takes its next step leaves the others to themselves.
LEMMA OneSteps ==
  ASSUME TypeOK, NEW k \in Tasks, NEW rec, Step(k, rec)
  PROVE  task'[k] = rec /\ \A j \in Tasks \ {k} : task'[j] = task[j] /\ QuietTask(j)
  BY DEF Step, TypeOK, QuietTask

LEMMA DissolveQuiet ==
  ASSUME TypeOK, NEW k \in Tasks, NEW p, NEW rows, NEW q, NEW inv,
         DissolveRest(k, p, rows, q, inv), founded' = founded,
         (task[k] # Idle /\ task[k].party = p) \/ p \in exists
  PROVE  QuietStep
<1>1. CASE rows = <<>>
  <2>1. exists' = exists \ {p} /\ Step(k, Idle) /\ leaders' = leaders
    BY <1>1 DEF DissolveRest
  <2>2. \A j \in Tasks : QuietTask(j)
    BY <2>1, OneSteps DEF QuietTask
  <2> QED BY <2>1, <2>2 DEF QuietStep
<1>2. CASE rows # <<>>
  <2> DEFINE base == [Idle EXCEPT !.kind = "dissolve", !.party = p, !.todo = Tail(rows)]
  <2>1. PICK rec : rec = [base EXCEPT !.pc = "release", !.player = Head(rows)]
    OBVIOUS
  <2>2. rec.kind = "dissolve" /\ rec.party = p
    BY <2>1 DEF Idle
  <2>3. Step(k, rec) /\ exists' = exists /\ leaders' = [leaders EXCEPT ![p] = @ \ {Head(rows)}]
    BY <1>2, <2>1 DEF DissolveRest, Remove
  <2> HIDE <2>1
  <2>4. \A j \in Tasks : QuietTask(j)
    BY <2>2, <2>3, OneSteps DEF QuietTask
  <2>5. \A x \in Parties : leaders'[x] \subseteq leaders[x]
    BY <2>3 DEF TypeOK
  <2> QED BY <2>3, <2>4, <2>5 DEF QuietStep
<1> QED BY <1>1, <1>2

\* A step that ends a handler and changes no role.
LEMMA EndsQuiet ==
  ASSUME TypeOK, NEW k \in Tasks, Step(k, Idle), UNCHANGED <<founded, exists, leaders>>
  PROVE  QuietStep
<1>1. \A j \in Tasks : QuietTask(j)
  BY OneSteps DEF QuietTask
<1> QED BY <1>1 DEF QuietStep

\* A step of no handler that changes no role.
LEMMA ApartQuiet ==
  ASSUME UNCHANGED <<founded, exists, leaders, task>>
  PROVE  QuietStep
  BY DEF QuietStep, QuietTask

LEMMA ServeQuiet ==
  ASSUME TypeOK, NEW k \in Tasks, Serve(k)
  PROVE  QuietStep
<1>1. UNCHANGED party /\ task[k].pc # "idle"
  BY DEF Serve, ClaimServed, ReleaseServed, CancelServed
<1>2. PICK pc : Step(k, [task[k] EXCEPT !.pc = pc])
  BY DEF Serve, ClaimServed, ReleaseServed, CancelServed
<1>3. task[k] \in TaskRecords /\ task[k] # Idle
  BY <1>1, WaitingIsRecord, TypeParts, IdleFields
<1>4. QuietTask(k)
  <2>1. PICK old \in TaskRecords : old = task[k]
    BY <1>3
  <2>2. PICK rec : rec = [old EXCEPT !.pc = pc]
    OBVIOUS
  <2>3. rec.party = old.party /\ rec.kind = old.kind /\ rec.led = old.led
    BY <2>2 DEF TaskRecords
  <2>4. task'[k] = rec
    BY <1>2, <2>1, <2>2, OneSteps
  <2> QED BY <1>3, <2>1, <2>3, <2>4 DEF QuietTask
<1>5. \A j \in Tasks : QuietTask(j)
  <2>1. PICK rec : Step(k, rec)
    BY <1>2
  <2> QED BY <1>4, <2>1, OneSteps
<1> QED BY <1>1, <1>5 DEF QuietStep, party

LEMMA CreatePartyKeeps ==
  ASSUME TypeOK, LeaderInv, NEW k \in Tasks, NEW p \in Parties, NEW pl, CreateParty(k, p, pl)
  PROVE  LeaderInv'
<1> USE IdleFields
<1>1. PICK rec : rec = [Idle EXCEPT !.kind = "create", !.pc = "claim", !.party = p,
                                    !.player = pl]
  OBVIOUS
<1>2. /\ p \notin founded /\ founded' = founded \cup {p} /\ Step(k, rec) /\ task[k] = Idle
      /\ UNCHANGED <<exists, leaders>>
  BY <1>1 DEF CreateParty
<1>3. rec.kind = "create" /\ rec.party = p
  BY <1>1 DEF Idle
<1> HIDE <1>1
<1>4. task'[k] = rec /\ \A j \in Tasks \ {k} : task'[j] = task[j]
  BY <1>2, OneSteps
<1>5. founded \subseteq Parties /\ exists \subseteq founded
  BY DEF TypeOK, LeaderInv
<1>6. \A j \in Tasks : LeaderGone(j)' => LeaderGone(j) /\ task'[j] = task[j]
  BY <1>3, <1>4 DEF LeaderGone
<1>7. /\ \A x \in Parties : \A a, b \in leaders'[x] : a = b
      /\ \A x \in Parties : leaders'[x] # {} => x \in founded'
      /\ exists' \subseteq founded'
      /\ \A j \in Tasks : task'[j] = Idle \/ task'[j].party \in founded'
      /\ \A j \in Tasks : LeaderGone(j)' => leaders'[task'[j].party] = {}
      /\ \A i, j \in Tasks :
            LeaderGone(i)' /\ LeaderGone(j)' /\ task'[i].party = task'[j].party => i = j
  BY <1>2, <1>3, <1>4, <1>6 DEF LeaderInv
<1>8. ASSUME NEW c \in Tasks, task'[c].kind = "create"
      PROVE  /\ task'[c].party \notin exists'
             /\ leaders'[task'[c].party] = {}
             /\ \A j \in Tasks \ {c} : task'[j].party # task'[c].party
  <2>1. \A j \in Tasks : task[j].party # p
    BY <1>2, <1>5 DEF LeaderInv
  <2>2. p \notin exists /\ leaders[p] = {}
    BY <1>2, <1>5 DEF LeaderInv
  <2>3. CASE c = k
    BY <2>1, <2>2, <2>3, <1>2, <1>3, <1>4
  <2>4. CASE c # k
    <3>1. task'[c] = task[c] /\ task[c].party # p
      BY <2>1, <2>4, <1>4
    <3>2. /\ task[c].party \notin exists
          /\ leaders[task[c].party] = {}
          /\ \A j \in Tasks \ {c} : task[j].party # task[c].party
      BY <1>8, <3>1 DEF LeaderInv
    <3> QED BY <3>1, <3>2, <1>2, <1>3, <1>4
  <2> QED BY <2>3, <2>4
<1> QED BY <1>7, <1>8 DEF LeaderInv, LeaderGone

\* A step that makes pl the leader of p, where no handler is left that creates
\* p or is to choose its leader.
LEMMA NewLeaderKeeps ==
  ASSUME TypeOK, LeaderInv, NEW p \in Parties, NEW l,
         \A a, b \in l : a = b,
         p \in founded, founded' = founded, exists' \subseteq exists \cup {p},
         leaders' = [leaders EXCEPT ![p] = l],
         \A j \in Tasks : task'[j] = task[j] \/ task'[j] = Idle,
         \A j \in Tasks : task[j].party = p /\ (task[j].kind = "create" \/ LeaderGone(j))
                             => task'[j] = Idle
  PROVE  LeaderInv'
<1> USE IdleFields
<1>1. founded \subseteq Parties /\ exists \subseteq founded
  BY DEF TypeOK, LeaderInv
<1>2. leaders'[p] = l /\ \A x \in Parties \ {p} : leaders'[x] = leaders[x]
  BY DEF TypeOK
<1>3. \A j \in Tasks : LeaderGone(j)' => LeaderGone(j) /\ task'[j] = task[j] /\ task[j].party # p
  BY DEF LeaderGone
<1>4. \A j \in Tasks : task'[j].kind = "create" => task'[j] = task[j] /\ task[j].party # p
  OBVIOUS
<1>5. \A j \in Tasks : LeaderGone(j) \/ task[j].kind = "create" => task[j].party \in Parties
  BY <1>1 DEF LeaderInv, LeaderGone
<1>6. \A x \in Parties : \A a, b \in leaders'[x] : a = b
  BY <1>2 DEF LeaderInv
<1>7. \A x \in Parties : leaders'[x] # {} => x \in founded'
  BY <1>2 DEF LeaderInv
<1>8. \A j \in Tasks : task'[j] = Idle \/ task'[j].party \in founded'
  BY DEF LeaderInv
<1>9. \A j \in Tasks : LeaderGone(j)' => leaders'[task'[j].party] = {}
  BY <1>2, <1>3, <1>5 DEF LeaderInv
<1>10. \A i, j \in Tasks :
          LeaderGone(i)' /\ LeaderGone(j)' /\ task'[i].party = task'[j].party => i = j
  BY <1>3 DEF LeaderInv
<1>11. ASSUME NEW c \in Tasks, task'[c].kind = "create"
       PROVE  /\ task'[c].party \notin exists'
              /\ leaders'[task'[c].party] = {}
              /\ \A j \in Tasks \ {c} : task'[j].party # task'[c].party
  <2>1. task'[c] = task[c] /\ task[c].party # p /\ task[c].party \in Parties
    BY <1>4, <1>5, <1>11
  <2>2. /\ task[c].party \notin exists
        /\ leaders[task[c].party] = {}
        /\ \A j \in Tasks \ {c} : task[j].party # task[c].party
    BY <1>11, <2>1 DEF LeaderInv
  <2> QED BY <2>1, <2>2, <1>2
<1> QED BY <1>1, <1>6, <1>7, <1>8, <1>9, <1>10, <1>11 DEF LeaderInv, LeaderGone

LEMMA LeavePartyKeeps ==
  ASSUME TypeOK, LeaderInv, NEW k \in Tasks, NEW p \in Parties, NEW pl \in Players,
         LeaveParty(k, p, pl)
  PROVE  LeaderInv'
<1> USE IdleFields
<1>1. PICK b : b = (pl \in leaders[p])
  OBVIOUS
<1>2. PICK rec : /\ Step(k, rec)
                 /\ rec.kind = "leave" /\ rec.party = p /\ rec.led = b
  <2>1. PICK base : base = [Idle EXCEPT !.kind = "leave", !.party = p, !.led = b,
                                        !.left = Len(members[p]) - 1]
    OBVIOUS
  <2>2. PICK rec : rec = [base EXCEPT !.pc = "release", !.player = pl]
    OBVIOUS
  <2>3. rec.kind = "leave" /\ rec.party = p /\ rec.led = b
    BY <2>1, <2>2 DEF Idle
  <2>4. Step(k, rec)
    BY <2>1, <2>2, <1>1 DEF LeaveParty, Remove
  <2> QED BY <2>3, <2>4
<1>3. /\ p \in exists /\ task[k] = Idle
      /\ UNCHANGED <<founded, exists>>
      /\ leaders' = [leaders EXCEPT ![p] = @ \ {pl}]
  BY DEF LeaveParty, Remove
<1>4. task'[k] = rec /\ \A j \in Tasks \ {k} : task'[j] = task[j] /\ QuietTask(j)
  BY <1>2, OneSteps
<1>5. leaders'[p] = leaders[p] \ {pl} /\ \A x \in Parties \ {p} : leaders'[x] = leaders[x]
  BY <1>3 DEF TypeOK
<1>6. CASE pl \notin leaders[p]
  <2>1. \A j \in Tasks : QuietTask(j)
    BY <1>1, <1>2, <1>3, <1>4, <1>6 DEF QuietTask
  <2>2. QuietStep
    BY <1>3, <1>5, <2>1 DEF QuietStep
  <2> QED BY <2>2, QuietKeeps
<1>7. CASE pl \in leaders[p]
  <2>1. founded \subseteq Parties /\ exists \subseteq founded /\ p \in founded
    BY <1>3 DEF TypeOK, LeaderInv
  <2>2. leaders'[p] = {}
    BY <1>5, <1>7 DEF LeaderInv
  <2>3. \A j \in Tasks : LeaderGone(j) \/ task[j].kind = "create"
                            => task[j].party # p /\ task[j].party \in Parties
    BY <1>3, <1>7, <2>1 DEF LeaderInv, LeaderGone
  <2>4. \A j \in Tasks \ {k} : LeaderGone(j)' => LeaderGone(j) /\ task'[j] = task[j]
    BY <1>4 DEF LeaderGone
  <2>5. \A x \in Parties : \A c, d \in leaders'[x] : c = d
    BY <1>5, <2>2 DEF LeaderInv
  <2>6. \A x \in Parties : leaders'[x] # {} => x \in founded'
    BY <1>3, <1>5, <2>1 DEF LeaderInv
  <2>7. \A j \in Tasks : task'[j] = Idle \/ task'[j].party \in founded'
    BY <1>2, <1>3, <1>4, <2>1 DEF LeaderInv
  <2>8. \A j \in Tasks : LeaderGone(j)' => leaders'[task'[j].party] = {}
    BY <1>2, <1>4, <1>5, <2>2, <2>3, <2>4 DEF LeaderInv
  <2>9. \A i, j \in Tasks :
           LeaderGone(i)' /\ LeaderGone(j)' /\ task'[i].party = task'[j].party => i = j
    BY <1>2, <1>4, <2>3, <2>4 DEF LeaderInv
  <2>10. ASSUME NEW c \in Tasks, task'[c].kind = "create"
         PROVE  /\ task'[c].party \notin exists'
                /\ leaders'[task'[c].party] = {}
                /\ \A j \in Tasks \ {c} : task'[j].party # task'[c].party
    <3>1. c # k /\ task'[c] = task[c]
      BY <1>2, <1>4, <2>10
    <3>2. /\ task[c].party \notin exists
          /\ leaders[task[c].party] = {}
          /\ \A j \in Tasks \ {c} : task[j].party # task[c].party
          /\ task[c].party # p /\ task[c].party \in Parties
      BY <2>3, <2>10, <3>1 DEF LeaderInv
    <3> QED BY <3>1, <3>2, <1>2, <1>3, <1>4, <1>5
  <2> QED BY <1>3, <2>1, <2>5, <2>6, <2>7, <2>8, <2>9, <2>10 DEF LeaderInv, LeaderGone
<1> QED BY <1>6, <1>7

LEMMA LeftKeeps ==
  ASSUME TypeOK, LeaderInv, NEW k \in Tasks, Left(k)
  PROVE  LeaderInv'
<1> USE IdleFields
<1>1. PICK p : p = task[k].party
  OBVIOUS
<1>2. task[k].kind = "leave" /\ task[k] # Idle /\ founded' = founded
  BY DEF Left
<1>3. \/ Dissolve(k, p, queued, invite)
      \/ UNCHANGED <<exists, leaders>> /\ Step(k, Idle)
      \/ /\ UNCHANGED exists /\ Step(k, Idle) /\ LeaderGone(k)
         /\ leaders' = [leaders EXCEPT ![p] = @ \cup {Head(members[p])}]
  BY <1>1 DEF Left, LeaderNeeded, LeaderGone
<1>4. CASE Dissolve(k, p, queued, invite)
  BY <1>1, <1>2, <1>4, DissolveQuiet, QuietKeeps DEF Dissolve
<1>5. CASE UNCHANGED <<exists, leaders>> /\ Step(k, Idle)
  BY <1>2, <1>5, EndsQuiet, QuietKeeps
<1>6. CASE /\ UNCHANGED exists /\ Step(k, Idle) /\ LeaderGone(k)
           /\ leaders' = [leaders EXCEPT ![p] = @ \cup {Head(members[p])}]
  <2>1. p \in founded /\ p \in Parties
    BY <1>1, <1>2 DEF TypeOK, LeaderInv
  <2>2. leaders[p] = {}
    BY <1>1, <1>6 DEF LeaderInv
  <2>3. PICK l : l = {Head(members[p])}
    OBVIOUS
  <2>4. leaders' = [leaders EXCEPT ![p] = l] /\ \A a, b \in l : a = b
    BY <1>6, <2>2, <2>3
  <2>5. task'[k] = Idle /\ \A j \in Tasks \ {k} : task'[j] = task[j]
    BY <1>6, OneSteps
  <2>6. \A j \in Tasks : task[j].party = p /\ (task[j].kind = "create" \/ LeaderGone(j)) => j = k
    BY <1>1, <1>6 DEF LeaderInv
  <2> HIDE <2>3
  <2> QED BY <1>2, <1>6, <2>1, <2>4, <2>5, <2>6, NewLeaderKeeps, ZenonT(30)
<1> QED BY <1>3, <1>4, <1>5, <1>6

LEMMA CreatedKeeps ==
  ASSUME TypeOK, LeaderInv, NEW k \in Tasks, Created(k)
  PROVE  LeaderInv'
<1> USE IdleFields
<1>1. PICK p : p = task[k].party
  OBVIOUS
<1>2. PICK l : l = {task[k].player}
  OBVIOUS
<1>3. /\ task[k].kind = "create" /\ founded' = founded /\ exists' = exists \cup {p}
      /\ leaders' = [leaders EXCEPT ![p] = l] /\ Step(k, Idle)
  BY <1>1, <1>2 DEF Created
<1>4. p \in founded /\ p \in Parties
  BY <1>1, <1>3 DEF TypeOK, LeaderInv
<1>5. task'[k] = Idle /\ \A j \in Tasks \ {k} : task'[j] = task[j]
  BY <1>3, OneSteps
<1>6. \A j \in Tasks : task[j].party = p => j = k
  BY <1>1, <1>3 DEF LeaderInv
<1>7. \A a, b \in l : a = b
  BY <1>2
<1> HIDE <1>2
<1> QED BY <1>3, <1>4, <1>5, <1>6, <1>7, NewLeaderKeeps

LEMMA TransferKeeps ==
  ASSUME TypeOK, LeaderInv, NEW p \in Parties, NEW pl, TransferLeadership(p, pl)
  PROVE  LeaderInv'
<1>1. PICK l : l = {pl}
  OBVIOUS
<1>2. /\ leaders[p] # {} /\ leaders' = [leaders EXCEPT ![p] = l]
      /\ UNCHANGED <<founded, exists, task>>
  BY <1>1 DEF TransferLeadership, NewLeader
<1>3. p \in founded
  BY <1>2 DEF LeaderInv
<1>4. \A j \in Tasks : task[j].party = p => task[j].kind # "create" /\ ~LeaderGone(j)
  BY <1>2 DEF LeaderInv
<1>5. \A a, b \in l : a = b
  BY <1>1
<1> HIDE <1>1
<1> QED BY <1>2, <1>3, <1>4, <1>5, NewLeaderKeeps

LEMMA AnswerKeeps ==
  ASSUME TypeOK, LeaderInv, NEW k \in Tasks, Answer(k)
  PROVE  LeaderInv'
<1>1. CASE Refused(k) \/ Lost(k) \/ Accepted(k)
  <2>1. Step(k, Idle) /\ UNCHANGED <<founded, exists, leaders>>
    BY <1>1 DEF Refused, Lost, Accepted, party
  <2> QED BY <2>1, EndsQuiet, QuietKeeps
<1>2. CASE Removed(k) \/ Cancelled(k)
  <2>1. task[k].kind # "idle" /\ founded' = founded
    BY <1>2 DEF Removed, Cancelled
  <2>2. PICK p, rows, q : p = task[k].party /\ DissolveRest(k, p, rows, q, invite)
    BY <1>2 DEF Removed, Cancelled, Dissolve
  <2> QED BY <2>1, <2>2, IdleFields, DissolveQuiet, QuietKeeps
<1> QED BY <1>1, <1>2, CreatedKeeps, LeftKeeps DEF Answer

LEMMA CallKeeps ==
  ASSUME TypeOK, LeaderInv, NEW k \in Tasks, NEW p \in Parties, Call(k, p)
  PROVE  LeaderInv'
<1>1. CASE \E pl \in Players : CreateParty(k, p, pl)
  BY <1>1, CreatePartyKeeps
<1>2. CASE \E pl \in Players : LeaveParty(k, p, pl)
  BY <1>2, LeavePartyKeeps
<1>3. CASE \E pl \in Players : AcceptInvite(k, p, pl)
  <2>1. PICK pl \in Players : AcceptInvite(k, p, pl)
    BY <1>3
  <2>2. PICK rec : Step(k, rec) /\ rec.kind = "accept" /\ rec.party = p
    <3>1. PICK rec : rec = [Idle EXCEPT !.kind = "accept", !.pc = "claim", !.party = p,
                                        !.player = pl, !.token = issued[p][pl]]
      OBVIOUS
    <3>2. rec.kind = "accept" /\ rec.party = p
      BY <3>1 DEF Idle
    <3>3. Step(k, rec)
      BY <2>1, <3>1 DEF AcceptInvite
    <3> QED BY <3>2, <3>3
  <2>3. p \in exists /\ UNCHANGED <<founded, exists, leaders>>
    BY <2>1 DEF AcceptInvite, party
  <2>4. \A j \in Tasks : QuietTask(j)
    BY <2>2, <2>3, OneSteps DEF QuietTask
  <2> QED BY <2>3, <2>4, QuietKeeps DEF QuietStep
<1>4. CASE \E pl \in Players : DissolveParty(k, p, pl)
  <2>1. PICK pl \in Players : DissolveParty(k, p, pl)
    BY <1>4
  <2>2. p \in exists /\ founded' = founded
    BY <2>1 DEF DissolveParty
  <2>3. CASE Dissolve(k, p, queued, invite)
    BY <2>2, <2>3, DissolveQuiet, QuietKeeps DEF Dissolve
  <2>4. CASE ~Dissolve(k, p, queued, invite)
    <3>1. PICK rec : rec = [Idle EXCEPT !.kind = "cancel", !.pc = "cancel", !.party = p,
                                        !.player = pl, !.ticket = queued[p]]
      OBVIOUS
    <3>2. rec.kind = "cancel" /\ rec.party = p
      BY <3>1 DEF Idle
    <3>3. Step(k, rec) /\ UNCHANGED <<exists, leaders>>
      BY <2>1, <2>4, <3>1 DEF DissolveParty
    <3> HIDE <3>1
    <3>4. \A j \in Tasks : QuietTask(j)
      BY <2>2, <3>2, <3>3, OneSteps DEF QuietTask
    <3> QED BY <2>2, <3>3, <3>4, QuietKeeps DEF QuietStep
  <2> QED BY <2>3, <2>4
<1>5. CASE IdleAlarm(k, p)
  BY <1>5, DissolveQuiet, QuietKeeps DEF IdleAlarm, Dissolve
<1> QED BY <1>1, <1>2, <1>3, <1>4, <1>5 DEF Call

LEMMA QuickKeeps ==
  ASSUME TypeOK, LeaderInv, NEW p \in Parties, Quick(p)
  PROVE  LeaderInv'
<1>1. CASE \E pl \in Players : TransferLeadership(p, pl)
  BY <1>1, TransferKeeps
<1>2. CASE ~ \E pl \in Players : TransferLeadership(p, pl)
  <2>1. UNCHANGED <<founded, exists, leaders, task>>
    BY <1>2 DEF Quick, InviteMember, InviteExpires, BeginQueueTicket, InviteAlarm
  <2> QED BY <2>1, ApartQuiet, QuietKeeps
<1> QED BY <1>1, <1>2

LEMMA CrashKeeps ==
  ASSUME TypeOK, LeaderInv, NEW p \in Parties, Crash(p)
  PROVE  LeaderInv'
<1>1. ASSUME NEW k \in Tasks
      PROVE  QuietTask(k)
  <2>1. PICK rec \in Handlers : rec = task[k]
    BY TypeParts
  <2>2. CASE task'[k] = rec \/ task'[k] = Idle
    BY <2>1, <2>2 DEF QuietTask
  <2>3. CASE rec.pc # "idle" /\ task'[k] = [rec EXCEPT !.kind = "lost"]
    <3>1. rec \in TaskRecords /\ rec # Idle
      BY <2>3, WaitingIsRecord, IdleFields
    <3>2. task'[k].party = rec.party /\ task'[k].kind = "lost"
      BY <3>1, <2>3 DEF TaskRecords
    <3> QED BY <2>1, <3>1, <3>2 DEF QuietTask
  <2> QED BY <2>1, <2>2, <2>3 DEF Crash
<1>2. QuietStep
  BY <1>1 DEF QuietStep, Crash, party
<1> QED BY <1>2, QuietKeeps

LEMMA InitLeader == Init => LeaderInv
  BY IdleFields DEF Init, LeaderInv, LeaderGone

LEMMA NextLeader == TypeOK /\ LeaderInv /\ [Next]_vars => LeaderInv'
<1> SUFFICES ASSUME TypeOK, LeaderInv, [Next]_vars PROVE LeaderInv'
  OBVIOUS
<1>1. CASE UNCHANGED vars
  BY <1>1, ApartQuiet, QuietKeeps DEF vars
<1>2. CASE \E k \in Tasks : Serve(k) \/ Answer(k) \/ \E p \in Parties : Call(k, p)
  BY <1>2, ServeQuiet, QuietKeeps, AnswerKeeps, CallKeeps
<1>3. CASE \E p \in Parties : Quick(p) \/ Crash(p)
  BY <1>3, QuickKeeps, CrashKeeps
<1>4. CASE \E t \in Tickets :
              \/ TicketMoves(t, "frozen", "queued") \/ TicketMoves(t, "queued", "reserved")
              \/ TicketEnds(t) \/ EndQueueTicket(t)
  <2>1. UNCHANGED <<founded, exists, leaders, task>>
    BY <1>4 DEF TicketMoves, TicketEnds, EndQueueTicket, party
  <2> QED BY <2>1, ApartQuiet, QuietKeeps
<1> QED BY <1>1, <1>2, <1>3, <1>4 DEF Next

\* The invariant that UniqueLeader rests on: while a departed leader's
\* membership is being released, its Party has no leader and no second departed
\* leader, and nobody else reaches a Party that is still being created.
THEOREM LeadersKept == Spec => []LeaderInv
<1>1. TypeOK /\ LeaderInv /\ [Next]_vars => LeaderInv'
  BY NextLeader
<1> QED BY <1>1, InitLeader, TypeCorrect, PTL DEF Spec

LEMMA AtMostOne ==
  ASSUME NEW S, \A a, b \in S : a = b
  PROVE  Cardinality(S) <= 1
<1>1. CASE S = {}
  BY <1>1, FS_EmptySet
<1>2. CASE S # {}
  <2>1. PICK a : S = {a}
    BY <1>2
  <2> QED BY <2>1, FS_Singleton
<1> QED BY <1>1, <1>2

\* A Party never has two leaders, whatever leaves, transfers, dissolutions and
\* restarts overlap.
THEOREM OneLeader == Spec => []UniqueLeader
<1>1. LeaderInv => UniqueLeader
  BY AtMostOne DEF LeaderInv, UniqueLeader
<1> QED BY <1>1, LeadersKept, PTL
-----------------------------------------------------------------------------
(* One Party per player.  A player's rows and handlers, over the state they *)
(* are read from.                                                          *)

Distinct(s) == \A i, j \in DOMAIN s : s[i] = s[j] => i = j

Stands(rec, p, pl) == rec.pc \in {"claimed", "release"} /\ rec.party = p /\ rec.player = pl

\* In the rows s of p, the registry r and the handlers t, the registration of
\* pl for p has one reason.
OneReason(p, pl, s, r, t) ==
    /\ pl \in Range(s) => r[pl] = p
    /\ \A k \in Tasks : Stands(t[k], p, pl) => r[pl] = p /\ pl \notin Range(s)
    /\ \A j, k \in Tasks : Stands(t[j], p, pl) /\ Stands(t[k], p, pl) => j = k

SoundRows(s, p, f) == (s # <<>> => p \in f) /\ Distinct(s)

\* A handler that has not been lost, and calls what its kind calls.
Works(rec) ==
    /\ rec.kind # "lost"
    /\ rec.kind = "dissolve" => rec.pc \in {"release", "released"}

LEMMA MembershipIs ==
  /\ MembershipInv <=>
        /\ \A p \in Parties : SoundRows(members[p], p, founded)
        /\ \A p \in Parties : Whole(p) =>
              \A pl \in Players : OneReason(p, pl, members[p], registry, task)
        /\ \A k \in Tasks : Works(task[k])
  /\ MembershipInv' <=>
        /\ \A p \in Parties : SoundRows(members'[p], p, founded')
        /\ \A p \in Parties : Whole(p)' =>
              \A pl \in Players : OneReason(p, pl, members'[p], registry', task')
        /\ \A k \in Tasks : Works(task'[k])
  BY DEF MembershipInv, SoundRows, Distinct, OneReason, Stands, Between, Works

\* Without() takes pl out of distinct rows, and nothing else.
LEMMA WithoutDistinct ==
  ASSUME NEW s \in Seq(Players), Distinct(s), NEW pl
  PROVE  /\ Without(s, pl) \in Seq(Players)
         /\ Distinct(Without(s, pl))
         /\ Range(Without(s, pl)) = Range(s) \ {pl}
<1> DEFINE i == CHOOSE j \in DOMAIN s : s[j] = pl
           l == SubSeq(s, 1, i - 1)
           r == SubSeq(s, i + 1, Len(s))
<1>1. CASE pl \notin Range(s)
  BY <1>1 DEF Without
<1>2. CASE pl \in Range(s)
  <2>1. i \in 1 .. Len(s) /\ s[i] = pl
    BY <1>2 DEF Range
  <2>2. Without(s, pl) = l \o r
    BY <1>2 DEF Without
  <2> HIDE DEF i
  <2>3. l \in Seq(Players) /\ Len(l) = i - 1 /\ \A j \in 1 .. i - 1 : l[j] = s[j]
    BY <2>1
  <2>4. r \in Seq(Players) /\ Len(r) = Len(s) - i /\ \A j \in 1 .. Len(s) - i : r[j] = s[i + j]
    BY <2>1
  <2> HIDE DEF l, r
  <2>5. PICK w \in Seq(Players) :
          /\ w = l \o r /\ Len(w) = Len(l) + Len(r)
          /\ \A j \in 1 .. Len(w) : w[j] = IF j <= Len(l) THEN l[j] ELSE r[j - Len(l)]
    <3>1. l \in Seq(Players) /\ r \in Seq(Players)
      BY <2>3, <2>4
    <3>2. /\ l \o r \in Seq(Players) /\ Len(l \o r) = Len(l) + Len(r)
          /\ \A j \in 1 .. Len(l \o r) : (l \o r)[j] = IF j <= Len(l) THEN l[j] ELSE r[j - Len(l)]
      BY <3>1
    <3> QED BY <3>2
  <2>6. Len(w) = Len(s) - 1
    BY <2>1, <2>3, <2>4, <2>5
  <2>7. \A j \in 1 .. Len(w) : w[j] = IF j < i THEN s[j] ELSE s[j + 1]
    <3>1. \A j \in 1 .. Len(w) : w[j] = IF j <= Len(l) THEN l[j] ELSE r[j - Len(l)]
      BY <2>5
    <3>2. ASSUME NEW j \in 1 .. Len(w) PROVE w[j] = IF j < i THEN s[j] ELSE s[j + 1]
      <4>1. CASE j < i
        <5>1. j \in 1 .. i - 1 /\ j <= Len(l)
          BY <4>1, <2>1, <2>3
        <5> QED BY <3>1, <4>1, <5>1, <2>3
      <4>2. CASE ~(j < i)
        <5>1. j - (i - 1) \in 1 .. Len(s) - i /\ ~(j <= Len(l)) /\ i + (j - (i - 1)) = j + 1
          BY <4>2, <2>1, <2>3, <2>6
        <5>2. w[j] = r[j - (i - 1)] /\ r[j - (i - 1)] = s[i + (j - (i - 1))]
          BY <3>1, <5>1, <2>3, <2>4
        <5> QED BY <4>2, <5>1, <5>2
      <4> QED BY <4>1, <4>2
    <3> QED BY <3>2
  <2> DEFINE g(j) == IF j < i THEN j ELSE j + 1
  <2>8. \A j \in 1 .. Len(w) : g(j) \in 1 .. Len(s) /\ g(j) # i /\ w[j] = s[g(j)]
    BY <2>1, <2>6, <2>7
  <2>9. \A j, k \in 1 .. Len(w) : g(j) = g(k) => j = k
    BY <2>1, <2>6
  <2>10. Distinct(w)
    BY <2>8, <2>9 DEF Distinct
  <2>11. Range(w) \subseteq Range(s) \ {pl}
    <3>1. ASSUME NEW j \in 1 .. Len(w) PROVE w[j] \in Range(s) /\ w[j] # pl
      <4>1. PICK n \in 1 .. Len(s) : n # i /\ w[j] = s[n]
        BY <2>8
      <4> QED BY <4>1, <2>1 DEF Distinct, Range
    <3> QED BY <3>1 DEF Range
  <2>12. Range(s) \ {pl} \subseteq Range(w)
    BY <2>2, <2>5, WithoutRows
  <2> QED BY <2>2, <2>5, <2>10, <2>11, <2>12
<1> QED BY <1>1, <1>2

LEMMA AppendDistinct ==
  ASSUME NEW s \in Seq(Players), Distinct(s), NEW pl \in Players, pl \notin Range(s)
  PROVE  /\ Append(s, pl) \in Seq(Players) /\ Append(s, pl) # <<>>
         /\ Distinct(Append(s, pl))
         /\ Range(Append(s, pl)) = Range(s) \cup {pl}
<1>1. Append(s, pl) \in Seq(Players)
  OBVIOUS
<1>0. PICK w \in Seq(Players) : w = Append(s, pl)
  BY <1>1
<1>2. Len(w) = Len(s) + 1 /\ w[Len(s) + 1] = pl /\ \A j \in 1 .. Len(s) : w[j] = s[j]
  BY <1>0
<1>3. \A j \in 1 .. Len(s) : s[j] # pl
  BY DEF Range
<1>4. \A j \in 1 .. Len(w) : j \in 1 .. Len(s) \/ j = Len(s) + 1
  BY <1>2
<1>5. Distinct(w)
  BY <1>2, <1>3, <1>4 DEF Distinct
<1>6. Range(w) = Range(s) \cup {pl}
  BY <1>2, <1>4 DEF Range
<1>7. w # <<>>
  BY <1>2
<1> QED BY <1>0, <1>5, <1>6, <1>7

\* Nothing happens to pl in p but that a handler may end.
LEMMA ReasonStays ==
  ASSUME NEW p, NEW pl, NEW s, NEW r, NEW t, NEW s2, NEW r2, NEW t2,
         OneReason(p, pl, s, r, t),
         pl \in Range(s2) <=> pl \in Range(s), r[pl] = p => r2[pl] = p,
         \A k \in Tasks : Stands(t2[k], p, pl) => Stands(t[k], p, pl)
  PROVE  OneReason(p, pl, s2, r2, t2)
  BY DEF OneReason

\* A Party does not become whole but by its creation.
LEMMA WholeBefore ==
  ASSUME TypeOK, LeaderInv, NEW k \in Tasks, NEW rec, Step(k, rec), NEW p \in Parties,
         rec.kind = "create" /\ rec.party = p => task[k].kind = "create" /\ task[k].party = p,
         p \in exists' => p \in exists \/ (task[k].kind = "create" /\ task[k].party = p),
         task[k].kind = "dissolve" /\ task[k].party = p =>
             p \notin exists' \/ (rec.kind = "dissolve" /\ rec.party = p),
         Whole(p)'
  PROVE  Whole(p)
<1>1. task'[k] = rec /\ \A j \in Tasks \ {k} : task'[j] = task[j]
  BY OneSteps
<1>2. p \in exists' \/ \E c \in Tasks : task'[c].kind = "create" /\ task'[c].party = p
  BY DEF Whole
<1>3. \A j \in Tasks : task'[j].party = p => task'[j].kind # "dissolve"
  BY DEF Whole, Undisturbed
<1>4. p \in exists \/ \E c \in Tasks : task[c].kind = "create" /\ task[c].party = p
  BY <1>1, <1>2
<1>5. ASSUME NEW j \in Tasks, task[j].party = p, task[j].kind = "dissolve"
      PROVE  FALSE
  <2>1. j = k
    BY <1>1, <1>3, <1>5
  <2>2. p \notin exists'
    BY <2>1, <1>1, <1>3, <1>5
  <2>3. PICK c \in Tasks : task'[c].kind = "create" /\ task'[c].party = p
    BY <1>2, <2>2
  <2>4. c # k /\ task[c].kind = "create" /\ task[c].party = p
    BY <2>1, <2>3, <1>1, <1>5
  <2> QED BY <2>1, <2>4, <1>5 DEF LeaderInv
<1> QED BY <1>4, <1>5 DEF Whole, Undisturbed

\* A step of a handler that changes neither rows nor registrations, and that
\* does not lead it between the two.
LEMMA QuietMembers ==
  ASSUME TypeOK, LeaderInv, MembershipInv, NEW k \in Tasks, NEW rec, Step(k, rec),
         UNCHANGED <<members, registry, exists>>, founded \subseteq founded',
         rec.pc \notin {"claimed", "release"}, Works(rec),
         rec.kind = "create" => task[k].kind = "create" /\ task[k].party = rec.party,
         task[k].kind = "dissolve" => rec.kind = "dissolve" /\ rec.party = task[k].party
  PROVE  MembershipInv'
<1>1. task'[k] = rec /\ \A j \in Tasks \ {k} : task'[j] = task[j]
  BY OneSteps
<1>2. \A p \in Parties : SoundRows(members'[p], p, founded')
  BY MembershipIs DEF SoundRows
<1>3. ASSUME NEW p \in Parties, Whole(p)', NEW pl \in Players
      PROVE  OneReason(p, pl, members'[p], registry', task')
  <2>1. Whole(p)
    BY <1>3, WholeBefore
  <2>2. OneReason(p, pl, members[p], registry, task)
    BY <2>1, MembershipIs
  <2>3. \A j \in Tasks : Stands(task'[j], p, pl) => Stands(task[j], p, pl)
    BY <1>1 DEF Stands
  <2> QED BY <2>2, <2>3, ReasonStays
<1>4. \A j \in Tasks : Works(task'[j])
  BY <1>1, MembershipIs DEF Works
<1> QED BY <1>2, <1>3, <1>4, MembershipIs

\* No handler steps, and neither rows nor registrations change.
LEMMA ApartMembers ==
  ASSUME MembershipInv, UNCHANGED <<members, registry, exists, founded, task>>
  PROVE  MembershipInv'
  BY DEF MembershipInv, Whole, Undisturbed, Between

\* The fields of a waiting handler whose call moves on.
LEMMA PcFields ==
  ASSUME NEW rec \in TaskRecords, NEW pc
  PROVE  \E r : /\ r = [rec EXCEPT !.pc = pc]
                /\ r.pc = pc /\ r.kind = rec.kind /\ r.party = rec.party /\ r.player = rec.player
<1>1. PICK r : r = [rec EXCEPT !.pc = pc]
  OBVIOUS
<1>2. r.pc = pc /\ r.kind = rec.kind /\ r.party = rec.party /\ r.player = rec.player
  BY <1>1 DEF TaskRecords
<1> QED BY <1>1, <1>2

LEMMA ServeMembers ==
  ASSUME TypeOK, LeaderInv, MembershipInv, NEW k \in Tasks, Serve(k)
  PROVE  MembershipInv'
<1>1. task[k].pc # "idle"
  BY DEF Serve, ClaimServed, ReleaseServed, CancelServed
<1>2. PICK old \in TaskRecords : old = task[k]
  BY <1>1, TypeParts, WaitingIsRecord
<1>3. PICK pc : /\ Step(k, [task[k] EXCEPT !.pc = pc])
                /\ \/ task[k].pc = "cancel" /\ pc \in {"thaw", "cancelled"}
                      /\ UNCHANGED registry
                   \/ task[k].pc = "claim" /\ pc = "refused" /\ UNCHANGED registry
                   \/ task[k].pc = "claim" /\ pc = "claimed" /\ registry[task[k].player] = None
                      /\ registry' = [registry EXCEPT ![task[k].player] = task[k].party]
                   \/ /\ task[k].pc = "release" /\ pc = "released"
                      /\ registry' = IF registry[task[k].player] = task[k].party
                                     THEN [registry EXCEPT ![task[k].player] = None]
                                     ELSE registry
  BY DEF Serve, ClaimServed, ReleaseServed, CancelServed, Unclaimed
<1>4. PICK rec : /\ rec = [old EXCEPT !.pc = pc]
                 /\ rec.pc = pc /\ rec.kind = old.kind /\ rec.party = old.party
                 /\ rec.player = old.player
  BY PcFields
<1>5. Step(k, rec) /\ UNCHANGED party
  BY <1>2, <1>3, <1>4 DEF Serve, ClaimServed, ReleaseServed, CancelServed
<1>6. PICK x, o : x = old.party /\ o = old.player
  OBVIOUS
<1>7. x \in Parties /\ o \in Players /\ x # None
  BY <1>6, IdleFields DEF TaskRecords
<1>8. task'[k] = rec /\ \A j \in Tasks \ {k} : task'[j] = task[j]
  BY <1>5, OneSteps
<1>9. UNCHANGED <<members, exists, founded>>
  BY <1>5 DEF party
<1>10. \A p \in Parties : SoundRows(members'[p], p, founded')
  BY <1>9, MembershipIs DEF SoundRows
<1>11. \A j \in Tasks : Works(task'[j])
  <2>1. Works(rec)
    <3>1. Works(old)
      BY <1>2, MembershipIs
    <3>2. old.kind = "dissolve" => pc = "released"
      BY <1>2, <1>3, <3>1 DEF Works
    <3> QED BY <1>4, <3>1, <3>2 DEF Works
  <2> QED BY <2>1, <1>8, MembershipIs
<1>12. ASSUME NEW p \in Parties, Whole(p)'
       PROVE  Whole(p)
  <2>1. /\ rec.kind = task[k].kind /\ rec.party = task[k].party
        /\ p \in exists' => p \in exists
    BY <1>2, <1>4, <1>9
  <2>2. Step(k, rec)
    BY <1>5
  <2> QED BY <2>1, <2>2, <1>12, WholeBefore
<1>13. CASE pc \notin {"claimed", "released"}
  <2>1. UNCHANGED <<members, registry, exists>> /\ pc \notin {"claimed", "release"}
    BY <1>3, <1>9, <1>13
  <2>2. rec.kind = task[k].kind /\ rec.party = task[k].party /\ rec.pc = pc
    BY <1>2, <1>4
  <2>3. Works(rec)
    BY <1>8, <1>11
  <2>4. Step(k, rec)
    BY <1>5
  <2> QED BY <1>9, <2>1, <2>2, <2>3, <2>4, QuietMembers
<1>14. CASE pc = "claimed"
  <2>1. registry[o] = None /\ registry' = [registry EXCEPT ![o] = x]
    BY <1>2, <1>3, <1>6, <1>14
  <2>2. registry'[o] = x /\ \A y \in Players \ {o} : registry'[y] = registry[y]
    BY <2>1, <1>7 DEF TypeOK
  <2>3. ASSUME NEW p \in Parties, Whole(p)', NEW pl \in Players
        PROVE  OneReason(p, pl, members'[p], registry', task')
    <3>1. OneReason(p, pl, members[p], registry, task)
      BY <2>3, <1>12, MembershipIs
    <3>2. CASE pl # o
      <4>1. \A j \in Tasks : Stands(task'[j], p, pl) => Stands(task[j], p, pl)
        BY <3>2, <1>4, <1>6, <1>8 DEF Stands
      <4> QED BY <3>1, <3>2, <4>1, <2>2, <1>9, ReasonStays
    <3>3. CASE pl = o
      <4>1. pl \notin Range(members[p]) /\ \A j \in Tasks : ~Stands(task[j], p, pl)
        BY <3>1, <3>3, <2>1, <1>7, IdleFields DEF OneReason
      <4>2. \A j \in Tasks : Stands(task'[j], p, pl) => j = k /\ p = x
        BY <4>1, <1>4, <1>6, <1>8 DEF Stands
      <4> QED BY <4>1, <4>2, <2>2, <3>3, <1>9 DEF OneReason
    <3> QED BY <3>2, <3>3
  <2> QED BY <2>3, <1>10, <1>11, MembershipIs
<1>15. CASE pc = "released"
  <2>1. registry' = IF registry[o] = x THEN [registry EXCEPT ![o] = None] ELSE registry
    BY <1>2, <1>3, <1>6, <1>15
  <2>2. /\ registry[o] # x => registry'[o] = registry[o]
        /\ \A y \in Players \ {o} : registry'[y] = registry[y]
    BY <2>1, <1>7 DEF TypeOK
  <2>3. Stands(task[k], x, o) /\ \A p, pl : ~Stands(task'[k], p, pl)
    BY <1>2, <1>3, <1>4, <1>6, <1>8, <1>15 DEF Stands
  <2>4. ASSUME NEW p \in Parties, Whole(p)', NEW pl \in Players
        PROVE  OneReason(p, pl, members'[p], registry', task')
    <3>1. OneReason(p, pl, members[p], registry, task)
      BY <2>4, <1>12, MembershipIs
    <3>2. \A j \in Tasks : Stands(task'[j], p, pl) => Stands(task[j], p, pl) /\ j # k
      BY <2>3, <1>8
    <3>3. CASE pl # o \/ p # x
      <4>1. registry[pl] = p => registry'[pl] = p
        BY <3>3, <2>2
      <4> QED BY <3>1, <3>2, <4>1, <1>9, ReasonStays
    <3>4. CASE pl = o /\ p = x
      <4>1. pl \notin Range(members[p]) /\ \A j \in Tasks : Stands(task[j], p, pl) => j = k
        BY <3>1, <3>4, <2>3 DEF OneReason
      <4>2. \A j \in Tasks : ~Stands(task'[j], p, pl)
        BY <3>2, <4>1
      <4> QED BY <4>1, <4>2, <1>9 DEF OneReason
    <3> QED BY <3>3, <3>4
  <2> QED BY <2>4, <1>10, <1>11, MembershipIs
<1> QED BY <1>13, <1>14, <1>15

\* The first row removed, or the row and the tables of a Party: it is dissolved
\* by then, and was no other Party's concern.
LEMMA DissolveMembers ==
  ASSUME TypeOK, LeaderInv, MembershipInv, NEW k \in Tasks, NEW p \in Parties,
         NEW rows, NEW q, NEW inv, DissolveRest(k, p, rows, q, inv),
         UNCHANGED <<founded, registry>>,
         (task[k] # Idle /\ task[k].party = p /\ task[k].kind # "create")
             \/ (task[k] = Idle /\ p \in exists)
  PROVE  MembershipInv'
<1> USE IdleFields
<1>1. PICK rec : /\ Step(k, rec) /\ Works(rec) /\ rec.kind # "create"
                 /\ \/ rec.party = p /\ rec.kind = "dissolve" /\ exists' = exists
                    \/ rec = Idle /\ exists' = exists \ {p}
                 /\ \/ members' = members
                    \/ \E pl : members' = [members EXCEPT ![p] = Without(@, pl)]
  <2>1. CASE rows = <<>>
    BY <2>1 DEF DissolveRest, Works
  <2>2. CASE rows # <<>>
    <3>1. PICK base : base = [Idle EXCEPT !.kind = "dissolve", !.party = p, !.todo = Tail(rows)]
      OBVIOUS
    <3>2. PICK rec : rec = [base EXCEPT !.pc = "release", !.player = Head(rows)]
      OBVIOUS
    <3>3. rec.kind = "dissolve" /\ rec.party = p /\ Works(rec)
      BY <3>1, <3>2 DEF Idle, Works
    <3>4. Step(k, rec) /\ exists' = exists
          /\ members' = [members EXCEPT ![p] = Without(@, Head(rows))]
      BY <2>2, <3>1, <3>2 DEF DissolveRest, Remove
    <3> QED BY <3>3, <3>4
  <2> QED BY <2>1, <2>2
<1>2. task'[k] = rec /\ \A j \in Tasks \ {k} : task'[j] = task[j]
  BY <1>1, OneSteps
<1>3. p \in founded /\ \A c \in Tasks : task[c].kind = "create" => task[c].party # p
  BY DEF LeaderInv
<1>4. ~Whole(p)'
  <2>1. CASE rec = Idle
    <3>1. p \notin exists' /\ \A c \in Tasks : task'[c].kind = "create" => task'[c].party # p
      BY <2>1, <1>1, <1>2, <1>3
    <3> QED BY <3>1 DEF Whole
  <2>2. CASE rec.party = p /\ rec.kind = "dissolve"
    BY <2>2, <1>2 DEF Whole, Undisturbed
  <2> QED BY <2>1, <2>2, <1>1
<1>5. \A x \in Parties \ {p} : members'[x] = members[x]
  BY <1>1 DEF TypeOK
<1>6. SoundRows(members'[p], p, founded')
  <2>1. CASE members' = members
    BY <2>1, MembershipIs DEF SoundRows
  <2>2. CASE \E pl : members' = [members EXCEPT ![p] = Without(@, pl)]
    <3>1. PICK pl : members' = [members EXCEPT ![p] = Without(@, pl)]
      BY <2>2
    <3>2. members'[p] = Without(members[p], pl)
      BY <3>1 DEF TypeOK
    <3>3. members[p] \in Seq(Players) /\ Distinct(members[p])
      BY MembershipIs DEF TypeOK, SoundRows
    <3>4. Distinct(members'[p])
      BY <3>2, <3>3, WithoutDistinct
    <3> QED BY <3>4, <1>3 DEF SoundRows
  <2> QED BY <2>1, <2>2, <1>1
<1>7. \A x \in Parties : SoundRows(members'[x], x, founded')
  BY <1>5, <1>6, MembershipIs DEF SoundRows
<1>8. ASSUME NEW x \in Parties, Whole(x)', NEW pl \in Players
      PROVE  OneReason(x, pl, members'[x], registry', task')
  <2>1. x # p
    BY <1>4, <1>8
  <2>2. Whole(x)
    BY <2>1, <1>1, <1>8, WholeBefore
  <2>3. OneReason(x, pl, members[x], registry, task)
    BY <2>2, MembershipIs
  <2>4. \A j \in Tasks : Stands(task'[j], x, pl) => Stands(task[j], x, pl)
    BY <2>1, <1>1, <1>2 DEF Stands
  <2>5. members'[x] = members[x] /\ registry' = registry
    BY <2>1, <1>5
  <2> QED BY <2>3, <2>4, <2>5, ReasonStays
<1>9. \A j \in Tasks : Works(task'[j])
  BY <1>1, <1>2, MembershipIs DEF Works
<1> QED BY <1>7, <1>8, <1>9, MembershipIs

LEMMA CreatedMembers ==
  ASSUME TypeOK, LeaderInv, MembershipInv, NEW k \in Tasks, Created(k)
  PROVE  MembershipInv'
<1> USE IdleFields
<1>1. PICK old \in TaskRecords : old = task[k]
  BY TypeParts, WaitingIsRecord DEF Created
<1>2. PICK p, o : p = old.party /\ o = old.player
  OBVIOUS
<1>3. p \in Parties /\ o \in Players
  BY <1>2 DEF TaskRecords
<1>4. /\ task[k].kind = "create" /\ task[k].pc = "claimed"
      /\ task[k].party = p /\ task[k].player = o
      /\ exists' = exists \cup {p} /\ members' = [members EXCEPT ![p] = <<o>>]
      /\ Step(k, Idle) /\ UNCHANGED <<founded, registry>>
  BY <1>1, <1>2 DEF Created
<1>5. task'[k] = Idle /\ \A j \in Tasks \ {k} : task'[j] = task[j]
  BY <1>4, OneSteps
<1>6. \A j \in Tasks \ {k} : task[j].party # p
  BY <1>4 DEF LeaderInv
<1>7. members'[p] = <<o>> /\ \A x \in Parties \ {p} : members'[x] = members[x]
  BY <1>3, <1>4 DEF TypeOK
<1>8. p \in founded
  BY <1>4 DEF LeaderInv
<1>9. Distinct(<<o>>) /\ Range(<<o>>) = {o}
  BY DEF Distinct, Range
<1>10. \A x \in Parties : SoundRows(members'[x], x, founded')
  BY <1>4, <1>7, <1>8, <1>9, MembershipIs DEF SoundRows
<1>11. ASSUME NEW x \in Parties, Whole(x)', NEW pl \in Players
       PROVE  OneReason(x, pl, members'[x], registry', task')
  <2>1. Whole(x)
    BY <1>4, <1>11, WholeBefore
  <2>2. OneReason(x, pl, members[x], registry, task)
    BY <2>1, MembershipIs
  <2>3. \A j \in Tasks : Stands(task'[j], x, pl) => Stands(task[j], x, pl)
    BY <1>5 DEF Stands
  <2>4. CASE x # p
    <3>1. members'[x] = members[x] /\ registry' = registry
      BY <2>4, <1>4, <1>7
    <3> QED BY <2>2, <2>3, <3>1, ReasonStays
  <2>5. CASE x = p
    <3>1. \A j \in Tasks : ~Stands(task'[j], x, pl)
      BY <2>5, <1>5, <1>6 DEF Stands
    <3>2. pl = o => registry'[pl] = p
      BY <2>2, <2>5, <1>4 DEF OneReason, Stands
    <3>3. pl \in Range(members'[x]) => pl = o
      BY <2>5, <1>7, <1>9
    <3> QED BY <2>5, <3>1, <3>2, <3>3 DEF OneReason
  <2> QED BY <2>4, <2>5
<1>12. \A j \in Tasks : Works(task'[j])
  BY <1>5, MembershipIs DEF Works
<1> QED BY <1>10, <1>11, <1>12, MembershipIs

LEMMA AcceptedMembers ==
  ASSUME TypeOK, LeaderInv, MembershipInv, NEW k \in Tasks, Accepted(k)
  PROVE  MembershipInv'
<1> USE IdleFields
<1>1. PICK old \in TaskRecords : old = task[k]
  BY TypeParts, WaitingIsRecord DEF Accepted
<1>2. PICK p, o : p = old.party /\ o = old.player
  OBVIOUS
<1>3. p \in Parties /\ o \in Players
  BY <1>2 DEF TaskRecords
<1>4. /\ task[k].kind = "accept" /\ task[k].pc = "claimed"
      /\ task[k].party = p /\ task[k].player = o
      /\ members' = IF o \in Range(members[p]) THEN members
                    ELSE [members EXCEPT ![p] = Append(@, o)]
      /\ Step(k, Idle) /\ UNCHANGED <<exists, founded, registry>>
  BY <1>1, <1>2 DEF Accepted
<1>5. task'[k] = Idle /\ \A j \in Tasks \ {k} : task'[j] = task[j]
  BY <1>4, OneSteps
<1>6. \A x \in Parties \ {p} : members'[x] = members[x]
  BY <1>3, <1>4 DEF TypeOK
<1>7. p \in founded
  BY <1>4 DEF LeaderInv
<1>8. members[p] \in Seq(Players) /\ Distinct(members[p])
  BY <1>3, MembershipIs DEF TypeOK, SoundRows
<1>9. Distinct(members'[p]) /\ Range(members'[p]) = Range(members[p]) \cup {o}
  <2>1. CASE o \in Range(members[p])
    BY <2>1, <1>4, <1>8
  <2>2. CASE o \notin Range(members[p])
    <3>1. members'[p] = Append(members[p], o)
      BY <2>2, <1>3, <1>4 DEF TypeOK
    <3> QED BY <2>2, <3>1, <1>3, <1>8, AppendDistinct
  <2> QED BY <2>1, <2>2
<1>10. \A x \in Parties : SoundRows(members'[x], x, founded')
  BY <1>4, <1>6, <1>7, <1>9, MembershipIs DEF SoundRows
<1>11. ASSUME NEW x \in Parties, Whole(x)', NEW pl \in Players
       PROVE  OneReason(x, pl, members'[x], registry', task')
  <2>1. Whole(x)
    BY <1>4, <1>11, WholeBefore
  <2>2. OneReason(x, pl, members[x], registry, task)
    BY <2>1, MembershipIs
  <2>3. \A j \in Tasks : Stands(task'[j], x, pl) => Stands(task[j], x, pl) /\ j # k
    BY <1>5 DEF Stands
  <2>4. CASE x # p \/ pl # o
    <3>1. (pl \in Range(members'[x]) <=> pl \in Range(members[x])) /\ registry' = registry
      BY <2>4, <1>4, <1>6, <1>9
    <3> QED BY <2>2, <2>3, <3>1, ReasonStays
  <2>5. CASE x = p /\ pl = o
    <3>1. Stands(task[k], x, pl)
      BY <2>5, <1>4 DEF Stands
    <3>2. registry[pl] = x /\ \A j \in Tasks : Stands(task[j], x, pl) => j = k
      BY <2>2, <3>1 DEF OneReason
    <3>3. \A j \in Tasks : ~Stands(task'[j], x, pl)
      BY <2>3, <3>2
    <3> QED BY <3>2, <3>3, <1>4 DEF OneReason
  <2> QED BY <2>4, <2>5
<1>12. \A j \in Tasks : Works(task'[j])
  BY <1>5, MembershipIs DEF Works
<1> QED BY <1>10, <1>11, <1>12, MembershipIs

LEMMA LeavePartyMembers ==
  ASSUME TypeOK, LeaderInv, MembershipInv, NEW k \in Tasks, NEW p \in Parties,
         NEW o \in Players, LeaveParty(k, p, o)
  PROVE  MembershipInv'
<1> USE IdleFields
<1>1. PICK rec : /\ Step(k, rec) /\ rec.kind = "leave" /\ rec.pc = "release"
                 /\ rec.party = p /\ rec.player = o
  <2>1. PICK base : base = [Idle EXCEPT !.kind = "leave", !.party = p, !.led = (o \in leaders[p]),
                                        !.left = Len(members[p]) - 1]
    OBVIOUS
  <2>2. PICK rec : rec = [base EXCEPT !.pc = "release", !.player = o]
    OBVIOUS
  <2>3. rec.kind = "leave" /\ rec.pc = "release" /\ rec.party = p /\ rec.player = o
    BY <2>1, <2>2 DEF Idle
  <2>4. Step(k, rec)
    BY <2>1, <2>2 DEF LeaveParty, Remove
  <2> QED BY <2>3, <2>4
<1>2. /\ task[k] = Idle /\ p \in exists /\ o \in Range(members[p])
      /\ members' = [members EXCEPT ![p] = Without(@, o)]
      /\ UNCHANGED <<exists, founded, registry>>
  BY DEF LeaveParty, Remove
<1>3. task'[k] = rec /\ \A j \in Tasks \ {k} : task'[j] = task[j]
  BY <1>1, OneSteps
<1>4. members'[p] = Without(members[p], o) /\ \A x \in Parties \ {p} : members'[x] = members[x]
  BY <1>2 DEF TypeOK
<1>5. members[p] \in Seq(Players) /\ Distinct(members[p]) /\ p \in founded
  BY <1>2, MembershipIs DEF TypeOK, SoundRows, LeaderInv
<1>6. Distinct(members'[p]) /\ Range(members'[p]) = Range(members[p]) \ {o}
  BY <1>4, <1>5, WithoutDistinct
<1>7. \A x \in Parties : SoundRows(members'[x], x, founded')
  BY <1>2, <1>4, <1>5, <1>6, MembershipIs DEF SoundRows
<1>8. ASSUME NEW x \in Parties, Whole(x)', NEW pl \in Players
      PROVE  OneReason(x, pl, members'[x], registry', task')
  <2>1. Whole(x)
    BY <1>1, <1>2, <1>8, WholeBefore
  <2>2. OneReason(x, pl, members[x], registry, task)
    BY <2>1, MembershipIs
  <2>3. CASE x # p \/ pl # o
    <3>1. (pl \in Range(members'[x]) <=> pl \in Range(members[x])) /\ registry' = registry
      BY <2>3, <1>2, <1>4, <1>6
    <3>2. \A j \in Tasks : Stands(task'[j], x, pl) => Stands(task[j], x, pl)
      BY <2>3, <1>1, <1>3 DEF Stands
    <3> QED BY <2>2, <3>1, <3>2, ReasonStays
  <2>4. CASE x = p /\ pl = o
    <3>1. registry'[pl] = x /\ \A j \in Tasks : ~Stands(task[j], x, pl)
      BY <2>2, <2>4, <1>2 DEF OneReason
    <3>2. \A j \in Tasks : Stands(task'[j], x, pl) => j = k
      BY <3>1, <1>3
    <3>3. pl \notin Range(members'[x])
      BY <2>4, <1>6
    <3> QED BY <3>1, <3>2, <3>3 DEF OneReason
  <2> QED BY <2>3, <2>4
<1>9. \A j \in Tasks : Works(task'[j])
  BY <1>1, <1>3, MembershipIs DEF Works
<1> QED BY <1>7, <1>8, <1>9, MembershipIs

LEMMA CreatePartyMembers ==
  ASSUME TypeOK, LeaderInv, MembershipInv, NEW k \in Tasks, NEW p \in Parties, NEW o,
         CreateParty(k, p, o)
  PROVE  MembershipInv'
<1> USE IdleFields
<1>1. PICK rec : /\ Step(k, rec) /\ rec.kind = "create" /\ rec.pc = "claim" /\ rec.party = p
  <2>1. PICK rec : rec = [Idle EXCEPT !.kind = "create", !.pc = "claim", !.party = p, !.player = o]
    OBVIOUS
  <2>2. rec.kind = "create" /\ rec.pc = "claim" /\ rec.party = p
    BY <2>1 DEF Idle
  <2> QED BY <2>1, <2>2 DEF CreateParty
<1>2. /\ task[k] = Idle /\ p \notin founded /\ founded' = founded \cup {p}
      /\ UNCHANGED <<exists, members, registry>>
  BY DEF CreateParty
<1>3. task'[k] = rec /\ \A j \in Tasks \ {k} : task'[j] = task[j]
  BY <1>1, OneSteps
<1>4. \A x \in Parties : SoundRows(members'[x], x, founded')
  BY <1>2, MembershipIs DEF SoundRows
<1>5. \A j \in Tasks : task[j].party # p
  BY <1>2 DEF LeaderInv
<1>6. ASSUME NEW x \in Parties, Whole(x)', NEW pl \in Players
      PROVE  OneReason(x, pl, members'[x], registry', task')
  <2>1. CASE x # p
    <3>1. Whole(x)
      BY <2>1, <1>1, <1>2, <1>6, WholeBefore
    <3>2. OneReason(x, pl, members[x], registry, task)
      BY <3>1, MembershipIs
    <3>3. \A j \in Tasks : Stands(task'[j], x, pl) => Stands(task[j], x, pl)
      BY <1>1, <1>3 DEF Stands
    <3> QED BY <3>2, <3>3, <1>2, ReasonStays
  <2>2. CASE x = p
    <3>1. members'[x] = <<>>
      BY <2>2, <1>2, MembershipIs DEF SoundRows
    <3>2. pl \notin Range(members'[x])
      BY <3>1 DEF Range
    <3>3. \A j \in Tasks : ~Stands(task'[j], x, pl)
      BY <2>2, <1>1, <1>3, <1>5 DEF Stands
    <3> QED BY <3>2, <3>3 DEF OneReason
  <2> QED BY <2>1, <2>2
<1>7. \A j \in Tasks : Works(task'[j])
  BY <1>1, <1>3, MembershipIs DEF Works
<1> QED BY <1>4, <1>6, <1>7, MembershipIs

LEMMA AnswerMembers ==
  ASSUME TypeOK, LeaderInv, MembershipInv, NEW k \in Tasks, Answer(k)
  PROVE  MembershipInv'
<1> USE IdleFields
<1>1. CASE Refused(k) \/ Lost(k)
  <2>1. Step(k, Idle) /\ UNCHANGED <<founded, exists, members, registry>>
    BY <1>1 DEF Refused, Lost, party
  <2>2. task[k].kind # "dissolve"
    <3>1. Works(task[k])
      BY MembershipIs
    <3> QED BY <3>1, <1>1 DEF Refused, Lost, Works
  <2> QED BY <2>1, <2>2, QuietMembers DEF Works
<1>2. CASE Removed(k) \/ Cancelled(k)
  <2>1. PICK p, rows, q :
           /\ p = task[k].party /\ DissolveRest(k, p, rows, q, invite)
           /\ task[k].kind \in {"dissolve", "cancel"}
           /\ UNCHANGED <<founded, registry>>
    BY <1>2 DEF Removed, Cancelled, Dissolve
  <2>2. p \in Parties
    BY <2>1, TypeParts, WaitingIsRecord DEF TaskRecords
  <2> QED BY <2>1, <2>2, DissolveMembers
<1>3. CASE Left(k)
  <2>1. PICK p :
           /\ p = task[k].party /\ task[k].kind = "leave"
           /\ UNCHANGED <<founded, registry>>
           /\ \/ DissolveRest(k, p, members[p], queued, invite)
              \/ Step(k, Idle) /\ UNCHANGED <<exists, members>>
    BY <1>3 DEF Left, Dissolve
  <2>2. p \in Parties
    BY <2>1, TypeParts, WaitingIsRecord DEF TaskRecords
  <2>3. CASE DissolveRest(k, p, members[p], queued, invite)
    BY <2>1, <2>2, <2>3, DissolveMembers
  <2>4. CASE Step(k, Idle) /\ UNCHANGED <<exists, members>>
    BY <2>1, <2>4, QuietMembers DEF Works
  <2> QED BY <2>1, <2>3, <2>4
<1> QED BY <1>1, <1>2, <1>3, CreatedMembers, AcceptedMembers DEF Answer

LEMMA CallMembers ==
  ASSUME TypeOK, LeaderInv, MembershipInv, NEW k \in Tasks, NEW p \in Parties, Call(k, p)
  PROVE  MembershipInv'
<1> USE IdleFields
<1>1. CASE \E pl \in Players : AcceptInvite(k, p, pl)
  <2>1. PICK pl \in Players : AcceptInvite(k, p, pl)
    BY <1>1
  <2>2. PICK rec : Step(k, rec) /\ rec.kind = "accept" /\ rec.pc = "claim"
    <3>1. PICK rec : rec = [Idle EXCEPT !.kind = "accept", !.pc = "claim", !.party = p,
                                        !.player = pl, !.token = issued[p][pl]]
      OBVIOUS
    <3>2. rec.kind = "accept" /\ rec.pc = "claim"
      BY <3>1 DEF Idle
    <3>3. Step(k, rec)
      BY <2>1, <3>1 DEF AcceptInvite
    <3> QED BY <3>2, <3>3
  <2>3. task[k] = Idle /\ UNCHANGED <<founded, exists, members, registry>>
    BY <2>1 DEF AcceptInvite, party
  <2> QED BY <2>2, <2>3, QuietMembers DEF Works
<1>2. CASE \E pl \in Players : DissolveParty(k, p, pl)
  <2>1. PICK pl \in Players : DissolveParty(k, p, pl)
    BY <1>2
  <2>2. task[k] = Idle /\ p \in exists /\ UNCHANGED <<founded, registry>>
    BY <2>1 DEF DissolveParty
  <2>3. CASE Dissolve(k, p, queued, invite)
    BY <2>2, <2>3, DissolveMembers DEF Dissolve
  <2>4. CASE ~Dissolve(k, p, queued, invite)
    <3>1. PICK rec : rec = [Idle EXCEPT !.kind = "cancel", !.pc = "cancel", !.party = p,
                                        !.player = pl, !.ticket = queued[p]]
      OBVIOUS
    <3>2. rec.kind = "cancel" /\ rec.pc = "cancel"
      BY <3>1 DEF Idle
    <3>3. Step(k, rec) /\ UNCHANGED <<exists, members>>
      BY <2>1, <2>4, <3>1 DEF DissolveParty
    <3> QED BY <2>2, <3>2, <3>3, QuietMembers DEF Works
  <2> QED BY <2>3, <2>4
<1>3. CASE IdleAlarm(k, p)
  BY <1>3, DissolveMembers DEF IdleAlarm, Dissolve
<1> QED BY <1>1, <1>2, <1>3, CreatePartyMembers, LeavePartyMembers DEF Call

LEMMA InitMembers == Init => MembershipInv
<1> SUFFICES ASSUME Init PROVE MembershipInv
  OBVIOUS
<1>1. \A p \in Parties : members[p] = <<>> /\ ~Whole(p)
  BY IdleFields DEF Init, Whole
<1>2. Distinct(<<>>)
  BY DEF Distinct
<1>3. \A p \in Parties : SoundRows(members[p], p, founded)
  BY <1>1, <1>2 DEF SoundRows
<1> QED BY <1>1, <1>3, IdleFields, MembershipIs DEF Init, Works

LEMMA NextMembers ==
  ASSUME MaxCrashes = 0
  PROVE  TypeOK /\ LeaderInv /\ MembershipInv /\ [Next]_vars => MembershipInv'
<1> SUFFICES ASSUME TypeOK, LeaderInv, MembershipInv, [Next]_vars PROVE MembershipInv'
  OBVIOUS
<1>1. CASE UNCHANGED vars
  BY <1>1, ApartMembers DEF vars
<1>2. CASE \E k \in Tasks : Serve(k) \/ Answer(k) \/ \E p \in Parties : Call(k, p)
  BY <1>2, ServeMembers, AnswerMembers, CallMembers
<1>3. CASE \E p \in Parties : Quick(p)
  <2>1. UNCHANGED <<members, registry, exists, founded, task>>
    BY <1>3 DEF Quick, InviteMember, InviteExpires, TransferLeadership, BeginQueueTicket,
                InviteAlarm
  <2> QED BY <2>1, ApartMembers
<1>4. CASE \E p \in Parties : Crash(p)
  <2>1. crashes < 0 /\ crashes \in Nat
    BY <1>4 DEF Crash, TypeOK
  <2> QED BY <2>1
<1>5. CASE \E t \in Tickets :
              \/ TicketMoves(t, "frozen", "queued") \/ TicketMoves(t, "queued", "reserved")
              \/ TicketEnds(t) \/ EndQueueTicket(t)
  <2>1. UNCHANGED <<members, registry, exists, founded, task>>
    BY <1>5 DEF TicketMoves, TicketEnds, EndQueueTicket, party
  <2> QED BY <2>1, ApartMembers
<1> QED BY <1>1, <1>2, <1>3, <1>4, <1>5 DEF Next

\* Where no restart loses the handlers of a Party, a player is a member of one
\* Party at most, however late the registry serves its claims and releases; a
\* Party that is being dissolved is left out.  (With a restart a membership may
\* be released after its handler is gone, and the player is let in twice.)
THEOREM MembersOfOneParty ==
  ASSUME MaxCrashes = 0
  PROVE  Spec => []OneParty
<1>1. MembershipInv /\ TypeOK => OneParty
  <2> SUFFICES ASSUME MembershipInv, TypeOK, NEW pl \in Players,
                      NEW p \in exists, NEW q \in exists,
                      pl \in Range(members[p]), pl \in Range(members[q]),
                      Undisturbed(p), Undisturbed(q)
               PROVE  p = q
    BY DEF OneParty
  <2>1. p \in Parties /\ q \in Parties /\ Whole(p) /\ Whole(q)
    BY DEF TypeOK, Whole
  <2> QED BY <2>1 DEF MembershipInv
<1>2. TypeOK /\ LeaderInv /\ MembershipInv /\ [Next]_vars => MembershipInv'
  BY NextMembers
<1> QED BY <1>1, <1>2, InitMembers, LeadersKept, TypeCorrect, PTL DEF Spec
-----------------------------------------------------------------------------
(* What freezes a Party lasts.                                             *)

\* The freeze of p for t has ended, for one of the reasons there are.
ThawCause(p, t) ==
    \/ ticket'[t].state = "ended"
    \/ p \notin exists'
    \/ \E k \in Tasks : task[k].kind = "cancel" /\ task[k].ticket = t /\ task'[k] # task[k]

Thawed(p, t) == queued[p] = t /\ queued'[p] # t

\* The last step of a dissolution thaws its Party, which is gone then; an
\* earlier one leaves the freezes as it was given them.
LEMMA DissolveThaws ==
  ASSUME TypeOK, NEW k, NEW x, NEW rows, NEW q \in [Parties -> Tickets \cup {None}], NEW inv,
         DissolveRest(k, x, rows, q, inv), NEW p \in Parties
  PROVE  queued'[p] = q[p] \/ (p = x /\ p \notin exists')
<1>1. CASE rows = <<>>
  <2>1. queued' = [q EXCEPT ![x] = None] /\ exists' = exists \ {x}
    BY <1>1 DEF DissolveRest
  <2> QED BY <2>1
<1>2. CASE rows # <<>>
  BY <1>2 DEF DissolveRest
<1> QED BY <1>1, <1>2

LEMMA CancelledThaws ==
  ASSUME TypeOK, NEW k \in Tasks, Cancelled(k), NEW p \in Parties, NEW t \in Tickets, Thawed(p, t)
  PROVE  ThawCause(p, t)
<1>1. PICK old \in TaskRecords : old = task[k]
  BY TypeParts, WaitingIsRecord DEF Cancelled
<1>2. PICK x, c : x = old.party /\ c = old.ticket
  OBVIOUS
<1>3. old.kind = "cancel" /\ Dissolve(k, x, Thaw(x, c), invite)
  BY <1>1, <1>2 DEF Cancelled
<1>4. Thaw(x, c) \in [Parties -> Tickets \cup {None}]
  BY ThawType DEF TypeOK
<1>5. queued'[p] = Thaw(x, c)[p] \/ p \notin exists'
  BY <1>3, <1>4, DissolveThaws DEF Dissolve
<1>6. CASE queued'[p] = Thaw(x, c)[p]
  <2>1. p = x /\ c = t
    <3>1. Thaw(x, c)[p] = queued[p] \/ (p = x /\ queued[x] = c)
      BY DEF Thaw, TypeOK
    <3> QED BY <3>1, <1>6 DEF Thawed
  <2>2. task'[k].kind \in {"dissolve", "idle"}
    <3>1. CASE members[x] = <<>>
      <4>1. Step(k, Idle)
        BY <3>1, <1>3 DEF Dissolve, DissolveRest
      <4> QED BY <4>1, OneSteps, IdleFields
    <3>2. CASE members[x] # <<>>
      <4>1. PICK base : base = [Idle EXCEPT !.kind = "dissolve", !.party = x, !.todo = Tail(members[x])]
        OBVIOUS
      <4>2. PICK rec : rec = [base EXCEPT !.pc = "release", !.player = Head(members[x])]
        OBVIOUS
      <4>3. rec.kind = "dissolve"
        BY <4>1, <4>2 DEF Idle
      <4>4. Step(k, rec)
        BY <3>2, <1>3, <4>1, <4>2 DEF Dissolve, DissolveRest, Remove
      <4> QED BY <4>3, <4>4, OneSteps
    <3> QED BY <3>1, <3>2
  <2>3. task[k].kind = "cancel" /\ task[k].ticket = t /\ task'[k] # task[k]
    BY <1>1, <1>2, <1>3, <2>1, <2>2
  <2> QED BY <2>3 DEF ThawCause
<1> QED BY <1>5, <1>6 DEF ThawCause

LEMMA ThawNext ==
  ASSUME TypeOK, [Next]_vars, NEW p \in Parties, NEW t \in Tickets, Thawed(p, t)
  PROVE  ThawCause(p, t)
<1>0. queued \in [Parties -> Tickets \cup {None}] /\ queued' # queued /\ t # None
  BY PartyAssumption DEF TypeOK, Thawed
<1>1. CASE \E k \in Tasks : Cancelled(k)
  BY <1>1, CancelledThaws
<1>2. CASE \E k \in Tasks : \E x, rows, inv : DissolveRest(k, x, rows, queued, inv)
  BY <1>0, <1>2, DissolveThaws DEF Thawed, ThawCause
<1>3. CASE \E u \in Tickets : EndQueueTicket(u)
  <2>1. PICK u \in Tickets : EndQueueTicket(u)
    BY <1>3
  <2>2. queued' = Thaw(ticket[u].party, u) /\ ticket' = [ticket EXCEPT ![u].state = "ended"]
    BY <2>1 DEF EndQueueTicket
  <2>3. u = t
    <3>1. Thaw(ticket[u].party, u)[p] = queued[p] \/ queued[p] = u
      BY <1>0 DEF Thaw
    <3> QED BY <2>2, <3>1 DEF Thawed
  <2>4. ticket'[t].state = "ended"
    BY <2>2, <2>3 DEF TypeOK, TicketRecords
  <2> QED BY <2>4 DEF ThawCause
<1>4. CASE \E x \in Parties, pl \in Players, u \in Tickets : BeginQueueTicket(u, x, pl)
  <2>1. PICK x \in Parties, pl \in Players, u \in Tickets : BeginQueueTicket(u, x, pl)
    BY <1>4
  <2>2. queued[x] = None /\ queued' = [queued EXCEPT ![x] = u]
    BY <2>1 DEF BeginQueueTicket
  <2> QED BY <2>2, <1>0 DEF Thawed
<1>5. \/ \E k \in Tasks : Cancelled(k)
      \/ \E k \in Tasks : \E x, rows, inv : DissolveRest(k, x, rows, queued, inv)
      \/ \E u \in Tickets : EndQueueTicket(u)
      \/ \E x \in Parties, pl \in Players, u \in Tickets : BeginQueueTicket(u, x, pl)
  <2>1. CASE UNCHANGED vars
    BY <2>1, <1>0 DEF vars
  <2>2. CASE \E k \in Tasks : Serve(k)
    BY <2>2, <1>0 DEF Serve, ClaimServed, ReleaseServed, CancelServed, party
  <2>3. ASSUME NEW k \in Tasks, Answer(k)
        PROVE  Cancelled(k) \/ \E x, rows, inv : DissolveRest(k, x, rows, queued, inv)
    BY <2>3, <1>0 DEF Answer, Refused, Created, Accepted, Left, Removed, Lost, Dissolve, party
  <2>4. ASSUME NEW k \in Tasks, NEW x \in Parties, Call(k, x)
        PROVE  \E rows, inv : DissolveRest(k, x, rows, queued, inv)
    BY <2>4, <1>0 DEF Call, CreateParty, AcceptInvite, LeaveParty, DissolveParty, IdleAlarm,
                      Dissolve, party
  <2>5. ASSUME NEW x \in Parties, Quick(x)
        PROVE  \E pl \in Players, u \in Tickets : BeginQueueTicket(u, x, pl)
    BY <2>5, <1>0 DEF Quick, InviteMember, InviteExpires, TransferLeadership, InviteAlarm
  <2>6. CASE \E x \in Parties : Crash(x)
    BY <2>6, <1>0 DEF Crash, party
  <2>7. ASSUME NEW u \in Tickets,
               \/ TicketMoves(u, "frozen", "queued") \/ TicketMoves(u, "queued", "reserved")
               \/ TicketEnds(u) \/ EndQueueTicket(u)
        PROVE  EndQueueTicket(u)
    BY <2>7, <1>0 DEF TicketMoves, TicketEnds, party
  <2> QED BY <2>1, <2>2, <2>3, <2>4, <2>5, <2>6, <2>7 DEF Next
<1> QED BY <1>1, <1>2, <1>3, <1>4, <1>5

\* What freezes a Party for a ticket lasts until the ticket has ended, its own
\* cancellation has been answered or the Party is dissolved, whatever restarts.
THEOREM FreezesLast == Spec => ThawHasCause
<1>1. TypeOK /\ [Next]_vars =>
        [\A p \in Parties : \A t \in Tickets :
            queued[p] = t /\ queued'[p] # t =>
              \/ ticket'[t].state = "ended"
              \/ p \notin exists'
              \/ \E k \in Tasks : task[k].kind = "cancel" /\ task[k].ticket = t /\ task'[k] # task[k]
        ]_vars
  BY ThawNext DEF Thawed, ThawCause
<1> QED BY <1>1, TypeCorrect, PTL DEF Spec, ThawHasCause
=============================================================================
