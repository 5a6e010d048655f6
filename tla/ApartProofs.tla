------------------------------ MODULE ApartProofs ------------------------------
(***************************************************************************)
(* Proofs about the three components of MCApart, each on its own: the      *)
(* calls of a client, a search and the alarm that repeats it, and the      *)
(* pages of the public list of rooms, for every value of the constants.    *)
(***************************************************************************)
EXTENDS CandidateSearchProperties, RoomListingProperties, ClientCallsProperties,
        FiniteSetTheorems, SequenceTheorems, WellFoundedInduction, TLAPS

(***************************************************************************)
(* The calls of a client                                                   *)
(***************************************************************************)

CallEnds == {"none", "TIMEOUT", "UNAUTHENTICATED"} \cup BodyEnds \cup LinkErrors
CallRecord == [aborted : BOOLEAN,
               at : {"none", "token", "fetch", "body", "opening", "sent"},
               end : CallEnds, state : {"idle", "pending", "settled"}]

\* What the record r of a call may be, given the connections l and whether the
\* client has been disposed of: a pending promise has a function behind it, and
\* the function is where the connection is.
Fits(c, r, l, d) ==
  /\ r.state = "pending" =>
       /\ r.at # "none"
       /\ c \in timed => ~r.aborted
       /\ d => c \notin timed /\ (c \in Requests \/ r.at = "token")
  /\ c \in Requests =>
       /\ r.at \in {"none", "token", "fetch", "body"}
       /\ r.at \in {"fetch", "body"} => r.state = "pending" /\ ~r.aborted
  /\ c \in Sockets =>
       /\ r.at \in {"none", "token", "opening"}
       /\ r.at = "opening" <=> l[c] = "opening"
       /\ l[c] = "opening" => r.state = "pending" /\ ~r.aborted
       /\ l[c] = "open" => r.end = "ok" /\ r.state # "pending" /\ ~d
  /\ c \in Commands =>
       /\ r.at \in {"none", "sent"}
       /\ r.state = "pending" => l[Via[c]] = "open"

Alive(s) == link[s] \in {"opening", "open"}

CallsInv ==
  /\ CallsTypeOK
  /\ \A c \in Calls : Fits(c, call[c], link, disposed)
  /\ \A s \in Sockets : s \in held <=> Alive(s)

LEMMA WantedTraffic == CallsInv => TrafficIsWanted
<1> SUFFICES ASSUME CallsInv PROVE TrafficIsWanted
  OBVIOUS
<1>1. ASSUME NEW r \in Requests, call[r].at \in {"fetch", "body"}
      PROVE  Pending(r) /\ ~call[r].aborted
  BY <1>1 DEF CallsInv, Fits, Calls, Pending
<1>2. ASSUME NEW s \in Sockets
      PROVE  /\ s \in held <=> link[s] \in {"opening", "open"}
             /\ link[s] = "opening" => call[s].at = "opening" /\ Pending(s) /\ ~call[s].aborted
             /\ link[s] = "open" => call[s].end = "ok" /\ ~Pending(s)
  BY DEF CallsInv, Fits, Calls, Pending, Alive
<1>3. ASSUME NEW k \in Commands, Pending(k) PROVE link[Via[k]] = "open"
  BY <1>3 DEF CallsInv, Fits, Calls, Pending
<1>4. ASSUME disposed
      PROVE  /\ held = {}
             /\ \A c \in Calls : Pending(c) => c \notin timed /\ (c \in Requests \/ Token(c))
  <2>1. \A c \in Calls : Pending(c) => c \notin timed /\ (c \in Requests \/ Token(c))
    BY <1>4 DEF CallsInv, Fits, Pending, Token
  <2>2. \A s \in Sockets : ~Alive(s)
    BY <1>4, ClientCallsAssumption DEF CallsInv, Fits, Calls, Alive
  <2> QED
    BY <2>1, <2>2 DEF CallsInv, CallsTypeOK
<1> QED
  BY <1>1, <1>2, <1>3, <1>4 DEF TrafficIsWanted

LEMMA CallsStart == CallsInit => CallsInv
<1> SUFFICES ASSUME CallsInit PROVE CallsInv
  OBVIOUS
<1>1. CallsTypeOK
  BY DEF CallsInit, CallsTypeOK, Idle
<1>2. ASSUME NEW c \in Calls PROVE Fits(c, call[c], link, disposed)
  BY DEF CallsInit, Fits, Idle
<1>3. \A s \in Sockets : s \in held <=> Alive(s)
  BY DEF CallsInit, Alive
<1> QED
  BY <1>1, <1>2, <1>3 DEF CallsInv

\* A settled call has no function behind it, or one that awaits the token.
LEMMA SettledCall ==
  ASSUME CallsInv, NEW c \in Calls, NEW e \in CallEnds
  PROVE  /\ Settled(c, e) \in CallRecord
         /\ Settled(c, e).state = "settled" /\ Settled(c, e).end = e
         /\ Settled(c, e).at = IF call[c].at = "token" THEN "token" ELSE "none"
         /\ Settled(c, e).aborted = call[c].aborted
BY DEF CallsInv, CallsTypeOK, Settled, CallRecord, CallEnds

\* A step that changes one call and no connection.
LEMMA OneCall ==
  ASSUME CallsInv, NEW c \in Calls, NEW r \in CallRecord,
         call' = [call EXCEPT ![c] = r], UNCHANGED <<disposed, timed, link, held>>,
         Fits(c, r, link, disposed)
  PROVE  CallsInv'
<1>1. CallsTypeOK'
  BY DEF CallsInv, CallsTypeOK, CallRecord, CallEnds
<1>2. ASSUME NEW d \in Calls PROVE Fits(d, call[d], link, disposed)'
  BY DEF CallsInv, CallsTypeOK, Fits
<1>3. \A s \in Sockets : (s \in held <=> Alive(s))'
  BY DEF CallsInv, Alive
<1> QED
  BY <1>1, <1>2, <1>3 DEF CallsInv

\* A call that settles and has no open connection fits.
LEMMA SettledFits ==
  ASSUME CallsInv, NEW c \in Calls, NEW e \in CallEnds, c \in Sockets => ~Alive(c)
  PROVE  Fits(c, Settled(c, e), link, disposed)
BY SettledCall, ClientCallsAssumption DEF CallsInv, Fits, Alive, Calls

LEMMA EndNames ==
  /\ BodyEnds \subseteq CallEnds /\ LinkErrors \subseteq CallEnds /\ OpenErrors \subseteq CallEnds
  /\ {"none", "TIMEOUT", "UNAUTHENTICATED", "CONNECTION_FAILED", "CANCELLED", "ok", "REFUSED"} \subseteq CallEnds
BY DEF CallEnds, BodyEnds, LinkErrors, OpenErrors

LEMMA BegunCall ==
  ASSUME NEW at \in {"none", "token", "fetch", "body", "opening", "sent"}
  PROVE  /\ Begun(at) \in CallRecord /\ Begun(at).at = at
         /\ Begun(at).state = "pending" /\ ~Begun(at).aborted
BY DEF Begun, Idle, CallRecord, CallEnds

\* A step that opens, or ends, connections.
LEMMA ManyCalls ==
  ASSUME CallsInv, UNCHANGED <<disposed, timed>>,
         call' \in [Calls -> CallRecord],
         link' \in [Sockets -> {"none", "opening", "open", "ended"}],
         held' \subseteq Sockets,
         \A d \in Calls : Fits(d, call'[d], link', disposed),
         \A s \in Sockets : s \in held' <=> link'[s] \in {"opening", "open"}
  PROVE  CallsInv'
<1>1. CallsTypeOK'
  BY DEF CallsInv, CallsTypeOK, CallRecord, CallEnds
<1>2. \A d \in Calls : Fits(d, call[d], link, disposed)'
  BY DEF Fits
<1>3. \A s \in Sockets : (s \in held <=> Alive(s))'
  BY DEF Alive
<1> QED
  BY <1>1, <1>2, <1>3 DEF CallsInv

LEMMA BeginKeeps == ASSUME CallsInv, NEW c \in Requests \cup Sockets, Begin(c) PROVE CallsInv'
<1>1. Begun("token") \in CallRecord
  BY BegunCall
<1>2. Fits(c, Begun("token"), link, disposed)
  BY BegunCall, ClientCallsAssumption DEF Begin, Unused, Fits
<1> QED
  BY <1>1, <1>2, OneCall DEF Begin, Calls

LEMMA SendKeeps == ASSUME CallsInv, NEW k \in Commands, SendCommand(k) PROVE CallsInv'
<1>1. Begun("sent") \in CallRecord
  BY BegunCall
<1>2. Fits(k, Begun("sent"), link, disposed)
  BY BegunCall, ClientCallsAssumption DEF SendCommand, Unused, Fits
<1> QED
  BY <1>1, <1>2, OneCall DEF SendCommand, Calls

\* A socket is created: nobody awaits anything over a connection of that name.
LEMMA DialledKeeps ==
  ASSUME CallsInv, NEW s \in Sockets, NEW r \in CallRecord, Dialled(s, r),
         link[s] \notin {"opening", "open"}, r.at = "opening",
         r.state = "pending", ~r.aborted, ~disposed
  PROVE  CallsInv'
<1>1. s \in Calls /\ call \in [Calls -> CallRecord]
  BY DEF CallsInv, CallsTypeOK, CallRecord, CallEnds, Calls
<1>2. /\ link' \in [Sockets -> {"none", "opening", "open", "ended"}]
      /\ link'[s] = "opening" /\ \A t \in Sockets \ {s} : link'[t] = link[t]
  BY DEF Dialled, CallsInv, CallsTypeOK
<1>3. call' \in [Calls -> CallRecord] /\ call'[s] = r /\ \A d \in Calls \ {s} : call'[d] = call[d]
  BY <1>1 DEF Dialled
<1>4. ASSUME NEW d \in Calls PROVE Fits(d, call'[d], link', disposed)
  <2>1. Fits(d, call[d], link, disposed)
    BY DEF CallsInv
  <2>2. CASE d = s
    BY <1>2, <1>3, <2>2, ClientCallsAssumption DEF Fits
  <2>3. CASE d \in Sockets \ {s}
    BY <1>2, <1>3, <2>1, <2>3, ClientCallsAssumption DEF Fits
  <2>4. CASE d \in Commands
    BY <1>2, <1>3, <2>1, <2>4, ClientCallsAssumption DEF Fits
  <2>5. CASE d \in Requests
    BY <1>2, <1>3, <2>1, <2>5, ClientCallsAssumption DEF Fits
  <2> QED
    BY <2>2, <2>3, <2>4, <2>5 DEF Calls
<1>5. \A t \in Sockets : t \in held' <=> link'[t] \in {"opening", "open"}
  BY <1>2 DEF Dialled, CallsInv, Alive
<1>6. held' \subseteq Sockets
  BY DEF Dialled, CallsInv, CallsTypeOK
<1> QED
  BY <1>2, <1>3, <1>4, <1>5, <1>6, ManyCalls DEF Dialled

LEMMA ResumeKeeps == ASSUME CallsInv, NEW s \in Sockets, Resume(s) PROVE CallsInv'
BY BegunCall, DialledKeeps DEF Resume, Unused

LEMMA DialKeeps == ASSUME CallsInv, NEW s \in Sockets, Dial(s) PROVE CallsInv'
<1> DEFINE r == [call[s] EXCEPT !.at = "opening"]
<1>1. s \in Calls /\ call[s] \in CallRecord /\ Fits(s, call[s], link, disposed)
  BY DEF CallsInv, CallsTypeOK, CallRecord, CallEnds, Calls
<1>2. /\ r \in CallRecord /\ r.at = "opening"
      /\ r.state = call[s].state /\ r.aborted = call[s].aborted
  BY <1>1 DEF CallRecord
<1>3. call[s].at = "token" /\ call[s].state = "pending" /\ ~GivenUp(s)
  BY DEF Dial, Token, Pending
<1>4. link[s] \notin {"opening", "open"}
  BY <1>1, <1>3 DEF Fits
<1>5. ~disposed
  BY <1>1, <1>3 DEF Fits, GivenUp, HasTimeout
<1>6. ~call[s].aborted
  BY <1>1, <1>3 DEF Fits, GivenUp, HasTimeout
<1>7. Dialled(s, r)
  BY DEF Dial
<1> QED
  BY <1>2, <1>3, <1>4, <1>5, <1>6, <1>7, DialledKeeps

LEMMA TokenTooLateKeeps ==
  ASSUME CallsInv, NEW c \in Requests \cup Sockets, TokenTooLate(c) PROVE CallsInv'
<1> DEFINE r == [call[c] EXCEPT !.at = "none"]
<1>1. c \in Calls /\ call[c] \in CallRecord /\ Fits(c, call[c], link, disposed)
  BY DEF CallsInv, CallsTypeOK, CallRecord, CallEnds, Calls
<1>2. r \in CallRecord /\ r.at = "none" /\ r.state = call[c].state /\ r.end = call[c].end
  BY <1>1 DEF CallRecord
<1>3. Fits(c, r, link, disposed)
  BY <1>1, <1>2, ClientCallsAssumption DEF TokenTooLate, Token, Pending, Fits
<1> QED
  BY <1>1, <1>2, <1>3, OneCall DEF TokenTooLate, Leaves

\* A call fails once its token is there.
LEMMA LeavesKeeps ==
  ASSUME CallsInv, NEW c \in Requests \cup Sockets, NEW e \in CallEnds,
         Token(c), Pending(c), Leaves(c, Settled(c, e))
  PROVE  CallsInv'
<1> DEFINE r == [Settled(c, e) EXCEPT !.at = "none"]
<1>1. c \in Calls /\ Fits(c, call[c], link, disposed)
  BY DEF CallsInv, Calls
<1>2. r \in CallRecord /\ r.at = "none" /\ r.state = "settled"
  BY <1>1, SettledCall DEF CallRecord
<1>3. Fits(c, r, link, disposed)
  BY <1>1, <1>2, ClientCallsAssumption DEF Token, Pending, Fits
<1> QED
  BY <1>1, <1>2, <1>3, OneCall DEF Leaves

LEMMA FetchKeeps == ASSUME CallsInv, NEW r \in Requests, Fetch(r) PROVE CallsInv'
<1> DEFINE q == [call[r] EXCEPT !.at = "fetch"]
<1>1. r \in Calls /\ call[r] \in CallRecord /\ Fits(r, call[r], link, disposed)
  BY DEF CallsInv, CallsTypeOK, CallRecord, CallEnds, Calls
<1>2. /\ q \in CallRecord /\ q.at = "fetch"
      /\ q.state = call[r].state /\ q.aborted = call[r].aborted
  BY <1>1 DEF CallRecord
<1>3. Fits(r, q, link, disposed)
  BY <1>1, <1>2, ClientCallsAssumption DEF Fetch, Token, Pending, GivenUp, HasTimeout, Fits
<1>4. call' = [call EXCEPT ![r] = q] /\ UNCHANGED <<disposed, timed, link, held>>
  BY DEF Fetch
<1> QED
  BY <1>1, <1>2, <1>3, <1>4, OneCall

LEMMA HeadersKeeps == ASSUME CallsInv, NEW r \in Requests, Headers(r) PROVE CallsInv'
<1> DEFINE q == [call[r] EXCEPT !.at = "body"]
<1>1. r \in Calls /\ call[r] \in CallRecord /\ Fits(r, call[r], link, disposed)
  BY DEF CallsInv, CallsTypeOK, CallRecord, CallEnds, Calls
<1>2. /\ q \in CallRecord /\ q.at = "body"
      /\ q.state = call[r].state /\ q.aborted = call[r].aborted
  BY <1>1 DEF CallRecord
<1>3. Fits(r, q, link, disposed)
  BY <1>1, <1>2, ClientCallsAssumption DEF Headers, Fits
<1>4. call' = [call EXCEPT ![r] = q] /\ UNCHANGED <<disposed, timed, link, held>>
  BY DEF Headers
<1> QED
  BY <1>1, <1>2, <1>3, <1>4, OneCall

\* A request or a command settles.
LEMMA SettleKeeps ==
  ASSUME CallsInv, NEW c \in Requests \cup Commands, NEW e \in CallEnds,
         Settle(c, e), UNCHANGED <<disposed, timed, link, held>>
  PROVE  CallsInv'
<1>1. c \in Calls /\ c \notin Sockets
  BY ClientCallsAssumption DEF Calls
<1>2. Settled(c, e) \in CallRecord /\ Fits(c, Settled(c, e), link, disposed)
  BY <1>1, SettledCall, SettledFits
<1> QED
  BY <1>1, <1>2, OneCall DEF Settle

LEMMA OpensKeeps == ASSUME CallsInv, NEW s \in Sockets, Opens(s) PROVE CallsInv'
<1>1. s \in Calls /\ call \in [Calls -> CallRecord] /\ Fits(s, call[s], link, disposed)
  BY DEF CallsInv, CallsTypeOK, CallRecord, CallEnds, Calls
<1>2. /\ link' \in [Sockets -> {"none", "opening", "open", "ended"}]
      /\ link'[s] = "open" /\ \A t \in Sockets \ {s} : link'[t] = link[t]
  BY DEF Opens, CallsInv, CallsTypeOK
<1>3. /\ Settled(s, "ok") \in CallRecord /\ Settled(s, "ok").state = "settled"
      /\ Settled(s, "ok").at = "none" /\ Settled(s, "ok").end = "ok"
  BY <1>1, SettledCall, EndNames DEF Opens
<1>4. /\ call' \in [Calls -> CallRecord] /\ call'[s] = Settled(s, "ok")
      /\ \A d \in Calls \ {s} : call'[d] = call[d]
  BY <1>1, <1>3 DEF Opens, Settle
<1>5. link[s] = "opening" /\ ~disposed
  BY <1>1 DEF Opens, Fits
<1>6. ASSUME NEW d \in Calls PROVE Fits(d, call'[d], link', disposed)
  <2>1. Fits(d, call[d], link, disposed)
    BY DEF CallsInv
  <2>2. CASE d = s
    BY <1>2, <1>3, <1>4, <1>5, <2>2, ClientCallsAssumption DEF Fits
  <2>3. CASE d \in Sockets \ {s}
    BY <1>2, <1>4, <2>1, <2>3, ClientCallsAssumption DEF Fits
  <2>4. CASE d \in Commands
    BY <1>2, <1>4, <1>5, <2>1, <2>4, ClientCallsAssumption DEF Fits
  <2>5. CASE d \in Requests
    BY <1>2, <1>4, <2>1, <2>5, ClientCallsAssumption DEF Fits
  <2> QED
    BY <2>2, <2>3, <2>4, <2>5 DEF Calls
<1>7. \A t \in Sockets : t \in held' <=> link'[t] \in {"opening", "open"}
  BY <1>2, <1>5 DEF Opens, CallsInv, Alive
<1>8. held' \subseteq Sockets
  BY DEF Opens, CallsInv, CallsTypeOK
<1> QED
  BY <1>2, <1>4, <1>6, <1>7, <1>8, ManyCalls DEF Opens

\* Connections are closed together with the calls that open them and the commands
\* that await an answer over them.
LEMMA Closed ==
  ASSUME CallsInv, NEW S, NEW C, NEW e \in CallEnds, Close(S, C, e),
         \A s \in Sockets \cap S : link[s] = "opening" => s \in C,
         Sockets \cap C \subseteq S
  PROVE  /\ call' \in [Calls -> CallRecord]
         /\ link' \in [Sockets -> {"none", "opening", "open", "ended"}]
         /\ held' \subseteq Sockets
         /\ \A d \in Calls : Fits(d, call'[d], link', disposed)
         /\ \A s \in Sockets : s \in held' <=> link'[s] \in {"opening", "open"}
<1>1. call \in [Calls -> CallRecord]
  BY DEF CallsInv, CallsTypeOK, CallRecord, CallEnds
<1>2. /\ link' \in [Sockets -> {"none", "opening", "open", "ended"}]
      /\ \A s \in Sockets \cap S : link'[s] \in {"none", "ended"}
      /\ \A s \in Sockets \ S : link'[s] = link[s]
  BY DEF Close, CallsInv, CallsTypeOK
<1>3. ASSUME NEW d \in Calls
      PROVE  call'[d] = IF d \in C \/ Cut(S, d) THEN Settled(d, e) ELSE call[d]
  BY DEF Close
<1>4. call' \in [Calls -> CallRecord]
  <2>1. \A d \in Calls : call'[d] \in CallRecord
    BY <1>1, <1>3, SettledCall
  <2> QED
    BY <2>1 DEF Close
<1>5. ASSUME NEW d \in Calls PROVE Fits(d, call'[d], link', disposed)
  <2>1. Fits(d, call[d], link, disposed)
    BY DEF CallsInv
  <2>2. /\ Settled(d, e).state = "settled"
        /\ Settled(d, e).at = IF call[d].at = "token" THEN "token" ELSE "none"
    BY SettledCall
  <2>3. CASE d \in Requests
    <3>1. d \notin Sockets /\ d \notin Commands
      BY <2>3, ClientCallsAssumption
    <3> QED
      BY <1>3, <2>1, <2>2, <2>3, <3>1 DEF Fits
  <2>4. CASE d \in Sockets
    <3>1. d \notin Requests /\ d \notin Commands
      BY <2>4, ClientCallsAssumption
    <3>2. CASE d \in S
      BY <1>2, <1>3, <2>1, <2>2, <2>4, <3>1, <3>2 DEF Fits, Cut
    <3>3. CASE d \notin S
      <4>1. link'[d] = link[d] /\ call'[d] = call[d]
        BY <1>2, <1>3, <2>4, <3>1, <3>3 DEF Cut
      <4> QED
        BY <2>1, <3>1, <4>1 DEF Fits
    <3> QED
      BY <3>2, <3>3
  <2>5. CASE d \in Commands
    <3>1. d \notin Requests /\ d \notin Sockets /\ Via[d] \in Sockets
      BY <2>5, ClientCallsAssumption
    <3>2. CASE d \in C \/ Cut(S, d)
      BY <1>3, <2>1, <2>2, <2>5, <3>1, <3>2 DEF Fits
    <3>3. CASE ~(d \in C \/ Cut(S, d))
      <4>1. call'[d] = call[d] /\ (call[d].state = "pending" => Via[d] \notin S)
        BY <1>3, <2>5, <3>3 DEF Cut, Pending
      <4> QED
        BY <1>2, <2>1, <3>1, <4>1 DEF Fits
    <3> QED
      BY <3>2, <3>3
  <2> QED
    BY <2>3, <2>4, <2>5 DEF Calls
<1>6. \A s \in Sockets : s \in held' <=> link'[s] \in {"opening", "open"}
  BY <1>2 DEF Close, CallsInv, Alive
<1>7. held' \subseteq Sockets
  BY DEF Close, CallsInv, CallsTypeOK
<1> QED
  BY <1>2, <1>4, <1>5, <1>6, <1>7

LEMMA OpenFailsKeeps ==
  ASSUME CallsInv, NEW s \in Sockets, NEW e \in OpenErrors, OpenFails(s, e) PROVE CallsInv'
<1>1. Close({s}, {s}, e) /\ UNCHANGED <<disposed, timed>> /\ e \in CallEnds
  BY EndNames DEF OpenFails
<1> QED
  BY <1>1, Closed, ManyCalls

LEMMA LinkEndsKeeps ==
  ASSUME CallsInv, NEW s \in Sockets, NEW e \in LinkErrors, LinkEnds(s, e) PROVE CallsInv'
<1>1. /\ Close({s}, {}, e) /\ UNCHANGED <<disposed, timed>> /\ e \in CallEnds
      /\ link[s] = "open"
  BY EndNames DEF LinkEnds
<1> QED
  BY <1>1, Closed, ManyCalls

LEMMA TimesOutKeeps == ASSUME CallsInv, NEW c \in Calls, TimesOut(c) PROVE CallsInv'
<1>1. Close({c}, {c}, "TIMEOUT") /\ UNCHANGED <<disposed, timed>> /\ "TIMEOUT" \in CallEnds
  BY EndNames DEF TimesOut
<1> QED
  BY <1>1, Closed, ManyCalls

LEMMA DisposeKeeps == ASSUME CallsInv, Dispose PROVE CallsInv'
<1> DEFINE C == {c \in Requests \cup Sockets :
                   Pending(c) /\ (HasTimeout(c) \/ call[c].at = "opening")}
<1>1. Close(Sockets, C, "CANCELLED") /\ disposed' /\ timed' = timed /\ "CANCELLED" \in CallEnds
  BY EndNames DEF Dispose
<1>2. \A s \in Sockets \cap Sockets : link[s] = "opening" => s \in C
  BY DEF CallsInv, Fits, Calls, Pending
<1>3. Sockets \cap C \subseteq Sockets
  OBVIOUS
<1> HIDE DEF C
<1>4. /\ call' \in [Calls -> CallRecord]
      /\ link' \in [Sockets -> {"none", "opening", "open", "ended"}]
      /\ held' \subseteq Sockets
      /\ \A d \in Calls : Fits(d, call'[d], link', disposed)
      /\ \A s \in Sockets : s \in held' <=> link'[s] \in {"opening", "open"}
  BY <1>1, <1>2, <1>3, Closed
<1>5. \A s \in Sockets : link'[s] \in {"none", "ended"}
  BY <1>1 DEF Close, CallsInv, CallsTypeOK
<1>6. ASSUME NEW d \in Calls, call'[d].state = "pending"
      PROVE  d \notin timed /\ (d \in Requests \/ call'[d].at = "token")
  <2>1. call'[d] = IF d \in C \/ Cut(Sockets, d) THEN Settled(d, "CANCELLED") ELSE call[d]
    BY <1>1 DEF Close
  <2>2. Settled(d, "CANCELLED").state = "settled"
    BY <1>1, SettledCall
  <2>3. d \notin C /\ ~Cut(Sockets, d) /\ call'[d] = call[d]
    BY <1>6, <2>1, <2>2
  <2>4. d \notin Commands
    BY <1>6, <2>3, ClientCallsAssumption DEF Cut, Pending
  <2>5. d \notin timed /\ call[d].at # "opening"
    BY <1>6, <2>3, <2>4 DEF C, Calls, Pending, HasTimeout
  <2>6. Fits(d, call[d], link, disposed)
    BY DEF CallsInv
  <2> QED
    BY <1>6, <2>3, <2>4, <2>5, <2>6 DEF Fits, Calls
<1>7. ASSUME NEW d \in Calls PROVE Fits(d, call'[d], link', disposed')
  BY <1>1, <1>4, <1>5, <1>6 DEF Fits
<1>8. CallsTypeOK'
  BY <1>1, <1>4 DEF CallsInv, CallsTypeOK, CallRecord, CallEnds
<1>9. \A d \in Calls : Fits(d, call[d], link, disposed)'
  BY <1>1, <1>7 DEF Fits
<1>10. \A s \in Sockets : (s \in held <=> Alive(s))'
  BY <1>4 DEF Alive
<1> QED
  BY <1>8, <1>9, <1>10 DEF CallsInv

LEMMA AbortKeeps == ASSUME CallsInv, NEW c \in Calls, Abort(c) PROVE CallsInv'
<1>1. call \in [Calls -> CallRecord] /\ Fits(c, call[c], link, disposed)
  BY DEF CallsInv, CallsTypeOK, CallRecord, CallEnds
<1>2. call[c].state = "pending" /\ UNCHANGED <<disposed, timed>>
  BY DEF Abort, Pending
<1>3. CASE Deaf(c)
  <2> DEFINE r == [call[c] EXCEPT !.aborted = TRUE]
  <2>1. call' = [call EXCEPT ![c] = r] /\ UNCHANGED <<disposed, timed, link, held>>
    BY <1>3 DEF Abort
  <2>2. /\ r \in CallRecord /\ r.state = call[c].state /\ r.at = call[c].at
    BY <1>1 DEF CallRecord
  <2>3. Fits(c, r, link, disposed)
    BY <1>1, <1>2, <1>3, <2>2 DEF Deaf, HasTimeout, Token, Fits
  <2> QED
    BY <2>1, <2>2, <2>3, OneCall
<1>4. CASE ~Deaf(c)
  <2>1. AbortError(c) \in CallEnds
    BY EndNames DEF AbortError
  <2> DEFINE q == Settled(c, AbortError(c))
             r == [q EXCEPT !.aborted = TRUE]
  <2>7. /\ q \in CallRecord /\ q.state = "settled"
        /\ q.at = IF call[c].at = "token" THEN "token" ELSE "none"
    BY <2>1, SettledCall
  <2> HIDE DEF q
  <2>2. r \in CallRecord /\ r.state = "settled" /\ r.at \in {"none", "token"}
    BY <2>7 DEF CallRecord
  <2>3. r.at = "token" => call[c].at = "token"
    BY <2>7 DEF CallRecord
  <2>4. call' = [call EXCEPT ![c] = r]
    BY <1>4 DEF Abort, q
  <2> HIDE DEF r
  <2>5. CASE c \notin Sockets
    <3>1. Fits(c, r, link, disposed)
      BY <1>1, <2>2, <2>3, <2>5 DEF Fits
    <3>2. UNCHANGED <<disposed, timed, link, held>>
      BY <2>5 DEF Abort
    <3> QED
      BY <2>2, <2>4, <3>1, <3>2, OneCall
  <2>6. CASE c \in Sockets
    <3>1. /\ link' = [link EXCEPT ![c] = IF @ = "opening" THEN "ended" ELSE @]
          /\ held' = held \ {c}
      BY <1>4, <2>6 DEF Abort
    <3>2. /\ link' \in [Sockets -> {"none", "opening", "open", "ended"}]
          /\ link'[c] \in {"none", "ended"} /\ \A s \in Sockets \ {c} : link'[s] = link[s]
      <4>1. link[c] # "open"
        BY <1>1, <1>2, <2>6 DEF Fits
      <4> QED
        BY <2>6, <3>1, <4>1 DEF CallsInv, CallsTypeOK
    <3>3. /\ call' \in [Calls -> CallRecord] /\ call'[c] = r
          /\ \A d \in Calls \ {c} : call'[d] = call[d]
      BY <1>1, <2>2, <2>4
    <3>4. ASSUME NEW d \in Calls PROVE Fits(d, call'[d], link', disposed)
      <4>1. Fits(d, call[d], link, disposed)
        BY DEF CallsInv
      <4>2. CASE d = c
        BY <2>2, <2>6, <3>2, <3>3, <4>2, ClientCallsAssumption DEF Fits
      <4>3. CASE d \in Sockets \ {c}
        BY <3>2, <3>3, <4>1, <4>3, ClientCallsAssumption DEF Fits
      <4>4. CASE d \in Requests
        BY <2>6, <3>2, <3>3, <4>1, <4>4, ClientCallsAssumption DEF Fits
      <4>5. CASE d \in Commands
        <5>1. d \notin Sockets /\ d \notin Requests /\ d # c /\ Via[d] \in Sockets
          BY <2>6, <4>5, ClientCallsAssumption
        <5>2. link[c] # "open"
          BY <1>1, <1>2, <2>6 DEF Fits
        <5> QED
          BY <3>2, <3>3, <4>1, <4>5, <5>1, <5>2 DEF Fits
      <4> QED
        BY <4>2, <4>3, <4>4, <4>5 DEF Calls
    <3>5. \A s \in Sockets : s \in held' <=> link'[s] \in {"opening", "open"}
      BY <3>1, <3>2 DEF CallsInv, Alive
    <3>6. held' \subseteq Sockets
      BY <3>1 DEF CallsInv, CallsTypeOK
    <3> QED
      BY <1>2, <3>2, <3>3, <3>4, <3>5, <3>6, ManyCalls
  <2> QED
    BY <2>5, <2>6
<1> QED
  BY <1>3, <1>4

LEMMA CallsStep == CallsInv /\ [CallsNext]_callVars => CallsInv'
<1> SUFFICES ASSUME CallsInv, [CallsNext]_callVars PROVE CallsInv'
  OBVIOUS
<1>1. ASSUME NEW c \in Requests \cup Sockets, Begin(c) PROVE CallsInv'
  BY <1>1, BeginKeeps
<1>2. ASSUME NEW c \in Requests \cup Sockets, TokenTooLate(c) PROVE CallsInv'
  BY <1>2, TokenTooLateKeeps
<1>3. ASSUME NEW c \in Requests \cup Sockets, GivesUp(c) PROVE CallsInv'
  BY <1>3, LeavesKeeps, EndNames DEF GivesUp
<1>4. ASSUME NEW c \in Requests \cup Sockets, TokenFails(c, "UNAUTHENTICATED") PROVE CallsInv'
  BY <1>4, LeavesKeeps, EndNames DEF TokenFails
<1>5. ASSUME NEW r \in Requests, Fetch(r) PROVE CallsInv'
  BY <1>5, FetchKeeps
<1>6. ASSUME NEW r \in Requests, Headers(r) PROVE CallsInv'
  BY <1>6, HeadersKeeps
<1>7. ASSUME NEW r \in Requests, FetchFails(r) PROVE CallsInv'
  BY <1>7, SettleKeeps, EndNames DEF FetchFails
<1>8. ASSUME NEW r \in Requests, NEW e \in BodyEnds, BodyRead(r, e) PROVE CallsInv'
  BY <1>8, SettleKeeps, EndNames DEF BodyRead
<1>9. ASSUME NEW s \in Sockets, Resume(s) PROVE CallsInv'
  BY <1>9, ResumeKeeps
<1>10. ASSUME NEW s \in Sockets, Dial(s) PROVE CallsInv'
  BY <1>10, DialKeeps
<1>11. ASSUME NEW s \in Sockets, TokenFails(s, "CONNECTION_FAILED") PROVE CallsInv'
  BY <1>11, LeavesKeeps, EndNames DEF TokenFails
<1>12. ASSUME NEW s \in Sockets, Opens(s) PROVE CallsInv'
  BY <1>12, OpensKeeps
<1>13. ASSUME NEW s \in Sockets, NEW e \in OpenErrors, OpenFails(s, e) PROVE CallsInv'
  BY <1>13, OpenFailsKeeps
<1>14. ASSUME NEW s \in Sockets, NEW e \in LinkErrors, LinkEnds(s, e) PROVE CallsInv'
  BY <1>14, LinkEndsKeeps
<1>15. ASSUME NEW k \in Commands, SendCommand(k) PROVE CallsInv'
  BY <1>15, SendKeeps
<1>16. ASSUME NEW k \in Commands, NEW e \in {"ok", "REFUSED"}, Answered(k, e) PROVE CallsInv'
  BY <1>16, SettleKeeps, EndNames DEF Answered
<1>17. ASSUME NEW c \in Calls, TimesOut(c) PROVE CallsInv'
  BY <1>17, TimesOutKeeps
<1>18. ASSUME NEW c \in Calls, Abort(c) PROVE CallsInv'
  BY <1>18, AbortKeeps
<1>19. CASE Dispose
  BY <1>19, DisposeKeeps
<1>20. CASE UNCHANGED callVars
  BY <1>20 DEF callVars, CallsInv, CallsTypeOK, Fits, Alive, Calls
<1> QED
  BY <1>1, <1>2, <1>3, <1>4, <1>5, <1>6, <1>7, <1>8, <1>9, <1>10, <1>11, <1>12, <1>13,
     <1>14, <1>15, <1>16, <1>17, <1>18, <1>19, <1>20 DEF CallsNext

\* The records of the calls and the connections keep their shape, for any number
\* of requests, connections and commands, with or without timeouts.
THEOREM CallsTypeCorrect == CallsSpec => []CallsTypeOK
<1>1. CallsInv => CallsTypeOK
  BY DEF CallsInv
<1> QED
  BY CallsStart, CallsStep, <1>1, PTL DEF CallsSpec

\* Nothing is on the network that no caller wants, nobody waits for what cannot
\* come, and dispose() leaves only what has no timeout (request(), connect(),
\* send() and dispose() of FlareLobbyClientImpl).
THEOREM NothingOutlivesItsCall == CallsSpec => []TrafficIsWanted
BY CallsStart, CallsStep, WantedTraffic, PTL DEF CallsSpec

(***************************************************************************)
(* Numbers: first and last elements of sets, sums                          *)
(***************************************************************************)

LEMMA FirstOf ==
  ASSUME NEW T, T \subseteq Nat, T # {}
  PROVE  \E x \in T : \A y \in T : x <= y
<1> DEFINE R == OpToRel(<, Nat)
<1>1. \E x \in T : \A y \in T : ~ (<<y, x>> \in R)
  BY NatLessThanWellFounded, WFMin
<1>2. \A x, y \in Nat : y < x => <<y, x>> \in R
  BY DEF OpToRel
<1> HIDE DEF R
<1>3. PICK x \in T : \A y \in T : ~ (<<y, x>> \in R)
  BY <1>1
<1>4. \A y \in T : ~ (y < x)
  BY <1>2, <1>3
<1> QED
  BY <1>3, <1>4

\* A finite set of naturals that is not empty has a greatest element.
LEMMA LastOfAll ==
  ASSUME NEW T, T \subseteq Nat, T # {}, IsFiniteSet(T)
  PROVE  Max(T) \in T /\ \A y \in T : y <= Max(T)
<1> DEFINE Above(x) == {y \in T : y > x}
           C == {Cardinality(Above(x)) : x \in T}
<1>1. ASSUME NEW x \in T PROVE IsFiniteSet(Above(x)) /\ Cardinality(Above(x)) \in Nat
  <2>1. Above(x) \in SUBSET T
    OBVIOUS
  <2> HIDE DEF Above
  <2> QED
    BY <2>1, FS_Subset, FS_CardinalityType
<1>2. C \subseteq Nat /\ C # {}
  BY <1>1
<1>3. PICK n \in C : \A m \in C : n <= m
  BY <1>2, FirstOf
<1>4. PICK x \in T : n = Cardinality(Above(x))
  OBVIOUS
<1>5. ASSUME NEW y \in T, y > x PROVE FALSE
  <2>1. Above(y) \in SUBSET Above(x) /\ y \in Above(x) /\ y \notin Above(y)
    <3>1. \A z \in T : z \in Nat /\ (z > y => z > x)
      BY <1>5
    <3>2. y \in Above(x) /\ y \notin Above(y)
      BY <1>5
    <3>3. \A z \in Above(y) : z \in Above(x)
      BY <3>1
    <3> QED
      BY <3>2, <3>3
  <2>2. Cardinality(Above(x)) <= Cardinality(Above(y))
    BY <1>3, <1>4
  <2> HIDE DEF Above
  <2>3. Cardinality(Above(y)) <= Cardinality(Above(x))
    BY <1>1, <2>1, FS_Subset
  <2>5. Cardinality(Above(x)) \in Nat /\ Cardinality(Above(y)) \in Nat
    BY <1>1
  <2>4. Cardinality(Above(x)) = Cardinality(Above(y))
    BY <2>2, <2>3, <2>5
  <2> QED
    BY <1>1, <2>1, <2>4, FS_Subset
<1>6. \A y \in T : x >= y
  BY <1>5
<1>7. \E z \in T : \A y \in T : z >= y
  BY <1>6
<1>8. Max(T) \in T /\ \A y \in T : Max(T) >= y
  BY <1>7 DEF Max
<1> QED
  BY <1>8

\* The sum of a function over a subset of its domain, as FoldFunction computes it.
Rest(s) == s \ {CHOOSE x \in s : TRUE}
SumStep(fun, g, s) == IF s = {} THEN 0 ELSE fun[CHOOSE x \in s : TRUE] + g[Rest(s)]
IsSum(g, fun, D) == g = [s \in SUBSET D |-> SumStep(fun, g, s)]

LEMMA RestSmaller ==
  ASSUME NEW D, IsFiniteSet(D), NEW s \in SUBSET D, s # {}
  PROVE  /\ Rest(s) \in SUBSET D
         /\ Cardinality(s) \in Nat \ {0} /\ Cardinality(Rest(s)) = Cardinality(s) - 1
<1>1. (CHOOSE x \in s : TRUE) \in s
  OBVIOUS
<1>2. IsFiniteSet(s) /\ Cardinality(s) \in Nat /\ Cardinality(s) # 0
  BY FS_Subset, FS_CardinalityType, FS_EmptySet
<1> QED
  BY <1>1, <1>2, FS_RemoveElement DEF Rest

LEMMA SumExists ==
  ASSUME NEW fun, NEW D, IsFiniteSet(D)
  PROVE  \E g : IsSum(g, fun, D)
<1> DEFINE Small(k) == {s \in SUBSET D : Cardinality(s) <= k}
           Upto(g, k) == g = [s \in Small(k) |-> SumStep(fun, g, s)]
           Bad == {k \in Nat : ~\E g : Upto(g, k)}
<1>1. \A s \in SUBSET D : Cardinality(s) \in Nat /\ (Cardinality(s) = 0 <=> s = {})
  BY FS_Subset, FS_CardinalityType, FS_EmptySet
<1>2. ASSUME Bad # {} PROVE FALSE
  <2>1. Bad \subseteq Nat
    OBVIOUS
  <2>2. PICK k \in Bad : \A j \in Bad : k <= j
    <3> HIDE DEF Bad
    <3> QED
      BY <1>2, <2>1, FirstOf
  <2>3. CASE k = 0
    <3> DEFINE g == [s \in Small(0) |-> 0]
    <3>1. Small(0) = {{}}
      BY <1>1
    <3>2. \A s \in Small(0) : SumStep(fun, g, s) = 0
      BY <3>1 DEF SumStep
    <3>3. Upto(g, 0)
      BY <3>2
    <3> QED
      BY <2>2, <2>3, <3>3
  <2>4. CASE k # 0
    <3>1. k \in Nat /\ k - 1 \in Nat
      BY <2>4
    <3>2. k - 1 \notin Bad
      <4> HIDE DEF Bad
      <4> QED
        BY <2>2, <3>1
    <3>6. PICK g : Upto(g, k - 1)
      BY <3>1, <3>2
    <3> DEFINE h == [s \in Small(k) |-> IF Cardinality(s) <= k - 1 THEN g[s]
                                          ELSE SumStep(fun, g, s)]
    <3>3. ASSUME NEW s \in Small(k) PROVE h[s] = SumStep(fun, h, s)
      <4>1. h[s] = SumStep(fun, g, s)
        <5>1. CASE Cardinality(s) <= k - 1
          <6>1. s \in Small(k - 1)
            BY <5>1
          <6> QED
            BY <3>6, <5>1, <6>1
        <5>2. CASE ~(Cardinality(s) <= k - 1)
          BY <5>2
        <5> QED
          BY <5>1, <5>2
      <4>2. CASE s = {}
        BY <4>1, <4>2 DEF SumStep
      <4>3. CASE s # {}
        <5>1. Rest(s) \in SUBSET D /\ Cardinality(Rest(s)) <= k - 1 /\ Cardinality(Rest(s)) <= k
          BY <1>1, <3>1, <4>3, RestSmaller
        <5>2. h[Rest(s)] = g[Rest(s)]
          BY <5>1
        <5> QED
          BY <4>1, <4>3, <5>2 DEF SumStep
      <4> QED
        BY <4>2, <4>3
    <3>4. h = [s \in Small(k) |-> h[s]]
      OBVIOUS
    <3> HIDE DEF h, Small
    <3>5. Upto(h, k)
      BY <3>3, <3>4
    <3> QED
      BY <2>2, <3>5
  <2> QED
    BY <2>3, <2>4
<1>3. Cardinality(D) \in Nat
  BY FS_CardinalityType
<1>4. \E g : Upto(g, Cardinality(D))
  BY <1>2, <1>3
<1>5. Small(Cardinality(D)) = SUBSET D
  BY FS_Subset
<1> QED
  BY <1>4, <1>5 DEF IsSum

LEMMA SumNumber ==
  ASSUME NEW D, IsFiniteSet(D), NEW fun \in [D -> Int], NEW g, IsSum(g, fun, D)
  PROVE  \A s \in SUBSET D : g[s] \in Int
<1> DEFINE Bad == {s \in SUBSET D : g[s] \notin Int}
           Sizes == {Cardinality(s) : s \in Bad}
<1>1. SUFFICES ASSUME Bad # {} PROVE FALSE
  OBVIOUS
<1>2. \A s \in SUBSET D : Cardinality(s) \in Nat
  BY FS_Subset, FS_CardinalityType
<1>3. Sizes \subseteq Nat /\ Sizes # {}
  BY <1>1, <1>2
<1>4. PICK k \in Sizes : \A j \in Sizes : k <= j
  BY <1>3, FirstOf
<1>5. PICK s \in Bad : k = Cardinality(s)
  OBVIOUS
<1>6. g[s] = SumStep(fun, g, s)
  BY DEF IsSum
<1>7. s # {}
  BY <1>6 DEF SumStep
<1>8. Rest(s) \in SUBSET D /\ ~(k <= Cardinality(Rest(s)))
  BY <1>5, <1>7, RestSmaller
<1>9. g[Rest(s)] \in Int
  BY <1>4, <1>8
<1>10. fun[CHOOSE x \in s : TRUE] \in Int
  BY <1>7
<1> QED
  BY <1>6, <1>7, <1>9, <1>10 DEF SumStep

LEMMA TotalNumber == ASSUME NEW t \in Ticket PROVE Total(t) \in Int
<1> DEFINE D == DOMAIN Roster[t]
           fun == Roster[t]
           g == CHOOSE f : IsSum(f, fun, D)
<1>1. IsFiniteSet(D) /\ fun \in [D -> Int]
  BY SearchAssumption
<1>2. Total(t) = g[D]
  BY DEF Total, FoldFunction, FoldFunctionOnSet, MapThenFoldSet, IsSum, SumStep, Rest
<1>3. IsSum(g, fun, D)
  <2>1. \E f : IsSum(f, fun, D)
    BY <1>1, SumExists
  <2> QED
    BY <2>1
<1> HIDE DEF g, D, fun
<1> QED
  BY <1>1, <1>2, <1>3, SumNumber

(***************************************************************************)
(* What a search picks                                                     *)
(***************************************************************************)

\* What the comparisons need of the tickets' times.
Times == queuedAt \in [Ticket -> Nat]

LEMMA OlderOrder ==
  ASSUME Times
  PROVE  \A a, b, c \in Ticket :
           /\ Older(a, b) <=> queuedAt[a] < queuedAt[b] \/ (queuedAt[a] = queuedAt[b] /\ a < b)
           /\ ~(Older(a, b) /\ Older(b, a))
           /\ Older(a, b) /\ Older(b, c) => Older(a, c)
           /\ a = b \/ Older(a, b) \/ Older(b, a)
<1>1. \A a \in Ticket : a \in Nat /\ queuedAt[a] \in Nat
  BY SearchAssumption DEF Times
<1>2. ASSUME NEW a \in Ticket, NEW b \in Ticket
      PROVE  Older(a, b) <=> queuedAt[a] < queuedAt[b] \/ (queuedAt[a] = queuedAt[b] /\ a < b)
  <2> DEFINE v == <<queuedAt[a], a>>
             w == <<queuedAt[b], b>>
  <2>1. DOMAIN v = {1, 2} /\ v[1] = queuedAt[a] /\ v[2] = a /\ w[1] = queuedAt[b] /\ w[2] = b
    OBVIOUS
  <2>2. 1 .. 1 - 1 = {} /\ 1 .. 2 - 1 = {1}
    OBVIOUS
  <2>3. Older(a, b) <=> Before(v, w)
    BY DEF Older
  <2> HIDE DEF v, w
  <2> QED
    BY <2>1, <2>2, <2>3 DEF Before
<1> QED
  BY <1>1, <1>2

\* Sequences of seven numbers in the order of their first difference.
Seven == [1 .. 7 -> Int]

LEMMA BeforeOrder ==
  /\ \A v \in Seven : ~Before(v, v)
  /\ \A u, v, w \in Seven : Before(u, v) /\ Before(v, w) => Before(u, w)
  /\ \A v, w \in Seven : v = w \/ Before(v, w) \/ Before(w, v)
  /\ \A v, w \in Seven : Before(v, w) => v[1] <= w[1]
<1>1. \A v \in Seven : DOMAIN v = 1 .. 7 /\ \A i \in 1 .. 7 : v[i] \in Int
  BY DEF Seven
<1>2. \A v \in Seven : ~Before(v, v)
  BY <1>1 DEF Before
<1>3. ASSUME NEW u \in Seven, NEW v \in Seven, NEW w \in Seven, Before(u, v), Before(v, w)
      PROVE  Before(u, w)
  <2>1. PICK i \in 1 .. 7 : u[i] < v[i] /\ \A j \in 1 .. i - 1 : u[j] = v[j]
    BY <1>1, <1>3 DEF Before
  <2>2. PICK k \in 1 .. 7 : v[k] < w[k] /\ \A j \in 1 .. k - 1 : v[j] = w[j]
    BY <1>1, <1>3 DEF Before
  <2>3. CASE i <= k
    <3>1. u[i] < w[i]
      <4>1. v[i] <= w[i]
        BY <1>1, <2>2, <2>3
      <4> QED
        BY <1>1, <2>1, <4>1
    <3>2. \A j \in 1 .. i - 1 : u[j] = w[j]
      BY <2>1, <2>2, <2>3
    <3> QED
      BY <1>1, <3>1, <3>2 DEF Before
  <2>4. CASE k < i
    <3>1. u[k] < w[k]
      <4>1. u[k] = v[k]
        BY <2>1, <2>4
      <4> QED
        BY <2>2, <4>1
    <3>2. \A j \in 1 .. k - 1 : u[j] = w[j]
      BY <2>1, <2>2, <2>4
    <3> QED
      BY <1>1, <3>1, <3>2 DEF Before
  <2> QED
    BY <2>3, <2>4
<1>4. ASSUME NEW v \in Seven, NEW w \in Seven, v # w PROVE Before(v, w) \/ Before(w, v)
  <2> DEFINE D == {i \in 1 .. 7 : v[i] # w[i]}
  <2>1. D \subseteq Nat /\ D # {}
    BY <1>4 DEF Seven
  <2>2. PICK i \in D : \A j \in D : i <= j
    <3> HIDE DEF D
    <3> QED
      BY <2>1, FirstOf
  <2>3. \A j \in 1 .. i - 1 : v[j] = w[j] /\ w[j] = v[j]
    BY <2>2
  <2>4. v[i] < w[i] \/ w[i] < v[i]
    BY <1>1, <2>2
  <2> QED
    BY <1>1, <2>2, <2>3, <2>4 DEF Before
<1>5. ASSUME NEW v \in Seven, NEW w \in Seven, Before(v, w) PROVE v[1] <= w[1]
  <2>1. PICK i \in 1 .. 7 : v[i] < w[i] /\ \A j \in 1 .. i - 1 : v[j] = w[j]
    BY <1>1, <1>5 DEF Before
  <2>2. CASE i = 1
    BY <1>1, <2>1, <2>2
  <2>3. CASE i # 1
    <3>1. 1 \in 1 .. i - 1
      BY <2>3
    <3> QED
      BY <1>1, <2>1, <3>1
  <2> QED
    BY <2>2, <2>3
<1> QED
  BY <1>2, <1>3, <1>4, <1>5

LEMMA TwoBounds ==
  ASSUME NEW x \in Int, NEW y \in Int
  PROVE  /\ Max({x, y}) = IF x >= y THEN x ELSE y
         /\ Min({x, y}) = IF x <= y THEN x ELSE y
BY DEF Max, Min

LEMMA Differences ==
  ASSUME NEW a \in Ticket, NEW b \in Ticket
  PROVE  RatingDifference(a, b) \in Nat /\ RatingDifference(a, b) = RatingDifference(b, a)
<1>1. Total(a) \in Int /\ Total(b) \in Int
  BY TotalNumber
<1>2. Total(a) - Total(b) \in Int /\ Total(b) - Total(a) \in Int
  BY <1>1
<1> QED
  BY <1>1, <1>2, TwoBounds DEF RatingDifference, Distance

LEMMA DeviationNumber ==
  ASSUME NEW t \in Ticket, Cardinality(Members(t)) = TeamSize
  PROVE  Deviation(t) \in Int
<1> DEFINE dev(m) == Distance(TeamSize * Roster[t][m], Total(t))
           T == {dev(m) : m \in Members(t)}
<1>1. Members(t) # {} /\ IsFiniteSet(Members(t))
  BY SearchAssumption, FS_EmptySet DEF Members
<1>2. ASSUME NEW m \in Members(t) PROVE dev(m) \in Nat
  <2>1. Roster[t][m] \in Int /\ TeamSize \in Int /\ Total(t) \in Int
    BY SearchAssumption, TotalNumber DEF Members
  <2>2. TeamSize * Roster[t][m] \in Int
    BY <2>1
  <2> DEFINE x == TeamSize * Roster[t][m]
  <2> HIDE DEF x
  <2>3. x \in Int /\ x - Total(t) \in Int /\ Total(t) - x \in Int
    BY <2>1, <2>2 DEF x
  <2>4. Distance(x, Total(t)) \in Nat
    BY <2>1, <2>3, TwoBounds DEF Distance
  <2> QED
    BY <2>4 DEF x
<1> HIDE DEF dev
<1>3. IsFiniteSet(T)
  <2> DEFINE f == [m \in Members(t) |-> dev(m)]
  <2>1. f \in Surjection(Members(t), T)
    BY DEF Surjection
  <2> QED
    BY <1>1, <2>1, FS_Surjection
<1>4. T \subseteq Nat /\ T # {}
  BY <1>1, <1>2
<1>5. Deviation(t) = Max(T)
  BY DEF Deviation, dev
<1> QED
  BY <1>3, <1>4, <1>5, LastOfAll

\* Two pairs of the same quality are the same pair.
Full(t) == Cardinality(Members(t)) = TeamSize

LEMMA QualityOrder ==
  ASSUME Times, NEW a \in Ticket, NEW b \in Ticket, Full(a), Full(b)
  PROVE  /\ Quality(a, b) \in Seven
         /\ Quality(a, b)[1] = RatingDifference(a, b)
         /\ Quality(a, b)[6] = (IF a <= b THEN a ELSE b)
         /\ Quality(a, b)[7] = (IF a >= b THEN a ELSE b)
<1> DEFINE q1 == RatingDifference(a, b)
           q2 == IF InputMethod[a] = InputMethod[b] THEN 0 ELSE 1
           q3 == Max({Deviation(a), Deviation(b)})
           q4 == Min({queuedAt[a], queuedAt[b]})
           q5 == Max({queuedAt[a], queuedAt[b]})
           q6 == Min({a, b})
           q7 == Max({a, b})
<1>1. q1 \in Int
  BY Differences
<1>2. q2 \in Int
  OBVIOUS
<1>3. q3 \in Int
  <2>1. Deviation(a) \in Int /\ Deviation(b) \in Int
    BY DeviationNumber DEF Full
  <2> QED
    BY <2>1, TwoBounds
<1>4. q4 \in Int /\ q5 \in Int
  <2>1. queuedAt[a] \in Int /\ queuedAt[b] \in Int
    BY DEF Times
  <2> QED
    BY <2>1, TwoBounds
<1>5. q6 \in Int /\ q7 \in Int /\ q6 = (IF a <= b THEN a ELSE b) /\ q7 = (IF a >= b THEN a ELSE b)
  <2>1. a \in Int /\ b \in Int
    BY SearchAssumption
  <2> QED
    BY <2>1, TwoBounds
<1>6. Quality(a, b) = <<q1, q2, q3, q4, q5, q6, q7>>
  BY DEF Quality
<1> HIDE DEF q1, q2, q3, q4, q5, q6, q7
<1>7. /\ <<q1, q2, q3, q4, q5, q6, q7>> \in [1 .. 7 -> Int]
      /\ <<q1, q2, q3, q4, q5, q6, q7>>[1] = q1
      /\ <<q1, q2, q3, q4, q5, q6, q7>>[6] = q6
      /\ <<q1, q2, q3, q4, q5, q6, q7>>[7] = q7
  BY <1>1, <1>2, <1>3, <1>4, <1>5
<1> QED
  BY <1>5, <1>6, <1>7 DEF Seven, q1

Pair(c) == /\ c \in Ticket \X Ticket
           /\ Older(c[1], c[2]) /\ Full(c[1]) /\ Full(c[2])

LEMMA BetterOrder ==
  ASSUME Times
  PROVE  \A c, d, e : Pair(c) /\ Pair(d) /\ Pair(e) =>
           /\ ~Better(c, c)
           /\ Better(c, d) /\ Better(d, e) => Better(c, e)
           /\ c = d \/ Better(c, d) \/ Better(d, c)
           /\ Better(c, d) => RatingDifference(c[1], c[2]) <= RatingDifference(d[1], d[2])
<1> DEFINE Q(c) == Quality(c[1], c[2])
<1>1. ASSUME NEW c, Pair(c)
      PROVE  /\ c[1] \in Ticket /\ c[2] \in Ticket /\ c = <<c[1], c[2]>> /\ Older(c[1], c[2])
             /\ c[1] \in Nat /\ c[2] \in Nat
             /\ Q(c) \in Seven /\ Q(c)[1] = RatingDifference(c[1], c[2])
             /\ Q(c)[6] = (IF c[1] <= c[2] THEN c[1] ELSE c[2])
             /\ Q(c)[7] = (IF c[1] >= c[2] THEN c[1] ELSE c[2])
  <2>1. c[1] \in Ticket /\ c[2] \in Ticket /\ c = <<c[1], c[2]>>
    BY <1>1 DEF Pair
  <2>2. Older(c[1], c[2]) /\ Full(c[1]) /\ Full(c[2])
    BY <1>1 DEF Pair
  <2>3. c[1] \in Nat /\ c[2] \in Nat
    BY <2>1, SearchAssumption
  <2> QED
    BY <2>1, <2>2, <2>3, QualityOrder
<1> HIDE DEF Q
<1>2. ASSUME NEW c, NEW d, Pair(c), Pair(d), Q(c) = Q(d) PROVE c = d
  <2>1. \/ c[1] = d[1] /\ c[2] = d[2]
        \/ c[1] = d[2] /\ c[2] = d[1]
    BY <1>1, <1>2
  <2>2. ~(c[1] = d[2] /\ c[2] = d[1])
    BY <1>1, <1>2, OlderOrder
  <2> QED
    BY <1>1, <1>2, <2>1, <2>2
<1>3. \A c, d : Better(c, d) <=> Before(Q(c), Q(d))
  BY DEF Better, Q
<1>4. ASSUME NEW c, NEW d, NEW e, Pair(c), Pair(d), Pair(e)
      PROVE  /\ ~Better(c, c)
             /\ Better(c, d) /\ Better(d, e) => Better(c, e)
             /\ c = d \/ Better(c, d) \/ Better(d, c)
             /\ Better(c, d) => RatingDifference(c[1], c[2]) <= RatingDifference(d[1], d[2])
  <2>1. /\ Q(c) \in Seven /\ Q(d) \in Seven /\ Q(e) \in Seven
        /\ Q(c)[1] = RatingDifference(c[1], c[2])
        /\ Q(d)[1] = RatingDifference(d[1], d[2])
    BY <1>1, <1>4
  <2>2. Q(c) = Q(d) => c = d
    BY <1>2, <1>4
  <2> QED
    BY <1>3, <2>1, <2>2, BeforeOrder
<1> QED
  BY <1>4

\* selectMatchCandidates(): a round has one best pair, and no other is closer.
LEMMA BestOf ==
  ASSUME Times, NEW C, IsFiniteSet(C), C # {}, \A c \in C : Pair(c)
  PROVE  /\ Best(C) \in C
         /\ \A d \in C : RatingDifference(Best(C)[1], Best(C)[2]) <= RatingDifference(d[1], d[2])
<1> DEFINE Ahd(c) == {d \in C : Better(d, c)}
           T == {Cardinality(Ahd(c)) : c \in C}
<1>1. ASSUME NEW c \in C PROVE IsFiniteSet(Ahd(c)) /\ Cardinality(Ahd(c)) \in Nat
  <2>1. Ahd(c) \in SUBSET C
    OBVIOUS
  <2> HIDE DEF Ahd
  <2> QED
    BY <2>1, FS_Subset, FS_CardinalityType
<1>2. T \subseteq Nat /\ T # {}
  BY <1>1
<1>3. PICK n \in T : \A m \in T : n <= m
  BY <1>2, FirstOf
<1>4. PICK c \in C : n = Cardinality(Ahd(c))
  OBVIOUS
<1>5. ASSUME NEW d \in C, Better(d, c) PROVE FALSE
  <2>1. \A e \in Ahd(d) : e \in Ahd(c)
    BY <1>5, BetterOrder
  <2>2. d \in Ahd(c) /\ d \notin Ahd(d)
    BY <1>5, BetterOrder
  <2>3. Cardinality(Ahd(c)) <= Cardinality(Ahd(d))
    BY <1>3, <1>4
  <2>4. Ahd(d) \in SUBSET Ahd(c)
    BY <2>1
  <2> HIDE DEF Ahd
  <2>5. Cardinality(Ahd(d)) <= Cardinality(Ahd(c))
    BY <1>1, <2>4, FS_Subset
  <2>6. Cardinality(Ahd(c)) = Cardinality(Ahd(d))
    BY <1>1, <2>3, <2>5
  <2> QED
    BY <1>1, <2>2, <2>4, <2>6, FS_Subset
<1>6. \A d \in C \ {c} : Better(c, d)
  BY <1>5, BetterOrder
<1>7. Best(C) \in C /\ \A d \in C \ {Best(C)} : Better(Best(C), d)
  BY <1>6 DEF Best
<1>8. ASSUME NEW d \in C
      PROVE  RatingDifference(Best(C)[1], Best(C)[2]) <= RatingDifference(d[1], d[2])
  <2>1. CASE d = Best(C)
    <3>1. d[1] \in Ticket /\ d[2] \in Ticket
      BY DEF Pair
    <3> QED
      BY <2>1, <3>1, Differences
  <2>2. CASE d # Best(C)
    BY <1>7, <2>2, BetterOrder
  <2> QED
    BY <2>1, <2>2
<1> QED
  BY <1>7, <1>8

\* The pairs among n tickets are at most n * n, and all are evaluated when the
\* limit allows for that many.
LEMMA EvaluatedPairs ==
  ASSUME Times, NEW R \in SUBSET Ticket, NEW S \in SUBSET R, NEW n \in Int
  PROVE  /\ IsFiniteSet(R) /\ Cardinality(R) \in Nat
         /\ IsFiniteSet(Evaluated(S, n))
         /\ Cardinality(Evaluated(S, n)) \in Nat
         /\ Cardinality(Evaluated(S, n)) <= Cardinality(R) * Cardinality(R)
         /\ Cardinality(R) * Cardinality(R) <= n => Evaluated(S, n) = Ordered(S)
<1>1. IsFiniteSet(R) /\ Cardinality(R) \in Nat
  BY SearchAssumption, FS_Subset, FS_CardinalityType
<1>2. IsFiniteSet(R \X R) /\ Cardinality(R \X R) = Cardinality(R) * Cardinality(R)
  BY <1>1, FS_Product
<1>3. Ordered(S) \in SUBSET (R \X R) /\ Evaluated(S, n) \in SUBSET Ordered(S)
  BY DEF Ordered, Evaluated
<1>4. /\ IsFiniteSet(Ordered(S)) /\ Cardinality(Ordered(S)) \in Nat
      /\ Cardinality(Ordered(S)) <= Cardinality(R) * Cardinality(R)
  BY <1>2, <1>3, FS_Subset, FS_CardinalityType
<1>5. /\ IsFiniteSet(Evaluated(S, n)) /\ Cardinality(Evaluated(S, n)) \in Nat
      /\ Cardinality(Evaluated(S, n)) <= Cardinality(Ordered(S))
  BY <1>3, <1>4, FS_Subset, FS_CardinalityType
<1>6. ASSUME NEW c \in Ordered(S), Cardinality(R) * Cardinality(R) <= n
      PROVE  c \in Evaluated(S, n)
  <2> DEFINE D == {d \in Ordered(S) : Sooner(d, c)}
  <2>1. D \in SUBSET Ordered(S)
    OBVIOUS
  <2>2. c[1] \in Ticket /\ c[2] \in Ticket
    BY DEF Ordered
  <2>3. c \notin D
    BY <2>2, OlderOrder DEF Sooner
  <2> HIDE DEF D
  <2>4. IsFiniteSet(D) /\ Cardinality(D) \in Nat /\ Cardinality(D) < Cardinality(Ordered(S))
    BY <1>4, <2>1, <2>3, FS_Subset, FS_CardinalityType
  <2>5. Cardinality(R) * Cardinality(R) \in Nat
    BY <1>1
  <2>6. Cardinality(D) < n
    BY <1>4, <1>6, <2>4, <2>5
  <2> QED
    BY <2>6 DEF Evaluated, D
<1>7. Cardinality(R) * Cardinality(R) \in Nat
  BY <1>1
<1>8. Cardinality(Evaluated(S, n)) <= Cardinality(R) * Cardinality(R)
  BY <1>4, <1>5, <1>7
<1> QED
  BY <1>1, <1>3, <1>5, <1>6, <1>8

Served(P, a, b) ==
  \E u, v \in Ticket : /\ {u, v} \in P
                       /\ u \in {a, b} \/ v \in {a, b}
                       /\ RatingDifference(u, v) <= RatingDifference(a, b)

Begins(S) == [left |-> S, spent |-> 0, pairs |-> {}]
Round(r, at, p) ==
  LET C == Candidates(r.left, p.pairs - r.spent, at, p) IN
  IF C = {} THEN r
  ELSE LET c == Best(C) IN
       [left |-> r.left \ {c[1], c[2]},
        spent |-> r.spent + Cardinality(Evaluated(r.left, p.pairs - r.spent)),
        pairs |-> r.pairs \cup {{c[1], c[2]}}]

IsRun(g, n, S, at, p) ==
  g = [i \in 0 .. n |-> IF i = 0 THEN Begins(S) ELSE Round(g[i - 1], at, p)]

Square(R) == Cardinality(R) * Cardinality(R)

\* After k rounds: k disjoint pairs have been taken out of R, and who could be
\* matched is still there, or one of the two has got somebody as close.
Rounds(r, k, R, at, p) ==
  /\ r.left \in SUBSET R /\ r.spent \in Nat /\ r.spent <= k * Square(R)
  /\ \A x \in r.pairs : \E a, b \in R : a # b /\ x = {a, b}
  /\ \A x, y \in r.pairs : x = y \/ x \cap y = {}
  /\ UNION r.pairs = R \ r.left
  /\ Cardinality(R \ r.left) = 2 * k
  /\ k * Square(R) <= p.pairs =>
       \A a, b \in R : Possible(a, b, at, p) =>
         (a \in r.left /\ b \in r.left) \/ Served(r.pairs, a, b)

Stuck(r, at, p) == Candidates(r.left, p.pairs - r.spent, at, p) = {}

LEMMA PossibleSymmetric ==
  ASSUME NEW a \in Ticket, NEW b \in Ticket, NEW at, NEW p, Possible(a, b, at, p)
  PROVE  Possible(b, a, at, p) /\ a # b /\ Full(a) /\ Full(b)
BY Differences DEF Possible, Full

\* Two tickets that could be matched are a candidate, in one order or the other.
LEMMA CandidateOf ==
  ASSUME Times, NEW R \in SUBSET Ticket, NEW S \in SUBSET R, NEW n \in Int, NEW at, NEW p,
         Square(R) <= n, NEW a \in S, NEW b \in S, Possible(a, b, at, p)
  PROVE  <<a, b>> \in Candidates(S, n, at, p) \/ <<b, a>> \in Candidates(S, n, at, p)
<1>1. a \in Ticket /\ b \in Ticket /\ a # b /\ Possible(b, a, at, p)
  BY PossibleSymmetric
<1>2. Evaluated(S, n) = Ordered(S)
  BY EvaluatedPairs DEF Square
<1>3. <<a, b>> \in Ordered(S) \/ <<b, a>> \in Ordered(S)
  BY <1>1, OlderOrder DEF Ordered
<1> QED
  BY <1>1, <1>2, <1>3 DEF Candidates

LEMMA CandidatePairs ==
  ASSUME Times, NEW R \in SUBSET Ticket, NEW S \in SUBSET R, NEW n \in Int, NEW at, NEW p
  PROVE  /\ IsFiniteSet(Candidates(S, n, at, p))
         /\ \A c \in Candidates(S, n, at, p) :
              Pair(c) /\ c[1] \in S /\ c[2] \in S /\ c[1] # c[2]
<1>1. Candidates(S, n, at, p) \in SUBSET Evaluated(S, n)
  BY DEF Candidates
<1>2. IsFiniteSet(Candidates(S, n, at, p))
  BY <1>1, EvaluatedPairs, FS_Subset
<1>3. ASSUME NEW c \in Candidates(S, n, at, p)
      PROVE  Pair(c) /\ c[1] \in S /\ c[2] \in S /\ c[1] # c[2]
  <2>1. c \in S \X S /\ Older(c[1], c[2]) /\ Possible(c[1], c[2], at, p)
    BY DEF Candidates, Evaluated, Ordered
  <2>2. c[1] \in Ticket /\ c[2] \in Ticket /\ c \in Ticket \X Ticket
    BY <2>1
  <2> QED
    BY <2>1, <2>2, PossibleSymmetric DEF Pair
<1> QED
  BY <1>2, <1>3

LEMMA RoundKeeps ==
  ASSUME Times, NEW R \in SUBSET Ticket, NEW at, NEW p, p.pairs \in Nat,
         NEW r, NEW k \in Nat, Rounds(r, k, R, at, p), ~Stuck(r, at, p)
  PROVE  Rounds(Round(r, at, p), k + 1, R, at, p)
<1> DEFINE n == p.pairs - r.spent
           C == Candidates(r.left, n, at, p)
           c == Best(C)
           u == c[1]
           v == c[2]
           N == Square(R)
           q == Round(r, at, p)
<1>1. n \in Int /\ r.left \in SUBSET R /\ r.spent \in Nat
  BY DEF Rounds
<1>2. C # {} /\ IsFiniteSet(C) /\ \A d \in C : Pair(d) /\ d[1] \in r.left /\ d[2] \in r.left /\ d[1] # d[2]
  BY <1>1, CandidatePairs DEF Stuck
<1>3. /\ c \in C
      /\ \A d \in C : RatingDifference(u, v) <= RatingDifference(d[1], d[2])
  <2> HIDE DEF C
  <2> QED
    BY <1>2, BestOf
<1>4. u \in r.left /\ v \in r.left /\ u # v /\ u \in Ticket /\ v \in Ticket
  BY <1>1, <1>2, <1>3
<1>5. /\ q.left = r.left \ {u, v}
      /\ q.spent = r.spent + Cardinality(Evaluated(r.left, n))
      /\ q.pairs = r.pairs \cup {{u, v}}
  BY <1>2 DEF Round
<1>6. /\ Cardinality(Evaluated(r.left, n)) \in Nat
      /\ Cardinality(Evaluated(r.left, n)) <= N /\ N \in Nat
  <2> HIDE DEF n
  <2>1. Cardinality(R) \in Nat
    BY <1>1, EvaluatedPairs
  <2>2. Cardinality(R) * Cardinality(R) \in Nat
    BY <2>1
  <2> QED
    BY <1>1, <2>2, EvaluatedPairs DEF Square
<1> HIDE DEF q, c, C, n
<1>7. (k + 1) * N = k * N + N /\ k * N \in Nat
  <2> HIDE DEF N
  <2> QED
    BY <1>6
<1>8. q.left \in SUBSET R /\ q.spent \in Nat /\ q.spent <= (k + 1) * N
  <2>1. r.spent <= k * N
    BY DEF Rounds
  <2> HIDE DEF N
  <2> QED
    BY <1>1, <1>5, <1>6, <1>7, <2>1
<1>9. /\ \A x \in r.pairs : \E a, b \in R : a # b /\ x = {a, b}
      /\ \A x, y \in r.pairs : x = y \/ x \cap y = {}
      /\ UNION r.pairs = R \ r.left
      /\ Cardinality(R \ r.left) = 2 * k
  BY DEF Rounds
<1>10. \A x \in q.pairs : \E a, b \in R : a # b /\ x = {a, b}
  BY <1>1, <1>4, <1>5, <1>9
<1>11. \A x \in r.pairs : x \cap {u, v} = {}
  BY <1>4, <1>9
<1>12. \A x, y \in q.pairs : x = y \/ x \cap y = {}
  BY <1>5, <1>9, <1>11
<1>13. UNION q.pairs = R \ q.left
  <2>1. UNION q.pairs = (UNION r.pairs) \cup {u, v}
    BY <1>5
  <2>2. R \ q.left = (R \ r.left) \cup {u, v}
    BY <1>1, <1>4, <1>5
  <2> QED
    BY <1>9, <2>1, <2>2
<1>14. Cardinality(R \ q.left) = 2 * (k + 1)
  <2>1. R \ q.left = ((R \ r.left) \cup {u}) \cup {v}
    BY <1>1, <1>4, <1>5
  <2>2. IsFiniteSet(R \ r.left)
    <3>1. R \ r.left \in SUBSET R /\ IsFiniteSet(R)
      BY <1>1, EvaluatedPairs
    <3> QED
      BY <3>1, FS_Subset
  <2> DEFINE D == R \ r.left
             E == D \cup {u}
  <2>3. u \notin D /\ v \notin E
    BY <1>4
  <2>4. IsFiniteSet(D) /\ Cardinality(D) = 2 * k
    BY <1>9, <2>2
  <2>6. R \ q.left = E \cup {v}
    BY <2>1
  <2> HIDE DEF D
  <2>7. IsFiniteSet(E) /\ Cardinality(E) = 2 * k + 1
    BY <2>3, <2>4, FS_AddElement
  <2> HIDE DEF E
  <2>8. Cardinality(E \cup {v}) = (2 * k + 1) + 1
    BY <2>3, <2>7, FS_AddElement
  <2>5. 2 * (k + 1) = (2 * k + 1) + 1
    OBVIOUS
  <2> QED
    BY <2>5, <2>6, <2>8
<1>15. ASSUME (k + 1) * N <= p.pairs, NEW a \in R, NEW b \in R, Possible(a, b, at, p)
       PROVE  (a \in q.left /\ b \in q.left) \/ Served(q.pairs, a, b)
  <2>1. k * N <= p.pairs
    <3> HIDE DEF N
    <3> QED
      BY <1>6, <1>7, <1>15
  <2>2. (a \in r.left /\ b \in r.left) \/ Served(r.pairs, a, b)
    BY <1>15, <2>1 DEF Rounds
  <2>3. CASE Served(r.pairs, a, b)
    BY <1>5, <2>3 DEF Served
  <2>4. CASE a \in r.left /\ b \in r.left /\ a \notin {u, v} /\ b \notin {u, v}
    BY <1>5, <2>4
  <2>5. CASE a \in r.left /\ b \in r.left /\ (a \in {u, v} \/ b \in {u, v})
    <3>1. Square(R) <= n
      <4>1. r.spent <= k * N
        BY DEF Rounds
      <4>2. n = p.pairs - r.spent
        BY DEF n
      <4> HIDE DEF N
      <4>3. N <= n
        BY <1>1, <1>6, <1>7, <1>15, <4>1, <4>2
      <4> QED
        BY <4>3 DEF N
    <3>2. <<a, b>> \in C \/ <<b, a>> \in C
      BY <1>1, <1>15, <2>5, <3>1, CandidateOf DEF C
    <3>3. a \in Ticket /\ b \in Ticket
      OBVIOUS
    <3>4. RatingDifference(u, v) <= RatingDifference(a, b)
      BY <1>3, <3>2, <3>3, Differences
    <3>5. {u, v} \in q.pairs
      BY <1>5
    <3>6. u \in {a, b} \/ v \in {a, b}
      BY <2>5
    <3> QED
      BY <1>4, <3>4, <3>5, <3>6 DEF Served
  <2> QED
    BY <2>2, <2>3, <2>4, <2>5
<1> QED
  BY <1>8, <1>10, <1>12, <1>13, <1>14, <1>15 DEF Rounds, q

LEMMA RunExists ==
  ASSUME NEW S, NEW at, NEW p, NEW m \in Nat
  PROVE  \E g : IsRun(g, m, S, at, p)
<1> DEFINE Bad == {n \in Nat : ~\E g : IsRun(g, n, S, at, p)}
<1>1. ASSUME Bad # {} PROVE FALSE
  <2>1. PICK n \in Bad : \A j \in Bad : n <= j
    <3>1. Bad \subseteq Nat
      OBVIOUS
    <3> HIDE DEF Bad
    <3> QED
      BY <1>1, <3>1, FirstOf
  <2>2. CASE n = 0
    <3> DEFINE g == [i \in 0 .. 0 |-> Begins(S)]
    <3>1. IsRun(g, 0, S, at, p)
      BY DEF IsRun
    <3> QED
      BY <2>1, <2>2, <3>1
  <2>3. CASE n # 0
    <3>1. n \in Nat /\ n - 1 \in Nat
      BY <2>3
    <3>2. n - 1 \notin Bad
      <4> HIDE DEF Bad
      <4> QED
        BY <2>1, <3>1
    <3>3. PICK g : IsRun(g, n - 1, S, at, p)
      BY <3>1, <3>2
    <3> DEFINE step(h, i) == IF i = 0 THEN Begins(S) ELSE Round(h[i - 1], at, p)
               h == [i \in 0 .. n |-> IF i = n THEN step(g, n) ELSE g[i]]
    <3>4. ASSUME NEW i \in 0 .. n PROVE h[i] = step(h, i)
      <4>1. h[i] = step(g, i)
        <5>1. CASE i = n
          BY <5>1
        <5>2. CASE i # n
          <6>1. i \in 0 .. n - 1
            BY <3>1, <5>2
          <6>2. g[i] = step(g, i)
            BY <3>3, <6>1 DEF IsRun
          <6> QED
            BY <5>2, <6>2
        <5> QED
          BY <5>1, <5>2
      <4>2. i # 0 => h[i - 1] = g[i - 1]
        BY <3>1
      <4> QED
        BY <4>1, <4>2
    <3>5. h = [i \in 0 .. n |-> h[i]]
      OBVIOUS
    <3> HIDE DEF h
    <3>6. IsRun(h, n, S, at, p)
      BY <3>4, <3>5 DEF IsRun
    <3> QED
      BY <2>1, <3>6
  <2> QED
    BY <2>2, <2>3
<1> QED
  BY <1>1

\* What Pick computes: the rounds of a run up to the last.
LEMMA PickOf ==
  ASSUME NEW S, NEW at, NEW p, p.matches \in Nat
  PROVE  \E g : IsRun(g, p.matches, S, at, p) /\ Pick(S, at, p) = g[p.matches].pairs
<1> DEFINE g == CHOOSE f : IsRun(f, p.matches, S, at, p)
<1>1. Pick(S, at, p) = g[p.matches].pairs
  BY DEF Pick, IsRun, Begins, Round
<1>2. IsRun(g, p.matches, S, at, p)
  BY RunExists
<1> QED
  BY <1>1, <1>2

LEMMA RunRounds ==
  ASSUME Times, NEW R \in SUBSET Ticket, NEW at, NEW p, p.pairs \in Nat, p.matches \in Nat,
         NEW g, IsRun(g, p.matches, R, at, p)
  PROVE  \A i \in 0 .. p.matches : \E k \in 0 .. i :
           Rounds(g[i], k, R, at, p) /\ (k = i \/ Stuck(g[i], at, p))
<1> DEFINE Good(i) == \E k \in 0 .. i : Rounds(g[i], k, R, at, p) /\ (k = i \/ Stuck(g[i], at, p))
           Bad == {i \in 0 .. p.matches : ~Good(i)}
<1>1. ASSUME Bad # {} PROVE FALSE
  <2>1. PICK i \in Bad : \A j \in Bad : i <= j
    <3>1. Bad \subseteq Nat
      OBVIOUS
    <3> HIDE DEF Bad
    <3> QED
      BY <1>1, <3>1, FirstOf
  <2>2. i \in 0 .. p.matches /\ i \in Nat /\ ~Good(i)
    OBVIOUS
  <2>3. CASE i = 0
    <3>1. g[0] = Begins(R)
      BY <2>2, <2>3 DEF IsRun
    <3>2. /\ Begins(R).left = R /\ Begins(R).spent = 0 /\ Begins(R).pairs = {}
      BY DEF Begins
    <3>3. 0 * Square(R) = 0
      <4>1. Cardinality(R) \in Nat
        BY SearchAssumption, FS_Subset, FS_CardinalityType
      <4>2. Square(R) \in Nat
        BY <4>1 DEF Square
      <4> QED
        BY <4>2
    <3>4. Cardinality(R \ R) = 0
      <4>1. R \ R = {}
        OBVIOUS
      <4> QED
        BY <4>1, FS_EmptySet
    <3>5. Rounds(g[0], 0, R, at, p)
      BY <3>1, <3>2, <3>3, <3>4 DEF Rounds
    <3>6. Good(0)
      BY <3>5
    <3> QED
      BY <2>2, <2>3, <3>6
  <2>4. CASE i # 0
    <3>1. i - 1 \in 0 .. p.matches
      BY <2>2, <2>4
    <3>2. i - 1 \notin Bad
      <4> HIDE DEF Bad
      <4> QED
        BY <2>1, <2>2
    <3>3. PICK k \in 0 .. i - 1 :
            Rounds(g[i - 1], k, R, at, p) /\ (k = i - 1 \/ Stuck(g[i - 1], at, p))
      BY <3>1, <3>2
    <3>4. g[i] = Round(g[i - 1], at, p)
      BY <2>2, <2>4 DEF IsRun
    <3>5. CASE Stuck(g[i - 1], at, p)
      <4>1. g[i] = g[i - 1]
        BY <3>4, <3>5 DEF Round, Stuck
      <4>2. Rounds(g[i], k, R, at, p) /\ Stuck(g[i], at, p) /\ k \in 0 .. i
        BY <2>2, <3>3, <3>5, <4>1
      <4> QED
        BY <2>2, <4>2
    <3>6. CASE ~Stuck(g[i - 1], at, p)
      <4>1. k = i - 1 /\ k \in Nat /\ k + 1 = i
        BY <2>2, <3>3, <3>6
      <4>2. Rounds(Round(g[i - 1], at, p), k + 1, R, at, p)
        BY <3>3, <3>6, <4>1, RoundKeeps
      <4>3. Rounds(g[i], i, R, at, p) /\ i \in 0 .. i
        BY <2>2, <3>4, <4>1, <4>2
      <4> QED
        BY <2>2, <4>3
    <3> QED
      BY <3>5, <3>6
  <2> QED
    BY <2>3, <2>4
<1> QED
  BY <1>1

\* selectMatchCandidates() picks disjoint pairs, in so many rounds.
LEMMA PickPairs ==
  ASSUME Times, NEW R \in SUBSET Ticket, NEW at, NEW p, p.pairs \in Nat, p.matches \in Nat,
         NEW P, P = Pick(R, at, p)
  PROVE  /\ UNION P \in SUBSET R
         /\ \A x \in P : \E a, b \in R : a # b /\ x = {a, b}
         /\ \A x, y \in P : x = y \/ x \cap y = {}
         /\ \E r, k : /\ k \in 0 .. p.matches /\ P = r.pairs
                      /\ Rounds(r, k, R, at, p) /\ (k = p.matches \/ Stuck(r, at, p))
<1>1. PICK g : IsRun(g, p.matches, R, at, p) /\ P = g[p.matches].pairs
  BY PickOf
<1> DEFINE r == g[p.matches]
<1>2. p.matches \in 0 .. p.matches
  OBVIOUS
<1>3. PICK k \in 0 .. p.matches :
        Rounds(r, k, R, at, p) /\ (k = p.matches \/ Stuck(r, at, p))
  BY <1>1, <1>2, RunRounds
<1> HIDE DEF r
<1>4. P = r.pairs
  BY <1>1 DEF r
<1>5. /\ UNION P \in SUBSET R
      /\ \A x \in P : \E a, b \in R : a # b /\ x = {a, b}
      /\ \A x, y \in P : x = y \/ x \cap y = {}
  BY <1>3, <1>4 DEF Rounds
<1> QED
  BY <1>3, <1>4, <1>5

\* If no limit was met, whoever could be matched was, or one of the two got
\* somebody as close.
LEMMA PickServes ==
  ASSUME Times, NEW R \in SUBSET Ticket, NEW at, NEW p, p.pairs \in Nat, p.matches \in Nat,
         NEW P, P = Pick(R, at, p),
         Cardinality(UNION P) \div 2 < p.matches,
         Square(R) * (Cardinality(UNION P) \div 2 + 1) <= p.pairs,
         NEW a \in R, NEW b \in R, Possible(a, b, at, p)
  PROVE  Served(P, a, b)
<1>1. PICK r, k : /\ k \in 0 .. p.matches /\ P = r.pairs
                  /\ Rounds(r, k, R, at, p) /\ (k = p.matches \/ Stuck(r, at, p))
  BY PickPairs
<1>2. /\ r.left \in SUBSET R /\ r.spent \in Nat /\ r.spent <= k * Square(R)
      /\ Cardinality(UNION P) = 2 * k
  BY <1>1 DEF Rounds
<1>3. Square(R) \in Nat
  <2>1. Cardinality(R) \in Nat
    BY SearchAssumption, FS_Subset, FS_CardinalityType
  <2> QED
    BY <2>1 DEF Square
<1>4. Cardinality(UNION P) \div 2 = k
  <2>1. (2 * k) \div 2 = k
    BY <1>1
  <2> QED
    BY <1>2, <2>1
<1>5. k < p.matches /\ Square(R) * (k + 1) <= p.pairs
  BY <1>4
<1> DEFINE N == Square(R)
<1> HIDE DEF N
<1>6. /\ N \in Nat /\ k \in Nat /\ k * N \in Nat
      /\ N * (k + 1) = k * N + N /\ N * (k + 1) <= p.pairs
  <2>1. N \in Nat /\ k \in Nat
    BY <1>1, <1>3 DEF N
  <2>2. k * N \in Nat /\ N * (k + 1) = k * N + N
    BY <2>1
  <2> QED
    BY <1>5, <2>1, <2>2 DEF N
<1>7. r.spent <= k * N
  BY <1>2 DEF N
<1>8. k * N <= p.pairs /\ N <= p.pairs - r.spent
  BY <1>2, <1>6, <1>7
<1>9. Stuck(r, at, p)
  BY <1>1, <1>5
<1>10. (a \in r.left /\ b \in r.left) \/ Served(P, a, b)
  BY <1>1, <1>8 DEF Rounds, N
<1>11. ASSUME a \in r.left, b \in r.left PROVE FALSE
  <2>1. Square(R) <= p.pairs - r.spent /\ p.pairs - r.spent \in Int
    BY <1>2, <1>8 DEF N
  <2>2. \/ <<a, b>> \in Candidates(r.left, p.pairs - r.spent, at, p)
        \/ <<b, a>> \in Candidates(r.left, p.pairs - r.spent, at, p)
    BY <1>2, <1>11, <2>1, CandidateOf
  <2> QED
    BY <1>9, <2>2 DEF Stuck
<1> QED
  BY <1>10, <1>11

(***************************************************************************)
(* The alarm of a search                                                   *)
(***************************************************************************)

LEMMA MinOf ==
  ASSUME NEW T, T \subseteq Nat, T # {}
  PROVE  Min(T) \in T /\ \A y \in T : Min(T) <= y
<1>1. \E x \in T : \A y \in T : x <= y
  BY FirstOf
<1> QED
  BY <1>1 DEF Min

Waiting == {t \in Ticket : stage[t] = "waiting"}
Stages == {"none", "coming", "waiting", "reserved", "ended"}

\* While no handler has yet to set the alarm, it is set for every expiry and, if
\* it is not due, for every width that is going to grow.
SearchInv ==
  /\ SearchTypeOK
  /\ Quiet => \A t \in Waiting : wakeAt # Never /\ wakeAt <= expiresAt[t]
  /\ WideningsAwaited

LEMMA WideningTimes ==
  ASSUME SearchTypeOK, NEW at
  PROVE  Widenings(at) \subseteq Nat /\ Expiries \subseteq Nat
<1>1. policy.stages \in Seq([after : Nat, width : Nat])
  BY SearchAssumption DEF SearchTypeOK
<1>2. ASSUME NEW t \in Ticket, NEW i \in DOMAIN policy.stages
      PROVE  queuedAt[t] + policy.stages[i].after \in Nat
  <2>1. policy.stages[i] \in [after : Nat, width : Nat]
    <3>1. i \in 1 .. Len(policy.stages)
      BY <1>1
    <3> QED
      BY <1>1, <3>1, ElementOfSeq
  <2>2. policy.stages[i].after \in Nat
    BY <2>1
  <2>3. queuedAt[t] \in Nat
    BY DEF SearchTypeOK
  <2> QED
    BY <2>2, <2>3
<1>3. Rows(stage, policy) \subseteq Ticket
  BY DEF Rows, First
<1>4. Widenings(at) \subseteq Nat
  BY <1>2, <1>3 DEF Widenings, Boundaries
<1> QED
  BY <1>4 DEF Expiries, SearchTypeOK

LEMMA WideningsNow == SearchTypeOK => Widenings(clock) \subseteq Nat
BY WideningTimes

\* synchronizeAlarm()
LEMMA NextWakeFirst ==
  ASSUME SearchTypeOK, NEW at
  PROVE  /\ NextWake(at) \in Nat \cup {Never}
         /\ \A b \in Widenings(at) \cup Expiries : NextWake(at) # Never /\ NextWake(at) <= b
<1> DEFINE times == Widenings(at) \cup Expiries
<1>1. times \subseteq Nat
  BY WideningTimes
<1>2. CASE times = {}
  BY <1>2 DEF NextWake
<1>3. CASE times # {}
  <2>1. NextWake(at) = Min(times)
    BY <1>3 DEF NextWake
  <2>2. Min(times) \in times /\ \A b \in times : Min(times) <= b
    BY <1>1, <1>3, MinOf
  <2> QED
    BY <1>1, <2>1, <2>2, SearchAssumption
<1> QED
  BY <1>2, <1>3

LEMMA SearchStart == SearchInit => SearchInv
<1> SUFFICES ASSUME SearchInit PROVE SearchInv
  OBVIOUS
<1>1. SearchTypeOK
  BY SearchAssumption DEF SearchInit, SearchTypeOK, Stages
<1>2. Waiting = {}
  BY DEF SearchInit, Waiting
<1>3. Rows(stage, policy) = {}
  BY <1>2 DEF Rows, First, Waiting
<1> QED
  BY <1>1, <1>2, <1>3 DEF SearchInv, WideningsAwaited, Widenings

\* What a search makes of the tickets: those of the pairs it has picked are
\* reserved with one another.
Left(st) == {t \in Ticket : st[t] = "waiting" /\ expiresAt[t] > clock}

LEMMA SearchResult ==
  ASSUME SearchTypeOK, NEW st \in [Ticket -> Stages], NEW p \in Policy, SearchFrom(st, p)
  PROVE  LET R == First(Left(st), p.tickets)
             P == Pick(R, clock, p) IN
         /\ R \in SUBSET Left(st) /\ R \in SUBSET Ticket /\ UNION P \in SUBSET R
         /\ stage' = [t \in Ticket |-> IF t \in UNION P THEN "reserved" ELSE st[t]]
         /\ partner' \in [Ticket -> Ticket]
         /\ \A u, v \in Ticket : {u, v} \in P =>
              u \in UNION P /\ v \in UNION P /\ partner'[u] = v /\ partner'[v] = u
<1> DEFINE R == First(Left(st), p.tickets)
           P == Pick(R, clock, p)
           other(t) == CHOOSE u \in Ticket \ {t} : {t, u} \in P
<1>1. Times /\ p.pairs \in Nat /\ p.matches \in Nat
  BY SearchAssumption DEF SearchTypeOK, Times
<1>2. R \in SUBSET Left(st) /\ R \in SUBSET Ticket
  BY DEF First, Left
<1>3. /\ UNION P \in SUBSET R
      /\ \A x \in P : \E a, b \in R : a # b /\ x = {a, b}
      /\ \A x, y \in P : x = y \/ x \cap y = {}
  <2>1. P = Pick(R, clock, p)
    OBVIOUS
  <2> HIDE DEF R, P
  <2> QED
    BY <1>1, <1>2, <2>1, PickPairs
<1>4. R = Rows(st, p)
  BY DEF Rows, Left
<1>5. /\ stage' = [t \in Ticket |-> IF t \in UNION P THEN "reserved" ELSE st[t]]
      /\ partner' = [t \in Ticket |-> IF t \in UNION P THEN other(t) ELSE partner[t]]
  BY <1>4 DEF SearchFrom
<1> HIDE DEF P, R
<1>6. ASSUME NEW u \in Ticket, NEW v \in Ticket, {u, v} \in P
      PROVE  u \in UNION P /\ v \in UNION P /\ u # v /\ other(u) = v
  <2>1. u # v
    <3>1. PICK a \in R, b \in R : a # b /\ {u, v} = {a, b}
      BY <1>3, <1>6
    <3> QED
      BY <3>1
  <2>2. ASSUME NEW w \in Ticket \ {u}, {u, w} \in P PROVE w = v
    <3>1. {u, w} = {u, v}
      BY <1>3, <1>6, <2>2
    <3> QED
      BY <2>1, <3>1
  <2> QED
    BY <1>6, <2>1, <2>2
<1>7. ASSUME NEW t \in UNION P PROVE other(t) \in Ticket
  <2>1. PICK x \in P : t \in x
    OBVIOUS
  <2>2. PICK a \in R, b \in R : a # b /\ x = {a, b}
    BY <1>3
  <2>3. \E u \in Ticket \ {t} : {t, u} \in P
    <3>1. CASE t = a
      BY <1>2, <2>1, <2>2, <3>1
    <3>2. CASE t = b
      <4>1. {b, a} = x
        BY <2>2
      <4> QED
        BY <1>2, <2>1, <2>2, <3>2, <4>1
    <3> QED
      BY <2>1, <2>2, <3>1, <3>2
  <2> QED
    BY <2>3
<1> HIDE DEF other
<1>8. partner' \in [Ticket -> Ticket]
  BY <1>5, <1>7 DEF SearchTypeOK
<1>9. ASSUME NEW u \in Ticket, NEW v \in Ticket, {u, v} \in P
      PROVE  u \in UNION P /\ v \in UNION P /\ partner'[u] = v /\ partner'[v] = u
  <2>1. {v, u} \in P
    <3>1. {v, u} = {u, v}
      OBVIOUS
    <3> QED
      BY <1>9, <3>1
  <2> QED
    BY <1>5, <1>6, <1>9, <2>1
<1>10. /\ R \in SUBSET Left(st) /\ R \in SUBSET Ticket /\ UNION P \in SUBSET R
       /\ stage' = [t \in Ticket |-> IF t \in UNION P THEN "reserved" ELSE st[t]]
       /\ partner' \in [Ticket -> Ticket]
       /\ \A u, v \in Ticket : {u, v} \in P =>
            u \in UNION P /\ v \in UNION P /\ partner'[u] = v /\ partner'[v] = u
  BY <1>2, <1>3, <1>5, <1>8, <1>9
<1> QED
  BY <1>10 DEF R, P

LEMMA SearchTypes ==
  ASSUME SearchTypeOK, NEW st \in [Ticket -> Stages], NEW p \in Policy, SearchFrom(st, p)
  PROVE  stage' \in [Ticket -> Stages] /\ partner' \in [Ticket -> Ticket]
<1>1. partner' \in [Ticket -> Ticket]
  BY SearchResult
<1>2. stage' \in [Ticket -> Stages]
  BY DEF SearchFrom, Stages
<1> QED
  BY <1>1, <1>2

\* The tickets a search would read change with their stages, with the policy and
\* with the expiry of a ticket only.
LEMMA SameRows ==
  ASSUME SearchTypeOK, stage' = stage, policy' = policy,
         \A t \in Waiting : queuedAt'[t] = queuedAt[t] /\ expiresAt'[t] = expiresAt[t],
         \A t \in Waiting : expiresAt[t] > clock' <=> expiresAt[t] > clock
  PROVE  Rows(stage, policy)' = Rows(stage, policy)
<1> DEFINE S == {t \in Ticket : stage[t] = "waiting" /\ expiresAt[t] > clock}
<1>1. {t \in Ticket : stage'[t] = "waiting" /\ expiresAt'[t] > clock'} = S
  BY DEF Waiting
<1>2. \A t, u \in S : Older(u, t)' <=> Older(u, t)
  BY DEF Older, Before, Waiting
<1> HIDE DEF S
<1>3. \A t \in S : {u \in S : Older(u, t)'} = {u \in S : Older(u, t)}
  BY <1>2
<1>4. First(S, policy.tickets) = {t \in S : Cardinality({u \in S : Older(u, t)}) < policy.tickets}
  BY DEF First
<1>5. Rows(stage, policy) = First(S, policy.tickets)
  BY DEF Rows, S
<1>6. Rows(stage, policy)' = {t \in S : Cardinality({u \in S : Older(u, t)'}) < policy.tickets}
  BY <1>1 DEF Rows, First
<1> QED
  BY <1>3, <1>4, <1>5, <1>6

\* The alarm has just been set.
LEMMA SetAlarmKeeps ==
  ASSUME SearchInv, SearchTypeOK', wakeAt' = NextWake(clock),
         UNCHANGED <<clock, stage, queuedAt, expiresAt, policy>>
  PROVE  SearchInv'
<1>1. SearchTypeOK
  BY DEF SearchInv
<1>2. \A b \in Widenings(clock) \cup Expiries : wakeAt' # Never /\ wakeAt' <= b
  BY <1>1, NextWakeFirst
<1>3. Widenings(clock)' = Widenings(clock) /\ Waiting' = Waiting
  BY DEF Widenings, Boundaries, Rows, First, Older, Before, Waiting
<1>4. \A t \in Waiting : expiresAt[t] \in Expiries
  BY DEF Waiting, Expiries
<1> QED
  BY <1>2, <1>3, <1>4 DEF SearchInv, WideningsAwaited

\* Nothing is claimed while a handler has yet to set the alarm.
LEMMA BusyKeeps == ASSUME SearchTypeOK', ~Quiet' PROVE SearchInv'
BY DEF SearchInv, WideningsAwaited

LEMMA TickKeeps == ASSUME SearchInv, Tick PROVE SearchInv'
<1>1. SearchTypeOK /\ SearchTypeOK'
  BY DEF Tick, SearchInv, SearchTypeOK
<1>2. CASE ~Quiet
  BY <1>1, <1>2, BusyKeeps DEF Tick, Quiet
<1>3. CASE Quiet
  <2>1. \A t \in Waiting' : wakeAt' # Never /\ wakeAt' <= expiresAt'[t]
    BY <1>3 DEF SearchInv, Tick, Waiting
  <2>2. ASSUME NEW b \in Widenings(clock)' PROVE wakeAt' # Never /\ wakeAt' <= b
    <3>1. PICK t \in Rows(stage, policy)' : b \in Boundaries(t, clock, policy)'
      BY <2>2 DEF Widenings
    <3>2. t \in Ticket
      BY <3>1 DEF Rows, First
    <3>3. b \in Widenings(clock)' /\ b \in Nat /\ b > clock + 1
      <4>1. (SearchTypeOK => Widenings(clock) \subseteq Nat)'
        BY WideningsNow, PTL
      <4> QED
        BY <1>1, <2>2, <3>1, <4>1 DEF Boundaries, Tick
    <3>4. CASE \E u \in Waiting : expiresAt[u] = clock + 1
      <4>1. PICK u \in Waiting : expiresAt[u] = clock + 1
        BY <3>4
      <4>2. wakeAt # Never /\ wakeAt <= clock + 1
        BY <1>3, <4>1 DEF SearchInv
      <4> QED
        BY <1>1, <3>3, <4>2 DEF Tick, SearchTypeOK
    <3>5. CASE \A u \in Waiting : expiresAt[u] # clock + 1
      <4>1. \A u \in Waiting : expiresAt[u] > clock' <=> expiresAt[u] > clock
        BY <1>1, <3>5 DEF Tick, SearchTypeOK, Waiting
      <4>2. Rows(stage, policy)' = Rows(stage, policy)
        BY <1>1, <4>1, SameRows DEF Tick
      <4>3. b \in Boundaries(t, clock, policy)
        BY <1>1, <3>1, <3>3 DEF Boundaries, Tick, SearchTypeOK
      <4>4. b \in Widenings(clock)
        BY <3>1, <4>2, <4>3 DEF Widenings
      <4> QED
        BY <1>3, <4>4 DEF SearchInv, WideningsAwaited, Tick
    <3> QED
      BY <3>4, <3>5
  <2> QED
    BY <1>1, <2>1, <2>2 DEF SearchInv, WideningsAwaited
<1> QED
  BY <1>2, <1>3

LEMMA CreateKeeps == ASSUME SearchInv, NEW n \in Ticket, CreateTicket(n) PROVE SearchInv'
<1>1. SearchTypeOK
  BY DEF SearchInv
<1>2. PICK l \in Lifetime : expiresAt' = [expiresAt EXCEPT ![n] = clock + l]
  BY DEF CreateTicket
<1>3. SearchTypeOK'
  BY <1>1, <1>2, SearchAssumption DEF CreateTicket, SearchTypeOK, Stages
<1>4. n \notin Waiting /\ Waiting' = Waiting
  BY <1>1 DEF CreateTicket, SearchTypeOK, Waiting
<1>5. \A t \in Waiting : queuedAt'[t] = queuedAt[t] /\ expiresAt'[t] = expiresAt[t]
  BY <1>1, <1>2, <1>4 DEF CreateTicket, SearchTypeOK, Waiting
<1>6. Widenings(clock)' = Widenings(clock)
  <2> DEFINE S == {t \in Ticket : stage[t] = "waiting" /\ expiresAt[t] > clock}
  <2>1. {t \in Ticket : stage'[t] = "waiting" /\ expiresAt'[t] > clock'} = S
    BY <1>4, <1>5 DEF Waiting, CreateTicket
  <2>2. \A t \in S : t \in Waiting
    BY DEF Waiting
  <2>3. \A t, u \in S : Older(u, t)' <=> Older(u, t)
    BY <1>5, <2>2 DEF Older, Before
  <2>4. Rows(stage, policy)' = {t \in S : Cardinality({u \in S : Older(u, t)'}) < policy.tickets}
    BY <2>1 DEF Rows, First, CreateTicket
  <2>5. Rows(stage, policy) = {t \in S : Cardinality({u \in S : Older(u, t)}) < policy.tickets}
    BY DEF Rows, First
  <2> HIDE DEF S
  <2>6. \A t \in S : {u \in S : Older(u, t)'} = {u \in S : Older(u, t)}
    BY <2>3
  <2>7. Rows(stage, policy)' = Rows(stage, policy)
    BY <2>4, <2>5, <2>6
  <2>8. \A t \in Rows(stage, policy) : queuedAt'[t] = queuedAt[t]
    BY <1>5, <2>2, <2>5
  <2>9. \A t \in Rows(stage, policy) :
           Boundaries(t, clock, policy)' = Boundaries(t, clock, policy)
    BY <2>8 DEF Boundaries, CreateTicket
  <2> QED
    BY <2>7, <2>9 DEF Widenings
<1>7. Quiet' <=> Quiet
  BY DEF Quiet, CreateTicket
<1> QED
  BY <1>3, <1>4, <1>5, <1>6, <1>7 DEF SearchInv, WideningsAwaited, CreateTicket

LEMMA SearchStep == SearchInv /\ [SearchNext]_searchVars => SearchInv'
<1> SUFFICES ASSUME SearchInv, [SearchNext]_searchVars PROVE SearchInv'
  OBVIOUS
<1>1. SearchTypeOK
  BY DEF SearchInv
<1>2. ASSUME NEW t \in Ticket, Enqueue(t) PROVE SearchInv'
  <2>1. [stage EXCEPT ![t] = "waiting"] \in [Ticket -> Stages]
    BY <1>1 DEF SearchTypeOK, Stages
  <2>2. SearchFrom([stage EXCEPT ![t] = "waiting"], policy)
    BY <1>2 DEF Enqueue
  <2>3. stage' \in [Ticket -> Stages] /\ partner' \in [Ticket -> Ticket]
    BY <1>1, <2>1, <2>2, SearchTypes DEF SearchTypeOK
  <2> QED
    BY <1>1, <1>2, <2>3, BusyKeeps DEF Enqueue, NotYet, SearchTypeOK, Stages, Quiet
<1>3. CASE Alarm
  <2> DEFINE st == [t \in Ticket |-> IF stage[t] = "waiting" /\ expiresAt[t] <= clock
                                       THEN "ended" ELSE stage[t]]
  <2>1. st \in [Ticket -> Stages]
    BY <1>1 DEF SearchTypeOK, Stages
  <2>2. SearchFrom(st, policy)
    BY <1>3, Zenon DEF Alarm
  <2> HIDE DEF st
  <2>3. stage' \in [Ticket -> Stages] /\ partner' \in [Ticket -> Ticket]
    BY <1>1, <2>1, <2>2, SearchTypes DEF SearchTypeOK
  <2> QED
    BY <1>1, <1>3, <2>3, BusyKeeps DEF Alarm, SearchTypeOK, Stages, Quiet
<1>4. ASSUME NEW p \in Policy, ConfigureSearchPolicy(p) PROVE SearchInv'
  <2>1. stage' \in [Ticket -> Stages] /\ partner' \in [Ticket -> Ticket]
    BY <1>1, <1>4, SearchTypes DEF ConfigureSearchPolicy, SearchTypeOK, Stages
  <2> QED
    BY <1>1, <1>4, <2>1, BusyKeeps DEF ConfigureSearchPolicy, NotYet, SearchTypeOK, Stages, Quiet
<1>5. CASE Synchronize
  <2>1. SearchTypeOK'
    BY <1>1, <1>5, NextWakeFirst DEF Synchronize, SearchTypeOK
  <2> QED
    BY <1>5, <2>1, SetAlarmKeeps DEF Synchronize
<1>6. CASE SearchCandidates
  <2>1. SearchTypeOK'
    BY <1>1, <1>6, NextWakeFirst DEF SearchCandidates, SearchTypeOK
  <2> QED
    BY <1>6, <2>1, SetAlarmKeeps DEF SearchCandidates
<1>7. CASE AlarmEnds
  <2>1. SearchTypeOK'
    BY <1>1, <1>7, NextWakeFirst DEF AlarmEnds, SearchTypeOK
  <2> QED
    BY <1>7, <2>1, SetAlarmKeeps DEF AlarmEnds
<1>8. CASE Tick
  BY <1>8, TickKeeps
<1>9. ASSUME NEW t \in Ticket, CreateTicket(t) PROVE SearchInv'
  BY <1>9, CreateKeeps
<1>10. ASSUME NEW t \in Ticket, Withdraw(t) PROVE SearchInv'
  BY <1>1, <1>10, BusyKeeps DEF Withdraw, NotYet, SearchTypeOK, Stages, Quiet
<1>11. CASE UNCHANGED searchVars
  <2>1. SearchTypeOK'
    BY <1>1, <1>11 DEF SearchTypeOK, searchVars
  <2>2. Widenings(clock)' = Widenings(clock) /\ Waiting' = Waiting /\ (Quiet' <=> Quiet)
    BY <1>11 DEF Widenings, Boundaries, Rows, First, Older, Before, Waiting, Quiet, searchVars
  <2> QED
    BY <1>11, <2>1, <2>2 DEF SearchInv, WideningsAwaited, searchVars
<1> QED
  BY <1>2, <1>3, <1>4, <1>5, <1>6, <1>7, <1>8, <1>9, <1>10, <1>11 DEF SearchNext, Searching

\* Whatever tickets, policies and handlers there are, once the handlers have set
\* the alarm it is set no later than the next widening of a ticket that a search
\* reads, though a ticket leaves the rows read when it expires and another one
\* takes its place (synchronizeAlarm(), getNextMatchmakingSearchAt()).
THEOREM WideningsHaveAlarm == SearchSpec => []WideningsAwaited
<1>1. SearchInv => WideningsAwaited
  BY DEF SearchInv
<1> QED
  BY SearchStart, SearchStep, <1>1, PTL DEF SearchSpec

\* Whatever tickets, policies and handlers there are, the tickets, the policy and
\* the alarm of a Pool keep their shape: in particular a ticket is only ever
\* reserved with a ticket (searchAndReserveCandidatesAt()).
THEOREM SearchTypeCorrect == SearchSpec => []SearchTypeOK
<1>1. SearchInv => SearchTypeOK
  BY DEF SearchInv
<1> QED
  BY SearchStart, SearchStep, <1>1, PTL DEF SearchSpec

\* A search leaves no two tickets that would rather be matched with one another.
LEMMA SearchServes ==
  ASSUME SearchTypeOK, SearchTypeOK', NEW st \in [Ticket -> Stages], policy' \in Policy,
         SearchFrom(st, policy'), clock' = clock,
         UNCHANGED <<queuedAt, expiresAt>>,
         \A t \in Ticket : st[t] = "reserved" <=> stage[t] = "reserved",
         ~CutShort,
         NEW a \in Read, NEW b \in Read, Possible(a, b, clock, policy')
  PROVE  \E t \in {a, b} \cap Reserved :
            RatingDifference(t, partner'[t]) <= RatingDifference(a, b)
<1> DEFINE p == policy'
           R == First(Left(st), p.tickets)
           P == Pick(R, clock, p)
           U == UNION P
<1> HIDE DEF p
<1>1. /\ R \in SUBSET Left(st) /\ R \in SUBSET Ticket /\ U \in SUBSET R
      /\ stage' = [t \in Ticket |-> IF t \in U THEN "reserved" ELSE st[t]]
      /\ partner' \in [Ticket -> Ticket]
      /\ \A u, v \in Ticket : {u, v} \in P =>
           u \in U /\ v \in U /\ partner'[u] = v /\ partner'[v] = u
  <2>1. p \in Policy /\ SearchFrom(st, p)
    BY DEF p
  <2> QED
    BY <2>1, SearchResult
<1>2. Times /\ p.pairs \in Nat /\ p.matches \in Nat
  BY SearchAssumption DEF SearchTypeOK, Times, p
<1>3. P = Pick(R, clock, p)
  OBVIOUS
<1> HIDE DEF P, U, R
<1>4. Reserved = U
  <2>1. \A t \in U : st[t] = "waiting"
    BY <1>1 DEF Left
  <2> QED
    BY <1>1, <2>1 DEF Reserved
<1>5. Reserved \cup {t \in Ticket : stage'[t] = "waiting" /\ expiresAt[t] > clock} = Left(st)
  BY <1>1, <1>4 DEF Left
<1>6. Read = R
  BY <1>5 DEF Read, R, p
<1>7. /\ Cardinality(U) \div 2 < p.matches
      /\ Square(R) * (Cardinality(U) \div 2 + 1) <= p.pairs
  <2> DEFINE m == Cardinality(U) \div 2
             n == Cardinality(R)
  <2>1. ~(m >= p.matches) /\ ~(n * n * (m + 1) > p.pairs)
    BY <1>4, <1>6 DEF CutShort, p
  <2>2. m \in Int /\ n \in Int
    <3>1. IsFiniteSet(Ticket)
      BY SearchAssumption
    <3>2. IsFiniteSet(R) /\ IsFiniteSet(U)
      BY <1>1, <3>1, FS_Subset
    <3>3. Cardinality(U) \in Nat /\ Cardinality(R) \in Nat
      BY <3>2, FS_CardinalityType
    <3> QED
      BY <3>3
  <2>3. Square(R) = n * n
    BY DEF Square
  <2> HIDE DEF m, n
  <2> DEFINE k == n * n * (m + 1)
  <2>4. k \in Int
    BY <2>2
  <2>5. ~(k > p.pairs)
    BY <2>1
  <2> HIDE DEF k
  <2>6. m < p.matches /\ k <= p.pairs
    BY <1>2, <2>1, <2>2, <2>4, <2>5
  <2> QED
    BY <2>3, <2>6 DEF m, k
<1>8. Served(P, a, b)
  <2>1. a \in R /\ b \in R /\ Possible(a, b, clock, p)
    BY <1>6 DEF p
  <2>2. /\ Cardinality(UNION P) \div 2 < p.matches
        /\ Square(R) * (Cardinality(UNION P) \div 2 + 1) <= p.pairs
    BY <1>7 DEF U
  <2> QED
    BY <1>1, <1>2, <1>3, <2>1, <2>2, PickServes
<1> QED
  BY <1>1, <1>4, <1>8, Differences DEF Served

\* Whatever tickets, ratings and policies there are, a search that its limits do
\* not cut short leaves no two tickets that it has read, that could be matched and
\* that are closer to one another than to what it reserved them with
\* (selectMatchCandidates(), searchAndReserveCandidatesAt()).
THEOREM ClosestAreMatched == SearchSpec => NoneWouldRather
<1> DEFINE A == Searching /\ ~CutShort =>
                  \A a, b \in Read : Possible(a, b, clock, policy') =>
                    \E t \in {a, b} \cap Reserved :
                       RatingDifference(t, partner'[t]) <= RatingDifference(a, b)
<1>1. SearchInv /\ SearchInv' /\ [SearchNext]_searchVars => [A]_searchVars
  <2> SUFFICES ASSUME SearchTypeOK, SearchTypeOK', Searching, ~CutShort,
                      NEW a \in Read, NEW b \in Read, Possible(a, b, clock, policy')
               PROVE  \E t \in {a, b} \cap Reserved :
                        RatingDifference(t, partner'[t]) <= RatingDifference(a, b)
    BY DEF SearchInv
  <2>1. policy' \in Policy
    BY DEF SearchTypeOK
  <2>2. ASSUME NEW n \in Ticket, Enqueue(n)
        PROVE  \E t \in {a, b} \cap Reserved :
                 RatingDifference(t, partner'[t]) <= RatingDifference(a, b)
    <3> DEFINE st == [stage EXCEPT ![n] = "waiting"]
    <3>1. st \in [Ticket -> Stages]
      BY DEF SearchTypeOK, Stages
    <3>2. \A t \in Ticket : st[t] = "reserved" <=> stage[t] = "reserved"
      BY <2>2 DEF Enqueue, SearchTypeOK
    <3>3. SearchFrom(st, policy')
      BY <2>2 DEF Enqueue
    <3> HIDE DEF st
    <3> QED
      BY <2>1, <2>2, <3>1, <3>2, <3>3, SearchServes DEF Enqueue
  <2>3. ASSUME Alarm
        PROVE  \E t \in {a, b} \cap Reserved :
                 RatingDifference(t, partner'[t]) <= RatingDifference(a, b)
    <3> DEFINE due == {t \in Ticket : stage[t] = "waiting" /\ expiresAt[t] <= clock}
               st == [t \in Ticket |-> IF t \in due THEN "ended" ELSE stage[t]]
    <3>1. st \in [Ticket -> Stages]
      BY DEF SearchTypeOK, Stages
    <3>2. \A t \in Ticket : st[t] = "reserved" <=> stage[t] = "reserved"
      OBVIOUS
    <3>3. SearchFrom(st, policy')
      BY <2>3 DEF Alarm
    <3> HIDE DEF st
    <3> QED
      BY <2>1, <2>3, <3>1, <3>2, <3>3, SearchServes DEF Alarm
  <2>4. ASSUME NEW p \in Policy, ConfigureSearchPolicy(p)
        PROVE  \E t \in {a, b} \cap Reserved :
                 RatingDifference(t, partner'[t]) <= RatingDifference(a, b)
    <3>1. stage \in [Ticket -> Stages] /\ SearchFrom(stage, policy')
      BY <2>4 DEF ConfigureSearchPolicy, SearchTypeOK, Stages
    <3> QED
      BY <2>1, <2>4, <3>1, SearchServes DEF ConfigureSearchPolicy
  <2> QED
    BY <2>2, <2>3, <2>4 DEF Searching
<1> HIDE DEF A
<1>2. SearchSpec => [][A]_searchVars
  BY SearchStart, SearchStep, <1>1, PTL DEF SearchSpec
<1> QED
  BY <1>2 DEF A, NoneWouldRather

(***************************************************************************)
(* The pages of the public list                                            *)
(***************************************************************************)

Cursor == [born : Nat, room : Listed, query : Query]
Found(q, c) == {r \in Listed : Matches(q, r) /\ After(c, r)}
Rank(F, r) == Cardinality({s \in F : Ahead(s, r)})

LEMMA Births ==
  ASSUME ListTypeOK, NEW r \in Listed
  PROVE  r \in Nat /\ row[r].born \in Nat
<1>1. row[r] \in ListRow
  BY DEF ListTypeOK
<1>2. row[r].born \in 0 .. MaxBorn
  BY <1>1 DEF ListRow
<1> QED
  BY <1>2, ListAssumption

\* ORDER BY created_at DESC, room_id DESC is a strict total order.
LEMMA AheadOrder ==
  ASSUME ListTypeOK
  PROVE  \A r, s, t \in Listed :
           /\ ~(Ahead(r, s) /\ Ahead(s, r))
           /\ Ahead(r, s) /\ Ahead(s, t) => Ahead(r, t)
           /\ r = s \/ Ahead(r, s) \/ Ahead(s, r)
<1>1. \A r \in Listed : r \in Nat /\ row[r].born \in Nat
  BY Births
<1> QED
  BY <1>1 DEF Ahead

\* A cursor leads on from its room.
LEMMA CursorOrder ==
  ASSUME ListTypeOK, NEW q \in Query, NEW l \in Listed
  PROVE  /\ Encode(q, l) \in Cursor /\ Encode(q, l) # Nothing /\ Encode(q, l).query = q
         /\ \A r \in Listed : After(Encode(q, l), r) <=> Ahead(l, r)
         /\ \A c \in Cursor \cup {Nothing}, r \in Listed :
              After(c, l) /\ Ahead(l, r) => After(c, r)
<1>1. \A r \in Listed : r \in Nat /\ row[r].born \in Nat
  BY Births
<1>2. Encode(q, l) \in Cursor /\ Encode(q, l).query = q
  BY <1>1 DEF Encode, Cursor
<1>3. Nothing \notin Cursor
  BY ListAssumption DEF Cursor
<1>4. ASSUME NEW r \in Listed PROVE After(Encode(q, l), r) <=> Ahead(l, r)
  <2>1. Encode(q, l).born = row[l].born /\ Encode(q, l).room = l
    BY DEF Encode
  <2> QED
    BY <1>1, <1>2, <1>3, <2>1 DEF After, Ahead
<1>5. ASSUME NEW c \in Cursor \cup {Nothing}, NEW r \in Listed, After(c, l), Ahead(l, r)
      PROVE  After(c, r)
  <2>1. CASE c = Nothing
    BY <2>1 DEF After
  <2>2. CASE c \in Cursor
    <3>1. c.born \in Nat /\ c.room \in Nat
      BY <2>2, ListAssumption DEF Cursor
    <3> QED
      BY <1>1, <1>5, <3>1 DEF After, Ahead
  <2> QED
    BY <2>1, <2>2
<1> QED
  BY <1>2, <1>3, <1>4, <1>5

LEMMA RankOrder ==
  ASSUME ListTypeOK, NEW F \in SUBSET Listed
  PROVE  /\ IsFiniteSet(F)
         /\ \A r \in Listed : Rank(F, r) \in Nat /\ Rank(F, r) <= Cardinality(F)
         /\ \A r \in Listed, s \in F : Ahead(s, r) => Rank(F, s) < Rank(F, r)
<1>1. IsFiniteSet(F)
  BY ListAssumption, FS_Subset
<1>2. ASSUME NEW r \in Listed PROVE Rank(F, r) \in Nat /\ Rank(F, r) <= Cardinality(F)
  <2> DEFINE S == {s \in F : Ahead(s, r)}
  <2>1. S \in SUBSET F
    OBVIOUS
  <2>2. IsFiniteSet(S) /\ Cardinality(S) <= Cardinality(F)
    BY <1>1, <2>1, FS_Subset
  <2> QED
    BY <2>2, FS_CardinalityType DEF Rank
<1>3. ASSUME NEW r \in Listed, NEW s \in F, Ahead(s, r) PROVE Rank(F, s) < Rank(F, r)
  <2> DEFINE S == {t \in F : Ahead(t, s)}
             R == {t \in F : Ahead(t, r)}
  <2>1. S \in SUBSET R
    BY <1>3, AheadOrder
  <2>2. s \in R /\ s \notin S
    BY <1>3, AheadOrder
  <2>3. IsFiniteSet(R)
    <3>1. R \in SUBSET F
      OBVIOUS
    <3> QED
      BY <1>1, <3>1, FS_Subset
  <2>4. Cardinality(S) <= Cardinality(R) /\ Cardinality(R) # Cardinality(S)
    <3> HIDE DEF S, R
    <3> QED
      BY <2>1, <2>2, <2>3, FS_Subset
  <2> QED
    BY <1>2, <2>4 DEF Rank
<1> QED
  BY <1>1, <1>2, <1>3

\* A page that is not empty has a last room.
LEMMA LastOf ==
  ASSUME ListTypeOK, NEW P \in SUBSET Listed, P # {}
  PROVE  Last(P) \in P /\ \A s \in P \ {Last(P)} : Ahead(s, Last(P))
<1> DEFINE n == Cardinality(P)
           T == {n - Rank(P, r) : r \in P}
<1>1. n \in Nat
  BY RankOrder, FS_CardinalityType
<1>2. T \subseteq Nat
  BY <1>1, RankOrder
<1>3. T # {}
  OBVIOUS
<1>4. PICK x \in T : \A y \in T : x <= y
  BY <1>2, <1>3, FirstOf
<1>5. PICK r \in P : x = n - Rank(P, r)
  OBVIOUS
<1>6. ASSUME NEW s \in P \ {r} PROVE Ahead(s, r)
  <2>1. n - Rank(P, r) <= n - Rank(P, s)
    BY <1>4, <1>5
  <2>2. Rank(P, s) <= Rank(P, r)
    BY <1>1, <2>1, RankOrder
  <2>3. ~Ahead(r, s)
    BY <2>2, RankOrder
  <2> QED
    BY <2>3, AheadOrder
<1> QED
  BY <1>6 DEF Last

\* What a page leaves is behind all it shows.
LEMMA PageIsAhead ==
  ASSUME ListTypeOK, NEW q, NEW c, NEW n \in Nat,
         NEW r \in Found(q, c) \ Select(q, c, n), NEW s \in Select(q, c, n)
  PROVE  Ahead(s, r)
<1> DEFINE F == Found(q, c)
<1>1. F \in SUBSET Listed /\ r \in F /\ s \in F
  BY DEF Found, Select
<1>2. Select(q, c, n) = {t \in F : Rank(F, t) < n}
  BY DEF Select, Found, Rank
<1> HIDE DEF F
<1>3. Rank(F, s) < n /\ ~(Rank(F, r) < n)
  BY <1>1, <1>2
<1>4. Rank(F, s) \in Nat /\ Rank(F, r) \in Nat
  BY <1>1, RankOrder
<1>5. r # s /\ ~Ahead(r, s)
  BY <1>1, <1>3, <1>4, RankOrder
<1> QED
  BY <1>1, <1>5, AheadOrder

\* The row asked for in addition tells whether the page shows all that is left:
\* a page is empty, or incomplete, only when it should be.
LEMMA LookaheadTells ==
  ASSUME ListTypeOK, NEW q, NEW c, NEW n \in Nat \ {0}
  PROVE  /\ Cardinality(Select(q, c, n + Lookahead)) > n => Select(q, c, n) # {}
         /\ ~(Cardinality(Select(q, c, n + Lookahead)) > n) => Found(q, c) \subseteq Select(q, c, n)
<1> DEFINE F == Found(q, c)
<1>1. F \in SUBSET Listed
  BY DEF Found
<1>2. \A k : Select(q, c, k) = {t \in F : Rank(F, t) < k}
  BY DEF Select, Found, Rank
<1>3. n + Lookahead = n + 1
  BY DEF Lookahead
<1> HIDE DEF F
<1>4. \A r \in F : Rank(F, r) \in Nat
  BY <1>1, RankOrder
<1>5. IsFiniteSet(F)
  BY <1>1, RankOrder
<1> DEFINE Long == Select(q, c, n + Lookahead)
<1>6. Long \in SUBSET F /\ IsFiniteSet(Long) /\ Cardinality(Long) \in Nat
  <2>1. Long \in SUBSET F
    BY <1>2
  <2> HIDE DEF Long
  <2> QED
    BY <1>5, <2>1, FS_Subset, FS_CardinalityType
<1>7. ASSUME Cardinality(Long) > n PROVE Select(q, c, n) # {}
  <2>1. Long # {}
    BY <1>6, <1>7, FS_EmptySet
  <2> DEFINE T == {Rank(F, r) : r \in F}
  <2>2. T \subseteq Nat /\ T # {}
    BY <1>4, <1>6, <2>1
  <2>3. PICK x \in T : \A y \in T : x <= y
    BY <2>2, FirstOf
  <2>4. PICK r \in F : x = Rank(F, r)
    OBVIOUS
  <2>5. \A s \in F : Rank(F, r) <= Rank(F, s)
    BY <2>3, <2>4
  <2>6. \A s \in F : ~Ahead(s, r)
    BY <1>1, <1>4, <2>5, RankOrder
  <2>7. Rank(F, r) = 0
    <3>1. {s \in F : Ahead(s, r)} = {}
      BY <2>6
    <3> QED
      BY <3>1, FS_EmptySet DEF Rank
  <2> QED
    BY <1>2, <2>7
<1>8. ASSUME ~(Cardinality(Long) > n), ~(F \subseteq Select(q, c, n)) PROVE FALSE
  <2> DEFINE G == {r \in F : ~(Rank(F, r) < n)}
             T == {Rank(F, r) : r \in G}
  <2>1. T \subseteq Nat
    BY <1>4
  <2>2. T # {}
    BY <1>2, <1>8
  <2>3. PICK x \in T : \A y \in T : x <= y
    BY <2>1, <2>2, FirstOf
  <2>4. PICK r \in G : x = Rank(F, r)
    OBVIOUS
  <2> DEFINE P == {s \in F : Ahead(s, r)}
  <2>5. r \in F /\ Rank(F, r) \in Nat /\ Rank(F, r) >= n /\ Cardinality(P) = Rank(F, r)
    BY <1>4, <2>4 DEF Rank
  <2>6. ASSUME NEW s \in P PROVE Rank(F, s) < n
    <3>1. Rank(F, s) < Rank(F, r)
      BY <1>1, <2>4, RankOrder
    <3>2. s \notin G
      BY <1>4, <2>3, <2>4, <3>1
    <3> QED
      BY <3>2
  <2>7. P \in SUBSET Long
    BY <1>2, <1>3, <1>4, <2>6
  <2>8. r \notin P
    BY <1>1, <2>4, AheadOrder
  <2> HIDE DEF P, Long, G, T
  <2>9. IsFiniteSet(P) /\ Cardinality(P) <= Cardinality(Long)
    BY <1>6, <2>7, FS_Subset
  <2>10. Cardinality(P) = n
    BY <1>6, <1>8, <2>5, <2>9
  <2>11. r \in Long
    <3>1. Long = {t \in F : Rank(F, t) < n + 1}
      BY <1>2, <1>3 DEF Long
    <3>2. Rank(F, r) = n
      BY <2>5, <2>10
    <3> QED
      BY <2>5, <3>1, <3>2
  <2>12. (P \cup {r}) \in SUBSET Long
    BY <2>7, <2>11
  <2>13. Cardinality(P \cup {r}) = n + 1
    BY <2>8, <2>9, <2>10, FS_AddElement
  <2>14. Cardinality(P \cup {r}) <= Cardinality(Long)
    BY <1>6, <2>12, FS_Subset
  <2> QED
    BY <1>6, <1>8, <2>13, <2>14
<1> QED
  BY <1>7, <1>8 DEF F

\* What has been shown lies before the cursor, and what must still be shown
\* behind it.
WalkInv ==
  /\ walk.query \in Query /\ ValidQuery(walk.query)
  /\ walk.cursor \in Cursor /\ walk.cursor.query = walk.query
  /\ \A r \in seen : ~After(walk.cursor, r)
  /\ \A r \in steady : Matches(walk.query, r) /\ (r \in seen \/ After(walk.cursor, r))

ListInv ==
  /\ ListTypeOK
  /\ again = {}
  /\ walk.at = "start" => seen = {}
  /\ walk.at = "walking" => WalkInv
  /\ walk.at = "done" => steady \subseteq seen

LEMMA ListStart == ListInit => ListInv
BY ListAssumption DEF ListInit, ListInv, ListTypeOK, ListRow

\* A page moves the cursor over what it shows, and over nothing else.
LEMMA ShowKeeps ==
  ASSUME ListInv, NEW q \in Query, ValidQuery(q), NEW c \in Cursor \cup {Nothing}, Show(q, c),
         \A r \in seen : ~After(c, r), steady' \subseteq Listed,
         \A r \in steady' : Matches(q, r) /\ (r \in seen \/ After(c, r))
  PROVE  ListInv'
<1> DEFINE page == Page(q, c)
<1>1. ListTypeOK /\ again = {}
  BY DEF ListInv
<1>2. q.limit \in Nat \ {0}
  BY ListAssumption DEF ValidQuery
<1>3. page = Select(q, c, q.limit) /\ page \subseteq Listed /\ \A r \in page : After(c, r)
  BY DEF Page, Select
<1>4. /\ seen' = seen \cup page /\ again' = {} /\ UNCHANGED <<row, time, altered>>
      /\ walk' = [query |-> q, at |-> IF More(q, c) THEN "walking" ELSE "done",
                  cursor |-> IF More(q, c) THEN Encode(q, Last(page)) ELSE Nothing]
  BY <1>1, <1>3 DEF Show
<1>5. ListTypeOK'
  BY <1>1, <1>3, <1>4 DEF ListTypeOK
<1>6. \A r \in Listed : (Matches(q, r))' <=> Matches(q, r)
  BY <1>4 DEF Matches
<1> HIDE DEF page
<1>7. CASE ~More(q, c)
  <2>1. Found(q, c) \subseteq page
    BY <1>1, <1>2, <1>3, <1>7, LookaheadTells DEF More
  <2>2. steady' \subseteq seen'
    BY <1>4, <2>1 DEF Found
  <2> QED
    BY <1>4, <1>5, <1>7, <2>2 DEF ListInv
<1>8. CASE More(q, c)
  <2> DEFINE l == Last(page)
             d == Encode(q, l)
  <2>1. page # {}
    BY <1>1, <1>2, <1>3, <1>8, LookaheadTells DEF More
  <2>2. l \in page /\ \A s \in page \ {l} : Ahead(s, l)
    BY <1>1, <1>3, <2>1, LastOf
  <2>3. l \in Listed
    BY <1>3, <2>2
  <2>4. d \in Cursor /\ d.query = q /\ \A r \in Listed : After(d, r) <=> Ahead(l, r)
    BY <1>1, <2>3, CursorOrder
  <2>5. \A r \in Listed : After(c, l) /\ Ahead(l, r) => After(c, r)
    BY <1>1, <2>3, CursorOrder
  <2>6. walk'.at = "walking" /\ walk'.query = q /\ walk'.cursor = d
    BY <1>4, <1>8
  <2> HIDE DEF d, l
  <2>7. ASSUME NEW r \in seen' PROVE ~After(d, r)
    <3>1. r \in Listed
      BY <1>5 DEF ListTypeOK
    <3>2. CASE r \in seen
      BY <1>3, <2>2, <2>4, <2>5, <3>1, <3>2
    <3>3. CASE r \in page
      BY <1>1, <2>2, <2>3, <2>4, <3>1, <3>3, AheadOrder
    <3> QED
      BY <1>4, <3>2, <3>3
  <2>8. ASSUME NEW r \in steady', r \notin seen' PROVE After(d, r)
    <3>1. r \in Found(q, c) \ Select(q, c, q.limit)
      BY <1>3, <1>4, <2>8 DEF Found
    <3>2. Ahead(l, r)
      BY <1>1, <1>2, <1>3, <2>2, <3>1, PageIsAhead
    <3> QED
      BY <2>4, <3>1, <3>2 DEF Found
  <2>9. \A r : (After(walk.cursor, r))' <=> After(d, r)
    BY <1>4, <2>6 DEF After
  <2>10. \A r \in Listed : (Matches(walk.query, r))' <=> Matches(q, r)
    BY <1>4, <2>6 DEF Matches
  <2>11. (ValidQuery(walk.query))'
    BY <2>6 DEF ValidQuery
  <2>12. WalkInv'
    BY <2>4, <2>6, <2>7, <2>8, <2>9, <2>10, <2>11 DEF WalkInv
  <2> QED
    BY <1>4, <1>5, <2>6, <2>12 DEF ListInv
<1> QED
  BY <1>7, <1>8

\* A row may change as long as its Room is not younger than the one before it.
LEMMA AlterKeeps ==
  ASSUME ListInv, NEW r \in Listed, NEW new \in ListRow, Alter(r, new),
         row[r].born <= new.born, InList(r) => new.born = row[r].born
  PROVE  ListInv'
<1>1. ListTypeOK /\ again' = {} /\ UNCHANGED <<time, walk, seen, again>>
  BY DEF ListInv, Alter
<1>2. /\ row' \in [Listed -> ListRow] /\ row'[r] = new
      /\ \A s \in Listed \ {r} : row'[s] = row[s]
  BY <1>1 DEF Alter, ListTypeOK
<1>3. steady' \subseteq steady
  BY DEF Alter
<1>4. altered' \in 0 .. MaxAlter
  BY <1>1, ListAssumption DEF Alter, ListTypeOK
<1>5. ListTypeOK'
  BY <1>1, <1>2, <1>3, <1>4 DEF ListTypeOK
<1>6. ASSUME walk.at = "walking" PROVE WalkInv'
  <2>1. WalkInv
    BY <1>6 DEF ListInv
  <2>2. walk.cursor.born \in Nat /\ walk.cursor.room \in Nat /\ walk.cursor # Nothing
    BY <2>1, ListAssumption DEF WalkInv, Cursor
  <2>3. ASSUME NEW s \in Listed PROVE row[s].born \in Nat /\ row'[s].born \in Nat /\ row[s].born <= row'[s].born
    <3>1. row[s].born \in Nat
      BY <1>1, Births
    <3>2. new.born \in Nat
      <4>1. new.born \in 0 .. MaxBorn
        BY DEF ListRow
      <4> QED
        BY <4>1, ListAssumption
    <3> QED
      BY <1>2, <3>1, <3>2
  <2>4. ASSUME NEW s \in seen' PROVE ~(After(walk.cursor, s))'
    <3>1. s \in Listed /\ ~After(walk.cursor, s)
      BY <1>1, <2>1 DEF ListTypeOK, WalkInv
    <3> QED
      BY <1>1, <2>2, <2>3, <3>1 DEF After
  <2>5. ASSUME NEW s \in steady'
        PROVE  (Matches(walk.query, s) /\ (s \in seen \/ After(walk.cursor, s)))'
    <3>1. s \in Listed /\ Matches(walk.query, s) /\ (s \in seen \/ After(walk.cursor, s))
      BY <1>1, <1>3, <2>1 DEF ListTypeOK, WalkInv
    <3>2. CASE s # r
      BY <1>1, <1>2, <3>1, <3>2 DEF Matches, After
    <3>3. CASE s = r
      <4>1. new.state \in walk.query.states /\ ~(new.free < walk.query.free)
        BY <1>6, <3>3 DEF Alter
      <4>2. new.free \in Nat /\ walk.query.free \in Nat
        BY <2>1, ListAssumption DEF ListRow, WalkInv
      <4>3. InList(r)
        BY <2>1, <3>1, <3>3, ListAssumption DEF Matches, InList, WalkInv
      <4> QED
        BY <1>1, <1>2, <3>1, <3>3, <4>1, <4>2, <4>3 DEF Matches, After
    <3> QED
      BY <3>2, <3>3
  <2>6. (walk.query \in Query /\ ValidQuery(walk.query)
           /\ walk.cursor \in Cursor /\ walk.cursor.query = walk.query)'
    BY <1>1, <2>1 DEF WalkInv, ValidQuery
  <2> QED
    BY <2>4, <2>5, <2>6 DEF WalkInv
<1> QED
  BY <1>1, <1>3, <1>5, <1>6 DEF ListInv

LEMMA ListStep == ListInv /\ [ListNext]_listVars => ListInv'
<1> SUFFICES ASSUME ListInv, [ListNext]_listVars PROVE ListInv'
  OBVIOUS
<1>1. ListTypeOK
  BY DEF ListInv
<1>2. ASSUME NEW q \in Query, FirstPage(q) PROVE ListInv'
  <2>1. Nothing \in Cursor \cup {Nothing} /\ seen = {} /\ Show(q, Nothing) /\ ValidQuery(q)
    BY <1>2 DEF FirstPage, ListInv
  <2>2. steady' = {r \in Listed : Matches(q, r)}
    BY <1>2 DEF FirstPage
  <2>3. \A r : After(Nothing, r)
    BY DEF After
  <2> QED
    BY <2>1, <2>2, <2>3, ShowKeeps
<1>3. ASSUME NEW q \in Query, NextPage(q) PROVE ListInv'
  <2>1. WalkInv /\ Show(q, walk.cursor) /\ ValidQuery(q) /\ Accepted(walk.cursor, q) /\ steady' = steady
    BY <1>3 DEF NextPage, ListInv
  <2>2. walk.cursor \in Cursor /\ walk.cursor # Nothing
    BY <2>1, ListAssumption DEF WalkInv, Cursor
  <2>3. q = walk.query
    BY <2>1, <2>2 DEF Accepted, WalkInv
  <2>4. steady \subseteq Listed
    BY <1>1 DEF ListTypeOK
  <2> QED
    BY <2>1, <2>2, <2>3, <2>4, ShowKeeps DEF WalkInv
<1>4. ASSUME NEW r \in Listed, Publish(r) PROVE ListInv'
  <2>1. PICK b \in row[r].born .. time, s \in RoomState, f \in Free :
               Alter(r, [born |-> b, free |-> f, state |-> s])
    BY <1>4 DEF Publish
  <2> DEFINE new == [born |-> b, free |-> f, state |-> s]
  <2>2. b \in 0 .. MaxBorn /\ row[r].born <= b
    <3>1. time \in 0 .. MaxBorn /\ row[r].born \in Nat
      BY <1>1, Births DEF ListTypeOK
    <3> QED
      BY <2>1, <3>1, ListAssumption
  <2>3. new \in ListRow /\ new.born = b
    BY <2>2 DEF ListRow
  <2> QED
    BY <1>4, <2>1, <2>2, <2>3, AlterKeeps DEF Publish
<1>5. ASSUME NEW r \in Listed, Update(r) PROVE ListInv'
  <2>1. PICK s \in RoomState, f \in Free : Alter(r, [row[r] EXCEPT !.state = s, !.free = f])
    BY <1>5 DEF Update
  <2> DEFINE new == [row[r] EXCEPT !.state = s, !.free = f]
  <2>2. row[r] \in ListRow /\ row[r].born \in Nat
    BY <1>1, Births DEF ListTypeOK
  <2>3. new \in ListRow /\ new.born = row[r].born
    BY <2>2 DEF ListRow
  <2>4. Alter(r, new)
    BY <2>1
  <2> HIDE DEF new
  <2> QED
    BY <2>2, <2>3, <2>4, AlterKeeps
<1>6. ASSUME NEW r \in Listed, Remove(r) PROVE ListInv'
  <2> DEFINE new == [row[r] EXCEPT !.state = Nothing]
  <2>1. row[r] \in ListRow /\ row[r].born \in Nat
    BY <1>1, Births DEF ListTypeOK
  <2>2. new \in ListRow /\ new.born = row[r].born
    BY <2>1 DEF ListRow
  <2>3. Alter(r, new)
    BY <1>6 DEF Remove
  <2> HIDE DEF new
  <2> QED
    BY <2>1, <2>2, <2>3, AlterKeeps
<1>7. CASE TimePasses
  <2>1. ListTypeOK'
    BY <1>1, <1>7, ListAssumption DEF TimePasses, ListTypeOK
  <2>2. walk.at = "walking" => WalkInv'
    BY <1>7 DEF TimePasses, ListInv, WalkInv, After, Matches, ValidQuery
  <2> QED
    BY <1>7, <2>1, <2>2 DEF TimePasses, ListInv
<1>8. CASE UNCHANGED listVars
  <2>1. ListTypeOK'
    BY <1>1, <1>8 DEF listVars, ListTypeOK
  <2>2. walk.at = "walking" => WalkInv'
    BY <1>8 DEF listVars, ListInv, WalkInv, After, Matches, ValidQuery
  <2> QED
    BY <1>8, <2>1, <2>2 DEF listVars, ListInv
<1> QED
  BY <1>2, <1>3, <1>4, <1>5, <1>6, <1>7, <1>8 DEF ListNext

\* A walk through the pages shows each room that matches all the time once, and
\* none twice, for any list, query, page size and changes in between
\* (listCustomRooms(), queryCustomRoomIndex(), encodeCursor()).
THEOREM PagesShowOnce == ListSpec => []ShownExactlyOnce
<1>1. ListInv => ShownExactlyOnce
  BY DEF ListInv, ShownExactlyOnce
<1> QED
  BY ListStart, ListStep, <1>1, PTL DEF ListSpec
=============================================================================
