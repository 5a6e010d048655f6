------------------------------ MODULE ClientCalls ------------------------------
(***************************************************************************)
(* The transport of the client SDK (FlareLobbyClientImpl): HTTP requests,  *)
(* WebSocket connections and the commands sent over them, each raced by a  *)
(* timeout, by the AbortSignal of its caller and by dispose().             *)
(*                                                                         *)
(* A call is the promise its caller holds (state, end) and the             *)
(* asynchronous function behind it (at), which may outlive the promise: a  *)
(* call under a timeout settles while getAccessToken() is still awaited.   *)
(* A name of Calls stands for one call at a time.                          *)
(***************************************************************************)

CONSTANTS
  Requests,  \* request()
  Sockets,   \* connect(), connectWithToken(), connectEventStream()
  Commands,  \* send()
  Via        \* the connection of a command

Calls == Requests \cup Sockets \cup Commands

ASSUME ClientCallsAssumption ==
  /\ Requests \cap Sockets = {} /\ Requests \cap Commands = {} /\ Sockets \cap Commands = {}
  /\ Via \in [Commands -> Sockets]

VARIABLES
  disposed,  \* disposedState, and the signal of disposeController
  timed,     \* the calls that have a timeout
  call,      \* per call: what its promise says, and where its function is
  link,      \* per connection: "none", "opening", "open", "ended"
  held       \* connections and eventStreamConnections

callVars == <<disposed, timed, call, link, held>>

Idle == [aborted |-> FALSE, at |-> "none", end |-> "none", state |-> "idle"]

CallsInit ==
  /\ disposed = FALSE
  /\ timed \in SUBSET Calls
  /\ call = [c \in Calls |-> Idle]
  /\ link = [s \in Sockets |-> "none"]
  /\ held = {}

Pending(c) == call[c].state = "pending"

\* normalizeTimeoutOption(), resolveTimeoutMs()
HasTimeout(c) == c \in timed

\* resolve() or reject() of the promise.  A fetch is aborted with it; a function
\* that awaits the token goes on.
Settled(c, e) ==
  [call[c] EXCEPT !.state = "settled", !.end = e,
                  !.at = IF @ = "token" THEN "token" ELSE "none"]
Settle(c, e) == call' = [call EXCEPT ![c] = Settled(c, e)]

\* terminate(): the connections of S are closed and forgotten, and the commands
\* that await an answer over them fail; the calls of C settle as well.
Cut(S, k) == k \in Commands /\ Via[k] \in S /\ Pending(k)
Close(S, C, e) ==
  /\ link' = [s \in Sockets |-> IF s \in S /\ link[s] # "none" THEN "ended" ELSE link[s]]
  /\ held' = held \ S
  /\ call' = [c \in Calls |-> IF c \in C \/ Cut(S, c) THEN Settled(c, e) ELSE call[c]]
-----------------------------------------------------------------------------
(* A call begins *)

\* assertActive(); a name is free when the function behind its last call is done.
Unused(c) == ~disposed /\ ~Pending(c) /\ call[c].at = "none"
Begun(at) == [Idle EXCEPT !.state = "pending", !.at = at]

\* The function awaits getAccessToken().
Begin(c) ==
  /\ c \in Requests \cup Sockets
  /\ Unused(c)
  /\ c \in Sockets => link[c] \in {"none", "ended"}
  /\ call' = [call EXCEPT ![c] = Begun("token")]
  /\ UNCHANGED <<disposed, timed, link, held>>

\* The socket is created and registered, and the function awaits its opening.
Dialled(s, record) ==
  /\ call' = [call EXCEPT ![s] = record]
  /\ link' = [link EXCEPT ![s] = "opening"]
  /\ held' = held \cup {s}
  /\ UNCHANGED <<disposed, timed>>

\* connectWithToken() is given the token of a resumption.
Resume(s) ==
  /\ Unused(s)
  /\ link[s] \in {"none", "ended"}
  /\ Dialled(s, Begun("opening"))

\* send(): a connection that is not open refuses at once.
SendCommand(k) ==
  /\ Unused(k)
  /\ link[Via[k]] = "open"
  /\ call' = [call EXCEPT ![k] = Begun("sent")]
  /\ UNCHANGED <<disposed, timed, link, held>>
-----------------------------------------------------------------------------
(* getAccessToken() answers *)

Token(c) == call[c].at = "token"
Leaves(c, record) ==
  /\ call' = [call EXCEPT ![c] = [record EXCEPT !.at = "none"]]
  /\ UNCHANGED <<disposed, timed, link, held>>

\* The promise has settled meanwhile: nothing is sent.
TokenTooLate(c) == Token(c) /\ ~Pending(c) /\ Leaves(c, call[c])

\* There is no token, or no socket can be created.
TokenFails(c, e) == Token(c) /\ Pending(c) /\ Leaves(c, Settled(c, e))

Heedless(c) == ~HasTimeout(c) /\ call[c].aborted    \* mutant: no assertActive() after the token

\* A call without timeout looks only now whether it was given up, and a request
\* does not look whether the client has been disposed of.
GivenUp(c) == ~HasTimeout(c) /\ (call[c].aborted \/ (c \in Sockets /\ disposed))
GivesUp(c) == Token(c) /\ Pending(c) /\ GivenUp(c) /\ Leaves(c, Settled(c, "CANCELLED"))

Fetch(r) ==
  /\ Token(r) /\ Pending(r) /\ ~GivenUp(r)
  /\ call' = [call EXCEPT ![r].at = "fetch"]
  /\ UNCHANGED <<disposed, timed, link, held>>

Dial(s) ==
  /\ Token(s) /\ Pending(s) /\ ~GivenUp(s)
  /\ Dialled(s, [call[s] EXCEPT !.at = "opening"])
-----------------------------------------------------------------------------
(* The network answers *)

\* The status of the response; its body is still to be read.
Headers(r) ==
  /\ call[r].at = "fetch"
  /\ call' = [call EXCEPT ![r].at = "body"]
  /\ UNCHANGED <<disposed, timed, link, held>>

\* The body, an error it holds, the error of the status, or no JSON.
BodyRead(r, e) ==
  /\ call[r].at = "body"
  /\ Settle(r, e)
  /\ UNCHANGED <<disposed, timed, link, held>>

FetchFails(r) ==
  /\ call[r].at \in {"fetch", "body"}
  /\ Settle(r, "CONNECTION_FAILED")
  /\ UNCHANGED <<disposed, timed, link, held>>

Opens(s) ==
  /\ call[s].at = "opening"
  /\ link' = [link EXCEPT ![s] = "open"]
  /\ Settle(s, "ok")
  /\ UNCHANGED <<disposed, timed, held>>

\* The connection ends before it opens, or later: its owner or the server closes
\* it, the network fails, or a message is none of the protocol or refuses all.
OpenFails(s, e) ==
  /\ call[s].at = "opening"
  /\ Close({s}, {s}, e)
  /\ UNCHANGED <<disposed, timed>>

LinkEnds(s, e) ==
  /\ link[s] = "open"
  /\ Close({s}, {}, e)
  /\ UNCHANGED <<disposed, timed>>

\* handleServerMessage(): an answer that nobody awaits any more is dropped.
Answered(k, e) ==
  /\ Pending(k)
  /\ Settle(k, e)
  /\ UNCHANGED <<disposed, timed, link, held>>
-----------------------------------------------------------------------------
(* What may overtake the answer *)

\* onTimeout(), timeoutListener: the connection of a command stays.
TimesOut(c) ==
  /\ Pending(c)
  /\ HasTimeout(c)
  /\ Close({c}, {c}, "TIMEOUT")
  /\ UNCHANGED <<disposed, timed>>

\* Without timeout, nothing listens to the signal while the token is read, and
\* the reader of a body takes the abortion for a broken connection.
Deaf(c) == ~HasTimeout(c) /\ Token(c)
AbortError(c) ==
  IF ~HasTimeout(c) /\ call[c].at = "body" THEN "CONNECTION_FAILED" ELSE "CANCELLED"

Abort(c) ==
  /\ Pending(c)
  /\ ~call[c].aborted
  /\ call' = [call EXCEPT ![c] =
       [(IF Deaf(c) THEN call[c] ELSE Settled(c, AbortError(c))) EXCEPT !.aborted = TRUE]]
  /\ IF c \in Sockets /\ ~Deaf(c)
       THEN /\ link' = [link EXCEPT ![c] = IF @ = "opening" THEN "ended" ELSE @]
            /\ held' = held \ {c}
       ELSE UNCHANGED <<link, held>>
  /\ UNCHANGED <<disposed, timed>>

\* dispose(): its signal reaches the calls under a timeout, and every connection
\* is closed, which ends what awaits it.
Dispose ==
  /\ ~disposed
  /\ disposed' = TRUE
  /\ Close(Sockets,
           {c \in Requests \cup Sockets : Pending(c) /\ (HasTimeout(c) \/ call[c].at = "opening")},
           "CANCELLED")
  /\ UNCHANGED timed
-----------------------------------------------------------------------------
\* What a caller is told of a response, and of a connection that ends.
BodyEnds == {"ok", "REFUSED", "INVALID_MESSAGE"}
OpenErrors == {"CONNECTION_FAILED", "REFUSED"}
LinkErrors == OpenErrors \cup {"INVALID_MESSAGE", "CANCELLED"}

CallsNext ==
  \/ \E c \in Requests \cup Sockets :
       \/ Begin(c) \/ TokenTooLate(c) \/ GivesUp(c)
       \/ TokenFails(c, "UNAUTHENTICATED")
  \/ \E r \in Requests :
       \/ Fetch(r) \/ Headers(r) \/ FetchFails(r)
       \/ \E e \in BodyEnds : BodyRead(r, e)
  \/ \E s \in Sockets :
       \/ Resume(s) \/ Dial(s) \/ TokenFails(s, "CONNECTION_FAILED") \/ Opens(s)
       \/ \E e \in OpenErrors : OpenFails(s, e)
       \/ \E e \in LinkErrors : LinkEnds(s, e)
  \/ \E k \in Commands :
       \/ SendCommand(k)
       \/ \E e \in {"ok", "REFUSED"} : Answered(k, e)
  \/ \E c \in Calls : TimesOut(c) \/ Abort(c)
  \/ Dispose

CallsSpec == CallsInit /\ [][CallsNext]_callVars
=============================================================================
