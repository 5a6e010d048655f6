------------------------ MODULE ClientCallsProperties ------------------------
(***************************************************************************)
(* What a caller of the client may rely on, whichever of the answer, the   *)
(* timeout, the AbortSignal and dispose() comes first.                     *)
(***************************************************************************)
EXTENDS ClientCalls

\* The shape of the calls and of the connections.
CallsTypeOK ==
  /\ disposed \in BOOLEAN
  /\ timed \subseteq Calls
  /\ call \in [Calls -> [aborted : BOOLEAN,
                         at : {"none", "token", "fetch", "body", "opening", "sent"},
                         end : {"none", "TIMEOUT", "UNAUTHENTICATED"} \cup BodyEnds \cup LinkErrors,
                         state : {"idle", "pending", "settled"}]]
  /\ link \in [Sockets -> {"none", "opening", "open", "ended"}]
  /\ held \subseteq Sockets

\* Whatever is on the network is wanted and whoever waits waits for something: a
\* fetch and a connection being opened belong to a caller that still waits and
\* has not aborted, an open connection to one that was given it, and the client
\* holds these connections and no other; a command waits over an open connection
\* only; and after dispose() only calls without timeout wait, connections for
\* their token and requests for their answer.
TrafficIsWanted ==
  /\ \A r \in Requests : call[r].at \in {"fetch", "body"} => Pending(r) /\ ~call[r].aborted
  /\ \A s \in Sockets :
       /\ s \in held <=> link[s] \in {"opening", "open"}
       /\ link[s] = "opening" => call[s].at = "opening" /\ Pending(s) /\ ~call[s].aborted
       /\ link[s] = "open" => call[s].end = "ok" /\ ~Pending(s)
  /\ \A k \in Commands : Pending(k) => link[Via[k]] = "open"
  /\ disposed =>
       /\ held = {}
       /\ \A c \in Calls : Pending(c) => c \notin timed /\ (c \in Requests \/ Token(c))
=============================================================================
