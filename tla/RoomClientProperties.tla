------------------------- MODULE RoomClientProperties -------------------------
(***************************************************************************)
(* What an application may rely on that holds a Room handle.               *)
(***************************************************************************)
EXTENDS RoomClient

Message ==
  [kind : {"snapshot"}, revision : Nat, handshake : BOOLEAN]
    \cup [kind : {"answer"}, command : Command, revision : Nat]
    \cup [kind : {"failure"}, command : Command]

\* Type invariant.
TypeOK ==
  /\ {revision, changes, drops, shown, attempts, leaving} \subseteq Nat
  /\ {valid, noticed, timer, token} \subseteq BOOLEAN
  /\ stored \in [Command -> Nat]
  /\ socket \in {"closed", "connecting", "accepted", "open"}
  /\ wire \in Seq(Message)
  /\ {inbound, stray, owed} \subseteq SUBSET Sending
  /\ status \in {"connected", "reconnecting", "disconnected"}
  /\ entry \in [Command -> 0 .. MaxSends]
  /\ promise \in [Sending -> {"unused", "waiting", "resolved", "rejected"}]

\* A client that has handled everything the Room sent it shows the Room as it is,
\* whichever connections, replays, snapshots and answers it went through.
QuietIsCurrent == socket = "open" /\ wire = << >> => shown = revision

\* An open handle shows the Room's revisions one after the other: it never goes back
\* and never skips one, so a listener of snapshots sees every change in its order
\* (ADR-0002: only the next revision is applied).  leave() ends with the last one it got.
OneByOne ==
  [][\/ shown' = shown
     \/ shown' = shown + 1
     \/ shown' > shown /\ status' = "disconnected"]_vars

\* No call of an operation waits for ever: it is answered, or fails with the connection.
CommandsSettle == \A s \in Sending : promise[s] = "waiting" ~> promise[s] # "waiting"

\* When the Room and the network come to rest, the handle stays connected and shows the
\* Room's last revision, or has given up (ADR-0002: a client the history cannot serve
\* falls back to the full snapshot).
CatchesUp == <>[](status = "disconnected" \/ (status = "connected" /\ shown = revision))
=============================================================================
