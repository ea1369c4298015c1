-------------------------- MODULE SessionLifecycle --------------------------
(***************************************************************************)
(* What an MCP client is promised about a session, with every operation a  *)
(* single step: an id is minted once, opens INITIALIZING, becomes READY by *)
(* the handshake, carries the log level last set, and ends for good, by    *)
(* DELETE or by expiry.                                                    *)
(***************************************************************************)
CONSTANTS SessionId, LogLevel, DefaultLevel, NoLevel

VARIABLES
  life,    \* where each id is in its life
  level    \* the log level in force, NoLevel outside a session's life

svars == <<life, level>>

Live == {"initializing", "ready"}

Init ==
  /\ life = [s \in SessionId |-> "unborn"]
  /\ level = [s \in SessionId |-> NoLevel]

Open(s) ==
  /\ life[s] = "unborn"
  /\ life' = [life EXCEPT ![s] = "initializing"]
  /\ level' = [level EXCEPT ![s] = DefaultLevel]

Handshake(s) ==
  /\ life[s] = "initializing"
  /\ life' = [life EXCEPT ![s] = "ready"]
  /\ UNCHANGED level

SetLevel(s, l) ==
  /\ life[s] = "ready"
  /\ level' = [level EXCEPT ![s] = l]
  /\ UNCHANGED life

\* Several records may expire in the same instant.
End(ids) ==
  /\ \A s \in ids : life[s] \in Live
  /\ life' = [s \in SessionId |-> IF s \in ids THEN "closed" ELSE life[s]]
  /\ level' = [s \in SessionId |-> IF s \in ids THEN NoLevel ELSE level[s]]

Next ==
  \/ \E s \in SessionId :
       Open(s) \/ Handshake(s) \/ \E l \in LogLevel : SetLevel(s, l)
  \/ \E ids \in SUBSET SessionId : End(ids)

Spec == Init /\ [][Next]_svars
=============================================================================
