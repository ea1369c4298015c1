-------------------------- MODULE McpSessionSerial --------------------------
(***************************************************************************)
(* A client that waits for each answer before it reuses a session id sees  *)
(* atomic operations: with Serial = TRUE the GET/SET coroutines of         *)
(* McpSession implement SessionLifecycle.                                  *)
(***************************************************************************)
EXTENDS McpSession

\* The record a session will have once the request holding it has saved it: a
\* key may expire between a GET and the SET that brings it back.
Holder(s) == CHOOSE r \in Request : HoldsCopy(r, s)
Record(s) ==
  IF store[s] = None /\ \E r \in Request : HoldsCopy(r, s)
  THEN req[Holder(s)].snap ELSE store[s]

LifeOf(s) ==
  IF owner[s] = None THEN "unborn"
  ELSE IF Record(s) = None THEN "closed" ELSE Record(s).state
LevelOf(s) == IF Record(s) = None THEN None ELSE Record(s).log_level

Abstract == INSTANCE SessionLifecycle WITH
  life <- [s \in SessionId |-> LifeOf(s)],
  level <- [s \in SessionId |-> LevelOf(s)],
  NoLevel <- None

\* Served serially, a session lives one life: no save brings it back once it
\* has ended, and the level in force is the one last set.
LivesOneLife == Abstract!Spec
=============================================================================
