------------------------------ MODULE MC_Query ------------------------------
(***************************************************************************)
(* Small instances of QueryTurn.                                           *)
(***************************************************************************)
EXTENDS QueryTurn

CONSTANTS gemini, claude, own, botModel, botAtTenant, botAtPlatform, botElsewhere

\* The default model heads its own chain in settings, so a default run skips it.
MCFallbacks == <<gemini, claude>>
=============================================================================
