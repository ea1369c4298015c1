----------------------------- MODULE MC_ToolLoop -----------------------------
(* A small instance of ToolLoop: a tool of each kind, a service, a tenant with *)
(* a permission that is not the one asked for, one that has it, and one with   *)
(* none.                                                                       *)
EXTENDS ToolLoop

Identities ==
    {[internal |-> TRUE, perms |-> {}]}
    \cup [internal : {FALSE}, perms : {{}, {"other"}, {"shielva:internal"}}]
==============================================================================
