-------------------------- MODULE MC_SessionSerial --------------------------
(***************************************************************************)
(* A small instance of McpSessionSerial.                                   *)
(***************************************************************************)
EXTENDS McpSessionSerial

Single(m) == [batch |-> FALSE, items |-> <<m>>]
Batch(items) == [batch |-> TRUE, items |-> items]

MCPosts ==
  {Single(m) : m \in Method \ {"notice"}}
    \cup {Batch(<<"initialize", "initialized", "setLevel">>)}
=============================================================================
