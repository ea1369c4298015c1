----------------------------- MODULE MC_Session -----------------------------
(***************************************************************************)
(* Small instances of McpSession: what clients POST in the model.          *)
(***************************************************************************)
EXTENDS McpSession, TLC

Single(m) == [batch |-> FALSE, items |-> <<m>>]
Batch(items) == [batch |-> TRUE, items |-> items]

\* Every single message, and batches that open a session, use one that turns
\* out stale, and open another after that.
MCPosts ==
  {Single(m) : m \in Method}
    \cup {Batch(<<"initialize", "initialized", "call">>),
          Batch(<<"call", "initialize", "setLevel">>)}

\* Tenants, ids and request slots are interchangeable, in Spec and in every
\* property the symmetric runs check.
Symmetry ==
  Permutations(Tenant) \cup Permutations(SessionId) \cup Permutations(Request)
=============================================================================
