---------------------------- MODULE MC_Retrieval ----------------------------
(* A small instance of Retrieval: two bases, four chunks, two of which say   *)
(* the same, one of them longer than a chunk may be; and two conversations   *)
(* with a summary, one of which is longer than the backstop.  The bases hold *)
(* all chunks at first, or only one: a chunk added between the two searches  *)
(* is then found by keyword alone, and scores less than 30 % of the best.    *)
EXTENDS Retrieval

Bases == <<"kb1", "kb2">>
Chunks == {"a", "b", "c", "d"}
Texts == [a |-> "x", b |-> "y", c |-> "x", d |-> "z"]
Sizes == [a |-> 1, b |-> 3, c |-> 1, d |-> 1]
Holdings == {[kb1 |-> {"a", "b"}, kb2 |-> {"c", "d"}], [kb1 |-> {"a"}, kb2 |-> {}]}

Short == <<Message("user", "1"), Message("tool", "2"), Message("assistant", "3"), Message("user", "")>>
Long == <<Message("user", "1"), Message("assistant", "2"), Message("user", "3"), Message("assistant", "4")>>
Conversations == {[summary |-> TRUE, messages |-> m] : m \in {Short, Long}}
Fractions == 61 * 62 * 63 * 64
=============================================================================
