--------------------------- MODULE MC_Connectors ---------------------------
(***************************************************************************)
(* Small instances of ConnectorTools: twins, each of which comes and goes   *)
(* by itself, and a caller that may pass a blank connector.                *)
(***************************************************************************)
EXTENDS ConnectorTools, TLC

CONSTANT sales

Sales == [name |-> sales, suffixed |-> FALSE]
SalesTwin == [name |-> sales, suffixed |-> TRUE]

MCType == {Sales, SalesTwin}
MCNamed == {Sales, None}

Symmetry == Permutations(Caller)
=============================================================================
