\* Two overlapping callers, each a turn, a client or a capability being set.
SPECIFICATION Spec
CONSTANTS
  sales = sales
  Caller = {c1, c2}
  Name = {sales}
  Type <- MCType
  Declaring <- MCType
  SwitchedOn <- MCType
  Named <- MCNamed
  None = None
INVARIANTS TypeOK RunsOnlyInstalled OnlyTwinsStandIn RefusedForAReason InertIsKnown
SYMMETRY Symmetry
