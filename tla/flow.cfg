\* Two overlapping tool callers and a person who edits once; answers may be lost or unreadable.
SPECIFICATION FlowSpec
CONSTANTS
  Caller = {c1, c2}
  NodeId = {n1, n2}
  Place = {here, there}
  Draft <- MCDraft
  Expected = {0, 1, None}
  Garbled = TRUE
  MaxRedraws = 1
  None = None
INVARIANTS FlowTypeOK AddsBringNoFlaw
SYMMETRY Symmetry
