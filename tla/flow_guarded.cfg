\* A caller that always passes the count it expects, and a person who edits once.
SPECIFICATION FlowSpec
CONSTANTS
  Caller = {c1}
  NodeId = {n1, n2}
  Place = {here, there}
  Draft <- MCDraft
  Expected = {0, 1, 2}
  Garbled = FALSE
  MaxRedraws = 1
  None = None
PROPERTIES AddsOnlyAdd
