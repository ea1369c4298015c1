SPECIFICATION Spec
CONSTANTS
  Calls = {c1, c2}
  o = o
  w = w
  w2 = w2
  k1 = k1
  k2 = k2
  kbGroup = kbGroup
  otherAgent = otherAgent
  Agent = agent
  KbIds <- Kbs
  GroupIds <- Groups
  Agents <- Bots
  Tenants = {o, w, w2}
  Owners = {o}
  RowDocs <- Docs
  Layouts <- Start
  NoRow = NoRow
  NoBot = NoBot
  Unlinked = Unlinked
  Ttl = 1
  Slack = 1
  MaxCalls = 3
  MaxEdits = 2
  MaxClock = 2
INVARIANTS
  TypeOK
  OnlyOwnOrLinked
  GrantedLately
  MockHasACause
SYMMETRY Symmetry
CHECK_DEADLOCK FALSE
