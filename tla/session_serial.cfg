\* Serial clients: the refinement of the atomic lifecycle, and reclamation.
SPECIFICATION FairSpec
CONSTANTS
  Tenant = {t1}
  SessionId = {s1, s2}
  Request = {r1, r2}
  LogLevel = {info, debug}
  DefaultLevel = info
  Ttl = 1
  Serial = TRUE
  None = None
  Posts <- MCPosts
PROPERTIES LivesOneLife IdleSessionsReclaimed
