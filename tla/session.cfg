\* Two requests of two tenants over two sessions, any overlap, crashes, expiry.
SPECIFICATION Spec
CONSTANTS
  Tenant = {t1, t2}
  SessionId = {s1, s2}
  Request = {r1, r2}
  LogLevel = {info}
  DefaultLevel = info
  Ttl = 1
  Serial = FALSE
  None = None
  Posts <- MCPosts
INVARIANTS TypeOK HandshakeBeforeWork TenantIsolation QuietCloseIsFinal
PROPERTIES ReadyNeverRegresses
SYMMETRY Symmetry
