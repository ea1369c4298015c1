\* Two overlapping callers, fetches of up to one tick, six ticks.
SPECIFICATION Spec
CONSTANTS
  Caller = {c1, c2}
  Version = {fallback, yes, refused}
  Fallback = fallback
  Refusal = refused
  Ttl = 2
  MaxLatency = 1
  MaxTime = 5
  None = None
INVARIANTS TypeOK HitsAreRecent KnownBeforeSaid BlipKeepsCatalogue
SYMMETRY Symmetry
