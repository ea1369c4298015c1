\* One fallback beyond the default, two completions per loop, streams of two deltas.
SPECIFICATION FairSpec
CONSTANTS
  gemini = gemini
  claude = claude
  own = own
  botModel = botModel
  botAtTenant = botAtTenant
  botAtPlatform = botAtPlatform
  botElsewhere = botElsewhere
  DefaultModel = gemini
  Fallbacks <- MCFallbacks
  TenantModel = own
  PinnedBare = botModel
  PinnedAtTenant = botAtTenant
  PinnedAtPlatform = botAtPlatform
  PinnedQualified = botElsewhere
  ResolverFails = TRUE
  MaxIterations = 2
  MaxCalls = 2
  MaxDeltas = 2
  None = None
INVARIANTS TypeOK OneVoice StreamTellsOneStory AnswerTellsItsCost KeyKeepsItsRoute
PROPERTIES TurnEnds
