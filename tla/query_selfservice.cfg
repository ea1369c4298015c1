\* The resolver answers every lookup; the bot may pin a model.
SPECIFICATION Spec
CONSTANTS
  gemini = gemini
  claude = claude
  own = own
  botModel = botModel
  botAtTenant = botAtTenant
  botAtPlatform = botAtPlatform
  botElsewhere = botElsewhere
  DefaultModel = gemini
  Fallbacks <- MCFallbacks
  TenantModel = own
  PinnedBare = botModel
  PinnedAtTenant = botAtTenant
  PinnedAtPlatform = botAtPlatform
  PinnedQualified = botElsewhere
  ResolverFails = FALSE
  MaxIterations = 2
  MaxCalls = 2
  MaxDeltas = 2
  None = None
INVARIANTS SelfServiceNeverOnOurKey
