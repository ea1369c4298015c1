SPECIFICATION Spec
CONSTANTS
  Builtin = {rag_query}
  Product = {create_bot}
  InternalOnly = {validate_python}
  Codegen = {validate_python}
  Connector = mail
  Nobody = nobody
  Callers <- Identities
  MaxIterations = 2
  MaxCalls = 2
  MaxFragments = 2
INVARIANTS TypeOK PermittedOnly CallsAnswered IndexedCallsComeWhole
