SPECIFICATION Spec
CONSTANTS
  KbIds <- Bases
  Docs <- Chunks
  Content <- Texts
  Size <- Sizes
  Stored <- Holdings
  TopK = 2
  MaxChunkChars = 2
  MaxKnowledgeChars = 3
  MaxHistoryBackstop = 3
  Contexts <- Conversations
  Unit <- Fractions
  MaxMatch = 2
  MaxEdits = 1
INVARIANTS TypeOK SaysWhatItKnows BestTold
CHECK_DEADLOCK FALSE
