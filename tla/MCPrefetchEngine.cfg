CONSTANTS
  a = a
  b = b
  qa = qa
  qb = qb
  w = w
  NoRequest = NoRequest
  Requests <- MCRequests
  Queries <- MCQueries
  Words <- MCWords
  Plan <- OverlappingPlans
  WordsOf <- MCWordsOf
  Sent <- MCSent
  Weak <- MCWeak
  Batches <- OneBatch
  Persisted <- MCPersisted
  EncoderMayFail = TRUE
  StoreMayFail = FALSE
SPECIFICATION Spec
INVARIANTS
  TypeOK
  VectorsExact
  ContextsCoalesced
  ScoringFindsCandidates
PROPERTIES
  NewestNeverDropped
  GivesUpOnlyWhenDisturbed
