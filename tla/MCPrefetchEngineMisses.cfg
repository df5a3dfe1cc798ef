CONSTANTS
  a = a
  b = b
  qa = qa
  qb = qb
  w = w
  NoRequest = NoRequest
  Requests <- MCRequests
  Queries <- MCQueries
  Words <- MCWords
  Plan <- OverlappingPlans
  WordsOf <- MCWordsOf
  Sent <- ContextOnly
  Weak <- MCWeak
  Batches <- NoBatch
  Persisted <- MCPersisted
  EncoderMayFail = FALSE
  StoreMayFail = FALSE
SPECIFICATION Spec
PROPERTIES
  MissesAreCompleted
