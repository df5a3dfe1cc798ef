CONSTANTS
  a = a
  b = b
  qa = qa
  qb = qb
  w = w
  NoRequest = NoRequest
  Requests <- MCRequests
  Queries <- MCQueries
  Words <- MCWords
  Plan <- DisjointPlans
  WordsOf <- MCWordsOf
  Sent <- OnePerSide
  Weak <- MCWeak
  Batches <- NoBatch
  Persisted <- MCPersisted
  EncoderMayFail = TRUE
  StoreMayFail = TRUE
SPECIFICATION FairSpec
PROPERTIES
  PipeAlwaysReturns
