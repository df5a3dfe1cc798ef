CONSTANTS
  Requests = {r1, r2, p1}
  Probes = {p1}
  Twice = {r1}
  Parts <- MCParts
  AnswerParts <- MCParts
  NoRequest = NoRequest
  Callers = {c1}
  settle_seconds = 1
  cache_ttl_seconds = 2
  cache_size = 1
  MaxTime = 4
  Nobody = Nobody
  MaxConversions = 3
  Conversions <- MCConversions
  context_enabled = TRUE
  context_chars = 1
  Enabled = TRUE
  Screen <- MCScreen
  Pill <- MCPill
  Points <- MCPoints
SPECIFICATION MCSpec
INVARIANTS
  TypeOK
  AnsweredIsCounted
  AnswersFresh
  NoSameCall
  PillOnlyWhileRanking
PROPERTIES
  ServiceKept
  PeerGoes
  ConversionEnds
