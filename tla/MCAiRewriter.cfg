CONSTANTS
  SupplementalSurfaceSpecs <- Specs
  kMaxAiCandidateSurfaceLimit = 3
  kNormalCandidateSurfaceLimit = 2
  kMinInternalPhraseContextChars = 2
  Conversions <- MCConversions
  UserHistory <- MCUserHistory
  Contexts <- MCContexts
  kMaxSegments = 2
  kMaxCandidatesPerSegment = 3
  Unescapable = {}
  MaxCalls = 4
  MaxPrefetches = 1
SPECIFICATION Spec
INVARIANTS
  TypeOK
  RetrySeesWinners
  RememberedWasTakenIn
  NoNewTexts
PROPERTIES
  PromotedAsShown
CHECK_DEADLOCK FALSE
