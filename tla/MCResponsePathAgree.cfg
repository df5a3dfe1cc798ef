SPECIFICATION MCSpec
CONSTANTS
  Explicit = {}
  Batch = {}
  Interactive = {i}
  Bare = {}
  Weak = {}
  Settle = 1
  Forget = 4
  TTL = 6
  MaxEntries = 2
  MaxTime = 7
  None = None
  Boundaries = {"."}
  Noise = {"-", "."}
  Digits = {"1"}
  KanjiDigits = {"I"}
  Hiragana = {"a", "b", "g"}
  Katakana = {"A"}
  Kanji = {"K", "L", "M", "N"}
  KanjiNumber <- MCKanjiNumber
  Abbreviations <- MCAbbreviations
  NaturalKana <- MCNaturalKana
  Endings <- MCEndings
  ContextRules <- MCContextRules
  Lexicon <- MCLexicon
  Affixes <- MCAffixes
  RuriAffixes <- MCAffixes
  RightContextCompounds <- MCRightContextCompounds
  LexiconRules <- MCLexiconRules
  RankerRules <- MCRankerRules
  MAX_CANDIDATES = 4
  MAX_SEGMENTS = 2
  MAX_CANDIDATES_PER_SEGMENT = 3
  MAX_ID = 8
  MAX_SEGMENT_ID = 8
  MAX_READ = 8
  MAX_TEXT = 8
  MAX_CANDIDATE_TEXT = 8
  Unsafe = {}
  Unescapable = {}
  CandidateNames <- MCCandidateNames
  SegmentNames <- MCSegmentNames
  Segmented <- MCSegmented
  Backends <- MCBackends
  Opinions <- MCOpinions
  Lift = 20
  HardTerminators = {"."}
  Commas = {","}
  Blanks = {" "}
  LongText = 4
  SafeTail = 3
  VagueChars = {"g", ",", "."}
  SmallKana = {}
  ParticleRules <- MCParticleRules
  TopicRules <- MCTopicRules
  context_chars = 5
  lexical_grounding = TRUE
  MaxTrailing = 1
  Chars = {"x", ",", ".", " "}
  MaxTyped = 5
  MaxConverted = 2
  Batches <- MCBatches
  Similarities = {0, 40}
  Pids = {"p", "q"}
  Rankers <- MCRankers
  Startings <- MCStartings
  Part = {"ranking"}
INVARIANT BothEndsAgree
