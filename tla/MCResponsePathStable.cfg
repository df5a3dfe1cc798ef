SPECIFICATION Spec
CONSTANTS
  Explicit = {}
  Batch = {}
  Interactive = {i}
  Bare = {}
  Weak = {}
  Settle = 1
  Forget = 4
  TTL = 6
  MaxEntries = 256
  MaxTime = 14
  None = None
PROPERTY
  StableIsRanked
