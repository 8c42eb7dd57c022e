CONSTANTS
  PcSpan = 6
  ICACHE_ENTRIES = 2
  None = None
  Word <- MCWord
  Programs <- MCPrograms
SPECIFICATION FetchSpec
INVARIANTS
  FetchTypeOK
  QueueHasRoom
  CacheCoherent
