SPECIFICATION FairSpec
CONSTANTS
  Threads = {t1, t2}
  Newest = 3
  MaxMishaps = 2
INVARIANTS
  TypeOK
  ChainMatches
PROPERTIES
  WrongOnlyByRace
  HealedByPings
