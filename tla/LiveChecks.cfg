SPECIFICATION FairSpec
CONSTANTS
  Tasks = {t1, t2}
  Checks = {c1}
  KeptOfFile = 2
  Kept = 3
  Grain = 2
  MaxSeq = 4
  MaxDrops = 1
INVARIANTS
  DuplicateFree
  OnlyLateMissed
PROPERTIES
  NeverOlder
  EventuallyCurrent
