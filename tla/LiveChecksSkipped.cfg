SPECIFICATION Spec
CONSTANTS
  Tasks = {t1, t2}
  Checks = {c1}
  KeptOfFile = 4
  Kept = 4
  Grain = 1
  MaxSeq = 2
  MaxDrops = 0
INVARIANT
  NoEventSkipped
