SPECIFICATION Spec
CONSTANTS
  Threads = {t1}
  Agents = {a1, a2}
  Fickle = {a1}
  TTL = 1
  Newest = 2
  Minimum = 1
  Started = {1, 2}
  MaxChanges = 1
INVARIANTS UnreachableAreLeftOut
