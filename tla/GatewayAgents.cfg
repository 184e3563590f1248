SPECIFICATION Spec
CONSTANTS
  Threads = {t1, t2}
  Agents = {a1, a2}
  Fickle = {a1}
  TTL = 1
  Newest = 3
  Minimum = 2
  Started = {1, 2}
  MaxChanges = 2
INVARIANTS TypeOK FailsOnlyByRefresh SteadyAgentsKnown
PROPERTIES EventuallyAccurate
