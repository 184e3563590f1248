SPECIFICATION Spec
CONSTANTS
  Callers = {c1, c2, c3}
  Lifespan = 4
  Margin = 3
  Delay = 1
  Clients = {t1, t2}
  Keys = {"jobs"}
  Expiration = 2
  Holding = 1
  MaxRequests = 3
  MaxResets = 1
  Requests = {r1, r2}
  Allowed <- MCAllowed
  Owner <- MCOwner
  Folded <- MCFolded
  MaxAsks = 3
  NodeKinds <- MCNodeKinds
  JobKinds <- MCJobKinds
  MaxNodes = 3
  MaxJobs = 3
  Params = {"v1", "v2"}
  MaxPolls = 6
  JobIds = {"first", "second"}
  Slots = {p1, p2}
  ChunkSize = 1
  MaxOutput <- MCMaxOutput
  MaxShows = 2
  Fillers = 1
  MaxRuns = 2
  Selections <- MCSelections
INVARIANTS
  ExpiredOnlyDuringRenewal
  ServedFresh TotalsAgree
  ExactlyTheirJobs
  CountedOnce
  OneLoop
  ShownAsInFile
  CrawledFromClean StatusOfEveryFile
CHECK_DEADLOCK FALSE
