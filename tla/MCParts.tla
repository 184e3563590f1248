------------------------------- MODULE MCParts -------------------------------
(***************************************************************************)
(* The parts that share no state, one state machine at a time: what is     *)
(* explored is the disjoint union of their behaviours.  Each of them stops *)
(* when its bounds are reached.                                            *)
(***************************************************************************)
EXTENDS TokenRenewal, CacheStatistics, AgentViews, ClusterStats, PagePoller, JobFallback,
        AssetsCrawler

VARIABLE part

partsVars == <<part, tokenVars, cacheVars, viewsVars, statsVars, pollerVars, fallbackVars,
               crawlerVars>>

(* The users: one sees all the jobs, one her own, whose login Slurm writes *)
(* otherwise, and one has none.                                            *)
MCAllowed ==
  [admin |-> {"jobs-view", "jobs-view-past", "stats-view"},
   Bob   |-> {"jobs-view-own", "jobs-view-past-own"},
   carl  |-> {"jobs-view-own"}]
MCOwner == [job |-> "bob"]
MCFolded == [admin |-> "admin", Bob |-> "bob", bob |-> "bob", carl |-> "carl"]

(* The nodes: flags of all kinds, gres of several entries.                 *)
MCGpus(n) == <<[name |-> "craynetwork", count |-> 4], [name |-> "gpu", count |-> n]>>
MCNodeKinds ==
  {[states |-> {"idle"}, cpus |-> 2, alloc |-> 0, idle |-> 2, gres |-> <<>>, used |-> <<>>],
   [states |-> {"mixed", "drain"}, cpus |-> 3, alloc |-> 2, idle |-> 1,
    gres |-> MCGpus(2), used |-> MCGpus(1)],
   [states |-> {"allocated"}, cpus |-> 1, alloc |-> 1, idle |-> 0,
    gres |-> MCGpus(2) \o MCGpus(1), used |-> MCGpus(2)],
   [states |-> {"down", "fail"}, cpus |-> 1, alloc |-> 0, idle |-> 1,
    gres |-> MCGpus(1), used |-> MCGpus(0)],
   [states |-> {"future"}, cpus |-> 1, alloc |-> 0, idle |-> 1, gres |-> <<>>, used |-> <<>>]}
MCJobKinds == {{"running", "completing"}, {"completed", "completing"}, {"requeued"}, {"pending"}}

MCMaxOutput ==
  [first  |-> [stdout |-> 1, stderr |-> 1],
   second |-> [stdout |-> 1, stderr |-> 0]]

MCSelections ==
  {[component |-> "slurmrestd", assets |-> {"nodes", "openapi"}],
   [component |-> "slurmrestd", assets |-> {"reservations", "past"}],
   [component |-> "slurmrestd", assets |-> {"gpuNodeIdle", "nodeWithout"}],
   [component |-> "slurmrestd", assets |-> {"errors", "gpusPending"}],
   [component |-> "gateway", assets |-> {"jobs"}],
   [component |-> "gateway", assets |-> {"login", "stats"}],
   [component |-> "gateway", assets |-> {"metrics", "gpuNode"}],
   [component |-> "gateway", assets |-> {"gpus", "reservations"}],
   [component |-> "agent", assets |-> {"jobs", "past"}],
   [component |-> "prometheus", assets |-> {"hour"}]}

Init ==
  (* The other parts are at rest in one of their initial states.           *)
  /\ part \in {"token", "cache", "views", "stats", "poller", "fallback", "crawler"}
  /\ TokenInit /\ CacheInit /\ ViewsInit /\ StatsInit /\ PollerInit /\ FallbackInit
  /\ CrawlerInit
  /\ part # "views" => queue = [j \in Jobs |-> "none"]
  /\ part # "poller" => param = CHOOSE v \in Params : TRUE
  /\ part # "fallback" => id = CHOOSE j \in JobIds : TRUE
  /\ part # "crawler" => selection = CHOOSE chosen \in Selections : TRUE

Next ==
  /\ UNCHANGED part
  /\ \/ /\ part = "token" /\ TokenNext
        /\ UNCHANGED <<cacheVars, viewsVars, statsVars, pollerVars, fallbackVars, crawlerVars>>
     \/ /\ part = "cache" /\ CacheNext
        /\ UNCHANGED <<tokenVars, viewsVars, statsVars, pollerVars, fallbackVars, crawlerVars>>
     \/ /\ part = "views" /\ ViewsNext
        /\ UNCHANGED <<tokenVars, cacheVars, statsVars, pollerVars, fallbackVars, crawlerVars>>
     \/ /\ part = "stats" /\ StatsNext
        /\ UNCHANGED <<tokenVars, cacheVars, viewsVars, pollerVars, fallbackVars, crawlerVars>>
     \/ /\ part = "poller" /\ PollerNext
        /\ UNCHANGED <<tokenVars, cacheVars, viewsVars, statsVars, fallbackVars, crawlerVars>>
     \/ /\ part = "fallback" /\ FallbackNext
        /\ UNCHANGED <<tokenVars, cacheVars, viewsVars, statsVars, pollerVars, crawlerVars>>
     \/ /\ part = "crawler" /\ CrawlerNext
        /\ UNCHANGED <<tokenVars, cacheVars, viewsVars, statsVars, pollerVars, fallbackVars>>

Spec == Init /\ [][Next]_partsVars
=============================================================================
