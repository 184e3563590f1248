----------------------------- MODULE AssetsCrawler -----------------------------
(***************************************************************************)
(* The crawler of the tests assets (dev/lib/crawler): it sets a            *)
(* development cluster up for each asset, dumps the responses of a         *)
(* component to files, records the HTTP status of each in status.json, and *)
(* undoes the setup.  The tests mock the component from the files and the  *)
(* statuses.  Any step may raise; only CrawlerError is caught, and a run   *)
(* that dies leaves the cluster and the files as they are to the next run. *)
(*                                                                         *)
(* Files that are dumped alike are one: "job" is every job of the fixture, *)
(* "state" every state a node or a job of the list may be found in.  The   *)
(* cluster has GPU and jobs, without which some assets are passed over.    *)
(***************************************************************************)
EXTENDS Integers, Sequences

CONSTANTS
  Fillers,     \* bound: jobs submitted to fill the queue (10 to 60)
  Selections,  \* components with the assets --assets selects
  MaxRuns      \* bound: runs of the crawler

ASSUME CrawlerAssumption ==
  /\ Fillers \in Nat
  /\ MaxRuns \in Nat

-----------------------------------------------------------------------------
(* How the cluster is set up for an asset: calls of slurmrestd that may    *)
(* raise, a "job" waited for until it runs and a "queued" one that is not. *)
Filling == [i \in 1..Fillers |-> "queued"]

SetupForJobs == <<"queued", "queued", "queued", "job">> \o Filling
SetupForNodes == <<"down", "drain">> \o Filling
SetupForStats == Filling
SetupForJobsNode == [i \in 1..Fillers |-> "job"]
SetupForReservations == <<"book">>
SetupForPendingGpus == <<"queued">>
SetupForGpus == <<"job">>
SetupForGpuNode == <<"job", "look">>
SetupForIdleNode == <<"job", "look", "cancel">>

(* The files a response is dumped to, by its status, and when: unless they *)
(* exist, only if the cluster has what they are about, again at each       *)
(* crawl, or for all versions and with no status.                          *)
Into(f, how) == [file |-> [ok |-> f, bad |-> f], how |-> how]
Once(f) == Into(f, "once")
IfFound(f) == Into(f, "found")
Again(f) == Into(f, "again")
Shared(f) == Into(f, "shared")
LoginMessage == [file |-> [ok |-> "message", bad |-> "no-message"], how |-> "once"]

Asset(outputs, setup, dumps) ==
  [outputs |-> outputs, setup |-> setup, dumps |-> dumps]

Plain(f) == Asset({f}, <<>>, <<Once(f)>>)
Reserved == Asset({"reservations"}, SetupForReservations, <<Once("reservations")>>)

(* The finished jobs, an asset of their own and the last dump of "jobs".   *)
PastJobs == <<Again("past")>>

(* slurmrestd is asked for the accounting of each job as well.             *)
SlurmrestdErrors ==
  Asset({"not-found", "jwt"}, <<>>, <<Once("not-found"), IfFound("jwt")>>)
SlurmrestdJobs ==
  Asset({"jobs", "job", "job-state", "archived", "job-unfound", "past"}, SetupForJobs,
        <<Once("job"), Again("jobs"), IfFound("job-state"), Once("archived"),
          Once("job-unfound")>> \o PastJobs)
SlurmrestdNodes ==
  Asset({"nodes", "node-state", "node-unfound"}, SetupForNodes,
        <<Again("nodes"), IfFound("node-state"), Once("node-unfound")>>)
SlurmrestdGpus(job, accounting, setup) ==
  Asset({job, accounting}, setup, <<Once(job), Once(accounting)>>)
SlurmrestdGpuNode == Asset({"gpu-node"}, SetupForGpuNode, <<IfFound("gpu-node")>>)
SlurmrestdIdleNode == Asset({"idle-node"}, SetupForIdleNode, <<Once("idle-node")>>)

SlurmrestdAssets == [
  ping         |-> Plain("ping"),
  openapi      |-> Asset({"openapi"}, <<>>, <<Shared("openapi")>>),
  errors       |-> SlurmrestdErrors,
  jobs         |-> SlurmrestdJobs,
  past         |-> Asset({"past"}, <<>>, PastJobs),
  nodes        |-> SlurmrestdNodes,
  gpus         |-> SlurmrestdGpus("gpus", "db-gpus", SetupForGpus),
  gpusPending  |-> SlurmrestdGpus("gpus-pending", "db-gpus-pending", SetupForPendingGpus),
  gpuNode      |-> SlurmrestdGpuNode,
  gpuNodeIdle  |-> SlurmrestdIdleNode,
  nodeWithout  |-> Plain("node-without-gpu"),
  reservations |-> Reserved]

(* The outputs of login and metrics are not the files that are dumped.     *)
GatewayLogin == Asset({"login-success", "login-failure"}, <<>>, <<LoginMessage>>)
GatewayMetrics == Asset({"metrics-memory", "metrics-cpu"}, <<>>, <<Once("metrics")>>)
GatewayJobs ==
  Asset({"jobs", "job", "job-state", "archived", "past"}, SetupForJobs,
        <<Once("job"), Again("jobs"), IfFound("job-state"), Once("archived")>> \o PastJobs)
GatewayNodes ==
  Asset({"nodes", "jobs-node", "node-state"}, SetupForNodes,
        <<Again("nodes"), IfFound("jobs-node"), IfFound("node-state")>>)
GatewayGpus(job, setup) == Asset({job}, setup, <<Once(job)>>)
GatewayGpuNode == Asset({"gpu-node"}, SetupForGpuNode, <<IfFound("gpu-node")>>)
GatewayIdleNode == Asset({"idle-node"}, SetupForIdleNode, <<IfFound("idle-node")>>)

GatewayAssets == [
  clusters     |-> Plain("clusters"),
  login        |-> GatewayLogin,
  stats        |-> Asset({"stats"}, SetupForStats, <<Once("stats")>>),
  jobs         |-> GatewayJobs,
  past         |-> Asset({"past"}, <<>>, PastJobs),
  nodes        |-> GatewayNodes,
  gpus         |-> GatewayGpus("gpus", SetupForGpus),
  gpusPending  |-> GatewayGpus("gpus-pending", SetupForPendingGpus),
  gpuNode      |-> GatewayGpuNode,
  gpuNodeIdle  |-> GatewayIdleNode,
  nodeWithout  |-> Plain("node-without-gpu"),
  reservations |-> Reserved,
  metrics      |-> GatewayMetrics]

AgentAssets == [
  info         |-> Plain("info"),
  jobs         |-> Asset({"jobs", "past"}, SetupForJobs, <<Once("jobs")>> \o PastJobs),
  past         |-> Asset({"past"}, <<>>, PastJobs),
  nodes        |-> Asset({"nodes"}, <<>>, <<Again("nodes")>>),
  jobsNode     |-> Asset({"jobs-node"}, SetupForJobsNode,
                         <<Again("nodes"), IfFound("jobs-node")>>),
  metrics      |-> Asset({"metrics"}, <<>>, <<IfFound("metrics")>>)]

PrometheusAssets == [hour |-> Plain("hour"), unknown |-> Plain("unknown")]

AssetsOf(component) ==
  CASE component = "slurmrestd" -> SlurmrestdAssets
    [] component = "gateway"    -> GatewayAssets
    [] component = "agent"      -> AgentAssets
    [] component = "prometheus" -> PrometheusAssets

(* The assets are selected among those of the component.                   *)
ASSUME SelectionsAssumption ==
  \A chosen \in Selections :
    /\ chosen.component \in {"slurmrestd", "gateway", "agent", "prometheus"}
    /\ chosen.assets \subseteq DOMAIN AssetsOf(chosen.component)

-----------------------------------------------------------------------------
VARIABLES
  selection,  \* the component crawled and the assets selected
  running,    \* jobs in the queue that were submitted for each asset
  downs,      \* the nodes set "down" and "drain"
  booked,     \* the training reservation is there
  files,      \* the status of the response in each file
  saved,      \* status.json
  statuses,   \* the statuses in memory
  crawling,   \* where the crawler is
  left,       \* assets yet to be crawled
  asset,      \* the asset crawled
  todo,       \* what is left of its setup, or of its dumps
  made,       \* what its setup has made
  undo,       \* _cleanup_state
  runs,       \* runs so far
  refused,    \* history: a call of the last reset was refused
  stranded,   \* history: a crawl died, or a call of a cleanup failed
  spoiled     \* history: the files asked for by crawls that did not end well

cluster == <<running, downs, booked>>
disk == <<files, saved>>
work == <<crawling, left, asset, todo, made, undo>>
history == <<refused, stranded, spoiled>>
crawlerVars == <<selection, cluster, disk, statuses, work, runs, history>>

Assets == AssetsOf(selection.component)
Selected == selection.assets
FilesOf(a) == UNION {{Assets[a].dumps[i].file[s] : s \in {"ok", "bad"}} :
                     i \in DOMAIN Assets[a].dumps}
Files == UNION {FilesOf(a) : a \in Selected}
NoJobs == [a \in Selected |-> 0]

CrawlerInit ==
  /\ selection \in Selections
  /\ running = NoJobs /\ downs = {} /\ booked = FALSE
  /\ files = [f \in Files |-> "none"] /\ saved = files /\ statuses = files
  /\ crawling = "off" /\ left = {} /\ asset = "" /\ todo = <<>>
  /\ made = {} /\ undo = {}
  /\ runs = 0
  /\ refused = FALSE /\ stranded = FALSE /\ spoiled = {}

JobEnds(a) ==
  /\ running[a] > 0
  /\ running' = [running EXCEPT ![a] = @ - 1]
  /\ UNCHANGED <<selection, downs, booked, disk, statuses, work, runs, history>>

(* A crawler is made: it loads the statuses.                               *)
Start ==
  /\ crawling = "off" /\ runs < MaxRuns
  /\ crawling' = "next" /\ left' = Selected
  /\ statuses' = saved
  /\ runs' = runs + 1
  /\ UNCHANGED <<selection, cluster, disk, asset, todo, made, undo, history>>

Exists(a) == \A f \in Assets[a].outputs : f \in Files /\ files[f] # "none"

Skip(a) ==
  /\ crawling = "next" /\ a \in left
  /\ Exists(a)
  /\ left' = left \ {a}
  /\ UNCHANGED <<selection, cluster, disk, statuses, crawling, asset, todo, made,
                 undo, runs, history>>

(* reset_minimal(): a call that is refused is not an error; that some jobs *)
(* are cancelled and others not is their end, afterwards.  The mutant      *)
(* resumes the nodes and leaves the jobs.                                  *)
Reset_Nodes ==
  /\ refused' \in BOOLEAN
  /\ downs' \in IF refused' THEN SUBSET downs ELSE {{}}
  /\ running' = running

Reset ==
  /\ refused' \in BOOLEAN
  /\ downs' \in IF refused' THEN SUBSET downs ELSE {{}}
  /\ running' \in IF refused' THEN {running, NoJobs} ELSE {NoJobs}

Crawl(a) ==
  /\ crawling = "next" /\ a \in left
  /\ ~Exists(a)
  /\ Reset
  /\ crawling' = "setup" /\ left' = left \ {a}
  /\ asset' = a /\ todo' = Assets[a].setup
  /\ UNCHANGED <<selection, booked, disk, statuses, made, undo, runs, stranded, spoiled>>

-----------------------------------------------------------------------------
(* The setup.                                                              *)
Doing(ops) == crawling = "setup" /\ todo # <<>> /\ Head(todo) \in ops

Made(what) ==
  /\ todo' = Tail(todo) /\ made' = made \cup what
  /\ UNCHANGED <<crawling, spoiled>>

(* A CrawlerError ends the crawl of the asset: what will be undone is what *)
(* _cleanup_state says.                                                    *)
Raise(harmed) ==
  /\ crawling' = "cleanup"
  /\ todo' = <<>> /\ made' = {}
  /\ spoiled' = spoiled \cup harmed

(* What a step of the setup leaves alone, besides parts of the cluster.    *)
Elsewhere == <<selection, disk, statuses, left, asset, undo, runs, refused, stranded>>

Queued == running' = [running EXCEPT ![asset] = @ + 1]

(* The submission is accepted or refused, or the job never runs.           *)
Submit ==
  /\ Doing({"queued", "job"})
  /\ \/ Queued /\ Made({"jobs"})
     \/ UNCHANGED running /\ Raise({})
     \/ Doing({"job"}) /\ Queued /\ Raise({})
  /\ UNCHANGED <<downs, booked, Elsewhere>>

PutDown ==
  /\ Doing({"down", "drain"})
  /\ downs' \in {downs, downs \cup {Head(todo)}}
  /\ Made({Head(todo)})
  /\ UNCHANGED <<running, booked, Elsewhere>>

Book ==
  /\ Doing({"book"})
  /\ \/ ~booked /\ booked' = TRUE /\ Made({"reservation"})
     \/ UNCHANGED booked /\ Raise({})
  /\ UNCHANGED <<running, downs, Elsewhere>>

(* The nodes of the job; then, for an idle node, its cancellation and the  *)
(* wait for the node.                                                      *)
Look ==
  /\ Doing({"look"})
  /\ Made({}) \/ Raise({})
  /\ UNCHANGED <<cluster, Elsewhere>>

Cancel ==
  /\ Doing({"cancel"})
  /\ running' \in {running, [running EXCEPT ![asset] = 0]}
  /\ Made({}) \/ Raise({})
  /\ UNCHANGED <<downs, booked, Elsewhere>>

(* What there is to clean up is known when the whole setup is done.        *)
SetUp ==
  /\ crawling = "setup" /\ todo = <<>>
  /\ crawling' = "dump" /\ todo' = Assets[asset].dumps
  /\ undo' = made /\ made' = {}
  /\ UNCHANGED <<selection, cluster, disk, statuses, left, asset, runs, history>>

-----------------------------------------------------------------------------
(* The dumps.                                                              *)
Dumping == crawling = "dump" /\ todo # <<>>
Dumped == Head(todo)
There == \A s \in {"ok", "bad"} : files[Dumped.file[s]] # "none"

Pass ==
  /\ Dumping
  /\ \/ There /\ Dumped.how # "again"
     \/ ~There /\ Dumped.how = "found"      \* nothing of the kind
  /\ todo' = Tail(todo)
  /\ UNCHANGED <<selection, cluster, disk, statuses, crawling, left, asset, made,
                 undo, runs, history>>

(* dump_component_response(): the status is recorded first, then a JSON    *)
(* body that holds errors raises and is not written, and a file that       *)
(* exists is left.  The mutant keeps the status recorded first.            *)
Recorded_First(f, status) ==
  IF Dumped.how = "shared" \/ statuses[f] # "none"
    THEN statuses ELSE [statuses EXCEPT ![f] = status]

Recorded(f, status) ==
  IF Dumped.how = "shared" THEN statuses ELSE [statuses EXCEPT ![f] = status]

Dump ==
  /\ Dumping
  /\ ~There \/ Dumped.how = "again"
  /\ \E status \in {"ok", "bad"} : LET f == Dumped.file[status] IN
       /\ statuses' = Recorded(f, status)
       /\ \/ /\ files' = IF files[f] = "none" \/ Dumped.how = "again"
                          THEN [files EXCEPT ![f] = status] ELSE files
             /\ todo' = Tail(todo)
             /\ UNCHANGED <<crawling, made, spoiled>>
          \/ UNCHANGED files /\ Raise(FilesOf(asset))
  /\ UNCHANGED <<selection, cluster, saved, left, asset, undo, runs, refused, stranded>>

Save ==
  /\ crawling = "dump" /\ todo = <<>>
  /\ crawling' = "cleanup"
  /\ saved' = statuses
  /\ UNCHANGED <<selection, cluster, files, statuses, left, asset, todo, made, undo,
                 runs, history>>

-----------------------------------------------------------------------------
(* cleanup_after_asset(): a call that fails is passed over.                *)
Undone(done) ==
  /\ running' = IF "jobs" \in done THEN [running EXCEPT ![asset] = 0] ELSE running
  /\ downs' = downs \ done
  /\ booked' = (booked /\ "reservation" \notin done)

Cleanup ==
  /\ crawling = "cleanup"
  /\ \E done \in SUBSET undo : Undone(done) /\ stranded' = (stranded \/ done # undo)
  /\ crawling' = "next"
  /\ asset' = "" /\ undo' = {}
  /\ UNCHANGED <<selection, disk, statuses, left, todo, made, runs, refused, spoiled>>

End ==
  /\ crawling = "next" /\ left = {}
  /\ crawling' = "off"
  /\ UNCHANGED <<selection, cluster, disk, statuses, left, asset, todo, made, undo,
                 runs, history>>

(* Any other exception, or the user, ends the run where it is.             *)
Die ==
  /\ crawling # "off"
  /\ crawling' = "off"
  /\ stranded' = TRUE
  /\ spoiled' = IF asset = "" THEN spoiled ELSE spoiled \cup FilesOf(asset)
  /\ left' = {} /\ asset' = "" /\ todo' = <<>> /\ made' = {} /\ undo' = {}
  /\ UNCHANGED <<selection, cluster, disk, statuses, runs, refused>>

CrawlerNext ==
  \/ Start \/ Submit \/ PutDown \/ Book \/ Look \/ Cancel \/ SetUp
  \/ Pass \/ Dump \/ Save \/ Cleanup \/ End \/ Die
  \/ \E a \in Selected : JobEnds(a) \/ Skip(a) \/ Crawl(a)

CrawlerSpec == CrawlerInit /\ [][CrawlerNext]_crawlerVars

-----------------------------------------------------------------------------
(* What is dumped for an asset is what the component says of a cluster     *)
(* where nothing of the other assets remains, whichever crawls have failed *)
(* or died before: jobs and nodes unless a call of the reset was refused,  *)
(* the reservation unless a crawl died or a call of a cleanup failed.      *)
CrawledFromClean ==
  crawling = "dump" =>
    /\ ~refused => /\ \A a \in Selected \ {asset} : running[a] = 0
                   /\ asset # "nodes" => downs = {}
    /\ booked => asset = "reservations" \/ stranded

(* Between two assets and between two runs, status.json tells the status   *)
(* with which each file was dumped, so that the tests mock the component   *)
(* as it was, except for the files of a crawl that failed or died: these   *)
(* may keep a wrong status or none, as later crawls leave them alone.      *)
StatusOfEveryFile ==
  crawling \in {"off", "next"} =>
    \A f \in Files \ (spoiled \cup {"openapi"}) : saved[f] = files[f]
=============================================================================
