----------------------------- MODULE ClusterStats -----------------------------
(***************************************************************************)
(* The figures the agent derives from the lists of nodes and jobs: the     *)
(* metrics by state (slurmrestd/__init__.py, resources_states() and        *)
(* jobs_states(), exported by metrics/collector.py) and the totals of the  *)
(* dashboard (views/agent.py, stats()).  Each loop takes the elements one  *)
(* by one; a node or a job has several states and flags at once.           *)
(*                                                                         *)
(* Both are counted here from the same answers, which the cache makes of   *)
(* two requests close in time.                                             *)
(***************************************************************************)
EXTENDS Integers, Sequences, SequencesExt

CONSTANTS
  NodeKinds,  \* the nodes slurmrestd may tell of
  JobKinds,   \* the sets of states of its jobs
  MaxNodes,   \* bound: nodes in a list
  MaxJobs     \* bound: jobs in a list

(* node_gres_extract_gpus(): the entries of a gres named gpu, whatever     *)
(* their model; what a comma of an index cuts off is an entry of no name.  *)
Gpus(gres) == FoldSeq(LAMBDA entry, n : IF entry.name = "gpu" THEN n + entry.count ELSE n,
                      0, gres)

(* What is assumed of Slurm: the cores of a node in use and those that are *)
(* not are its cores, and no more GPU are in use than there are.           *)
ASSUME StatsAssumption ==
  /\ MaxNodes \in Nat /\ MaxJobs \in Nat
  /\ \A n \in NodeKinds :
       /\ n.cpus \in Nat /\ n.alloc \in Nat /\ n.idle \in Nat
       /\ n.alloc + n.idle = n.cpus
       /\ Gpus(n.gres) \in Nat /\ Gpus(n.used) \in Nat
       /\ Gpus(n.used) <= Gpus(n.gres)

(* The states that are counted, in the order they are looked for.          *)
NodeOrder == <<"error", "fail", "mixed", "allocated", "down", "drain", "idle">>
JobOrder == <<"running", "pending", "completing", "completed", "cancelled", "suspended",
              "preempted", "failed", "timeout", "node_fail", "boot_fail", "deadline",
              "out_of_memory">>

NodeStates == Range(NodeOrder) \cup {"unknown"}
JobStates == Range(JobOrder) \cup {"unknown"}

VARIABLES
  collecting,  \* the list being counted
  nodes,       \* nodes_states
  cores,       \* cores_states
  gpus,        \* gpus_states
  jobs,        \* the states of the jobs
  totals,      \* of nodes, cores, GPU and jobs, for the metrics and in stats()
  active       \* the running jobs, in stats()

statsVars == <<collecting, nodes, cores, gpus, jobs, totals, active>>

NoNodes == [s \in NodeStates |-> 0]
NoTotals == [nodes |-> 0, cores |-> 0, gpus |-> 0, jobs |-> 0]

StatsInit ==
  /\ collecting = "nodes"
  /\ nodes = NoNodes /\ cores = NoNodes /\ gpus = NoNodes
  /\ jobs = [s \in JobStates |-> 0]
  /\ totals = NoTotals
  /\ active = 0

-----------------------------------------------------------------------------
FirstOf(order, states) ==
  LET found == {i \in DOMAIN order : order[i] \in states}
  IN  IF found = {} THEN "unknown"
      ELSE order[CHOOSE i \in found : \A k \in found : i <= k]

NodeState(n) == FirstOf(NodeOrder, n.states)

Plus(count, share) == [s \in DOMAIN count |-> count[s] + share[s]]
All(s, amount) == [NoNodes EXCEPT ![s] = amount]
Split(used, free) == [NoNodes EXCEPT !["allocated"] = used, !["idle"] = free]

(* The cores of a mixed node are those in use and the others.  The mutant  *)
(* counts them under its own state as well.                                *)
CoresOf_Whole(n) ==
  IF NodeState(n) = "mixed"
    THEN Plus(Split(n.alloc, n.idle), All("mixed", n.cpus))
    ELSE All(NodeState(n), n.cpus)

CoresOf(n) ==
  IF NodeState(n) = "mixed" THEN Split(n.alloc, n.idle) ELSE All(NodeState(n), n.cpus)

GpusOf(n) ==
  IF NodeState(n) \in {"mixed", "allocated"}
    THEN Split(Gpus(n.used), Gpus(n.gres) - Gpus(n.used))
    ELSE All(NodeState(n), Gpus(n.gres))

CountNode(n) ==
  /\ collecting = "nodes"
  /\ totals.nodes < MaxNodes
  /\ nodes' = Plus(nodes, All(NodeState(n), 1))
  /\ cores' = Plus(cores, CoresOf(n))
  /\ gpus' = Plus(gpus, GpusOf(n))
  /\ totals' = [totals EXCEPT !.nodes = @ + 1, !.cores = @ + n.cpus, !.gpus = @ + Gpus(n.gres)]
  /\ UNCHANGED <<collecting, jobs, active>>

NodesCounted ==
  /\ collecting = "nodes"
  /\ collecting' = "jobs"
  /\ UNCHANGED <<nodes, cores, gpus, jobs, totals, active>>

CountJob(states) ==
  /\ collecting = "jobs"
  /\ totals.jobs < MaxJobs
  /\ jobs' = [jobs EXCEPT ![FirstOf(JobOrder, states)] = @ + 1]
  /\ totals' = [totals EXCEPT !.jobs = @ + 1]
  /\ active' = IF "running" \in states THEN active + 1 ELSE active
  /\ UNCHANGED <<collecting, nodes, cores, gpus>>

(* The figures are sent, and those of the next request start over.         *)
Exported ==
  /\ collecting = "jobs"
  /\ collecting' = "nodes"
  /\ nodes' = NoNodes /\ cores' = NoNodes /\ gpus' = NoNodes
  /\ jobs' = [s \in JobStates |-> 0]
  /\ totals' = NoTotals
  /\ active' = 0

StatsNext ==
  \/ \E n \in NodeKinds : CountNode(n)
  \/ NodesCounted
  \/ \E states \in JobKinds : CountJob(states)
  \/ Exported

StatsSpec == StatsInit /\ [][StatsNext]_statsVars

-----------------------------------------------------------------------------
StatsTypeOK ==
  /\ collecting \in {"nodes", "jobs"}
  /\ nodes \in [NodeStates -> Nat]
  /\ cores \in [NodeStates -> Nat]
  /\ gpus \in [NodeStates -> Nat]
  /\ jobs \in [JobStates -> Nat]
  /\ totals \in [{"nodes", "cores", "gpus", "jobs"} -> Nat]
  /\ active \in Nat

NodesSum(f) ==
  f["error"] + f["fail"] + f["mixed"] + f["allocated"] + f["down"] + f["drain"] + f["idle"]
    + f["unknown"]
JobsSum(f) ==
  (f["running"] + f["pending"] + f["completing"] + f["completed"] + f["cancelled"]
     + f["suspended"] + f["preempted"])
  + (f["failed"] + f["timeout"] + f["node_fail"] + f["boot_fail"] + f["deadline"]
       + f["out_of_memory"] + f["unknown"])

(* Whatever states and flags the nodes and the jobs have together, each    *)
(* node, core, GPU and job is counted once and in one state, no count goes *)
(* below zero, and the dashboard tells as many jobs running as the metrics.*)
CountedOnce ==
  /\ NodesSum(nodes) = totals.nodes
  /\ NodesSum(cores) = totals.cores
  /\ NodesSum(gpus) = totals.gpus
  /\ \A s \in NodeStates : nodes[s] >= 0 /\ cores[s] >= 0 /\ gpus[s] >= 0
  /\ JobsSum(jobs) = totals.jobs
  /\ jobs["running"] = active
=============================================================================
