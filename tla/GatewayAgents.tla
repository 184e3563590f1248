----------------------------- MODULE GatewayAgents -----------------------------
(***************************************************************************)
(* The gateway's knowledge of its agents (apps/gateway.py) and the requests *)
(* that use it (views/gateway.py).  There is no background task: whichever *)
(* request looks the agents up after the timeout polls all of them and     *)
(* replaces what is known, while the other threads do the same or go on    *)
(* with what they read.                                                    *)
(*                                                                         *)
(* A request looks up several times.  validate_cluster and a few views do  *)
(* so before the request's event loop runs, where an expired timeout means *)
(* a discovery; request_agent does so inside the loop, where running the   *)
(* discovery raises, as a loop cannot run in a loop.                       *)
(*                                                                         *)
(* Each cluster has one agent, at one URL: Agents stands for all three.    *)
(* An agent is known by the release it told, which is in the path of every *)
(* query sent to it; for RacksDB's queries it stands for RacksDB's own.    *)
(***************************************************************************)
EXTENDS Integers

CONSTANTS
  Threads,     \* request threads of the gateway
  Agents,      \* the agents of the configuration
  TTL,         \* how long a discovery holds (300 s), in ticks of the clock
  Newest,      \* bound: releases of the agents are 1..Newest
  Minimum,     \* the oldest release supported
  Started,     \* releases the agents may run at first
  Fickle,      \* the agents that may change
  MaxChanges   \* bound: times an agent goes down, comes back or is upgraded

ASSUME GatewayAssumption ==
  /\ Agents # {} /\ TTL \in Nat \ {0}
  /\ Newest \in Nat /\ Minimum \in 1..Newest /\ Started \subseteq 1..Newest
  /\ Fickle \subseteq Agents
  /\ MaxChanges \in Nat

Absent == 0     \* not among the agents; None; nothing asked
Awaited == -1   \* the poll of an agent that has not answered yet
Known == 0..Newest

VARIABLES
  up,        \* how each agent answers: "up", "down", or "odd"
  release,   \* the release each agent runs
  changes,   \* changes so far
  known,     \* _agents
  left,      \* ticks before _agents_timeout
  at,        \* where each thread is
  kind,      \* the kind of view it serves
  target,    \* the cluster of its request
  again,     \* whether it looks its cluster up for the second time
  got,       \* what its discovery has got
  todo,      \* agents it has yet to ask
  asked,     \* the release in the queries it awaits the answers of
  outcome,   \* how its request ended
  moved,     \* history: the agents expired or were replaced since its look-up
  steady     \* history: the agents that have always been available

world == <<up, release, changes, steady>>
cache == <<known, left>>
request == <<kind, target, again, todo, asked, outcome>>
vars == <<world, cache, at, got, request, moved>>

Kinds == {"proxy", "stream", "racksdb", "clusters"}
Places == {"idle", "check", "poll", "store", "arm", "read", "ask", "done"}
Outcomes == {"none", "ok", "not found", "key error", "nested loop",
             "unreachable", "other release", "no discovery"}

Available(a) == up[a] = "up" /\ release[a] >= Minimum

Nobody == [a \in Agents |-> Absent]
Anyone == CHOOSE a \in Agents : TRUE

Init ==
  /\ up = [a \in Agents |-> "up"]
  /\ release \in [Agents -> Started]
  /\ changes = 0
  /\ known = Nobody /\ left = 0
  /\ at = [t \in Threads |-> "idle"]
  /\ kind = [t \in Threads |-> "proxy"]
  /\ target = [t \in Threads |-> Anyone]
  /\ again = [t \in Threads |-> FALSE]
  /\ got = [t \in Threads |-> Nobody]
  /\ todo = [t \in Threads |-> {}]
  /\ asked = [t \in Threads |-> Nobody]
  /\ outcome = [t \in Threads |-> "none"]
  /\ moved = [t \in Threads |-> FALSE]
  /\ steady = {a \in Agents : Available(a)}

-----------------------------------------------------------------------------
(* The agents and the clock.                                               *)

(* An odd agent gives /info an answer that is not expected to fail: fields *)
(* of other names, a body that is not JSON, or nothing before the client's *)
(* own timeout.                                                            *)
Change(a) ==
  /\ changes < MaxChanges
  /\ changes' = changes + 1
  /\ \/ /\ up' \in {[up EXCEPT ![a] = s] : s \in {"up", "down", "odd"} \ {up[a]}}
        /\ UNCHANGED release
     \/ /\ release[a] < Newest
        /\ release' = [release EXCEPT ![a] = @ + 1]
        /\ UNCHANGED up
  /\ steady' = {b \in steady : Available(b)'}
  /\ UNCHANGED <<cache, at, got, request, moved>>

Tick ==
  /\ left > 0
  /\ left' = left - 1
  /\ moved' = [t \in Threads |-> moved[t] \/ (left = 1 /\ at[t] \notin {"idle", "done"})]
  /\ UNCHANGED <<world, known, at, got, request>>

-----------------------------------------------------------------------------
(* The agents property.                                                    *)

Goto(t, place) == at' = [at EXCEPT ![t] = place]

(* When a discovery is due: the timeout is over.  The mutant has the       *)
(* bound off by one.                                                      *)
Due_Early == left <= 1

Due == left = 0

Check(t) ==
  /\ at[t] \in {"idle", "check"}
  /\ Goto(t, IF Due THEN "poll" ELSE "read")
  /\ got' = [got EXCEPT ![t] = IF Due THEN [a \in Agents |-> Awaited] ELSE Nobody]
  /\ moved' = [moved EXCEPT ![t] = @ /\ again[t]]
  /\ UNCHANGED <<world, cache, request>>

(* _get_agent_info(): None if the agent fails in a way that is expected,   *)
(* or its release is not supported.                                        *)
Info(a) == IF Available(a) THEN release[a] ELSE Absent

Polled(t, a) ==
  /\ at[t] = "poll" /\ got[t][a] = Awaited
  /\ up[a] # "odd"
  /\ got' = [got EXCEPT ![t][a] = Info(a)]
  /\ Goto(t, IF \A b \in Agents : got'[t][b] # Awaited THEN "store" ELSE "poll")
  /\ UNCHANGED <<world, cache, request, moved>>

End(t, how) ==
  /\ Goto(t, "done")
  /\ outcome' = [outcome EXCEPT ![t] = how]
  /\ todo' = [todo EXCEPT ![t] = {}]
  /\ asked' = [asked EXCEPT ![t] = Nobody]
  /\ got' = [got EXCEPT ![t] = Nobody]
  /\ target' = [target EXCEPT ![t] = Anyone]
  /\ again' = [again EXCEPT ![t] = FALSE]
  /\ UNCHANGED <<world, left, kind, moved>>

(* What one agent raises ends the gathering, and the request.  The mutant  *)
(* forgets the agents as well.                                             *)
AfterFailure_Forget == Nobody

AfterFailure == known

PollRaises(t, a) ==
  /\ at[t] = "poll" /\ got[t][a] = Awaited
  /\ up[a] = "odd"
  /\ known' = AfterFailure
  /\ End(t, "no discovery")

(* The dictionary is a new one.  The mutant updates the old one with what  *)
(* is not known yet.                                                       *)
Found_Merged(t) == [a \in Agents |-> IF known[a] # Absent THEN known[a] ELSE got[t][a]]

Found(t) == got[t]

Store(t) ==
  /\ at[t] = "store"
  /\ known' = Found(t)
  /\ Goto(t, "arm")
  /\ got' = [got EXCEPT ![t] = Nobody]
  /\ moved' = [u \in Threads |-> moved[u] \/ at[u] \notin {"idle", "done"}]
  /\ UNCHANGED <<world, left, request>>

(* The mutant moves the timeout instead of setting it.                     *)
Validity_Added == left + TTL

Validity == TTL

Arm(t) ==
  /\ at[t] = "arm"
  /\ left' = Validity
  /\ Goto(t, "read")
  /\ moved' = [moved EXCEPT ![t] = @ /\ again[t]]
  /\ UNCHANGED <<world, known, got, request>>

-----------------------------------------------------------------------------
(* The requests.  A request is told apart when it first reads the agents:  *)
(* until then all are alike.                                               *)

(* The views that look the cluster up once more before the loop, and those *)
(* that enter it.                                                          *)
LooksAgain == {"stream", "racksdb"}   \* job_check_events and job_live; racksdb
Proxying == {"proxy", "racksdb"}

NotFound(t) ==
  /\ at[t] = "read" /\ ~again[t]
  /\ \E a \in Agents : known[a] = Absent
  /\ End(t, "not found")
  /\ UNCHANGED known

(* validate_cluster: the cluster is there.                                 *)
Valid(t) ==
  /\ at[t] = "read" /\ ~again[t]
  /\ \E a \in Agents, k \in Kinds \ {"clusters"} :
       /\ known[a] # Absent
       /\ kind' = [kind EXCEPT ![t] = k]
       /\ target' = [target EXCEPT ![t] = a]
       /\ again' = [again EXCEPT ![t] = k \in LooksAgain]
       /\ todo' = [todo EXCEPT ![t] = IF k \in LooksAgain THEN {} ELSE {a}]
       /\ Goto(t, IF k \in LooksAgain THEN "check" ELSE "ask")
  /\ UNCHANGED <<world, cache, got, asked, outcome, moved>>

Gone(t) ==
  /\ at[t] = "read" /\ again[t]
  /\ known[target[t]] = Absent
  /\ End(t, "key error")
  /\ UNCHANGED known

StillThere(t) ==
  /\ at[t] = "read" /\ again[t]
  /\ known[target[t]] # Absent
  /\ IF kind[t] \in Proxying
       THEN /\ todo' = [todo EXCEPT ![t] = {target[t]}]
            /\ UNCHANGED asked
       ELSE /\ asked' = [asked EXCEPT ![t][target[t]] = known[target[t]]]
            /\ UNCHANGED todo
  /\ Goto(t, "ask")
  /\ UNCHANGED <<world, cache, kind, target, again, got, outcome, moved>>

(* clusters() asks all the agents for the permissions of the user.         *)
AllClusters(t) ==
  /\ at[t] = "read" /\ ~again[t]
  /\ kind' = [kind EXCEPT ![t] = "clusters"]
  /\ todo' = [todo EXCEPT ![t] = {a \in Agents : known[a] # Absent}]
  /\ Goto(t, "ask")
  /\ UNCHANGED <<world, cache, target, again, got, asked, outcome, moved>>

(* request_agent(): in the loop, an expired timeout and an agent that is   *)
(* gone both raise, and what is raised ends the request.                   *)
Ask(t, a) ==
  /\ at[t] = "ask" /\ a \in todo[t]
  /\ ~Due /\ known[a] # Absent
  /\ todo' = [todo EXCEPT ![t] = @ \ {a}]
  /\ asked' = [asked EXCEPT ![t][a] = known[a]]
  /\ UNCHANGED <<world, cache, at, kind, target, again, got, outcome,
                 moved>>

AskFails(t, a) ==
  /\ at[t] = "ask" /\ a \in todo[t]
  /\ Due \/ known[a] = Absent
  /\ End(t, IF Due THEN "nested loop" ELSE "key error")
  /\ UNCHANGED known

(* A cluster whose permissions cannot be had is left out of the list, but  *)
(* an agent that cannot be reached ends the request there as elsewhere.    *)
Unreachable(t, a) ==
  /\ at[t] = "ask" /\ asked[t][a] # Absent
  /\ up[a] # "up"
  /\ End(t, "unreachable")
  /\ UNCHANGED known

Proxied(t, a) ==
  /\ at[t] = "ask" /\ asked[t][a] # Absent
  /\ up[a] = "up" /\ kind[t] # "clusters"
  /\ End(t, IF asked[t][a] = release[a] THEN "ok" ELSE "other release")
  /\ UNCHANGED known

Permissions(t, a) ==
  /\ at[t] = "ask" /\ asked[t][a] # Absent
  /\ up[a] = "up" /\ kind[t] = "clusters"
  /\ asked' = [asked EXCEPT ![t][a] = Absent]
  /\ UNCHANGED <<world, cache, at, kind, target, again, got, todo, outcome,
                 moved>>

ListDone(t) ==
  /\ at[t] = "ask" /\ kind[t] = "clusters"
  /\ todo[t] = {} /\ asked[t] = Nobody
  /\ End(t, "ok")
  /\ UNCHANGED known

Reply(t) ==
  /\ at[t] = "done"
  /\ Goto(t, "idle")
  /\ kind' = [kind EXCEPT ![t] = "proxy"]
  /\ outcome' = [outcome EXCEPT ![t] = "none"]
  /\ moved' = [moved EXCEPT ![t] = FALSE]
  /\ UNCHANGED <<world, cache, target, again, got, todo, asked>>

-----------------------------------------------------------------------------
Step(t) ==
  \/ Check(t) \/ Store(t) \/ Arm(t)
  \/ NotFound(t) \/ Valid(t) \/ Gone(t) \/ StillThere(t)
  \/ AllClusters(t) \/ ListDone(t) \/ Reply(t)
  \/ \E a \in Agents :
       \/ Polled(t, a) \/ PollRaises(t, a)
       \/ Ask(t, a) \/ AskFails(t, a)
       \/ Unreachable(t, a) \/ Proxied(t, a) \/ Permissions(t, a)

Next ==
  \/ Tick
  \/ \E a \in Fickle : Change(a)
  \/ \E t \in Threads : Step(t)

(* Time passes, a thread runs, an agent that is asked answers or the       *)
(* connection to it fails, and the pages of the users keep polling.        *)
Fairness ==
  /\ WF_vars(Tick)
  /\ \A t \in Threads : WF_vars(Step(t))

Spec == Init /\ [][Next]_vars /\ Fairness

-----------------------------------------------------------------------------
TypeOK ==
  /\ up \in [Agents -> {"up", "down", "odd"}]
  /\ release \in [Agents -> 1..Newest]
  /\ changes \in 0..MaxChanges
  /\ known \in [Agents -> Known] /\ left \in 0..TTL
  /\ at \in [Threads -> Places]
  /\ kind \in [Threads -> Kinds]
  /\ target \in [Threads -> Agents]
  /\ again \in [Threads -> BOOLEAN]
  /\ got \in [Threads -> [Agents -> Known \cup {Awaited}]]
  /\ todo \in [Threads -> SUBSET Agents]
  /\ asked \in [Threads -> [Agents -> Known]]
  /\ outcome \in [Threads -> Outcomes]
  /\ moved \in [Threads -> BOOLEAN]
  /\ steady \subseteq Agents

(* A request for a cluster that was found fails on a later look-up of it   *)
(* only if the agents expired or were replaced in between: nothing else    *)
(* takes away what validate_cluster has seen.                              *)
FailsOnlyByRefresh ==
  \A t \in Threads : outcome[t] \in {"key error", "nested loop"} => moved[t]

(* An agent that has been available all along is known to every request    *)
(* that reads or uses the agents, whatever the others do and however many  *)
(* discoveries run, fail or overlap: no request is told that its cluster   *)
(* is not found.                                                           *)
SteadyAgentsKnown ==
  \A a \in steady, t \in Threads : at[t] \in {"read", "ask"} => known[a] # Absent

(* Once the agents settle, and none of them answers in a way that makes    *)
(* discoveries raise, the gateway knows exactly those that are available,  *)
(* by the release they run: what requests meet in between does not last.   *)
EventuallyAccurate ==
  <>[](\A a \in Agents : up[a] # "odd") => <>[](known = [a \in Agents |-> Info(a)])

(* The list of clusters leaves out those whose permissions could not be    *)
(* requested, as get_clusters() says of itself: one agent that cannot be   *)
(* reached does not fail the list of all the others.                       *)
UnreachableAreLeftOut ==
  \A t \in Threads : kind[t] = "clusters" => outcome[t] # "unreachable"
=============================================================================
