---------------------------- MODULE SlurmrestClient ----------------------------
(***************************************************************************)
(* The agent's client of slurmrestd (slurmrestd/__init__.py) and the cache *)
(* before it: one client object, shared by every request thread of the     *)
(* agent.  The first call finds out which version of the API slurmrestd    *)
(* serves, newest first; what an older version answers is brought to the   *)
(* newest by a chain of adapters.  The version and the chain are two       *)
(* attributes, set one after the other and read one after the other.       *)
(*                                                                         *)
(* Versions are numbered from 1, the oldest the agent supports, to Newest. *)
(* A chain is known by the version it starts from: the empty one, by       *)
(* Newest.  One cache key and one endpoint stand for all: calls differ by  *)
(* nothing else here.                                                      *)
(***************************************************************************)
EXTENDS Integers

CONSTANTS
  Threads,    \* request threads of the agent
  Newest,     \* number of supported versions
  MaxMishaps  \* bound: bad answers to pings, and upgrades of Slurm

ASSUME ClientAssumption ==
  /\ Newest \in Nat \ {0}
  /\ MaxMishaps \in Nat

Versions == 1..Newest

(* Not discovered, nothing cached.                                         *)
Undiscovered == 0
Nothing == [from |-> 0, by |-> 0]

VARIABLES
  served,   \* the versions slurmrestd serves
  api,      \* api_version
  chain,    \* _adaptation_chain
  cache,    \* the value under the key in Redis
  pc,       \* where each thread is
  view,     \* whether it serves the ping view, or data
  version,  \* the version it tries, found, or got an answer in
  data,     \* the answer it holds: in which version, adapted by which chain
  found,    \* history: the versions a discovery found
  mishaps   \* mishaps so far

world  == <<served, mishaps>>
client == <<api, chain, found>>
local  == <<pc, view, version, data>>
vars   == <<world, client, cache, local>>

Init ==
  /\ served \in SUBSET Versions
  /\ api = Undiscovered /\ chain = Newest /\ found = {}
  /\ cache = Nothing
  /\ pc = [t \in Threads |-> "idle"]
  /\ view = [t \in Threads |-> "data"]
  /\ version = [t \in Threads |-> Newest]
  /\ data = [t \in Threads |-> Nothing]
  /\ mishaps = 0

Goto(t, place) == pc' = [pc EXCEPT ![t] = place]

-----------------------------------------------------------------------------
(* _cached(): the value is in the cache, or the client is asked.           *)

Hit(t) ==
  /\ pc[t] = "idle" /\ cache # Nothing
  /\ data' = [data EXCEPT ![t] = cache]
  /\ UNCHANGED <<world, client, cache, pc, view, version>>

(* _request(): does the version have to be discovered first?               *)
Miss(t) ==
  /\ pc[t] = "idle" /\ cache = Nothing
  /\ view' = [view EXCEPT ![t] = "data"]
  /\ data' = [data EXCEPT ![t] = Nothing]
  /\ Goto(t, IF api = Undiscovered THEN "discover" ELSE "query")
  /\ UNCHANGED <<world, client, cache, version>>

(* The ping view discovers whatever is known.                              *)
Ping(t) ==
  /\ pc[t] = "idle"
  /\ view' = [view EXCEPT ![t] = "ping"]
  /\ Goto(t, "discover")
  /\ UNCHANGED <<world, client, cache, version, data>>

-----------------------------------------------------------------------------
(* discover().                                                             *)

(* A version that is known is not looked for again, but the chain is built *)
(* again.  The mutant leaves it too.                                       *)
OnceKnown_Done(t) == IF view[t] = "ping" THEN "idle" ELSE "query"

OnceKnown(t) == "build"

Discover(t) ==
  /\ pc[t] = "discover"
  /\ version' = [version EXCEPT ![t] = Newest]
  /\ Goto(t, IF api = Undiscovered THEN "try" ELSE OnceKnown(t))
  /\ UNCHANGED <<world, client, cache, view, data>>

(* A ping in the version tried is answered.                                *)
PingAnswered(t) ==
  /\ pc[t] = "try"
  /\ version[t] \in served
  /\ Goto(t, "publish")
  /\ UNCHANGED <<world, client, cache, view, version, data>>

(* The list of versions to try is not exhausted; the mutant reads past it. *)
MoreToTry_Past(v) == v > 0

MoreToTry(v) == v > 1

(* It is not, or with something that cannot be used: the next older one is *)
(* tried.  SlurmrestConnectionError when there is none.                    *)
PingRefused(t) ==
  /\ pc[t] = "try"
  /\ \/ version[t] \notin served /\ UNCHANGED world
     \/ /\ version[t] \in served
        /\ mishaps < MaxMishaps /\ mishaps' = mishaps + 1
        /\ UNCHANGED served
  /\ IF MoreToTry(version[t])
     THEN version' = [version EXCEPT ![t] = @ - 1] /\ UNCHANGED pc
     ELSE Goto(t, "idle") /\ UNCHANGED version
  /\ UNCHANGED <<client, cache, view, data>>

(* No connection, or the token is refused: the call fails, whether it was  *)
(* a ping or the query.                                                    *)
Unreachable(t) ==
  /\ pc[t] \in {"try", "query"}
  /\ Goto(t, "idle")
  /\ UNCHANGED <<world, client, cache, view, version, data>>

Publish(t) ==
  /\ pc[t] = "publish"
  /\ api' = version[t] /\ found' = found \cup {version[t]}
  /\ Goto(t, "build")
  /\ UNCHANGED <<world, chain, cache, view, version, data>>

(* build_adaptation_chain(): from the version now known, which need not be *)
(* the one this thread found.  The mutants swap the test for the newest    *)
(* version, and start one adapter late.                                    *)
ChainFrom_Swapped(v) == Newest

ChainFrom_Late(v) == IF v < Newest THEN v + 1 ELSE v

ChainFrom(v) == v

Build(t) ==
  /\ pc[t] = "build"
  /\ version' = [version EXCEPT ![t] = ChainFrom(api)]
  /\ Goto(t, "set")
  /\ UNCHANGED <<world, client, cache, view, data>>

SetChain(t) ==
  /\ pc[t] = "set"
  /\ chain' = version[t]
  /\ Goto(t, IF view[t] = "ping" THEN "idle" ELSE "query")
  /\ UNCHANGED <<world, api, found, cache, view, version, data>>

-----------------------------------------------------------------------------
(* The query proper.                                                       *)

Query(t) ==
  /\ pc[t] = "query"
  /\ IF api \in served
     THEN version' = [version EXCEPT ![t] = api] /\ Goto(t, "adapt")
     ELSE Goto(t, "idle") /\ UNCHANGED version
  /\ UNCHANGED <<world, client, cache, view, data>>

Adapt(t) ==
  /\ pc[t] = "adapt"
  /\ data' = [data EXCEPT ![t] = [from |-> version[t], by |-> chain]]
  /\ Goto(t, "put")
  /\ UNCHANGED <<world, client, cache, view, version>>

(* The answer is cached and given; when Redis cannot be reached the call   *)
(* fails.                                                                  *)
Put(t) ==
  /\ pc[t] = "put"
  /\ cache' \in {data[t], cache}
  /\ Goto(t, "idle")
  /\ UNCHANGED <<world, client, view, version, data>>

-----------------------------------------------------------------------------
(* The world.                                                              *)

Expire ==
  /\ cache # Nothing /\ cache' = Nothing
  /\ UNCHANGED <<world, client, local>>

(* Slurm is upgraded, or goes back.                                        *)
Upgrade ==
  /\ mishaps < MaxMishaps /\ mishaps' = mishaps + 1
  /\ served' \in SUBSET Versions \ {served}
  /\ UNCHANGED <<client, cache, local>>

Step(t) ==
  \/ Discover(t) \/ PingAnswered(t) \/ PingRefused(t) \/ Unreachable(t)
  \/ Publish(t) \/ Build(t) \/ SetChain(t)
  \/ Query(t) \/ Adapt(t) \/ Put(t)

Next ==
  \/ \E t \in Threads : Hit(t) \/ Miss(t) \/ Ping(t) \/ Step(t)
  \/ Expire \/ Upgrade

(* A thread that began goes on; nobody has to ask.                         *)
Fairness == \A t \in Threads : WF_vars(Step(t))

Spec     == Init /\ [][Next]_vars
FairSpec == Spec /\ Fairness

-----------------------------------------------------------------------------
(* Properties.                                                             *)

Places == {"idle", "discover", "try", "publish", "build", "set", "query",
           "adapt", "put"}

Answers == [from : Versions, by : Versions]

(* Every variable has the type the code gives it, and the version in use,  *)
(* once there is one, is one that a discovery found.                       *)
TypeOK ==
  /\ served \subseteq Versions
  /\ api \in Versions \cup {Undiscovered}
  /\ chain \in Versions
  /\ cache \in Answers \cup {Nothing}
  /\ pc \in [Threads -> Places]
  /\ view \in [Threads -> {"data", "ping"}]
  /\ version \in [Threads -> Versions]
  /\ data \in [Threads -> Answers \cup {Nothing}]
  /\ found \subseteq Versions
  /\ api # Undiscovered => api \in found
  /\ mishaps \in Nat

(* Threads that have yet to set the chain for a version that is known.     *)
Building == {t \in Threads : pc[t] \in {"build", "set"}}

(* The chain is the one for the version the client uses, but while it is   *)
(* being built, or after two discoveries that raced found two versions     *)
(* (discover() sets the version first and the chain after it, unlocked).   *)
ChainMatches ==
  api # Undiscovered /\ chain # api => Building # {} \/ found # {api}

(* An answer not brought to the newest version ("adapts responses from     *)
(* older slurmrestd API versions to the latest supported version") comes   *)
(* from those two races only.                                              *)
Adapted(answer) == answer.from = answer.by

WrongOnlyByRace ==
  [][\A t \in Threads :
       Adapt(t) /\ ~Adapted(data'[t]) => Building # {} \/ found # {api}]_vars

(* A client that goes on being pinged is put right, whatever raced: the    *)
(* ping view builds the chain again for the version in use.                *)
EndlesslyPinged ==
  []<>(\E t \in Threads : pc[t] = "discover" /\ view[t] = "ping")

HealedByPings ==
  EndlesslyPinged => <>[](api # Undiscovered => chain = api)
=============================================================================
