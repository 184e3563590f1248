------------------------------ MODULE PagePoller ------------------------------
(***************************************************************************)
(* How a page of the frontend keeps its data up to date                    *)
(* (composables/DataPoller.ts): a loop polls, waits and polls again; what  *)
(* the user chooses stops it and starts another one, while the request of  *)
(* the old one is cancelled but not yet over.  Everything runs in one      *)
(* thread: a step is what runs from an event to the next await.            *)
(***************************************************************************)
EXTENDS Integers, FiniteSets

CONSTANTS
  Params,    \* what may be polled: the cluster, the callback and its parameter
  MaxPolls   \* bound: polls

ASSUME PollerAssumption == MaxPolls \in Nat

VARIABLES
  param,       \* what is to be polled
  generation,  \* _pollGeneration
  stopped,     \* _stop
  mounted,     \* the page is there
  timers,      \* the loops whose timer is pending
  timeout,     \* _timeout: the loop that armed its timer last, or 0
  polls,       \* the requests that are not over
  shown,       \* what the data shown are about, if any
  loaded,
  polled       \* polls so far

pollerVars ==
  <<param, generation, stopped, mounted, timers, timeout, polls, shown, loaded, polled>>

Poll(g, v) == [loop |-> g, param |-> v, cancelled |-> FALSE]

PollerInit ==
  /\ param \in Params
  /\ generation = 1 /\ stopped = FALSE /\ mounted = TRUE
  /\ timers = {} /\ timeout = 0
  /\ polls = {Poll(1, param)}
  /\ shown = {} /\ loaded = FALSE
  /\ polled = 1

-----------------------------------------------------------------------------
(* start(), up to its poll.                                                *)
StartLoop(v, g, others) ==
  /\ polled < MaxPolls /\ polled' = polled + 1
  /\ generation' = g + 1
  /\ stopped' = FALSE
  /\ polls' = others \cup {Poll(g + 1, v)}

(* stop(): the requests are yet to be told that they are cancelled.        *)
Cancelled == {[p EXCEPT !.cancelled = TRUE] : p \in polls}
ClearTimer == timers' = timers \ {timeout} /\ timeout' = 0

StopLoop(others) ==
  /\ stopped' = TRUE /\ generation' = generation + 1
  /\ ClearTimer
  /\ polls' = others

(* The loop goes on only if it is the latest.  The mutant trusts _stop.    *)
GoesOn_NotStopped(g) == ~stopped

GoesOn(g) == ~stopped /\ g = generation

Rest(p) ==
  /\ polls' = polls \ {p}
  /\ IF GoesOn(p.loop) THEN timers' = timers \cup {p.loop} /\ timeout' = p.loop
     ELSE UNCHANGED <<timers, timeout>>
  /\ UNCHANGED <<param, generation, stopped, mounted, polled>>

Receive(p) ==
  /\ p \in polls /\ ~p.cancelled
  /\ shown' = {p.param} /\ loaded' = TRUE
  /\ Rest(p)

(* Any error but a denial, the cancellation included.                      *)
Fails(p) ==
  /\ p \in polls
  /\ Rest(p)
  /\ UNCHANGED <<shown, loaded>>

(* PermissionError: the loop stops itself.                                 *)
Denied(p) ==
  /\ p \in polls /\ ~p.cancelled
  /\ StopLoop(Cancelled \ {[p EXCEPT !.cancelled = TRUE]})
  /\ UNCHANGED <<param, mounted, shown, loaded, polled>>

Fire(g) ==
  /\ g \in timers
  /\ timers' = timers \ {g}
  /\ IF g = generation THEN StartLoop(param, generation, polls)
     ELSE UNCHANGED <<generation, stopped, polls, polled>>
  /\ UNCHANGED <<param, mounted, timeout, shown, loaded>>

(* setCluster(), setCallback() and setParam().                             *)
SetParam(v) ==
  /\ mounted
  /\ v # param /\ param' = v
  /\ loaded' = FALSE
  /\ ClearTimer
  /\ StartLoop(v, generation + 1, Cancelled)
  /\ UNCHANGED <<mounted, shown>>

Unmount ==
  /\ mounted /\ mounted' = FALSE
  /\ StopLoop(Cancelled)
  /\ UNCHANGED <<param, shown, loaded, polled>>

PollerNext ==
  \/ Unmount
  \/ \E p \in polls : Receive(p) \/ Fails(p) \/ Denied(p)
  \/ \E g \in timers : Fire(g)
  \/ \E v \in Params : SetParam(v)

PollerSpec == PollerInit /\ [][PollerNext]_pollerVars

-----------------------------------------------------------------------------
PollerTypeOK ==
  /\ param \in Params
  /\ generation \in Nat
  /\ stopped \in BOOLEAN /\ mounted \in BOOLEAN /\ loaded \in BOOLEAN
  /\ timers \subseteq 1..generation /\ timeout \in Nat
  /\ polls \subseteq [loop : 1..generation, param : Params, cancelled : BOOLEAN]
  /\ shown \subseteq Params
  /\ polled \in Nat

(* One loop runs until it is denied what it polls, or the page is left,    *)
(* and then none: however often the choice changes while a request is out, *)
(* loops do not stack and the page does not stop polling.  Data that are   *)
(* told to be loaded are those of the current choice.                      *)
Live == {p.loop : p \in {q \in polls : ~q.cancelled}}

OneLoop ==
  /\ ~mounted => stopped
  /\ timers \cup Live = IF stopped THEN {} ELSE {generation}
  /\ timers \cap Live = {}
  /\ loaded => shown = {param}
=============================================================================
