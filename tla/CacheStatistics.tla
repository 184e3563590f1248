---------------------------- MODULE CacheStatistics ----------------------------
(***************************************************************************)
(* The agent's cache of slurmrestd answers (slurmrestd/__init__.py,        *)
(* _cached()) and the statistics kept about it (cache.py), in Redis.  Each *)
(* call is one Redis command and is atomic; what a request or a reset does *)
(* takes several, between those of the others, and any of them may fail.   *)
(***************************************************************************)
EXTENDS Integers, Sequences, FiniteSets

CONSTANTS
  Clients,     \* request threads of the agent
  Keys,        \* what is cached
  Expiration,  \* how long an answer is kept, in ticks
  Holding,     \* bound: ticks a thread takes to store the answer it got
  MaxRequests, \* bound: requests
  MaxResets    \* bound: resets

ASSUME CacheAssumption ==
  /\ Keys # {}
  /\ Expiration \in Nat \ {0} /\ Holding \in Nat
  /\ MaxRequests \in Nat /\ MaxResets \in Nat

None == -1
Sides == {"hit", "miss"}

VARIABLES
  age,        \* of the answer stored for each key, or None
  life,       \* ticks before it expires
  counter,    \* cache-hit-<key> and cache-miss-<key>
  listed,     \* cache-hit-keys and cache-miss-keys
  total,      \* cache-hit-total and cache-miss-total
  client,     \* where each thread is, with its key, its answer and for how long
  reset,      \* the commands reset() has yet to run
  doomed,     \* the counters it has yet to delete
  asked,      \* requests so far
  resets,     \* resets so far
  apart       \* history: a reset ran during a count, or a failure cut either

cacheVars == <<age, life, counter, listed, total, client, reset, doomed, asked, resets, apart>>
stored == <<age, life>>
statistics == <<counter, listed, total>>

Idle == [at |-> "idle", key |-> CHOOSE k \in Keys : TRUE, age |-> None, held |-> 0,
         side |-> "hit"]

CacheInit ==
  /\ age = [k \in Keys |-> None] /\ life = [k \in Keys |-> 0]
  /\ counter = [s \in Sides |-> [k \in Keys |-> 0]]
  /\ listed = [s \in Sides |-> {}]
  /\ total = [s \in Sides |-> 0]
  /\ client = [c \in Clients |-> Idle]
  /\ reset = <<>> /\ doomed = {}
  /\ asked = 0 /\ resets = 0
  /\ apart = FALSE

Counting == {c \in Clients : client[c].at \in {"list", "count", "total"}}
InProgress(c, at) == client[c].at = at
Update(c, state) == client' = [client EXCEPT ![c] = state]

(* get(): a hit is counted, a miss is queried first.  The mutant keeps an  *)
(* answer for longer each time it is asked for.                            *)
AfterHit_Renewed(k) == IF age[k] = None THEN life ELSE [life EXCEPT ![k] = Expiration]

AfterHit(k) == life

Get(c, k) ==
  /\ InProgress(c, "idle")
  /\ asked < MaxRequests /\ asked' = asked + 1
  /\ Update(c, IF age[k] = None
                 THEN [Idle EXCEPT !.at = "query", !.key = k, !.side = "miss"]
                 ELSE [Idle EXCEPT !.at = "list", !.key = k, !.age = age[k]])
  /\ life' = AfterHit(k)
  /\ apart' = (apart \/ (age[k] # None /\ reset # <<>>))
  /\ UNCHANGED <<age, statistics, reset, doomed, resets>>

Query(c) ==
  /\ InProgress(c, "query")
  /\ Update(c, [client[c] EXCEPT !.at = "put", !.age = 0])
  /\ UNCHANGED <<stored, statistics, reset, doomed, apart, asked, resets>>

Put(c) ==
  /\ InProgress(c, "put")
  /\ age' = [age EXCEPT ![client[c].key] = client[c].age]
  /\ life' = [life EXCEPT ![client[c].key] = Expiration]
  /\ Update(c, [client[c] EXCEPT !.at = "list", !.held = 0])
  /\ apart' = (apart \/ reset # <<>>)
  /\ UNCHANGED <<statistics, reset, doomed, asked, resets>>

(* count_hit() and count_miss().                                           *)
List(c) ==
  /\ InProgress(c, "list")
  /\ listed' = [listed EXCEPT ![client[c].side] = @ \cup {client[c].key}]
  /\ Update(c, [client[c] EXCEPT !.at = "count"])
  /\ UNCHANGED <<stored, counter, total, reset, doomed, apart, asked, resets>>

Count(c) ==
  /\ InProgress(c, "count")
  /\ counter' = [counter EXCEPT ![client[c].side][client[c].key] = @ + 1]
  /\ Update(c, [client[c] EXCEPT !.at = "total"])
  /\ UNCHANGED <<stored, listed, total, reset, doomed, apart, asked, resets>>

Total(c) ==
  /\ InProgress(c, "total")
  /\ total' = [total EXCEPT ![client[c].side] = @ + 1]
  /\ Update(c, Idle)
  /\ UNCHANGED <<stored, counter, listed, reset, doomed, apart, asked, resets>>

(* Redis, or slurmrestd, fails the thread.                                 *)
Fail(c) ==
  /\ ~InProgress(c, "idle")
  /\ Update(c, Idle)
  /\ apart' = (apart \/ InProgress(c, "total"))
  /\ UNCHANGED <<stored, statistics, reset, doomed, asked, resets>>

Elapsed ==
  /\ (\E k \in Keys : age[k] # None) \/ (\E c \in Clients : InProgress(c, "put"))
  /\ \A c \in Clients : InProgress(c, "put") => client[c].held < Holding
  /\ age' = [k \in Keys |-> IF life[k] > 1 THEN age[k] + 1 ELSE None]
  /\ life' = [k \in Keys |-> IF life[k] > 1 THEN life[k] - 1 ELSE 0]
  /\ client' = [c \in Clients |->
       IF InProgress(c, "put") THEN [client[c] EXCEPT !.age = @ + 1, !.held = @ + 1]
       ELSE client[c]]
  /\ UNCHANGED <<statistics, reset, doomed, apart, asked, resets>>

-----------------------------------------------------------------------------
(* reset(): the totals, then the counters of the keys listed, then the     *)
(* lists.  The mutant forgets the total of the misses.                     *)
Commands_OneTotal ==
  <<<<"total", "hit">>, <<"look", "hit">>, <<"delete", "hit">>,
    <<"look", "miss">>, <<"delete", "miss">>, <<"unlist", "hit">>, <<"unlist", "miss">>>>

Commands ==
  <<<<"total", "hit">>, <<"total", "miss">>, <<"look", "hit">>, <<"delete", "hit">>,
    <<"look", "miss">>, <<"delete", "miss">>, <<"unlist", "hit">>, <<"unlist", "miss">>>>

Resetting(command) == reset # <<>> /\ Head(reset)[1] = command
Side == Head(reset)[2]

StartReset ==
  /\ reset = <<>>
  /\ resets < MaxResets /\ resets' = resets + 1
  /\ reset' = Commands
  /\ apart' = (apart \/ Counting # {})
  /\ UNCHANGED <<stored, statistics, client, doomed, asked>>

ResetTotal ==
  /\ Resetting("total")
  /\ total' = [total EXCEPT ![Side] = 0]
  /\ reset' = Tail(reset)
  /\ UNCHANGED <<stored, counter, listed, client, doomed, apart, asked, resets>>

LookUpKeys ==
  /\ Resetting("look")
  /\ doomed' = listed[Side]
  /\ reset' = Tail(reset)
  /\ UNCHANGED <<stored, statistics, client, apart, asked, resets>>

DeleteCounter ==
  /\ Resetting("delete")
  /\ IF doomed = {} THEN reset' = Tail(reset) /\ UNCHANGED <<counter, doomed>>
     ELSE \E k \in doomed :
            /\ counter' = [counter EXCEPT ![Side][k] = 0]
            /\ doomed' = doomed \ {k}
            /\ UNCHANGED reset
  /\ UNCHANGED <<stored, listed, total, client, apart, asked, resets>>

Unlist ==
  /\ Resetting("unlist")
  /\ listed' = [listed EXCEPT ![Side] = {}]
  /\ reset' = Tail(reset)
  /\ UNCHANGED <<stored, counter, total, client, doomed, apart, asked, resets>>

ResetFails ==
  /\ reset # <<>>
  /\ reset' = <<>> /\ doomed' = {}
  /\ apart' = TRUE
  /\ UNCHANGED <<stored, statistics, client, asked, resets>>

CacheNext ==
  \/ Elapsed
  \/ \E c \in Clients : \/ \E k \in Keys : Get(c, k)
                        \/ Query(c) \/ Put(c) \/ List(c) \/ Count(c) \/ Total(c) \/ Fail(c)
  \/ StartReset \/ ResetTotal \/ LookUpKeys \/ DeleteCounter \/ Unlist \/ ResetFails

CacheSpec == CacheInit /\ [][CacheNext]_cacheVars

-----------------------------------------------------------------------------
CacheTypeOK ==
  /\ age \in [Keys -> None..(Expiration + Holding)]
  /\ life \in [Keys -> 0..Expiration]
  /\ counter \in [Sides -> [Keys -> 0..MaxRequests]]
  /\ listed \in [Sides -> SUBSET Keys]
  /\ total \in [Sides -> 0..MaxRequests]
  /\ doomed \subseteq Keys /\ apart \in BOOLEAN

(* Whatever the misses that overlap and the order their answers are stored *)
(* in, no request is served an answer older than the cache keeps one, plus *)
(* what storing it took: storing an old answer late does not last longer.  *)
ServedFresh ==
  \A c \in Clients : client[c].age < Expiration + Holding

(* The totals are the sums of the counters, all of them listed, unless a   *)
(* reset ran while a request was being counted or a failure cut one of     *)
(* them between two commands: these drift apart and no later reset heals   *)
(* a counter that has lost its place in the list.                          *)
Positive(s) == {k \in Keys : counter[s][k] > 0}
InCounters(s) == UNION {{k} \X (1..counter[s][k]) : k \in Keys}
NotInTotal(s) == {c \in Clients : InProgress(c, "total") /\ client[c].side = s}
TotalsAgree ==
  ~apart /\ reset = <<>> =>
    \A s \in Sides :
      /\ total[s] + Cardinality(NotInTotal(s)) = Cardinality(InCounters(s))
      /\ Positive(s) \subseteq listed[s]
=============================================================================
