------------------------------ MODULE AgentProofs ------------------------------
(***************************************************************************)
(* Proofs about the parts of the agent that its request threads share: the *)
(* token shown to slurmrestd, the cache of its answers, and the figures    *)
(* derived from them.                                                      *)
(***************************************************************************)
EXTENDS TokenRenewal, CacheStatistics, AgentViews, ClusterStats, SequenceTheorems,
        FiniteSetTheorems, TLAPS

-----------------------------------------------------------------------------
(* The token.                                                              *)

Storing == \E d \in Callers : step[d] \in {"store", "replace"}

(* But for what it took to store it, the token outlasts the expiration     *)
(* that threads look at, and the margin it had when a thread looked,       *)
(* unless one is about to be stored.                                       *)
TokenInv ==
  /\ TokenTypeOK
  /\ \A c \in Callers : step[c] \in {"gap", "renew", "replace", "send"} => token # NoToken
  /\ token = NoToken \/ token >= expiration - Delay \/ Storing
  /\ \A c \in Callers :
       step[c] = "send" => token >= Margin - Delay - waited[c] \/ Storing

LEMMA TokenInitially == TokenInit => TokenInv
BY TokenAssumption DEF TokenInit, TokenInv, TokenTypeOK, NoToken, Storing

LEMMA TokenStep == TokenInv /\ [TokenNext]_tokenVars => TokenInv'
<1> SUFFICES ASSUME TokenInv, [TokenNext]_tokenVars PROVE TokenInv'
  OBVIOUS
<1> USE TokenAssumption DEF TokenInv, TokenTypeOK, NoToken, Go
<1>1. CASE Elapse
  BY <1>1 DEF Elapse, Timed, Storing
<1>2. ASSUME NEW c \in Callers, Call(c) PROVE TokenInv'
  BY <1>2 DEF Call, Storing
<1>3. ASSUME NEW c \in Callers, Generate(c) PROVE TokenInv'
  <2>1. Storing'
    BY <1>3 DEF Generate, Storing
  <2> QED BY <1>3, <2>1 DEF Generate
<1>4. ASSUME NEW c \in Callers, Store(c) PROVE TokenInv'
  BY <1>4 DEF Store
<1>5. ASSUME NEW c \in Callers, Gap(c) PROVE TokenInv'
  <2>1. Storing => Storing'
    BY <1>5 DEF Gap, Storing
  <2> QED BY <1>5, <2>1 DEF Gap, Soon
<1>6. ASSUME NEW c \in Callers, Send(c) PROVE TokenInv'
  <2>1. Storing => Storing'
    BY <1>6 DEF Send, Storing
  <2> QED BY <1>6, <2>1 DEF Send
<1>7. CASE UNCHANGED tokenVars
  BY <1>7 DEF tokenVars, Storing
<1> QED BY <1>1, <1>2, <1>3, <1>4, <1>5, <1>6, <1>7 DEF TokenNext

(* No thread of the agent reads an expired token for slurmrestd but while  *)
(* another one is between setting the expiration of the next token and     *)
(* storing that token (SlurmrestdAuthentifier.headers()), for any number   *)
(* of threads, any lifespan, any margin and any delay below half of it.    *)
THEOREM ExpiredTokens == TokenSpec => []ExpiredOnlyDuringRenewal
<1>1. TokenInv => ExpiredOnlyDuringRenewal
  BY TokenAssumption DEF TokenInv, TokenTypeOK, ExpiredOnlyDuringRenewal, Storing, NoToken
<1> QED BY <1>1, TokenInitially, TokenStep, PTL DEF TokenSpec

-----------------------------------------------------------------------------
(* The cache.                                                              *)

(* What is stored for a key has been so for as long as its life is short   *)
(* of the expiration, and was held before; what a thread carries is what   *)
(* it got, or what was stored.                                             *)
Client ==
  [at : {"idle", "query", "put", "list", "count", "total"},
   key : Keys, age : Int, held : Int, side : Sides]

Carries(state) ==
  /\ state.age < Expiration + Holding
  /\ state.at = "put" => state.age = state.held /\ state.held \in 0..Holding
  /\ state.at \in {"idle", "query"} => state.held = 0

StoredInv ==
  /\ age \in [Keys -> Int] /\ life \in [Keys -> Int]
  /\ \A k \in Keys :
       IF age[k] = None THEN life[k] = 0
       ELSE life[k] >= 1 /\ age[k] >= 0 /\ age[k] + life[k] <= Expiration + Holding

CarriedInv ==
  /\ client \in [Clients -> Client]
  /\ \A c \in Clients : Carries(client[c])

CacheInv == StoredInv /\ CarriedInv

(* A field of what a thread carries is set.                                *)
LEMMA ClientFields ==
  ASSUME NEW state \in Client
  PROVE  /\ \A x \in {"idle", "query", "put", "list", "count", "total"} :
              [state EXCEPT !.at = x] \in Client
         /\ \A x \in Keys : [state EXCEPT !.key = x] \in Client
         /\ \A x \in Int : [state EXCEPT !.age = x] \in Client
         /\ \A x \in Int : [state EXCEPT !.held = x] \in Client
         /\ \A x \in Sides : [state EXCEPT !.side = x] \in Client
BY DEF Client

LEMMA IdleCarries == Idle \in Client /\ Carries(Idle)
BY CacheAssumption DEF Idle, Client, Carries, None, Sides

LEMMA CacheInitially == CacheInit => CacheInv
BY IdleCarries DEF CacheInit, CacheInv, StoredInv, CarriedInv, None

(* A step of one thread.                                                   *)
LEMMA OneCarries ==
  ASSUME CarriedInv, NEW c \in Clients, NEW state \in Client, Carries(state),
         Update(c, state)
  PROVE  CarriedInv'
BY DEF CarriedInv, Update

LEMMA CacheStep == CacheInv /\ [CacheNext]_cacheVars => CacheInv'
<1> SUFFICES ASSUME CacheInv, [CacheNext]_cacheVars PROVE CacheInv'
  OBVIOUS
<1> USE DEF CacheInv, InProgress, stored, statistics
<1> DEFINE At(c, place) == [client[c] EXCEPT !.at = place]
<1>1. CASE Elapsed
  <2>1. StoredInv'
    <3>1. ASSUME NEW k \in Keys
          PROVE  /\ age'[k] \in Int /\ life'[k] \in Int
                 /\ IF age'[k] = None THEN life'[k] = 0
                    ELSE /\ life'[k] >= 1 /\ age'[k] >= 0
                         /\ age'[k] + life'[k] <= Expiration + Holding
      <4>1. age[k] \in Int /\ life[k] \in Int /\ Expiration \in Int /\ Holding \in Int
        BY CacheAssumption DEF StoredInv
      <4>2. CASE life[k] > 1
        <5>1. age'[k] = age[k] + 1 /\ life'[k] = life[k] - 1
          BY <1>1, <4>2 DEF Elapsed
        <5> QED
          BY <4>1, <4>2, <5>1 DEF StoredInv, None
      <4>3. CASE ~(life[k] > 1)
        <5>1. age'[k] = None /\ life'[k] = 0
          BY <1>1, <4>3 DEF Elapsed
        <5> QED
          BY <5>1 DEF None
      <4> QED
        BY <4>2, <4>3
    <3>2. age' = [k \in Keys |-> age'[k]] /\ life' = [k \in Keys |-> life'[k]]
      BY <1>1 DEF Elapsed
    <3>3. age' \in [Keys -> Int] /\ life' \in [Keys -> Int]
      BY <3>1, <3>2
    <3> QED
      BY <3>1, <3>3 DEF StoredInv
  <2>2. ASSUME NEW c \in Clients PROVE client'[c] \in Client /\ Carries(client'[c])
    <3>1. client[c] \in Client /\ Carries(client[c])
      BY DEF CarriedInv
    <3>2. CASE client[c].at = "put"
      <4>1. client'[c] = [client[c] EXCEPT !.age = @ + 1, !.held = @ + 1]
        BY <1>1, <3>2 DEF Elapsed
      <4>2. client[c].held < Holding
        BY <1>1, <3>2 DEF Elapsed
      <4>3. client[c].age \in Int /\ client[c].held \in Int
        BY <3>1 DEF Client
      <4>4. client'[c] \in Client
        <5>1. client[c].age + 1 \in Int /\ client[c].held + 1 \in Int
          BY <4>3
        <5>2. [client[c] EXCEPT !.age = @ + 1] \in Client
          BY <3>1, <5>1, ClientFields
        <5> QED
          BY <4>1, <5>1, <5>2, ClientFields
      <4>5. /\ client'[c].age = client[c].age + 1 /\ client'[c].held = client[c].held + 1
            /\ client'[c].at = "put"
        BY <3>1, <3>2, <4>1 DEF Client
      <4> QED
        BY <3>1, <3>2, <4>2, <4>3, <4>4, <4>5, CacheAssumption DEF Carries
    <3>3. CASE client[c].at # "put"
      BY <1>1, <3>1, <3>3 DEF Elapsed
    <3> QED
      BY <3>2, <3>3
  <2> QED
    BY <1>1, <2>1, <2>2 DEF Elapsed, CarriedInv
<1>2. ASSUME NEW c \in Clients, NEW k \in Keys, Get(c, k) PROVE CacheInv'
  <2>1. StoredInv'
    BY <1>2 DEF Get, AfterHit, StoredInv
  <2>2. CASE age[k] = None
    <3> DEFINE state == [Idle EXCEPT !.at = "query", !.key = k, !.side = "miss"]
    <3>1. state \in Client
      BY IdleCarries, ClientFields DEF Sides
    <3>2. Carries(state)
      BY CacheAssumption DEF Carries, Idle, None
    <3>3. Update(c, state)
      BY <1>2, <2>2 DEF Get
    <3> QED
      BY <2>1, <3>1, <3>2, <3>3, OneCarries
  <2>3. CASE age[k] # None
    <3> DEFINE state == [Idle EXCEPT !.at = "list", !.key = k, !.age = age[k]]
    <3>1. age[k] \in Int /\ age[k] < Expiration + Holding
      BY <2>3, CacheAssumption DEF StoredInv
    <3>2. state \in Client
      BY <3>1, IdleCarries, ClientFields
    <3>3. Carries(state)
      BY <3>1, CacheAssumption DEF Carries, Idle, None
    <3>4. Update(c, state)
      BY <1>2, <2>3 DEF Get
    <3> QED
      BY <2>1, <3>2, <3>3, <3>4, OneCarries
  <2> QED
    BY <2>2, <2>3
<1>3. ASSUME NEW c \in Clients, Query(c) PROVE CacheInv'
  <2> DEFINE state == [client[c] EXCEPT !.at = "put", !.age = 0]
  <2>1. client[c] \in Client /\ Carries(client[c]) /\ client[c].at = "query"
    BY <1>3 DEF Query, CarriedInv
  <2>2. state \in Client
    BY <2>1, ClientFields, 0 \in Int
  <2>3. state.at = "put" /\ state.age = 0 /\ state.held = client[c].held
    BY <2>1 DEF Client
  <2>4. Carries(state)
    BY <2>1, <2>3, CacheAssumption DEF Carries
  <2> QED
    BY <1>3, <2>2, <2>4, OneCarries DEF Query, StoredInv
<1>4. ASSUME NEW c \in Clients, Put(c) PROVE CacheInv'
  <2> DEFINE state == [client[c] EXCEPT !.at = "list", !.held = 0]
  <2>1. client[c] \in Client /\ Carries(client[c])
    BY DEF CarriedInv
  <2>2. state \in Client
    BY <2>1, ClientFields, 0 \in Int
  <2>3. state.at = "list" /\ state.age = client[c].age
    BY <2>1 DEF Client
  <2>4. Carries(state)
    BY <2>1, <2>3 DEF Carries
  <2>5. StoredInv'
    <3>1. client[c].age \in 0..Holding
      BY <1>4, <2>1 DEF Put, Carries
    <3>2. /\ age' = [age EXCEPT ![client[c].key] = client[c].age]
          /\ life' = [life EXCEPT ![client[c].key] = Expiration]
      BY <1>4 DEF Put
    <3>3. ASSUME NEW j, NEW a \in 0..Holding,
                 age' = [age EXCEPT ![j] = a], life' = [life EXCEPT ![j] = Expiration]
          PROVE  StoredInv'
      <4>1. a \in Int /\ Expiration \in Int /\ Expiration >= 1 /\ Holding \in Int
            /\ 0 <= a /\ a <= Holding
        BY CacheAssumption
      <4>2. age' \in [Keys -> Int] /\ life' \in [Keys -> Int]
        BY <3>3, <4>1 DEF StoredInv
      <4>3. ASSUME NEW k \in Keys
            PROVE  IF age'[k] = None THEN life'[k] = 0
                   ELSE /\ life'[k] >= 1 /\ age'[k] >= 0
                        /\ age'[k] + life'[k] <= Expiration + Holding
        <5>1. CASE k = j
          BY <3>3, <4>1, <5>1 DEF StoredInv, None
        <5>2. CASE k # j
          BY <3>3, <5>2 DEF StoredInv
        <5> QED
          BY <5>1, <5>2
      <4> QED
        BY <4>2, <4>3 DEF StoredInv
    <3> QED
      BY <3>1, <3>2, <3>3
  <2> QED
    BY <1>4, <2>2, <2>4, <2>5, OneCarries DEF Put
<1>5. ASSUME NEW c \in Clients, List(c) \/ Count(c) PROVE CacheInv'
  <2>1. client[c] \in Client /\ Carries(client[c]) /\ client[c].at \in {"list", "count"}
    BY <1>5 DEF CarriedInv, List, Count
  <2>2. At(c, "count") \in Client /\ Carries(At(c, "count"))
    BY <2>1 DEF Client, Carries
  <2>3. At(c, "total") \in Client /\ Carries(At(c, "total"))
    BY <2>1 DEF Client, Carries
  <2> QED
    BY <1>5, <2>2, <2>3, OneCarries DEF List, Count, StoredInv
<1>6. ASSUME NEW c \in Clients, Total(c) \/ Fail(c) PROVE CacheInv'
  BY <1>6, IdleCarries, OneCarries DEF Total, Fail, StoredInv
<1>7. CASE StartReset \/ ResetTotal \/ LookUpKeys \/ DeleteCounter \/ Unlist \/ ResetFails
  BY <1>7 DEF StartReset, ResetTotal, LookUpKeys, DeleteCounter, Unlist, ResetFails,
       StoredInv, CarriedInv
<1>8. CASE UNCHANGED cacheVars
  BY <1>8 DEF cacheVars, StoredInv, CarriedInv
<1> QED
  BY <1>1, <1>2, <1>3, <1>4, <1>5, <1>6, <1>7, <1>8 DEF CacheNext

(* No request of the agent is given an answer older than the cache keeps   *)
(* one and storing it took (_cached(), CachingService.get() and put()),    *)
(* whatever misses overlap, for any threads, keys and expiration.          *)
THEOREM CacheFreshness == CacheSpec => []ServedFresh
<1>1. CacheInv => ServedFresh
  BY DEF CacheInv, CarriedInv, Carries, ServedFresh
<1> QED
  BY <1>1, CacheInitially, CacheStep, PTL DEF CacheSpec

-----------------------------------------------------------------------------
(* The statistics of the cache.                                            *)

Tallies ==
  /\ counter \in [Sides -> [Keys -> Nat]]
  /\ listed \in [Sides -> SUBSET Keys]
  /\ total \in [Sides -> Nat]

FiniteTallies ==
  \A s \in Sides : IsFiniteSet(InCounters(s)) /\ IsFiniteSet(NotInTotal(s))

(* The reset runs its commands in their order: how many are left says      *)
(* which is next.                                                          *)
Order == {"total", "look", "delete", "unlist"} \X Sides

Remaining ==
  /\ reset \in Seq(Order) /\ Len(reset) <= 8
  /\ \A i \in 1..Len(reset) : reset[i] = Commands[8 - Len(reset) + i]

(* What a reset has done when n of its commands are left.                  *)
Cleared(n) ==
  /\ n <= 7 => total["hit"] = 0
  /\ n <= 6 => total["miss"] = 0
  /\ n = 5 => Positive("hit") \subseteq doomed
  /\ n <= 4 => Positive("hit") = {}
  /\ n = 3 => Positive("miss") \subseteq doomed
  /\ n <= 2 => Positive("miss") = {}

(* Statistics that nothing has set apart: a key is listed before it is     *)
(* counted, and nothing is counted while a reset runs.                     *)
Together ==
  /\ \A s \in Sides : Positive(s) \subseteq listed[s]
  /\ \A c \in Clients : client[c].at = "count" => client[c].key \in listed[client[c].side]
  /\ IF reset = <<>>
       THEN \A s \in Sides :
              total[s] + Cardinality(NotInTotal(s)) = Cardinality(InCounters(s))
       ELSE Counting = {} /\ Cleared(Len(reset))

TotalsInv == Tallies /\ FiniteTallies /\ Remaining /\ (~apart => Together)

LEMMA CommandsAre ==
  /\ Commands \in Seq(Order) /\ Len(Commands) = 8
  /\ Commands[1] = <<"total", "hit">> /\ Commands[2] = <<"total", "miss">>
  /\ Commands[3] = <<"look", "hit">> /\ Commands[4] = <<"delete", "hit">>
  /\ Commands[5] = <<"look", "miss">> /\ Commands[6] = <<"delete", "miss">>
  /\ Commands[7] = <<"unlist", "hit">> /\ Commands[8] = <<"unlist", "miss">>
BY DEF Commands, Order, Sides

LEMMA OneToEight ==
  /\ 1..8 = {1, 2, 3, 4, 5, 6, 7, 8}
  /\ 9 - 8 = 1 /\ 9 - 7 = 2 /\ 9 - 6 = 3 /\ 9 - 5 = 4
  /\ 9 - 4 = 5 /\ 9 - 3 = 6 /\ 9 - 2 = 7 /\ 9 - 1 = 8
OBVIOUS

(* The next command, by how many are left.                                 *)
LEMMA NextCommand ==
  ASSUME Remaining, reset # <<>>
  PROVE  /\ Len(reset) \in 1..8 /\ Head(reset) = Commands[9 - Len(reset)]
         /\ Resetting("total") => Len(reset) \in {7, 8}
         /\ Resetting("look") => Len(reset) \in {4, 6}
         /\ Resetting("delete") => Len(reset) \in {3, 5}
         /\ Resetting("unlist") => Len(reset) \in {1, 2}
         /\ Side = IF Len(reset) \in {8, 6, 5, 2} THEN "hit" ELSE "miss"
<1>1. PICK n : n = Len(reset)
  OBVIOUS
<1>2. n \in Nat /\ n # 0 /\ n <= 8 /\ Head(reset) = reset[1]
  BY <1>1, LenProperties, EmptySeq DEF Remaining
<1>3. n \in 1..8 /\ 1 \in 1..n /\ 8 - n + 1 = 9 - n
  BY <1>2
<1>4. Head(reset) = Commands[9 - n]
  BY <1>1, <1>2, <1>3 DEF Remaining
<1>5. /\ n \in {1, 2, 3, 4, 5, 6, 7, 8}
      /\ n = 8 => 9 - n = 1
      /\ n = 7 => 9 - n = 2
      /\ n = 6 => 9 - n = 3
      /\ n = 5 => 9 - n = 4
      /\ n = 4 => 9 - n = 5
      /\ n = 3 => 9 - n = 6
      /\ n = 2 => 9 - n = 7
      /\ n = 1 => 9 - n = 8
  BY <1>3, OneToEight
<1>6. /\ n = 8 => Head(reset) = <<"total", "hit">>
      /\ n = 7 => Head(reset) = <<"total", "miss">>
      /\ n = 6 => Head(reset) = <<"look", "hit">>
      /\ n = 5 => Head(reset) = <<"delete", "hit">>
      /\ n = 4 => Head(reset) = <<"look", "miss">>
      /\ n = 3 => Head(reset) = <<"delete", "miss">>
      /\ n = 2 => Head(reset) = <<"unlist", "hit">>
      /\ n = 1 => Head(reset) = <<"unlist", "miss">>
  BY <1>4, <1>5, CommandsAre
<1>7. PICK command, side : command = Head(reset)[1] /\ side = Head(reset)[2]
  OBVIOUS
<1>8. /\ command = "total" => n \in {7, 8}
      /\ command = "look" => n \in {4, 6}
      /\ command = "delete" => n \in {3, 5}
      /\ command = "unlist" => n \in {1, 2}
  BY <1>5, <1>6, <1>7
<1>9. side = IF n \in {8, 6, 5, 2} THEN "hit" ELSE "miss"
  BY <1>5, <1>6, <1>7
<1> QED
  BY <1>1, <1>3, <1>4, <1>7, <1>8, <1>9 DEF Resetting, Side

LEMMA CommandDone ==
  ASSUME Remaining, reset # <<>>, reset' = Tail(reset)
  PROVE  Remaining' /\ Len(reset') = Len(reset) - 1 /\ (reset' = <<>> <=> Len(reset) = 1)
<1>1. PICK n : n = Len(reset)
  OBVIOUS
<1>2. /\ n \in Nat /\ n # 0 /\ n <= 8
      /\ reset' \in Seq(Order) /\ Len(reset') = n - 1
      /\ \A i \in 1..(n - 1) : reset'[i] = reset[i + 1]
  BY <1>1, LenProperties, EmptySeq, HeadTailProperties DEF Remaining
<1>3. n - 1 <= 8 /\ \A i \in 1..(n - 1) : i + 1 \in 1..n /\ 8 - n + (i + 1) = 8 - (n - 1) + i
  BY <1>2
<1>4. \A i \in 1..n : reset[i] = Commands[8 - n + i]
  BY <1>1 DEF Remaining
<1>5. \A i \in 1..(n - 1) : reset'[i] = Commands[8 - (n - 1) + i]
  BY <1>2, <1>3, <1>4
<1>6. reset' = <<>> <=> n = 1
  <2>1. reset' = <<>> <=> Len(reset') = 0
    BY <1>2, EmptySeq
  <2>2. n - 1 = 0 <=> n = 1
    BY <1>2
  <2> QED
    BY <1>2, <2>1, <2>2
<1> QED
  BY <1>1, <1>2, <1>3, <1>5, <1>6 DEF Remaining

LEMMA InCountersAre ==
  ASSUME NEW s, NEW p
  PROVE  p \in InCounters(s) <=> \E k \in Keys : \E i \in 1..counter[s][k] : p = <<k, i>>
BY DEF InCounters

LEMMA TotalsInitially == CacheInit => TotalsInv
<1> SUFFICES ASSUME CacheInit PROVE TotalsInv
  OBVIOUS
<1> USE DEF CacheInit
<1>1. Tallies
  BY DEF Tallies
<1>2. \A s \in Sides : InCounters(s) = {} /\ Positive(s) = {}
  <2>1. 1..0 = {}
    OBVIOUS
  <2> QED
    BY <2>1 DEF InCounters, Positive
<1>3. \A c \in Clients : client[c].at = "idle"
  BY DEF Idle
<1>4. \A s \in Sides : NotInTotal(s) = {}
  BY <1>3 DEF NotInTotal, InProgress
<1>5. FiniteTallies
  BY <1>2, <1>4, FS_EmptySet DEF FiniteTallies
<1>6. Remaining
  BY EmptySeq DEF Remaining
<1>7. Together
  <2>1. \A s \in Sides : total[s] + Cardinality(NotInTotal(s)) = Cardinality(InCounters(s))
    <3> TAKE s \in Sides
    <3>1. total[s] = 0 /\ Cardinality(NotInTotal(s)) = 0 /\ Cardinality(InCounters(s)) = 0
      BY <1>2, <1>4, FS_EmptySet
    <3> QED
      BY <3>1
  <2> QED
    BY <1>2, <1>3, <2>1 DEF Together
<1> QED
  BY <1>1, <1>5, <1>6, <1>7 DEF TotalsInv

(* A thread moves, but neither to nor from the count of the total.         *)
LEMMA ThreadMoves ==
  ASSUME CacheInv, TotalsInv, NEW c \in Clients, NEW state \in Client, Update(c, state),
         client[c].at # "total", state.at # "total",
         UNCHANGED <<counter, total, reset, doomed>>,
         listed' \in [Sides -> SUBSET Keys], \A s \in Sides : listed[s] \subseteq listed'[s],
         state.at = "count" => state.key \in listed'[state.side],
         ~apart' => ~apart /\ (reset = <<>> \/ c \in Counting \/ state.at \notin {"list", "count"})
  PROVE  TotalsInv'
<1>1. \A d \in Clients : client'[d] = IF d = c THEN state ELSE client[d]
  BY DEF CacheInv, CarriedInv, Update
<1>2. \A s \in Sides : NotInTotal(s)' = NotInTotal(s)
  BY <1>1 DEF NotInTotal, InProgress
<1>3. \A s \in Sides : InCounters(s)' = InCounters(s) /\ Positive(s)' = Positive(s)
  BY DEF InCounters, Positive
<1>4. Tallies' /\ Remaining' /\ FiniteTallies'
  BY <1>2, <1>3 DEF TotalsInv, Tallies, Remaining, FiniteTallies
<1>5. ASSUME ~apart' PROVE Together'
  <2>1. Together
    BY <1>5 DEF TotalsInv
  <2>2. \A d \in Clients : client[d].side \in Sides /\ state.side \in Sides
    BY DEF CacheInv, CarriedInv, Client
  <2>3. \A s \in Sides : Positive(s)' \subseteq listed'[s]
    BY <1>3, <2>1 DEF Together
  <2>4. \A d \in Clients : client'[d].at = "count" => client'[d].key \in listed'[client'[d].side]
    BY <1>1, <2>1, <2>2 DEF Together
  <2>5. CASE reset = <<>>
    BY <1>2, <1>3, <2>1, <2>3, <2>4, <2>5 DEF Together
  <2>6. CASE reset # <<>>
    <3>1. Counting = {} /\ Cleared(Len(reset))
      BY <2>1, <2>6 DEF Together
    <3>2. Counting' = {}
      BY <1>1, <1>5, <2>6, <3>1 DEF Counting
    <3>3. Cleared(Len(reset))'
      BY <1>3, <3>1 DEF Cleared, Sides
    <3> QED
      BY <2>3, <2>4, <2>6, <3>2, <3>3 DEF Together
  <2> QED
    BY <2>5, <2>6
<1> QED
  BY <1>4, <1>5 DEF TotalsInv

(* The counter of a key goes up by one, then the total does.               *)
LEMMA CountKeeps ==
  ASSUME CacheInv, TotalsInv, NEW c \in Clients, Count(c)
  PROVE  TotalsInv'
<1>1. PICK s, k : s = client[c].side /\ k = client[c].key
  OBVIOUS
<1>2. /\ s \in Sides /\ k \in Keys /\ client[c] \in Client /\ client[c].at = "count"
      /\ counter' = [counter EXCEPT ![s][k] = @ + 1]
      /\ UNCHANGED <<listed, total, reset, doomed, apart>>
  BY <1>1 DEF Count, CacheInv, CarriedInv, Client, InProgress
<1>3. PICK n : n = counter[s][k]
  OBVIOUS
<1>4. n \in Nat /\ counter \in [Sides -> [Keys -> Nat]]
  BY <1>2, <1>3 DEF TotalsInv, Tallies
<1>5. /\ counter' \in [Sides -> [Keys -> Nat]]
      /\ \A t \in Sides : \A j \in Keys :
           counter'[t][j] = IF t = s /\ j = k THEN n + 1 ELSE counter[t][j]
  BY <1>2, <1>3, <1>4
<1>6. \A d \in Clients : d # c => client'[d] = client[d]
  BY DEF Count, Update, CacheInv, CarriedInv
<1>7. client'[c].at = "total" /\ client'[c].side = s /\ client'[c].key = k
  BY <1>1, <1>2 DEF Count, Update, CacheInv, CarriedInv, Client
<1>8. \A t \in Sides : t # s => InCounters(t)' = InCounters(t) /\ NotInTotal(t)' = NotInTotal(t)
  <2> TAKE t \in Sides
  <2> HAVE t # s
  <2>1. \A j \in Keys : counter'[t][j] = counter[t][j]
    BY <1>5
  <2>2. InCounters(t)' = InCounters(t)
    BY <2>1 DEF InCounters
  <2>3. NotInTotal(t)' = NotInTotal(t)
    BY <1>1, <1>2, <1>6, <1>7 DEF NotInTotal, InProgress
  <2> QED
    BY <2>2, <2>3
<1>9. <<k, n + 1>> \notin InCounters(s)
  <2>1. n + 1 \notin 1..n
    BY <1>4
  <2> QED
    BY <1>3, <2>1, InCountersAre
<1>10. InCounters(s)' = InCounters(s) \cup {<<k, n + 1>>}
  <2>1. \A p : p \in InCounters(s)' <=> \E j \in Keys : \E i \in 1..counter'[s][j] : p = <<j, i>>
    BY DEF InCounters
  <2>2. 1..(n + 1) = (1..n) \cup {n + 1}
    BY <1>4
  <2>3. \A j \in Keys : 1..counter'[s][j] = IF j = k THEN (1..counter[s][j]) \cup {n + 1} ELSE 1..counter[s][j]
    BY <1>2, <1>3, <1>5, <2>2
  <2>4. \A p : p \in InCounters(s)' <=> p \in InCounters(s) \/ p = <<k, n + 1>>
    <3> TAKE p
    <3>1. p \in InCounters(s) <=> \E j \in Keys : \E i \in 1..counter[s][j] : p = <<j, i>>
      BY InCountersAre
    <3>2. ASSUME NEW j \in Keys, NEW i \in 1..counter'[s][j], p = <<j, i>>
          PROVE  p \in InCounters(s) \/ p = <<k, n + 1>>
      BY <2>3, <3>1, <3>2
    <3>3. ASSUME NEW j \in Keys, NEW i \in 1..counter[s][j], p = <<j, i>>
          PROVE  p \in InCounters(s)'
      BY <2>1, <2>3, <3>3
    <3>4. p = <<k, n + 1>> => p \in InCounters(s)'
      BY <1>2, <2>1, <2>3
    <3> QED
      BY <2>1, <3>1, <3>2, <3>3, <3>4
  <2> QED
    BY <2>4
<1>11. NotInTotal(s)' = NotInTotal(s) \cup {c} /\ c \notin NotInTotal(s)
  BY <1>1, <1>2, <1>6, <1>7 DEF NotInTotal, InProgress
<1>12. Tallies' /\ Remaining'
  BY <1>2, <1>5 DEF TotalsInv, Tallies, Remaining
<1>13. /\ IsFiniteSet(InCounters(s)') /\ IsFiniteSet(NotInTotal(s)')
       /\ Cardinality(InCounters(s)') = Cardinality(InCounters(s)) + 1
       /\ Cardinality(NotInTotal(s)') = Cardinality(NotInTotal(s)) + 1
  <2>1. IsFiniteSet(InCounters(s)) /\ IsFiniteSet(NotInTotal(s))
    BY <1>2 DEF TotalsInv, FiniteTallies
  <2> QED
    BY <1>9, <1>10, <1>11, <2>1, FS_AddElement
<1>14. FiniteTallies'
  BY <1>8, <1>13 DEF TotalsInv, FiniteTallies
<1>15. ASSUME ~apart' PROVE Together'
  <2>1. Together /\ c \in Counting
    BY <1>2, <1>15 DEF TotalsInv, Counting
  <2>2. reset = <<>> /\ k \in listed[s]
    BY <1>1, <1>2, <2>1 DEF Together
  <2>3. \A t \in Sides : Positive(t)' \subseteq listed'[t]
    BY <1>2, <1>5, <2>1, <2>2 DEF Positive, Together
  <2>4. \A d \in Clients : client'[d].at = "count" => client'[d].key \in listed'[client'[d].side]
    BY <1>2, <1>6, <1>7, <2>1 DEF Together
  <2>5. total[s] + Cardinality(NotInTotal(s)) = Cardinality(InCounters(s))
    BY <1>2, <2>1, <2>2 DEF Together
  <2>6. total[s] \in Nat /\ Cardinality(NotInTotal(s)) \in Nat /\ Cardinality(InCounters(s)) \in Nat
    BY <1>2, FS_CardinalityType DEF TotalsInv, Tallies, FiniteTallies
  <2>7. total[s] + (Cardinality(NotInTotal(s)) + 1) = Cardinality(InCounters(s)) + 1
    BY <2>5, <2>6
  <2>8. \A t \in Sides : total[t] + Cardinality(NotInTotal(t)') = Cardinality(InCounters(t)')
    BY <1>8, <1>13, <2>1, <2>2, <2>7 DEF Together
  <2> QED
    BY <1>2, <2>2, <2>3, <2>4, <2>8 DEF Together
<1> QED
  BY <1>12, <1>14, <1>15 DEF TotalsInv

LEMMA TotalKeeps ==
  ASSUME CacheInv, TotalsInv, NEW c \in Clients, Total(c)
  PROVE  TotalsInv'
<1>1. PICK s : s = client[c].side
  OBVIOUS
<1>2. /\ s \in Sides /\ client[c].at = "total"
      /\ total' = [total EXCEPT ![s] = @ + 1]
      /\ UNCHANGED <<counter, listed, reset, doomed, apart>>
  BY <1>1 DEF Total, CacheInv, CarriedInv, Client, InProgress
<1>3. /\ \A d \in Clients : d # c => client'[d] = client[d]
      /\ client'[c].at = "idle"
  BY DEF Total, Update, Idle, CacheInv, CarriedInv
<1>4. \A t \in Sides : InCounters(t)' = InCounters(t) /\ Positive(t)' = Positive(t)
  BY <1>2 DEF InCounters, Positive
<1>5. \A t \in Sides : t # s => NotInTotal(t)' = NotInTotal(t)
  BY <1>1, <1>3 DEF NotInTotal, InProgress
<1>6. NotInTotal(s)' = NotInTotal(s) \ {c} /\ c \in NotInTotal(s)
  BY <1>1, <1>2, <1>3 DEF NotInTotal, InProgress
<1>7. /\ IsFiniteSet(NotInTotal(s)')
      /\ Cardinality(NotInTotal(s)') = Cardinality(NotInTotal(s)) - 1
  <2>1. IsFiniteSet(NotInTotal(s))
    BY <1>2 DEF TotalsInv, FiniteTallies
  <2> QED
    BY <1>6, <2>1, FS_RemoveElement
<1>8. FiniteTallies'
  BY <1>4, <1>5, <1>7 DEF TotalsInv, FiniteTallies
<1>9. /\ total' \in [Sides -> Nat]
      /\ total'[s] = total[s] + 1 /\ \A t \in Sides : t # s => total'[t] = total[t]
  BY <1>2 DEF TotalsInv, Tallies
<1>10. Tallies' /\ Remaining'
  BY <1>2, <1>9 DEF TotalsInv, Tallies, Remaining
<1>11. ASSUME ~apart' PROVE Together'
  <2>1. Together /\ c \in Counting
    BY <1>2, <1>11 DEF TotalsInv, Counting
  <2>2. reset = <<>>
    BY <2>1 DEF Together
  <2>3. \A t \in Sides : Positive(t)' \subseteq listed'[t]
    BY <1>2, <1>4, <2>1 DEF Together
  <2>4. \A d \in Clients : client'[d].at = "count" => client'[d].key \in listed'[client'[d].side]
    BY <1>2, <1>3, <2>1 DEF Together
  <2>5. total[s] + Cardinality(NotInTotal(s)) = Cardinality(InCounters(s))
    BY <1>2, <2>1, <2>2 DEF Together
  <2>6. total[s] \in Nat /\ Cardinality(NotInTotal(s)) \in Nat /\ Cardinality(InCounters(s)) \in Nat
    BY <1>2, FS_CardinalityType DEF TotalsInv, Tallies, FiniteTallies
  <2>7. (total[s] + 1) + (Cardinality(NotInTotal(s)) - 1) = Cardinality(InCounters(s))
    BY <2>5, <2>6
  <2>8. \A t \in Sides : total'[t] + Cardinality(NotInTotal(t)') = Cardinality(InCounters(t)')
    BY <1>4, <1>5, <1>7, <1>9, <2>1, <2>2, <2>7 DEF Together
  <2> QED
    BY <1>2, <2>2, <2>3, <2>4, <2>8 DEF Together
<1> QED
  BY <1>8, <1>10, <1>11 DEF TotalsInv

(* A command of a reset is done, and others are left.                      *)
LEMMA ResetGoesOn ==
  ASSUME CacheInv, TotalsInv, reset # <<>>, UNCHANGED <<client, apart>>,
         reset' = reset \/ (reset' = Tail(reset) /\ Len(reset) # 1),
         Tallies', \A s \in Sides : InCounters(s)' \subseteq InCounters(s),
         ~apart => Cleared(Len(reset))' /\ \A s \in Sides : Positive(s)' \subseteq listed'[s]
  PROVE  TotalsInv'
<1>1. Counting' = Counting /\ \A s \in Sides : NotInTotal(s)' = NotInTotal(s)
  BY DEF NotInTotal, InProgress, Counting
<1>2. FiniteTallies'
  <2>1. \A s \in Sides : IsFiniteSet(InCounters(s)) /\ IsFiniteSet(NotInTotal(s))
    BY DEF TotalsInv, FiniteTallies
  <2>2. ASSUME NEW s \in Sides PROVE IsFiniteSet(InCounters(s)')
    BY <2>1, FS_Subset
  <2> QED
    BY <1>1, <2>1, <2>2 DEF FiniteTallies
<1>3. Remaining' /\ reset' # <<>>
  <2>1. CASE reset' = reset
    BY <2>1 DEF TotalsInv, Remaining
  <2>2. CASE reset' = Tail(reset) /\ Len(reset) # 1
    BY <2>2, CommandDone DEF TotalsInv
  <2> QED
    BY <2>1, <2>2
<1>4. ASSUME ~apart PROVE Together'
  <2>1. Counting = {}
    BY <1>4 DEF TotalsInv, Together
  <2>2. \A c \in Clients : client[c].at # "count"
    BY <2>1 DEF Counting
  <2> QED
    BY <1>1, <1>3, <1>4, <2>1, <2>2 DEF Together
<1> QED
  BY <1>2, <1>3, <1>4 DEF TotalsInv

LEMMA ResetStarts == ASSUME CacheInv, TotalsInv, StartReset PROVE TotalsInv'
<1>1. /\ reset' = Commands /\ UNCHANGED <<client, counter, listed, total>>
      /\ apart' = (apart \/ Counting # {})
  BY DEF StartReset, statistics
<1>2. /\ \A s \in Sides : InCounters(s)' = InCounters(s) /\ Positive(s)' = Positive(s)
      /\ \A s \in Sides : NotInTotal(s)' = NotInTotal(s)
      /\ Counting' = Counting
  BY <1>1 DEF InCounters, Positive, NotInTotal, InProgress, Counting
<1>3. Tallies' /\ FiniteTallies'
  BY <1>1, <1>2 DEF TotalsInv, Tallies, FiniteTallies
<1>4. Remaining'
  <2>1. \A i \in 1..8 : 8 - 8 + i = i
    OBVIOUS
  <2> QED
    BY <1>1, <2>1, CommandsAre DEF Remaining
<1>5. ASSUME ~apart' PROVE Together'
  <2>1. Together /\ Counting' = {}
    BY <1>1, <1>2, <1>5 DEF TotalsInv
  <2>2. Len(reset') = 8 /\ reset' # <<>>
    BY <1>1, CommandsAre, EmptySeq
  <2>3. Cleared(Len(reset))'
    BY <2>2 DEF Cleared
  <2> QED
    BY <1>1, <1>2, <2>1, <2>2, <2>3 DEF Together
<1> QED
  BY <1>3, <1>4, <1>5 DEF TotalsInv

LEMMA ResetCut == ASSUME CacheInv, TotalsInv, ResetFails PROVE TotalsInv'
<1>1. reset' = <<>> /\ apart' = TRUE /\ UNCHANGED <<client, counter, listed, total>>
  BY DEF ResetFails, statistics
<1>2. \A s \in Sides : InCounters(s)' = InCounters(s) /\ NotInTotal(s)' = NotInTotal(s)
  BY <1>1 DEF InCounters, NotInTotal, InProgress
<1>3. Tallies' /\ FiniteTallies'
  BY <1>1, <1>2 DEF TotalsInv, Tallies, FiniteTallies
<1>4. Remaining'
  BY <1>1, EmptySeq DEF Remaining
<1> QED
  BY <1>1, <1>3, <1>4 DEF TotalsInv

(* What is done once n commands are left stays done, and one thing more is *)
(* when a command is.                                                      *)
LEMMA CommandKeeps ==
  ASSUME CacheInv, TotalsInv, ResetTotal \/ LookUpKeys \/ DeleteCounter \/ Unlist
  PROVE  TotalsInv'
<1>1. PICK n, s : n = Len(reset) /\ s = Side
  OBVIOUS
<1>2. reset # <<>> /\ UNCHANGED <<client, apart>>
  BY DEF ResetTotal, LookUpKeys, DeleteCounter, Unlist, Resetting
<1>3. /\ n \in {1, 2, 3, 4, 5, 6, 7, 8} /\ s = IF n \in {8, 6, 5, 2} THEN "hit" ELSE "miss"
      /\ Resetting("total") => n \in {7, 8}
      /\ Resetting("look") => n \in {4, 6}
      /\ Resetting("delete") => n \in {3, 5}
      /\ Resetting("unlist") => n \in {1, 2}
  BY <1>1, <1>2, NextCommand, OneToEight DEF TotalsInv
<1>4. /\ Sides = {"hit", "miss"} /\ s \in Sides
      /\ counter \in [Sides -> [Keys -> Nat]] /\ listed \in [Sides -> SUBSET Keys]
      /\ total \in [Sides -> Nat]
  BY <1>3 DEF Sides, TotalsInv, Tallies
<1>5. ASSUME reset' = Tail(reset) PROVE Len(reset') = n - 1
  BY <1>1, <1>2, <1>5, CommandDone DEF TotalsInv
<1>6. ASSUME ~apart
      PROVE  Counting = {} /\ Cleared(n) /\ \A t \in Sides : Positive(t) \subseteq listed[t]
  BY <1>1, <1>2, <1>6 DEF TotalsInv, Together
<1>7. ASSUME ResetTotal PROVE TotalsInv'
  <2>1. /\ total' = [total EXCEPT ![s] = 0] /\ UNCHANGED <<counter, listed, doomed>>
        /\ reset' = Tail(reset) /\ n \in {7, 8}
    BY <1>1, <1>3, <1>7 DEF ResetTotal
  <2>2. \A t \in Sides : InCounters(t)' = InCounters(t) /\ Positive(t)' = Positive(t)
    BY <2>1 DEF InCounters, Positive
  <2>3. total' \in [Sides -> Nat] /\ \A t \in Sides : total'[t] = IF t = s THEN 0 ELSE total[t]
    BY <1>4, <2>1
  <2>4. Tallies'
    BY <1>4, <2>1, <2>3 DEF Tallies
  <2>5. ASSUME ~apart PROVE Cleared(Len(reset))'
    <3>1. CASE n = 8
      <4>1. Len(reset') = 7 /\ total'["hit"] = 0
        BY <1>3, <1>4, <1>5, <2>1, <2>3, <3>1
      <4> QED
        BY <4>1 DEF Cleared
    <3>2. CASE n = 7
      <4>1. total["hit"] = 0
        BY <1>6, <2>5, <3>2 DEF Cleared
      <4>2. Len(reset') = 6 /\ total'["miss"] = 0 /\ total'["hit"] = 0
        BY <1>3, <1>4, <1>5, <2>1, <2>3, <3>2, <4>1
      <4> QED
        BY <4>2 DEF Cleared
    <3> QED
      BY <2>1, <3>1, <3>2
  <2>6. Len(reset) # 1
    <3>1. n # 1
      BY <2>1
    <3> QED
      BY <1>1, <3>1
  <2> QED
    BY <1>2, <1>6, <2>1, <2>2, <2>4, <2>5, <2>6, ResetGoesOn
<1>8. ASSUME LookUpKeys PROVE TotalsInv'
  <2>1. /\ doomed' = listed[s] /\ UNCHANGED <<counter, listed, total>>
        /\ reset' = Tail(reset) /\ n \in {4, 6}
    BY <1>1, <1>3, <1>8 DEF LookUpKeys, statistics
  <2>2. \A t \in Sides : InCounters(t)' = InCounters(t) /\ Positive(t)' = Positive(t)
    BY <2>1 DEF InCounters, Positive
  <2>3. Tallies'
    BY <1>4, <2>1 DEF Tallies
  <2>4. ASSUME ~apart PROVE Cleared(Len(reset))'
    <3>1. Cleared(n) /\ Positive(s)' \subseteq doomed'
      BY <1>4, <1>6, <2>1, <2>2, <2>4
    <3>2. CASE n = 6
      <4>1. Len(reset') = 5 /\ s = "hit"
        BY <1>3, <1>5, <2>1, <3>2
      <4>2. total'["hit"] = 0 /\ total'["miss"] = 0
        BY <2>1, <3>1, <3>2 DEF Cleared
      <4>3. Positive("hit")' \subseteq doomed'
        BY <3>1, <4>1
      <4> QED
        BY <4>1, <4>2, <4>3 DEF Cleared
    <3>3. CASE n = 4
      <4>1. Len(reset') = 3 /\ s = "miss"
        BY <1>3, <1>5, <2>1, <3>3
      <4>2. Positive("hit")' = {}
        BY <1>4, <2>2, <3>1, <3>3 DEF Cleared
      <4>3. total'["hit"] = 0 /\ total'["miss"] = 0
        BY <2>1, <3>1, <3>3 DEF Cleared
      <4>4. Positive("miss")' \subseteq doomed'
        BY <3>1, <4>1
      <4> QED
        BY <4>1, <4>2, <4>3, <4>4 DEF Cleared
    <3> QED
      BY <2>1, <3>2, <3>3
  <2>5. n # 1
    BY <2>1
  <2>6. Len(reset) # 1
    BY <1>1, <2>5
  <2> QED
    BY <1>2, <1>6, <2>1, <2>2, <2>3, <2>4, <2>6, ResetGoesOn
<1>9. ASSUME DeleteCounter PROVE TotalsInv'
  <2>1. UNCHANGED <<listed, total>> /\ n \in {3, 5}
    BY <1>3, <1>9 DEF DeleteCounter
  <2>2. Len(reset) # 1
    <3>1. n # 1
      BY <2>1
    <3> QED
      BY <1>1, <3>1
  <2>3. CASE doomed = {}
    <3>1. reset' = Tail(reset) /\ UNCHANGED <<counter, doomed>>
      BY <1>9, <2>3 DEF DeleteCounter
    <3>2. \A t \in Sides : InCounters(t)' = InCounters(t) /\ Positive(t)' = Positive(t)
      BY <3>1 DEF InCounters, Positive
    <3>3. Tallies'
      BY <1>4, <2>1, <3>1 DEF Tallies
    <3>4. ASSUME ~apart PROVE Cleared(Len(reset))'
      <4>1. Cleared(n)
        BY <1>6, <3>4
      <4>2. CASE n = 5
        <5>1. Len(reset') = 4 /\ Positive("hit")' = {}
          BY <1>4, <1>5, <2>3, <3>1, <3>2, <4>1, <4>2 DEF Cleared
        <5> QED
          BY <2>1, <4>1, <4>2, <5>1 DEF Cleared
      <4>3. CASE n = 3
        <5>1. Len(reset') = 2 /\ Positive("hit")' = {} /\ Positive("miss")' = {}
          BY <1>4, <1>5, <2>3, <3>1, <3>2, <4>1, <4>3 DEF Cleared
        <5> QED
          BY <2>1, <4>1, <4>3, <5>1 DEF Cleared
      <4> QED
        BY <2>1, <4>2, <4>3
    <3> QED
      BY <1>2, <1>6, <2>1, <2>2, <3>1, <3>2, <3>3, <3>4, ResetGoesOn
  <2>4. CASE doomed # {}
    <3>1. PICK k \in doomed : /\ counter' = [counter EXCEPT ![s][k] = 0]
                              /\ doomed' = doomed \ {k} /\ reset' = reset
      BY <1>1, <1>9, <2>4 DEF DeleteCounter
    <3>2. /\ counter' \in [Sides -> [Keys -> Nat]]
          /\ \A t \in Sides : \A j \in Keys :
               counter'[t][j] = IF t = s /\ j = k THEN 0 ELSE counter[t][j]
      BY <1>4, <3>1
    <3>3. \A t \in Sides : InCounters(t)' \subseteq InCounters(t)
      <4> TAKE t \in Sides
      <4>1. \A j \in Keys : 1..counter'[t][j] \subseteq 1..counter[t][j]
        BY <1>4, <3>2
      <4> QED
        BY <4>1 DEF InCounters
    <3>4. /\ \A t \in Sides : Positive(t)' \subseteq Positive(t)
          /\ k \notin Positive(s)'
      BY <1>4, <3>2 DEF Positive
    <3>5. Tallies'
      BY <1>4, <2>1, <3>2 DEF Tallies
    <3>6. ASSUME ~apart PROVE Cleared(Len(reset))'
      <4>1. Cleared(n) /\ Len(reset') = n /\ Positive("hit")' \subseteq Positive("hit")
            /\ Positive("miss")' \subseteq Positive("miss")
        BY <1>1, <1>4, <1>6, <3>1, <3>4, <3>6
      <4>2. CASE n = 5
        <5>1. s = "hit"
          BY <1>3, <4>2
        <5> QED
          BY <2>1, <3>1, <3>4, <4>1, <4>2, <5>1 DEF Cleared
      <4>3. CASE n = 3
        <5>1. s = "miss"
          BY <1>3, <4>3
        <5> QED
          BY <2>1, <3>1, <3>4, <4>1, <4>3, <5>1 DEF Cleared
      <4> QED
        BY <2>1, <4>2, <4>3
    <3> QED
      BY <1>2, <1>6, <2>1, <3>1, <3>3, <3>4, <3>5, <3>6, ResetGoesOn
  <2> QED
    BY <2>3, <2>4
<1>10. ASSUME Unlist PROVE TotalsInv'
  <2>1. /\ listed' = [listed EXCEPT ![s] = {}] /\ UNCHANGED <<counter, total, doomed>>
        /\ reset' = Tail(reset) /\ n \in {1, 2}
    BY <1>1, <1>3, <1>10 DEF Unlist
  <2>2. \A t \in Sides : InCounters(t)' = InCounters(t) /\ Positive(t)' = Positive(t)
    BY <2>1 DEF InCounters, Positive
  <2>3. Tallies'
    BY <1>4, <2>1 DEF Tallies
  <2>4. ASSUME ~apart
        PROVE  /\ total["hit"] = 0 /\ total["miss"] = 0
               /\ \A t \in Sides : Positive(t) = {}
    BY <1>4, <1>6, <2>1, <2>4 DEF Cleared
  <2>5. CASE n = 2
    <3>1. Len(reset') = 1 /\ Len(reset) # 1
      BY <1>1, <1>5, <2>1, <2>5
    <3>2. ASSUME ~apart PROVE Cleared(Len(reset))'
      <4>1. Positive("hit")' = {} /\ Positive("miss")' = {}
        BY <1>4, <2>2, <2>4, <3>2
      <4> QED
        BY <2>1, <2>4, <3>1, <3>2, <4>1 DEF Cleared
    <3> QED
      BY <1>2, <2>1, <2>2, <2>3, <2>4, <3>1, <3>2, ResetGoesOn
  <2>6. CASE n = 1
    <3>1. Remaining' /\ reset' = <<>>
      BY <1>1, <1>2, <2>1, <2>6, CommandDone DEF TotalsInv
    <3>2. \A t \in Sides : NotInTotal(t)' = NotInTotal(t)
      BY <1>2 DEF NotInTotal, InProgress
    <3>3. FiniteTallies'
      BY <2>2, <3>2 DEF TotalsInv, FiniteTallies
    <3>4. ASSUME ~apart PROVE Together'
      <4>1. Counting = {}
        BY <1>6, <3>4
      <4>2. \A t \in Sides : NotInTotal(t)' = {}
        BY <3>2, <4>1 DEF Counting, NotInTotal, InProgress
      <4>3. \A c \in Clients : client'[c].at # "count"
        BY <1>2, <4>1 DEF Counting
      <4>4. \A t \in Sides : InCounters(t)' = {}
        <5> TAKE t \in Sides
        <5>1. \A j \in Keys : counter[t][j] \in Nat /\ ~(counter[t][j] > 0)
          BY <1>4, <2>4, <3>4 DEF Positive
        <5>2. \A j \in Keys : 1..counter[t][j] = {}
          BY <5>1
        <5> QED
          BY <2>2, <5>2 DEF InCounters
      <4>5. \A t \in Sides : total'[t] + Cardinality(NotInTotal(t)') = Cardinality(InCounters(t)')
        <5> TAKE t \in Sides
        <5>1. total'[t] = 0 /\ Cardinality(NotInTotal(t)') = 0 /\ Cardinality(InCounters(t)') = 0
          BY <1>4, <2>1, <2>4, <3>4, <4>2, <4>4, FS_EmptySet
        <5> QED
          BY <5>1
      <4>6. \A t \in Sides : Positive(t)' \subseteq listed'[t]
        BY <2>2, <2>4, <3>4
      <4> QED
        BY <3>1, <4>3, <4>5, <4>6 DEF Together
    <3> QED
      BY <1>2, <2>3, <3>1, <3>3, <3>4 DEF TotalsInv
  <2> QED
    BY <2>1, <2>5, <2>6
<1> QED
  BY <1>7, <1>8, <1>9, <1>10

LEMMA ThreadKeeps ==
  ASSUME CacheInv, TotalsInv, NEW c \in Clients,
         \/ \E k \in Keys : Get(c, k)
         \/ Query(c) \/ Put(c) \/ List(c) \/ Fail(c)
  PROVE  TotalsInv'
<1>1. /\ client[c] \in Client /\ client[c].side \in Sides /\ client[c].key \in Keys
      /\ listed \in [Sides -> SUBSET Keys]
  BY DEF CacheInv, CarriedInv, Client, TotalsInv, Tallies
<1>2. Idle \in Client /\ Idle.at = "idle"
  BY IdleCarries DEF Idle
<1>3. ASSUME NEW k \in Keys, Get(c, k) PROVE TotalsInv'
  <2>1. /\ client[c].at = "idle" /\ UNCHANGED <<counter, listed, total, reset, doomed>>
        /\ apart' = (apart \/ (age[k] # None /\ reset # <<>>))
    BY <1>3 DEF Get, InProgress, statistics
  <2>2. CASE age[k] = None
    <3>1. PICK state : state = [Idle EXCEPT !.at = "query", !.key = k, !.side = "miss"]
      OBVIOUS
    <3>2. state \in Client /\ state.at = "query"
      BY <1>2, <3>1 DEF Client, Sides
    <3>3. Update(c, state)
      BY <1>3, <2>2, <3>1 DEF Get
    <3> QED
      BY <1>1, <2>1, <3>2, <3>3, ThreadMoves
  <2>3. CASE age[k] # None
    <3>1. PICK state : state = [Idle EXCEPT !.at = "list", !.key = k, !.age = age[k]]
      OBVIOUS
    <3>2. state \in Client /\ state.at = "list"
      <4>1. age[k] \in Int
        BY DEF CacheInv, StoredInv
      <4> QED
        BY <1>2, <3>1, <4>1 DEF Client
    <3>3. Update(c, state)
      BY <1>3, <2>3, <3>1 DEF Get
    <3> QED
      BY <1>1, <2>1, <2>3, <3>2, <3>3, ThreadMoves
  <2> QED
    BY <2>2, <2>3
<1>4. ASSUME Query(c) PROVE TotalsInv'
  <2>1. PICK state : state = [client[c] EXCEPT !.at = "put", !.age = 0]
    OBVIOUS
  <2>2. state \in Client /\ state.at = "put" /\ client[c].at = "query" /\ Update(c, state)
    <3>1. client[c].at = "query" /\ Update(c, state)
      BY <1>4, <2>1 DEF Query, InProgress
    <3>2. state \in Client
      BY <1>1, <2>1, ClientFields, 0 \in Int
    <3>3. state.at = "put"
      BY <1>1, <2>1 DEF Client
    <3> QED
      BY <3>1, <3>2, <3>3
  <2>3. UNCHANGED <<counter, listed, total, reset, doomed, apart>>
    BY <1>4 DEF Query, statistics
  <2> QED
    BY <1>1, <2>2, <2>3, ThreadMoves
<1>5. ASSUME Put(c) PROVE TotalsInv'
  <2>1. PICK state : state = [client[c] EXCEPT !.at = "list", !.held = 0]
    OBVIOUS
  <2>2. state \in Client /\ state.at = "list" /\ client[c].at = "put" /\ Update(c, state)
    <3>1. client[c].at = "put" /\ Update(c, state)
      BY <1>5, <2>1 DEF Put, InProgress
    <3>2. state \in Client
      BY <1>1, <2>1, ClientFields, 0 \in Int
    <3>3. state.at = "list"
      BY <1>1, <2>1 DEF Client
    <3> QED
      BY <3>1, <3>2, <3>3
  <2>3. /\ UNCHANGED <<counter, listed, total, reset, doomed>>
        /\ apart' = (apart \/ reset # <<>>)
    BY <1>5 DEF Put, statistics
  <2> QED
    BY <1>1, <2>2, <2>3, ThreadMoves
<1>6. ASSUME List(c) PROVE TotalsInv'
  <2>1. PICK state : state = [client[c] EXCEPT !.at = "count"]
    OBVIOUS
  <2>2. /\ state \in Client /\ state.at = "count" /\ client[c].at = "list" /\ Update(c, state)
        /\ state.key = client[c].key /\ state.side = client[c].side
    BY <1>1, <1>6, <2>1 DEF Client, List, InProgress
  <2>3. /\ listed' = [listed EXCEPT ![client[c].side] = @ \cup {client[c].key}]
        /\ UNCHANGED <<counter, total, reset, doomed, apart>>
    BY <1>6 DEF List
  <2>4. /\ listed' \in [Sides -> SUBSET Keys] /\ state.key \in listed'[state.side]
        /\ \A s \in Sides : listed[s] \subseteq listed'[s]
    BY <1>1, <2>2, <2>3
  <2>5. c \in Counting
    BY <2>2 DEF Counting
  <2> QED
    BY <2>2, <2>3, <2>4, <2>5, ThreadMoves
<1>7. ASSUME Fail(c) PROVE TotalsInv'
  <2>1. /\ Update(c, Idle) /\ UNCHANGED <<counter, listed, total, reset, doomed>>
        /\ apart' = (apart \/ client[c].at = "total")
    BY <1>7 DEF Fail, InProgress, statistics
  <2>2. CASE client[c].at # "total"
    BY <1>1, <1>2, <2>1, <2>2, ThreadMoves
  <2>3. CASE client[c].at = "total"
    <3>1. \A d \in Clients : client'[d] = IF d = c THEN Idle ELSE client[d]
      BY <2>1 DEF CacheInv, CarriedInv, Update
    <3>2. \A s \in Sides : NotInTotal(s)' \subseteq NotInTotal(s)
      BY <1>2, <3>1 DEF NotInTotal, InProgress
    <3>3. \A s \in Sides : InCounters(s)' = InCounters(s)
      BY <2>1 DEF InCounters
    <3>4. FiniteTallies'
      <4>1. \A s \in Sides : IsFiniteSet(InCounters(s)) /\ IsFiniteSet(NotInTotal(s))
        BY DEF TotalsInv, FiniteTallies
      <4>2. ASSUME NEW s \in Sides PROVE IsFiniteSet(NotInTotal(s)')
        BY <3>2, <4>1, FS_Subset
      <4> QED
        BY <3>3, <4>1, <4>2 DEF FiniteTallies
    <3>5. Tallies' /\ Remaining'
      BY <2>1 DEF TotalsInv, Tallies, Remaining
    <3> QED
      BY <2>1, <2>3, <3>4, <3>5 DEF TotalsInv
  <2> QED
    BY <2>2, <2>3
<1> QED
  BY <1>3, <1>4, <1>5, <1>6, <1>7

(* Time passes for those that hold an answer and for what is stored.       *)
LEMMA TimeKeeps ==
  ASSUME CacheInv, TotalsInv,
         UNCHANGED <<counter, listed, total, reset, doomed, apart>>,
         \A c \in Clients : /\ client'[c].at = client[c].at /\ client'[c].side = client[c].side
                            /\ client'[c].key = client[c].key
  PROVE  TotalsInv'
<1>1. /\ \A s \in Sides : InCounters(s)' = InCounters(s) /\ Positive(s)' = Positive(s)
      /\ \A s \in Sides : NotInTotal(s)' = NotInTotal(s)
      /\ Counting' = Counting
  BY DEF InCounters, Positive, NotInTotal, InProgress, Counting
<1>2. Tallies' /\ FiniteTallies' /\ Remaining'
  BY <1>1 DEF TotalsInv, Tallies, FiniteTallies, Remaining
<1>3. ASSUME ~apart PROVE Together'
  <2>1. Together
    BY <1>3 DEF TotalsInv
  <2>2. Cleared(Len(reset))' <=> Cleared(Len(reset))
    BY <1>1 DEF Cleared, Sides
  <2> QED
    BY <1>1, <2>1, <2>2 DEF Together
<1> QED
  BY <1>2, <1>3 DEF TotalsInv

LEMMA TotalsStep == CacheInv /\ TotalsInv /\ [CacheNext]_cacheVars => TotalsInv'
<1> SUFFICES ASSUME CacheInv, TotalsInv, [CacheNext]_cacheVars PROVE TotalsInv'
  OBVIOUS
<1>1. CASE Elapsed
  <2>1. ASSUME NEW c \in Clients
        PROVE  /\ client'[c].at = client[c].at /\ client'[c].side = client[c].side
               /\ client'[c].key = client[c].key
    <3>1. client[c] \in Client
      BY DEF CacheInv, CarriedInv
    <3>2. client'[c] = IF InProgress(c, "put")
                         THEN [client[c] EXCEPT !.age = @ + 1, !.held = @ + 1] ELSE client[c]
      BY <1>1 DEF Elapsed
    <3> QED
      BY <3>1, <3>2 DEF Client
  <2> QED
    BY <1>1, <2>1, TimeKeeps DEF Elapsed, statistics
<1>2. ASSUME NEW c \in Clients,
             \/ \E k \in Keys : Get(c, k)
             \/ Query(c) \/ Put(c) \/ List(c) \/ Fail(c)
      PROVE  TotalsInv'
  BY <1>2, ThreadKeeps
<1>3. ASSUME NEW c \in Clients, Count(c) \/ Total(c) PROVE TotalsInv'
  BY <1>3, CountKeeps, TotalKeeps
<1>4. CASE StartReset \/ ResetTotal \/ LookUpKeys \/ DeleteCounter \/ Unlist \/ ResetFails
  BY <1>4, ResetStarts, ResetCut, CommandKeeps
<1>5. CASE UNCHANGED cacheVars
  BY <1>5, TimeKeeps DEF cacheVars, statistics, stored
<1> QED
  BY <1>1, <1>2, <1>3, <1>4, <1>5 DEF CacheNext

(* The totals of the cache views are the sums of their counters, each with *)
(* its place in the list, until a reset runs during a count or a failure   *)
(* cuts one of them (count_hit(), count_miss(), reset()), for any threads  *)
(* and keys and any order of their commands.                               *)
THEOREM TotalsAddUp == CacheSpec => []TotalsAgree
<1>1. TotalsInv => TotalsAgree
  BY DEF TotalsInv, Together, TotalsAgree
<1> QED
  BY <1>1, CacheInitially, CacheStep, TotalsInitially, TotalsStep, PTL DEF CacheSpec

-----------------------------------------------------------------------------
(* The views of the jobs.                                                  *)

JobStatesTold == [Jobs -> {"none", "current", "ended"}]
Places == {"idle", "get", "query", "put", "show", "done"}

Requesting ==
  [at : Places, user : Users, view : Views, own : BOOLEAN, answer : JobStatesTold,
   reply : [status : {"none", "ok", "forbidden", "not found", "failed"}, jobs : SUBSET Jobs]]

(* What the cache and the requests hold was told by slurmrestd, and a      *)
(* request that goes on is for what the policy gives its user.             *)
Permitted(q) ==
  /\ q.own = (q.view.all \notin Allowed[q.user])
  /\ q.own => q.view.own \in Allowed[q.user]

Seen(q) ==
  \E states \in told : q.reply.jobs = Shown(q.view, states) \cap MayBeSeen(q.user, q.view)

RequestInv(q) ==
  /\ q.at \in {"put", "show"} => q.answer \in told
  /\ q.at \in {"get", "query", "put", "show"} => Permitted(q)
  /\ q.reply.status = "ok" => Seen(q)

ViewsInv ==
  /\ queue \in JobStatesTold /\ told \subseteq JobStatesTold /\ queue \in told
  /\ cached \in [{"jobs", "past"} \cup Jobs -> SUBSET told]
  /\ request \in [Requests -> Requesting]
  /\ \A r \in Requests : RequestInv(request[r])

(* A list of jobs is chosen among them.                                    *)
LEMMA ShownAmongJobs ==
  ASSUME NEW view \in Views, NEW answer PROVE Shown(view, answer) \subseteq Jobs
BY DEF Views, Shown, About

(* A field of a request is set.                                            *)
LEMMA RequestFields ==
  ASSUME NEW q \in Requesting
  PROVE  /\ \A x \in Places : [q EXCEPT !.at = x] \in Requesting
         /\ \A x \in Users : [q EXCEPT !.user = x] \in Requesting
         /\ \A x \in Views : [q EXCEPT !.view = x] \in Requesting
         /\ \A x \in BOOLEAN : [q EXCEPT !.own = x] \in Requesting
         /\ \A x \in JobStatesTold : [q EXCEPT !.answer = x] \in Requesting
         /\ \A status \in {"none", "ok", "forbidden", "not found", "failed"}, x \in SUBSET Jobs :
              [q EXCEPT !.reply = Reply(status, x)] \in Requesting
<1>1. ASSUME NEW status \in {"none", "ok", "forbidden", "not found", "failed"},
             NEW x \in SUBSET Jobs
      PROVE  [q EXCEPT !.reply = Reply(status, x)] \in Requesting
  BY DEF Requesting, Reply
<1>2. /\ \A x \in Places : [q EXCEPT !.at = x] \in Requesting
      /\ \A x \in Users : [q EXCEPT !.user = x] \in Requesting
      /\ \A x \in Views : [q EXCEPT !.view = x] \in Requesting
      /\ \A x \in BOOLEAN : [q EXCEPT !.own = x] \in Requesting
      /\ \A x \in JobStatesTold : [q EXCEPT !.answer = x] \in Requesting
  BY DEF Requesting
<1> QED
  BY <1>1, <1>2

LEMMA UnaskedRequest == Unasked \in Requesting /\ RequestInv(Unasked)
<1>1. \A u : u = (CHOOSE user \in Users : TRUE) => u \in Users
  BY ViewsAssumption
<1>2. Views # {}
  BY DEF Views
<1> QED
  BY <1>1, <1>2 DEF Unasked, Requesting, Places, JobStatesTold, Unknown, Reply, RequestInv

LEMMA ViewsInitially == ViewsInit => ViewsInv
BY UnaskedRequest DEF ViewsInit, ViewsInv, JobStatesTold

(* A step of one request, that leaves what was told.                       *)
LEMMA OneRequest ==
  ASSUME ViewsInv, UNCHANGED <<queue, told>>,
         cached' \in [{"jobs", "past"} \cup Jobs -> SUBSET told],
         NEW r \in Requests, NEW q \in Requesting, RequestInv(q), Turn(r, q)
  PROVE  ViewsInv'
BY DEF ViewsInv, Turn, RequestInv, Seen, Permitted

LEMMA ViewsStep == ViewsInv /\ [ViewsNext]_viewsVars => ViewsInv'
<1> SUFFICES ASSUME ViewsInv, [ViewsNext]_viewsVars PROVE ViewsInv'
  OBVIOUS
<1>1. ASSUME NEW j \in Jobs, Progress(j) PROVE ViewsInv'
  <2>1. queue' \in JobStatesTold
    BY <1>1 DEF Progress, ViewsInv, JobStatesTold
  <2>2. told \subseteq told' /\ queue' \in told' /\ told' \subseteq JobStatesTold
    BY <1>1, <2>1 DEF Progress, ViewsInv
  <2>3. \A r \in Requests : RequestInv(request[r])'
    BY <1>1, <2>2 DEF Progress, ViewsInv, RequestInv, Seen, Permitted
  <2> QED
    BY <1>1, <2>1, <2>2, <2>3 DEF Progress, ViewsInv
<1>2. ASSUME NEW k \in DOMAIN cached, Expire(k) PROVE ViewsInv'
  BY <1>2 DEF Expire, ViewsInv, RequestInv, Seen, Permitted
<1>3. ASSUME NEW r \in Requests, NEW user \in Users, NEW view \in Views, Ask(r, user, view)
      PROVE  ViewsInv'
  <2> DEFINE all == view.all \in Allowed[user]
             begun == [Unasked EXCEPT !.user = user, !.view = view, !.own = ~all]
             going == [begun EXCEPT !.at = "get"]
             refused == [begun EXCEPT !.at = "done", !.reply = Reply("forbidden", {})]
  <2>1. begun \in Requesting
    <3>1. [Unasked EXCEPT !.user = user] \in Requesting
      BY UnaskedRequest, RequestFields
    <3>2. [Unasked EXCEPT !.user = user, !.view = view] \in Requesting
      BY <3>1, RequestFields
    <3>3. \A own \in BOOLEAN :
            [Unasked EXCEPT !.user = user, !.view = view, !.own = own] \in Requesting
      BY <3>2, RequestFields
    <3>4. (~all) \in BOOLEAN
      OBVIOUS
    <3> HIDE DEF all
    <3> QED
      BY <3>3, <3>4
  <2>2. /\ begun.user = user /\ begun.view = view /\ begun.own = ~all
        /\ begun.reply.status = "none"
    BY DEF Unasked, Reply
  <2> HIDE DEF begun
  <2>3. /\ going \in Requesting /\ going.at = "get" /\ going.user = user /\ going.view = view
        /\ going.own = ~all /\ going.reply.status = "none"
    <3>1. going \in Requesting
      BY <2>1, RequestFields DEF Places
    <3>2. /\ going.at = "get" /\ going.user = begun.user /\ going.view = begun.view
          /\ going.own = begun.own /\ going.reply = begun.reply
      BY <2>1 DEF Requesting
    <3> QED
      BY <2>2, <3>1, <3>2
  <2>4. /\ refused \in Requesting /\ refused.at = "done"
        /\ refused.reply.status = "forbidden"
    <3>1. [begun EXCEPT !.at = "done"] \in Requesting
      BY <2>1, RequestFields DEF Places
    <3> QED
      BY <2>1, <3>1, RequestFields DEF Requesting, Reply
  <2> HIDE DEF going, refused
  <2>5. RequestInv(refused)
    BY <2>4 DEF RequestInv
  <2>6. CASE all \/ view.own \in Allowed[user]
    <3>1. RequestInv(going)
      BY <2>3, <2>6 DEF RequestInv, Permitted
    <3>2. Turn(r, going)
      BY <1>3, <2>6 DEF Ask, going, begun
    <3> QED
      BY <1>3, <2>3, <3>1, <3>2, OneRequest DEF Ask, ViewsInv
  <2>7. CASE ~(all \/ view.own \in Allowed[user])
    <3>1. Turn(r, refused)
      BY <1>3, <2>7 DEF Ask, refused, begun
    <3> QED
      BY <1>3, <2>4, <2>5, <3>1, OneRequest DEF Ask, ViewsInv
  <2> QED
    BY <2>6, <2>7
<1>4. ASSUME NEW r \in Requests,
             LookUp(r) \/ QueryJobs(r) \/ ViewFails(r) \/ Keep(r) \/ Show(r) \/ Answered(r)
      PROVE  ViewsInv'
  <2> DEFINE q == request[r]
  <2>1. q \in Requesting /\ RequestInv(q)
    BY DEF ViewsInv
  <2>2. UNCHANGED <<queue, told>>
    BY <1>4 DEF LookUp, QueryJobs, ViewFails, Keep, Show, Answered
  <2>3. ASSUME NEW status \in {"ok", "not found", "failed"}, NEW jobs_ \in SUBSET Jobs,
               Done(r, Reply(status, jobs_)), UNCHANGED cached,
               status = "ok" =>
                 \E states \in told : jobs_ = Shown(q.view, states) \cap MayBeSeen(q.user, q.view)
        PROVE  ViewsInv'
    <3> DEFINE done == [q EXCEPT !.at = "done", !.answer = Unknown,
                                 !.reply = Reply(status, jobs_)]
    <3>1. [q EXCEPT !.at = "done"] \in Requesting
      BY <2>1, RequestFields DEF Places
    <3>2. [q EXCEPT !.at = "done", !.answer = Unknown] \in Requesting
      BY <3>1, RequestFields DEF Unknown, JobStatesTold
    <3>3. done \in Requesting
      BY <3>2, RequestFields
    <3>4. /\ done.at = "done" /\ done.user = q.user /\ done.view = q.view
          /\ done.reply.status = status /\ done.reply.jobs = jobs_
      BY <2>1 DEF Requesting, Reply
    <3>5. Turn(r, done)
      BY <2>3 DEF Done
    <3> HIDE DEF done
    <3>6. RequestInv(done)
      BY <2>3, <3>4 DEF RequestInv, Seen
    <3> QED
      BY <2>2, <2>3, <3>3, <3>5, <3>6, OneRequest DEF ViewsInv
  <2>4. CASE LookUp(r)
    <3>1. CASE Turn(r, [q EXCEPT !.at = "query"])
      <4>1. [q EXCEPT !.at = "query"] \in Requesting
        BY <2>1, RequestFields DEF Places
      <4>2. RequestInv([q EXCEPT !.at = "query"])
        BY <2>1, <2>4 DEF LookUp, RequestInv, Permitted, Seen, Requesting
      <4> QED
        BY <2>2, <2>4, <3>1, <4>1, <4>2, OneRequest DEF LookUp, ViewsInv
    <3>2. ASSUME NEW answer \in Cached(r), Turn(r, [q EXCEPT !.at = "show", !.answer = answer])
          PROVE  ViewsInv'
      <4>1. q.view.key \in {"jobs", "past"} \cup Jobs
        <5>1. q.view \in Views
          BY <2>1 DEF Requesting
        <5> QED
          BY <5>1 DEF Views
      <4>2. answer \in told /\ answer \in JobStatesTold
        BY <3>2, <4>1 DEF Cached, ViewsInv
      <4>3. [q EXCEPT !.at = "show"] \in Requesting
        BY <2>1, RequestFields DEF Places
      <4>4. [q EXCEPT !.at = "show", !.answer = answer] \in Requesting
        BY <4>2, <4>3, RequestFields
      <4>5. RequestInv([q EXCEPT !.at = "show", !.answer = answer])
        BY <2>1, <2>4, <4>2 DEF LookUp, RequestInv, Permitted, Seen, Requesting
      <4> QED
        BY <2>2, <2>4, <3>2, <4>4, <4>5, OneRequest DEF LookUp, ViewsInv
    <3> QED
      BY <2>4, <3>1, <3>2 DEF LookUp
  <2>5. CASE QueryJobs(r)
    <3>1. CASE JobFound(r)
      <4>1. [q EXCEPT !.at = "put"] \in Requesting
        BY <2>1, RequestFields DEF Places
      <4>2. [q EXCEPT !.at = "put", !.answer = queue] \in Requesting
        BY <4>1, RequestFields DEF ViewsInv
      <4>3. RequestInv([q EXCEPT !.at = "put", !.answer = queue])
        BY <2>1, <2>5 DEF QueryJobs, RequestInv, Permitted, Seen, Requesting, ViewsInv
      <4> QED
        BY <2>2, <2>5, <3>1, <4>2, <4>3, OneRequest DEF QueryJobs, ViewsInv
    <3>2. CASE ~JobFound(r)
      <4>1. Done(r, Reply("not found", {})) /\ UNCHANGED cached
        BY <2>5, <3>2 DEF QueryJobs
      <4> QED
        BY <2>3, <4>1, {} \in SUBSET Jobs
    <3> QED
      BY <3>1, <3>2
  <2>6. CASE ViewFails(r)
    <3>1. Done(r, Reply("failed", {})) /\ UNCHANGED cached
      BY <2>6 DEF ViewFails
    <3> QED
      BY <2>3, <3>1, {} \in SUBSET Jobs
  <2>7. CASE Keep(r)
    <3>1. [q EXCEPT !.at = "show"] \in Requesting
      BY <2>1, RequestFields DEF Places
    <3>2. RequestInv([q EXCEPT !.at = "show"])
      BY <2>1, <2>7 DEF Keep, RequestInv, Permitted, Seen, Requesting
    <3>3. q.answer \in told
      BY <2>1, <2>7 DEF Keep, RequestInv
    <3>4. cached' \in [{"jobs", "past"} \cup Jobs -> SUBSET told]
      BY <2>7, <3>3 DEF Keep, Kept, ViewsInv
    <3> QED
      BY <2>2, <2>7, <3>1, <3>2, <3>4, OneRequest DEF Keep
  <2>8. CASE Show(r)
    <3> DEFINE shown == Shown(q.view, q.answer)
               theirs == IF q.own THEN shown \cap Theirs(q.user) ELSE shown
    <3>1. q.answer \in told /\ Permitted(q)
      BY <2>1, <2>8 DEF Show, RequestInv
    <3>2. shown \subseteq Jobs
      BY <2>1, ShownAmongJobs DEF Requesting
    <3>3. theirs = shown \cap MayBeSeen(q.user, q.view)
      BY <3>1, <3>2 DEF Permitted, MayBeSeen
    <3>4. \/ Done(r, Reply("not found", {}))
          \/ Done(r, Reply("ok", theirs))
      BY <2>8 DEF Show
    <3>5. UNCHANGED cached
      BY <2>8 DEF Show
    <3> HIDE DEF shown, theirs
    <3>6. theirs \in SUBSET Jobs
      BY <3>2, <3>3
    <3>7. CASE Done(r, Reply("not found", {}))
      BY <2>3, <3>5, <3>7, {} \in SUBSET Jobs
    <3>8. CASE Done(r, Reply("ok", theirs))
      <4>1. \E states \in told :
              theirs = Shown(q.view, states) \cap MayBeSeen(q.user, q.view)
        BY <3>1, <3>3 DEF shown
      <4> QED
        BY <2>3, <3>5, <3>6, <3>8, <4>1
    <3> QED
      BY <3>4, <3>7, <3>8
  <2>9. CASE Answered(r)
    BY <2>2, <2>9, UnaskedRequest, OneRequest DEF Answered, ViewsInv
  <2> QED
    BY <1>4, <2>4, <2>5, <2>6, <2>7, <2>8, <2>9
<1>5. CASE UNCHANGED viewsVars
  BY <1>5 DEF viewsVars, ViewsInv, RequestInv, Seen, Permitted
<1> QED
  BY <1>1, <1>2, <1>3, <1>4, <1>5 DEF ViewsNext

(* Every answer of the agent's jobs views shows exactly the jobs its user  *)
(* may see of a state slurmrestd has told, for any users, jobs, policies   *)
(* and threads that share the cache (jobs(), job(), jobs_past(), stats()). *)
THEOREM JobsOfEachUser == ViewsSpec => []ExactlyTheirJobs
<1>1. ViewsInv => ExactlyTheirJobs
  BY DEF ViewsInv, RequestInv, Seen, ExactlyTheirJobs
<1> QED
  BY <1>1, ViewsInitially, ViewsStep, PTL DEF ViewsSpec

-----------------------------------------------------------------------------
(* The figures.                                                            *)

LEMMA NodeStatesAre ==
  NodeStates = {"error", "fail", "mixed", "allocated", "down", "drain", "idle", "unknown"}
BY DEF NodeStates, NodeOrder, Range

LEMMA JobStatesAre ==
  JobStates = {"running", "pending", "completing", "completed", "cancelled", "suspended",
               "preempted", "failed", "timeout", "node_fail", "boot_fail", "deadline",
               "out_of_memory", "unknown"}
BY DEF JobStates, JobOrder, Range

(* A node is in one of the states, and a job too; it is in the first of    *)
(* them when that is one of its own.                                       *)
LEMMA NodeStateFound == ASSUME NEW states PROVE FirstOf(NodeOrder, states) \in NodeStates
BY NodeStatesAre DEF FirstOf, NodeOrder

LEMMA JobStateFound ==
  ASSUME NEW states
  PROVE  /\ FirstOf(JobOrder, states) \in JobStates
         /\ FirstOf(JobOrder, states) = "running" <=> "running" \in states
BY JobStatesAre DEF FirstOf, JobOrder

LEMMA SumOfAll ==
  ASSUME NEW s \in NodeStates, NEW amount \in Nat
  PROVE  All(s, amount) \in [NodeStates -> Nat] /\ NodesSum(All(s, amount)) = amount
BY NodeStatesAre DEF All, NoNodes, NodesSum

LEMMA SumOfSplit ==
  ASSUME NEW used \in Nat, NEW free \in Nat
  PROVE  Split(used, free) \in [NodeStates -> Nat] /\ NodesSum(Split(used, free)) = used + free
BY NodeStatesAre DEF Split, NoNodes, NodesSum

LEMMA SumOfPlus ==
  ASSUME NEW f \in [NodeStates -> Nat], NEW g \in [NodeStates -> Nat]
  PROVE  /\ Plus(f, g) \in [NodeStates -> Nat]
         /\ NodesSum(Plus(f, g)) = NodesSum(f) + NodesSum(g)
BY NodeStatesAre DEF Plus, NodesSum

(* What a node is counted for are its cores and its GPU.                   *)
LEMMA SharesOfNode ==
  ASSUME NEW n \in NodeKinds
  PROVE  /\ n.cpus \in Nat /\ Gpus(n.gres) \in Nat
         /\ CoresOf(n) \in [NodeStates -> Nat] /\ NodesSum(CoresOf(n)) = n.cpus
         /\ GpusOf(n) \in [NodeStates -> Nat] /\ NodesSum(GpusOf(n)) = Gpus(n.gres)
<1>1. /\ n.cpus \in Nat /\ n.alloc \in Nat /\ n.idle \in Nat /\ n.alloc + n.idle = n.cpus
      /\ Gpus(n.gres) \in Nat /\ Gpus(n.used) \in Nat
      /\ Gpus(n.gres) - Gpus(n.used) \in Nat
  BY StatsAssumption
<1>2. NodeState(n) \in NodeStates
  BY NodeStateFound DEF NodeState
<1>3. CoresOf(n) \in [NodeStates -> Nat] /\ NodesSum(CoresOf(n)) = n.cpus
  BY <1>1, <1>2, SumOfAll, SumOfSplit DEF CoresOf
<1>4. GpusOf(n) \in [NodeStates -> Nat] /\ NodesSum(GpusOf(n)) = Gpus(n.gres)
  <2> DEFINE all == Gpus(n.gres)
             used == Gpus(n.used)
  <2>1. all \in Nat /\ used \in Nat /\ all - used \in Nat
    BY <1>1
  <2>2. CASE NodeState(n) \in {"mixed", "allocated"}
    <3>1. GpusOf(n) = Split(used, all - used)
      BY <2>2 DEF GpusOf
    <3> HIDE DEF all, used
    <3>2. used + (all - used) = all
      BY <2>1
    <3>3. GpusOf(n) \in [NodeStates -> Nat] /\ NodesSum(GpusOf(n)) = all
      BY <2>1, <3>1, <3>2, SumOfSplit
    <3> QED
      BY <3>3 DEF all
  <2>3. CASE NodeState(n) \notin {"mixed", "allocated"}
    <3>1. GpusOf(n) = All(NodeState(n), Gpus(n.gres))
      BY <2>3 DEF GpusOf
    <3> QED
      BY <1>1, <1>2, <3>1, SumOfAll
  <2> QED
    BY <2>2, <2>3
<1> QED
  BY <1>1, <1>3, <1>4

StatsInv == StatsTypeOK /\ CountedOnce

LEMMA StatsAtZero ==
  /\ NoNodes \in [NodeStates -> Nat] /\ NodesSum(NoNodes) = 0
  /\ JobsSum([s \in JobStates |-> 0]) = 0
  /\ NoTotals \in [{"nodes", "cores", "gpus", "jobs"} -> Nat]
BY NodeStatesAre, JobStatesAre DEF NoNodes, NodesSum, JobsSum, NoTotals

LEMMA StatsInitially == StatsInit => StatsInv
BY StatsAtZero, JobStatesAre DEF StatsInit, StatsInv, StatsTypeOK, CountedOnce, NoNodes, NoTotals

LEMMA StatsStep == StatsInv /\ [StatsNext]_statsVars => StatsInv'
<1> SUFFICES ASSUME StatsInv, [StatsNext]_statsVars PROVE StatsInv'
  OBVIOUS
<1>1. ASSUME NEW n \in NodeKinds, CountNode(n) PROVE StatsInv'
  <2>1. /\ nodes' \in [NodeStates -> Nat] /\ NodesSum(nodes') = NodesSum(nodes) + 1
    <3>1. NodeState(n) \in NodeStates
      BY NodeStateFound DEF NodeState
    <3>2. All(NodeState(n), 1) \in [NodeStates -> Nat] /\ NodesSum(All(NodeState(n), 1)) = 1
      BY <3>1, SumOfAll, 1 \in Nat
    <3>3. nodes' = Plus(nodes, All(NodeState(n), 1)) /\ nodes \in [NodeStates -> Nat]
      BY <1>1 DEF CountNode, StatsInv, StatsTypeOK
    <3> QED
      BY <3>2, <3>3, SumOfPlus
  <2>2. /\ cores' \in [NodeStates -> Nat] /\ NodesSum(cores') = NodesSum(cores) + n.cpus
    BY <1>1, SharesOfNode, SumOfPlus DEF CountNode, StatsInv, StatsTypeOK
  <2>3. /\ gpus' \in [NodeStates -> Nat] /\ NodesSum(gpus') = NodesSum(gpus) + Gpus(n.gres)
    <3>1. GpusOf(n) \in [NodeStates -> Nat] /\ NodesSum(GpusOf(n)) = Gpus(n.gres)
      BY SharesOfNode
    <3>2. gpus' = Plus(gpus, GpusOf(n)) /\ gpus \in [NodeStates -> Nat]
      BY <1>1 DEF CountNode, StatsInv, StatsTypeOK
    <3> QED
      BY <3>1, <3>2, SumOfPlus
  <2>4. /\ totals' \in [{"nodes", "cores", "gpus", "jobs"} -> Nat]
        /\ totals'.nodes = totals.nodes + 1 /\ totals'.cores = totals.cores + n.cpus
        /\ totals'.gpus = totals.gpus + Gpus(n.gres) /\ totals'.jobs = totals.jobs
    <3> DEFINE all == Gpus(n.gres)
    <3>1. n.cpus \in Nat /\ all \in Nat
      BY SharesOfNode
    <3>2. /\ totals' = [totals EXCEPT !.nodes = @ + 1, !.cores = @ + n.cpus, !.gpus = @ + all]
          /\ totals \in [{"nodes", "cores", "gpus", "jobs"} -> Nat]
      BY <1>1 DEF CountNode, StatsInv, StatsTypeOK
    <3> HIDE DEF all
    <3>3. /\ totals' \in [{"nodes", "cores", "gpus", "jobs"} -> Nat]
          /\ totals'.nodes = totals.nodes + 1 /\ totals'.cores = totals.cores + n.cpus
          /\ totals'.gpus = totals.gpus + all /\ totals'.jobs = totals.jobs
      <4>1. /\ totals.nodes \in Nat /\ totals.cores \in Nat
            /\ totals.gpus \in Nat /\ totals.jobs \in Nat
        BY <3>2
      <4>2. /\ totals'.nodes = totals.nodes + 1 /\ totals'.cores = totals.cores + n.cpus
            /\ totals'.gpus = totals.gpus + all /\ totals'.jobs = totals.jobs
        BY <3>2
      <4>3. \A f \in {"nodes", "cores", "gpus", "jobs"} : totals'[f] \in Nat
        BY <3>1, <4>1, <4>2
      <4>4. totals' = [f \in {"nodes", "cores", "gpus", "jobs"} |-> totals'[f]]
        BY <3>2
      <4>5. totals' \in [{"nodes", "cores", "gpus", "jobs"} -> Nat]
        BY <4>3, <4>4
      <4> QED
        BY <4>2, <4>5
    <3> QED
      BY <3>3 DEF all
  <2>5. UNCHANGED <<collecting, jobs, active>>
    BY <1>1 DEF CountNode
  <2>6. StatsTypeOK'
    BY <2>1, <2>2, <2>3, <2>4, <2>5 DEF StatsInv, StatsTypeOK
  <2>7. \A s \in NodeStates : nodes'[s] >= 0 /\ cores'[s] >= 0 /\ gpus'[s] >= 0
    BY <2>1, <2>2, <2>3
  <2> QED
    BY <2>1, <2>2, <2>3, <2>4, <2>5, <2>6, <2>7 DEF StatsInv, CountedOnce
<1>2. ASSUME NEW states \in JobKinds, CountJob(states) PROVE StatsInv'
  <2> DEFINE s == FirstOf(JobOrder, states)
  <2>1. s \in JobStates /\ (s = "running" <=> "running" \in states)
    BY JobStateFound
  <2>2. jobs' = [jobs EXCEPT ![s] = @ + 1] /\ jobs \in [JobStates -> Nat]
    BY <1>2 DEF CountJob, StatsInv, StatsTypeOK
  <2> HIDE DEF s
  <2>3. jobs' \in [JobStates -> Nat] /\ JobsSum(jobs') = JobsSum(jobs) + 1
    <3>1. jobs' \in [JobStates -> Nat]
      BY <2>1, <2>2
    <3>2. \A t \in JobStates : jobs'[t] = (IF t = s THEN jobs[t] + 1 ELSE jobs[t])
      BY <2>1, <2>2
    <3>3. \A t \in JobStates : jobs[t] \in Nat
      BY <2>2
    <3>4. JobsSum(jobs') = JobsSum(jobs) + 1
      <4> DEFINE under(f) == f["running"] + f["pending"] + f["completing"] + f["completed"]
                              + f["cancelled"] + f["suspended"] + f["preempted"]
                 ended(f) == f["failed"] + f["timeout"] + f["node_fail"] + f["boot_fail"]
                              + f["deadline"] + f["out_of_memory"] + f["unknown"]
                 Under == {"running", "pending", "completing", "completed", "cancelled",
                           "suspended", "preempted"}
                 Ended == {"failed", "timeout", "node_fail", "boot_fail", "deadline",
                           "out_of_memory", "unknown"}
      <4>1. /\ under(jobs) \in Nat
            /\ under(jobs') = under(jobs) + (IF s \in Under THEN 1 ELSE 0)
        BY <3>2, <3>3, JobStatesAre, SMTT(30)
      <4>2. /\ ended(jobs) \in Nat
            /\ ended(jobs') = ended(jobs) + (IF s \in Ended THEN 1 ELSE 0)
        BY <3>2, <3>3, JobStatesAre, SMTT(30)
      <4>3. s \in Under <=> s \notin Ended
        BY <2>1, JobStatesAre
      <4>4. /\ JobsSum(jobs) = under(jobs) + ended(jobs)
            /\ JobsSum(jobs') = under(jobs') + ended(jobs')
        BY Zenon DEF JobsSum
      <4> HIDE DEF under, ended, Under, Ended
      <4> QED
        BY <4>1, <4>2, <4>3, <4>4
    <3> QED
      BY <3>1, <3>4
  <2>4. active' \in Nat /\ (jobs["running"] = active => jobs'["running"] = active')
    BY <1>2, <2>1, <2>2, JobStatesAre DEF CountJob, StatsInv, StatsTypeOK
  <2>5. /\ totals' \in [{"nodes", "cores", "gpus", "jobs"} -> Nat]
        /\ totals'.nodes = totals.nodes /\ totals'.cores = totals.cores
        /\ totals'.gpus = totals.gpus /\ totals'.jobs = totals.jobs + 1
    BY <1>2 DEF CountJob, StatsInv, StatsTypeOK
  <2>6. UNCHANGED <<collecting, nodes, cores, gpus>>
    BY <1>2 DEF CountJob
  <2> QED
    BY <2>3, <2>4, <2>5, <2>6 DEF StatsInv, StatsTypeOK, CountedOnce
<1>3. CASE NodesCounted
  BY <1>3 DEF NodesCounted, StatsInv, StatsTypeOK, CountedOnce
<1>4. CASE Exported
  BY <1>4, StatsAtZero, JobStatesAre
     DEF Exported, StatsInv, StatsTypeOK, CountedOnce, NoNodes, NoTotals
<1>5. CASE UNCHANGED statsVars
  BY <1>5 DEF statsVars, StatsInv, StatsTypeOK, CountedOnce
<1> QED
  BY <1>1, <1>2, <1>3, <1>4, <1>5 DEF StatsNext

(* Each node, core, GPU and job of any list is counted once and in one     *)
(* state by resources_states() and jobs_states(), no count is negative,    *)
(* and stats() finds the same number of running jobs, provided that the    *)
(* cores and the GPU in use and not in use of a node are all of its own.   *)
THEOREM FiguresAddUp == StatsSpec => []CountedOnce
<1>1. StatsInv => CountedOnce
  BY DEF StatsInv
<1> QED
  BY <1>1, StatsInitially, StatsStep, PTL DEF StatsSpec
=============================================================================
