------------------------- MODULE SlurmrestClientProofs -------------------------
(***************************************************************************)
(* Machine-checked proofs about the client of slurmrestd, for any number   *)
(* of threads, of supported versions and of mishaps.                       *)
(***************************************************************************)
EXTENDS SlurmrestClient, TLAPS

(* The version in use is one that was found; there is none before the first *)
(* discovery.                                                              *)
Known == IF api = Undiscovered THEN found = {} ELSE api \in found

(* Threads past the discovery know of a version, and what they carry is a  *)
(* version that was found.                                                 *)
Past == {"build", "set", "query", "adapt"}

Carried ==
  \A t \in Threads :
    /\ pc[t] \in Past => api # Undiscovered
    /\ pc[t] \in {"set", "adapt"} => version[t] \in found

IInv == TypeOK /\ Known /\ Carried /\ ChainMatches

-----------------------------------------------------------------------------

(* Nothing is known at first.                                              *)
LEMMA InitInvariant == Init => IInv
<1> USE ClientAssumption DEF Versions, Undiscovered
<1> SUFFICES ASSUME Init PROVE IInv
  OBVIOUS
<1>1. Newest \in Versions
  OBVIOUS
<1>2. TypeOK
  BY <1>1 DEF Init, TypeOK, Places
<1>3. Known /\ Carried /\ ChainMatches
  BY DEF Init, Known, Carried, Past, ChainMatches
<1> QED
  BY <1>2, <1>3 DEF IInv

(* A step of a thread keeps every variable of its type.                    *)
LEMMA TypesPreserved == IInv /\ [Next]_vars => TypeOK'
<1> SUFFICES ASSUME IInv, [Next]_vars PROVE TypeOK'
  OBVIOUS
<1> USE ClientAssumption DEF IInv, TypeOK, Versions, Undiscovered, Places,
        Goto, vars, world, client, local
<1>1. ASSUME NEW t \in Threads, Hit(t) \/ Miss(t) \/ Ping(t) PROVE TypeOK'
  BY <1>1 DEF Hit, Miss, Ping
<1>2. ASSUME NEW t \in Threads, Step(t) PROVE TypeOK'
  <2>1. CASE Discover(t)
    BY <2>1 DEF Discover, OnceKnown
  <2>2. CASE PingAnswered(t) \/ Unreachable(t)
    BY <2>2 DEF PingAnswered, Unreachable
  <2>3. CASE PingRefused(t)
    <3>1. /\ UNCHANGED <<client, cache, view, data, served>>
          /\ mishaps' \in Nat
      BY <2>3 DEF PingRefused
    <3>2. version' \in [Threads -> Versions] /\ pc' \in [Threads -> Places]
      BY <2>3 DEF PingRefused, MoreToTry
    <3> QED
      BY <3>1, <3>2
  <2>4. CASE Publish(t)
    BY <2>4 DEF Publish
  <2>5. CASE Build(t)
    <3>1. api \in Versions
      BY <1>2, <2>5 DEF Build, Carried, Past
    <3> QED
      BY <2>5, <3>1 DEF Build, ChainFrom
  <2>6. CASE SetChain(t)
    BY <2>6 DEF SetChain
  <2>7. CASE Query(t)
    BY <2>7 DEF Query
  <2>8. CASE Adapt(t)
    BY <2>8 DEF Adapt, Answers
  <2>9. CASE Put(t)
    BY <2>9 DEF Put
  <2> QED
    BY <1>2, <2>1, <2>2, <2>3, <2>4, <2>5, <2>6, <2>7, <2>8, <2>9 DEF Step
<1>3. CASE Expire
  BY <1>3 DEF Expire
<1>4. CASE Upgrade
  <2>1. mishaps' \in Nat /\ served' \subseteq Versions
    BY <1>4 DEF Upgrade
  <2> QED
    BY <1>4, <2>1 DEF Upgrade
<1>5. CASE UNCHANGED vars
  BY <1>5
<1> QED
  BY <1>1, <1>2, <1>3, <1>4, <1>5 DEF Next

(* A step that leaves the client alone and moves one thread, into building *)
(* or out of a place where it was not building, keeps the rest.            *)
LEMMA BystanderPreserves ==
  ASSUME IInv, UNCHANGED client, NEW t \in Threads,
         pc[t] \in {"build", "set"} => pc'[t] \in {"build", "set"},
         pc'[t] \in Past => api # Undiscovered,
         pc'[t] \in {"set", "adapt"} => version'[t] \in found,
         \A u \in Threads \ {t} : pc'[u] = pc[u] /\ version'[u] = version[u]
  PROVE  (Known /\ Carried /\ ChainMatches)'
<1>1. api' = api /\ chain' = chain /\ found' = found
  BY DEF client
<1>2. Known'
  BY <1>1 DEF IInv, Known
<1>3. Carried'
  BY <1>1 DEF IInv, Carried
<1>4. Building # {} => Building' # {}
  BY DEF Building
<1>5. ChainMatches'
  BY <1>1, <1>4 DEF IInv, ChainMatches
<1> QED
  BY <1>2, <1>3, <1>5

(* A thread that publishes has yet to build the chain.                     *)
LEMMA PublishPreserves ==
  ASSUME IInv, NEW t \in Threads, Publish(t)
  PROVE  (Known /\ Carried /\ ChainMatches)'
<1>1. /\ version[t] \in Versions /\ version[t] # Undiscovered
      /\ api' = version[t] /\ found' = found \cup {version[t]}
      /\ pc' = [pc EXCEPT ![t] = "build"] /\ version' = version
      /\ pc \in [Threads -> Places]
  BY ClientAssumption
     DEF IInv, TypeOK, Publish, Goto, local, Versions, Undiscovered
<1>2. Known' /\ Carried'
  BY <1>1 DEF IInv, Known, Carried, Past
<1>3. t \in Building'
  BY <1>1 DEF Building
<1> QED
  BY <1>2, <1>3 DEF ChainMatches

(* A thread that sets the chain sets that of a version that was found: the *)
(* one in use, when only one was.                                          *)
LEMMA SetChainPreserves ==
  ASSUME IInv, NEW t \in Threads, SetChain(t)
  PROVE  (Known /\ Carried /\ ChainMatches)'
<1>1. /\ version[t] \in found /\ chain' = version[t] /\ version' = version
      /\ api' = api /\ found' = found /\ api # Undiscovered
      /\ pc'[t] \in {"idle", "query"}
      /\ \A u \in Threads \ {t} : pc'[u] = pc[u]
  BY DEF IInv, TypeOK, Carried, Past, SetChain, Goto
<1>2. Known' /\ Carried'
  BY <1>1 DEF IInv, Known, Carried, Past
<1>3. ChainMatches'
  BY <1>1 DEF ChainMatches
<1> QED
  BY <1>2, <1>3

(* Every step of the agent preserves the invariant.                        *)
LEMMA StepPreserves == IInv /\ [Next]_vars => IInv'
<1> SUFFICES ASSUME IInv, [Next]_vars PROVE (Known /\ Carried /\ ChainMatches)'
  BY TypesPreserved DEF IInv
<1>1. ASSUME NEW t \in Threads, Hit(t) \/ Miss(t) \/ Ping(t)
      PROVE  (Known /\ Carried /\ ChainMatches)'
  BY <1>1, BystanderPreserves
     DEF IInv, TypeOK, Past, Goto, Hit, Miss, Ping
<1>2. ASSUME NEW t \in Threads, Step(t)
      PROVE  (Known /\ Carried /\ ChainMatches)'
  <2> USE DEF Goto, Past
  <2>1. CASE Discover(t)
    BY <2>1, BystanderPreserves DEF IInv, TypeOK, Discover, OnceKnown
  <2>2. CASE PingAnswered(t) \/ PingRefused(t) \/ Unreachable(t)
    BY <2>2, BystanderPreserves
       DEF IInv, TypeOK, PingAnswered, PingRefused, Unreachable
  <2>3. CASE Publish(t)
    BY <2>3, PublishPreserves
  <2>4. CASE Build(t)
    <3>1. api # Undiscovered /\ api \in found
      BY <2>4 DEF Build, IInv, Carried, Known
    <3> QED
      BY <2>4, <3>1, BystanderPreserves DEF IInv, TypeOK, Build, ChainFrom
  <2>5. CASE SetChain(t)
    BY <2>5, SetChainPreserves
  <2>6. CASE Query(t)
    <3>1. api # Undiscovered /\ api \in found
      BY <2>6 DEF Query, IInv, Carried, Known
    <3> QED
      BY <2>6, <3>1, BystanderPreserves DEF IInv, TypeOK, Query
  <2>7. CASE Adapt(t) \/ Put(t)
    BY <2>7, BystanderPreserves DEF IInv, TypeOK, Adapt, Put
  <2> QED
    BY <1>2, <2>1, <2>2, <2>3, <2>4, <2>5, <2>6, <2>7 DEF Step
<1>3. CASE Expire \/ Upgrade \/ UNCHANGED vars
  BY <1>3
     DEF Expire, Upgrade, vars, client, local, IInv, Known, Carried,
         ChainMatches, Building
<1> QED
  BY <1>1, <1>2, <1>3 DEF Next

-----------------------------------------------------------------------------

(* IInv holds in every state of the agent.                                 *)
THEOREM Invariant == Spec => []IInv
<1>1. Init => IInv
  BY InitInvariant
<1>2. IInv /\ [Next]_vars => IInv'
  BY StepPreserves
<1> QED
  BY <1>1, <1>2, PTL DEF Spec

(* The variables of the client keep their types: no discovery tries a      *)
(* version that is not in the list.                                        *)
THEOREM TypeCorrect == Spec => []TypeOK
<1>1. IInv => TypeOK
  BY DEF IInv
<1> QED
  BY <1>1, Invariant, PTL

(* The chain of adapters is that of the version in use, but in the two     *)
(* races ChainMatches names.                                               *)
THEOREM ChainAlwaysMatches == Spec => []ChainMatches
<1>1. IInv => ChainMatches
  BY DEF IInv
<1> QED
  BY <1>1, Invariant, PTL

(* No answer is left unadapted, or adapted by the wrong chain, outside of  *)
(* these races.                                                            *)
THEOREM WrongOnlyByRaces == Spec => WrongOnlyByRace
<1> DEFINE Blamed ==
      \A t \in Threads :
        Adapt(t) /\ ~Adapted(data'[t]) => Building # {} \/ found # {api}
<1>1. IInv => Blamed
  <2> SUFFICES ASSUME IInv, NEW t \in Threads, Adapt(t),
                      Building = {}, found = {api}
               PROVE  Adapted(data'[t])
    OBVIOUS
  <2>1. api # Undiscovered /\ version[t] = api
    BY DEF IInv, Carried, Past, Adapt
  <2>2. chain = api
    BY <2>1 DEF IInv, ChainMatches
  <2>3. data'[t] = [from |-> version[t], by |-> chain]
    BY DEF Adapt, IInv, TypeOK
  <2> QED
    BY <2>1, <2>2, <2>3 DEF Adapted
<1>2. IInv /\ [Next]_vars => [Blamed]_vars
  BY <1>1
<1> QED
  BY <1>2, Invariant, PTL DEF Spec, WrongOnlyByRace
=============================================================================
