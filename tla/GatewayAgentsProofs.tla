-------------------------- MODULE GatewayAgentsProofs --------------------------
(***************************************************************************)
(* What holds of the gateway's discovery (GatewayAgents) for any number of *)
(* threads and agents, any timeout and any history of the agents.          *)
(***************************************************************************)
EXTENDS GatewayAgents, TLAPS

(* A discovery that is stored has heard of all the agents.                 *)
Complete == \A t \in Threads : at[t] = "store" => \A a \in Agents : got[t][a] # Awaited

TypeInv == TypeOK /\ Complete

LEMMA AnyoneIsAgent == Agents # {} => Anyone \in Agents
BY DEF Anyone

LEMMA TypeInitially == Init => TypeInv
<1> SUFFICES ASSUME Init PROVE TypeInv
  OBVIOUS
<1>1. release \in [Agents -> 1..Newest]
  BY GatewayAssumption DEF Init
<1>2. Nobody \in [Agents -> Known] /\ Nobody \in [Agents -> Known \cup {Awaited}]
  BY GatewayAssumption DEF Nobody, Known, Absent
<1> QED
  BY <1>1, <1>2, GatewayAssumption, AnyoneIsAgent
     DEF Init, TypeInv, TypeOK, Complete, Places, Kinds, Outcomes, Known

LEMMA NobodyTyped ==
  /\ Nobody \in [Agents -> Known] /\ Nobody \in [Agents -> Known \cup {Awaited}]
  /\ Anyone \in Agents
BY GatewayAssumption, AnyoneIsAgent DEF Nobody, Known, Absent

LEMMA EndTyped ==
  ASSUME TypeInv, NEW t \in Threads, NEW how \in Outcomes, End(t, how),
         known' \in [Agents -> Known]
  PROVE  TypeInv'
<1>1. at' \in [Threads -> Places] /\ \A u \in Threads : at'[u] = "store" => at[u] = "store" /\ u # t
  BY DEF End, Goto, TypeInv, TypeOK, Places
<1>2. got' \in [Threads -> [Agents -> Known \cup {Awaited}]]
  BY NobodyTyped DEF End, TypeInv, TypeOK
<1>3. asked' \in [Threads -> [Agents -> Known]] /\ target' \in [Threads -> Agents]
  BY NobodyTyped DEF End, TypeInv, TypeOK
<1>4. /\ outcome' \in [Threads -> Outcomes] /\ todo' \in [Threads -> SUBSET Agents]
      /\ again' \in [Threads -> BOOLEAN]
  BY DEF End, TypeInv, TypeOK
<1>5. UNCHANGED <<world, left, kind, moved>>
  BY DEF End
<1>6. Complete'
  BY <1>1 DEF End, TypeInv, TypeOK, Complete
<1> QED
  BY <1>1, <1>2, <1>3, <1>4, <1>5, <1>6 DEF TypeInv, TypeOK, world

LEMMA AskedTyped ==
  ASSUME TypeInv, NEW t \in Threads, NEW a \in Agents, NEW r \in Known
  PROVE  [asked EXCEPT ![t][a] = r] \in [Threads -> [Agents -> Known]]
<1>1. asked \in [Threads -> [Agents -> Known]]
  BY DEF TypeInv, TypeOK
<1>2. [asked[t] EXCEPT ![a] = r] \in [Agents -> Known]
  BY <1>1
<1> QED
  BY <1>1, <1>2

LEMMA WorldTyped ==
  ASSUME TypeInv, NEW a \in Agents, Change(a)
  PROVE  TypeInv'
<1>1. UNCHANGED <<cache, at, got, request, moved>>
  BY DEF Change
<1>2. changes' \in 0..MaxChanges
  BY GatewayAssumption DEF Change, TypeInv, TypeOK
<1>3. up' \in [Agents -> {"up", "down", "odd"}] /\ release' \in [Agents -> 1..Newest]
  <2>1. CASE release[a] < Newest /\ release' = [release EXCEPT ![a] = @ + 1] /\ UNCHANGED up
    BY <2>1, GatewayAssumption DEF TypeInv, TypeOK
  <2>2. CASE up' \in {[up EXCEPT ![a] = s] : s \in {"up", "down", "odd"} \ {up[a]}} /\ UNCHANGED release
    BY <2>2 DEF TypeInv, TypeOK
  <2> QED
    BY <2>1, <2>2 DEF Change
<1>4. steady' \subseteq Agents
  BY DEF Change, TypeInv, TypeOK
<1> QED
  BY <1>1, <1>2, <1>3, <1>4 DEF TypeInv, TypeOK, Complete, cache, request

LEMMA TypeStep == TypeInv /\ [Next]_vars => TypeInv'
<1> SUFFICES ASSUME TypeInv, [Next]_vars PROVE TypeInv'
  OBVIOUS
<1>1. CASE Tick
  BY <1>1, GatewayAssumption DEF Tick, TypeInv, TypeOK, Complete, world, request
<1>2. ASSUME NEW a \in Agents, Change(a) PROVE TypeInv'
  BY <1>2, WorldTyped
<1>3. ASSUME NEW t \in Threads, Step(t) PROVE TypeInv'
  <2>1. CASE Check(t)
    BY <2>1, NobodyTyped DEF Check, Goto, TypeInv, TypeOK, Complete, Places, world, cache, request
  <2>2. CASE Store(t)
    <3>1. known' \in [Agents -> Known]
      BY <2>2 DEF Store, Found, TypeInv, TypeOK, Complete
    <3> QED
      BY <2>2, <3>1, NobodyTyped DEF Store, Goto, TypeInv, TypeOK, Complete, Places, world, request
  <2>3. CASE Arm(t)
    BY <2>3, GatewayAssumption
       DEF Arm, Validity, Goto, TypeInv, TypeOK, Complete, Places, world, request
  <2>4. CASE NotFound(t)
    BY <2>4, EndTyped DEF NotFound, Outcomes, TypeInv, TypeOK
  <2>5. CASE Valid(t)
    BY <2>5 DEF Valid, Goto, TypeInv, TypeOK, Complete, Places, Kinds, world, cache
  <2>6. CASE Gone(t)
    BY <2>6, EndTyped DEF Gone, Outcomes, TypeInv, TypeOK
  <2>7. CASE StillThere(t)
    <3>1. target[t] \in Agents /\ known[target[t]] \in Known
      BY DEF TypeInv, TypeOK
    <3>2. /\ asked' \in [Threads -> [Agents -> Known]]
          /\ todo' \in [Threads -> SUBSET Agents]
      <4>1. CASE /\ todo' = [todo EXCEPT ![t] = {target[t]}]
                 /\ UNCHANGED asked
        BY <3>1, <4>1 DEF TypeInv, TypeOK
      <4>2. CASE /\ asked' = [asked EXCEPT ![t][target[t]] = known[target[t]]]
                 /\ UNCHANGED todo
        BY <3>1, <4>2, AskedTyped DEF TypeInv, TypeOK
      <4> QED
        BY <2>7, <4>1, <4>2 DEF StillThere
    <3>3. /\ at' = [at EXCEPT ![t] = "ask"]
          /\ UNCHANGED <<world, cache, kind, target, again, got, outcome, moved>>
      BY <2>7 DEF StillThere, Goto
    <3> QED
      BY <3>2, <3>3 DEF TypeInv, TypeOK, Complete, Places, world, cache
  <2>8. CASE AllClusters(t)
    BY <2>8 DEF AllClusters, Goto, TypeInv, TypeOK, Complete, Places, Kinds, world, cache
  <2>9. CASE ListDone(t)
    BY <2>9, EndTyped DEF ListDone, Outcomes, TypeInv, TypeOK
  <2>10. CASE Reply(t)
    BY <2>10 DEF Reply, Goto, TypeInv, TypeOK, Complete, Places, Kinds, Outcomes, world, cache
  <2>11. ASSUME NEW a \in Agents, Polled(t, a) PROVE TypeInv'
    <3>1. Info(a) \in Known
      BY GatewayAssumption DEF Info, Known, Absent, TypeInv, TypeOK
    <3> QED
      BY <2>11, <3>1 DEF Polled, Goto, TypeInv, TypeOK, Complete, Places, world, cache, request
  <2>12. ASSUME NEW a \in Agents, PollRaises(t, a) PROVE TypeInv'
    BY <2>12, EndTyped DEF PollRaises, AfterFailure, Outcomes, TypeInv, TypeOK
  <2>13. ASSUME NEW a \in Agents, Ask(t, a) PROVE TypeInv'
    BY <2>13 DEF Ask, TypeInv, TypeOK, Complete, world, cache
  <2>14. ASSUME NEW a \in Agents, AskFails(t, a) PROVE TypeInv'
    BY <2>14, EndTyped DEF AskFails, Outcomes, TypeInv, TypeOK
  <2>15. ASSUME NEW a \in Agents, Unreachable(t, a) PROVE TypeInv'
    BY <2>15, EndTyped DEF Unreachable, Outcomes, TypeInv, TypeOK
  <2>16. ASSUME NEW a \in Agents, Proxied(t, a) PROVE TypeInv'
    BY <2>16, EndTyped DEF Proxied, Outcomes, TypeInv, TypeOK
  <2>17. ASSUME NEW a \in Agents, Permissions(t, a) PROVE TypeInv'
    <3>1. asked' \in [Threads -> [Agents -> Known]]
      BY <2>17, AskedTyped, GatewayAssumption DEF Permissions, Known, Absent
    <3> QED
      BY <2>17, <3>1 DEF Permissions, TypeInv, TypeOK, Complete, world, cache
  <2> QED
    BY <1>3, <2>1, <2>2, <2>3, <2>4, <2>5, <2>6, <2>7, <2>8, <2>9, <2>10, <2>11, <2>12, <2>13,
       <2>14, <2>15, <2>16, <2>17 DEF Step
<1>4. CASE UNCHANGED vars
  BY <1>4 DEF vars, world, cache, request, TypeInv, TypeOK, Complete
<1> QED
  BY <1>1, <1>2, <1>3, <1>4, GatewayAssumption DEF Next

(* The types of GatewayAgents.                                             *)
THEOREM GatewayTypes == Spec => []TypeOK
<1>1. TypeInv => TypeOK
  BY DEF TypeInv
<1> QED
  BY <1>1, TypeInitially, TypeStep, PTL DEF Spec

-----------------------------------------------------------------------------
(* What a thread that has looked its cluster up relies on: while the       *)
(* agents neither expired nor were replaced, the timeout is not over and   *)
(* what it has yet to look up is known.  A second look-up that finds the   *)
(* timeout over runs a discovery, in a thread for which they expired.      *)
Undisturbed(t) ==
  /\ at[t] \in {"check", "read", "ask"} => left > 0
  /\ at[t] \in {"check", "read"} /\ again[t] => known[target[t]] # Absent
  /\ at[t] = "ask" => \A a \in todo[t] : known[a] # Absent

Relies(t) ==
  /\ at[t] # "done" => outcome[t] = "none"
  /\ outcome[t] \in {"key error", "nested loop"} => moved[t]
  /\ at[t] = "check" => again[t]
  /\ at[t] \in {"idle", "done"} => ~again[t]
  /\ at[t] \in {"poll", "store", "arm"} /\ again[t] => moved[t]
  /\ at[t] # "ask" => todo[t] = {}
  /\ ~moved[t] => Undisturbed(t)

Reliance == \A t \in Threads : Relies(t)

LEMMA RelianceInitially == Init => Reliance
BY DEF Init, Reliance, Relies, Undisturbed

LEMMA LeftIsNumber == TypeOK => left \in Nat
BY GatewayAssumption DEF TypeOK

LEMMA LeftStays == ASSUME left \in Nat, left' = left PROVE left' \in Nat /\ left' >= left
OBVIOUS

(* The step of a thread that leaves the agents and the others alone.       *)
LEMMA OwnStep ==
  ASSUME TypeOK, Reliance, NEW t \in Threads,
         known' = known, left' >= left, left' \in Nat,
         \A u \in Threads \ {t} :
           /\ at'[u] = at[u] /\ again'[u] = again[u] /\ target'[u] = target[u]
           /\ todo'[u] = todo[u] /\ outcome'[u] = outcome[u] /\ moved'[u] = moved[u],
         Relies(t)'
  PROVE  Reliance'
<1>1. left \in Int /\ left' \in Int
  BY LeftIsNumber
<1>2. ASSUME NEW u \in Threads \ {t} PROVE Relies(u)'
  <2>1. /\ at'[u] = at[u] /\ again'[u] = again[u] /\ target'[u] = target[u]
        /\ todo'[u] = todo[u] /\ outcome'[u] = outcome[u] /\ moved'[u] = moved[u]
    BY <1>2
  <2>2. Relies(u)
    BY <1>2 DEF Reliance
  <2>3. left > 0 => left' > 0
    BY <1>1
  <2>4. Undisturbed(u) => Undisturbed(u)'
    BY <2>1, <2>3 DEF Undisturbed
  <2> QED
    BY <2>1, <2>2, <2>4 DEF Relies
<1> QED
  BY <1>2 DEF Reliance

LEMMA EndRelies ==
  ASSUME TypeOK, Reliance, NEW t \in Threads, NEW how \in Outcomes, End(t, how),
         known' = known, how \in {"key error", "nested loop"} => moved[t]
  PROVE  Reliance'
<1>1. Relies(t)'
  BY DEF End, Goto, TypeOK, Relies, Undisturbed
<1>2. \A u \in Threads \ {t} :
        /\ at'[u] = at[u] /\ again'[u] = again[u] /\ target'[u] = target[u]
        /\ todo'[u] = todo[u] /\ outcome'[u] = outcome[u] /\ moved'[u] = moved[u]
  BY DEF End, Goto, TypeOK
<1>3. left' \in Nat /\ left' >= left
  <2>1. left' = left
    BY DEF End
  <2>2. left \in Nat
    BY LeftIsNumber
  <2> QED
    BY <2>1, <2>2, LeftStays, Zenon
<1> QED
  BY <1>1, <1>2, <1>3, OwnStep

LEMMA RelianceStep == TypeOK /\ Reliance /\ [Next]_vars => Reliance'
<1> SUFFICES ASSUME TypeOK, Reliance, [Next]_vars PROVE Reliance'
  OBVIOUS
<1>1. CASE Tick
  <2>1. /\ left > 0 /\ left' = left - 1 /\ left \in Nat
        /\ moved' = [t \in Threads |-> moved[t] \/ (left = 1 /\ at[t] \notin {"idle", "done"})]
        /\ UNCHANGED <<known, at, got, request>>
    BY <1>1, LeftIsNumber DEF Tick
  <2>2. ASSUME NEW t \in Threads PROVE Relies(t)'
    <3>1. Relies(t)
      BY DEF Reliance
    <3>2. UNCHANGED <<known, at, kind, target, again, todo, asked, outcome>>
      BY <2>1 DEF request
    <3>3. moved'[t] = (moved[t] \/ (left = 1 /\ at[t] \notin {"idle", "done"}))
      BY <2>1
    <3>4. left = 1 \/ left' > 0
      BY <2>1
    <3> QED
      BY <3>1, <3>2, <3>3, <3>4 DEF Relies, Undisturbed
  <2> QED
    BY <2>2 DEF Reliance
<1>2. ASSUME NEW a \in Agents, Change(a) PROVE Reliance'
  BY <1>2 DEF Change, cache, request, Reliance, Relies, Undisturbed
<1>3. ASSUME NEW t \in Threads, Step(t) PROVE Reliance'
  <2>1. CASE Check(t)
    <3>1. left \in Nat
      BY LeftIsNumber
    <3>2. /\ at[t] \in {"idle", "check"} /\ at'[t] = IF left = 0 THEN "poll" ELSE "read"
          /\ moved'[t] <=> moved[t] /\ again[t]
          /\ UNCHANGED <<known, left, target, again, todo, outcome>>
      BY <2>1 DEF Check, Due, Goto, TypeOK, cache, request
    <3>3. Relies(t)
      BY DEF Reliance
    <3>4. left > 0 \/ left = 0
      BY <3>1
    <3>5. Relies(t)'
      <4>1. CASE left = 0
        <5>1. at'[t] = "poll"
          BY <3>2, <4>1
        <5>2. ~(left > 0)
          BY <4>1
        <5>3. again[t] => moved'[t]
          BY <3>2, <3>3, <5>2 DEF Relies, Undisturbed
        <5> QED
          BY <3>2, <3>3, <5>1, <5>3 DEF Relies, Undisturbed
      <4>2. CASE left > 0
        <5>1. at'[t] = "read"
          BY <3>1, <3>2, <4>2
        <5> QED
          BY <3>2, <3>3, <4>2, <5>1 DEF Relies, Undisturbed
      <4> QED
        BY <3>4, <4>1, <4>2
    <3> QED
      BY <2>1, <3>1, <3>5, OwnStep DEF Check, Goto, TypeOK, cache, request
  <2>2. CASE Store(t)
    <3>1. UNCHANGED <<left, target, again, todo, outcome>>
      BY <2>2 DEF Store, request
    <3>2. ASSUME NEW u \in Threads PROVE Relies(u)'
      <4>1. Relies(u)
        BY DEF Reliance
      <4>2. moved'[u] = (moved[u] \/ at[u] \notin {"idle", "done"})
        BY <2>2 DEF Store
      <4>3. at'[u] = IF u = t THEN "arm" ELSE at[u]
        BY <2>2 DEF Store, Goto, TypeOK
      <4>4. at[t] = "store"
        BY <2>2 DEF Store
      <4> QED
        BY <3>1, <4>1, <4>2, <4>3, <4>4 DEF Relies, Undisturbed
    <3> QED
      BY <3>2 DEF Reliance
  <2>3. CASE Arm(t)
    <3>1. left' = TTL /\ left \in 0..TTL /\ TTL > 0 /\ TTL \in Nat
      BY <2>3, GatewayAssumption DEF Arm, Validity, TypeOK
    <3>2. Relies(t)'
      BY <2>3, <3>1 DEF Arm, Goto, TypeOK, Reliance, Relies, Undisturbed, world, request
    <3>3. left' >= left /\ left' \in Nat
      BY <3>1
    <3> QED
      BY <2>3, <3>2, <3>3, OwnStep DEF Arm, Goto, TypeOK, request
  <2>4. CASE NotFound(t)
    BY <2>4, EndRelies DEF NotFound, Outcomes
  <2>5. CASE Valid(t)
    <3>1. left' = left /\ left \in Nat
      BY <2>5, LeftIsNumber DEF Valid, cache
    <3>2. Relies(t)'
      <4>1. PICK a \in Agents, k \in Kinds \ {"clusters"} :
              /\ known[a] # Absent
              /\ target' = [target EXCEPT ![t] = a]
              /\ again' = [again EXCEPT ![t] = k \in LooksAgain]
              /\ todo' = [todo EXCEPT ![t] = IF k \in LooksAgain THEN {} ELSE {a}]
              /\ Goto(t, IF k \in LooksAgain THEN "check" ELSE "ask")
        BY <2>5 DEF Valid
      <4>2. /\ at[t] = "read" /\ UNCHANGED <<known, left, outcome, moved>>
        BY <2>5 DEF Valid, cache
      <4>3. /\ target'[t] = a /\ again'[t] = (k \in LooksAgain)
            /\ todo'[t] = IF k \in LooksAgain THEN {} ELSE {a}
            /\ at'[t] = IF k \in LooksAgain THEN "check" ELSE "ask"
        BY <4>1 DEF Goto, TypeOK
      <4>4. Relies(t)
        BY DEF Reliance
      <4>5. CASE k \in LooksAgain
        <5>1. at'[t] = "check" /\ again'[t] /\ todo'[t] = {} /\ target'[t] = a
          BY <4>3, <4>5
        <5> QED
          BY <4>1, <4>2, <4>4, <5>1 DEF Relies, Undisturbed
      <4>6. CASE k \notin LooksAgain
        <5>1. at'[t] = "ask" /\ ~again'[t] /\ todo'[t] = {a}
          BY <4>3, <4>6
        <5> QED
          BY <4>1, <4>2, <4>4, <5>1 DEF Relies, Undisturbed
      <4> QED
        BY <4>5, <4>6
    <3> QED
      BY <2>5, <3>1, <3>2, OwnStep DEF Valid, Goto, TypeOK, cache
  <2>6. CASE Gone(t)
    <3>1. moved[t]
      BY <2>6 DEF Gone, Reliance, Relies, Undisturbed
    <3> QED
      BY <2>6, <3>1, EndRelies DEF Gone, Outcomes
  <2>7. CASE StillThere(t)
    <3>1. left' = left /\ left \in Nat
      BY <2>7, LeftIsNumber DEF StillThere, cache
    <3>2. Relies(t)'
      <4>1. /\ at[t] = "read" /\ known[target[t]] # Absent /\ at'[t] = "ask"
            /\ UNCHANGED <<known, left, target, again, outcome, moved>>
        BY <2>7 DEF StillThere, Goto, TypeOK, cache
      <4>2. todo'[t] = {target[t]} \/ todo'[t] = todo[t]
        BY <2>7 DEF StillThere, TypeOK
      <4>3. Relies(t)
        BY DEF Reliance
      <4> QED
        BY <4>1, <4>2, <4>3 DEF Relies, Undisturbed
    <3> QED
      BY <2>7, <3>1, <3>2, OwnStep DEF StillThere, Goto, TypeOK, cache
  <2>8. CASE AllClusters(t)
    <3>1. left' = left /\ left \in Nat
      BY <2>8, LeftIsNumber DEF AllClusters, cache
    <3>2. Relies(t)'
      BY <2>8, <3>1 DEF AllClusters, Goto, TypeOK, Reliance, Relies, Undisturbed, world, cache
    <3> QED
      BY <2>8, <3>1, <3>2, OwnStep DEF AllClusters, Goto, TypeOK, cache
  <2>9. CASE ListDone(t)
    BY <2>9, EndRelies DEF ListDone, Outcomes
  <2>10. CASE Reply(t)
    <3>1. left' = left /\ left \in Nat
      BY <2>10, LeftIsNumber DEF Reply, cache
    <3>2. Relies(t)'
      BY <2>10, <3>1 DEF Reply, Goto, TypeOK, Reliance, Relies, Undisturbed, world, cache
    <3> QED
      <4>1. \A u \in Threads \ {t} :
              /\ at'[u] = at[u] /\ again'[u] = again[u] /\ target'[u] = target[u]
              /\ todo'[u] = todo[u] /\ outcome'[u] = outcome[u] /\ moved'[u] = moved[u]
        BY <2>10 DEF Reply, Goto, TypeOK
      <4>2. known' = known /\ left' \in Nat /\ left' >= left
        BY <2>10, <3>1, LeftStays DEF Reply, cache
      <4> QED
        BY <3>2, <4>1, <4>2, OwnStep
  <2>11. ASSUME NEW a \in Agents, Polled(t, a) PROVE Reliance'
    <3>1. left' = left /\ left \in Nat
      BY <2>11, LeftIsNumber DEF Polled, cache
    <3>2. Relies(t)'
      BY <2>11, <3>1 DEF Polled, Goto, TypeOK, Reliance, Relies, Undisturbed, world, cache, request
    <3> QED
      BY <2>11, <3>1, <3>2, OwnStep DEF Polled, Goto, TypeOK, cache, request
  <2>12. ASSUME NEW a \in Agents, PollRaises(t, a) PROVE Reliance'
    BY <2>12, EndRelies DEF PollRaises, AfterFailure, Outcomes
  <2>13. ASSUME NEW a \in Agents, Ask(t, a) PROVE Reliance'
    <3>1. left' = left /\ left \in Nat
      BY <2>13, LeftIsNumber DEF Ask, cache
    <3>2. Relies(t)'
      BY <2>13, <3>1 DEF Ask, TypeOK, Reliance, Relies, Undisturbed, world, cache
    <3> QED
      BY <2>13, <3>1, <3>2, OwnStep DEF Ask, TypeOK, cache
  <2>14. ASSUME NEW a \in Agents, AskFails(t, a) PROVE Reliance'
    <3>1. moved[t]
      <4>1. Relies(t) /\ at[t] = "ask" /\ a \in todo[t] /\ (left = 0 \/ known[a] = Absent)
        BY <2>14 DEF AskFails, Due, Reliance
      <4>2. ~moved[t] => left > 0 /\ known[a] # Absent
        BY <4>1 DEF Relies, Undisturbed
      <4> QED
        BY <4>1, <4>2
    <3> QED
      BY <2>14, <3>1, EndRelies DEF AskFails, Outcomes
  <2>15. ASSUME NEW a \in Agents, Unreachable(t, a) PROVE Reliance'
    BY <2>15, EndRelies DEF Unreachable, Outcomes
  <2>16. ASSUME NEW a \in Agents, Proxied(t, a) PROVE Reliance'
    BY <2>16, EndRelies DEF Proxied, Outcomes
  <2>17. ASSUME NEW a \in Agents, Permissions(t, a) PROVE Reliance'
    <3>1. left' = left /\ left \in Nat
      BY <2>17, LeftIsNumber DEF Permissions, cache
    <3> QED
      BY <2>17, <3>1 DEF Permissions, cache, Reliance, Relies, Undisturbed
  <2> QED
    BY <1>3, <2>1, <2>2, <2>3, <2>4, <2>5, <2>6, <2>7, <2>8, <2>9, <2>10, <2>11, <2>12, <2>13,
       <2>14, <2>15, <2>16, <2>17 DEF Step
<1>4. CASE UNCHANGED vars
  BY <1>4 DEF vars, world, cache, request, Reliance, Relies, Undisturbed
<1> QED
  BY <1>1, <1>2, <1>3, <1>4, GatewayAssumption DEF Next

(* A request whose cluster was found fails on a later look-up of it only   *)
(* if the agents expired or were replaced in between (validate_cluster and *)
(* request_agent of the gateway), for any number of threads and agents.    *)
THEOREM RefreshesAlone == Spec => []FailsOnlyByRefresh
<1>1. Reliance => FailsOnlyByRefresh
  BY DEF Reliance, Relies, FailsOnlyByRefresh
<1> QED
  BY <1>1, GatewayTypes, RelianceInitially, RelianceStep, PTL DEF Spec

-----------------------------------------------------------------------------
(* An agent that has always been available is found by every discovery,    *)
(* and known since the first one: what a thread has got of it so far is    *)
(* its release, and every discovery after that finds it again.             *)
Familiar == \A a \in steady : known[a] # Absent

Steadiness ==
  /\ \A a \in steady : Available(a)
  /\ \A t \in Threads : at[t] \in {"poll", "store"} => \A a \in steady : got[t][a] # Absent
  /\ left > 0 => Familiar
  /\ \A t \in Threads : at[t] \in {"check", "arm", "read", "ask"} => Familiar

LEMMA SteadinessInitially == Init => Steadiness
BY DEF Init, Steadiness

LEMMA EndSteady ==
  ASSUME TypeOK, Steadiness, NEW t \in Threads, NEW how \in Outcomes, End(t, how),
         known' = known
  PROVE  Steadiness'
<1>1. UNCHANGED <<up, release, steady, left>>
  BY DEF End, world
<1>2. \A u \in Threads :
        /\ at'[u] = IF u = t THEN "done" ELSE at[u]
        /\ u # t => got'[u] = got[u]
  BY DEF End, Goto, TypeOK
<1> QED
  BY <1>1, <1>2 DEF Steadiness, Familiar, Available

LEMMA SteadinessStep == TypeInv /\ Steadiness /\ [Next]_vars => Steadiness'
<1> SUFFICES ASSUME TypeInv, Steadiness, [Next]_vars PROVE Steadiness'
  OBVIOUS
<1>0. TypeOK
  BY DEF TypeInv
<1>1. CASE Tick
  BY <1>1, <1>0, LeftIsNumber DEF Tick, Steadiness, Familiar, Available, world, request
<1>2. ASSUME NEW a \in Agents, Change(a) PROVE Steadiness'
  <2>1. steady' \subseteq steady /\ \A b \in steady' : Available(b)'
    BY <1>2 DEF Change
  <2>2. UNCHANGED <<known, left, at, got>>
    BY <1>2 DEF Change, cache
  <2> QED
    BY <2>1, <2>2 DEF Steadiness, Familiar
<1>3. ASSUME NEW t \in Threads, Step(t) PROVE Steadiness'
  <2>1. CASE Check(t)
    BY <2>1, <1>0, LeftIsNumber
       DEF Check, Due, Goto, TypeOK, Steadiness, Familiar, Available, Absent, Awaited, world, cache, request
  <2>2. CASE Store(t)
    BY <2>2, <1>0 DEF Store, Found, Goto, TypeOK, Steadiness, Familiar, Available, world, request
  <2>3. CASE Arm(t)
    BY <2>3, <1>0 DEF Arm, Goto, TypeOK, Steadiness, Familiar, Available, world, request
  <2>4. CASE NotFound(t)
    BY <2>4, <1>0, EndSteady DEF NotFound, Outcomes
  <2>5. CASE Valid(t)
    BY <2>5, <1>0 DEF Valid, Goto, TypeOK, Steadiness, Familiar, Available, world, cache
  <2>6. CASE Gone(t)
    BY <2>6, <1>0, EndSteady DEF Gone, Outcomes
  <2>7. CASE StillThere(t)
    BY <2>7, <1>0 DEF StillThere, Goto, TypeOK, Steadiness, Familiar, Available, world, cache
  <2>8. CASE AllClusters(t)
    BY <2>8, <1>0 DEF AllClusters, Goto, TypeOK, Steadiness, Familiar, Available, world, cache
  <2>9. CASE ListDone(t)
    BY <2>9, <1>0, EndSteady DEF ListDone, Outcomes
  <2>10. CASE Reply(t)
    BY <2>10, <1>0 DEF Reply, Goto, TypeOK, Steadiness, Familiar, Available, world, cache
  <2>11. ASSUME NEW a \in Agents, Polled(t, a) PROVE Steadiness'
    BY <2>11, <1>0, GatewayAssumption
       DEF Polled, Info, Goto, TypeOK, Steadiness, Familiar, Available, Absent, world, cache, request
  <2>12. ASSUME NEW a \in Agents, PollRaises(t, a) PROVE Steadiness'
    BY <2>12, <1>0, EndSteady DEF PollRaises, AfterFailure, Outcomes
  <2>13. ASSUME NEW a \in Agents, Ask(t, a) PROVE Steadiness'
    BY <2>13 DEF Ask, Steadiness, Familiar, Available, world, cache
  <2>14. ASSUME NEW a \in Agents, AskFails(t, a) PROVE Steadiness'
    BY <2>14, <1>0, EndSteady DEF AskFails, Outcomes
  <2>15. ASSUME NEW a \in Agents, Unreachable(t, a) PROVE Steadiness'
    BY <2>15, <1>0, EndSteady DEF Unreachable, Outcomes
  <2>16. ASSUME NEW a \in Agents, Proxied(t, a) PROVE Steadiness'
    BY <2>16, <1>0, EndSteady DEF Proxied, Outcomes
  <2>17. ASSUME NEW a \in Agents, Permissions(t, a) PROVE Steadiness'
    BY <2>17 DEF Permissions, Steadiness, Familiar, Available, world, cache
  <2> QED
    BY <1>3, <2>1, <2>2, <2>3, <2>4, <2>5, <2>6, <2>7, <2>8, <2>9, <2>10, <2>11, <2>12, <2>13,
       <2>14, <2>15, <2>16, <2>17 DEF Step
<1>4. CASE UNCHANGED vars
  BY <1>4 DEF vars, world, cache, Steadiness, Familiar, Available
<1> QED
  BY <1>1, <1>2, <1>3, <1>4, GatewayAssumption DEF Next

(* A cluster whose agent has always been available is known to every       *)
(* request that reads or uses the agents, whatever the other agents and    *)
(* the discoveries of the other threads do.                                *)
THEOREM SteadyAgentsServed == Spec => []SteadyAgentsKnown
<1>1. Steadiness => SteadyAgentsKnown
  BY DEF Steadiness, Familiar, SteadyAgentsKnown
<1>2. Spec => []TypeInv
  BY TypeInitially, TypeStep, PTL DEF Spec
<1> QED
  BY <1>1, <1>2, SteadinessInitially, SteadinessStep, PTL DEF Spec
=============================================================================
