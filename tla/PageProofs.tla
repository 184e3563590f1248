------------------------------ MODULE PageProofs ------------------------------
(***************************************************************************)
(* What holds of the pages of the frontend for any choices of their users, *)
(* any data and any number of requests: the polling loop (PagePoller), and *)
(* the output of a job followed without live session (JobFallback).  And   *)
(* what holds of the assets that tests are run on, whatever is crawled and *)
(* wherever that fails (AssetsCrawler).                                    *)
(***************************************************************************)
EXTENDS PagePoller, JobFallback, AssetsCrawler, SequenceTheorems, TLAPS

(* OneLoop says nothing of the requests that were cancelled, yet they end  *)
(* too: they belong to loops of the past.  The timer that is pending is    *)
(* the one that stop() clears, and the request in progress, if any, is     *)
(* about the current choice.                                               *)
PastAndPresent ==
  /\ timers \subseteq {timeout}
  /\ \A p \in polls : p.cancelled => p.loop < generation
  /\ \A p \in polls : ~p.cancelled => p.loop = generation /\ p.param = param
  /\ \A p, q \in polls : ~p.cancelled /\ ~q.cancelled => p = q

PollerInv == PollerTypeOK /\ OneLoop /\ PastAndPresent

Polls(g) == [loop : 1..g, param : Params, cancelled : BOOLEAN]

LEMMA PollsOlder ==
  ASSUME NEW g \in Nat, NEW h \in Nat, g <= h
  PROVE  Polls(g) \subseteq Polls(h)
BY DEF Polls

LEMMA PollMade ==
  ASSUME NEW g \in Nat \ {0}, NEW v \in Params
  PROVE  /\ Poll(g, v) \in Polls(g)
         /\ Poll(g, v).loop = g /\ Poll(g, v).param = v /\ ~Poll(g, v).cancelled
BY DEF Poll, Polls

LEMMA PollCancelled ==
  ASSUME NEW g \in Nat, NEW p \in Polls(g)
  PROVE  /\ [p EXCEPT !.cancelled = TRUE] \in Polls(g)
         /\ [p EXCEPT !.cancelled = TRUE].cancelled
         /\ [p EXCEPT !.cancelled = TRUE].loop = p.loop
BY DEF Polls

LEMMA AllCancelled ==
  ASSUME PollerInv
  PROVE  /\ Cancelled \subseteq Polls(generation)
         /\ \A p \in Cancelled : p.cancelled /\ p.loop \in 1..generation
BY PollCancelled DEF PollerInv, PollerTypeOK, Cancelled, Polls

LEMMA PollerInitially == PollerInit => PollerInv
<1> SUFFICES ASSUME PollerInit PROVE PollerInv
  OBVIOUS
<1>1. /\ Poll(1, param) \in Polls(1)
      /\ Poll(1, param).loop = 1 /\ Poll(1, param).param = param /\ ~Poll(1, param).cancelled
  BY PollMade DEF PollerInit
<1> QED
  BY <1>1
     DEF PollerInit, PollerInv, PollerTypeOK, OneLoop, PastAndPresent, Live, Polls

(* The timer that is pending is cleared, and nothing that is cancelled is  *)
(* in progress.                                                            *)
LEMMA Cleared == ASSUME PollerInv, ClearTimer PROVE timers' = {} /\ timeout' = 0
BY DEF PollerInv, PastAndPresent, ClearTimer

(* A loop that starts while no other runs is the only one.                 *)
LEMMA StartsAlone ==
  ASSUME PollerInv, NEW v \in Params, NEW g \in Nat, g >= generation,
         NEW others \in SUBSET Polls(generation),
         \A p \in others : p.cancelled,
         StartLoop(v, g, others),
         timers' = {}, timeout' \in Nat, param' = v, mounted' = mounted, mounted \/ ~stopped,
         shown' = shown, loaded' \in BOOLEAN, loaded' => loaded /\ v = param
  PROVE  PollerInv'
<1> DEFINE new == Poll(g + 1, v)
<1>1. /\ generation' = g + 1 /\ stopped' = FALSE /\ polls' = others \cup {new}
      /\ polled' = polled + 1
  BY DEF StartLoop
<1>2. g + 1 \in Nat \ {0} /\ generation \in Nat /\ generation < g + 1
  BY DEF PollerInv, PollerTypeOK
<1>3. /\ new \in Polls(g + 1) /\ new.loop = g + 1 /\ new.param = v /\ ~new.cancelled
  BY <1>2, PollMade
<1> HIDE DEF new
<1>4. others \subseteq Polls(g + 1) /\ \A p \in others : p.cancelled /\ p.loop < g + 1
  BY <1>2 DEF Polls
<1>5. PollerTypeOK'
  <2>1. polls' \subseteq [loop : 1..(g + 1), param : Params, cancelled : BOOLEAN]
    BY <1>1, <1>3, <1>4 DEF Polls
  <2>2. shown' \subseteq Params /\ mounted' \in BOOLEAN /\ polled' \in Nat
    BY <1>1 DEF PollerInv, PollerTypeOK
  <2> QED
    BY <1>1, <1>2, <2>1, <2>2 DEF PollerTypeOK
<1>6. Live' = {g + 1}
  BY <1>1, <1>3 DEF Live
<1>7. OneLoop'
  BY <1>1, <1>6 DEF PollerInv, OneLoop
<1>8. PastAndPresent'
  BY <1>1, <1>2, <1>3, <1>4 DEF PastAndPresent
<1> QED
  BY <1>5, <1>7, <1>8 DEF PollerInv

(* A loop that is stopped leaves none.                                     *)
LEMMA StopsAll ==
  ASSUME PollerInv, NEW others \in SUBSET Cancelled, StopLoop(others),
         param' = param, mounted' \in BOOLEAN, shown' = shown, loaded' = loaded,
         polled' = polled
  PROVE  PollerInv'
<1>1. /\ stopped' = TRUE /\ generation' = generation + 1 /\ polls' = others
      /\ timers' = {} /\ timeout' = 0
  BY Cleared DEF StopLoop
<1>2. generation \in Nat /\ \A p \in others : p.cancelled /\ p.loop \in 1..generation
  BY AllCancelled DEF PollerInv, PollerTypeOK
<1>3. others \subseteq Polls(generation + 1)
  BY <1>2, AllCancelled, PollsOlder
<1>4. PollerTypeOK'
  BY <1>1, <1>2, <1>3 DEF PollerInv, PollerTypeOK, Polls
<1>5. Live' = {}
  BY <1>1, <1>2 DEF Live
<1>6. OneLoop'
  BY <1>1, <1>5 DEF PollerInv, OneLoop
<1>7. PastAndPresent'
  BY <1>1, <1>2 DEF PastAndPresent
<1> QED
  BY <1>4, <1>6, <1>7 DEF PollerInv

(* A request that is over leaves its timer, if its loop is the latest.     *)
LEMMA Rests ==
  ASSUME PollerInv, NEW p \in polls, Rest(p),
         shown' \subseteq Params, loaded' \in BOOLEAN, loaded' => shown' = {param}
  PROVE  PollerInv'
<1>1. /\ polls' = polls \ {p}
      /\ UNCHANGED <<param, generation, stopped, mounted, polled>>
  BY DEF Rest
<1>2. p \in Polls(generation) /\ generation \in Nat
  BY DEF PollerInv, PollerTypeOK, Polls
<1>3. CASE GoesOn(p.loop)
  <2>1. p.loop = generation /\ ~stopped
    BY <1>3 DEF GoesOn
  <2>2. ~p.cancelled
    BY <1>2, <2>1 DEF PollerInv, PastAndPresent
  <2>3. Live = {generation} /\ timers = {}
    BY <2>1, <2>2 DEF PollerInv, OneLoop, Live
  <2>4. Live' = {}
    BY <1>1, <2>2 DEF Live, PollerInv, PastAndPresent
  <2>5. timers' = {generation} /\ timeout' = generation
    BY <1>3, <2>1, <2>3 DEF Rest
  <2>6. generation >= 1
    BY <1>2, <2>1 DEF Polls
  <2>7. PollerTypeOK'
    BY <1>1, <1>2, <2>5, <2>6 DEF PollerInv, PollerTypeOK
  <2>8. OneLoop'
    BY <1>1, <2>1, <2>4, <2>5 DEF PollerInv, OneLoop
  <2>9. PastAndPresent'
    BY <1>1, <2>5 DEF PollerInv, PastAndPresent
  <2> QED
    BY <2>7, <2>8, <2>9 DEF PollerInv
<1>4. CASE ~GoesOn(p.loop)
  <2>1. p.cancelled
    BY <1>4 DEF GoesOn, PollerInv, OneLoop, PastAndPresent, Live
  <2>2. Live' = Live
    BY <1>1, <2>1 DEF Live
  <2>3. UNCHANGED <<timers, timeout>>
    BY <1>4 DEF Rest
  <2> QED
    BY <1>1, <2>2, <2>3 DEF PollerInv, PollerTypeOK, OneLoop, PastAndPresent
<1> QED
  BY <1>3, <1>4

LEMMA PollerStep == PollerInv /\ [PollerNext]_pollerVars => PollerInv'
<1> SUFFICES ASSUME PollerInv, [PollerNext]_pollerVars PROVE PollerInv'
  OBVIOUS
<1>1. CASE Unmount
  BY <1>1, StopsAll DEF Unmount
<1>2. ASSUME NEW p \in polls, Receive(p) PROVE PollerInv'
  <2>1. p.param = param /\ param \in Params
    BY <1>2 DEF Receive, PollerInv, PollerTypeOK, PastAndPresent
  <2> QED
    BY <1>2, <2>1, Rests DEF Receive
<1>3. ASSUME NEW p \in polls, Fails(p) PROVE PollerInv'
  BY <1>3, Rests DEF Fails, PollerInv, PollerTypeOK, OneLoop
<1>4. ASSUME NEW p \in polls, Denied(p) PROVE PollerInv'
  BY <1>4, StopsAll DEF Denied, PollerInv, PollerTypeOK
<1>5. ASSUME NEW g \in timers, Fire(g) PROVE PollerInv'
  <2>1. ~stopped /\ g = generation /\ timers = {generation} /\ Live = {}
    BY DEF PollerInv, OneLoop
  <2>2. StartLoop(param, generation, polls) /\ timers' = {}
    BY <1>5, <2>1 DEF Fire
  <2>3. \A p \in polls : p.cancelled
    BY <2>1 DEF Live
  <2>4. param \in Params /\ generation \in Nat /\ polls \subseteq Polls(generation)
    BY DEF PollerInv, PollerTypeOK, Polls
  <2> QED
    BY <1>5, <2>1, <2>2, <2>3, <2>4, StartsAlone DEF Fire, PollerInv, PollerTypeOK
<1>6. ASSUME NEW v \in Params, SetParam(v) PROVE PollerInv'
  <2>1. timers' = {} /\ timeout' = 0
    BY <1>6, Cleared DEF SetParam
  <2>2. /\ generation + 1 \in Nat /\ generation + 1 >= generation
        /\ Cancelled \in SUBSET Polls(generation) /\ \A p \in Cancelled : p.cancelled
    BY AllCancelled DEF PollerInv, PollerTypeOK
  <2> QED
    BY <1>6, <2>1, <2>2, StartsAlone DEF SetParam
<1>7. CASE UNCHANGED pollerVars
  BY <1>7 DEF pollerVars, PollerInv, PollerTypeOK, OneLoop, PastAndPresent, Live
<1> QED
  BY <1>1, <1>2, <1>3, <1>4, <1>5, <1>6, <1>7 DEF PollerNext

(* A page runs one polling loop until it is denied what it polls or left,  *)
(* and none after, and what it tells to be loaded is the current choice,   *)
(* however its user's choices and the answers interleave (DataPoller.ts).  *)
THEOREM OneLoopRuns == PollerSpec => []OneLoop
<1>1. PollerInv => OneLoop
  BY DEF PollerInv
<1> QED
  BY <1>1, PollerInitially, PollerStep, PTL DEF PollerSpec

-----------------------------------------------------------------------------
(* Chunks that follow each other make one.                                 *)
BytesOf(j, s) == {<<j, s, k>> : k \in Nat}

LEMMA BytesAreSeq ==
  ASSUME NEW j, NEW s, NEW a \in Nat, NEW b \in Nat, a <= b
  PROVE  /\ Bytes(j, s, a, b) \in Seq(BytesOf(j, s))
         /\ Len(Bytes(j, s, a, b)) = b - a
         /\ \A i \in 1..(b - a) : Bytes(j, s, a, b)[i] = <<j, s, a + i>>
<1>1. b - a \in Nat
  OBVIOUS
<1>2. Bytes(j, s, a, b) \in [1..(b - a) -> BytesOf(j, s)]
  BY DEF Bytes, BytesOf
<1> QED
  BY <1>1, <1>2 DEF Bytes

LEMMA BytesJoin ==
  ASSUME NEW j, NEW s, NEW a \in Nat, NEW b \in Nat, NEW c \in Nat, a <= b, b <= c
  PROVE  Bytes(j, s, a, b) \o Bytes(j, s, b, c) = Bytes(j, s, a, c)
<1> DEFINE head == Bytes(j, s, a, b)
           rest == Bytes(j, s, b, c)
           all == Bytes(j, s, a, c)
           Told == BytesOf(j, s)
           n == b - a
           m == c - b
<1>1. n \in Nat /\ m \in Nat /\ c - a = n + m /\ b = a + n /\ a <= c
  OBVIOUS
<1>2. /\ head \in Seq(Told) /\ Len(head) = n
      /\ \A i \in 1..n : head[i] = <<j, s, a + i>>
  BY BytesAreSeq
<1>3. /\ rest \in Seq(Told) /\ Len(rest) = m
      /\ \A i \in 1..m : rest[i] = <<j, s, b + i>>
  BY BytesAreSeq
<1>4. /\ all \in Seq(Told) /\ Len(all) = n + m
      /\ \A i \in 1..(n + m) : all[i] = <<j, s, a + i>>
  <2>1. /\ all \in Seq(Told) /\ Len(all) = c - a
        /\ \A i \in 1..(c - a) : all[i] = <<j, s, a + i>>
    <3>1. a <= c
      OBVIOUS
    <3> QED
      BY <3>1, BytesAreSeq
  <2> HIDE DEF head, rest, all, Told, n, m
  <2> QED
    BY <1>1, <2>1
<1> HIDE DEF head, rest, all, Told, n, m
<1>5. /\ head \o rest \in Seq(Told) /\ Len(head \o rest) = n + m
      /\ \A i \in 1..(n + m) :
           (head \o rest)[i] = IF i <= n THEN head[i] ELSE rest[i - n]
  BY <1>2, <1>3, ConcatProperties
<1>6. ASSUME NEW i \in 1..(n + m) PROVE (head \o rest)[i] = all[i]
  <2>1. CASE i <= n
    <3>1. i \in 1..n
      BY <1>1, <2>1
    <3> QED
      BY <1>2, <1>4, <1>5, <2>1, <3>1
  <2>2. CASE ~(i <= n)
    <3>1. i - n \in 1..m /\ b + (i - n) = a + i
      BY <1>1, <2>2
    <3>2. rest[i - n] = <<j, s, a + i>>
      BY <1>3, <3>1
    <3> QED
      BY <1>4, <1>5, <2>2, <3>2
  <2> QED
    BY <2>1, <2>2
<1>7. head \o rest = all
  BY <1>4, <1>5, <1>6, SeqEqual
<1> QED
  BY <1>7 DEF head, rest, all

LEMMA NoBytes == ASSUME NEW j, NEW s, NEW a \in Nat PROVE Bytes(j, s, a, a) = <<>>
BY DEF Bytes

Chunks ==
  {NoChunk} \cup {Read(size, j, s, o) : size \in Nat, j \in JobIds, s \in Outputs, o \in Nat}
Polling == [at : {"free", "asked", "answered"}, job : JobIds, stream : Outputs,
            offset : Nat, chunk : Chunks]

(* The answer to a poll is a read of the file it was about, from the       *)
(* offset it asked for, at some time.                                      *)
OfItsFile(q) ==
  q.at = "answered" =>
    \E size \in Nat : q.chunk = Read(size, q.job, q.stream, q.offset)

FallbackTypeOK ==
  /\ output \in [JobIds -> [Outputs -> Nat]]
  /\ id \in JobIds /\ stream \in Outputs
  /\ offsets \in [Outputs -> Nat] /\ cleared \in [Outputs -> Nat]
  /\ view = [s \in Outputs |-> view[s]]
  /\ slot \in [Slots -> Polling]

(* What is shown is also in order: the view was not cleared further than   *)
(* the offset, without which the next chunk could not continue it.         *)
FallbackInv ==
  /\ FallbackTypeOK
  /\ \A p \in Slots : OfItsFile(slot[p])
  /\ ~crossed => \A s \in Outputs : /\ cleared[s] <= offsets[s]
                                    /\ view[s] = Bytes(id, s, cleared[s], offsets[s])

LEMMA Reads ==
  ASSUME NEW size \in Nat, NEW j, NEW s, NEW offset \in Nat
  PROVE  LET c == Read(size, j, s, offset) IN
           /\ c.next \in Nat
           /\ c.rotated => c.bytes = Bytes(j, s, 0, c.next)
           /\ ~c.rotated => offset <= c.next /\ c.bytes = Bytes(j, s, offset, c.next)
<1> DEFINE from == IF offset > size THEN 0 ELSE offset
           to == IF size - from > ChunkSize THEN from + ChunkSize ELSE size
<1>1. /\ Read(size, j, s, offset).bytes = Bytes(j, s, from, to)
      /\ Read(size, j, s, offset).rotated <=> offset > size
      /\ Read(size, j, s, offset).next = to
  BY DEF Read
<1>2. to \in Nat /\ (offset > size => from = 0) /\ (~(offset > size) => from = offset /\ offset <= to)
  BY FallbackAssumption
<1> HIDE DEF from, to
<1> QED
  BY <1>1, <1>2

LEMMA PollingMade ==
  ASSUME NEW j \in JobIds, NEW s \in Outputs, NEW o \in Nat
  PROVE  /\ Free \in Polling /\ OfItsFile(Free)
         /\ Asking(j, s, o) \in Polling /\ OfItsFile(Asking(j, s, o))
<1>1. (CHOOSE i \in JobIds : TRUE) \in JobIds
  OBVIOUS
<1>2. NoChunk \in Chunks
  BY DEF Chunks
<1>3. Free \in Polling /\ Free.at = "free"
  BY <1>1, <1>2 DEF Free, Polling, Outputs
<1>4. Asking(j, s, o) \in Polling /\ Asking(j, s, o).at = "asked"
  BY <1>3 DEF Asking, Polling
<1> QED
  BY <1>3, <1>4 DEF OfItsFile

LEMMA FallbackInitially == FallbackInit => FallbackInv
<1> SUFFICES ASSUME FallbackInit PROVE FallbackInv
  OBVIOUS
<1>1. FallbackTypeOK
  BY PollingMade DEF FallbackInit, FallbackTypeOK, Beginning, Outputs
<1>2. \A p \in Slots : OfItsFile(slot[p])
  BY PollingMade DEF FallbackInit, Outputs
<1>3. \A s \in Outputs : cleared[s] <= offsets[s] /\ view[s] = Bytes(id, s, cleared[s], offsets[s])
  BY NoBytes DEF FallbackInit, Beginning
<1> QED
  BY <1>1, <1>2, <1>3 DEF FallbackInv

(* A poll is made, or another slot is left alone.                          *)
LEMMA SlotSet ==
  ASSUME FallbackInv, NEW p \in Slots, NEW q \in Polling, OfItsFile(q),
         slot' = [slot EXCEPT ![p] = q]
  PROVE  slot' \in [Slots -> Polling] /\ \A o \in Slots : OfItsFile(slot'[o])
BY DEF FallbackInv, FallbackTypeOK

LEMMA Asks ==
  ASSUME FallbackInv, NEW p \in Slots, NEW j \in JobIds, NEW s \in Outputs, NEW o \in Nat,
         PollLog(p, j, s, o)
  PROVE  slot' \in [Slots -> Polling] /\ \A i \in Slots : OfItsFile(slot'[i])
<1>1. CASE slot' = [slot EXCEPT ![p] = Asking(j, s, o)]
  BY <1>1, PollingMade, SlotSet
<1>2. CASE slot' = [slot EXCEPT ![p] = slot[p]]
  BY <1>2 DEF FallbackInv, FallbackTypeOK
<1> QED
  BY <1>1, <1>2 DEF PollLog

LEMMA FallbackStep == FallbackInv /\ [FallbackNext]_fallbackVars => FallbackInv'
<1> SUFFICES ASSUME FallbackInv, [FallbackNext]_fallbackVars PROVE FallbackInv'
  OBVIOUS
<1>1. ASSUME NEW j \in JobIds, NEW s \in Outputs, Write(j, s) PROVE FallbackInv'
  <2>1. output' \in [JobIds -> [Outputs -> Nat]]
    <3>1. output[j] \in [Outputs -> Nat]
      BY DEF FallbackInv, FallbackTypeOK
    <3>2. [output[j] EXCEPT ![s] = @ + 1] \in [Outputs -> Nat]
      BY <3>1
    <3> QED
      BY <1>1, <3>2 DEF Write, FallbackInv, FallbackTypeOK
  <2> QED
    BY <1>1, <2>1 DEF Write, page, models, FallbackInv, FallbackTypeOK
<1>2. CASE TogglePause
  BY <1>2 DEF TogglePause, models, FallbackInv, FallbackTypeOK
<1>3. CASE ClearView
  <2>1. stream \in Outputs /\ cleared' = [cleared EXCEPT ![stream] = offsets[stream]]
    BY <1>3 DEF ClearView, FallbackInv, FallbackTypeOK
  <2>2. UNCHANGED <<output, id, stream, offsets, slot, crossed>>
    BY <1>3 DEF ClearView
  <2>3. FallbackTypeOK'
    BY <1>3, <2>1, <2>2 DEF ClearView, FallbackInv, FallbackTypeOK
  <2>4. ASSUME ~crossed, NEW s \in Outputs
        PROVE  cleared'[s] <= offsets[s] /\ view'[s] = Bytes(id, s, cleared'[s], offsets[s])
    <3>1. offsets[s] \in Nat /\ cleared[s] <= offsets[s]
          /\ view[s] = Bytes(id, s, cleared[s], offsets[s])
      BY <2>4 DEF FallbackInv, FallbackTypeOK
    <3>2. CASE s = stream
      <4>1. cleared'[s] = offsets[s] /\ view'[s] = <<>>
        BY <1>3, <3>2 DEF ClearView, FallbackInv, FallbackTypeOK
      <4> QED
        BY <3>1, <4>1, NoBytes
    <3>3. CASE s # stream
      <4>1. cleared'[s] = cleared[s] /\ view'[s] = view[s]
        BY <1>3, <3>3 DEF ClearView, FallbackInv, FallbackTypeOK
      <4> QED
        BY <3>1, <4>1
    <3> QED
      BY <3>2, <3>3
  <2> QED
    BY <2>2, <2>3, <2>4 DEF FallbackInv
<1>4. ASSUME NEW p \in Slots, Timer(p) PROVE FallbackInv'
  <2>1. slot' \in [Slots -> Polling] /\ \A i \in Slots : OfItsFile(slot'[i])
    BY <1>4, Asks DEF Timer, FallbackInv, FallbackTypeOK
  <2> QED
    BY <1>4, <2>1 DEF Timer, page, models, FallbackInv, FallbackTypeOK
<1>5. ASSUME NEW p \in Slots, Answer(p) PROVE FallbackInv'
  <2> DEFINE q == slot[p]
             c == Read(output[q.job][q.stream], q.job, q.stream, q.offset)
             answered == [q EXCEPT !.at = "answered", !.chunk = c]
  <2>1. /\ q \in Polling /\ q.job \in JobIds /\ q.stream \in Outputs /\ q.offset \in Nat
    BY DEF FallbackInv, FallbackTypeOK, Polling
  <2>2. output[q.job][q.stream] \in Nat
    BY <2>1 DEF FallbackInv, FallbackTypeOK
  <2>3. c \in Chunks
    BY <2>1, <2>2 DEF Chunks
  <2>4. slot' = [slot EXCEPT ![p] = answered]
    BY <1>5 DEF Answer
  <2>5. \E size \in Nat : c = Read(size, q.job, q.stream, q.offset)
    BY <2>2
  <2> HIDE DEF c, q
  <2>6. answered \in Polling /\ OfItsFile(answered)
    BY <2>1, <2>3, <2>5 DEF Polling, OfItsFile
  <2> HIDE DEF answered
  <2>7. slot' \in [Slots -> Polling] /\ \A i \in Slots : OfItsFile(slot'[i])
    BY <2>4, <2>6, SlotSet
  <2> QED
    BY <1>5, <2>7 DEF Answer, page, models, FallbackInv, FallbackTypeOK
<1>6. ASSUME NEW p \in Slots, PollFails(p) PROVE FallbackInv'
  <2>1. slot' \in [Slots -> Polling] /\ \A i \in Slots : OfItsFile(slot'[i])
    BY <1>6, PollingMade, SlotSet DEF PollFails, FallbackInv, FallbackTypeOK
  <2> QED
    BY <1>6, <2>1 DEF PollFails, page, models, FallbackInv, FallbackTypeOK
<1>7. ASSUME NEW p \in Slots, AppendLog(p) PROVE FallbackInv'
  <2> DEFINE q == slot[p]
             c == q.chunk
  <2>1. stream \in Outputs /\ id \in JobIds /\ UNCHANGED <<output, id, stream, paused, shows>>
    BY <1>7 DEF AppendLog, page, FallbackInv, FallbackTypeOK
  <2>2. /\ q \in Polling /\ q.offset \in Nat /\ OfItsFile(q) /\ q.at = "answered"
    BY <1>7 DEF AppendLog, FallbackInv, FallbackTypeOK, Polling
  <2>3. PICK size \in Nat : c = Read(size, q.job, q.stream, q.offset)
    BY <2>2 DEF OfItsFile
  <2>4. /\ c.next \in Nat
        /\ c.rotated => c.bytes = Bytes(q.job, q.stream, 0, c.next)
        /\ ~c.rotated => q.offset <= c.next /\ c.bytes = Bytes(q.job, q.stream, q.offset, c.next)
    BY <2>2, <2>3, Reads
  <2>5. /\ view' = [view EXCEPT ![stream] = IF c.rotated THEN c.bytes ELSE @ \o c.bytes]
        /\ cleared' = IF c.rotated THEN [cleared EXCEPT ![stream] = 0] ELSE cleared
        /\ offsets' = [offsets EXCEPT ![stream] = c.next]
        /\ ~crossed' => /\ ~crossed /\ q.job = id /\ q.stream = stream
                        /\ q.offset = offsets[stream]
    BY <1>7 DEF AppendLog
  <2>6. slot' \in [Slots -> Polling] /\ \A i \in Slots : OfItsFile(slot'[i])
    BY <1>7, <2>1, PollingMade, SlotSet DEF AppendLog, FallbackInv, FallbackTypeOK
  <2> HIDE DEF c, q
  <2>7. offsets' \in [Outputs -> Nat] /\ cleared' \in [Outputs -> Nat]
    BY <2>1, <2>4, <2>5 DEF FallbackInv, FallbackTypeOK
  <2>8. view' = [s \in Outputs |-> view'[s]]
    BY <2>5 DEF FallbackInv, FallbackTypeOK
  <2>9. FallbackTypeOK'
    BY <2>1, <2>6, <2>7, <2>8 DEF FallbackInv, FallbackTypeOK
  <2>10. ASSUME ~crossed', NEW s \in Outputs
         PROVE  cleared'[s] <= offsets'[s] /\ view'[s] = Bytes(id, s, cleared'[s], offsets'[s])
    <3>1. /\ cleared[s] \in Nat /\ offsets[s] \in Nat /\ cleared[s] <= offsets[s]
          /\ view[s] = Bytes(id, s, cleared[s], offsets[s])
      BY <2>5, <2>10 DEF FallbackInv, FallbackTypeOK
    <3>2. CASE s # stream
      <4>1. cleared'[s] = cleared[s] /\ offsets'[s] = offsets[s] /\ view'[s] = view[s]
        BY <2>5, <3>2 DEF FallbackInv, FallbackTypeOK
      <4> QED
        BY <3>1, <4>1
    <3>3. CASE s = stream /\ c.rotated
      <4>1. cleared'[s] = 0 /\ offsets'[s] = c.next /\ view'[s] = c.bytes
        BY <2>1, <2>5, <3>3 DEF FallbackInv, FallbackTypeOK
      <4>2. c.bytes = Bytes(id, s, 0, c.next)
        BY <2>4, <2>5, <2>10, <3>3
      <4> QED
        BY <2>4, <4>1, <4>2
    <3>4. CASE s = stream /\ ~c.rotated
      <4>1. cleared'[s] = cleared[s] /\ offsets'[s] = c.next /\ view'[s] = view[s] \o c.bytes
        BY <2>1, <2>5, <3>4 DEF FallbackInv, FallbackTypeOK
      <4>2. c.bytes = Bytes(id, s, offsets[s], c.next) /\ offsets[s] <= c.next
        BY <2>4, <2>5, <2>10, <3>4
      <4>3. view[s] \o c.bytes = Bytes(id, s, cleared[s], c.next)
        <5>1. Bytes(id, s, cleared[s], offsets[s]) \o Bytes(id, s, offsets[s], c.next)
                = Bytes(id, s, cleared[s], c.next)
          <6>1. /\ cleared[s] \in Nat /\ offsets[s] \in Nat /\ c.next \in Nat
                /\ cleared[s] <= offsets[s] /\ offsets[s] <= c.next
            BY <2>4, <3>1, <4>2
          <6> QED
            BY <6>1, BytesJoin, ZenonT(30)
        <5> QED
          BY <3>1, <4>2, <5>1
      <4>4. cleared[s] <= c.next
        BY <2>4, <3>1, <4>2
      <4> QED
        BY <4>1, <4>3, <4>4
    <3> QED
      BY <3>2, <3>3, <3>4
  <2> QED
    BY <2>1, <2>6, <2>9, <2>10 DEF FallbackInv
<1>8. ASSUME NEW p \in Slots, SwitchStream(p) PROVE FallbackInv'
  <2>1. stream' \in Outputs /\ UNCHANGED <<output, id, offsets, view, cleared, crossed>>
    BY <1>8 DEF SwitchStream, models
  <2>2. id \in JobIds /\ offsets[stream'] \in Nat
    BY <2>1 DEF FallbackInv, FallbackTypeOK
  <2>3. slot' \in [Slots -> Polling] /\ \A i \in Slots : OfItsFile(slot'[i])
    BY <1>8, <2>1, <2>2, Asks DEF SwitchStream
  <2> QED
    BY <2>1, <2>3 DEF FallbackInv, FallbackTypeOK
<1>9. ASSUME NEW p \in Slots, NEW j \in JobIds, ResetForNewJob(p, j) PROVE FallbackInv'
  <2>1. /\ id' = j /\ offsets' = Beginning /\ cleared' = Beginning
        /\ view' = [s \in Outputs |-> <<>>] /\ UNCHANGED <<output, stream>>
    BY <1>9 DEF ResetForNewJob, ResetOffsets
  <2>2. /\ Beginning \in [Outputs -> Nat] /\ \A s \in Outputs : Beginning[s] = 0
    BY DEF Beginning
  <2>3. stream \in Outputs /\ offsets'[stream] = 0 /\ 0 \in Nat
    BY <2>1, <2>2 DEF FallbackInv, FallbackTypeOK
  <2>4. PollLog(p, j, stream, offsets'[stream])
    BY <1>9 DEF ResetForNewJob
  <2>5. slot' \in [Slots -> Polling] /\ \A i \in Slots : OfItsFile(slot'[i])
    BY <2>3, <2>4, Asks
  <2>6. FallbackTypeOK'
    BY <2>1, <2>2, <2>5 DEF FallbackInv, FallbackTypeOK
  <2>7. \A s \in Outputs : /\ cleared'[s] <= offsets'[s]
                           /\ view'[s] = Bytes(id', s, cleared'[s], offsets'[s])
    BY <2>1, <2>2, NoBytes
  <2> QED
    BY <2>5, <2>6, <2>7 DEF FallbackInv
<1>10. CASE UNCHANGED fallbackVars
  BY <1>10 DEF fallbackVars, FallbackInv, FallbackTypeOK
<1> QED
  BY <1>1, <1>2, <1>3, <1>4, <1>5, <1>6, <1>7, <1>8, <1>9, <1>10 DEF FallbackNext

(* What the page shows of each stream is what its file holds from where    *)
(* the view was cleared to the offset reached, each byte once, as long as  *)
(* no answer crosses another or a change of job or stream (pollLog() and   *)
(* appendLog()): for any files, chunk size, number of polls out at once    *)
(* and choices of the user.                                                *)
THEOREM FallbackFaithful == FallbackSpec => []ShownAsInFile
<1>1. FallbackInv => ShownAsInFile
  BY DEF FallbackInv, ShownAsInFile
<1> QED
  BY <1>1, FallbackInitially, FallbackStep, PTL DEF FallbackSpec

-----------------------------------------------------------------------------
(* The crawler of the assets the tests of the pages and of their servers   *)
(* are run on.                                                             *)

(* The setups of an asset, and what is left of them: only "nodes" sets     *)
(* nodes down, only "reservations" books, and does nothing else.           *)
PlainOps == {"queued", "job", "look", "cancel"}
NodeOps == PlainOps \cup {"down", "drain"}
Setups(a) ==
  Seq(PlainOps) \cup (IF a = "nodes" THEN Seq(NodeOps) ELSE {})
                \cup (IF a = "reservations" THEN {SetupForReservations} ELSE {})

(* The responses dumped: their file does not depend on their status, but   *)
(* for the login message, and none but "openapi" is shared.                *)
FileNames ==
  {"ping", "not-found", "jwt", "jobs", "job", "job-state", "archived", "job-unfound", "past",
   "nodes", "node-state", "node-unfound", "jobs-node", "gpus", "db-gpus", "gpus-pending",
   "db-gpus-pending", "gpu-node", "idle-node", "node-without-gpu", "reservations",
   "clusters", "stats", "metrics", "info", "hour", "unknown"}
Dumps == {LoginMessage, Shared("openapi")} \cup
         {Into(f, how) : f \in FileNames, how \in {"once", "found", "again"}}

Fits(a, x) == x.setup \in Setups(a) /\ x.dumps \in Seq(Dumps)

LEMMA DumpsOnce ==
  ASSUME NEW f \in FileNames
  PROVE  Once(f) \in Dumps /\ IfFound(f) \in Dumps /\ Again(f) \in Dumps
BY DEF Dumps, Once, IfFound, Again

LEMMA AssetFits ==
  ASSUME NEW a, NEW outputs, NEW setup, NEW dumps
  PROVE  Fits(a, Asset(outputs, setup, dumps)) <=> setup \in Setups(a) /\ dumps \in Seq(Dumps)
BY DEF Fits, Asset

LEMMA SetupsFit ==
  ASSUME NEW a
  PROVE  /\ <<>> \in Setups(a) /\ SetupForStats \in Setups(a) /\ SetupForJobs \in Setups(a)
         /\ SetupForJobsNode \in Setups(a) /\ SetupForPendingGpus \in Setups(a)
         /\ SetupForGpus \in Setups(a) /\ SetupForGpuNode \in Setups(a)
         /\ SetupForIdleNode \in Setups(a)
         /\ SetupForNodes \in Setups("nodes")
         /\ SetupForReservations \in Setups("reservations")
<1>1. Fillers \in Nat
  BY CrawlerAssumption
<1>2. Filling \in Seq(PlainOps) /\ SetupForJobsNode \in Seq(PlainOps)
  BY <1>1 DEF Filling, SetupForJobsNode, PlainOps
<1>3. <<"queued", "queued", "queued", "job">> \in Seq(PlainOps)
  BY DEF PlainOps
<1>4. SetupForJobs \in Seq(PlainOps)
  BY <1>2, <1>3, ConcatProperties DEF SetupForJobs
<1>5. Filling \in Seq(NodeOps) /\ <<"down", "drain">> \in Seq(NodeOps)
  BY <1>1 DEF Filling, NodeOps, PlainOps
<1>6. SetupForNodes \in Seq(NodeOps)
  BY <1>5, ConcatProperties DEF SetupForNodes
<1>7. <<>> \in Seq(PlainOps) /\ SetupForPendingGpus \in Seq(PlainOps)
  BY DEF SetupForPendingGpus, PlainOps
<1>8. SetupForGpus \in Seq(PlainOps) /\ SetupForGpuNode \in Seq(PlainOps)
  BY DEF SetupForGpus, SetupForGpuNode, PlainOps
<1>9. SetupForIdleNode \in Seq(PlainOps)
  BY DEF SetupForIdleNode, PlainOps
<1> QED
  BY <1>2, <1>4, <1>6, <1>7, <1>8, <1>9 DEF SetupForStats, Setups

LEMMA DumpsOfAFile ==
  ASSUME NEW f \in FileNames
  PROVE  <<Once(f)>> \in Seq(Dumps) /\ <<IfFound(f)>> \in Seq(Dumps)
BY DumpsOnce

LEMMA PlainFits == ASSUME NEW a, NEW f \in FileNames PROVE Fits(a, Plain(f))
<1>1. <<Once(f)>> \in Seq(Dumps) /\ <<>> \in Setups(a)
  BY DumpsOnce, SetupsFit
<1> QED
  BY <1>1, AssetFits DEF Plain

LEMMA PastJobsFit == PastJobs \in Seq(Dumps)
BY DumpsOnce DEF PastJobs, FileNames

LEMMA ReservedFits == Fits("reservations", Reserved)
<1>1. <<Once("reservations")>> \in Seq(Dumps)
  BY DumpsOfAFile DEF FileNames
<1> QED
  BY <1>1, SetupsFit, AssetFits DEF Reserved

LEMMA SlurmrestdFits == \A a \in DOMAIN SlurmrestdAssets : Fits(a, SlurmrestdAssets[a])
<1>1. DOMAIN SlurmrestdAssets =
        {"ping", "openapi", "errors", "jobs", "past", "nodes", "gpus", "gpusPending",
         "gpuNode", "gpuNodeIdle", "nodeWithout", "reservations"}
  BY DEF SlurmrestdAssets
<1>2. Fits("ping", SlurmrestdAssets["ping"]) /\ Fits("nodeWithout", SlurmrestdAssets["nodeWithout"])
  BY PlainFits DEF SlurmrestdAssets, FileNames
<1>3. Fits("openapi", SlurmrestdAssets["openapi"])
  <2>1. <<Shared("openapi")>> \in Seq(Dumps)
    BY DEF Dumps
  <2> QED
    BY <2>1, SetupsFit, AssetFits DEF SlurmrestdAssets
<1>4. Fits("errors", SlurmrestdErrors)
  <2>1. <<Once("not-found"), IfFound("jwt")>> \in Seq(Dumps)
    BY DumpsOnce DEF FileNames
  <2> QED
    BY <2>1, SetupsFit, AssetFits DEF SlurmrestdErrors
<1>5. Fits("jobs", SlurmrestdJobs)
  <2>1. <<Once("job"), Again("jobs"), IfFound("job-state"), Once("archived"),
          Once("job-unfound")>> \in Seq(Dumps)
    BY DumpsOnce DEF FileNames
  <2> QED
    BY <2>1, SetupsFit, AssetFits, PastJobsFit, ConcatProperties DEF SlurmrestdJobs
<1>6. Fits("past", SlurmrestdAssets["past"])
  BY SetupsFit, AssetFits, PastJobsFit DEF SlurmrestdAssets
<1>7. Fits("nodes", SlurmrestdNodes)
  <2>1. <<Again("nodes"), IfFound("node-state"), Once("node-unfound")>> \in Seq(Dumps)
    BY DumpsOnce DEF FileNames
  <2> QED
    BY <2>1, SetupsFit, AssetFits DEF SlurmrestdNodes
<1>8. Fits("gpus", SlurmrestdAssets["gpus"])
  <2>1. <<Once("gpus"), Once("db-gpus")>> \in Seq(Dumps)
    BY DumpsOnce DEF FileNames
  <2> QED
    BY <2>1, SetupsFit, AssetFits DEF SlurmrestdAssets, SlurmrestdGpus
<1>9. Fits("gpusPending", SlurmrestdAssets["gpusPending"])
  <2>1. <<Once("gpus-pending"), Once("db-gpus-pending")>> \in Seq(Dumps)
    BY DumpsOnce DEF FileNames
  <2> QED
    BY <2>1, SetupsFit, AssetFits DEF SlurmrestdAssets, SlurmrestdGpus
<1>10. Fits("gpuNode", SlurmrestdGpuNode) /\ Fits("gpuNodeIdle", SlurmrestdIdleNode)
  <2>1. <<IfFound("gpu-node")>> \in Seq(Dumps) /\ <<Once("idle-node")>> \in Seq(Dumps)
    BY DumpsOfAFile DEF FileNames
  <2> QED
    BY <2>1, SetupsFit, AssetFits DEF SlurmrestdGpuNode, SlurmrestdIdleNode
<1> QED
  BY <1>1, <1>2, <1>3, <1>4, <1>5, <1>6, <1>7, <1>8, <1>9, <1>10, ReservedFits
     DEF SlurmrestdAssets

LEMMA GatewayFits == \A a \in DOMAIN GatewayAssets : Fits(a, GatewayAssets[a])
<1>1. DOMAIN GatewayAssets =
        {"clusters", "login", "stats", "jobs", "past", "nodes", "gpus", "gpusPending",
         "gpuNode", "gpuNodeIdle", "nodeWithout", "reservations", "metrics"}
  BY DEF GatewayAssets
<1>2. /\ Fits("clusters", GatewayAssets["clusters"])
      /\ Fits("nodeWithout", GatewayAssets["nodeWithout"])
  BY PlainFits DEF GatewayAssets, FileNames
<1>3. Fits("login", GatewayLogin)
  <2>1. <<LoginMessage>> \in Seq(Dumps)
    BY DEF Dumps
  <2> QED
    BY <2>1, SetupsFit, AssetFits DEF GatewayLogin
<1>4. Fits("stats", GatewayAssets["stats"])
  <2>1. <<Once("stats")>> \in Seq(Dumps)
    BY DumpsOfAFile DEF FileNames
  <2> QED
    BY <2>1, SetupsFit, AssetFits DEF GatewayAssets
<1>5. Fits("jobs", GatewayJobs)
  <2>1. <<Once("job"), Again("jobs"), IfFound("job-state"), Once("archived")>> \in Seq(Dumps)
    BY DumpsOnce DEF FileNames
  <2> QED
    BY <2>1, SetupsFit, AssetFits, PastJobsFit, ConcatProperties DEF GatewayJobs
<1>6. Fits("past", GatewayAssets["past"])
  BY SetupsFit, AssetFits, PastJobsFit DEF GatewayAssets
<1>7. Fits("nodes", GatewayNodes)
  <2>1. <<Again("nodes"), IfFound("jobs-node"), IfFound("node-state")>> \in Seq(Dumps)
    BY DumpsOnce DEF FileNames
  <2> QED
    BY <2>1, SetupsFit, AssetFits DEF GatewayNodes
<1>8. Fits("gpus", GatewayAssets["gpus"]) /\ Fits("gpusPending", GatewayAssets["gpusPending"])
  <2>1. <<Once("gpus")>> \in Seq(Dumps) /\ <<Once("gpus-pending")>> \in Seq(Dumps)
    BY DumpsOfAFile DEF FileNames
  <2> QED
    BY <2>1, SetupsFit, AssetFits DEF GatewayAssets, GatewayGpus
<1>9. Fits("gpuNode", GatewayGpuNode) /\ Fits("gpuNodeIdle", GatewayIdleNode)
  <2>1. <<IfFound("gpu-node")>> \in Seq(Dumps) /\ <<IfFound("idle-node")>> \in Seq(Dumps)
    BY DumpsOfAFile DEF FileNames
  <2> QED
    BY <2>1, SetupsFit, AssetFits DEF GatewayGpuNode, GatewayIdleNode
<1>10. Fits("metrics", GatewayMetrics)
  <2>1. <<Once("metrics")>> \in Seq(Dumps)
    BY DumpsOfAFile DEF FileNames
  <2> QED
    BY <2>1, SetupsFit, AssetFits DEF GatewayMetrics
<1> QED
  BY <1>1, <1>2, <1>3, <1>4, <1>5, <1>6, <1>7, <1>8, <1>9, <1>10, ReservedFits
     DEF GatewayAssets

LEMMA AgentFits == \A a \in DOMAIN AgentAssets : Fits(a, AgentAssets[a])
<1>1. DOMAIN AgentAssets = {"info", "jobs", "past", "nodes", "jobsNode", "metrics"}
  BY DEF AgentAssets
<1>2. Fits("info", AgentAssets["info"])
  BY PlainFits DEF AgentAssets, FileNames
<1>3. Fits("jobs", AgentAssets["jobs"])
  <2>1. <<Once("jobs")>> \in Seq(Dumps)
    BY DumpsOfAFile DEF FileNames
  <2>2. <<Once("jobs")>> \o PastJobs \in Seq(Dumps)
    BY <2>1, PastJobsFit, ConcatProperties
  <2> QED
    BY <2>2, SetupsFit, AssetFits DEF AgentAssets
<1>4. Fits("past", AgentAssets["past"])
  BY SetupsFit, AssetFits, PastJobsFit DEF AgentAssets
<1>5. Fits("nodes", AgentAssets["nodes"]) /\ Fits("jobsNode", AgentAssets["jobsNode"])
  <2>1. <<Again("nodes")>> \in Seq(Dumps) /\ <<Again("nodes"), IfFound("jobs-node")>> \in Seq(Dumps)
    BY DumpsOnce DEF FileNames
  <2> QED
    BY <2>1, SetupsFit, AssetFits DEF AgentAssets
<1>6. Fits("metrics", AgentAssets["metrics"])
  <2>1. <<IfFound("metrics")>> \in Seq(Dumps)
    BY DumpsOfAFile DEF FileNames
  <2> QED
    BY <2>1, SetupsFit, AssetFits DEF AgentAssets
<1> QED
  BY <1>1, <1>2, <1>3, <1>4, <1>5, <1>6

LEMMA PrometheusFits == \A a \in DOMAIN PrometheusAssets : Fits(a, PrometheusAssets[a])
<1>1. DOMAIN PrometheusAssets = {"hour", "unknown"}
  BY DEF PrometheusAssets
<1> QED
  BY <1>1, PlainFits DEF PrometheusAssets, FileNames

(* Every asset of every component is set up and dumped in these ways.      *)
LEMMA CatalogueFits ==
  ASSUME selection \in Selections, NEW a \in Selected
  PROVE  Fits(a, Assets[a]) /\ a # ""
<1>1. /\ selection.component \in {"slurmrestd", "gateway", "agent", "prometheus"}
      /\ a \in DOMAIN AssetsOf(selection.component)
  BY SelectionsAssumption DEF Selected
<1>2. /\ AssetsOf("slurmrestd") = SlurmrestdAssets /\ AssetsOf("gateway") = GatewayAssets
      /\ AssetsOf("agent") = AgentAssets /\ AssetsOf("prometheus") = PrometheusAssets
  BY DEF AssetsOf
<1>3. /\ "" \notin DOMAIN SlurmrestdAssets /\ "" \notin DOMAIN GatewayAssets
      /\ "" \notin DOMAIN AgentAssets /\ "" \notin DOMAIN PrometheusAssets
  BY DEF SlurmrestdAssets, GatewayAssets, AgentAssets, PrometheusAssets
<1> QED
  BY <1>1, <1>2, <1>3, SlurmrestdFits, GatewayFits, AgentFits, PrometheusFits DEF Assets

DumpsOf(a) == {Assets[a].dumps[i] : i \in DOMAIN Assets[a].dumps}
Status == {"none", "ok", "bad"}

CrawlerTypes ==
  /\ selection \in Selections
  /\ running \in [Selected -> Nat]
  /\ files \in [Files -> Status] /\ saved \in [Files -> Status]
  /\ statuses \in [Files -> Status]

(* Where the crawler is, and what is left of the setup or of the dumps of  *)
(* the asset it crawls.                                                    *)
CrawlingOf ==
  /\ crawling \in {"off", "next", "setup", "dump", "cleanup"}
  /\ crawling \in {"setup", "dump", "cleanup"} => asset \in Selected
  /\ crawling = "setup" => todo \in Setups(asset)
  /\ crawling = "dump" => todo \in Seq(DumpsOf(asset))

(* The cluster has nothing of the other assets once it is reset; a         *)
(* reservation that is to be deleted is the last thing its setup made.     *)
OnlyOfTheAsset ==
  crawling \in {"setup", "dump"} /\ ~refused =>
    /\ \A a \in Selected \ {asset} : running[a] = 0
    /\ asset # "nodes" => downs = {}

BookedByTheAsset ==
  booked /\ ~stranded =>
    /\ asset = "reservations"
    /\ \/ crawling = "setup" /\ todo = <<>> /\ "reservation" \in made
       \/ crawling \in {"dump", "cleanup"} /\ "reservation" \in undo

(* The login message is in a file of its own by its status.                *)
MessagesByStatus ==
  \A f \in Files : /\ f = "message" => files[f] # "bad"
                   /\ f = "no-message" => files[f] # "ok"

(* Memory and disk agree, but while the files of an asset are dumped and   *)
(* between two runs.                                                       *)
Settled ==
  \A f \in Files \ (spoiled \cup {"openapi"}) :
    /\ statuses[f] = files[f] \/ crawling = "off"
    /\ saved[f] = files[f] \/ (crawling = "dump" /\ f \in FilesOf(asset))

CrawlerInv ==
  /\ CrawlerTypes /\ CrawlingOf
  /\ OnlyOfTheAsset /\ BookedByTheAsset
  /\ MessagesByStatus /\ Settled

(* What is left of a setup after one more of its calls.                    *)
LEMMA SetupGoesOn ==
  ASSUME NEW a, NEW ops \in Setups(a), ops # <<>>
  PROVE  /\ Tail(ops) \in Setups(a)
         /\ Head(ops) \in {"down", "drain"} => a = "nodes"
         /\ Head(ops) = "book" => a = "reservations" /\ Tail(ops) = <<>>
<1>1. CASE ops \in Seq(PlainOps)
  <2>1. Head(ops) \in PlainOps /\ Tail(ops) \in Seq(PlainOps)
    BY <1>1, HeadTailProperties
  <2> QED
    BY <2>1 DEF Setups, PlainOps
<1>2. CASE a = "nodes" /\ ops \in Seq(NodeOps)
  <2>1. Head(ops) \in NodeOps /\ Tail(ops) \in Seq(NodeOps)
    BY <1>2, HeadTailProperties
  <2> QED
    BY <1>2, <2>1 DEF Setups, NodeOps, PlainOps
<1>3. CASE a = "reservations" /\ ops = SetupForReservations
  <2>1. Tail(ops) = <<>> /\ Head(ops) = "book"
    BY <1>3 DEF SetupForReservations
  <2> QED
    BY <1>3, <2>1, SetupsFit
<1> QED
  BY <1>1, <1>2, <1>3 DEF Setups

(* Where a response goes by its status, and how.                           *)
LEMMA FileOfADump ==
  ASSUME NEW d \in Dumps
  PROVE  \/ d.file["ok"] = "message" /\ d.file["bad"] = "no-message" /\ d.how = "once"
         \/ d.file["ok"] = "openapi" /\ d.file["bad"] = "openapi"
         \/ /\ d.file["ok"] = d.file["bad"] /\ d.file["ok"] \notin {"message", "no-message"}
            /\ d.how # "shared"
BY DEF Dumps, LoginMessage, Shared, Into, FileNames

(* What the asset crawled is set up and dumped as.                         *)
LEMMA DumpsOfAnAsset ==
  ASSUME selection \in Selections, NEW a \in Selected
  PROVE  /\ Assets[a].setup \in Setups(a) /\ Assets[a].dumps \in Seq(DumpsOf(a))
         /\ DumpsOf(a) \subseteq Dumps /\ FilesOf(a) \subseteq Files
         /\ \A d \in DumpsOf(a) : d.file["ok"] \in FilesOf(a) /\ d.file["bad"] \in FilesOf(a)
<1>1. PICK dumps : dumps = Assets[a].dumps
  OBVIOUS
<1>2. Assets[a].setup \in Setups(a) /\ dumps \in Seq(Dumps)
  BY <1>1, CatalogueFits DEF Fits
<1>3. dumps \in Seq(DumpsOf(a)) /\ DumpsOf(a) \subseteq Dumps
  <2>1. DumpsOf(a) = {dumps[i] : i \in DOMAIN dumps}
    BY <1>1 DEF DumpsOf
  <2> QED
    BY <1>2, <2>1
<1>4. ASSUME NEW d \in DumpsOf(a), NEW s \in {"ok", "bad"} PROVE d.file[s] \in FilesOf(a)
  <2>1. PICK i \in DOMAIN dumps : d = dumps[i]
    BY <1>1 DEF DumpsOf
  <2> QED
    BY <1>1, <2>1 DEF FilesOf
<1>5. FilesOf(a) \subseteq Files
  BY DEF Files
<1> QED
  BY <1>1, <1>2, <1>3, <1>4, <1>5

(* The selection is the same for all the runs.                             *)
LEMMA SameSelection ==
  ASSUME selection' = selection
  PROVE  /\ Selected' = Selected /\ Assets' = Assets /\ Files' = Files
         /\ NoJobs' = NoJobs
         /\ \A a : FilesOf(a)' = FilesOf(a) /\ DumpsOf(a)' = DumpsOf(a)
BY DEF Selected, Assets, Files, NoJobs, FilesOf, DumpsOf

LEMMA SelectionKept == [CrawlerNext]_crawlerVars => selection' = selection
BY DEF CrawlerNext, crawlerVars, cluster, disk, work, history, Start, Submit, PutDown, Book,
   Look, Cancel, SetUp, Pass, Dump, Save, Cleanup, End, Die, JobEnds, Skip, Crawl, Elsewhere

LEMMA CrawlerInitially == CrawlerInit => CrawlerInv
<1> SUFFICES ASSUME CrawlerInit PROVE CrawlerInv
  OBVIOUS
<1>1. CrawlerTypes
  BY DEF CrawlerInit, CrawlerTypes, NoJobs, Status
<1> QED
  BY <1>1 DEF CrawlerInit, CrawlerInv, CrawlingOf, OnlyOfTheAsset, BookedByTheAsset,
     MessagesByStatus, Settled

LEMMA TypesKept ==
  ASSUME CrawlerTypes, CrawlingOf, [CrawlerNext]_crawlerVars
  PROVE  CrawlerTypes'
<1>1. /\ Selected' = Selected /\ Files' = Files /\ selection' = selection
      /\ selection \in Selections /\ running \in [Selected -> Nat]
      /\ files \in [Files -> Status] /\ saved \in [Files -> Status]
      /\ statuses \in [Files -> Status]
  BY SelectionKept, SameSelection DEF CrawlerTypes
<1>2. ASSUME running' \in [Selected -> Nat], UNCHANGED disk, statuses' = statuses
      PROVE  CrawlerTypes'
  BY <1>1, <1>2 DEF disk, CrawlerTypes
<1>3. NoJobs \in [Selected -> Nat]
  BY DEF NoJobs
<1>4. ASSUME NEW a \in Selected, JobEnds(a) PROVE CrawlerTypes'
  <2>1. running[a] \in Nat /\ running[a] > 0
    BY <1>1, <1>4 DEF JobEnds
  <2>2. running[a] - 1 \in Nat
    BY <2>1
  <2>3. running' \in [Selected -> Nat]
    BY <1>1, <1>4, <2>2 DEF JobEnds
  <2> QED
    BY <1>2, <1>4, <2>3 DEF JobEnds
<1>5. ASSUME Start PROVE CrawlerTypes'
  BY <1>1, <1>5 DEF Start, cluster, disk, CrawlerTypes
<1>6. ASSUME NEW a \in Selected, Skip(a) PROVE CrawlerTypes'
  BY <1>1, <1>2, <1>6 DEF Skip, cluster
<1>7. ASSUME NEW a \in Selected, Crawl(a) PROVE CrawlerTypes'
  BY <1>1, <1>2, <1>3, <1>7 DEF Crawl, Reset
<1>8. ASSUME Queued, asset \in Selected PROVE running' \in [Selected -> Nat]
  <2>1. running[asset] + 1 \in Nat
    BY <1>1, <1>8
  <2> QED
    BY <1>1, <1>8, <2>1 DEF Queued
<1>9. ASSUME Submit PROVE CrawlerTypes'
  <2>1. asset \in Selected
    BY <1>9 DEF Submit, Doing, CrawlingOf
  <2>2. running' \in [Selected -> Nat]
    BY <1>1, <1>8, <1>9, <2>1 DEF Submit
  <2> QED
    BY <1>2, <1>9, <2>2 DEF Submit, Elsewhere
<1>10. ASSUME PutDown \/ Book \/ Look PROVE CrawlerTypes'
  BY <1>1, <1>2, <1>10 DEF PutDown, Book, Look, cluster, Elsewhere
<1>11. ASSUME Cancel PROVE CrawlerTypes'
  <2>1. running' \in [Selected -> Nat]
    BY <1>1, <1>11 DEF Cancel
  <2> QED
    BY <1>2, <1>11, <2>1 DEF Cancel, Elsewhere
<1>12. ASSUME SetUp \/ Pass \/ End \/ Die PROVE CrawlerTypes'
  BY <1>1, <1>2, <1>12 DEF SetUp, Pass, End, Die, cluster
<1>13. ASSUME Dump PROVE CrawlerTypes'
  <2>1. PICK status \in {"ok", "bad"} :
          /\ statuses' = Recorded(Dumped.file[status], status)
          /\ \/ files' = files \/ files' = [files EXCEPT ![Dumped.file[status]] = status]
    BY <1>13 DEF Dump
  <2>2. statuses' \in [Files -> Status] /\ files' \in [Files -> Status]
    BY <1>1, <2>1 DEF Recorded, Status
  <2> QED
    BY <1>1, <1>13, <2>2 DEF Dump, cluster, CrawlerTypes
<1>14. ASSUME Save PROVE CrawlerTypes'
  BY <1>1, <1>14 DEF Save, cluster, CrawlerTypes
<1>15. ASSUME Cleanup PROVE CrawlerTypes'
  <2>1. running' \in [Selected -> Nat]
    <3>1. running' = running \/ running' = [running EXCEPT ![asset] = 0]
      BY <1>15 DEF Cleanup, Undone
    <3> QED
      BY <1>1, <3>1
  <2> QED
    BY <1>2, <1>15, <2>1 DEF Cleanup
<1>16. CASE UNCHANGED crawlerVars
  BY <1>1, <1>2, <1>16 DEF crawlerVars, cluster
<1> QED
  BY <1>4, <1>5, <1>6, <1>7, <1>9, <1>10, <1>11, <1>12, <1>13, <1>14, <1>15, <1>16
     DEF CrawlerNext

LEMMA CrawlingKept ==
  ASSUME CrawlerTypes, CrawlingOf, [CrawlerNext]_crawlerVars
  PROVE  CrawlingOf'
<1>1. /\ Selected' = Selected /\ Assets' = Assets /\ \A a : DumpsOf(a)' = DumpsOf(a)
      /\ selection \in Selections
  BY SelectionKept, SameSelection DEF CrawlerTypes
<1>2. ASSUME UNCHANGED <<crawling, asset, todo>> PROVE CrawlingOf'
  BY <1>1, <1>2 DEF CrawlingOf
<1>3. ASSUME crawling' \in {"off", "next"} PROVE CrawlingOf'
  BY <1>3 DEF CrawlingOf
<1>4. ASSUME NEW a \in Selected, JobEnds(a) \/ Skip(a) PROVE CrawlingOf'
  BY <1>2, <1>4 DEF JobEnds, Skip, work
<1>5. ASSUME Start \/ Cleanup \/ End \/ Die PROVE CrawlingOf'
  BY <1>3, <1>5 DEF Start, Cleanup, End, Die
<1>6. ASSUME NEW a \in Selected, Crawl(a) PROVE CrawlingOf'
  <2>1. Assets[a].setup \in Setups(a)
    BY <1>1, DumpsOfAnAsset
  <2>2. crawling' = "setup" /\ asset' = a /\ todo' = Assets[a].setup
    BY <1>6 DEF Crawl
  <2> QED
    BY <1>1, <2>1, <2>2 DEF CrawlingOf
<1>7. ASSUME asset' = asset, asset \in Selected, crawling' = "cleanup" PROVE CrawlingOf'
  BY <1>1, <1>7 DEF CrawlingOf
<1>8. ASSUME Submit \/ PutDown \/ Book \/ Look \/ Cancel PROVE CrawlingOf'
  <2>1. /\ crawling = "setup" /\ todo # <<>> /\ asset' = asset
        /\ \/ todo' = Tail(todo) /\ crawling' = crawling
           \/ crawling' = "cleanup"
    BY <1>8 DEF Submit, PutDown, Book, Look, Cancel, Doing, Made, Raise, Elsewhere
  <2>2. asset \in Selected /\ Tail(todo) \in Setups(asset)
    BY <2>1, SetupGoesOn DEF CrawlingOf
  <2> QED
    BY <1>1, <1>7, <2>1, <2>2 DEF CrawlingOf
<1>9. ASSUME SetUp PROVE CrawlingOf'
  <2>1. /\ crawling = "setup" /\ crawling' = "dump" /\ asset' = asset
        /\ todo' = Assets[asset].dumps
    BY <1>9 DEF SetUp
  <2>2. asset \in Selected
    BY <2>1 DEF CrawlingOf
  <2>3. todo' \in Seq(DumpsOf(asset))
    BY <1>1, <2>1, <2>2, DumpsOfAnAsset
  <2> QED
    BY <1>1, <2>1, <2>2, <2>3 DEF CrawlingOf
<1>10. ASSUME Pass \/ Dump PROVE CrawlingOf'
  <2>1. /\ crawling = "dump" /\ todo # <<>> /\ asset' = asset
        /\ \/ todo' = Tail(todo) /\ crawling' = crawling
           \/ crawling' = "cleanup"
    BY <1>10 DEF Pass, Dump, Dumping, Raise
  <2>2. asset \in Selected /\ todo \in Seq(DumpsOf(asset))
    BY <2>1 DEF CrawlingOf
  <2>3. Tail(todo) \in Seq(DumpsOf(asset))
    BY <2>1, <2>2, HeadTailProperties
  <2> QED
    BY <1>1, <1>7, <2>1, <2>2, <2>3 DEF CrawlingOf
<1>11. ASSUME Save PROVE CrawlingOf'
  BY <1>7, <1>11 DEF Save, CrawlingOf
<1>12. CASE UNCHANGED crawlerVars
  BY <1>2, <1>12 DEF crawlerVars, work
<1> QED
  BY <1>4, <1>5, <1>6, <1>8, <1>9, <1>10, <1>11, <1>12 DEF CrawlerNext

(* The reset leaves nothing of the other assets, and what is made later is *)
(* of the asset crawled.                                                   *)
LEMMA ClusterKept ==
  ASSUME CrawlerTypes, CrawlingOf, OnlyOfTheAsset, BookedByTheAsset,
         [CrawlerNext]_crawlerVars
  PROVE  OnlyOfTheAsset' /\ BookedByTheAsset'
<1>1. Selected' = Selected /\ running \in [Selected -> Nat]
  BY SelectionKept, SameSelection DEF CrawlerTypes
<1>2. ASSUME UNCHANGED <<cluster, crawling, asset, todo, made, undo, refused, stranded>>
      PROVE  OnlyOfTheAsset' /\ BookedByTheAsset'
  BY <1>1, <1>2 DEF cluster, OnlyOfTheAsset, BookedByTheAsset
<1>3. ASSUME NEW a \in Selected, JobEnds(a) PROVE OnlyOfTheAsset' /\ BookedByTheAsset'
  <2>1. /\ running[a] > 0 /\ running' = [running EXCEPT ![a] = @ - 1]
        /\ UNCHANGED <<downs, booked, crawling, asset, todo, made, undo, refused, stranded>>
    BY <1>3 DEF JobEnds, work, history
  <2>2. \A b \in Selected : running[b] = 0 => running'[b] = 0
    BY <1>1, <2>1
  <2> QED
    BY <1>1, <2>1, <2>2 DEF OnlyOfTheAsset, BookedByTheAsset
<1>4. ASSUME Start \/ End PROVE OnlyOfTheAsset' /\ BookedByTheAsset'
  BY <1>4 DEF Start, End, cluster, history, OnlyOfTheAsset, BookedByTheAsset
<1>5. ASSUME NEW a \in Selected, Skip(a) PROVE OnlyOfTheAsset' /\ BookedByTheAsset'
  BY <1>2, <1>5 DEF Skip, history
<1>6. ASSUME NEW a \in Selected, Crawl(a) PROVE OnlyOfTheAsset' /\ BookedByTheAsset'
  <2>1. booked => stranded
    BY <1>6 DEF Crawl, BookedByTheAsset
  <2>2. ~refused' => downs' = {} /\ running' = NoJobs
    BY <1>6 DEF Crawl, Reset
  <2>3. ~refused' => \A b \in Selected : running'[b] = 0
    BY <2>2 DEF NoJobs
  <2>4. UNCHANGED <<booked, stranded>>
    BY <1>6 DEF Crawl
  <2> QED
    BY <1>1, <2>1, <2>2, <2>3, <2>4 DEF OnlyOfTheAsset, BookedByTheAsset
<1>7. ASSUME Doing({"queued", "job", "down", "drain", "book", "look", "cancel"})
      PROVE  /\ crawling = "setup" /\ todo # <<>> /\ asset \in Selected
             /\ Head(todo) \in {"down", "drain"} => asset = "nodes"
             /\ Head(todo) = "book" => asset = "reservations" /\ Tail(todo) = <<>>
             /\ booked => stranded
  BY <1>7, SetupGoesOn DEF Doing, CrawlingOf, BookedByTheAsset
<1>8. ASSUME Submit \/ Cancel PROVE OnlyOfTheAsset' /\ BookedByTheAsset'
  <2>1. /\ Doing({"queued", "job", "cancel"})
        /\ UNCHANGED <<downs, booked, asset, undo, refused, stranded>>
        /\ crawling' \in {"setup", "cleanup"}
    BY <1>8 DEF Submit, Cancel, Doing, Made, Raise, Elsewhere
  <2>2. \/ running' = running \/ running' = [running EXCEPT ![asset] = @ + 1]
        \/ running' = [running EXCEPT ![asset] = 0]
    BY <1>8 DEF Submit, Queued, Cancel
  <2>3. crawling = "setup" /\ (booked => stranded)
    BY <1>7, <2>1 DEF Doing
  <2>4. \A b \in Selected \ {asset} : running'[b] = running[b]
    BY <1>1, <2>2
  <2> QED
    BY <1>1, <2>1, <2>3, <2>4 DEF OnlyOfTheAsset, BookedByTheAsset
<1>9. ASSUME PutDown PROVE OnlyOfTheAsset' /\ BookedByTheAsset'
  <2>1. /\ Doing({"down", "drain"}) /\ crawling' = crawling
        /\ UNCHANGED <<running, booked, asset, undo, refused, stranded>>
    BY <1>9 DEF PutDown, Made, Elsewhere
  <2>2. asset = "nodes" /\ crawling = "setup" /\ (booked => stranded)
    BY <1>7, <2>1 DEF Doing
  <2> QED
    BY <1>1, <2>1, <2>2 DEF OnlyOfTheAsset, BookedByTheAsset
<1>10. ASSUME Book PROVE OnlyOfTheAsset' /\ BookedByTheAsset'
  <2>1. /\ Doing({"book"}) /\ UNCHANGED <<running, downs, asset, undo, refused, stranded>>
        /\ \/ booked' = TRUE /\ crawling' = crawling /\ todo' = Tail(todo)
              /\ "reservation" \in made'
           \/ booked' = booked /\ crawling' = "cleanup"
    BY <1>10 DEF Book, Made, Raise, Elsewhere
  <2>2. /\ asset = "reservations" /\ Tail(todo) = <<>>
        /\ crawling = "setup" /\ (booked => stranded)
    BY <1>7, <2>1 DEF Doing
  <2>3. OnlyOfTheAsset'
    BY <1>1, <2>1, <2>2 DEF OnlyOfTheAsset
  <2>4. CASE booked' = TRUE /\ crawling' = crawling /\ todo' = Tail(todo)
              /\ "reservation" \in made'
    <3>1. todo' = <<>> /\ crawling' = "setup" /\ asset' = "reservations"
      BY <2>1, <2>2, <2>4
    <3> QED
      BY <2>3, <2>4, <3>1 DEF BookedByTheAsset
  <2>5. CASE booked' = booked
    BY <2>1, <2>2, <2>3, <2>5 DEF BookedByTheAsset
  <2> QED
    BY <2>1, <2>4, <2>5
<1>11. ASSUME Look PROVE OnlyOfTheAsset' /\ BookedByTheAsset'
  <2>1. /\ Doing({"look"}) /\ crawling' \in {"setup", "cleanup"}
        /\ UNCHANGED <<running, downs, booked, asset, undo, refused, stranded>>
    BY <1>11 DEF Look, Doing, Made, Raise, cluster, Elsewhere
  <2>2. crawling = "setup" /\ (booked => stranded)
    BY <1>7, <2>1 DEF Doing
  <2> QED
    BY <1>1, <2>1, <2>2 DEF OnlyOfTheAsset, BookedByTheAsset
<1>12. ASSUME SetUp PROVE OnlyOfTheAsset' /\ BookedByTheAsset'
  BY <1>1, <1>12 DEF SetUp, cluster, history, OnlyOfTheAsset, BookedByTheAsset
<1>13. ASSUME Pass \/ Dump \/ Save PROVE OnlyOfTheAsset' /\ BookedByTheAsset'
  <2>1. /\ crawling = "dump" /\ crawling' \in {"dump", "cleanup"}
        /\ UNCHANGED <<running, downs, booked, asset, undo, refused, stranded>>
    BY <1>13 DEF Pass, Dump, Save, Dumping, Raise, cluster, history
  <2> QED
    BY <1>1, <2>1 DEF OnlyOfTheAsset, BookedByTheAsset
<1>14. ASSUME Cleanup PROVE OnlyOfTheAsset' /\ BookedByTheAsset'
  <2>1. PICK done \in SUBSET undo : Undone(done) /\ stranded' = (stranded \/ done # undo)
    BY <1>14 DEF Cleanup
  <2>2. ASSUME booked', ~stranded' PROVE FALSE
    <3>1. booked /\ ~stranded /\ "reservation" \notin undo /\ crawling = "cleanup"
      BY <1>14, <2>1, <2>2 DEF Undone, Cleanup
    <3> QED
      BY <3>1 DEF BookedByTheAsset
  <2> QED
    BY <1>14, <2>2 DEF Cleanup, OnlyOfTheAsset, BookedByTheAsset
<1>15. ASSUME Die PROVE OnlyOfTheAsset' /\ BookedByTheAsset'
  BY <1>15 DEF Die, OnlyOfTheAsset, BookedByTheAsset
<1>16. CASE UNCHANGED crawlerVars
  BY <1>2, <1>16 DEF crawlerVars, work, history
<1> QED
  BY <1>3, <1>4, <1>5, <1>6, <1>8, <1>9, <1>10, <1>11, <1>12, <1>13, <1>14, <1>15, <1>16
     DEF CrawlerNext

(* A response that is written is recorded with its status; the files of    *)
(* the asset of which one is recorded and not written are spoiled.         *)
LEMMA DiskKept ==
  ASSUME CrawlerTypes, CrawlingOf, MessagesByStatus, Settled,
         [CrawlerNext]_crawlerVars
  PROVE  MessagesByStatus' /\ Settled'
<1>1. /\ Files' = Files /\ \A a : FilesOf(a)' = FilesOf(a)
      /\ selection \in Selections /\ files \in [Files -> Status]
      /\ statuses \in [Files -> Status]
  BY SelectionKept, SameSelection DEF CrawlerTypes
<1>2. ASSUME UNCHANGED files PROVE MessagesByStatus'
  BY <1>1, <1>2 DEF MessagesByStatus
(* Nothing changes on the disk, nor in memory: at most, more is spoiled.   *)
<1>3. ASSUME UNCHANGED <<disk, statuses>>, crawling # "dump" \/ UNCHANGED <<crawling, asset>>,
             crawling = "off" => crawling' = "off", spoiled \subseteq spoiled'
      PROVE  MessagesByStatus' /\ Settled'
  BY <1>1, <1>2, <1>3 DEF disk, Settled
<1>4. ASSUME NEW a \in Selected, JobEnds(a) \/ Skip(a) PROVE MessagesByStatus' /\ Settled'
  BY <1>3, <1>4 DEF JobEnds, Skip, work, history
<1>5. ASSUME Start PROVE MessagesByStatus' /\ Settled'
  BY <1>1, <1>2, <1>5 DEF Start, disk, history, Settled
<1>6. ASSUME NEW a \in Selected, Crawl(a) PROVE MessagesByStatus' /\ Settled'
  BY <1>3, <1>6 DEF Crawl
<1>7. ASSUME Submit \/ PutDown \/ Book \/ Look \/ Cancel PROVE MessagesByStatus' /\ Settled'
  <2>1. crawling = "setup" /\ UNCHANGED <<disk, statuses, spoiled>>
    BY <1>7 DEF Submit, PutDown, Book, Look, Cancel, Doing, Made, Raise, Elsewhere
  <2> QED
    BY <1>3, <2>1
<1>8. ASSUME SetUp \/ Pass \/ Cleanup \/ End PROVE MessagesByStatus' /\ Settled'
  BY <1>3, <1>8 DEF SetUp, Pass, Cleanup, End, Dumping, history
<1>9. ASSUME Dump PROVE MessagesByStatus' /\ Settled'
  <2>1. PICK d : d = Dumped
    OBVIOUS
  <2>2. PICK status, f :
          /\ status \in {"ok", "bad"} /\ f = d.file[status]
          /\ statuses' = Recorded(f, status)
          /\ \/ /\ files' = IF files[f] = "none" \/ d.how = "again"
                             THEN [files EXCEPT ![f] = status] ELSE files
                /\ UNCHANGED <<crawling, spoiled>>
             \/ UNCHANGED files /\ Raise(FilesOf(asset))
    BY <1>9, <2>1 DEF Dump
  <2>3. /\ crawling = "dump" /\ todo # <<>> /\ UNCHANGED <<saved, asset>>
        /\ d.how = "again" \/ files[d.file["ok"]] = "none" \/ files[d.file["bad"]] = "none"
    BY <1>9, <2>1 DEF Dump, Dumping, There
  <2>4. asset \in Selected /\ todo \in Seq(DumpsOf(asset))
    BY <2>3 DEF CrawlingOf
  <2>5. d \in DumpsOf(asset)
    BY <2>1, <2>3, <2>4, HeadTailProperties DEF Dumped
  <2>6. d \in Dumps /\ f \in FilesOf(asset) /\ f \in Files
    BY <1>1, <2>2, <2>4, <2>5, DumpsOfAnAsset
  <2>7. statuses' = IF d.how = "shared" THEN statuses ELSE [statuses EXCEPT ![f] = status]
    BY <2>1, <2>2 DEF Recorded
  <2>8. CASE UNCHANGED files /\ Raise(FilesOf(asset))
    <3>1. crawling' = "cleanup" /\ spoiled' = spoiled \cup FilesOf(asset)
      BY <2>8 DEF Raise
    <3>2. \A g \in Files \ FilesOf(asset) : statuses'[g] = statuses[g]
      BY <1>1, <2>6, <2>7
    <3> QED
      BY <1>1, <1>2, <2>3, <2>8, <3>1, <3>2 DEF Settled
  <2>9. CASE /\ files' = IF files[f] = "none" \/ d.how = "again"
                            THEN [files EXCEPT ![f] = status] ELSE files
             /\ UNCHANGED <<crawling, spoiled>>
    <3>1. \A g \in Files \ {f} : files'[g] = files[g] /\ statuses'[g] = statuses[g]
      BY <1>1, <2>6, <2>7, <2>9
    <3>2. /\ f = "message" => status = "ok" /\ d.file["ok"] = "message"
                              /\ d.file["bad"] = "no-message" /\ d.how = "once"
          /\ f = "no-message" => status = "bad" /\ d.file["bad"] = "no-message"
                                 /\ d.file["ok"] = "message" /\ d.how = "once"
      BY <2>2, <2>6, FileOfADump
    <3>3. files'[f] = status \/ files'[f] = files[f]
      BY <1>1, <2>6, <2>9
    <3>4. MessagesByStatus'
      BY <1>1, <2>6, <3>1, <3>2, <3>3 DEF MessagesByStatus
    <3>5. f # "openapi" => files'[f] = status /\ statuses'[f] = status
      <4>1. CASE f \in {"message", "no-message"}
        <5>1. files[f] \in {"none", status}
          BY <1>1, <2>6, <3>2, <4>1 DEF MessagesByStatus, Status
        <5>2. files'[f] = status
          BY <1>1, <2>6, <2>9, <5>1
        <5>3. statuses'[f] = status
          BY <1>1, <2>6, <2>7, <3>2, <4>1
        <5> QED
          BY <5>2, <5>3
      <4>2. CASE f \notin {"message", "no-message", "openapi"}
        <5>1. d.file["ok"] = f /\ d.file["bad"] = f /\ d.how # "shared"
          BY <2>2, <2>6, <4>2, FileOfADump
        <5>2. files[f] = "none" \/ d.how = "again"
          BY <2>3, <5>1
        <5>3. files'[f] = status
          BY <1>1, <2>6, <2>9, <5>2
        <5>4. statuses'[f] = status
          BY <1>1, <2>6, <2>7, <5>1
        <5> QED
          BY <5>3, <5>4
      <4> QED
        BY <4>1, <4>2
    <3>6. Settled'
      BY <1>1, <2>3, <2>6, <2>9, <3>1, <3>5 DEF Settled
    <3> QED
      BY <3>4, <3>6
  <2> QED
    BY <2>1, <2>2, <2>8, <2>9
<1>10. ASSUME Save PROVE MessagesByStatus' /\ Settled'
  BY <1>1, <1>2, <1>10 DEF Save, history, Settled
<1>11. ASSUME Die PROVE MessagesByStatus' /\ Settled'
  <2>1. /\ crawling' = "off" /\ UNCHANGED <<disk, statuses>>
        /\ spoiled' = IF asset = "" THEN spoiled ELSE spoiled \cup FilesOf(asset)
    BY <1>11 DEF Die
  <2>2. CASE crawling = "dump"
    <3>1. asset # ""
      BY <1>1, <2>2, CatalogueFits DEF CrawlingOf
    <3> QED
      BY <1>1, <1>2, <2>1, <3>1 DEF disk, Settled
  <2>3. CASE crawling # "dump"
    <3>1. spoiled \subseteq spoiled'
      BY <2>1
    <3> QED
      BY <1>3, <2>1, <2>3, <3>1
  <2> QED
    BY <2>2, <2>3
<1>12. CASE UNCHANGED crawlerVars
  BY <1>3, <1>12 DEF crawlerVars, work, history
<1> QED
  BY <1>4, <1>5, <1>6, <1>7, <1>8, <1>9, <1>10, <1>11, <1>12 DEF CrawlerNext

LEMMA CrawlerAlways == CrawlerSpec => []CrawlerInv
<1>1. CrawlerInv /\ [CrawlerNext]_crawlerVars => CrawlerInv'
  BY TypesKept, CrawlingKept, ClusterKept, DiskKept DEF CrawlerInv
<1> QED
  BY CrawlerInitially, <1>1, PTL DEF CrawlerSpec

(* The responses dumped for an asset are those of a cluster with nothing   *)
(* of the other assets (reset_minimal(), cleanup_after_asset()), for any   *)
(* selections, any number of jobs and of runs, and wherever they fail.     *)
THEOREM AlwaysFromClean == CrawlerSpec => []CrawledFromClean
<1>1. CrawlerInv => CrawledFromClean
  BY DEF CrawlerInv, OnlyOfTheAsset, BookedByTheAsset, CrawledFromClean
<1> QED
  BY <1>1, CrawlerAlways, PTL

(* status.json has the status of every file that is there, and none of     *)
(* those that are not, but for the files of the crawls that did not end    *)
(* (dump_component_response(), BaseAssetsManager.save()).                  *)
THEOREM StatusesKept == CrawlerSpec => []StatusOfEveryFile
<1>1. CrawlerInv => StatusOfEveryFile
  BY DEF CrawlerInv, Settled, StatusOfEveryFile
<1> QED
  BY <1>1, CrawlerAlways, PTL
=============================================================================
