----------------------------- MODULE JobFallback -----------------------------
(***************************************************************************)
(* How the job page follows the output of a job when the live session      *)
(* cannot be had (JobPipelineConsole.vue): pollLog() asks the agent every  *)
(* second for what follows the offset of the stream shown, and a poll that *)
(* takes longer overlaps the next ones.  What is asked is read before the  *)
(* await; where the answer goes, after it.                                 *)
(*                                                                         *)
(* The output files are there from the start and only grow here: what      *)
(* their absence and their rotation add is in LiveLog.                     *)
(***************************************************************************)
EXTENDS Integers, Sequences

CONSTANTS
  JobIds,    \* jobs the page may show
  Slots,     \* bound: polls out at once
  ChunkSize, \* bytes asked for (131072)
  MaxOutput, \* bound: bytes in each file of each job
  MaxShows   \* bound: times the user goes to another stream or job, or clears the view

Outputs == {"stdout", "stderr"}

ASSUME FallbackAssumption ==
  /\ ChunkSize \in Nat \ {0}
  /\ MaxOutput \in [JobIds -> [Outputs -> Nat]]
  /\ MaxShows \in Nat

VARIABLES
  output,   \* bytes in the files of each job
  id,       \* the job shown
  stream,   \* the stream shown
  paused,
  offsets,  \* the offset reached in each stream
  view,     \* what models holds of each stream: bytes, told apart
  cleared,  \* history: the offset of each stream when its view was cleared
  slot,     \* the polls: what was asked, and the answer
  shows,    \* changes by the user so far
  crossed   \* history: an answer came for what is not shown or asked any more

fallbackVars ==
  <<output, id, stream, paused, offsets, view, cleared, slot, shows, crossed>>
page == <<id, stream, paused, shows>>
models == <<offsets, view, cleared, crossed>>

Bytes(j, s, from, to) == [i \in 1..(to - from) |-> <<j, s, from + i>>]
NoChunk == [bytes |-> <<>>, rotated |-> FALSE, next |-> 0]
Free == [at |-> "free", job |-> CHOOSE j \in JobIds : TRUE, stream |-> "stdout",
         offset |-> 0, chunk |-> NoChunk]
Beginning == [s \in Outputs |-> 0]

FallbackInit ==
  /\ output = [j \in JobIds |-> Beginning]
  /\ id \in JobIds /\ stream = "stdout" /\ paused = FALSE
  /\ offsets = Beginning /\ cleared = Beginning
  /\ view = [s \in Outputs |-> <<>>]
  /\ slot = [p \in Slots |-> Free]
  /\ shows = 0
  /\ crossed = FALSE

-----------------------------------------------------------------------------
Write(j, s) ==
  /\ output[j][s] < MaxOutput[j][s]
  /\ output' = [output EXCEPT ![j][s] = @ + 1]
  /\ UNCHANGED <<page, models, slot>>

(* pollLog(), up to its await.                                             *)
Asking(j, s, from) == [Free EXCEPT !.at = "asked", !.job = j, !.stream = s, !.offset = from]

PollLog(p, j, s, from) ==
  /\ slot[p].at = "free"
  /\ slot' = [slot EXCEPT ![p] = IF paused THEN @ ELSE Asking(j, s, from)]

Timer(p) ==
  /\ ~paused
  /\ PollLog(p, id, stream, offsets[stream])
  /\ UNCHANGED <<output, page, models>>

(* The agent answers: job_log().                                           *)
Read(size, j, s, offset) ==
  LET from == IF offset > size THEN 0 ELSE offset
      to == IF size - from > ChunkSize THEN from + ChunkSize ELSE size
  IN  [bytes |-> Bytes(j, s, from, to), rotated |-> offset > size, next |-> to]

Answer(p) ==
  /\ slot[p].at = "asked"
  /\ LET q == slot[p] IN
       slot' = [slot EXCEPT ![p].at = "answered",
                            ![p].chunk = Read(output[q.job][q.stream], q.job, q.stream, q.offset)]
  /\ UNCHANGED <<output, page, models>>

PollFails(p) ==
  /\ slot[p].at = "asked"
  /\ slot' = [slot EXCEPT ![p] = Free]
  /\ UNCHANGED <<output, page, models>>

(* appendLog(): the answer goes to the stream that is shown when it comes. *)
AppendLog(p) ==
  /\ slot[p].at = "answered"
  /\ LET q == slot[p]
         s == stream
     IN  /\ view' = [view EXCEPT ![s] = IF q.chunk.rotated THEN q.chunk.bytes
                                        ELSE @ \o q.chunk.bytes]
         /\ cleared' = IF q.chunk.rotated THEN [cleared EXCEPT ![s] = 0] ELSE cleared
         /\ offsets' = [offsets EXCEPT ![s] = q.chunk.next]
         /\ crossed' = (crossed \/ q.job # id \/ q.stream # s \/ q.offset # offsets[s])
  /\ slot' = [slot EXCEPT ![p] = Free]
  /\ UNCHANGED <<output, page>>

-----------------------------------------------------------------------------
Shows == shows < MaxShows /\ shows' = shows + 1

TogglePause ==
  /\ paused' = ~paused
  /\ UNCHANGED <<output, id, stream, shows, models, slot>>

(* Both poll at once.                                                      *)
SwitchStream(p) ==
  /\ Shows
  /\ stream' \in Outputs \ {stream}
  /\ PollLog(p, id, stream', offsets[stream'])
  /\ UNCHANGED <<output, id, paused, models>>

(* resetForNewJob(): the answers to come for the last job are not dropped. *)
(* The mutant keeps the offsets.                                           *)
ResetOffsets_Kept == offsets

ResetOffsets == Beginning

ResetForNewJob(p, j) ==
  /\ Shows
  /\ j # id /\ id' = j
  /\ view' = [s \in Outputs |-> <<>>]
  /\ offsets' = ResetOffsets
  /\ cleared' = Beginning
  /\ crossed' = FALSE
  /\ PollLog(p, j, stream, offsets'[stream])
  /\ UNCHANGED <<output, stream, paused>>

(* The offsets are kept, so that nothing is downloaded again.              *)
ClearView ==
  /\ Shows
  /\ view' = [view EXCEPT ![stream] = <<>>]
  /\ cleared' = [cleared EXCEPT ![stream] = offsets[stream]]
  /\ UNCHANGED <<output, id, stream, paused, offsets, slot, crossed>>

FallbackNext ==
  \/ \E j \in JobIds, s \in Outputs : Write(j, s)
  \/ TogglePause \/ ClearView
  \/ \E p \in Slots :
       \/ Timer(p) \/ Answer(p) \/ PollFails(p) \/ AppendLog(p) \/ SwitchStream(p)
       \/ \E j \in JobIds : ResetForNewJob(p, j)

FallbackSpec == FallbackInit /\ [][FallbackNext]_fallbackVars

-----------------------------------------------------------------------------
(* What the page shows of each stream is what its file holds from where    *)
(* the view was cleared to the offset reached, each byte once, as long as  *)
(* no answer crosses: comes after another one moved the offset it was      *)
(* asked from, or after the user went to another stream or job.  Nothing   *)
(* but such a late answer duplicates or mixes what is shown.               *)
ShownAsInFile ==
  ~crossed =>
    \A s \in Outputs : view[s] = Bytes(id, s, cleared[s], offsets[s])
=============================================================================
