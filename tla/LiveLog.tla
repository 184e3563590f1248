------------------------------- MODULE LiveLog -------------------------------
(***************************************************************************)
(* The log channel of a job's live session, end to end: the job writes its *)
(* output files, the agent's session (JobLiveSession, views/agent.py)      *)
(* reads them in chunks, frames cross the WebSocket in order, and the page *)
(* (useJobLiveSocket.ts, JobPipelineConsole.vue) appends them.  A          *)
(* connection may be lost at any time with everything in flight; the page  *)
(* opens another one and resumes from the byte offsets it holds.           *)
(*                                                                         *)
(* Frames of one stream keep their order; nothing depends on the order     *)
(* between the streams, so the wire is one queue per stream.               *)
(***************************************************************************)
EXTENDS LogFile, FiniteSets

CONSTANTS
  Layouts,    \* where the output of the job may go, once Slurm tells
  MaxDrops,   \* bound: connections lost
  MaxControl  \* bound: control frames in flight

(* What the accounting says of the output path of a stream: nothing yet, a *)
(* file of its own, the file of stdout, or a file outside the log roots.   *)
PathKind == {"unknown", "own", "merged", "outside"}
Unknown  == [s \in Streams |-> "unknown"]

ASSUME LiveLogAssumption ==
  /\ Layouts \subseteq [Streams -> PathKind \ {"unknown"}]
  /\ \A l \in Layouts : l["stdout"] # "merged"
  /\ MaxDrops \in Nat
  /\ MaxControl \in Nat

VARIABLES
  layout,      \* the output paths Slurm knows
  conn,        \* the page's socket and the session behind it are up
  drops,       \* connections lost so far
  control,     \* frames from the page to the session, oldest first
  wire,        \* log frames from the session to the page, per stream
  subscribed,  \* "log" is among the channels of the session
  logPaused,   \* log_paused
  jobData,     \* the paths in the session's copy of the job
  cursor,      \* log_streams[s]["offset"]
  sentPath,    \* log_streams[s]["path"], "unset" for None
  scan,        \* streams push_log has yet to serve in this service round
  look,        \* what push_log found when it looked at the file, or NoLook
  offsets,     \* the page's byte offsets
  text,        \* the bytes the page appended to its model of the stream
  paused,      \* the page's pause button
  merged       \* the page shows stderr as merged into stdout

worldVars   == <<file, layout>>
linkVars    == <<conn, drops, control, wire>>
sessionVars ==
  <<subscribed, logPaused, jobData, cursor, sentPath, scan, look>>
pageVars    == <<offsets, text, paused, merged>>
vars        == <<worldVars, linkVars, sessionVars, pageVars>>

Zero   == [s \in Streams |-> 0]
Order  == <<"stdout", "stderr">>
Empty  == [s \in Streams |-> <<>>]

Init ==
  /\ FileInit
  /\ layout = Unknown
  /\ conn = FALSE /\ drops = 0 /\ control = <<>> /\ wire = Empty
  /\ subscribed = FALSE /\ logPaused = FALSE /\ jobData = Unknown
  /\ cursor = Zero /\ sentPath = [s \in Streams |-> "unset"]
  /\ scan = <<>> /\ look = NoLook
  /\ offsets = Zero /\ text = Empty /\ paused = FALSE /\ merged = FALSE

-----------------------------------------------------------------------------
(* The world: Slurm tells the paths, the job opens its output and writes.  *)

(* The paths come with the job, from slurmctld or from the accounting.     *)
(* Once known they stay known: the accounting keeps them when slurmctld    *)
(* forgets the job (acctjob in conf/vendor/agent.yml).                     *)
LearnPaths ==
  /\ layout = Unknown
  /\ layout' \in Layouts
  /\ UNCHANGED <<file, linkVars, sessionVars, pageVars>>

Produce ==
  /\ \E s \in Streams : layout[s] = "own" /\ (StartFile(s) \/ WriteFile(s))
  /\ UNCHANGED <<layout, linkVars, sessionVars, pageVars>>

-----------------------------------------------------------------------------
(* The connection.                                                         *)

(* JobLiveSession.__init__: a session that serves no channel yet, with the *)
(* job as _authorized_job just returned it.                                *)
NewSession(job) ==
  /\ subscribed' = FALSE /\ logPaused' = FALSE /\ jobData' = job
  /\ cursor' = Zero /\ sentPath' = [s \in Streams |-> "unset"]
  /\ scan' = <<>> /\ look' = NoLook

(* connect(), and onopen: the page subscribes from the offsets it holds.   *)
Connect ==
  /\ ~conn
  /\ conn' = TRUE
  /\ control' = <<[type |-> "subscribe", offsets |-> offsets]>>
  /\ NewSession(layout)
  /\ UNCHANGED <<worldVars, drops, wire, pageVars>>

(* The network, the gateway or the session fails: frames in flight are     *)
(* lost both ways, the session ends, the page keeps what it shows.         *)
Disconnect ==
  /\ conn
  /\ drops < MaxDrops
  /\ conn' = FALSE /\ drops' = drops + 1
  /\ control' = <<>> /\ wire' = Empty
  /\ NewSession(Unknown)
  /\ UNCHANGED <<worldVars, pageVars>>

-----------------------------------------------------------------------------
(* The session's loop: take one control frame, or none within the tick,    *)
(* then service the channels.                                              *)

(* refresh_job(), when it is due and Slurm answers, then the start of      *)
(* push_log(), unless the channel is paused or not subscribed.  The mutant *)
(* never refreshes.                                                        *)
Service_Stale(sub, pause, due) ==
  /\ jobData' = jobData
  /\ scan' = IF sub /\ ~pause THEN Order ELSE <<>>
  /\ UNCHANGED look

Service(sub, pause, due) ==
  /\ jobData' = IF sub /\ due THEN layout ELSE jobData
  /\ scan' = IF sub /\ ~pause THEN Order ELSE <<>>
  /\ UNCHANGED look

Handling(type) ==
  /\ conn
  /\ scan = <<>>
  /\ control # <<>>
  /\ Head(control).type = type
  /\ control' = Tail(control)
  /\ UNCHANGED <<worldVars, conn, drops, wire, pageVars>>

(* _log_streams_from(): the offsets a subscribe frame asks for; the mutant *)
(* starts every stream over.                                               *)
StreamsFrom_Start(message) == Zero

StreamsFrom(message) == message.offsets

HandleSubscribe(due) ==
  /\ Handling("subscribe")
  /\ subscribed' = TRUE
  /\ logPaused' = FALSE
  /\ cursor' = StreamsFrom(Head(control))
  /\ sentPath' = [s \in Streams |-> "unset"]
  /\ Service(TRUE, FALSE, due)

HandlePause(due) ==
  /\ Handling("pause")
  /\ logPaused' = TRUE
  /\ UNCHANGED <<subscribed, cursor, sentPath>>
  /\ Service(subscribed, TRUE, due)

HandleResume(due) ==
  /\ Handling("resume")
  /\ logPaused' = FALSE
  /\ UNCHANGED <<subscribed, cursor, sentPath>>
  /\ Service(subscribed, FALSE, due)

HandleNothing(due) ==
  /\ conn
  /\ scan = <<>>
  /\ control = <<>>
  /\ UNCHANGED <<worldVars, linkVars, pageVars>>
  /\ UNCHANGED <<subscribed, logPaused, cursor, sentPath>>
  /\ Service(subscribed, logPaused, due)

Turn(due) ==
  \/ HandleSubscribe(due)
  \/ HandlePause(due)
  \/ HandleResume(due)
  \/ HandleNothing(due)

-----------------------------------------------------------------------------
(* push_log: the streams are served in turn; the file of a stream is looked *)
(* at, then read.                                                           *)

Serving(s) ==
  /\ conn
  /\ scan # <<>>
  /\ Head(scan) = s
  /\ UNCHANGED <<worldVars, conn, drops, control, pageVars>>
  /\ UNCHANGED <<subscribed, jobData>>

(* A frame is sent for new bytes, for a rotation and for a changed path.   *)
Push(s, frame, path) ==
  /\ scan' = Tail(scan)
  /\ look' = NoLook
  /\ UNCHANGED logPaused
  /\ IF frame.next > frame.from \/ frame.rotated \/ path # sentPath[s]
     THEN /\ sentPath' = [sentPath EXCEPT ![s] = path]
          /\ cursor' = [cursor EXCEPT ![s] = frame.next]
          /\ wire' = [wire EXCEPT ![s] = Append(@, frame)]
     ELSE UNCHANGED <<sentPath, cursor, wire>>

LogFrame(gen, from, next, rotated) ==
  [gen |-> gen, from |-> from, next |-> next, rotated |-> rotated,
   merged |-> FALSE]

MergedFrame == [LogFrame(0, 0, 0, FALSE) EXCEPT !.merged = TRUE]

(* Slurm merged stderr into stdout: said once, the cursor is left alone.   *)
PushMerged(s) ==
  /\ Serving(s)
  /\ jobData[s] = "merged"
  /\ scan' = Tail(scan)
  /\ IF sentPath[s] # "merged"
     THEN /\ sentPath' = [sentPath EXCEPT ![s] = "merged"]
          /\ wire' = [wire EXCEPT ![s] = Append(@, MergedFrame)]
     ELSE UNCHANGED <<sentPath, wire>>
  /\ UNCHANGED <<logPaused, cursor, look>>

(* The output path is not known yet.                                       *)
PushUnknown(s) ==
  /\ Serving(s)
  /\ jobData[s] = "unknown"
  /\ Push(s, LogFrame(0, 0, 0, FALSE), "unknown")

(* A path outside the log roots: an error frame, and the whole channel is  *)
(* paused.                                                                 *)
PushRefused(s) ==
  /\ Serving(s)
  /\ jobData[s] = "outside"
  /\ logPaused' = TRUE
  /\ scan' = <<>>
  /\ UNCHANGED <<cursor, sentPath, look, wire>>

(* The file does not exist yet.                                            *)
PushAbsent(s) ==
  /\ Serving(s)
  /\ jobData[s] = "own"
  /\ ~Exists(s)
  /\ Push(s, LogFrame(0, cursor[s], cursor[s], FALSE), "own")

LookAt(s) ==
  /\ Serving(s)
  /\ jobData[s] = "own"
  /\ Exists(s)
  /\ ~look.taken
  /\ look' = Look(s, cursor[s])
  /\ UNCHANGED <<logPaused, cursor, sentPath, scan, wire>>

(* The file may have grown, or started over, since it was looked at.       *)
ReadOn(s) ==
  /\ Serving(s)
  /\ look.taken
  /\ Push(s, LogFrame(Gen(s), look.from, ReadEnd(s, look.from), look.rotated),
          "own")

PushLog(s) ==
  \/ PushMerged(s)
  \/ PushUnknown(s)
  \/ PushRefused(s)
  \/ PushAbsent(s)
  \/ LookAt(s)
  \/ ReadOn(s)

-----------------------------------------------------------------------------
(* The page.                                                               *)

(* The offset appendLog() keeps; the mutant keeps the one the chunk began  *)
(* at.                                                                     *)
NextOffset_Begin(frame) == frame.from

NextOffset(frame) == frame.next

(* appendLog(): a rotated frame restarts the model, the chunk is appended, *)
(* the offset is the one the frame tells; a merged frame only sets the tab. *)
Receive(s) ==
  LET frame == Head(wire[s])
      kept  == IF frame.rotated THEN <<>> ELSE text[s]
  IN  /\ conn
      /\ wire[s] # <<>>
      /\ wire' = [wire EXCEPT ![s] = Tail(@)]
      /\ IF frame.merged
         THEN merged' = TRUE /\ UNCHANGED <<offsets, text>>
         ELSE /\ offsets' = [offsets EXCEPT ![s] = NextOffset(frame)]
              /\ text' = [text EXCEPT ![s] =
                            kept \o Chunk(frame.gen, frame.from, frame.next)]
              /\ UNCHANGED merged
      /\ UNCHANGED <<worldVars, conn, drops, control, sessionVars, paused>>

(* togglePause(): the session is told only over an open socket.            *)
TogglePause ==
  /\ Len(control) < MaxControl
  /\ paused' = ~paused
  /\ control' = IF ~conn THEN control
                ELSE Append(control,
                            [type |-> IF paused THEN "resume" ELSE "pause"])
  /\ UNCHANGED <<worldVars, conn, drops, wire, sessionVars>>
  /\ UNCHANGED <<offsets, text, merged>>

-----------------------------------------------------------------------------

Next ==
  \/ LearnPaths
  \/ Produce
  \/ Connect
  \/ Disconnect
  \/ \E due \in BOOLEAN : Turn(due)
  \/ \E s \in Streams : PushLog(s) \/ Receive(s)
  \/ TogglePause

(* The page reconnects on its backoff timer; the session's loop runs and,  *)
(* every few seconds, refreshes the job; the socket delivers what was      *)
(* sent.  Slurm, the job and the user owe nothing.                         *)
Fairness ==
  /\ WF_vars(Connect)
  /\ WF_vars((\E due \in BOOLEAN : Turn(due)) \/ (\E s \in Streams : PushLog(s)))
  /\ SF_vars(Turn(TRUE))
  /\ WF_vars(\E s \in Streams : Receive(s))

Spec     == Init /\ [][Next]_vars
FairSpec == Spec /\ Fairness

-----------------------------------------------------------------------------
(* Properties.                                                             *)

Frame ==
  [gen : Nat, from : Nat, next : Nat, rotated : BOOLEAN, merged : BOOLEAN]

ControlFrame ==
  [type : {"subscribe"}, offsets : [Streams -> Nat]]
    \cup [type : {"pause", "resume"}]

(* Every variable has the type the code gives it.                          *)
TypeOK ==
  /\ FileType
  /\ layout \in [Streams -> PathKind]
  /\ conn \in BOOLEAN /\ drops \in Nat
  /\ control \in Seq(ControlFrame)
  /\ wire \in [Streams -> Seq(Frame)]
  /\ subscribed \in BOOLEAN /\ logPaused \in BOOLEAN
  /\ jobData \in [Streams -> PathKind]
  /\ cursor \in [Streams -> Nat]
  /\ sentPath \in [Streams -> PathKind \cup {"unset"}]
  /\ scan \in Seq(Streams)
  /\ look \in [taken : BOOLEAN, rotated : BOOLEAN, from : Nat]
  /\ offsets \in [Streams -> Nat]
  /\ text \in [Streams -> Seq(Byte)]
  /\ paused \in BOOLEAN /\ merged \in BOOLEAN

(* The page loses no byte, repeats none and reorders none, whatever        *)
(* connections it lost: the i-th byte it shows is the i-th byte of the     *)
(* file, up to the offset it resumes from (useJobLiveSocket.ts: "a         *)
(* reconnect is lossless and duplicate free").                             *)
Lossless ==
  \A s \in Streams :
    /\ Len(text[s]) = offsets[s]
    /\ \A i \in 1..Len(text[s]) : text[s][i].pos = i

(* Where the page will be once it has received what is in flight is where  *)
(* the session goes on reading: the two ends never disagree on an offset.  *)
CursorsAgree ==
  \A s \in Streams :
    subscribed =>
      cursor[s] = IF wire[s] = <<>> \/ wire[s][Len(wire[s])].merged
                  THEN offsets[s] ELSE wire[s][Len(wire[s])].next

(* The page implements the abstract delivery promise.                      *)
Delivery == INSTANCE LogDelivery WITH reach <- file, shown <- text
DeliverySpec == Delivery!Spec

(* The page shows the file as it is: all its bytes, and none of a file     *)
(* that was there before it was started over.                              *)
Settled ==
  \A s \in Streams : layout[s] = "own" /\ Exists(s) =>
    /\ offsets[s] = Size(s)
    /\ \A i \in DOMAIN text[s] : text[s][i].gen = Gen(s)

(* A file started over and written up to where the reading stood: its size *)
(* no longer tells (agent.py compares the offset with it).  The reading    *)
(* stands where the session reads next, or the page will resume from; what *)
(* was read last is in flight, or shown.                                   *)
Reading(s) == IF subscribed THEN cursor[s] ELSE offsets[s]

BytesOn(s) ==
  {i \in DOMAIN wire[s] :
     wire[s][i].rotated \/ wire[s][i].from < wire[s][i].next}

ReadLast(s) ==
  IF BytesOn(s) # {}
  THEN wire[s][CHOOSE i \in BytesOn(s) : \A j \in BytesOn(s) : j <= i].gen
  ELSE text[s][Len(text[s])].gen

Noticed(s) == look.rotated /\ Head(scan) = s

Hidden(s) ==
  /\ Exists(s) /\ 0 < Reading(s) /\ Reading(s) <= Size(s)
  /\ ReadLast(s) < Gen(s)
  /\ ~Noticed(s)

(* A channel that an error frame left paused: one path is refused.         *)
Refused == logPaused /\ \E s \in Streams : layout[s] = "outside"

(* The page shows the whole of the file in the end, and nothing else, when *)
(* the user leaves it running: no byte waits forever in a session that was *)
(* left paused, was never told a path, or was replaced, and no byte of a   *)
(* file that was started over stays on display.  But for a file that grew  *)
(* back, before a look at it, to where the reading stood, and for a        *)
(* channel that a refused path keeps paused.                               *)
EventuallyShown ==
  <>[]~paused /\ [](\A s \in Streams : ~Hidden(s)) => <>[](Settled \/ Refused)

(* Every character reaches the page as the job wrote it.                   *)
Intact ==
  \A s \in Streams : \A i \in 1..Len(text[s]) : text[s][i].whole
=============================================================================
