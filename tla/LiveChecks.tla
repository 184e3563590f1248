------------------------------ MODULE LiveChecks ------------------------------
(***************************************************************************)
(* The checks channel of a job's live session, end to end: every task      *)
(* appends the events of its checks to a file of its own                   *)
(* (contrib/slurm-check), the agent's session (JobLiveSession,             *)
(* views/agent.py) reads the files one after the other, sends a snapshot   *)
(* and then the events past its cursor, and the page keeps the last event  *)
(* of every check.  A connection may be lost at any time; the page         *)
(* resumes from the highest sequence number it has seen.                   *)
(*                                                                         *)
(* A sequence number is the time on the node of the task (time_ns), taken  *)
(* before the line is written and without a lock.  Two events never share  *)
(* one, and nothing orders the numbers with the appearance of the lines,   *)
(* neither between tasks nor between the processes of one task (every      *)
(* process of a batch script reports as task 0).  A line half written is   *)
(* skipped by the reader, as if it were not there yet.                     *)
(***************************************************************************)
EXTENDS Naturals, Sequences, FiniteSets, SequencesExt, FiniteSetsExt

CONSTANTS
  Tasks,     \* the tasks of the job, each with an event file
  Checks,    \* the checks a task reports on
  KeptOfFile,\* lines the agent reads at the end of a file (2 MB of them)
  Kept,      \* events the agent keeps of all it reads (10000)
  Grain,     \* what the page's numbers are multiples of, above 2^53
  MaxSeq,    \* bound: sequence numbers
  MaxDrops   \* bound: connections lost

ASSUME LiveChecksAssumption ==
  /\ IsFiniteSet(Tasks) /\ IsFiniteSet(Checks)
  /\ KeptOfFile \in Nat \ {0} /\ Kept \in Nat \ {0} /\ Grain \in Nat \ {0}
  /\ MaxSeq \in Nat
  /\ MaxDrops \in Nat

VARIABLES
  stamped,     \* the events the running emits are about to append
  written,     \* the events in the files
  conn,        \* the page's socket and the session behind it are up
  drops,       \* connections lost so far
  control,     \* the cursor of a subscribe frame in flight, or nothing
  wire,        \* frames from the session to the page
  subscribed,  \* "checks" is among the channels of the session
  cursor,      \* checks_cursor of the session
  reading,     \* what the session reads the files for
  unread,      \* the tasks whose file it has not read yet
  read,        \* the events it read
  shown,       \* shown[k]: the event shown for check k, by its number in the file
  checksCursor,\* the page's checksCursor
  since,       \* history: lines written after this pass read their file
  late         \* history: lines written too late for this session (Missed)

jobVars     == <<stamped, written>>
linkVars    == <<conn, drops, control, wire>>
sessionVars == <<subscribed, cursor, reading, unread, read>>
pageVars    == <<shown, checksCursor>>
pastVars    == <<since, late>>
vars        == <<jobVars, linkVars, sessionVars, pageVars, pastVars>>

Key      == Tasks \X Checks
Event    == [seq : 1..MaxSeq, task : Tasks, check : Checks]
Line     == [seq : 1..MaxSeq, task : Tasks, check : Checks, line : Nat]
KeyOf(e) == <<e.task, e.check>>

Seqs(events) == {e.seq : e \in events}
Highest(events) == Max(Seqs(events) \cup {0})
Of(k, events) == {e \in events : KeyOf(e) = k}

(* The end of a task's file: stat().st_size - 2_000_000.                   *)
Lines(t) == {e \in written : e.task = t}
Following(e) == {f \in written : f.task = e.task /\ f.line > e.line}
LastLines(t) == {e \in Lines(t) : Cardinality(Following(e)) < KeptOfFile}

(* events[-10000:], once sorted by sequence number; the mutant keeps the   *)
(* first ones.                                                             *)
Recent_Oldest(events) ==
  {e \in events : Cardinality({f \in events : f.seq < e.seq}) < Kept}

Recent(events) ==
  {e \in events : Cardinality({f \in events : f.seq > e.seq}) < Kept}
Before(e, events) == {f \in events : f.seq < e.seq}
Sorted(events) ==
  [i \in 1..Cardinality(events) |->
     CHOOSE e \in events : Cardinality(Before(e, events)) = i - 1]

(* What JSON.parse makes of a number past 2^53: the nearest multiple of    *)
(* Grain, the even one of two as near.                                     *)
Rounded(q) ==
  LET m == q \div Grain
      r == q % Grain
  IN  IF 2 * r < Grain \/ (2 * r = Grain /\ m % 2 = 0) THEN m * Grain ELSE (m + 1) * Grain

Init ==
  /\ stamped = {} /\ written = {}
  /\ conn = FALSE /\ drops = 0 /\ control = <<>> /\ wire = <<>>
  /\ subscribed = FALSE /\ cursor = 0
  /\ reading = "nothing" /\ unread = {} /\ read = {}
  /\ shown = [k \in Key |-> 0] /\ checksCursor = 0
  /\ since = {} /\ late = {}

-----------------------------------------------------------------------------
(* slurm-check, run by the tasks.                                          *)

Used == Seqs(stamped \cup written)

(* emit() takes the time; any number of emits run at once.                 *)
Stamp(t) ==
  /\ \E q \in (1..MaxSeq) \ Used, c \in Checks :
       stamped' = stamped \cup {[seq |-> q, task |-> t, check |-> c]}
  /\ UNCHANGED <<written, linkVars, sessionVars, pageVars, pastVars>>

(* The session has left the snapshot behind and its cursor is past q.      *)
Past(q) == subscribed /\ reading # "snapshot" /\ q <= cursor

(* emit() appends the line.                                                *)
WriteLine(e) ==
  LET appended == [seq |-> e.seq, task |-> e.task, check |-> e.check,
                   line |-> Cardinality(Lines(e.task)) + 1]
  IN  /\ stamped' = stamped \ {e}
      /\ written' = written \cup {appended}
      /\ since' = IF reading # "nothing" /\ e.task \notin unread
                    THEN since \cup {appended} ELSE since
      /\ late' = IF Past(e.seq) THEN late \cup {appended} ELSE late
      /\ UNCHANGED <<linkVars, sessionVars, pageVars>>

-----------------------------------------------------------------------------
(* The connection.                                                         *)

NewSession ==
  /\ subscribed' = FALSE /\ cursor' = 0
  /\ reading' = "nothing" /\ unread' = {} /\ read' = {}
  /\ since' = {} /\ late' = {}

(* connect(), and onopen: the page subscribes from its cursor.             *)
Connect ==
  /\ ~conn
  /\ conn' = TRUE
  /\ control' = <<checksCursor>>
  /\ NewSession
  /\ UNCHANGED <<jobVars, drops, wire, pageVars>>

(* The network, the gateway or the session fails.                          *)
Disconnect ==
  /\ conn
  /\ drops < MaxDrops
  /\ conn' = FALSE /\ drops' = drops + 1
  /\ control' = <<>> /\ wire' = <<>>
  /\ NewSession
  /\ UNCHANGED <<jobVars, pageVars>>

-----------------------------------------------------------------------------
(* The session.                                                            *)

StartReading(what) ==
  /\ reading' = what /\ unread' = Tasks /\ read' = {}
  /\ since' = {}

(* subscribe(): the cursor the page resumes from, then the snapshot is     *)
(* computed.                                                               *)
Subscribe ==
  /\ conn /\ reading = "nothing"
  /\ control # <<>>
  /\ control' = <<>>
  /\ subscribed' = TRUE
  /\ cursor' = Head(control)
  /\ StartReading("snapshot")
  /\ UNCHANGED <<jobVars, conn, drops, wire, pageVars, late>>

(* A tick with nothing received: service() goes to push_checks().          *)
Service ==
  /\ conn /\ reading = "nothing"
  /\ control = <<>> /\ subscribed
  /\ StartReading("push")
  /\ UNCHANGED <<jobVars, linkVars, subscribed, cursor, pageVars, late>>

(* _job_check_events(): the end of the next file is read, at that moment.  *)
ReadFile(t) ==
  /\ t \in unread
  /\ unread' = unread \ {t}
  /\ read' = read \cup LastLines(t)
  /\ UNCHANGED <<jobVars, linkVars, subscribed, cursor, reading, pageVars, pastVars>>

(* The last event of every check, and the highest sequence number.  The    *)
(* mutant sends what the page, by its cursor, has not seen.                *)
Snapshot_Since(events) ==
  [type |-> "checks", cursor |-> Highest(events),
   checks |-> [k \in Key |->
                 Highest({e \in events : KeyOf(e) = k /\ e.seq > cursor})]]

Snapshot(events) ==
  [type |-> "checks", cursor |-> Highest(events),
   checks |-> [k \in Key |-> Highest(Of(k, events))]]

(* The cursor after the snapshot.                                          *)
ResumeFrom(snapshot) == Max({cursor, snapshot.cursor})

(* What push_checks() sends, in order; the mutants leave the events in the *)
(* reverse order, or take the one at the cursor too.                       *)
Fresh_Reversed(events) ==
  SetToSortSeq({e \in events : e.seq > cursor}, LAMBDA e, f : e.seq > f.seq)

Fresh_From(events) == Sorted({e \in events : e.seq >= cursor})

Fresh(events) == Sorted({e \in events : e.seq > cursor})

(* The lines that a pass that takes the cursor to q has gone past unseen.  *)
Missed(q) == {e \in since : e.seq <= q}

(* subscribe() ends: the snapshot is sent; service() follows at once.      *)
SendSnapshot ==
  LET snapshot == Snapshot(Recent(read))
  IN  /\ reading = "snapshot" /\ unread = {}
      /\ cursor' = ResumeFrom(snapshot)
      /\ wire' = Append(wire, snapshot)
      /\ StartReading("push")
      /\ late' = late \cup Missed(cursor')
      /\ UNCHANGED <<jobVars, conn, drops, control, subscribed, pageVars>>

(* push_checks(): a frame for every event past the cursor.                 *)
PushChecks ==
  LET fresh == Fresh(Recent(read))
  IN  /\ reading = "push" /\ unread = {}
      /\ wire' = wire \o [i \in DOMAIN fresh |->
                            [type |-> "check", event |-> fresh[i]]]
      /\ cursor' = IF fresh = <<>> THEN cursor ELSE Last(fresh).seq
      /\ reading' = "nothing" /\ read' = {} /\ since' = {}
      /\ late' = late \cup Missed(cursor')
      /\ UNCHANGED <<jobVars, conn, drops, control, subscribed, unread, pageVars>>

-----------------------------------------------------------------------------
(* The page.                                                               *)

(* handleLiveMessage(): a checks frame replaces all that is shown, a check *)
(* frame goes to upsertCheck(); the numbers were rounded as they were      *)
(* parsed.                                                                 *)
Receive ==
  LET frame == Head(wire)
  IN  /\ conn /\ wire # <<>>
      /\ wire' = Tail(wire)
      /\ UNCHANGED <<jobVars, conn, drops, control, sessionVars, pastVars>>
      /\ \/ /\ frame.type = "checks"
            /\ shown' = frame.checks
            /\ checksCursor' = Max({checksCursor, Rounded(frame.cursor)})
         \/ /\ frame.type = "check"
            /\ shown' = [shown EXCEPT ![KeyOf(frame.event)] = frame.event.seq]
            /\ checksCursor' = Max({checksCursor, Rounded(frame.event.seq)})

-----------------------------------------------------------------------------

Session ==
  \/ Subscribe
  \/ Service
  \/ \E t \in Tasks : ReadFile(t)
  \/ SendSnapshot
  \/ PushChecks

Next ==
  \/ \E t \in Tasks : Stamp(t)
  \/ \E e \in stamped : WriteLine(e)
  \/ Connect
  \/ Disconnect
  \/ Session
  \/ Receive

(* The page reconnects on its timer, the session's loop runs and the socket *)
(* delivers; the tasks owe nothing.                                         *)
Fairness ==
  /\ WF_vars(Connect)
  /\ WF_vars(Session)
  /\ WF_vars(Receive)

Spec     == Init /\ [][Next]_vars
FairSpec == Spec /\ Fairness

-----------------------------------------------------------------------------
(* Properties.                                                             *)

(* The agent no longer reads an event: so many lines followed it in its    *)
(* file, or so many later events are in the files.                         *)
Forgotten(e) ==
  \/ Cardinality(Following(e)) >= KeptOfFile
  \/ Cardinality({f \in written : f.seq > e.seq}) >= Kept

(* A check shown never goes back to an older event, whatever connections   *)
(* were lost and whatever order the lines appeared in, unless the agent    *)
(* has forgotten the event that was shown (a reconnect then shows what is  *)
(* left of the check, or nothing).                                         *)
NeverOlder ==
  [][\A k \in Key :
       \/ shown'[k] >= shown[k]
       \/ \E e \in Of(k, written) : e.seq = shown[k] /\ Forgotten(e)]_vars

(* What the check frames in flight come on top of: the snapshot before     *)
(* them, or what the page shows.                                           *)
SnapshotInFlight == wire # <<>> /\ wire[1].type = "checks"
Ground == IF SnapshotInFlight THEN wire[1].checks ELSE shown

(* No event is sent to a page that has it: the check frames in flight are  *)
(* newer than all they come on top of and than all that precedes them      *)
(* (live.py: a reconnecting client never "duplicates data").               *)
FrameSeq(frame) == IF frame.type = "checks" THEN frame.cursor ELSE frame.event.seq
DuplicateFree ==
  \A i \in DOMAIN wire :
    wire[i].type = "check" =>
      /\ \A k \in Key : Ground[k] < FrameSeq(wire[i])
      /\ \A j \in 1..(i - 1) : FrameSeq(wire[j]) < FrameSeq(wire[i])

(* The session will not send an event its cursor is past, so it must be on *)
(* the page or in flight, itself or a later one of its check               *)
(* (live-checks.adoc: "one `check` frame per new event").                  *)
Told(e) ==
  \/ Ground[KeyOf(e)] >= e.seq
  \/ \E i \in DOMAIN wire : wire[i].type = "check" /\ wire[i].event = e
NoEventSkipped ==
  \A e \in written : Past(e.seq) => Told(e) \/ Forgotten(e)

(* What a session never tells the page is at most what the agent forgot    *)
(* and the lines that were not in their file yet when the session, having  *)
(* read it, took its cursor past their number: no event that was there to  *)
(* be read is lost, and a new session's snapshot makes up for the old      *)
(* one's late lines.                                                       *)
OnlyLateMissed ==
  \A e \in written : Past(e.seq) => Told(e) \/ Forgotten(e) \/ e \in late

(* In the end the page shows the last event of every check, but for those  *)
(* whose line came too late for the session or that the agent forgot.      *)
EventuallyCurrent ==
  <>[](\A e \in written : shown[KeyOf(e)] >= e.seq \/ Forgotten(e) \/ e \in late)
=============================================================================
