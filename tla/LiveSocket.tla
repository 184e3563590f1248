------------------------------ MODULE LiveSocket ------------------------------
(***************************************************************************)
(* The page's side of the live session of a job (useJobLiveSocket.ts) with *)
(* its use by the console (JobPipelineConsole.vue): one WebSocket at a     *)
(* time, reconnected on a backoff timer, given up for polling when it      *)
(* never worked, and closed for good when the server refuses.  The console *)
(* restarts it when it is shown another job.                               *)
(*                                                                         *)
(* A socket that was told to close() delivers no more message to the page; *)
(* its close event, if it comes, finds another socket in place or none.    *)
(* Sockets end in the ways LiveRelay was shown to end them.                *)
(***************************************************************************)
EXTENDS LiveEndings

CONSTANTS
  Patience,   \* FALLBACK_AFTER_FAILURES
  MaxFaults,  \* bound: connections that fail
  MaxJobs     \* bound: jobs shown

ASSUME LiveSocketAssumption ==
  /\ Patience \in Nat \ {0}
  /\ MaxFaults \in Nat
  /\ MaxJobs \in Nat

VARIABLES
  state,      \* what the page shows of the transport
  socket,     \* the page's WebSocket
  timer,      \* the reconnect timer is set
  failures,   \* consecutive connections that never were ready
  ready,      \* the current connection was
  everReady,  \* one of them was
  stopped,
  fallback,   \* the console polls
  mounted,    \* the console is on the screen
  job,        \* the number of the job shown
  faults,     \* connections that failed so far
  error,      \* the last error frame of this socket, as LiveEndings has it
  refused     \* the last word of the server on the job was a refusal

linkVars == <<socket, faults, error, refused>>
pageVars == <<state, timer, failures, ready, everReady, stopped>>
viewVars == <<fallback, mounted, job>>
vars     == <<linkVars, pageVars, viewVars>>

Init ==
  /\ state = "connecting" /\ socket = "none" /\ timer = FALSE
  /\ failures = 0 /\ ready = FALSE /\ everReady = FALSE /\ stopped = FALSE
  /\ fallback = FALSE /\ mounted = FALSE /\ job = 1
  /\ faults = 0 /\ error = NoError /\ refused = FALSE

-----------------------------------------------------------------------------
(* Steps of the composable.                                                *)

(* connect(), once not stopped.                                            *)
Dial ==
  /\ ready' = FALSE
  /\ state' = IF state = "reconnecting" THEN state ELSE "connecting"
  /\ socket' = "connecting" /\ error' = NoError

(* The page gives up on sockets that never worked; the mutant gives up on  *)
(* those that stopped working too.                                         *)
GivesUp_Often(count) == count >= Patience

GivesUp(count) == ~everReady /\ count >= Patience

(* A connection that ends without having been ready is a failure.          *)
Failures == IF ready THEN failures ELSE failures + 1

(* scheduleReconnect(), once not stopped.  The mutant sets the timer for   *)
(* connections that were never ready only.                                 *)
ScheduleReconnect_Once ==
  /\ failures' = Failures
  /\ state' = "reconnecting" /\ timer' = ~ready
  /\ UNCHANGED fallback

ScheduleReconnect ==
  /\ failures' = Failures
  /\ IF GivesUp(failures')
     THEN state' = "fallback" /\ fallback' = TRUE /\ UNCHANGED timer
     ELSE state' = "reconnecting" /\ timer' = TRUE /\ UNCHANGED fallback

-----------------------------------------------------------------------------
(* Events.                                                                 *)

(* onMounted: live.connect().                                              *)
Mount ==
  /\ ~mounted /\ job = 1 /\ ~stopped
  /\ mounted' = TRUE
  /\ Dial
  /\ UNCHANGED <<timer, failures, everReady, stopped, fallback, job>>
  /\ UNCHANGED <<faults, refused>>

Timer ==
  /\ timer
  /\ timer' = FALSE
  /\ Dial
  /\ UNCHANGED <<failures, everReady, stopped, viewVars, faults, refused>>

(* onopen: the auth and subscribe frames are sent.                         *)
Opened ==
  /\ socket = "connecting"
  /\ socket' = "open"
  /\ UNCHANGED <<faults, error, refused, pageVars, viewVars>>

(* A ready message.  It may still follow an error of the relay.            *)
Ready ==
  /\ socket = "open" /\ ~ready /\ error \in {NoError, CLOSE_UPSTREAM}
  /\ ready' = TRUE /\ everReady' = TRUE
  /\ failures' = 0
  /\ state' = "live"
  /\ UNCHANGED <<timer, stopped, linkVars, viewVars>>

(* An error message that is not transient.  The page goes by the last one: *)
(* that of the relay and that of the agent may follow each other in either *)
(* order (once; here, again and again).  The mutant looks at the close     *)
(* code only.                                                              *)
StopsFor_Nothing(code) == FALSE

StopsFor(code) == code \in Permanent

ErrorFrame ==
  /\ socket = "open"
  /\ faults < MaxFaults
  /\ \/ error = NoError /\ error' \in Errors
     \/ error \in AgentErrors /\ error' = CLOSE_UPSTREAM
     \/ error = CLOSE_UPSTREAM /\ error' \in AgentErrors
  /\ refused' = (error' \in Permanent)
  /\ stopped' = StopsFor(error')
  /\ UNCHANGED <<socket, faults>>
  /\ UNCHANGED <<state, timer, failures, ready, everReady, viewVars>>

(* onclose.                                                                *)
Closed(code) ==
  /\ socket # "none"
  /\ socket = "connecting" => code = ABNORMAL
  /\ [error |-> error, code |-> code] \in Endings
  /\ faults < MaxFaults /\ faults' = faults + 1
  /\ socket' = "none"
  /\ refused' = (refused \/ code \in Permanent)
  /\ \/ /\ stopped \/ code \in 4400..4499
        /\ stopped' = TRUE /\ state' = "closed"
        /\ UNCHANGED <<timer, failures, fallback>>
     \/ /\ ~stopped /\ code \notin 4400..4499
        /\ ScheduleReconnect
        /\ UNCHANGED stopped
  /\ UNCHANGED <<ready, everReady, mounted, job, error>>

(* props.id changed: resetForNewJob(), which restarts the socket unless the *)
(* console polls.  The mutant forgets the timer.                           *)
TimerAfterRestart_Kept == timer

TimerAfterRestart == FALSE

ShowJob ==
  /\ mounted
  /\ job < MaxJobs /\ job' = job + 1
  /\ refused' = FALSE
  /\ IF fallback
     THEN UNCHANGED <<socket, error, pageVars>>
     ELSE /\ timer' = TimerAfterRestart
          /\ stopped' = FALSE /\ failures' = 0
          /\ Dial
          /\ UNCHANGED everReady
  /\ UNCHANGED <<fallback, mounted, faults>>

(* onUnmounted: stopFallback(), and close().                               *)
Unmount ==
  /\ mounted
  /\ mounted' = FALSE
  /\ stopped' = TRUE /\ timer' = FALSE
  /\ socket' = "none" /\ state' = "closed"
  /\ UNCHANGED <<failures, ready, everReady, fallback, job>>
  /\ UNCHANGED <<faults, error, refused>>

Next ==
  \/ Mount \/ Timer \/ Opened \/ Ready \/ ErrorFrame
  \/ \E code \in {NORMAL, ABNORMAL} \cup Errors : Closed(code)
  \/ ShowJob \/ Unmount

(* The browser fires its timers, and a server that can be reached answers; *)
(* the user owes nothing.  A socket closes after an error frame.           *)
Fairness ==
  /\ WF_vars(Timer)
  /\ WF_vars(Opened)
  /\ WF_vars(Ready)
  /\ WF_vars(error # NoError /\ \E code \in {NORMAL, ABNORMAL} \cup Errors : Closed(code))

Spec     == Init /\ [][Next]_vars
FairSpec == Spec /\ Fairness

-----------------------------------------------------------------------------
(* Properties.                                                             *)

(* There is one way forward at a time: a socket, or the timer that will    *)
(* open one, or neither when the page polls or was told to stop.           *)
OneAttempt ==
  /\ ~(timer /\ socket # "none")
  /\ timer => ~stopped /\ mounted /\ state = "reconnecting"
  /\ fallback => socket = "none" /\ ~timer
  /\ ~mounted => socket = "none" /\ ~timer

(* A deployment whose sockets worked once is never given up for polling    *)
(* ("keeps reconnecting with backoff through maintenance windows instead"). *)
NeverGivesUp == everReady => state # "fallback" /\ ~fallback

(* After a refusal the page does not try that job again ("do not hammer    *)
(* the server").                                                           *)
RefusalIsFinal ==
  [][refused /\ socket = "none" /\ job' = job => socket' = "none"]_vars

(* A console left on one job is in the end served, polling, or refused; it *)
(* never keeps waiting on nothing.                                         *)
Served ==
  \/ state = "live" /\ socket = "open" /\ ready
  \/ fallback
  \/ state = "closed" /\ refused
EventuallyServed == <>[](mounted => Served)
=============================================================================
