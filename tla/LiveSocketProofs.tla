--------------------------- MODULE LiveSocketProofs ---------------------------
(***************************************************************************)
(* Machine-checked proofs about the page's socket, for every patience and  *)
(* every number of failures and job switches.                              *)
(***************************************************************************)
EXTENDS LiveSocket, TLAPS

Types ==
  /\ socket \in {"none", "connecting", "open"}
  /\ failures \in Nat /\ faults \in Nat
  /\ timer \in BOOLEAN /\ ready \in BOOLEAN /\ everReady \in BOOLEAN
  /\ stopped \in BOOLEAN /\ fallback \in BOOLEAN /\ mounted \in BOOLEAN

(* The console polls only once it was mounted, and a console that left the *)
(* screen is stopped.                                                      *)
Polling == fallback => mounted \/ stopped

(* The page shows "fallback" only while it polls.                          *)
Shown == state = "fallback" => fallback

IInv == Types /\ OneAttempt /\ NeverGivesUp /\ Polling /\ Shown

-----------------------------------------------------------------------------

(* Before the console is mounted there is no socket, timer or fallback.    *)
LEMMA InitInvariant == Init => IInv
<1> SUFFICES ASSUME Init PROVE IInv
  OBVIOUS
<1>1. failures \in Nat /\ faults \in Nat
  BY DEF Init
<1>2. Types
  BY <1>1, Zenon DEF Init, Types
<1>3. OneAttempt /\ NeverGivesUp /\ Polling /\ Shown
  BY DEF Init, OneAttempt, NeverGivesUp, Polling, Shown
<1> QED
  BY <1>2, <1>3 DEF IInv

(* Mounting opens the first socket.                                        *)
LEMMA MountPreserves ==
  ASSUME IInv, Mount
  PROVE  IInv'
  BY DEF IInv, Types, OneAttempt, NeverGivesUp, Polling, Shown, Mount, Dial

(* The timer that fires is replaced by the socket it opens.                *)
LEMMA TimerPreserves ==
  ASSUME IInv, Timer
  PROVE  IInv'
  BY DEF IInv, Types, OneAttempt, NeverGivesUp, Polling, Shown, Timer, Dial,
         viewVars

(* What a socket says while it is open leaves the ways forward alone: the  *)
(* timer is not set while there is one.                                    *)
LEMMA MessagesPreserve ==
  ASSUME IInv, Opened \/ Ready \/ ErrorFrame
  PROVE  IInv'
<1> USE DEF IInv, Types, OneAttempt, NeverGivesUp, Polling, Shown
<1>1. CASE Opened
  BY <1>1 DEF Opened, pageVars, viewVars
<1>2. CASE Ready
  BY <1>2 DEF Ready, linkVars, viewVars
<1>3. CASE ErrorFrame
  BY <1>3 DEF ErrorFrame, viewVars, StopsFor
<1> QED
  BY <1>1, <1>2, <1>3

(* A socket that ends leaves the timer, the fallback or a final state; the *)
(* fallback only if no socket was ever ready.                              *)
LEMMA ClosedPreserves ==
  ASSUME IInv, NEW code, Closed(code)
  PROVE  IInv'
<1> DEFINE Ended == stopped' = TRUE /\ state' = "closed"
                      /\ UNCHANGED <<timer, failures, fallback>>
           Retried == ~stopped /\ ScheduleReconnect /\ UNCHANGED stopped
<1>1. socket # "none" /\ ~timer /\ mounted /\ ~fallback
  BY DEF IInv, Types, OneAttempt, Closed
<1>2. /\ socket' = "none" /\ mounted' = mounted
      /\ ready' = ready /\ everReady' = everReady
      /\ faults' = faults + 1
  BY DEF Closed
<1>3. Ended \/ Retried
  BY DEF Closed
<1>4. faults' \in Nat /\ failures' \in Nat
  BY <1>2, <1>3 DEF IInv, Types, ScheduleReconnect, Failures
<1>5. CASE Ended
  <2>1. timer' = FALSE /\ fallback' = FALSE
    BY <1>1, <1>5 DEF IInv, Types
  <2>2. Types'
    BY <1>2, <1>4, <1>5, <2>1, Zenon DEF IInv, Types
  <2> QED
    BY <1>1, <1>2, <1>5, <2>1, <2>2
       DEF IInv, OneAttempt, NeverGivesUp, Polling, Shown
<1>6. CASE Retried
  <2>1. CASE GivesUp(failures')
    <3>1. ~everReady /\ state' = "fallback" /\ fallback' = TRUE /\ timer' = timer
      BY <1>6, <2>1 DEF ScheduleReconnect, GivesUp
    <3>2. Types'
      BY <1>2, <1>4, <1>6, <3>1, Zenon DEF IInv, Types
    <3> QED
      BY <1>1, <1>2, <1>6, <3>1, <3>2
         DEF IInv, OneAttempt, NeverGivesUp, Polling, Shown
  <2>2. CASE ~GivesUp(failures')
    <3>1. state' = "reconnecting" /\ fallback' = fallback /\ timer' = TRUE
      BY <1>6, <2>2 DEF ScheduleReconnect
    <3>2. Types'
      BY <1>2, <1>4, <1>6, <3>1, Zenon DEF IInv, Types
    <3> QED
      BY <1>1, <1>2, <1>6, <3>1, <3>2
         DEF IInv, OneAttempt, NeverGivesUp, Polling, Shown
  <2> QED
    BY <2>1, <2>2
<1> QED
  BY <1>3, <1>5, <1>6

(* Another job: the timer goes and the socket is replaced, unless the      *)
(* console polls.                                                          *)
LEMMA ShowJobPreserves ==
  ASSUME IInv, ShowJob
  PROVE  IInv'
<1>1. mounted /\ mounted' = mounted /\ fallback' = fallback /\ faults' = faults
  BY DEF ShowJob
<1>2. CASE fallback
  BY <1>1, <1>2
     DEF IInv, Types, OneAttempt, NeverGivesUp, Polling, Shown, ShowJob, pageVars
<1>3. CASE ~fallback
  <2>1. /\ timer' = FALSE /\ stopped' = FALSE /\ ready' = FALSE
        /\ failures' = 0 /\ everReady' = everReady
        /\ socket' = "connecting"
        /\ state' = IF state = "reconnecting" THEN state ELSE "connecting"
    BY <1>3 DEF ShowJob, Dial, TimerAfterRestart
  <2>2. failures' \in Nat /\ state' # "fallback"
    BY <2>1
  <2>3. Types'
    BY <1>1, <2>1, <2>2, Zenon DEF IInv, Types
  <2>4. fallback' = FALSE
    BY <1>1, <1>3 DEF IInv, Types
  <2> QED
    BY <1>1, <2>1, <2>2, <2>3, <2>4
       DEF IInv, OneAttempt, NeverGivesUp, Polling, Shown
<1> QED
  BY <1>2, <1>3

(* Leaving the screen stops everything.                                    *)
LEMMA UnmountPreserves ==
  ASSUME IInv, Unmount
  PROVE  IInv'
  BY DEF IInv, Types, OneAttempt, NeverGivesUp, Polling, Shown, Unmount

(* Every step of the page preserves the invariant.                         *)
LEMMA StepPreserves == IInv /\ [Next]_vars => IInv'
<1> SUFFICES ASSUME IInv, [Next]_vars PROVE IInv'
  OBVIOUS
<1>1. CASE Mount
  BY <1>1, MountPreserves
<1>2. CASE Timer
  BY <1>2, TimerPreserves
<1>3. CASE Opened \/ Ready \/ ErrorFrame
  BY <1>3, MessagesPreserve
<1>4. CASE \E code \in {NORMAL, ABNORMAL} \cup Errors : Closed(code)
  BY <1>4, ClosedPreserves
<1>5. CASE ShowJob
  BY <1>5, ShowJobPreserves
<1>6. CASE Unmount
  BY <1>6, UnmountPreserves
<1>7. CASE UNCHANGED vars
  BY <1>7 DEF IInv, Types, OneAttempt, NeverGivesUp, Polling, Shown, vars,
              linkVars, pageVars, viewVars
<1> QED
  BY <1>1, <1>2, <1>3, <1>4, <1>5, <1>6, <1>7 DEF Next

-----------------------------------------------------------------------------

(* IInv holds in every state of the page's socket.                         *)
THEOREM Invariant == Spec => []IInv
<1>1. Init => IInv
  BY InitInvariant
<1>2. IInv /\ [Next]_vars => IInv'
  BY StepPreserves
<1> QED
  BY <1>1, <1>2, PTL DEF Spec

(* A page never has two ways forward at once, through any failures, timers *)
(* and job switches (useJobLiveSocket.ts, restart and scheduleReconnect).  *)
THEOREM OneAttemptAlways == Spec => []OneAttempt
<1>1. IInv => OneAttempt
  BY DEF IInv
<1> QED
  BY <1>1, Invariant, PTL

(* A page whose socket was ready once never turns to polling.              *)
THEOREM NeverGivesUpEver == Spec => []NeverGivesUp
<1>1. IInv => NeverGivesUp
  BY DEF IInv
<1> QED
  BY <1>1, Invariant, PTL

-----------------------------------------------------------------------------
(* The refusal.                                                            *)

(* A page that was refused the job it shows is stopped.                    *)
Final == job \in Nat /\ (refused => stopped)

(* A page that was refused stays stopped until it is shown another job: an *)
(* error frame that takes the refusal back is the last word then.          *)
LEMMA FinalPreserves == IInv /\ Final /\ [Next]_vars => Final'
<1> SUFFICES ASSUME IInv, Final, [Next]_vars PROVE Final'
  OBVIOUS
<1>1. CASE Mount \/ Timer \/ Opened \/ Ready \/ Unmount
  BY <1>1 DEF Final, Mount, Timer, Opened, Ready, Unmount, linkVars, pageVars, viewVars
<1>2. CASE ErrorFrame
  BY <1>2 DEF Final, ErrorFrame, StopsFor, viewVars
<1>3. ASSUME NEW code, Closed(code) PROVE Final'
  <2>1. /\ refused' = (refused \/ code \in Permanent)
        /\ job' = job
        /\ stopped \/ code \in 4400..4499 => stopped' = TRUE
    BY <1>3 DEF Closed
  <2>2. code \in Permanent => code \in 4400..4499
    BY DEF Permanent, CLOSE_UNAUTHORIZED, CLOSE_FORBIDDEN, CLOSE_NOT_FOUND
  <2>3. CASE refused \/ code \in Permanent
    BY <2>1, <2>2, <2>3 DEF Final
  <2>4. CASE ~(refused \/ code \in Permanent)
    <3>1. refused' = FALSE
      BY <2>1, <2>4
    <3> QED
      BY <2>1, <3>1 DEF Final
  <2> QED
    BY <2>3, <2>4
<1>4. CASE ShowJob
  BY <1>4 DEF Final, ShowJob
<1>5. CASE UNCHANGED vars
  BY <1>5 DEF Final, vars, linkVars, pageVars, viewVars
<1> QED
  BY <1>1, <1>2, <1>3, <1>4, <1>5 DEF Next

(* While it is stopped nothing opens a socket: the timer is not set, and   *)
(* the console was mounted.                                                *)
LEMMA StoppedStays ==
  ASSUME IInv, Final, [Next]_vars, refused, socket = "none", job' = job
  PROVE  socket' = "none"
<1>1. stopped /\ ~timer
  BY DEF IInv, OneAttempt, Final
<1>2. ~ShowJob
  BY DEF ShowJob, Final
<1> QED
  BY <1>1, <1>2 DEF Next, Mount, Timer, Opened, Ready, ErrorFrame, Closed, Unmount,
                    vars, linkVars, pageVars, viewVars

(* After a refusal the page does not try that job again, through every     *)
(* timer, late event and remount (useJobLiveSocket.ts, onclose: "do not    *)
(* hammer the server").                                                    *)
THEOREM RefusalsAreFinal == Spec => RefusalIsFinal
<1>1. Init => Final
  BY DEF Init, Final
<1>2. IInv /\ Final /\ [Next]_vars => Final'
  BY FinalPreserves
<1>3. IInv /\ Final /\ [Next]_vars =>
        [refused /\ socket = "none" /\ job' = job => socket' = "none"]_vars
  BY StoppedStays
<1> QED
  BY <1>1, <1>2, <1>3, Invariant, PTL DEF Spec, RefusalIsFinal
=============================================================================
