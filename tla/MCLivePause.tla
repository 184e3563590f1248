----------------------------- MODULE MCLivePause -----------------------------
(***************************************************************************)
(* The log channel, with the memory of what the user was promised: that a  *)
(* session holds the stream.  The memory guards no step.                   *)
(***************************************************************************)
EXTENDS MCLiveLog

VARIABLE held  \* history: a session took the user's pause, which still stands

PauseInit == Init /\ held = FALSE

PauseNext ==
  /\ Next
  /\ held' = (paused' /\ (held \/ \E due \in BOOLEAN : HandlePause(due)))

PauseSpec == PauseInit /\ [][PauseNext]_<<vars, held>>

(* A pause that a session took is kept until the user resumes, by the      *)
(* sessions that replace this one as well: once a session has handled every *)
(* control frame, it does not send what the user said to hold              *)
(* (live-checks.adoc: pause "holds the stream without losing offsets").    *)
PauseHolds == held /\ subscribed /\ control = <<>> => logPaused
=============================================================================
