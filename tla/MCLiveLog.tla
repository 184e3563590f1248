------------------------------ MODULE MCLiveLog ------------------------------
(* Small instances of LiveLog for TLC.                                     *)
EXTENDS LiveLog

(* stderr in a file of its own, merged into stdout, or refused.            *)
MCLayouts ==
  {[stdout |-> "own", stderr |-> kind] : kind \in {"own", "merged", "outside"}}

(* stdout takes two chunks and may start over; the file of stderr, when it *)
(* has one, stays empty.                                                   *)
MCMaxSize == [stdout |-> 2, stderr |-> 0]
MCMaxGen  == [stdout |-> 2, stderr |-> 1]
=============================================================================
