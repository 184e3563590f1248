----------------------------- MODULE LiveEndings -----------------------------
(***************************************************************************)
(* How the live WebSocket of a job may end for the page: the code of the   *)
(* last error frame it got, if it got one, and the close code.  LiveRelay  *)
(* shows that the gateway's relay ends a socket in no other way;           *)
(* LiveSocket takes these endings for its environment.                     *)
(***************************************************************************)
EXTENDS Naturals

NORMAL   == 1000  \* close() without a code
ABNORMAL == 1006  \* the network or the gateway went away

CLOSE_UNAUTHORIZED == 4401
CLOSE_FORBIDDEN    == 4403
CLOSE_NOT_FOUND    == 4404
CLOSE_UPSTREAM     == 4502
CLOSE_INTERNAL     == 1011

NoError == 0

Permanent   == {CLOSE_UNAUTHORIZED, CLOSE_FORBIDDEN, CLOSE_NOT_FOUND}
AgentErrors == Permanent \cup {CLOSE_INTERNAL}
Errors      == AgentErrors \cup {CLOSE_UPSTREAM}

(* An error frame is followed by its own code, or by none when the network *)
(* goes first or the gateway's request thread ends without an error of its *)
(* own.  When it has one, CLOSE_UPSTREAM, its frame and its close may each *)
(* come before or after those of the agent that the pump passes on.        *)
Endings ==
  [error : {NoError}, code : {NORMAL, ABNORMAL}]
    \cup {[error |-> e, code |-> e] : e \in Errors}
    \cup [error : Errors, code : {NORMAL, ABNORMAL}]
    \cup [error : {CLOSE_UPSTREAM}, code : AgentErrors]
    \cup [error : AgentErrors, code : {CLOSE_UPSTREAM}]
=============================================================================
