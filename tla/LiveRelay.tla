------------------------------ MODULE LiveRelay ------------------------------
(***************************************************************************)
(* One live WebSocket of the page, relayed by the gateway (job_live in     *)
(* views/gateway.py) to the agent (job_live in views/agent.py).  Two       *)
(* threads of the gateway share the two sockets: the request thread        *)
(* authenticates the browser, dials the agent and forwards what the        *)
(* browser sends; the pump forwards what the agent sends.  Either of them  *)
(* may end the relay, and either may do so while the other is at work.     *)
(*                                                                         *)
(* A WebSocket object of simple-websocket hands out the frames it received *)
(* before it raises ConnectionClosed, and raises at once on send() or      *)
(* close() when it knows that it is closed.                                *)
(***************************************************************************)
EXTENDS LiveEndings, Sequences, FiniteSetsExt

CONSTANTS
  MaxControl,  \* bound: frames the browser sends after subscribe
  MaxFrames    \* bound: frames the agent sends in a session

ASSUME LiveRelayAssumption == MaxControl \in Nat /\ MaxFrames \in Nat

VARIABLES
  said,      \* frames the browser sent
  outbox,    \* those the gateway has not received yet
  inbox,     \* frames and the close on their way to the browser
  got,       \* frames the browser got
  ending,    \* how the socket ended for the browser, or Open
  wsOpen,    \* the gateway's end of the browser's socket is connected
  relay,     \* where the request thread is
  failure,   \* the code of the error it ends with
  pump,      \* where the pump is
  upstream,  \* the gateway's end of the agent's socket
  upReason,  \* upstream.close_reason, or NORMAL for None
  upIn,      \* frames from the agent the pump has not taken yet
  upOut,     \* frames to the agent it has not received yet
  agent,     \* where the agent's handler is
  verdict,   \* the code the agent ended with
  sent,      \* frames the agent sent
  heard      \* frames the agent received

browserVars == <<said, outbox, inbox, got, ending>>
relayVars   == <<wsOpen, relay, failure, pump>>
upVars      == <<upstream, upReason, upIn, upOut>>
agentVars   == <<agent, verdict, sent, heard>>
vars        == <<browserVars, relayVars, upVars, agentVars>>

Open == [error |-> NoError, code |-> 0]

Error(code) == [kind |-> "error", value |-> code]
Data(n)     == [kind |-> "data", value |-> n]
Close(code) == [kind |-> "close", value |-> code]

Auth == "auth"

(* The browser has opened the socket: its two first frames are out.        *)
Init ==
  /\ said = <<Auth, "subscribe">> /\ outbox = said
  /\ inbox = <<>> /\ got = <<>> /\ ending = Open
  /\ wsOpen = TRUE /\ relay = "authenticate" /\ failure = NoError
  /\ pump = "none"
  /\ upstream = "none" /\ upReason = NORMAL /\ upIn = <<>> /\ upOut = <<>>
  /\ agent = "none" /\ verdict = NORMAL /\ sent = <<>> /\ heard = <<>>

-----------------------------------------------------------------------------
(* The browser.                                                            *)

(* What it learned of an error from the frames it got.                     *)
ErrorGot ==
  LET errors == {i \in DOMAIN got : got[i].kind = "error"}
  IN  IF errors = {} THEN NoError ELSE got[Max(errors)].value

BrowserSend ==
  /\ ending = Open
  /\ Len(said) < 2 + MaxControl
  /\ said' = Append(said, "control")
  /\ outbox' = Append(outbox, "control")
  /\ UNCHANGED <<inbox, got, ending, relayVars, upVars, agentVars>>

BrowserReceive ==
  /\ ending = Open
  /\ inbox # <<>>
  /\ inbox' = Tail(inbox)
  /\ IF Head(inbox).kind = "close"
     THEN /\ ending' = [error |-> ErrorGot, code |-> Head(inbox).value]
          /\ UNCHANGED got
     ELSE /\ got' = Append(got, Head(inbox))
          /\ UNCHANGED ending
  /\ UNCHANGED <<said, outbox, relayVars, upVars, agentVars>>

(* The page leaves, or the network between it and the gateway fails.       *)
BrowserGone ==
  /\ ending = Open
  /\ ending' = [error |-> ErrorGot, code |-> ABNORMAL]
  /\ UNCHANGED <<said, outbox, inbox, got, relayVars, upVars, agentVars>>

-----------------------------------------------------------------------------
(* The gateway's sockets.                                                  *)

(* The gateway learns that the browser is gone.                            *)
BrowserNoticed ==
  /\ ending # Open /\ wsOpen
  /\ wsOpen' = FALSE
  /\ UNCHANGED <<browserVars, relay, failure, pump, upVars, agentVars>>

(* The gateway learns that the agent closed, with the code if it gave one. *)
AgentNoticed ==
  /\ agent = "ended" /\ upstream = "open"
  /\ upstream' = "closed" /\ upReason' = verdict
  /\ UNCHANGED <<browserVars, relayVars, upIn, upOut, agentVars>>

(* close_websocket(ws, code).                                              *)
CloseBrowser(code) ==
  /\ inbox' = IF wsOpen THEN Append(inbox, Close(code)) ELSE inbox
  /\ wsOpen' = FALSE

-----------------------------------------------------------------------------
(* The gateway's request thread.                                           *)

Goto(place, error) == relay' = place /\ failure' = error

(* authenticate_websocket(ws): the first frame, if it comes.               *)
Authenticate ==
  /\ relay = "authenticate"
  /\ \/ /\ outbox # <<>>
        /\ outbox' = Tail(outbox)
        /\ \/ Goto("look up", NoError)
           \/ Goto("finish", CLOSE_UNAUTHORIZED)
     \/ /\ outbox = <<>> /\ ~wsOpen
        /\ Goto("finish", NoError)
        /\ UNCHANGED outbox
  /\ UNCHANGED <<said, inbox, got, ending, wsOpen, pump, upVars, agentVars>>

(* The cluster is known, or is not.                                        *)
LookUp ==
  /\ relay = "look up"
  /\ Goto("dial", NoError) \/ Goto("finish", CLOSE_NOT_FOUND)
  /\ UNCHANGED <<browserVars, wsOpen, pump, upVars, agentVars>>

(* connect_websocket(), then the pump is started.                          *)
Dial ==
  /\ relay = "dial"
  /\ UNCHANGED <<browserVars, wsOpen, upReason, upIn, upOut>>
  /\ UNCHANGED <<verdict, sent, heard>>
  /\ \/ /\ upstream' = "open" /\ agent' = "authorizing"
        /\ pump' = "receive"
        /\ Goto("forward", NoError)
     \/ /\ Goto("finish", CLOSE_UPSTREAM)
        /\ UNCHANGED <<upstream, agent, pump>>

(* The next frame of the browser goes to the agent.  When the agent closed *)
(* and the gateway knows, send() raises ConnectionClosed; when it does not *)
(* know yet, the frame is lost, or the write fails.                        *)
Forward ==
  /\ relay = "forward"
  /\ outbox # <<>>
  /\ outbox' = Tail(outbox)
  /\ \/ /\ upstream = "open"
        /\ upOut' = Append(upOut, Head(outbox))
        /\ UNCHANGED <<relay, failure>>
     \/ /\ upstream = "open" /\ agent = "ended"
        /\ Goto("finish", CLOSE_UPSTREAM)
        /\ UNCHANGED upOut
     \/ /\ upstream = "closed"
        /\ Goto("finish", NoError)
        /\ UNCHANGED upOut
  /\ UNCHANGED <<said, inbox, got, ending, wsOpen, pump>>
  /\ UNCHANGED <<upstream, upReason, upIn, agentVars>>

(* receive() raises: the browser is gone, or the pump closed its socket.   *)
StopForwarding ==
  /\ relay = "forward"
  /\ outbox = <<>> /\ ~wsOpen
  /\ Goto("finish", NoError)
  /\ UNCHANGED <<browserVars, wsOpen, pump, upVars, agentVars>>

(* _finish_relay(): first the agent's socket.  The mutant leaves it open.   *)
UpstreamClosed_Not == upstream

UpstreamClosed == IF upstream = "open" THEN "closed" ELSE upstream

FinishUpstream ==
  /\ relay = "finish"
  /\ relay' = "finish browser"
  /\ upstream' = UpstreamClosed
  /\ UNCHANGED <<browserVars, wsOpen, failure, pump, upReason, upIn, upOut>>
  /\ UNCHANGED agentVars

(* Then finish_websocket(): the error frame, if any; the socket may have   *)
(* been closed by the pump, or by the browser.                             *)
SendError ==
  /\ relay = "finish browser"
  /\ relay' = "close browser"
  /\ inbox' = IF failure # NoError /\ wsOpen
              THEN Append(inbox, Error(failure)) ELSE inbox
  /\ UNCHANGED <<said, outbox, got, ending, wsOpen, failure, pump>>
  /\ UNCHANGED <<upVars, agentVars>>

(* And the close.  The pump may use the browser's socket before it.        *)
FinishBrowser ==
  /\ relay = "close browser"
  /\ relay' = "done"
  /\ CloseBrowser(IF failure = NoError THEN NORMAL ELSE failure)
  /\ UNCHANGED <<said, outbox, got, ending, failure, pump, upVars, agentVars>>

Request ==
  \/ Authenticate \/ LookUp \/ Dial \/ Forward \/ StopForwarding
  \/ FinishUpstream \/ SendError \/ FinishBrowser

-----------------------------------------------------------------------------
(* The pump.                                                               *)

(* What goes to the browser for a frame of the agent; the mutant sends     *)
(* what precedes it again.                                                 *)
Relayed_Twice(frame) == <<frame, frame>>

Relayed(frame) == <<frame>>

PumpFrame ==
  /\ pump = "receive"
  /\ upIn # <<>>
  /\ upIn' = Tail(upIn)
  /\ IF wsOpen
     THEN inbox' = inbox \o Relayed(Head(upIn)) /\ UNCHANGED pump
     ELSE pump' = "close" /\ UNCHANGED inbox
  /\ UNCHANGED <<said, outbox, got, ending, wsOpen, relay, failure>>
  /\ UNCHANGED <<upstream, upReason, upOut, agentVars>>

PumpEnd ==
  /\ pump = "receive"
  /\ upIn = <<>> /\ upstream = "closed"
  /\ pump' = "close"
  /\ UNCHANGED <<browserVars, wsOpen, relay, failure, upVars, agentVars>>

(* The close code of the agent is passed on; the mutant always refuses.    *)
PumpCode_Refuse == CLOSE_FORBIDDEN

PumpCode == upReason

(* The pump ends by closing the browser's socket; the mutant only ends.    *)
PumpClose_Quiet ==
  /\ pump = "close"
  /\ pump' = "done"
  /\ UNCHANGED <<browserVars, wsOpen, relay, failure, upVars, agentVars>>

PumpClose ==
  /\ pump = "close"
  /\ pump' = "done"
  /\ CloseBrowser(PumpCode)
  /\ UNCHANGED <<said, outbox, got, ending, relay, failure, upVars, agentVars>>

Pump == PumpFrame \/ PumpEnd \/ PumpClose

-----------------------------------------------------------------------------
(* The agent's handler.                                                    *)

(* It ends with an error frame and its code, or goes away without a word.  *)
AgentEnd(code) ==
  /\ agent' = "ended" /\ verdict' = code
  /\ IF code \in Errors /\ upstream = "open"
     THEN sent' = Append(sent, Error(code)) /\ upIn' = Append(upIn, Error(code))
     ELSE UNCHANGED <<sent, upIn>>
  /\ UNCHANGED <<browserVars, relayVars, upstream, upReason, upOut, heard>>

(* authenticate_websocket(ws) and _authorized_job(job).                    *)
AgentAuthorize ==
  /\ agent = "authorizing"
  /\ \/ /\ agent' = "serving"
        /\ UNCHANGED <<browserVars, relayVars, upVars, verdict, sent, heard>>
     \/ \E code \in Permanent \cup {CLOSE_INTERNAL} : AgentEnd(code)

(* The session sends a frame.                                              *)
AgentSend ==
  /\ agent = "serving" /\ upstream = "open"
  /\ Len(sent) < MaxFrames
  /\ sent' = Append(sent, Data(Len(sent)))
  /\ upIn' = Append(upIn, Data(Len(sent)))
  /\ UNCHANGED <<browserVars, relayVars, upstream, upReason, upOut>>
  /\ UNCHANGED <<agent, verdict, heard>>

(* The session takes a control frame.                                      *)
AgentHear ==
  /\ agent = "serving" /\ upOut # <<>>
  /\ upOut' = Tail(upOut)
  /\ heard' = Append(heard, Head(upOut))
  /\ UNCHANGED <<browserVars, relayVars, upstream, upReason, upIn>>
  /\ UNCHANGED <<agent, verdict, sent>>

(* The session fails, or its process ends.                                 *)
AgentFail ==
  /\ agent = "serving"
  /\ AgentEnd(CLOSE_INTERNAL) \/ AgentEnd(NORMAL)

(* The session finds its socket closed by the gateway.                     *)
AgentStop ==
  /\ agent \in {"authorizing", "serving"}
  /\ upstream = "closed"
  /\ AgentEnd(NORMAL)

-----------------------------------------------------------------------------

Next ==
  \/ BrowserSend \/ BrowserReceive \/ BrowserGone
  \/ BrowserNoticed \/ AgentNoticed
  \/ Request \/ Pump
  \/ AgentAuthorize \/ AgentSend \/ AgentHear \/ AgentFail \/ AgentStop

(* Threads run, and TCP or the ping of simple-websocket tells each end     *)
(* that the other is gone.                                                 *)
Fairness ==
  /\ WF_vars(BrowserReceive)
  /\ WF_vars(BrowserNoticed) /\ WF_vars(AgentNoticed)
  /\ WF_vars(Request) /\ WF_vars(Pump)
  /\ WF_vars(AgentAuthorize) /\ WF_vars(AgentStop)

Spec     == Init /\ [][Next]_vars
FairSpec == Spec /\ Fairness

-----------------------------------------------------------------------------
(* Properties.                                                             *)

(* Frames go through in both directions unchanged, in order, none lost in  *)
(* the middle and none repeated ("forwards frames verbatim in both         *)
(* directions").  All the gateway adds is one error frame of its own, at   *)
(* some place p: frames of the agent may follow it, since the pump uses    *)
(* the socket until it is closed.  The auth frame stays with the gateway.  *)
Verbatim ==
  /\ \E p \in 0..Len(got) :
       /\ p # 0 => relay \in {"close browser", "done"} /\ got[p] = Error(failure)
       /\ \A i \in DOMAIN got \ {p} :
            LET k == IF p # 0 /\ i > p THEN i - 1 ELSE i
            IN  k \in DOMAIN sent /\ got[i] = sent[k]
  /\ Len(heard) < Len(said)
  /\ \A i \in DOMAIN heard : heard[i] = said[i + 1]

(* The socket ends for the page in one of the ways LiveSocket assumes.     *)
EndingsCovered == ending # Open => ending \in Endings

(* A page is told for good that it is not allowed, or that there is no     *)
(* such job, only when the agent or the gateway said so: a network failure *)
(* or a crash never looks like a refusal.                                  *)
NeverFalselyRefused ==
  {ending.error, ending.code} \cap Permanent \subseteq {verdict, failure}

(* The page that the agent refused learns the refusal from the close code, *)
(* unless it left first (live-checks.adoc: "Authorization failures close   *)
(* the socket with code `4401`, `4403` or `4404`").                        *)
RefusalReaches ==
  ending # Open /\ ending.code # ABNORMAL /\ verdict \in Permanent =>
    ending.code = verdict

(* A relay whose browser is gone holds nothing in the end: both threads of *)
(* the gateway end, the agent's socket is closed and its handler returns   *)
(* ("Every long-lived session occupies one Gunicorn thread in the agent    *)
(* and one in the gateway").                                               *)
Released ==
  /\ relay = "done"
  /\ pump \in {"none", "done"}
  /\ upstream # "open"
  /\ agent \in {"none", "ended"}
EventuallyReleased == (ending # Open) ~> Released

(* A relay whose agent is gone does not keep the browser waiting.          *)
EventuallyEnded == (agent = "ended") ~> (ending # Open)
=============================================================================
