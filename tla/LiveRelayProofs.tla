---------------------------- MODULE LiveRelayProofs ----------------------------
(***************************************************************************)
(* Machine-checked proofs about the gateway's relay, for every number of   *)
(* frames of the browser and of the agent.                                 *)
(***************************************************************************)
EXTENDS LiveRelay, SequenceTheorems, WellFoundedInduction, TLAPS

Message == {Auth, "subscribe", "control"}
Frame   == [kind : {"data", "error", "close"}, value : Nat]
Early   == {"authenticate", "look up", "dial"}
Finishing == {"finish browser", "close browser", "done"}
Said    == {"close browser", "done"}   \* the gateway's own error has been sent

Carried ==
  /\ said \in Seq(Message) /\ outbox \in Seq(Message)
  /\ upOut \in Seq(Message) /\ heard \in Seq(Message)
  /\ inbox \in Seq(Frame) /\ got \in Seq(Frame)
  /\ upIn \in Seq(Frame) /\ sent \in Seq(Frame)
Places ==
  /\ ending \in [error : Nat, code : Nat]
  /\ wsOpen \in BOOLEAN
  /\ relay \in Early \cup {"forward", "finish"} \cup Finishing
  /\ failure \in Errors \cup {NoError}
  /\ pump \in {"none", "receive", "close", "done"}
  /\ upstream \in {"none", "open", "closed"}
  /\ upReason \in AgentErrors \cup {NORMAL} /\ verdict \in AgentErrors \cup {NORMAL}
  /\ agent \in {"none", "authorizing", "serving", "ended"}
Types == Carried /\ Places

(* How far the threads are.  Once there is a pump the gateway has no error *)
(* of its own but CLOSE_UPSTREAM.  A pump that is about to close an open   *)
(* socket has forwarded all that the agent will ever send.                 *)
Phases ==
  /\ relay \in Early => pump = "none"
  /\ pump = "none" => upstream = "none" /\ agent = "none"
  /\ pump # "none" => failure \in {NoError, CLOSE_UPSTREAM}
  /\ upstream = "none" => sent = <<>> /\ upIn = <<>> /\ upOut = <<>> /\ heard = <<>>
  /\ relay \notin {"finish"} \cup Finishing => failure = NoError
  /\ agent # "ended" => verdict = NORMAL
  /\ wsOpen => relay # "done" /\ pump # "done"
  /\ pump = "close" /\ wsOpen => upIn = <<>> /\ upstream = "closed"

(* Towards the agent: what it heard, then what is on its way, then, until  *)
(* the request thread gives up, what the gateway has not received.         *)
Upwards ==
  /\ Len(said) > 1
  /\ Len(heard) + Len(upOut) < Len(said)
  /\ \A i \in 1..Len(heard) : heard[i] = said[i + 1]
  /\ \A i \in 1..Len(upOut) : upOut[i] = said[Len(heard) + i + 1]
  /\ relay = "authenticate" => outbox = said
  /\ relay \in {"look up", "dial", "forward"} =>
       /\ Len(heard) + Len(upOut) + Len(outbox) = Len(said) - 1
       /\ \A i \in 1..Len(outbox) : outbox[i] = said[Len(heard) + Len(upOut) + 1 + i]

(* The agent's error frame is its last frame.                              *)
FromAgent ==
  \A i \in 1..Len(sent) :
    \/ sent[i].kind = "data"
    \/ i = Len(sent) /\ agent = "ended" /\ verdict \in Errors /\ sent[i] = Error(verdict)

(* An agent that ended on an open socket sent its error, and the gateway   *)
(* learns its code from no other.                                          *)
Reasoned ==
  (agent = "ended" /\ upstream = "open") \/ upReason # NORMAL =>
    /\ agent = "ended"
    /\ upReason \in {verdict, NORMAL}
    /\ verdict \in Errors => sent # <<>> /\ sent[Len(sent)] = Error(verdict)

(* The frames the browser got and those on their way to it, as one         *)
(* sequence.                                                               *)
Total == Len(got) + Len(inbox)
At(i) == IF i <= Len(got) THEN got[i] ELSE inbox[i - Len(got)]

(* The agent or the gateway ended with this code.                          *)
Stated(c) == (agent = "ended" /\ c = verdict) \/ (relay \in Said /\ c = failure)

(* The last frame may be a close, that has a code only if there was an     *)
(* error frame.                                                            *)
Alarmed    == \E j \in 1..Total : At(j).kind = "error"
Closing(i) ==
  /\ i = Total /\ i > Len(got) /\ ~wsOpen
  /\ \/ At(i) = Close(NORMAL)
     \/ \E c \in Errors : At(i) = Close(c) /\ Stated(c) /\ Alarmed

(* The gateway's own frame is the one at place p, if p is not 0; the       *)
(* others are those of the agent, in order.  While the browser's socket is *)
(* open, it is given all the agent sent.                                   *)
Own(p)     == relay \in Said /\ failure \in Errors /\ At(p) = Error(failure)
From(p, i) == IF p # 0 /\ p < i THEN i - 1 ELSE i
Given(p)   == IF p = 0 THEN Total ELSE Total - 1
Placed(p) ==
  /\ p # 0 => Own(p)
  /\ \A i \in 1..Total :
       i # p => Closing(i) \/ (From(p, i) <= Len(sent) /\ At(i) = sent[From(p, i)])
  /\ wsOpen =>
       /\ Len(sent) = Given(p) + Len(upIn)
       /\ \A i \in 1..Len(upIn) : upIn[i] = sent[Given(p) + i]
       /\ relay \in Said /\ failure # NoError => p # 0
Flow == \E p \in 0..Total : Placed(p)

Ended ==
  ending # Open =>
    /\ ending \in Endings
    /\ ending.error # NoError => Stated(ending.error)
    /\ ending.code \in Errors => Stated(ending.code)

IInv ==
  /\ Types /\ Phases /\ Upwards /\ FromAgent /\ Reasoned /\ Flow /\ Ended

-----------------------------------------------------------------------------
(* Frames.                                                                 *)

(* The codes are told apart.                                               *)
LEMMA Codes ==
  /\ Errors \subseteq Nat /\ NoError \notin Errors /\ NORMAL \notin Errors
  /\ Permanent \subseteq Errors /\ NoError \notin Permanent /\ ABNORMAL \notin Errors
  /\ NORMAL \in Nat /\ ABNORMAL \in Nat /\ NoError \in Nat
  /\ {CLOSE_UNAUTHORIZED, CLOSE_NOT_FOUND, CLOSE_UPSTREAM, CLOSE_INTERNAL} \subseteq Errors
  /\ AgentErrors = Permanent \cup {CLOSE_INTERNAL} /\ Errors = AgentErrors \cup {CLOSE_UPSTREAM}
  /\ AgentErrors \subseteq Errors
  BY DEF Errors, AgentErrors, Permanent, NoError, NORMAL, ABNORMAL, CLOSE_UNAUTHORIZED, CLOSE_FORBIDDEN,
         CLOSE_NOT_FOUND, CLOSE_UPSTREAM, CLOSE_INTERNAL

LEMMA Kinds ==
  /\ \A c \in Nat : /\ Error(c) \in Frame /\ Error(c).kind = "error" /\ Error(c).value = c
                    /\ Close(c) \in Frame /\ Close(c).kind = "close" /\ Close(c).value = c
                    /\ Data(c) \in Frame /\ Data(c).kind = "data"
  BY DEF Error, Close, Data, Frame

LEMMA Lengths ==
  ASSUME IInv
  PROVE  /\ Len(said) \in Nat /\ Len(outbox) \in Nat /\ Len(upOut) \in Nat
         /\ Len(heard) \in Nat /\ Len(inbox) \in Nat /\ Len(got) \in Nat
         /\ Len(upIn) \in Nat /\ Len(sent) \in Nat /\ Total \in Nat
         /\ DOMAIN got = 1..Len(got) /\ DOMAIN heard = 1..Len(heard)
<1>1. /\ said \in Seq(Message) /\ outbox \in Seq(Message) /\ upOut \in Seq(Message)
      /\ heard \in Seq(Message) /\ inbox \in Seq(Frame) /\ got \in Seq(Frame)
      /\ upIn \in Seq(Frame) /\ sent \in Seq(Frame)
  BY DEF IInv, Types, Carried, Places
<1>2. /\ Len(said) \in Nat /\ Len(outbox) \in Nat /\ Len(upOut) \in Nat
      /\ Len(heard) \in Nat /\ Len(inbox) \in Nat /\ Len(got) \in Nat
      /\ Len(upIn) \in Nat /\ Len(sent) \in Nat
      /\ DOMAIN got = 1..Len(got) /\ DOMAIN heard = 1..Len(heard)
  BY <1>1, LenProperties
<1> QED
  BY <1>2 DEF Total

(* Before the relay begins, all is quiet.                                  *)
LEMMA InitInvariant == Init => IInv
<1> SUFFICES ASSUME Init PROVE IInv
  OBVIOUS
<1> USE DEF Init
<1>1. Types
  <2>1. said \in Seq(Message) /\ outbox \in Seq(Message)
    BY DEF Message
  <2>2. ending \in [error : Nat, code : Nat]
    BY DEF Open, NoError
  <2> QED
    BY <2>1, <2>2, EmptySeq DEF Types, Carried, Places, Early, Finishing
<1>2. Phases /\ FromAgent /\ Reasoned
  BY EmptySeq DEF Phases, FromAgent, Reasoned, Early, Finishing
<1>5. Flow
  <2>1. Total = 0 /\ Len(sent) = 0 /\ Len(upIn) = 0 /\ 1..0 = {} /\ 0 \in 0..0
    BY EmptySeq DEF Total
  <2>2. Placed(0)
    <3>1. Given(0) = 0 /\ failure = NoError
      BY <2>1 DEF Given
    <3>2. \A i \in 1..Total : FALSE
      BY <2>1
    <3>3. 0 = 0 + 0 /\ \A i \in 1..Len(upIn) : FALSE
      BY <2>1
    <3> QED
      BY <2>1, <3>1, <3>2, <3>3 DEF Placed
  <2> QED
    BY <2>1, <2>2 DEF Flow
<1>3. Upwards
  <2>1. Len(said) = 2 /\ Len(heard) = 0 /\ Len(upOut) = 0
    BY EmptySeq
  <2> QED
    BY <2>1 DEF Upwards
<1>4. Ended
  BY DEF Ended
<1> QED
  BY <1>1, <1>2, <1>3, <1>4, <1>5 DEF IInv

(* What was stated stays so.                                               *)
Stays ==
  /\ agent = "ended" => UNCHANGED <<agent, verdict>>
  /\ relay \in Said => relay' \in Said /\ failure' = failure

LEMMA EndedStays ==
  ASSUME Ended, ending' = ending, Stays
  PROVE  Ended'
  BY DEF Ended, Stated, Stays

(* A position is before the gateway's frame or after it.                   *)
LEMMA Positions ==
  ASSUME NEW p \in Nat, NEW i \in Nat, i > 0, i # p
  PROVE  /\ From(p, i) \in Nat /\ From(p, i) > 0
         /\ p = 0 \/ i < p => From(p, i) = i
         /\ p # 0 /\ p < i => From(p, i) = i - 1
  BY DEF From

(* The frames towards the browser keep their order while none moves, and   *)
(* the agent sends more.                                                   *)
LEMMA OrderStays ==
  ASSUME IInv, UNCHANGED <<inbox, got>>, wsOpen' => wsOpen, Stays,
         Len(sent) <= Len(sent'), Len(sent') \in Nat,
         \A i \in 1..Len(sent) : sent'[i] = sent[i],
         NEW p \in 0..Total, Placed(p)
  PROVE  /\ Total' = Total /\ \A i : At(i)' = At(i)
         /\ p # 0 => Own(p)'
         /\ \A i \in 1..Total' : i # p =>
              Closing(i)' \/ (From(p, i) <= Len(sent') /\ At(i)' = sent'[From(p, i)])
<1>1. Total' = Total /\ \A i : At(i)' = At(i)
  BY DEF Total, At
<1>2. Len(sent) \in Nat /\ Total \in Nat
  BY Lengths
<1>3. p # 0 => Own(p)'
  BY <1>1 DEF Placed, Own, Stays
<1>4. ASSUME NEW i \in 1..Total, i # p
      PROVE  Closing(i)' \/ (From(p, i) <= Len(sent') /\ At(i)' = sent'[From(p, i)])
  <2>1. CASE Closing(i)
    <3>1. Alarmed => Alarmed'
      BY <1>1 DEF Alarmed
    <3>2. \A c : Stated(c) => Stated(c)'
      BY DEF Stated, Stays
    <3> QED
      BY <1>1, <2>1, <3>1, <3>2 DEF Closing
  <2>2. CASE From(p, i) <= Len(sent) /\ At(i) = sent[From(p, i)]
    <3>1. PICK k : k = From(p, i)
      OBVIOUS
    <3>2. k \in 1..Len(sent) /\ k <= Len(sent')
      <4>2. p \in Nat /\ i \in Nat /\ i > 0
        BY <1>2
      <4>1. k \in Nat /\ k > 0
        BY <1>4, <3>1, <4>2, Positions
      <4> QED
        BY <1>2, <2>2, <3>1, <4>1
    <3> QED
      BY <1>1, <2>2, <3>1, <3>2
  <2> QED
    BY <1>4, <2>1, <2>2 DEF Placed
<1> QED
  BY <1>1, <1>3, <1>4

(* The same when the agent sends nothing either.                           *)
LEMMA FramesStay ==
  ASSUME IInv, UNCHANGED <<inbox, got, upIn, sent>>, wsOpen' => wsOpen, Stays,
         wsOpen' /\ relay' \in Said /\ failure' # NoError => relay \in Said
  PROVE  Flow'
<1>1. PICK p \in 0..Total : Placed(p)
  BY DEF IInv, Flow
<1>2. Len(sent) \in Nat /\ Len(sent) <= Len(sent)
  BY Lengths
<1>3. /\ Total' = Total
      /\ p # 0 => Own(p)'
      /\ \A i \in 1..Total' : i # p =>
           Closing(i)' \/ (From(p, i) <= Len(sent') /\ At(i)' = sent'[From(p, i)])
  BY <1>1, <1>2, OrderStays
<1>4. Given(p)' = Given(p) /\ \A i : From(p, i)' = From(p, i)
  BY <1>3 DEF Given, From
<1>5. wsOpen' =>
        /\ Len(sent') = Given(p)' + Len(upIn')
        /\ \A i \in 1..Len(upIn') : upIn'[i] = sent'[Given(p)' + i]
        /\ relay' \in Said /\ failure' # NoError => p # 0
  BY <1>1, <1>4 DEF Placed, Stays
<1>6. Placed(p)'
  BY <1>3, <1>4, <1>5 DEF Placed
<1> QED
  BY <1>1, <1>3, <1>6 DEF Flow

(* Arithmetic of positions.                                                *)
LEMMA FromZero ==
  ASSUME NEW n \in Nat, n > 1
  PROVE  /\ 0 + 0 + (n - 1) = n - 1 /\ 0 + 0 < n /\ 1..0 = {}
         /\ \A i \in 1..(n - 1) : 0 + 0 + 1 + i = i + 1
  OBVIOUS

LEMMA OneMore ==
  ASSUME NEW n \in Nat
  PROVE  \A i \in 1..(n + 1) : i \in 1..n \/ i = n + 1
  OBVIOUS

LEMMA MaxOfBounded ==
  ASSUME NEW n \in Nat, NEW S \in SUBSET (1..n), S # {}
  PROVE  Max(S) \in S
<1> DEFINE T == {n - x : x \in S}
<1>1. T \subseteq Nat /\ T # {}
  <2>1. \A x \in S : n - x \in Nat
    OBVIOUS
  <2> QED
    BY <2>1
<1>2. PICK y \in T : \A z \in T : ~ (<<z, y>> \in OpToRel(<, Nat))
  BY <1>1, NatLessThanWellFounded, WFMin
<1>3. \A z \in T : y <= z
  <2> SUFFICES ASSUME NEW z \in T PROVE y <= z
    OBVIOUS
  <2>1. y \in Nat /\ z \in Nat
    BY <1>1
  <2>2. ~(z < y)
    BY <1>2, <2>1 DEF OpToRel
  <2> QED
    BY <2>1, <2>2
<1>4. PICK x \in S : y = n - x
  BY <1>2
<1>5. \A z \in S : x >= z
  <2> SUFFICES ASSUME NEW z \in S PROVE x >= z
    OBVIOUS
  <2>1. n - x <= n - z
    BY <1>3, <1>4
  <2>2. x \in 1..n /\ z \in 1..n
    BY SMT
  <2>3. x \in Int /\ z \in Int
    BY <2>2, SMT
  <2> HIDE DEF T
  <2> QED
    BY <2>1, <2>3, SMT
<1> QED
  BY <1>5 DEF Max

(* Every frame towards the browser is data, an error that was stated, or   *)
(* the close at the end.                                                   *)
LEMMA FrameAt ==
  ASSUME IInv, NEW i \in 1..Total
  PROVE  \/ Closing(i)
         \/ At(i).kind = "data"
         \/ \E c \in Errors : Stated(c) /\ At(i) = Error(c)
<1>1. PICK p \in 0..Total : Placed(p)
  BY DEF IInv, Flow
<1>2. CASE i = p
  <2>1. p # 0
    BY <1>2
  <2> QED
    BY <1>1, <1>2, <2>1 DEF Placed, Own, Stated
<1>3. CASE i # p /\ ~Closing(i)
  <2>1. PICK k : k = From(p, i)
    OBVIOUS
  <2>2. k <= Len(sent) /\ At(i) = sent[k]
    BY <1>1, <1>3, <2>1 DEF Placed
  <2>3. k \in 1..Len(sent)
    <3>1. Total \in Nat /\ Len(sent) \in Nat
      BY Lengths
    <3>2. k \in Nat /\ k > 0
      BY <1>3, <2>1, <3>1, Positions
    <3> QED
      BY <2>2, <3>1, <3>2
  <2> QED
    BY <2>2, <2>3 DEF IInv, FromAgent, Stated
<1> QED
  BY <1>2, <1>3

(* An error frame the browser got was stated.                              *)
LEMMA ErrorsAreStated ==
  ASSUME IInv, NEW i \in 1..Len(got)
  PROVE  /\ got[i].kind # "close"
         /\ got[i].kind = "error" => got[i].value \in Errors /\ Stated(got[i].value)
<1>1. i \in 1..Total /\ At(i) = got[i] /\ ~Closing(i)
  <2>1. Len(got) \in Nat /\ Len(inbox) \in Nat
    BY Lengths
  <2>2. i <= Len(got) /\ ~(i > Len(got)) /\ i \in 1..(Len(got) + Len(inbox))
    BY <2>1
  <2> QED
    BY <2>2 DEF At, Closing, Total
<1>2. \A c \in Errors : Error(c).kind = "error" /\ Error(c).value = c
  BY Kinds, Codes
<1> QED
  BY <1>1, <1>2, FrameAt

(* What the browser learned of an error is one of the frames it got.       *)
LEMMA ErrorGotIsStated ==
  ASSUME IInv
  PROVE  /\ ErrorGot \in Errors \cup {NoError}
         /\ ErrorGot # NoError => Stated(ErrorGot)
         /\ ErrorGot = NoError => \A i \in 1..Len(got) : got[i].kind # "error"
<1>1. PICK n : n = Len(got)
  OBVIOUS
<1>2. PICK E : E = {i \in DOMAIN got : got[i].kind = "error"}
  OBVIOUS
<1>3. n \in Nat /\ E = {i \in 1..n : got[i].kind = "error"}
  BY <1>1, <1>2, Lengths
<1>4. ErrorGot = IF E = {} THEN NoError ELSE got[Max(E)].value
  BY <1>2 DEF ErrorGot
<1>5. CASE E = {}
  BY <1>1, <1>3, <1>4, <1>5
<1>6. CASE E # {}
  <2>1. PICK m : m = Max(E)
    OBVIOUS
  <2>2. E \in SUBSET (1..n)
    BY <1>3
  <2>3. m \in E
    BY <1>3, <1>6, <2>1, <2>2, MaxOfBounded
  <2>4. m \in 1..Len(got) /\ got[m].kind = "error"
    BY <1>1, <1>3, <2>3
  <2>5. ErrorGot \in Errors /\ Stated(ErrorGot)
    BY <1>4, <1>6, <2>1, <2>4, ErrorsAreStated
  <2> QED
    BY <2>5, Codes
<1> QED
  BY <1>5, <1>6

(* The agent and the gateway never state two codes that a page could not   *)
(* get together.                                                           *)
LEMMA Together ==
  ASSUME IInv, NEW e \in Errors, NEW c \in Errors, Stated(e), Stated(c)
  PROVE  [error |-> e, code |-> c] \in Endings
<1>1. CASE e = c
  BY <1>1 DEF Endings
<1>2. CASE e # c
  <2>1. agent = "ended" /\ {e, c} = {verdict, failure}
    BY <1>2 DEF Stated
  <2>2. pump # "none"
    BY <2>1 DEF IInv, Phases
  <2>3. verdict \in AgentErrors /\ failure = CLOSE_UPSTREAM
    <3>1. verdict \in Errors /\ failure \in Errors
      BY <2>1
    <3> QED
      BY <2>2, <3>1, Codes DEF IInv, Phases, Types, Places
  <2>4. \/ e = CLOSE_UPSTREAM /\ c \in AgentErrors
        \/ e \in AgentErrors /\ c = CLOSE_UPSTREAM
    BY <1>2, <2>1, <2>3
  <2> QED
    BY <2>4 DEF Endings
<1> QED
  BY <1>1, <1>2

-----------------------------------------------------------------------------
(* What steps have in common.                                              *)

LEMMA Appended ==
  ASSUME NEW T, NEW s \in Seq(T), NEW e \in T
  PROVE  /\ Append(s, e) \in Seq(T) /\ Len(s) \in Nat
         /\ Len(Append(s, e)) = Len(s) + 1
         /\ \A i \in 1..Len(s) : Append(s, e)[i] = s[i]
         /\ Append(s, e)[Len(s) + 1] = e
  BY AppendProperties, LenProperties

LEMMA Tailed ==
  ASSUME NEW T, NEW s \in Seq(T), s # <<>>
  PROVE  /\ Tail(s) \in Seq(T) /\ Len(s) \in Nat /\ Len(s) > 0
         /\ Len(Tail(s)) = Len(s) - 1
         /\ \A i \in 1..(Len(s) - 1) : Tail(s)[i] = s[i + 1]
         /\ Head(s) = s[1] /\ Head(s) \in T
<1>1. Len(s) \in Nat /\ Len(s) # 0
  BY LenProperties, EmptySeq
<1>2. Tail(s) \in Seq(T) /\ Len(Tail(s)) = Len(s) - 1 /\ Head(s) \in T
  BY HeadTailProperties
<1>3. \A i \in 1..(Len(s) - 1) : Tail(s)[i] = s[i + 1]
  BY <1>1, <1>2, HeadTailProperties
<1>4. Head(s) = s[1]
  OBVIOUS
<1> QED
  BY <1>1, <1>2, <1>3, <1>4

(* Towards the agent, while no frame moves.                                *)
LEMMA UpwardsStays ==
  ASSUME IInv, UNCHANGED <<said, outbox, upOut, heard>>,
         \/ relay' = relay
         \/ relay' \in {"finish"} \cup Finishing
         \/ relay \in {"look up", "dial"} /\ relay' \in {"dial", "forward"}
  PROVE  Upwards'
  BY DEF IInv, Upwards, Finishing

(* From the agent, while it neither ends nor sends.                        *)
LEMMA AgentStays ==
  ASSUME IInv, UNCHANGED <<agent, verdict, sent, upReason>>,
         upstream' = "open" => upstream = "open"
  PROVE  FromAgent' /\ Reasoned'
<1>1. FromAgent'
  BY DEF IInv, FromAgent
<1>2. Reasoned'
  BY DEF IInv, Reasoned
<1> QED
  BY <1>1, <1>2

(* A frame put on its way to the browser comes after all the others.       *)
LEMMA Sending ==
  ASSUME IInv, NEW frame \in Frame, got' = got, inbox' = Append(inbox, frame),
         NEW t, t = Total
  PROVE  /\ inbox' \in Seq(Frame)
         /\ t \in Nat /\ Total' = t + 1 /\ t + 1 > Len(got')
         /\ \A i \in 1..t : At(i)' = At(i)
         /\ At(t + 1)' = frame
<1>1. /\ inbox \in Seq(Frame) /\ Len(inbox) \in Nat /\ Len(got) \in Nat
      /\ t = Len(got) + Len(inbox)
  BY Lengths DEF IInv, Types, Carried, Total
<1>2. /\ inbox' \in Seq(Frame) /\ Len(inbox') = Len(inbox) + 1
      /\ \A i \in 1..Len(inbox) : inbox'[i] = inbox[i]
      /\ inbox'[Len(inbox) + 1] = frame
  BY <1>1, Appended
<1>3. t \in Nat /\ Total' = t + 1 /\ t + 1 > Len(got')
  BY <1>1, <1>2 DEF Total
<1>4. \A i \in 1..t : At(i)' = At(i)
  <2> TAKE i \in 1..t
  <2>1. CASE i <= Len(got)
    BY <2>1 DEF At
  <2>2. CASE ~(i <= Len(got))
    <3>1. i - Len(got) \in 1..Len(inbox)
      BY <1>1, <2>2
    <3> QED
      BY <1>2, <2>2, <3>1 DEF At
  <2> QED
    BY <2>1, <2>2
<1>5. At(t + 1)' = frame
  <2>1. ~(t + 1 <= Len(got)) /\ (t + 1) - Len(got) = Len(inbox) + 1
    BY <1>1
  <2>2. At(t + 1)' = inbox'[(t + 1) - Len(got)]
    BY <2>1 DEF At
  <2> QED
    BY <1>2, <2>1, <2>2
<1> QED
  BY <1>2, <1>3, <1>4, <1>5

(* A close put there explains itself.                                      *)
LEMMA Closes ==
  ASSUME IInv, wsOpen, wsOpen' = FALSE, UNCHANGED <<got, sent>>, Stays,
         NEW c \in Errors \cup {NORMAL}, inbox' = Append(inbox, Close(c)),
         c \in Errors => Stated(c)' /\ \E j \in 1..Total : At(j).kind = "error"
  PROVE  inbox' \in Seq(Frame) /\ Flow'
<1>1. PICK p \in 0..Total : Placed(p)
  BY DEF IInv, Flow
<1>2. PICK t : t = Total
  OBVIOUS
<1>3. Close(c) \in Frame
  BY Kinds, Codes
<1>4. /\ inbox' \in Seq(Frame) /\ t \in Nat /\ Total' = t + 1 /\ t + 1 > Len(got')
      /\ \A i \in 1..t : At(i)' = At(i)
      /\ At(t + 1)' = Close(c)
  BY <1>2, <1>3, Sending
<1>5. Closing(t + 1)'
  <2>1. CASE c = NORMAL
    BY <1>4, <2>1 DEF Closing
  <2>2. CASE c \in Errors
    <3>1. PICK j \in 1..t : At(j).kind = "error"
      BY <1>2, <2>2
    <3>2. j \in 1..(t + 1) /\ At(j)'.kind = "error"
      BY <1>4, <3>1
    <3>3. Alarmed'
      BY <1>4, <3>2 DEF Alarmed
    <3> QED
      BY <1>4, <2>2, <3>3 DEF Closing
  <2> QED
    BY <2>1, <2>2
<1>6. p \in 0..(t + 1)
  BY <1>2, <1>4
<1>7. p # 0 => Own(p)'
  <2>1. p # 0 => p \in 1..t
    BY <1>2, <1>4
  <2> QED
    BY <1>1, <1>4, <2>1 DEF Placed, Own, Stays
<1>8. ASSUME NEW i \in 1..(t + 1), i # p
      PROVE  Closing(i)' \/ (From(p, i) <= Len(sent) /\ At(i)' = sent[From(p, i)])
  <2>1. i \in 1..t \/ i = t + 1
    BY <1>4, OneMore
  <2>2. CASE i \in 1..t
    <3>1. ~Closing(i)
      BY DEF Closing
    <3> QED
      BY <1>1, <1>2, <1>4, <1>8, <2>2, <3>1 DEF Placed
  <2> QED
    BY <1>5, <2>1, <2>2
<1>9. Placed(p)'
  BY <1>4, <1>7, <1>8 DEF Placed, From
<1> QED
  BY <1>4, <1>6, <1>9 DEF Flow

-----------------------------------------------------------------------------
(* The browser's steps.                                                    *)

LEMMA BrowserSendPreserves ==
  ASSUME IInv, BrowserSend
  PROVE  IInv'
<1> USE DEF BrowserSend, relayVars, upVars, agentVars
<1>1. said \in Seq(Message) /\ outbox \in Seq(Message) /\ "control" \in Message
  BY DEF IInv, Types, Carried, Message
<1>2. /\ said' \in Seq(Message) /\ Len(said) \in Nat /\ Len(said') = Len(said) + 1
      /\ \A i \in 1..Len(said) : said'[i] = said[i]
      /\ said'[Len(said) + 1] = "control"
  BY <1>1, Appended
<1>3. /\ outbox' \in Seq(Message) /\ Len(outbox) \in Nat /\ Len(outbox') = Len(outbox) + 1
      /\ \A i \in 1..Len(outbox) : outbox'[i] = outbox[i]
      /\ outbox'[Len(outbox) + 1] = "control"
  BY <1>1, Appended
<1>4. Types'
  <2>1. Carried'
    BY <1>2, <1>3 DEF IInv, Types, Carried
  <2>2. Places'
    BY DEF IInv, Types, Places
  <2> QED
    BY <2>1, <2>2 DEF Types
<1>5. Phases'
  BY DEF IInv, Phases
<1>6. Upwards'
  <2>1. PICK h \in Nat, u \in Nat, n \in Nat, o \in Nat :
          h = Len(heard) /\ u = Len(upOut) /\ n = Len(said) /\ o = Len(outbox)
    BY Lengths
  <2>2. /\ n > 1 /\ h + u < n
        /\ \A i \in 1..h : heard[i] = said[i + 1]
        /\ \A i \in 1..u : upOut[i] = said[h + i + 1]
        /\ relay = "authenticate" => outbox = said
        /\ relay \in {"look up", "dial", "forward"} =>
             /\ h + u + o = n - 1
             /\ \A i \in 1..o : outbox[i] = said[h + u + 1 + i]
    BY <2>1 DEF IInv, Upwards
  <2>8. n > 1 /\ h + u < n
    BY <2>2
  <2>9. h \in Nat /\ u \in Nat /\ n \in Nat /\ o \in Nat
    BY <2>1
  <2>3. n + 1 > 1 /\ h + u < n + 1
    BY <2>8, <2>9
  <2>4. \A i \in 1..h : heard[i] = said'[i + 1]
    <3> TAKE i \in 1..h
    <3>1. i + 1 \in 1..n
      BY <2>8, <2>9
    <3> QED
      BY <1>2, <2>1, <2>2, <3>1
  <2>5. \A i \in 1..u : upOut[i] = said'[h + i + 1]
    <3> TAKE i \in 1..u
    <3>1. h + i + 1 \in 1..n
      BY <2>8, <2>9
    <3> QED
      BY <1>2, <2>1, <2>2, <3>1
  <2>6. relay = "authenticate" => outbox' = said'
    BY <2>2
  <2>7. ASSUME relay \in {"look up", "dial", "forward"}
        PROVE  /\ h + u + (o + 1) = (n + 1) - 1
               /\ \A i \in 1..(o + 1) : outbox'[i] = said'[h + u + 1 + i]
    <3>1. h + u + o = n - 1 /\ \A i \in 1..o : outbox[i] = said[h + u + 1 + i]
      BY <2>2, <2>7
    <3>2. h + u + (o + 1) = (n + 1) - 1
      BY <3>1
    <3>3. ASSUME NEW i \in 1..(o + 1)
          PROVE  outbox'[i] = said'[h + u + 1 + i]
      <4>1. CASE i \in 1..o
        <5>1. h + u + 1 + i \in 1..n
          BY <2>1, <3>1, <4>1
        <5> QED
          BY <1>2, <1>3, <2>1, <3>1, <4>1, <5>1
      <4>2. CASE i = o + 1
        <5>1. h + u + 1 + i = n + 1
          BY <2>1, <3>1, <4>2
        <5>2. outbox'[i] = "control"
          BY <1>3, <2>1, <4>2
        <5> QED
          BY <1>2, <2>1, <5>1, <5>2
      <4> QED
        <5>1. i \in 1..o \/ i = o + 1
          BY <2>9
        <5> QED
          BY <4>1, <4>2, <5>1
    <3> QED
      BY <3>2, <3>3
  <2> QED
    BY <1>2, <1>3, <2>1, <2>3, <2>4, <2>5, <2>6, <2>7 DEF Upwards
<1>7. FromAgent' /\ Reasoned'
  BY AgentStays
<1>8. Stays
  BY DEF Stays
<1>9. Flow' /\ Ended'
  BY <1>8, FramesStay, EndedStays DEF IInv
<1> QED
  BY <1>4, <1>5, <1>6, <1>7, <1>8, <1>9 DEF IInv

LEMMA BrowserGonePreserves ==
  ASSUME IInv, BrowserGone
  PROVE  IInv'
<1> USE DEF BrowserGone, relayVars, upVars, agentVars
<1>1. PICK e : e = ErrorGot
  OBVIOUS
<1>2. /\ e \in Errors \cup {NoError} /\ (e # NoError => Stated(e))
      /\ ending' = [error |-> e, code |-> ABNORMAL]
  BY <1>1, ErrorGotIsStated
<1>6. Types'
  <2>1. ending' \in [error : Nat, code : Nat]
    <3>1. e \in Nat /\ ABNORMAL \in Nat
      BY <1>2, Codes
    <3> QED
      BY <1>2, <3>1
  <2>2. Carried'
    BY DEF IInv, Types, Carried
  <2>3. Places'
    BY <2>1 DEF IInv, Types, Places
  <2> QED
    BY <2>2, <2>3 DEF Types
<1>3. Phases'
  BY DEF IInv, Phases
<1>4. Upwards' /\ FromAgent' /\ Reasoned' /\ Flow'
  <2>1. Stays
    BY DEF Stays
  <2> QED
    BY <2>1, UpwardsStays, AgentStays, FramesStay
<1>5. Ended'
  <2>1. ending'.error = e /\ ending'.code = ABNORMAL /\ ABNORMAL \notin Errors
    BY <1>2, Codes
  <2>2. ending' \in Endings
    BY <1>2 DEF Endings
  <2>3. e # NoError => Stated(e)'
    BY <1>2 DEF Stated
  <2> QED
    BY <2>1, <2>2, <2>3 DEF Ended
<1> QED
  BY <1>3, <1>4, <1>5, <1>6 DEF IInv

(* The next frame: the browser holds it, or it closed the socket.          *)
LEMMA BrowserReceivePreserves ==
  ASSUME IInv, BrowserReceive
  PROVE  IInv'
<1> USE DEF BrowserReceive, relayVars, upVars, agentVars
<1>1. /\ inbox \in Seq(Frame) /\ got \in Seq(Frame) /\ inbox # <<>>
      /\ Len(got) \in Nat /\ Total = Len(got) + Len(inbox)
  BY Lengths DEF IInv, Types, Carried, Total
<1>2. /\ inbox' \in Seq(Frame) /\ Len(inbox) \in Nat /\ Len(inbox) > 0
      /\ Len(inbox') = Len(inbox) - 1
      /\ \A i \in 1..(Len(inbox) - 1) : inbox'[i] = inbox[i + 1]
      /\ Head(inbox) = inbox[1] /\ Head(inbox) \in Frame
  BY <1>1, Tailed
<1>3. PICK n : n = Len(got)
  OBVIOUS
<1>4. PICK t : t = Total
  OBVIOUS
<1>5. n \in Nat /\ t \in Nat /\ n + 1 \in 1..t /\ ~(n + 1 <= n) /\ (n + 1) - n = 1
  BY <1>1, <1>2, <1>3, <1>4
<1>6. At(n + 1) = Head(inbox)
  BY <1>2, <1>3, <1>5 DEF At
<1>7. Phases' /\ Upwards' /\ FromAgent' /\ Reasoned'
  <2>1. Phases'
    BY DEF IInv, Phases
  <2> QED
    BY <2>1, UpwardsStays, AgentStays
<1>8. CASE Head(inbox).kind # "close"
  <2>1. got' = Append(got, Head(inbox)) /\ ending' = ending
    BY <1>8
  <2>2. /\ got' \in Seq(Frame) /\ Len(got') = n + 1
        /\ \A i \in 1..n : got'[i] = got[i]
        /\ got'[n + 1] = Head(inbox)
    BY <1>1, <1>2, <1>3, <2>1, Appended
  <2>3. Types'
    <3>1. Carried'
      BY <1>2, <2>2 DEF IInv, Types, Carried
    <3>2. Places'
      BY <2>1 DEF IInv, Types, Places
    <3> QED
      BY <3>1, <3>2 DEF Types
  <2>4. Total' = t
    BY <1>1, <1>2, <1>3, <1>4, <2>2 DEF Total
  <2>5. \A i \in 1..t : At(i)' = At(i)
    <3> TAKE i \in 1..t
    <3>1. CASE i \in 1..n
      BY <1>3, <1>5, <2>2, <3>1 DEF At
    <3>2. CASE i = n + 1
      <4>1. At(i)' = got'[i]
        BY <1>5, <2>2, <3>2 DEF At
      <4> QED
        BY <1>6, <2>2, <3>2, <4>1
    <3>3. CASE i > n + 1
      <4>1. /\ i - (n + 1) \in 1..(Len(inbox) - 1) /\ (i - (n + 1)) + 1 = i - n
            /\ ~(i <= n) /\ ~(i <= n + 1)
        BY <1>1, <1>2, <1>3, <1>4, <1>5, <3>3
      <4>2. At(i)' = inbox'[i - (n + 1)]
        BY <2>2, <4>1 DEF At
      <4>3. At(i) = inbox[i - n]
        BY <1>3, <4>1 DEF At
      <4> QED
        BY <1>2, <4>1, <4>2, <4>3
    <3> QED
      BY <1>5, <3>1, <3>2, <3>3
  <2>6. PICK p \in 0..t : Placed(p)
    BY <1>4 DEF IInv, Flow
  <2>7. Flow'
    <3>1. p # 0 => Own(p)'
      <4>1. p # 0 => p \in 1..t
        BY <1>5
      <4> QED
        BY <2>5, <2>6, <4>1 DEF Placed, Own
    <3>2. ASSUME NEW i \in 1..t, Closing(i) PROVE Closing(i)'
      <4>6. Close(NORMAL).kind = "close" /\ \A c \in Errors : Close(c).kind = "close"
        BY Kinds, Codes
      <4>1. At(i).kind = "close" /\ i = t /\ i > n /\ ~wsOpen
        BY <1>3, <1>4, <3>2, <4>6 DEF Closing
      <4>2. i # n + 1
        BY <1>6, <1>8, <4>1
      <4>3. i > Len(got')
        BY <1>5, <2>2, <4>1, <4>2
      <4>4. Alarmed => Alarmed'
        BY <1>4, <2>4, <2>5 DEF Alarmed
      <4>5. \A c : Stated(c) => Stated(c)'
        BY DEF Stated
      <4> QED
        BY <2>4, <2>5, <3>2, <4>1, <4>3, <4>4, <4>5 DEF Closing
    <3>3. ASSUME NEW i \in 1..t, i # p
          PROVE  Closing(i)' \/ (From(p, i) <= Len(sent) /\ At(i)' = sent[From(p, i)])
      BY <1>4, <2>5, <2>6, <3>2, <3>3 DEF Placed
    <3>4. Given(p)' = Given(p) /\ UNCHANGED <<sent, upIn, wsOpen, relay, failure>>
      BY <1>4, <2>4 DEF Given
    <3>5. Placed(p)'
      BY <2>4, <2>6, <3>1, <3>3, <3>4 DEF Placed, From
    <3> QED
      BY <2>4, <2>6, <3>5 DEF Flow
  <2>8. Ended'
    <3>1. Stays
      BY DEF Stays
    <3> QED
      BY <2>1, <3>1, EndedStays DEF IInv
  <2> QED
    BY <1>7, <2>3, <2>7, <2>8 DEF IInv
<1>9. CASE Head(inbox).kind = "close"
  <2>9. PICK e, c : e = ErrorGot /\ c = Head(inbox).value
    OBVIOUS
  <2>1. ending' = [error |-> e, code |-> c] /\ got' = got
    BY <1>9, <2>9
  <2>2. n + 1 = t /\ Closing(t)
    <3>1. At(n + 1).kind # "data" /\ \A d \in Errors : At(n + 1) # Error(d)
      BY <1>6, <1>9, Kinds, Codes
    <3>2. Closing(n + 1)
      BY <1>4, <1>5, <3>1, FrameAt
    <3> QED
      BY <1>4, <3>2 DEF Closing
  <2>3. e \in Errors \cup {NoError} /\ (e # NoError => Stated(e))
    BY <2>9, ErrorGotIsStated
  <2>4. ~wsOpen /\ (c = NORMAL \/ (c \in Errors /\ Stated(c) /\ e \in Errors))
    <3>1. CASE At(t) = Close(NORMAL)
      BY <1>6, <2>2, <2>9, <3>1, Kinds, Codes DEF Closing
    <3>2. CASE \E d \in Errors : At(t) = Close(d) /\ Stated(d) /\ Alarmed
      <4>1. PICK d \in Errors : At(t) = Close(d) /\ Stated(d) /\ Alarmed
        BY <3>2
      <4>2. c = d
        <5>1. Close(d).value = d
          BY Kinds, Codes
        <5> QED
          BY <1>6, <2>2, <2>9, <4>1, <5>1
      <4>3. PICK j \in 1..t : At(j).kind = "error"
        BY <1>4, <4>1 DEF Alarmed
      <4>4. j # n + 1
        BY <1>6, <1>9, <4>3
      <4>5. j \in 1..n
        BY <1>5, <2>2, <4>3, <4>4
      <4>6. got[j].kind = "error"
        BY <1>3, <4>3, <4>5 DEF At
      <4>7. e # NoError
        BY <1>3, <2>9, <4>5, <4>6, ErrorGotIsStated
      <4> QED
        BY <2>2, <2>3, <4>1, <4>2, <4>7 DEF Closing
    <3> QED
      BY <2>2, <3>1, <3>2 DEF Closing
  <2>5. Types'
    <3>1. ending' \in [error : Nat, code : Nat]
      BY <2>1, <2>3, <2>4, Codes
    <3>2. Carried'
      BY <1>2, <2>1 DEF IInv, Types, Carried
    <3>3. Places'
      BY <3>1 DEF IInv, Types, Places
    <3> QED
      BY <3>2, <3>3 DEF Types
  <2>7. Flow'
    <3>1. PICK p \in 0..t : Placed(p)
      BY <1>4 DEF IInv, Flow
    <3>2. p # 0 => Own(p) /\ p # t /\ p \in 1..n
      <4>1. p # 0 => Own(p)
        BY <3>1 DEF Placed
      <4>2. Own(t) => At(t).kind = "error"
        BY Kinds, Codes DEF Own
      <4>3. At(t).kind = "close"
        BY <1>6, <1>9, <2>2
      <4>4. p # 0 /\ p # t => p \in 1..n
        BY <1>5, <2>2
      <4> QED
        BY <4>1, <4>2, <4>3, <4>4
    <3>3. Total' = n /\ \A i \in 1..n : At(i)' = At(i) /\ i \in 1..t /\ i # t
      <4>1. Total' = n
        BY <1>1, <1>2, <1>3, <1>4, <1>5, <2>1, <2>2 DEF Total
      <4>2. \A i \in 1..n : At(i)' = At(i)
        BY <1>3, <2>1 DEF At
      <4> QED
        BY <1>5, <2>2, <4>1, <4>2
    <3>4. p \in 0..n /\ (p # 0 => Own(p)')
      BY <1>5, <3>2, <3>3 DEF Own
    <3>5. ASSUME NEW i \in 1..n, i # p
          PROVE  From(p, i) <= Len(sent) /\ At(i)' = sent[From(p, i)]
      <4>1. ~Closing(i)
        BY <1>4, <3>3 DEF Closing
      <4> QED
        BY <1>4, <3>1, <3>3, <3>5, <4>1 DEF Placed
    <3>6. Placed(p)'
      BY <2>4, <3>3, <3>4, <3>5 DEF Placed, From
    <3> QED
      BY <3>3, <3>4, <3>6 DEF Flow
  <2>8. Ended'
    <3>1. ending'.error = e /\ ending'.code = c /\ NORMAL \notin Errors
      BY <2>1, Codes
    <3>2. ending' \in Endings
      <4>1. CASE c = NORMAL
        BY <2>1, <2>3, <4>1 DEF Endings
      <4>2. CASE c # NORMAL
        <5>1. e \in Errors /\ c \in Errors /\ Stated(e) /\ Stated(c)
          BY <2>3, <2>4, <4>2, Codes
        <5> QED
          BY <2>1, <5>1, Together
      <4> QED
        BY <4>1, <4>2
    <3>3. (e # NoError => Stated(e)') /\ (c \in Errors => Stated(c)')
      BY <2>3, <2>4, Codes DEF Stated
    <3> QED
      BY <3>1, <3>2, <3>3 DEF Ended
  <2> QED
    BY <1>7, <2>5, <2>7, <2>8 DEF IInv
<1> QED
  BY <1>8, <1>9

-----------------------------------------------------------------------------
(* The gateway's request thread.                                           *)

(* Steps that move no frame.                                               *)
LEMMA QuietPreserves ==
  ASSUME IInv, UNCHANGED <<browserVars, upIn, upOut, verdict, sent, heard>>,
         Places', Phases', FromAgent', Reasoned', wsOpen' => wsOpen,
         agent = "ended" => agent' = agent,
         relay \in Said => UNCHANGED <<relay, failure>>,
         wsOpen' /\ relay' \in Said /\ failure' # NoError => relay \in Said,
         \/ relay' = relay
         \/ relay' \in {"finish"} \cup Finishing
         \/ relay \in {"look up", "dial"} /\ relay' \in {"dial", "forward"}
  PROVE  IInv'
<1> USE DEF browserVars
<1>1. Carried'
  BY DEF IInv, Types, Carried
<1>2. Upwards'
  BY UpwardsStays
<1>3. Stays
  BY DEF Stays
<1>4. Flow' /\ Ended'
  BY <1>3, FramesStay, EndedStays DEF IInv
<1> QED
  BY <1>1, <1>2, <1>4 DEF IInv, Types

LEMMA SocketsPreserve ==
  ASSUME IInv, BrowserNoticed \/ AgentNoticed
  PROVE  IInv'
<1>1. CASE BrowserNoticed
  <2> USE <1>1 DEF BrowserNoticed, upVars, agentVars
  <2>1. Places'
    BY DEF IInv, Types, Places, browserVars
  <2>2. Phases'
    BY DEF IInv, Phases
  <2>3. FromAgent' /\ Reasoned'
    BY AgentStays
  <2> QED
    BY <2>1, <2>2, <2>3, QuietPreserves
<1>2. CASE AgentNoticed
  <2> USE <1>2 DEF AgentNoticed, relayVars, agentVars
  <2>1. Places'
    BY DEF IInv, Types, Places, browserVars
  <2>2. Phases'
    BY DEF IInv, Phases
  <2>3. FromAgent'
    BY DEF IInv, FromAgent
  <2>4. Reasoned'
    BY DEF IInv, Reasoned
  <2> QED
    BY <2>1, <2>2, <2>3, <2>4, QuietPreserves
<1> QED
  BY <1>1, <1>2

(* The first frame is not for the agent.                                   *)
LEMMA AuthenticatePreserves ==
  ASSUME IInv, Authenticate
  PROVE  IInv'
<1> USE DEF Authenticate, Goto, upVars, agentVars
<1>1. Places'
  BY Codes DEF IInv, Types, Places, Early, Finishing, Said
<1>2. Phases'
  BY DEF IInv, Phases, Early, Finishing, Said
<1>3. FromAgent' /\ Reasoned'
  BY AgentStays
<1>4. outbox = said /\ heard = <<>> /\ upOut = <<>> /\ Len(said) > 1
  BY DEF IInv, Upwards, Phases, Early, Finishing, Said
<1>5. Carried' /\ Upwards'
  <2>1. CASE outbox # <<>> /\ outbox' = Tail(outbox)
    <3>1. said \in Seq(Message) /\ said # <<>>
      BY <1>4, <2>1 DEF IInv, Types, Carried
    <3>2. /\ outbox' \in Seq(Message) /\ Len(said) \in Nat /\ Len(outbox') = Len(said) - 1
          /\ \A i \in 1..(Len(said) - 1) : outbox'[i] = said[i + 1]
      BY <1>4, <2>1, <3>1, Tailed
    <3>3. Carried'
      BY <3>2 DEF IInv, Types, Carried
    <3>4. PICK n : n = Len(said)
      OBVIOUS
    <3>5. n \in Nat /\ n > 1 /\ Len(heard) = 0 /\ Len(upOut) = 0 /\ Len(outbox') = n - 1
      BY <1>4, <3>2, <3>4, EmptySeq
    <3>51. n \in Nat /\ n > 1
      BY <3>5
    <3>6. /\ 0 + 0 + (n - 1) = n - 1 /\ 0 + 0 < n /\ 1..0 = {}
          /\ \A i \in 1..(n - 1) : 0 + 0 + 1 + i = i + 1
      BY <3>51, FromZero
    <3>7. \A i \in 1..(n - 1) : outbox'[i] = said[0 + 0 + 1 + i]
      BY <3>2, <3>4, <3>6
    <3>8. UNCHANGED <<said, heard, upOut>> /\ relay' # "authenticate"
      OBVIOUS
    <3>9. Upwards'
      BY <3>4, <3>5, <3>6, <3>7, <3>8 DEF Upwards
    <3> QED
      BY <3>3, <3>9
  <2>2. CASE outbox = <<>>
    BY <1>4, <2>2, EmptySeq
  <2> QED
    BY <2>1, <2>2
<1>6. Stays /\ relay' \notin Said
  BY DEF Stays, Said
<1>7. Flow' /\ Ended'
  BY <1>6, FramesStay, EndedStays DEF IInv
<1> QED
  BY <1>1, <1>2, <1>3, <1>5, <1>7 DEF IInv, Types

LEMMA LookUpPreserves ==
  ASSUME IInv, LookUp
  PROVE  IInv'
<1> USE DEF LookUp, Goto, upVars, agentVars
<1>1. Places'
  BY Codes DEF IInv, Types, Places, Early, Finishing, Said, browserVars
<1>2. Phases'
  BY DEF IInv, Phases, Early, Finishing, Said
<1>3. FromAgent' /\ Reasoned'
  BY AgentStays
<1> QED
  BY <1>1, <1>2, <1>3, QuietPreserves DEF Said, Finishing

(* Nothing is known of an agent before it is dialled.                      *)
LEMMA DialPreserves ==
  ASSUME IInv, Dial
  PROVE  IInv'
<1> USE DEF Dial, Goto
<1>1. Places'
  BY Codes DEF IInv, Types, Places, Early, Finishing, Said, browserVars
<1>2. pump = "none" /\ agent = "none" /\ upstream = "none"
  BY DEF IInv, Phases, Early, Finishing, Said
<1>3. Phases'
  BY <1>2 DEF IInv, Phases, Early, Finishing, Said
<1>4. FromAgent'
  BY <1>2 DEF IInv, FromAgent
<1>5. Reasoned'
  BY <1>2 DEF IInv, Reasoned
<1> QED
  BY <1>1, <1>2, <1>3, <1>4, <1>5, QuietPreserves DEF Said, Finishing

(* A frame moves on, or the relay ends.                                    *)
LEMMA ForwardPreserves ==
  ASSUME IInv, Forward
  PROVE  IInv'
<1> USE DEF Forward, Goto, agentVars
<1>1. Places'
  BY Codes DEF IInv, Types, Places, Early, Finishing, Said
<1>2. Phases'
  BY DEF IInv, Phases, Early, Finishing, Said
<1>3. FromAgent' /\ Reasoned'
  BY AgentStays
<1>4. outbox \in Seq(Message) /\ upOut \in Seq(Message) /\ outbox # <<>>
  BY DEF IInv, Types, Carried
<1>5. /\ outbox' \in Seq(Message) /\ Len(outbox) \in Nat /\ Len(outbox) > 0
      /\ Len(outbox') = Len(outbox) - 1
      /\ \A i \in 1..(Len(outbox) - 1) : outbox'[i] = outbox[i + 1]
      /\ Head(outbox) = outbox[1] /\ Head(outbox) \in Message
  BY <1>4, Tailed
<1>6. ASSUME upOut' = Append(upOut, Head(outbox)), UNCHANGED <<relay, failure>>
      PROVE  Carried' /\ Upwards'
  <2>1. /\ upOut' \in Seq(Message) /\ Len(upOut') = Len(upOut) + 1
        /\ \A i \in 1..Len(upOut) : upOut'[i] = upOut[i]
        /\ upOut'[Len(upOut) + 1] = outbox[1]
    BY <1>4, <1>5, <1>6, Appended
  <2>2. PICK h \in Nat, u \in Nat, n \in Nat, o \in Nat :
          h = Len(heard) /\ u = Len(upOut) /\ n = Len(said) /\ o = Len(outbox)
    BY Lengths
  <2>3. /\ n > 1 /\ h + u < n
        /\ \A i \in 1..h : heard[i] = said[i + 1]
        /\ \A i \in 1..u : upOut[i] = said[h + i + 1]
        /\ h + u + o = n - 1
        /\ \A i \in 1..o : outbox[i] = said[h + u + 1 + i]
    BY <2>2 DEF IInv, Upwards
  <2>4. h \in Nat /\ u \in Nat /\ n \in Nat /\ o \in Nat /\ o > 0
    BY <1>5, <2>2
  <2>5. n > 1 /\ h + u + o = n - 1
    BY <2>3
  <2>6. h + (u + 1) < n /\ h + (u + 1) + (o - 1) = n - 1 /\ 1 \in 1..o
    BY <2>4, <2>5
  <2>7. \A i \in 1..(u + 1) : upOut'[i] = said[h + i + 1]
    <3> TAKE i \in 1..(u + 1)
    <3>1. i \in 1..u \/ i = u + 1
      BY <2>4
    <3>2. h + (u + 1) + 1 = h + u + 1 + 1
      BY <2>4
    <3>3. upOut'[u + 1] = said[h + (u + 1) + 1]
      BY <2>1, <2>2, <2>3, <2>6, <3>2
    <3> QED
      BY <2>1, <2>2, <2>3, <3>1, <3>3
  <2>8. \A i \in 1..(o - 1) : outbox'[i] = said[h + (u + 1) + 1 + i]
    <3> TAKE i \in 1..(o - 1)
    <3>1. i + 1 \in 1..o /\ h + (u + 1) + 1 + i = h + u + 1 + (i + 1)
      BY <2>4
    <3> QED
      BY <1>5, <2>2, <2>3, <3>1
  <2>9. Upwards'
    <3>1. relay' = "forward" /\ Len(upOut') = u + 1 /\ Len(outbox') = o - 1
      BY <1>5, <1>6, <2>1, <2>2
    <3> QED
      BY <2>2, <2>3, <2>5, <2>6, <2>7, <2>8, <3>1 DEF Upwards
  <2>10. Carried'
    BY <1>5, <2>1 DEF IInv, Types, Carried
  <2> QED
    BY <2>9, <2>10
<1>7. ASSUME upOut' = upOut, relay' = "finish"
      PROVE  Carried' /\ Upwards'
  <2>1. Carried'
    BY <1>5, <1>7 DEF IInv, Types, Carried
  <2>2. Upwards'
    BY <1>7 DEF IInv, Upwards
  <2> QED
    BY <2>1, <2>2
<1>8. Carried' /\ Upwards'
  BY <1>6, <1>7
<1>9. Stays /\ relay' \notin Said
  BY DEF Stays, Said
<1>10. Flow' /\ Ended'
  BY <1>9, FramesStay, EndedStays DEF IInv
<1> QED
  BY <1>1, <1>2, <1>3, <1>8, <1>10 DEF IInv, Types

LEMMA StopForwardingPreserves ==
  ASSUME IInv, StopForwarding
  PROVE  IInv'
<1> USE DEF StopForwarding, Goto, upVars, agentVars
<1>1. Places'
  BY DEF IInv, Types, Places, Early, Finishing, Said, browserVars
<1>2. Phases'
  BY DEF IInv, Phases, Early, Finishing, Said
<1>3. FromAgent' /\ Reasoned'
  BY AgentStays
<1> QED
  BY <1>1, <1>2, <1>3, QuietPreserves DEF Said, Finishing

LEMMA FinishUpstreamPreserves ==
  ASSUME IInv, FinishUpstream
  PROVE  IInv'
<1> USE DEF FinishUpstream, UpstreamClosed, agentVars
<1>1. Places'
  BY DEF IInv, Types, Places, Early, Finishing, Said, browserVars
<1>2. Phases'
  BY DEF IInv, Phases, Early, Finishing, Said
<1>3. FromAgent' /\ Reasoned'
  BY AgentStays
<1> QED
  BY <1>1, <1>2, <1>3, QuietPreserves DEF Said, Finishing

(* The gateway's own frame takes the next place.                           *)
LEMMA SendErrorPreserves ==
  ASSUME IInv, SendError
  PROVE  IInv'
<1>1. /\ relay = "finish browser" /\ relay' = "close browser"
      /\ UNCHANGED <<said, outbox, got, ending, wsOpen, failure, pump>>
      /\ UNCHANGED <<upstream, upReason, upIn, upOut, agent, verdict, sent, heard>>
  BY DEF SendError, upVars, agentVars
<1>2. relay \notin Said /\ Stays
  BY <1>1 DEF Said, Stays
<1>3. Places' /\ Phases'
  BY <1>1 DEF IInv, Types, Places, Phases, Early, Finishing
<1>4. Upwards' /\ FromAgent' /\ Reasoned'
  BY <1>1, UpwardsStays, AgentStays DEF Finishing
<1>5. Ended'
  BY <1>1, <1>2, EndedStays DEF IInv
<1>6. Carried' /\ Flow'
  <2>1. CASE ~(failure # NoError /\ wsOpen)
    <3>1. inbox' = inbox
      BY <2>1 DEF SendError
    <3>2. Flow'
      BY <1>1, <1>2, <2>1, <3>1, FramesStay
    <3> QED
      BY <1>1, <3>1, <3>2 DEF IInv, Types, Carried
  <2>2. CASE failure # NoError /\ wsOpen
    <3>1. PICK t : t = Total
      OBVIOUS
    <3>2. PICK p \in 0..t : Placed(p)
      BY <3>1 DEF IInv, Flow
    <3>3. failure \in Errors /\ Error(failure) \in Frame
      <4>1. failure \in Errors
        BY <2>2 DEF IInv, Types, Places
      <4> QED
        BY <4>1, Kinds, Codes
    <3>4. inbox' = Append(inbox, Error(failure)) /\ got' = got
      BY <1>1, <2>2 DEF SendError
    <3>5. /\ inbox' \in Seq(Frame) /\ t \in Nat /\ Total' = t + 1
          /\ \A i \in 1..t : At(i)' = At(i)
          /\ At(t + 1)' = Error(failure)
      BY <3>1, <3>3, <3>4, Sending
    <3>6. p = 0
      BY <1>2, <3>2 DEF Placed, Own
    <3>7. Given(0) = t /\ Given(t + 1)' = t /\ t + 1 # 0 /\ t + 1 \in 0..(t + 1)
      BY <3>1, <3>5 DEF Given
    <3>8. Own(t + 1)'
      BY <1>1, <3>3, <3>5 DEF Own, Said
    <3>9. ASSUME NEW i \in 1..(t + 1), i # t + 1
          PROVE  From(t + 1, i) <= Len(sent) /\ At(i)' = sent[From(t + 1, i)]
      <4>1. i \in 1..t /\ ~(t + 1 < i) /\ i # 0
        BY <3>5, <3>9
      <4>2. From(t + 1, i) = i /\ From(0, i) = i
        BY <4>1 DEF From
      <4>3. ~Closing(i)
        BY <2>2 DEF Closing
      <4> QED
        BY <3>1, <3>2, <3>5, <3>6, <4>1, <4>2, <4>3 DEF Placed
    <3>10. Len(sent) = t + Len(upIn) /\ \A i \in 1..Len(upIn) : upIn[i] = sent[t + i]
      BY <2>2, <3>2, <3>6, <3>7 DEF Placed
    <3>11. Placed(t + 1)'
      BY <1>1, <3>5, <3>7, <3>8, <3>9, <3>10 DEF Placed, From
    <3>12. Flow'
      BY <3>5, <3>7, <3>11 DEF Flow
    <3> QED
      BY <1>1, <3>5, <3>12 DEF IInv, Types, Carried
  <2> QED
    BY <2>1, <2>2
<1> QED
  BY <1>3, <1>4, <1>5, <1>6 DEF IInv, Types

(* The gateway's close, that has a code only when its error was sent.      *)
LEMMA FinishBrowserPreserves ==
  ASSUME IInv, FinishBrowser
  PROVE  IInv'
<1>1. /\ relay = "close browser" /\ relay' = "done" /\ wsOpen' = FALSE
      /\ UNCHANGED <<said, outbox, got, ending, failure, pump>>
      /\ UNCHANGED <<upstream, upReason, upIn, upOut, agent, verdict, sent, heard>>
  BY DEF FinishBrowser, CloseBrowser, upVars, agentVars
<1>2. relay \in Said /\ relay' \in Said /\ Stays
  BY <1>1 DEF Said, Stays
<1>3. Places' /\ Phases'
  BY <1>1 DEF IInv, Types, Places, Phases, Early, Finishing
<1>4. Upwards' /\ FromAgent' /\ Reasoned'
  BY <1>1, UpwardsStays, AgentStays DEF Finishing
<1>5. Ended'
  BY <1>1, <1>2, EndedStays DEF IInv
<1>6. Carried' /\ Flow'
  <2>1. CASE ~wsOpen
    <3>1. inbox' = inbox
      BY <2>1 DEF FinishBrowser, CloseBrowser
    <3>2. Flow'
      BY <1>1, <1>2, <3>1, FramesStay
    <3> QED
      BY <1>1, <3>1, <3>2 DEF IInv, Types, Carried
  <2>2. CASE wsOpen
    <3>1. PICK c : c = IF failure = NoError THEN NORMAL ELSE failure
      OBVIOUS
    <3>2. inbox' = Append(inbox, Close(c))
      BY <2>2, <3>1 DEF FinishBrowser, CloseBrowser
    <3>3. c \in Errors \cup {NORMAL} /\ (c \in Errors => failure # NoError /\ c = failure)
      BY <3>1, Codes DEF IInv, Types, Places
    <3>4. ASSUME c \in Errors
          PROVE  Stated(c)' /\ \E j \in 1..Total : At(j).kind = "error"
      <4>1. PICK p \in 0..Total : Placed(p)
        BY DEF IInv, Flow
      <4>2. p # 0 /\ Own(p)
        BY <1>2, <2>2, <3>3, <3>4, <4>1 DEF Placed
      <4>3. At(p).kind = "error"
        BY <4>2, Kinds, Codes DEF Own
      <4>4. p \in 1..Total
        BY <4>1, <4>2, Lengths
      <4> QED
        BY <1>1, <1>2, <3>3, <3>4, <4>3, <4>4 DEF Stated
    <3>5. inbox' \in Seq(Frame) /\ Flow'
      BY <1>1, <1>2, <2>2, <3>2, <3>3, <3>4, Closes
    <3> QED
      BY <1>1, <3>5 DEF IInv, Types, Carried
  <2> QED
    BY <2>1, <2>2
<1> QED
  BY <1>3, <1>4, <1>5, <1>6 DEF IInv, Types

-----------------------------------------------------------------------------
(* The pump.                                                               *)

(* The next frame of the agent is the next of the browser.                 *)
LEMMA PumpFramePreserves ==
  ASSUME IInv, PumpFrame
  PROVE  IInv'
<1> USE DEF PumpFrame, agentVars
<1>1. upIn \in Seq(Frame) /\ upIn # <<>>
  BY DEF IInv, Types, Carried
<1>2. /\ upIn' \in Seq(Frame) /\ Len(upIn) \in Nat /\ Len(upIn) > 0
      /\ Len(upIn') = Len(upIn) - 1
      /\ \A i \in 1..(Len(upIn) - 1) : upIn'[i] = upIn[i + 1]
      /\ Head(upIn) = upIn[1] /\ Head(upIn) \in Frame
  BY <1>1, Tailed
<1>3. Places'
  BY DEF IInv, Types, Places
<1>4. Phases'
  <2>1. upstream # "none"
    BY DEF IInv, Phases
  <2> QED
    BY <2>1 DEF IInv, Phases
<1>5. Upwards' /\ FromAgent' /\ Reasoned'
  BY UpwardsStays, AgentStays
<1>6. Stays
  BY DEF Stays
<1>7. Ended'
  BY <1>6, EndedStays DEF IInv
<1>8. Carried' /\ Flow'
  <2>1. CASE ~wsOpen
    <3>1. Carried'
      BY <1>2, <2>1 DEF IInv, Types, Carried
    <3>2. PICK p \in 0..Total : Placed(p)
      BY DEF IInv, Flow
    <3>3. Len(sent) \in Nat /\ Len(sent) <= Len(sent) /\ UNCHANGED <<inbox, got, sent, wsOpen>>
      BY <2>1, Lengths
    <3>4. /\ Total' = Total
          /\ p # 0 => Own(p)'
          /\ \A i \in 1..Total' : i # p =>
               Closing(i)' \/ (From(p, i) <= Len(sent') /\ At(i)' = sent'[From(p, i)])
      BY <1>6, <3>2, <3>3, OrderStays
    <3>5. Placed(p)'
      BY <2>1, <3>3, <3>4 DEF Placed, From
    <3> QED
      BY <3>1, <3>2, <3>4, <3>5 DEF Flow
  <2>2. CASE wsOpen
    <3>1. PICK t, u : t = Total /\ u = Len(upIn)
      OBVIOUS
    <3>2. PICK p \in 0..t : Placed(p)
      BY <3>1 DEF IInv, Flow
    <3>3. PICK g : g = Given(p)
      OBVIOUS
    <3>4. inbox' = Append(inbox, upIn[1]) /\ got' = got
      <4>1. inbox' = inbox \o <<upIn[1]>> /\ got' = got
        BY <1>2, <2>2 DEF Relayed
      <4>2. inbox \in Seq(Frame) /\ upIn[1] \in Frame
        BY <1>2 DEF IInv, Types, Carried
      <4> QED
        BY <4>1, <4>2, AppendIsConcat
    <3>5. /\ inbox' \in Seq(Frame) /\ t \in Nat /\ Total' = t + 1
          /\ \A i \in 1..t : At(i)' = At(i)
          /\ At(t + 1)' = upIn[1]
      BY <1>2, <3>1, <3>4, Sending
    <3>6. /\ Len(sent) = g + u
          /\ \A i \in 1..u : upIn[i] = sent[g + i]
          /\ relay \in Said /\ failure # NoError => p # 0
      BY <2>2, <3>1, <3>2, <3>3 DEF Placed
    <3>7. /\ u \in Nat /\ u > 0 /\ g \in Nat /\ p \in Nat /\ p <= t
          /\ Given(p)' = g + 1 /\ From(p, t + 1) = g + 1
          /\ p \in 0..(t + 1) /\ t + 1 # p
      BY <1>2, <3>1, <3>2, <3>3, <3>5 DEF Given, From
    <3>8. g + 1 <= g + u /\ upIn[1] = sent[g + 1]
      BY <3>6, <3>7
    <3>9. p # 0 => Own(p)'
      <4>1. p # 0 => p \in 1..t
        BY <3>7, <3>5
      <4> QED
        BY <3>2, <3>5, <4>1 DEF Placed, Own
    <3>10. ASSUME NEW i \in 1..(t + 1), i # p
           PROVE  From(p, i) <= Len(sent) /\ At(i)' = sent[From(p, i)]
      <4>1. i \in 1..t \/ i = t + 1
        BY <3>5, OneMore
      <4>2. CASE i \in 1..t
        <5>1. ~Closing(i)
          BY <2>2 DEF Closing
        <5> QED
          BY <3>1, <3>2, <3>5, <3>10, <4>2, <5>1 DEF Placed
      <4>3. CASE i = t + 1
        BY <3>5, <3>6, <3>7, <3>8, <4>3
      <4> QED
        BY <4>1, <4>2, <4>3
    <3>11. Len(upIn') = u - 1 /\ g + u = (g + 1) + (u - 1)
      BY <1>2, <3>1, <3>7
    <3>12. \A i \in 1..(u - 1) : upIn'[i] = sent[(g + 1) + i]
      <4> TAKE i \in 1..(u - 1)
      <4>1. i + 1 \in 1..u /\ (g + 1) + i = g + (i + 1)
        BY <3>7
      <4> QED
        BY <1>2, <3>1, <3>6, <4>1
    <3>13. UNCHANGED <<sent, relay, failure>>
      OBVIOUS
    <3>14. Placed(p)'
      BY <3>5, <3>6, <3>7, <3>9, <3>10, <3>11, <3>12, <3>13 DEF Placed, From
    <3>15. Flow'
      BY <3>5, <3>7, <3>14 DEF Flow
    <3>16. Carried'
      BY <1>2, <3>5 DEF IInv, Types, Carried
    <3> QED
      BY <3>15, <3>16
  <2> QED
    BY <2>1, <2>2
<1> QED
  BY <1>3, <1>4, <1>5, <1>7, <1>8 DEF IInv, Types

LEMMA PumpEndPreserves ==
  ASSUME IInv, PumpEnd
  PROVE  IInv'
<1> USE DEF PumpEnd, upVars, agentVars
<1>1. Places'
  BY DEF IInv, Types, Places, browserVars
<1>2. Phases'
  BY DEF IInv, Phases
<1>3. FromAgent' /\ Reasoned'
  BY AgentStays
<1> QED
  BY <1>1, <1>2, <1>3, QuietPreserves DEF Said, Finishing

(* The pump closes with the code of the agent once the browser was given   *)
(* all its frames, the error among them.                                   *)
LEMMA PumpClosePreserves ==
  ASSUME IInv, PumpClose
  PROVE  IInv'
<1>1. /\ pump = "close" /\ pump' = "done" /\ wsOpen' = FALSE
      /\ UNCHANGED <<said, outbox, got, ending, relay, failure>>
      /\ UNCHANGED <<upstream, upReason, upIn, upOut, agent, verdict, sent, heard>>
  BY DEF PumpClose, CloseBrowser, upVars, agentVars
<1>2. Stays
  BY <1>1 DEF Stays
<1>3. Places' /\ Phases'
  BY <1>1 DEF IInv, Types, Places, Phases
<1>4. Upwards' /\ FromAgent' /\ Reasoned'
  BY <1>1, UpwardsStays, AgentStays
<1>5. Ended'
  BY <1>1, <1>2, EndedStays DEF IInv
<1>6. Carried' /\ Flow'
  <2>1. CASE ~wsOpen
    <3>1. inbox' = inbox
      BY <2>1 DEF PumpClose, CloseBrowser
    <3>2. Flow'
      BY <1>1, <1>2, <3>1, FramesStay
    <3> QED
      BY <1>1, <3>1, <3>2 DEF IInv, Types, Carried
  <2>2. CASE wsOpen
    <3>1. inbox' = Append(inbox, Close(upReason))
      BY <2>2 DEF PumpClose, PumpCode, CloseBrowser
    <3>2. upReason \in Errors \cup {NORMAL}
      BY Codes DEF IInv, Types, Places
    <3>3. ASSUME upReason \in Errors
          PROVE  Stated(upReason)' /\ \E j \in 1..Total : At(j).kind = "error"
      <4>1. /\ agent = "ended" /\ upReason = verdict
            /\ sent # <<>> /\ sent[Len(sent)] = Error(verdict)
        BY <3>3, Codes DEF IInv, Reasoned
      <4>2. PICK p \in 0..Total : Placed(p)
        BY DEF IInv, Flow
      <4>3. Len(sent) = Given(p)
        <5>1. upIn = <<>> /\ Len(upIn) = 0
          BY <1>1, <2>2, EmptySeq DEF IInv, Phases
        <5>2. Given(p) \in Int /\ Len(sent) = Given(p) + Len(upIn)
          BY <2>2, <4>2, Lengths DEF Placed, Given
        <5> QED
          BY <5>1, <5>2
      <4>4. CASE p # 0
        <5>1. p \in 1..Total
          BY <4>2, <4>4, Lengths
        <5>2. At(p).kind = "error"
          BY <4>2, <4>4, Kinds, Codes DEF Placed, Own
        <5> QED
          BY <1>1, <4>1, <5>1, <5>2 DEF Stated
      <4>5. CASE p = 0
        <5>1. PICK t : t = Total
          OBVIOUS
        <5>2. t = Len(sent) /\ t \in 1..t /\ t # 0
          <6>1. t = Len(sent) /\ t \in Nat
            BY <4>3, <4>5, <5>1, Lengths DEF Given
          <6>2. t # 0
            BY <4>1, <6>1, EmptySeq DEF IInv, Types, Carried
          <6> QED
            BY <6>1, <6>2
        <5>3. At(t) = sent[From(0, t)] /\ From(0, t) = t
          BY <2>2, <4>2, <4>5, <5>1, <5>2 DEF Placed, Closing, From
        <5>4. At(t).kind = "error"
          BY <3>3, <4>1, <5>2, <5>3, Kinds, Codes
        <5> QED
          BY <1>1, <4>1, <5>1, <5>2, <5>4 DEF Stated
      <4> QED
        BY <4>4, <4>5
    <3>4. inbox' \in Seq(Frame) /\ Flow'
      BY <1>1, <1>2, <2>2, <3>1, <3>2, <3>3, Closes
    <3> QED
      BY <1>1, <3>4 DEF IInv, Types, Carried
  <2> QED
    BY <2>1, <2>2
<1> QED
  BY <1>3, <1>4, <1>5, <1>6 DEF IInv, Types

-----------------------------------------------------------------------------
(* The agent.                                                              *)

(* A frame it sends on an open socket is the last on its way to the pump.  *)
LEMMA Pushing ==
  ASSUME IInv, NEW frame \in Frame, sent' = Append(sent, frame), upIn' = Append(upIn, frame),
         UNCHANGED <<said, outbox, inbox, got, upOut, heard, wsOpen, relay, failure>>, Stays
  PROVE  /\ Carried' /\ Flow'
         /\ Len(sent') = Len(sent) + 1 /\ Len(sent) \in Nat
         /\ \A i \in 1..Len(sent) : sent'[i] = sent[i]
         /\ sent'[Len(sent) + 1] = frame
<1>1. sent \in Seq(Frame) /\ upIn \in Seq(Frame)
  BY DEF IInv, Types, Carried
<1>2. /\ sent' \in Seq(Frame) /\ Len(sent) \in Nat /\ Len(sent') = Len(sent) + 1
      /\ \A i \in 1..Len(sent) : sent'[i] = sent[i]
      /\ sent'[Len(sent) + 1] = frame
  BY <1>1, Appended
<1>3. /\ upIn' \in Seq(Frame) /\ Len(upIn) \in Nat /\ Len(upIn') = Len(upIn) + 1
      /\ \A i \in 1..Len(upIn) : upIn'[i] = upIn[i]
      /\ upIn'[Len(upIn) + 1] = frame
  BY <1>1, Appended
<1>4. Carried'
  BY <1>2, <1>3 DEF IInv, Types, Carried
<1>5. PICK p \in 0..Total : Placed(p)
  BY DEF IInv, Flow
<1>6. /\ Total' = Total
      /\ p # 0 => Own(p)'
      /\ \A i \in 1..Total' : i # p =>
           Closing(i)' \/ (From(p, i) <= Len(sent') /\ At(i)' = sent'[From(p, i)])
  <2>1. Len(sent) <= Len(sent') /\ Len(sent') \in Nat
    BY <1>2
  <2> QED
    BY <1>2, <1>5, <2>1, OrderStays
<1>7. ASSUME wsOpen
      PROVE  /\ Len(sent') = Given(p)' + Len(upIn')
             /\ \A i \in 1..Len(upIn') : upIn'[i] = sent'[Given(p)' + i]
             /\ relay' \in Said /\ failure' # NoError => p # 0
  <2>1. PICK g, u, n : g = Given(p) /\ u = Len(upIn) /\ n = Len(sent)
    OBVIOUS
  <2>2. u \in Nat /\ n \in Nat /\ g \in Nat /\ Given(p)' = g
    <3>1. u \in Nat /\ n \in Nat /\ Total \in Nat /\ p \in 0..Total
      BY <2>1, Lengths
    <3> QED
      BY <1>6, <2>1, <3>1 DEF Given
  <2>3. /\ n = g + u
        /\ \A i \in 1..u : upIn[i] = sent[g + i]
        /\ relay \in Said /\ failure # NoError => p # 0
    BY <1>5, <1>7, <2>1 DEF Placed
  <2>4. n = g + u
    BY <2>3
  <2>5. n + 1 = g + (u + 1) /\ \A i \in 1..u : g + i \in 1..n
    BY <2>2, <2>4
  <2>6. \A i \in 1..(u + 1) : upIn'[i] = sent'[g + i]
    <3> TAKE i \in 1..(u + 1)
    <3>1. i \in 1..u \/ i = u + 1
      BY <2>2, OneMore
    <3>2. CASE i \in 1..u
      BY <1>2, <1>3, <2>1, <2>3, <2>5, <3>2
    <3>3. CASE i = u + 1
      BY <1>2, <1>3, <2>1, <2>5, <3>3
    <3> QED
      BY <3>1, <3>2, <3>3
  <2> QED
    BY <1>2, <1>3, <2>1, <2>2, <2>3, <2>5, <2>6
<1>8. Placed(p)'
  BY <1>6, <1>7 DEF Placed, From
<1>9. Flow'
  BY <1>5, <1>6, <1>8 DEF Flow
<1> QED
  BY <1>2, <1>4, <1>9

(* The agent's end.  The gateway cannot have learned its code before.      *)
LEMMA AgentEndPreserves ==
  ASSUME IInv, agent \in {"authorizing", "serving"},
         NEW code \in AgentErrors \cup {NORMAL}, AgentEnd(code)
  PROVE  IInv'
<1>1. /\ agent' = "ended" /\ verdict' = code
      /\ UNCHANGED <<said, outbox, inbox, got, ending, wsOpen, relay, failure, pump>>
      /\ UNCHANGED <<upstream, upReason, upOut, heard>>
  BY DEF AgentEnd, browserVars, relayVars
<1>2. Places'
  BY <1>1 DEF IInv, Types, Places
<1>3. pump # "none" /\ upReason = NORMAL
  BY DEF IInv, Phases, Reasoned
<1>4. \A i \in 1..Len(sent) : sent[i].kind = "data"
  BY DEF IInv, FromAgent
<1>5. Upwards'
  BY <1>1, UpwardsStays
<1>9. Stays
  BY <1>1 DEF Stays
<1>6. Ended'
  BY <1>1, <1>9, EndedStays DEF IInv
<1>7. CASE code \in Errors /\ upstream = "open"
  <2>1. sent' = Append(sent, Error(code)) /\ upIn' = Append(upIn, Error(code))
    BY <1>7 DEF AgentEnd
  <2>2. Error(code) \in Frame
    BY <1>7, Kinds, Codes
  <2>3. /\ Carried' /\ Flow'
        /\ Len(sent') = Len(sent) + 1 /\ Len(sent) \in Nat
        /\ \A i \in 1..Len(sent) : sent'[i] = sent[i]
        /\ sent'[Len(sent) + 1] = Error(code)
    BY <1>1, <1>9, <2>1, <2>2, Pushing
  <2>4. Phases'
    BY <1>1, <1>3, <1>7 DEF IInv, Phases
  <2>5. FromAgent'
    <3> SUFFICES ASSUME NEW i \in 1..(Len(sent) + 1)
                 PROVE  \/ sent'[i].kind = "data"
                        \/ /\ i = Len(sent) + 1 /\ code \in Errors
                           /\ sent'[i] = Error(code)
      BY <1>1, <2>3 DEF FromAgent
    <3>1. i \in 1..Len(sent) \/ i = Len(sent) + 1
      BY <2>3, OneMore
    <3> QED
      BY <1>4, <1>7, <2>3, <3>1
  <2>6. Reasoned'
    <3>1. sent' # <<>>
      BY <2>3, EmptySeq
    <3> QED
      BY <1>1, <1>3, <2>3, <3>1 DEF Reasoned
  <2> QED
    BY <1>2, <1>5, <1>6, <2>3, <2>4, <2>5, <2>6 DEF IInv, Types
<1>8. CASE ~(code \in Errors /\ upstream = "open")
  <2>1. sent' = sent /\ upIn' = upIn
    BY <1>8 DEF AgentEnd
  <2>2. Carried'
    BY <1>1, <2>1 DEF IInv, Types, Carried
  <2>3. Phases'
    BY <1>1, <1>3, <2>1 DEF IInv, Phases
  <2>4. FromAgent'
    BY <1>4, <2>1 DEF FromAgent
  <2>5. Reasoned'
    BY <1>1, <1>3, <1>8 DEF Reasoned
  <2>6. Flow'
    BY <1>1, <1>9, <2>1, FramesStay
  <2> QED
    BY <1>2, <1>5, <1>6, <2>2, <2>3, <2>4, <2>5, <2>6 DEF IInv, Types
<1> QED
  BY <1>7, <1>8

LEMMA AgentPreserves ==
  ASSUME IInv, AgentAuthorize \/ AgentFail \/ AgentStop
  PROVE  IInv'
<1>1. Permanent \cup {CLOSE_INTERNAL} \subseteq AgentErrors /\ CLOSE_INTERNAL \in AgentErrors
  BY Codes
<1>2. CASE AgentAuthorize
  <2>1. CASE /\ agent = "authorizing" /\ agent' = "serving"
             /\ UNCHANGED <<browserVars, relayVars, upVars, verdict, sent, heard>>
    <3> USE <2>1 DEF relayVars, upVars
    <3>1. Places'
      BY DEF IInv, Types, Places, browserVars
    <3>2. Phases'
      BY DEF IInv, Phases
    <3>3. FromAgent'
      BY DEF IInv, FromAgent
    <3>4. Reasoned'
      BY DEF IInv, Reasoned
    <3> QED
      BY <3>1, <3>2, <3>3, <3>4, QuietPreserves
  <2>2. CASE agent = "authorizing" /\ \E code \in Permanent \cup {CLOSE_INTERNAL} : AgentEnd(code)
    BY <1>1, <2>2, AgentEndPreserves
  <2> QED
    BY <1>2, <2>1, <2>2 DEF AgentAuthorize
<1>3. CASE AgentFail
  BY <1>1, <1>3, AgentEndPreserves DEF AgentFail
<1>4. CASE AgentStop
  BY <1>4, AgentEndPreserves DEF AgentStop
<1> QED
  BY <1>2, <1>3, <1>4

LEMMA AgentSendPreserves ==
  ASSUME IInv, AgentSend
  PROVE  IInv'
<1>1. /\ agent = "serving" /\ upstream = "open"
      /\ sent' = Append(sent, Data(Len(sent))) /\ upIn' = Append(upIn, Data(Len(sent)))
      /\ UNCHANGED <<said, outbox, inbox, got, ending, wsOpen, relay, failure, pump>>
      /\ UNCHANGED <<upstream, upReason, upOut, agent, verdict, heard>>
  BY DEF AgentSend, browserVars, relayVars
<1>2. Data(Len(sent)) \in Frame /\ Data(Len(sent)).kind = "data"
  BY Kinds, Lengths
<1>10. Stays
  BY <1>1 DEF Stays
<1>3. /\ Carried' /\ Flow'
      /\ Len(sent') = Len(sent) + 1 /\ Len(sent) \in Nat
      /\ \A i \in 1..Len(sent) : sent'[i] = sent[i]
      /\ sent'[Len(sent) + 1] = Data(Len(sent))
  BY <1>1, <1>2, <1>10, Pushing
<1>4. Places'
  BY <1>1 DEF IInv, Types, Places
<1>5. Phases'
  BY <1>1 DEF IInv, Phases
<1>6. Upwards'
  BY <1>1, UpwardsStays
<1>7. FromAgent'
  <2> SUFFICES ASSUME NEW i \in 1..(Len(sent) + 1) PROVE sent'[i].kind = "data"
    BY <1>3 DEF FromAgent
  <2>1. i \in 1..Len(sent) \/ i = Len(sent) + 1
    BY <1>3, OneMore
  <2>2. \A j \in 1..Len(sent) : sent[j].kind = "data"
    BY <1>1 DEF IInv, FromAgent
  <2> QED
    BY <1>2, <1>3, <2>1, <2>2
<1>8. Reasoned'
  BY <1>1 DEF IInv, Reasoned
<1>9. Ended'
  BY <1>1, <1>10, EndedStays DEF IInv
<1> QED
  BY <1>3, <1>4, <1>5, <1>6, <1>7, <1>8, <1>9 DEF IInv, Types

LEMMA AgentHearPreserves ==
  ASSUME IInv, AgentHear
  PROVE  IInv'
<1>1. /\ agent = "serving" /\ upOut # <<>>
      /\ upOut' = Tail(upOut) /\ heard' = Append(heard, Head(upOut))
      /\ UNCHANGED <<said, outbox, inbox, got, ending, wsOpen, relay, failure, pump>>
      /\ UNCHANGED <<upstream, upReason, upIn, agent, verdict, sent>>
  BY DEF AgentHear, browserVars, relayVars
<1>2. upOut \in Seq(Message) /\ heard \in Seq(Message)
  BY DEF IInv, Types, Carried
<1>3. /\ upOut' \in Seq(Message) /\ Len(upOut) \in Nat /\ Len(upOut) > 0
      /\ Len(upOut') = Len(upOut) - 1
      /\ \A i \in 1..(Len(upOut) - 1) : upOut'[i] = upOut[i + 1]
      /\ Head(upOut) = upOut[1] /\ Head(upOut) \in Message
  BY <1>1, <1>2, Tailed
<1>4. /\ heard' \in Seq(Message) /\ Len(heard) \in Nat /\ Len(heard') = Len(heard) + 1
      /\ \A i \in 1..Len(heard) : heard'[i] = heard[i]
      /\ heard'[Len(heard) + 1] = upOut[1]
  BY <1>1, <1>2, <1>3, Appended
<1>5. Carried'
  BY <1>1, <1>3, <1>4 DEF IInv, Types, Carried
<1>6. Places'
  BY <1>1 DEF IInv, Types, Places
<1>7. Phases'
  BY <1>1 DEF IInv, Phases
<1>8. FromAgent' /\ Reasoned'
  BY <1>1, AgentStays
<1>9. Upwards'
  <2>1. PICK h \in Nat, u \in Nat, n \in Nat, o \in Nat :
          h = Len(heard) /\ u = Len(upOut) /\ n = Len(said) /\ o = Len(outbox)
    BY Lengths
  <2>2. /\ n > 1 /\ h + u < n
        /\ \A i \in 1..h : heard[i] = said[i + 1]
        /\ \A i \in 1..u : upOut[i] = said[h + i + 1]
        /\ relay = "authenticate" => outbox = said
        /\ relay \in {"look up", "dial", "forward"} =>
             /\ h + u + o = n - 1
             /\ \A i \in 1..o : outbox[i] = said[h + u + 1 + i]
    BY <2>1 DEF IInv, Upwards
  <2>3. h \in Nat /\ u \in Nat /\ n \in Nat /\ o \in Nat /\ u > 0
    BY <1>3, <2>1
  <2>4. /\ (h + 1) + (u - 1) = h + u /\ 1 \in 1..u
        /\ \A i \in 1..(u - 1) : i + 1 \in 1..u /\ (h + 1) + i + 1 = h + (i + 1) + 1
    BY <2>3
  <2>5. \A i \in 1..(h + 1) : heard'[i] = said[i + 1]
    <3> TAKE i \in 1..(h + 1)
    <3>1. i \in 1..h \/ i = h + 1
      BY <2>3, OneMore
    <3> QED
      BY <1>4, <2>1, <2>2, <2>4, <3>1
  <2>6. \A i \in 1..(u - 1) : upOut'[i] = said[(h + 1) + i + 1]
    <3> TAKE i \in 1..(u - 1)
    <3>1. i + 1 \in 1..u /\ (h + 1) + i + 1 = h + (i + 1) + 1
      BY <2>4
    <3>2. upOut'[i] = upOut[i + 1]
      BY <1>3, <2>1
    <3>3. upOut[i + 1] = said[h + (i + 1) + 1]
      BY <2>2, <3>1
    <3> QED
      BY <3>1, <3>2, <3>3
  <2>7. Len(heard') = h + 1 /\ Len(upOut') = u - 1
    BY <1>3, <1>4, <2>1
  <2>8. (h + 1) + (u - 1) < n
    BY <2>2, <2>4
  <2>9. relay \in {"look up", "dial", "forward"} =>
          /\ (h + 1) + (u - 1) + o = n - 1
          /\ \A i \in 1..o : outbox[i] = said[(h + 1) + (u - 1) + 1 + i]
    BY <2>2, <2>4
  <2>10. UNCHANGED <<said, outbox, relay>> /\ n > 1 /\ (relay = "authenticate" => outbox = said)
    BY <1>1, <2>2
  <2> QED
    BY <2>1, <2>5, <2>6, <2>7, <2>8, <2>9, <2>10 DEF Upwards
<1>10. Stays
  BY <1>1 DEF Stays
<1>11. Flow' /\ Ended'
  BY <1>1, <1>10, FramesStay, EndedStays DEF IInv
<1> QED
  BY <1>5, <1>6, <1>7, <1>8, <1>9, <1>11 DEF IInv, Types

-----------------------------------------------------------------------------
(* Every step.                                                             *)

LEMMA StutterPreserves ==
  ASSUME IInv, UNCHANGED vars
  PROVE  IInv'
<1> USE DEF vars, relayVars, upVars, agentVars
<1>1. Places'
  BY DEF IInv, Types, Places, browserVars
<1>2. Phases'
  BY DEF IInv, Phases
<1>3. FromAgent' /\ Reasoned'
  BY AgentStays
<1> QED
  BY <1>1, <1>2, <1>3, QuietPreserves DEF Said, Finishing

LEMMA StepPreserves == IInv /\ [Next]_vars => IInv'
<1> SUFFICES ASSUME IInv, [Next]_vars PROVE IInv'
  OBVIOUS
<1>1. CASE BrowserSend \/ BrowserReceive \/ BrowserGone
  BY <1>1, BrowserSendPreserves, BrowserReceivePreserves, BrowserGonePreserves
<1>2. CASE BrowserNoticed \/ AgentNoticed
  BY <1>2, SocketsPreserve
<1>3. CASE Request
  BY <1>3, AuthenticatePreserves, LookUpPreserves, DialPreserves, ForwardPreserves,
     StopForwardingPreserves, FinishUpstreamPreserves, SendErrorPreserves,
     FinishBrowserPreserves DEF Request
<1>4. CASE Pump
  BY <1>4, PumpFramePreserves, PumpEndPreserves, PumpClosePreserves DEF Pump
<1>5. CASE AgentAuthorize \/ AgentSend \/ AgentHear \/ AgentFail \/ AgentStop
  BY <1>5, AgentPreserves, AgentSendPreserves, AgentHearPreserves
<1>6. CASE UNCHANGED vars
  BY <1>6, StutterPreserves
<1> QED
  BY <1>1, <1>2, <1>3, <1>4, <1>5, <1>6 DEF Next

LEMMA Invariant == Spec => []IInv
<1>1. Init => IInv
  BY InitInvariant
<1>2. IInv /\ [Next]_vars => IInv'
  BY StepPreserves
<1> QED
  BY <1>1, <1>2, PTL DEF Spec

-----------------------------------------------------------------------------
(* What the page and the agent can count on.                               *)

LEMMA FlowIsVerbatim == IInv => Verbatim
<1> SUFFICES ASSUME IInv PROVE Verbatim
  OBVIOUS
<1>1. PICK n, t : n = Len(got) /\ t = Total
  OBVIOUS
<1>2. n \in Nat /\ t \in Nat /\ n <= t /\ Len(sent) \in Nat /\ DOMAIN got = 1..n
      /\ DOMAIN sent = 1..Len(sent)
  <2>1. Len(got) \in Nat /\ Len(inbox) \in Nat /\ Len(sent) \in Nat /\ DOMAIN got = 1..Len(got)
    BY Lengths
  <2>2. DOMAIN sent = 1..Len(sent)
    BY LenProperties DEF IInv, Types, Carried
  <2> QED
    BY <1>1, <2>1, <2>2 DEF Total
<1>3. PICK p \in 0..t : Placed(p)
  BY <1>1 DEF IInv, Flow
<1>4. ASSUME NEW i \in 1..n, i # p
      PROVE  From(p, i) \in DOMAIN sent /\ got[i] = sent[From(p, i)]
  <2>1. i \in 1..t /\ At(i) = got[i] /\ ~Closing(i)
    BY <1>1, <1>2 DEF At, Closing
  <2>2. From(p, i) \in Nat /\ From(p, i) > 0
    BY <1>2, <1>4, Positions
  <2>3. From(p, i) <= Len(sent) /\ At(i) = sent[From(p, i)]
    BY <1>1, <1>3, <1>4, <2>1 DEF Placed
  <2> QED
    BY <1>2, <2>1, <2>2, <2>3
<1>5. \E q \in 0..Len(got) :
        /\ q # 0 => relay \in {"close browser", "done"} /\ got[q] = Error(failure)
        /\ \A i \in DOMAIN got \ {q} :
             LET k == IF q # 0 /\ i > q THEN i - 1 ELSE i
             IN  k \in DOMAIN sent /\ got[i] = sent[k]
  <2>1. CASE p <= n
    <3>1. p \in 0..n
      BY <1>2, <2>1
    <3>2. p # 0 => relay \in {"close browser", "done"} /\ got[p] = Error(failure)
      BY <1>1, <1>3, <2>1 DEF Placed, Own, Said, At
    <3>3. \A i \in 1..n : From(p, i) = IF p # 0 /\ i > p THEN i - 1 ELSE i
      BY <1>2 DEF From
    <3>4. \A i \in 1..n \ {p} :
            LET k == IF p # 0 /\ i > p THEN i - 1 ELSE i
            IN  k \in DOMAIN sent /\ got[i] = sent[k]
      <4> TAKE i \in 1..n \ {p}
      <4>1. From(p, i) = IF p # 0 /\ i > p THEN i - 1 ELSE i
        BY <3>3
      <4>2. From(p, i) \in DOMAIN sent /\ got[i] = sent[From(p, i)]
        BY <1>4
      <4> QED
        BY <4>1, <4>2
    <3>5. p \in 0..Len(got) /\ DOMAIN got = 1..n
      BY <1>1, <1>2, <3>1
    <3> QED
      BY <3>2, <3>4, <3>5
  <2>2. CASE ~(p <= n)
    <3>1. 0 \in 0..n
      BY <1>2
    <3>2. ASSUME NEW i \in 1..n
          PROVE  /\ i # p /\ From(p, i) = i
                 /\ (IF 0 # 0 /\ i > 0 THEN i - 1 ELSE i) = i
      BY <1>2, <2>2 DEF From
    <3>3. \A i \in 1..n : i \in DOMAIN sent /\ got[i] = sent[i]
      BY <1>4, <3>2
    <3> QED
      BY <1>1, <1>2, <3>1, <3>3
  <2> QED
    BY <2>1, <2>2
<1>6. Len(heard) < Len(said)
  <2>1. Len(heard) \in Nat /\ Len(upOut) \in Nat /\ Len(said) \in Nat
    BY Lengths
  <2>2. Len(heard) + Len(upOut) < Len(said)
    BY DEF IInv, Upwards
  <2> QED
    BY <2>1, <2>2
<1>7. \A i \in DOMAIN heard : heard[i] = said[i + 1]
  BY Lengths DEF IInv, Upwards
<1> QED
  BY <1>5, <1>6, <1>7 DEF Verbatim

(* Both directions of the relay are verbatim, whatever the two threads of  *)
(* the gateway do to each other's sockets.                                 *)
THEOREM RelaysVerbatim == Spec => []Verbatim
  BY Invariant, FlowIsVerbatim, PTL

(* The live socket of a page ends in one of the ways LiveSocket takes for  *)
(* its environment, and in no other.                                       *)
THEOREM EndsAsAssumed == Spec => []EndingsCovered
<1>1. IInv => EndingsCovered
  BY DEF IInv, Ended, EndingsCovered
<1> QED
  BY <1>1, Invariant, PTL

(* A page is refused for good only by the agent or the gateway.            *)
THEOREM RefusedByWord == Spec => []NeverFalselyRefused
<1>1. ASSUME IInv PROVE NeverFalselyRefused
  <2>1. CASE ending = Open
    <3>1. ending.error \notin Permanent /\ ending.code \notin Permanent
      BY <2>1 DEF Open, Permanent, NoError, CLOSE_UNAUTHORIZED, CLOSE_FORBIDDEN, CLOSE_NOT_FOUND
    <3> QED
      BY <3>1 DEF NeverFalselyRefused
  <2>2. CASE ending # Open
    <3>1. Permanent \subseteq Errors /\ NoError \notin Permanent
      BY Codes
    <3>2. \A c \in Permanent : c \in {ending.error, ending.code} => Stated(c)
      BY <1>1, <2>2, <3>1 DEF IInv, Ended
    <3> QED
      BY <3>2 DEF NeverFalselyRefused, Stated
  <2> QED
    BY <2>1, <2>2
<1> QED
  BY <1>1, Invariant, PTL
=============================================================================
