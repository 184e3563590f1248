---------------------------- MODULE LiveLogProofs ----------------------------
(***************************************************************************)
(* Machine-checked proofs about the log channel, for every size of the     *)
(* files, every chunk limit, every layout of the output paths and every    *)
(* number of lost connections.                                             *)
(***************************************************************************)
EXTENDS LiveLog, SequenceTheorems, TLAPS

(* The frames in flight continue the page's text, one after the other.     *)
Chained(s) ==
  \A i \in 1..Len(wire[s]) :
    /\ wire[s][i].from <= wire[s][i].next
    /\ wire[s][i].rotated => wire[s][i].from = 0
    /\ ~wire[s][i].rotated =>
         wire[s][i].from = IF i = 1 THEN offsets[s] ELSE wire[s][i - 1].next

(* The session reads on from where the last frame in flight ends.          *)
ReadsOn(s) ==
  subscribed =>
    cursor[s] = IF wire[s] = <<>> THEN offsets[s] ELSE wire[s][Len(wire[s])].next

(* Nothing was read of a stream that has no file of its own, or whose path *)
(* the session has not learned.                                            *)
Untouched(s) ==
  layout[s] # "own" \/ (conn /\ jobData[s] # "own") =>
    /\ offsets[s] = 0
    /\ cursor[s] = 0
    /\ \A i \in 1..Len(wire[s]) : wire[s][i].next = 0

MergedOnly(s) ==
  \A i \in 1..Len(wire[s]) : wire[s][i].merged => layout[s] = "merged"

(* A connection begins with one subscribe frame, that asks for the offsets *)
(* the page holds; no log frame is sent before it is handled.              *)
Handshake ==
  /\ ~conn => ~subscribed /\ control = <<>>
  /\ ~subscribed => wire = Empty /\ scan = <<>>
  /\ conn /\ ~subscribed => control # <<>>
  /\ \A i \in 1..Len(control) :
       /\ control[i].type = "subscribe" <=> i = 1 /\ ~subscribed
       /\ control[i].type = "subscribe" => control[i].offsets = offsets

(* The session knows of the paths nothing, or what Slurm knows.            *)
KnownPaths ==
  /\ jobData \in {Unknown, layout}
  /\ conn \/ jobData = Unknown

(* A look at a file is about the stream being served and its cursor.       *)
LookIsCurrent ==
  look.taken =>
    /\ scan # <<>>
    /\ jobData[Head(scan)] = "own"
    /\ Exists(Head(scan))
    /\ look.rotated => look.from = 0
    /\ ~look.rotated => look.from = cursor[Head(scan)]

IInv ==
  /\ TypeOK
  /\ Lossless
  /\ Handshake
  /\ KnownPaths
  /\ LookIsCurrent
  /\ \A s \in Streams : Chained(s) /\ ReadsOn(s) /\ Untouched(s) /\ MergedOnly(s)

-----------------------------------------------------------------------------
(* Types.                                                                  *)

(* A chunk is a sequence of bytes, one for each position it covers.        *)
LEMMA ChunkProperties ==
  ASSUME NEW gen \in Nat, NEW from \in Nat, NEW to \in Nat, from <= to
  PROVE  /\ Chunk(gen, from, to) \in Seq(Byte)
         /\ Len(Chunk(gen, from, to)) = to - from
         /\ \A i \in 1..(to - from) : Chunk(gen, from, to)[i].pos = from + i
<1> DEFINE n == to - from
           b(i) == [gen |-> gen, pos |-> from + i,
                    whole |-> Whole(from + i, from, to)]
<1>1. n \in Nat
  OBVIOUS
<1>2. \A i \in 1..n : b(i) \in Byte
  BY DEF Byte, Whole
<1>3. Chunk(gen, from, to) = [i \in 1..n |-> b(i)]
  BY DEF Chunk
<1> HIDE DEF n, b
<1>4. [i \in 1..n |-> b(i)] \in Seq(Byte) /\ Len([i \in 1..n |-> b(i)]) = n
  BY <1>1, <1>2, IsASeq
<1>5. \A i \in 1..n : b(i).pos = from + i
  BY DEF b
<1> QED
  BY <1>1, <1>3, <1>4, <1>5 DEF n

(* The size of a file that exists, and the end of a read of it.            *)
LEMMA ReadProperties ==
  ASSUME FileType, NEW s \in Streams, Exists(s), NEW from \in Nat
  PROVE  /\ Gen(s) \in Nat
         /\ Size(s) \in Nat
         /\ ReadEnd(s, from) \in Nat
         /\ from <= ReadEnd(s, from)
<1>1. file[s] \in Seq(Nat) /\ file[s] # <<>>
  BY DEF FileType, Exists
<1>2. Len(file[s]) \in Nat \ {0}
  BY <1>1, EmptySeq
<1>3. Size(s) \in Nat
  BY <1>1, <1>2, ElementOfSeq DEF Size, Gen
<1> QED
  BY <1>2, <1>3, LogFileAssumption DEF Gen, ReadEnd

(* Before the page connects, every part of the invariant holds.            *)
LEMMA InitInvariant == Init => IInv
<1> SUFFICES ASSUME Init PROVE IInv
  OBVIOUS
<1> USE DEF Init, FileInit, Empty, Zero, Unknown, NoLook
<1>1. TypeOK
  BY EmptySeq DEF TypeOK, FileType, PathKind, Streams, Frame, Byte, ControlFrame
<1>2. Lossless
  BY EmptySeq DEF Lossless
<1>3. Handshake /\ KnownPaths /\ LookIsCurrent
  BY EmptySeq DEF Handshake, KnownPaths, LookIsCurrent
<1>4. \A s \in Streams : Chained(s) /\ ReadsOn(s) /\ Untouched(s) /\ MergedOnly(s)
  BY EmptySeq DEF Chained, ReadsOn, Untouched, MergedOnly
<1> QED
  BY <1>1, <1>2, <1>3, <1>4 DEF IInv

-----------------------------------------------------------------------------
(* The world's steps.                                                      *)

(* Slurm telling the output paths disturbs nothing: no stream was read of. *)
LEMMA LearnPathsPreserves ==
  ASSUME IInv, LearnPaths
  PROVE  IInv'
<1> USE DEF IInv, LearnPaths, linkVars, sessionVars, pageVars
<1>1. \A s \in Streams : layout[s] = "unknown"
  BY DEF Unknown
<1>2. TypeOK'
  BY LiveLogAssumption DEF TypeOK, FileType
<1>3. Lossless'
  BY DEF Lossless
<1>4. Handshake'
  BY DEF Handshake
<1>5. KnownPaths'
  BY DEF KnownPaths
<1>6. LookIsCurrent'
  BY DEF LookIsCurrent, Exists
<1>7. ASSUME NEW s \in Streams
      PROVE  (Chained(s) /\ ReadsOn(s) /\ Untouched(s) /\ MergedOnly(s))'
  <2>1. Chained(s)' /\ ReadsOn(s)'
    BY DEF Chained, ReadsOn
  <2>2. Untouched(s)'
    BY <1>1 DEF Untouched
  <2>3. MergedOnly(s)'
    BY <1>1 DEF MergedOnly
  <2> QED
    BY <2>1, <2>2, <2>3
<1> QED
  BY <1>2, <1>3, <1>4, <1>5, <1>6, <1>7

(* The job's writing changes the files only; what was read stays read.     *)
LEMMA ProducePreserves ==
  ASSUME IInv, Produce
  PROVE  IInv'
<1> USE DEF IInv, Produce, linkVars, sessionVars, pageVars
<1>1. PICK f \in Streams : StartFile(f) \/ WriteFile(f)
  OBVIOUS
<1>2. file \in [Streams -> Seq(Nat)]
  BY DEF TypeOK, FileType
<1>3. /\ file' \in [Streams -> Seq(Nat)]
      /\ \A s \in Streams : Exists(s) => Exists(s)'
  <2>1. CASE StartFile(f)
    <3>1. file[f] \in Seq(Nat) /\ 0 \in Nat
      BY <1>2
    <3>2. Append(file[f], 0) \in Seq(Nat) /\ Append(file[f], 0) # <<>>
      BY <3>1, AppendProperties
    <3> QED
      BY <1>2, <2>1, <3>2 DEF StartFile, Exists
  <2>2. CASE WriteFile(f)
    <3> DEFINE g == Len(file[f])
    <3>1. file[f] \in Seq(Nat) /\ file[f] # <<>>
      BY <1>2, <2>2 DEF WriteFile, Exists
    <3>2. g \in 1..Len(file[f]) /\ file[f][g] \in Nat
      BY <3>1, EmptySeq, ElementOfSeq
    <3>3. /\ [file[f] EXCEPT ![g] = file[f][g] + 1] \in Seq(Nat)
          /\ Len([file[f] EXCEPT ![g] = file[f][g] + 1]) = Len(file[f])
      BY <3>1, <3>2, ExceptSeq
    <3>4. [file[f] EXCEPT ![g] = file[f][g] + 1] # <<>>
      BY <3>1, <3>3, EmptySeq
    <3>5. file' = [file EXCEPT ![f] = [file[f] EXCEPT ![g] = file[f][g] + 1]]
      BY <2>2 DEF WriteFile, Gen
    <3> HIDE DEF g
    <3> QED
      BY <1>2, <3>3, <3>4, <3>5 DEF Exists
  <2> QED
    BY <1>1, <2>1, <2>2
<1>4. TypeOK'
  BY <1>3 DEF TypeOK, FileType
<1>5. LookIsCurrent'
  <2>1. look.taken => Head(scan) \in Streams
    BY HeadTailProperties DEF TypeOK, LookIsCurrent
  <2> QED
    BY <1>3, <2>1 DEF LookIsCurrent
<1>6. Lossless' /\ Handshake' /\ KnownPaths'
  BY DEF Lossless, Handshake, KnownPaths
<1>7. \A s \in Streams :
        (Chained(s) /\ ReadsOn(s) /\ Untouched(s) /\ MergedOnly(s))'
  BY DEF Chained, ReadsOn, Untouched, MergedOnly
<1> QED
  BY <1>4, <1>5, <1>6, <1>7

-----------------------------------------------------------------------------
(* The connection's steps.                                                 *)

(* A new connection carries one subscribe frame with the page's offsets    *)
(* and starts with nothing in flight.                                      *)
LEMMA ConnectPreserves ==
  ASSUME IInv, Connect
  PROVE  IInv'
<1> USE DEF IInv, Connect, NewSession, worldVars, pageVars, Zero, NoLook, Empty
<1> DEFINE first == [type |-> "subscribe", offsets |-> offsets]
<1>1. control' = <<first>> /\ Len(control') = 1 /\ control'[1] = first
  OBVIOUS
<1>2. wire = Empty /\ wire' = Empty
  BY DEF Handshake
<1>3. TypeOK'
  <2>1. first \in ControlFrame
    BY DEF TypeOK, ControlFrame
  <2>2. control' \in Seq(ControlFrame)
    BY <1>1, <2>1
  <2>3. scan' \in Seq(Streams)
    BY EmptySeq
  <2> QED
    BY <2>2, <2>3 DEF TypeOK, FileType, PathKind
<1>4. Handshake'
  BY <1>1, <1>2 DEF Handshake
<1>5. Lossless' /\ KnownPaths' /\ LookIsCurrent'
  BY DEF Lossless, KnownPaths, LookIsCurrent
<1>6. ASSUME NEW s \in Streams
      PROVE  (Chained(s) /\ ReadsOn(s) /\ Untouched(s) /\ MergedOnly(s))'
  <2>1. wire'[s] = <<>> /\ Len(wire'[s]) = 0
    BY <1>2, EmptySeq
  <2> QED
    BY <2>1 DEF Chained, ReadsOn, Untouched, MergedOnly
<1> QED
  BY <1>3, <1>4, <1>5, <1>6

(* A lost connection takes all that is in flight, and leaves the page's    *)
(* offsets the length of its text.                                         *)
LEMMA DisconnectPreserves ==
  ASSUME IInv, Disconnect
  PROVE  IInv'
<1> USE DEF IInv, Disconnect, NewSession, worldVars, pageVars, Zero, NoLook, Empty
<1>1. control' = <<>> /\ Len(control') = 0 /\ wire' = Empty
  BY EmptySeq
<1>2. TypeOK'
  <2>1. /\ control' \in Seq(ControlFrame) /\ scan' \in Seq(Streams)
        /\ wire' \in [Streams -> Seq(Frame)]
    BY <1>1, EmptySeq
  <2>2. /\ jobData' \in [Streams -> PathKind] /\ cursor' \in [Streams -> Nat]
        /\ sentPath' \in [Streams -> PathKind \cup {"unset"}]
        /\ look' \in [taken : BOOLEAN, rotated : BOOLEAN, from : Nat]
    BY DEF PathKind, Unknown
  <2>3. drops' \in Nat
    BY DEF TypeOK
  <2> QED
    BY <2>1, <2>2, <2>3 DEF TypeOK, FileType
<1>3. Handshake'
  BY <1>1 DEF Handshake
<1>4. Lossless' /\ KnownPaths' /\ LookIsCurrent'
  BY DEF Lossless, KnownPaths, LookIsCurrent
<1>5. ASSUME NEW s \in Streams
      PROVE  (Chained(s) /\ ReadsOn(s) /\ Untouched(s) /\ MergedOnly(s))'
  <2>1. wire'[s] = <<>> /\ Len(wire'[s]) = 0
    BY <1>1, EmptySeq
  <2> QED
    BY <2>1 DEF Chained, ReadsOn, Untouched, MergedOnly
<1> QED
  BY <1>2, <1>3, <1>4, <1>5

-----------------------------------------------------------------------------
(* The session handles a control frame.                                    *)

(* What every turn of the session's loop keeps: nothing the page or the    *)
(* world holds, and a look is taken only within a round of service.        *)
LEMMA ServicePreserves ==
  ASSUME IInv, conn, scan = <<>>, NEW due \in BOOLEAN,
         NEW sub \in BOOLEAN, NEW pause \in BOOLEAN,
         Service(sub, pause, due)
  PROVE  /\ scan' \in Seq(Streams)
         /\ jobData' \in {jobData, layout}
         /\ ~sub => scan' = <<>>
         /\ look' = look /\ ~look.taken
<1>1. Order \in Seq(Streams) /\ <<>> \in Seq(Streams)
  BY DEF Order, Streams
<1>2. ~look.taken
  BY DEF IInv, LookIsCurrent
<1> QED
  BY <1>1, <1>2 DEF Service

(* A control frame is consumed: the rest are not subscriptions.            *)
LEMMA ControlTail ==
  ASSUME IInv, control # <<>>
  PROVE  /\ Head(control) = control[1]
         /\ Tail(control) \in Seq(ControlFrame)
         /\ \A i \in 1..Len(Tail(control)) : Tail(control)[i].type # "subscribe"
         /\ Head(control).type = "subscribe" <=> ~subscribed
<1>1. control \in Seq(ControlFrame)
  BY DEF IInv, TypeOK
<1>2. /\ Tail(control) \in Seq(ControlFrame)
      /\ Len(Tail(control)) = Len(control) - 1
      /\ \A i \in 1..Len(Tail(control)) : Tail(control)[i] = control[i + 1]
  BY <1>1, HeadTailProperties
<1>3. Len(control) \in Nat \ {0} /\ Head(control) = control[1]
  BY <1>1, EmptySeq
<1>4. \A i \in 1..Len(Tail(control)) : i + 1 \in 1..Len(control) /\ i + 1 # 1
  BY <1>2, <1>3
<1> QED
  BY <1>2, <1>3, <1>4 DEF IInv, Handshake

(* What a turn must establish, whatever frame it handles.                  *)
LEMMA TurnSummary ==
  ASSUME IInv, conn, scan = <<>>,
         NEW due \in BOOLEAN, NEW pause \in BOOLEAN,
         UNCHANGED <<worldVars, conn, drops, wire, pageVars>>,
         subscribed', logPaused' \in BOOLEAN,
         Service(TRUE, pause, due),
         control' \in Seq(ControlFrame),
         \A i \in 1..Len(control') : control'[i].type # "subscribe",
         \/ subscribed /\ cursor' = cursor /\ sentPath' = sentPath
         \/ /\ ~subscribed /\ cursor' = offsets
            /\ sentPath' = [s \in Streams |-> "unset"]
  PROVE  IInv'
<1> USE DEF IInv, worldVars, pageVars
<1>1. /\ scan' \in Seq(Streams)
      /\ jobData' \in {jobData, layout}
      /\ look' = look /\ ~look.taken
  BY ServicePreserves
<1>2. TypeOK'
  <2>1. /\ cursor' \in [Streams -> Nat]
        /\ sentPath' \in [Streams -> PathKind \cup {"unset"}]
        /\ subscribed' \in BOOLEAN
    BY DEF TypeOK, PathKind, Handshake
  <2> QED
    BY <1>1, <2>1 DEF TypeOK, FileType
<1>3. Lossless' /\ LookIsCurrent'
  BY <1>1 DEF Lossless, LookIsCurrent
<1>4. Handshake' /\ KnownPaths'
  BY <1>1 DEF Handshake, KnownPaths
<1>5. ASSUME NEW s \in Streams
      PROVE  (Chained(s) /\ ReadsOn(s) /\ Untouched(s) /\ MergedOnly(s))'
  <2>1. Chained(s)' /\ MergedOnly(s)'
    BY DEF Chained, MergedOnly
  <2>2. ReadsOn(s)'
    BY DEF ReadsOn, Handshake, Empty
  <2>3. Untouched(s)'
    BY <1>1 DEF Untouched
  <2> QED
    BY <2>1, <2>2, <2>3
<1> QED
  BY <1>2, <1>3, <1>4, <1>5

(* Taking a control frame keeps the invariant: a subscribe frame sets the  *)
(* cursors to the offsets the page holds.                                  *)
LEMMA TurnPreserves ==
  ASSUME IInv, NEW due \in BOOLEAN, Turn(due)
  PROVE  IInv'
<1>1. logPaused \in BOOLEAN /\ subscribed \in BOOLEAN
  BY DEF IInv, TypeOK
<1>2. CASE HandleSubscribe(due)
  <2> USE <1>2 DEF HandleSubscribe, Handling
  <2>1. /\ Tail(control) \in Seq(ControlFrame)
        /\ \A i \in 1..Len(Tail(control)) : Tail(control)[i].type # "subscribe"
        /\ ~subscribed
    BY ControlTail
  <2>2. cursor' = offsets
    <3>1. 1 \in 1..Len(control) /\ Head(control) = control[1]
      BY EmptySeq, ControlTail DEF IInv, TypeOK
    <3> QED
      BY <3>1 DEF StreamsFrom, IInv, Handshake
  <2> QED
    BY <2>1, <2>2, TurnSummary
<1>3. CASE HandlePause(due)
  <2> USE <1>3 DEF HandlePause, Handling
  <2>1. /\ Tail(control) \in Seq(ControlFrame)
        /\ \A i \in 1..Len(Tail(control)) : Tail(control)[i].type # "subscribe"
        /\ subscribed
    BY <1>1, ControlTail
  <2> QED
    BY <2>1, TurnSummary
<1>4. CASE HandleResume(due)
  <2> USE <1>4 DEF HandleResume, Handling
  <2>1. /\ Tail(control) \in Seq(ControlFrame)
        /\ \A i \in 1..Len(Tail(control)) : Tail(control)[i].type # "subscribe"
        /\ subscribed
    BY <1>1, ControlTail
  <2> QED
    BY <2>1, TurnSummary
<1>5. CASE HandleNothing(due)
  <2> USE <1>5 DEF HandleNothing, linkVars
  <2>1. subscribed
    BY DEF IInv, Handshake
  <2>2. /\ control \in Seq(ControlFrame)
        /\ \A i \in 1..Len(control) : control[i].type # "subscribe"
    BY <2>1, EmptySeq DEF IInv, TypeOK
  <2> QED
    BY <1>1, <2>1, <2>2, TurnSummary
<1> QED
  BY <1>2, <1>3, <1>4, <1>5 DEF Turn

-----------------------------------------------------------------------------
(* push_log serves a stream.                                               *)

(* A step that sends nothing keeps the two ends as they are.               *)
LEMMA NothingSent ==
  ASSUME IInv, NEW s \in Streams, Serving(s),
         UNCHANGED <<wire, cursor, sentPath>>,
         scan' \in Seq(Streams), logPaused' \in BOOLEAN,
         look' \in [taken : BOOLEAN, rotated : BOOLEAN, from : Nat],
         LookIsCurrent'
  PROVE  IInv'
<1> USE DEF IInv, Serving, worldVars, pageVars
<1>1. subscribed
  BY DEF Handshake
<1>2. TypeOK'
  BY DEF TypeOK, FileType
<1>3. Lossless' /\ Handshake' /\ KnownPaths'
  BY <1>1 DEF Lossless, Handshake, KnownPaths
<1>4. \A r \in Streams :
        (Chained(r) /\ ReadsOn(r) /\ Untouched(r) /\ MergedOnly(r))'
  BY DEF Chained, ReadsOn, Untouched, MergedOnly
<1> QED
  BY <1>2, <1>3, <1>4

(* A frame that begins where the session's cursor is, or at 0 because the  *)
(* file started over, and ends at the new cursor, prolongs the chain.      *)
LEMMA FrameSent ==
  ASSUME IInv, NEW s \in Streams, Serving(s), NEW frame \in Frame,
         wire' = [wire EXCEPT ![s] = Append(wire[s], frame)],
         cursor' = [cursor EXCEPT ![s] = frame.next],
         sentPath' \in [Streams -> PathKind \cup {"unset"}],
         scan' \in Seq(Streams), logPaused' = logPaused,
         look' \in [taken : BOOLEAN, rotated : BOOLEAN, from : Nat],
         ~look'.taken,
         frame.from <= frame.next,
         frame.rotated => frame.from = 0,
         ~frame.rotated => frame.from = cursor[s],
         layout[s] # "own" \/ jobData[s] # "own" => frame.next = 0,
         frame.merged => layout[s] = "merged"
  PROVE  IInv'
<1>1. /\ subscribed /\ UNCHANGED <<conn, drops, control, subscribed, jobData>>
      /\ UNCHANGED <<file, layout, offsets, text, paused, merged>>
  BY DEF IInv, Handshake, Serving, worldVars, pageVars
<1>2. /\ wire \in [Streams -> Seq(Frame)] /\ cursor \in [Streams -> Nat]
      /\ offsets \in [Streams -> Nat] /\ wire[s] \in Seq(Frame)
  BY DEF IInv, TypeOK
<1>3. frame.next \in Nat /\ frame.from \in Nat
  BY DEF Frame
<1>4. /\ wire'[s] = Append(wire[s], frame)
      /\ wire'[s] \in Seq(Frame) /\ wire'[s] # <<>>
      /\ Len(wire[s]) \in Nat
      /\ Len(wire'[s]) = Len(wire[s]) + 1
      /\ \A i \in 1..Len(wire[s]) : wire'[s][i] = wire[s][i]
      /\ wire'[s][Len(wire[s]) + 1] = frame
  <2>1. wire'[s] = Append(wire[s], frame)
    BY <1>2
  <2>2. ASSUME NEW q \in Seq(Frame)
        PROVE  /\ Append(q, frame) \in Seq(Frame) /\ Append(q, frame) # <<>>
               /\ Len(q) \in Nat
               /\ Len(Append(q, frame)) = Len(q) + 1
               /\ \A i \in 1..Len(q) : Append(q, frame)[i] = q[i]
               /\ Append(q, frame)[Len(q) + 1] = frame
    BY AppendProperties, LenProperties
  <2> QED
    BY <1>2, <2>1, <2>2
<1>5. TypeOK'
  <2>1. wire' \in [Streams -> Seq(Frame)] /\ cursor' \in [Streams -> Nat]
    BY <1>2, <1>3, <1>4
  <2> QED
    BY <1>1, <2>1 DEF IInv, TypeOK, FileType
<1>6. Lossless' /\ Handshake' /\ KnownPaths' /\ LookIsCurrent'
  BY <1>1 DEF IInv, Lossless, Handshake, KnownPaths, LookIsCurrent
<1>7. ASSUME NEW r \in Streams, r # s
      PROVE  (Chained(r) /\ ReadsOn(r) /\ Untouched(r) /\ MergedOnly(r))'
  <2>1. wire'[r] = wire[r] /\ cursor'[r] = cursor[r]
    BY <1>2, <1>7
  <2>2. Chained(r) /\ ReadsOn(r) /\ Untouched(r) /\ MergedOnly(r)
    BY DEF IInv
  <2>3. Chained(r)'
    BY <1>1, <2>1, <2>2 DEF Chained
  <2>4. ReadsOn(r)' /\ Untouched(r)' /\ MergedOnly(r)'
    BY <1>1, <2>1, <2>2 DEF ReadsOn, Untouched, MergedOnly
  <2> QED
    BY <2>3, <2>4
<1>8. (Chained(s) /\ ReadsOn(s) /\ Untouched(s) /\ MergedOnly(s))'
  <2> DEFINE n == Len(wire[s])
  <2>1. cursor'[s] = frame.next
    BY <1>2
  <2>2. ReadsOn(s)'
    BY <1>4, <2>1 DEF ReadsOn
  <2>0. Chained(s) /\ ReadsOn(s) /\ Untouched(s) /\ MergedOnly(s)
    BY DEF IInv
  <2>3. cursor[s] = IF n = 0 THEN offsets[s] ELSE wire[s][n].next
    <3>1. n = 0 <=> wire[s] = <<>>
      BY <1>2, EmptySeq
    <3> QED
      BY <1>1, <2>0, <3>1 DEF ReadsOn
  <2>4. Chained(s)'
    <3> SUFFICES ASSUME NEW i \in 1..(n + 1)
                 PROVE  /\ wire'[s][i].from <= wire'[s][i].next
                        /\ wire'[s][i].rotated => wire'[s][i].from = 0
                        /\ ~wire'[s][i].rotated =>
                             wire'[s][i].from =
                               IF i = 1 THEN offsets[s] ELSE wire'[s][i - 1].next
      BY <1>1, <1>4 DEF Chained
    <3>1. CASE i = n + 1
      <4>1. n # 0 => wire'[s][i - 1] = wire[s][n]
        BY <1>4, <3>1
      <4>2. wire'[s][i] = frame /\ (i = 1 <=> n = 0)
        BY <1>4, <3>1
      <4> QED
        BY <2>3, <4>1, <4>2
    <3>2. CASE i # n + 1
      <4>1. i \in 1..n
        BY <1>4, <3>2
      <4>2. i # 1 => i - 1 \in 1..n
        BY <1>4, <4>1
      <4>3. wire'[s][i] = wire[s][i] /\ (i # 1 => wire'[s][i - 1] = wire[s][i - 1])
        BY <1>4, <4>1, <4>2
      <4> QED
        BY <2>0, <4>1, <4>3 DEF Chained
    <3> QED
      BY <3>1, <3>2
  <2>5. \A i \in 1..Len(wire'[s]) : i \in 1..n \/ wire'[s][i] = frame
    BY <1>4
  <2>6. Untouched(s)'
    BY <1>1, <1>4, <2>0, <2>1, <2>5 DEF Untouched
  <2>7. MergedOnly(s)'
    BY <1>1, <1>4, <2>0, <2>5 DEF MergedOnly
  <2> QED
    BY <2>2, <2>4, <2>6, <2>7
<1> QED
  BY <1>5, <1>6, <1>7, <1>8 DEF IInv

(* Sending a frame that prolongs the chain, or sending none when nothing   *)
(* changed, keeps the invariant.                                           *)
LEMMA PushPreserves ==
  ASSUME IInv, NEW s \in Streams, Serving(s), NEW frame \in Frame,
         NEW path \in PathKind, Push(s, frame, path),
         ~frame.merged,
         frame.from <= frame.next,
         frame.rotated => frame.from = 0,
         ~frame.rotated => frame.from = cursor[s],
         layout[s] # "own" \/ jobData[s] # "own" => frame.next = 0
  PROVE  IInv'
<1>1. scan' \in Seq(Streams) /\ look' = NoLook /\ logPaused' = logPaused
  BY HeadTailProperties DEF IInv, TypeOK, Serving, Push
<1>2. CASE UNCHANGED <<sentPath, cursor, wire>>
  <2>1. look' \in [taken : BOOLEAN, rotated : BOOLEAN, from : Nat]
    BY <1>1 DEF NoLook
  <2>2. LookIsCurrent' /\ logPaused' \in BOOLEAN
    BY <1>1 DEF LookIsCurrent, NoLook, IInv, TypeOK
  <2> QED
    BY <1>1, <1>2, <2>1, <2>2, NothingSent
<1>3. CASE /\ sentPath' = [sentPath EXCEPT ![s] = path]
           /\ cursor' = [cursor EXCEPT ![s] = frame.next]
           /\ wire' = [wire EXCEPT ![s] = Append(@, frame)]
  <2>1. sentPath' \in [Streams -> PathKind \cup {"unset"}]
    BY <1>3 DEF IInv, TypeOK
  <2>2. look' \in [taken : BOOLEAN, rotated : BOOLEAN, from : Nat] /\ ~look'.taken
    BY <1>1 DEF NoLook
  <2> QED
    BY <1>1, <1>3, <2>1, <2>2, FrameSent
<1> QED
  BY <1>2, <1>3 DEF Push

(* Every case of push_log() keeps the invariant.                           *)
LEMMA PushLogPreserves ==
  ASSUME IInv, NEW s \in Streams, PushLog(s)
  PROVE  IInv'
<1>1. /\ cursor \in [Streams -> Nat] /\ jobData \in [Streams -> PathKind]
      /\ look \in [taken : BOOLEAN, rotated : BOOLEAN, from : Nat]
      /\ scan \in Seq(Streams) /\ FileType /\ logPaused \in BOOLEAN
      /\ sentPath \in [Streams -> PathKind \cup {"unset"}]
  BY DEF IInv, TypeOK
<1>2. conn /\ jobData[s] # "own" => cursor[s] = 0
  BY DEF IInv, Untouched
<1>3. jobData[s] \in {"unknown", layout[s]}
  BY DEF IInv, KnownPaths, Unknown
<1>4. CASE PushMerged(s)
  <2> USE <1>4 DEF PushMerged
  <2>1. scan' \in Seq(Streams) /\ ~look.taken /\ layout[s] = "merged"
    BY <1>1, <1>3, HeadTailProperties DEF IInv, LookIsCurrent, Serving
  <2>2. CASE UNCHANGED <<sentPath, wire>>
    <3>1. LookIsCurrent'
      BY <2>1 DEF LookIsCurrent
    <3> QED
      BY <1>1, <2>1, <2>2, <3>1, NothingSent
  <2>3. CASE /\ sentPath' = [sentPath EXCEPT ![s] = "merged"]
             /\ wire' = [wire EXCEPT ![s] = Append(@, MergedFrame)]
    <3>1. /\ MergedFrame \in Frame /\ MergedFrame.next = 0
          /\ MergedFrame.from = 0 /\ ~MergedFrame.rotated
      BY DEF MergedFrame, LogFrame, Frame
    <3>2. cursor[s] = 0 /\ cursor' = [cursor EXCEPT ![s] = MergedFrame.next]
      BY <1>1, <1>2, <3>1 DEF Serving
    <3>3. sentPath' \in [Streams -> PathKind \cup {"unset"}]
      BY <1>1, <2>3 DEF PathKind
    <3>4. /\ Serving(s) /\ logPaused' = logPaused /\ ~look'.taken
          /\ look' \in [taken : BOOLEAN, rotated : BOOLEAN, from : Nat]
          /\ MergedFrame.from <= MergedFrame.next
      BY <1>1, <2>1, <3>1
    <3>5. wire' = [wire EXCEPT ![s] = Append(wire[s], MergedFrame)]
      BY <2>3
    <3> HIDE <1>4 DEF PushMerged
    <3> QED
      BY <1>1, <2>1, <3>1, <3>2, <3>3, <3>4, <3>5, FrameSent
  <2> QED
    BY <2>2, <2>3
<1>5. CASE PushUnknown(s)
  <2> DEFINE frame == LogFrame(0, 0, 0, FALSE)
  <2>1. /\ frame \in Frame /\ ~frame.merged /\ ~frame.rotated
        /\ frame.from = 0 /\ frame.next = 0
    BY DEF LogFrame, Frame
  <2>2. /\ Serving(s) /\ Push(s, frame, "unknown") /\ "unknown" \in PathKind
        /\ cursor[s] = 0
    BY <1>2, <1>5 DEF PushUnknown, Serving, PathKind
  <2> HIDE DEF frame
  <2> QED
    BY <2>1, <2>2, PushPreserves
<1>6. CASE PushRefused(s)
  <2>1. LookIsCurrent'
    BY <1>6 DEF PushRefused, IInv, LookIsCurrent, Serving
  <2> QED
    BY <1>1, <1>6, <2>1, EmptySeq, NothingSent DEF PushRefused
<1>7. CASE PushAbsent(s)
  <2> DEFINE frame == LogFrame(0, cursor[s], cursor[s], FALSE)
  <2>1. /\ frame \in Frame /\ ~frame.merged /\ ~frame.rotated
        /\ frame.from = cursor[s] /\ frame.next = cursor[s]
    BY <1>1 DEF LogFrame, Frame
  <2>2. /\ Serving(s) /\ Push(s, frame, "own") /\ "own" \in PathKind
        /\ jobData[s] = "own" /\ layout[s] = "own"
    BY <1>3, <1>7 DEF PushAbsent, PathKind
  <2> HIDE DEF frame
  <2> QED
    BY <1>1, <2>1, <2>2, PushPreserves
<1>8. CASE LookAt(s)
  <2>1. Size(s) \in Nat
    BY <1>1, <1>8, ReadProperties DEF LookAt
  <2>2. look' \in [taken : BOOLEAN, rotated : BOOLEAN, from : Nat]
    BY <1>1, <1>8, <2>1 DEF LookAt, Look
  <2>3. LookIsCurrent'
    BY <1>8 DEF LookAt, Look, LookIsCurrent, Serving, Exists, worldVars
  <2> QED
    BY <1>1, <1>8, <2>2, <2>3, NothingSent DEF LookAt
<1>9. CASE ReadOn(s)
  <2> DEFINE frame == LogFrame(Gen(s), look.from, ReadEnd(s, look.from), look.rotated)
  <2>1. /\ jobData[s] = "own" /\ layout[s] = "own" /\ Exists(s)
        /\ look.rotated => look.from = 0
        /\ ~look.rotated => look.from = cursor[s]
    BY <1>3, <1>9 DEF ReadOn, Serving, IInv, LookIsCurrent
  <2>2. /\ Gen(s) \in Nat /\ ReadEnd(s, look.from) \in Nat
        /\ look.from <= ReadEnd(s, look.from)
    BY <1>1, <2>1, ReadProperties
  <2>3. /\ frame \in Frame /\ ~frame.merged /\ frame.rotated = look.rotated
        /\ frame.from = look.from /\ frame.next = ReadEnd(s, look.from)
    BY <1>1, <2>2 DEF LogFrame, Frame
  <2>4. Serving(s) /\ Push(s, frame, "own") /\ "own" \in PathKind
    BY <1>9 DEF ReadOn, PathKind
  <2> HIDE DEF frame
  <2> QED
    BY <1>1, <2>1, <2>2, <2>3, <2>4, PushPreserves
<1> QED
  BY <1>4, <1>5, <1>6, <1>7, <1>8, <1>9 DEF PushLog

-----------------------------------------------------------------------------
(* The page receives a frame, or the user presses the button.              *)

Appended(held, gen, to) == held \o Chunk(gen, Len(held), to)

(* Appending the chunk of the next frame leaves the page with the bytes up *)
(* to the end of that frame, in order.                                     *)
LEMMA AppendedText ==
  ASSUME NEW held \in Seq(Byte), NEW gen \in Nat, NEW to \in Nat,
         \A i \in 1..Len(held) : held[i].pos = i,
         Len(held) <= to
  PROVE  /\ Appended(held, gen, to) \in Seq(Byte)
         /\ Len(Appended(held, gen, to)) = to
         /\ \A i \in 1..to : Appended(held, gen, to)[i].pos = i
<1> DEFINE all == Appended(held, gen, to)
           n == Len(held)
           more == Chunk(gen, n, to)
<1>1. n \in Nat
  BY LenProperties
<1>2. /\ more \in Seq(Byte) /\ Len(more) = to - n
      /\ \A i \in 1..(to - n) : more[i].pos = n + i
  BY <1>1, ChunkProperties
<1>3. all = held \o more
  BY DEF Appended
<1> HIDE DEF all, n, more
<1>5. /\ all \in Seq(Byte) /\ Len(all) = to
      /\ \A i \in 1..to : all[i] = IF i <= n THEN held[i] ELSE more[i - n]
  BY <1>1, <1>2, <1>3, ConcatProperties DEF n
<1>4. ASSUME NEW i \in 1..to PROVE all[i].pos = i
  <2>1. CASE i <= n
    <3>1. all[i] = held[i]
      BY <1>5, <2>1
    <3>2. i \in 1..n
      BY <1>1, <1>5, <2>1
    <3> QED
      BY <3>1, <3>2 DEF n
  <2>2. CASE i > n
    <3>1. i - n \in 1..(to - n) /\ all[i] = more[i - n]
      BY <1>1, <1>5, <2>2
    <3> QED
      BY <1>1, <1>2, <1>5, <3>1
  <2> QED
    BY <1>1, <1>5, <2>1, <2>2
<1> QED
  BY <1>4, <1>5 DEF all

(* Receiving the first frame of a stream keeps the text gapless and moves  *)
(* the chain to the new offset.                                            *)
LEMMA ReceivePreserves ==
  ASSUME IInv, NEW s \in Streams, Receive(s)
  PROVE  IInv'
<1> DEFINE frame == Head(wire[s])
           kept  == IF frame.rotated THEN <<>> ELSE text[s]
<1>1. /\ conn /\ wire[s] # <<>> /\ wire' = [wire EXCEPT ![s] = Tail(wire[s])]
      /\ UNCHANGED <<file, layout, conn, drops, control, paused>>
      /\ UNCHANGED <<subscribed, logPaused, jobData, cursor, sentPath, scan, look>>
  BY DEF Receive, worldVars, sessionVars
<1>2. /\ wire \in [Streams -> Seq(Frame)] /\ wire[s] \in Seq(Frame)
      /\ offsets \in [Streams -> Nat] /\ text \in [Streams -> Seq(Byte)]
  BY DEF IInv, TypeOK
<1>3. /\ frame \in Frame /\ frame = wire[s][1] /\ 1 \in 1..Len(wire[s])
      /\ Len(wire[s]) \in Nat \ {0}
  BY <1>1, <1>2, EmptySeq, HeadTailProperties
<1>4. /\ wire'[s] = Tail(wire[s]) /\ wire'[s] \in Seq(Frame)
      /\ Len(wire'[s]) = Len(wire[s]) - 1
      /\ \A i \in 1..Len(wire'[s]) : wire'[s][i] = wire[s][i + 1]
  BY <1>1, <1>2, HeadTailProperties
<1>5. Chained(s) /\ ReadsOn(s) /\ Untouched(s) /\ MergedOnly(s)
  BY DEF IInv
<1>6. /\ Len(text[s]) = offsets[s]
      /\ \A i \in 1..Len(text[s]) : text[s][i].pos = i
  BY DEF IInv, Lossless
<1>7. /\ frame.from <= frame.next /\ frame.from \in Nat /\ frame.next \in Nat
      /\ frame.gen \in Nat /\ frame.merged \in BOOLEAN
      /\ frame.from = IF frame.rotated THEN 0 ELSE offsets[s]
      /\ frame.merged => layout[s] = "merged"
  BY <1>3, <1>5 DEF Chained, MergedOnly, Frame
<1> HIDE DEF frame
<1>8. /\ kept \in Seq(Byte) /\ Len(kept) = frame.from
      /\ \A i \in 1..Len(kept) : kept[i].pos = i
  BY <1>2, <1>6, <1>7, EmptySeq
<1> HIDE DEF kept
<1>9. /\ offsets' = [offsets EXCEPT ![s] = frame.next]
      /\ text' \in [Streams -> Seq(Byte)] /\ merged' \in BOOLEAN
      /\ Lossless'
  <2>1. CASE frame.merged
    <3>1. offsets[s] = 0 /\ frame.next = 0
      BY <1>3, <1>5, <1>7, <2>1 DEF Untouched
    <3>2. merged' = TRUE /\ UNCHANGED <<offsets, text>>
      BY <2>1 DEF Receive, frame
    <3> QED
      BY <1>2, <3>1, <3>2 DEF IInv, Lossless
  <2>2. CASE ~frame.merged
    <3> DEFINE all == kept \o Chunk(frame.gen, frame.from, frame.next)
    <3>1. /\ offsets' = [offsets EXCEPT ![s] = frame.next]
          /\ text' = [text EXCEPT ![s] = all] /\ UNCHANGED merged
      BY <2>2 DEF Receive, NextOffset, frame, kept
    <3>2. /\ all \in Seq(Byte) /\ Len(all) = frame.next
          /\ \A i \in 1..Len(all) : all[i].pos = i
      <4>1. all = Appended(kept, frame.gen, frame.next)
        BY <1>8 DEF Appended
      <4>2. Len(kept) <= frame.next
        BY <1>7, <1>8
      <4> HIDE DEF all
      <4> QED
        <5>1. /\ Appended(kept, frame.gen, frame.next) \in Seq(Byte)
              /\ Len(Appended(kept, frame.gen, frame.next)) = frame.next
              /\ \A i \in 1..frame.next :
                   Appended(kept, frame.gen, frame.next)[i].pos = i
          BY <1>7, <1>8, <4>2, AppendedText
        <5> QED
          BY <4>1, <5>1
    <3> HIDE DEF all
    <3>3. text' \in [Streams -> Seq(Byte)] /\ merged' \in BOOLEAN
      BY <1>2, <3>1, <3>2 DEF IInv, TypeOK
    <3>4. Lossless'
      BY <1>2, <3>1, <3>2 DEF IInv, Lossless
    <3> QED
      BY <3>1, <3>3, <3>4
  <2> QED
    BY <1>7, <2>1, <2>2
<1>10. TypeOK'
  <2>1. wire' \in [Streams -> Seq(Frame)] /\ offsets' \in [Streams -> Nat]
    BY <1>1, <1>2, <1>4, <1>7, <1>9
  <2> QED
    BY <1>1, <1>9, <2>1 DEF IInv, TypeOK, FileType
<1>11. Handshake' /\ KnownPaths' /\ LookIsCurrent'
  <2>1. subscribed /\ wire # Empty
    BY <1>1 DEF IInv, Handshake, Empty
  <2>2. \A i \in 1..Len(control) : control[i].type # "subscribe"
    BY <2>1 DEF IInv, Handshake
  <2> QED
    BY <1>1, <2>1, <2>2 DEF IInv, Handshake, KnownPaths, LookIsCurrent, Exists
<1>12. ASSUME NEW r \in Streams, r # s
       PROVE  (Chained(r) /\ ReadsOn(r) /\ Untouched(r) /\ MergedOnly(r))'
  <2>1. wire'[r] = wire[r] /\ offsets'[r] = offsets[r]
    BY <1>1, <1>2, <1>9, <1>12
  <2>2. Chained(r) /\ ReadsOn(r) /\ Untouched(r) /\ MergedOnly(r)
    BY DEF IInv
  <2> QED
    BY <1>1, <2>1, <2>2 DEF Chained, ReadsOn, Untouched, MergedOnly
<1>13. (Chained(s) /\ ReadsOn(s) /\ Untouched(s) /\ MergedOnly(s))'
  <2>1. offsets'[s] = frame.next
    BY <1>2, <1>9
  <2>2. \A i \in 1..Len(wire'[s]) : i + 1 \in 1..Len(wire[s]) /\ i + 1 # 1
    BY <1>3, <1>4
  <2>3. Chained(s)'
    <3> SUFFICES ASSUME NEW i \in 1..Len(wire'[s])
                 PROVE  /\ wire'[s][i].from <= wire'[s][i].next
                        /\ wire'[s][i].rotated => wire'[s][i].from = 0
                        /\ ~wire'[s][i].rotated =>
                             wire'[s][i].from =
                               IF i = 1 THEN offsets'[s] ELSE wire'[s][i - 1].next
      BY DEF Chained
    <3>1. wire'[s][i] = wire[s][i + 1] /\ (i + 1) - 1 = i
      BY <1>4
    <3>2. wire[s][i].next = IF i = 1 THEN offsets'[s] ELSE wire'[s][i - 1].next
      BY <1>3, <1>4, <2>1
    <3>3. i \in Nat /\ i + 1 \in 1..Len(wire[s]) /\ i + 1 # 1
      BY <1>4, <2>2
    <3>4. /\ wire[s][i + 1].from <= wire[s][i + 1].next
          /\ wire[s][i + 1].rotated => wire[s][i + 1].from = 0
          /\ ~wire[s][i + 1].rotated =>
               wire[s][i + 1].from = wire[s][i].next
      BY <1>5, <3>1, <3>3 DEF Chained
    <3> QED
      BY <3>1, <3>2, <3>4
  <2>4. ReadsOn(s)'
    <3>1. CASE wire'[s] = <<>>
      <4>1. Len(wire'[s]) = 0
        BY <3>1, EmptySeq
      <4>2. Len(wire[s]) = 1 /\ wire[s][Len(wire[s])] = frame
        BY <1>3, <1>4, <4>1
      <4>3. subscribed => cursor[s] = frame.next
        BY <1>1, <1>5, <4>2 DEF ReadsOn
      <4> QED
        BY <1>1, <2>1, <3>1, <4>3 DEF ReadsOn
    <3>2. CASE wire'[s] # <<>>
      <4>1. Len(wire'[s]) \in 1..Len(wire'[s])
        BY <1>4, <3>2, EmptySeq
      <4> QED
        BY <1>1, <1>3, <1>4, <1>5, <3>2, <4>1 DEF ReadsOn
    <3> QED
      BY <3>1, <3>2
  <2>5. Untouched(s)'
    BY <1>1, <1>3, <1>4, <1>5, <2>1, <2>2 DEF Untouched
  <2>6. MergedOnly(s)'
    BY <1>1, <1>4, <1>5, <2>2 DEF MergedOnly
  <2> QED
    BY <2>3, <2>4, <2>5, <2>6
<1> QED
  BY <1>9, <1>10, <1>11, <1>12, <1>13 DEF IInv

(* The pause button adds a control frame that is not a subscription.       *)
LEMMA TogglePausePreserves ==
  ASSUME IInv, TogglePause
  PROVE  IInv'
<1> USE DEF TogglePause, worldVars, sessionVars
<1> DEFINE frame == [type |-> IF paused THEN "resume" ELSE "pause"]
<1>1. /\ control \in Seq(ControlFrame) /\ frame \in ControlFrame
      /\ frame.type # "subscribe"
  BY DEF IInv, TypeOK, ControlFrame
<1> HIDE DEF frame
<1>2. /\ control' \in Seq(ControlFrame)
      /\ control # <<>> => control' # <<>>
      /\ ~conn => control' = control
      /\ \A i \in 1..Len(control') :
           \/ i \in 1..Len(control) /\ control'[i] = control[i]
           \/ /\ control'[i] = frame /\ conn /\ i = Len(control) + 1
  <2>1. CASE ~conn
    BY <1>1, <2>1
  <2>2. CASE conn
    <3>1. control' = Append(control, frame)
      BY <2>2 DEF frame
    <3>4. Len(control) \in Nat
      BY <1>1, LenProperties
    <3>2. /\ Append(control, frame) \in Seq(ControlFrame)
          /\ Append(control, frame) # <<>>
          /\ Len(Append(control, frame)) = Len(control) + 1
          /\ \A i \in 1..Len(control) : Append(control, frame)[i] = control[i]
          /\ Append(control, frame)[Len(control) + 1] = frame
      BY <1>1, AppendProperties
    <3>3. \A i \in 1..(Len(control) + 1) : i \in 1..Len(control) \/ i = Len(control) + 1
      BY <3>4
    <3> QED
      BY <2>2, <3>1, <3>2, <3>3
  <2> QED
    BY <2>1, <2>2
<1>3. TypeOK'
  BY <1>2 DEF IInv, TypeOK, FileType
<1>4. Lossless' /\ KnownPaths' /\ LookIsCurrent'
  BY DEF IInv, Lossless, KnownPaths, LookIsCurrent, Exists
<1>5. Handshake'
  <2>1. ASSUME NEW i \in 1..Len(control')
        PROVE  /\ control'[i].type = "subscribe" <=> i = 1 /\ ~subscribed
               /\ control'[i].type = "subscribe" => control'[i].offsets = offsets
    <3>1. CASE i \in 1..Len(control) /\ control'[i] = control[i]
      BY <3>1 DEF IInv, Handshake
    <3>2. CASE control'[i] = frame /\ conn /\ i = Len(control) + 1
      <4>1. ~subscribed => Len(control) # 0
        BY <1>1, <3>2, EmptySeq DEF IInv, Handshake
      <4> QED
        BY <1>1, <3>2, <4>1
    <3> QED
      BY <1>2, <3>1, <3>2
  <2> QED
    BY <1>2, <2>1 DEF IInv, Handshake
<1>6. \A s \in Streams :
        (Chained(s) /\ ReadsOn(s) /\ Untouched(s) /\ MergedOnly(s))'
  BY DEF IInv, Chained, ReadsOn, Untouched, MergedOnly
<1> QED
  BY <1>3, <1>4, <1>5, <1>6 DEF IInv

-----------------------------------------------------------------------------
(* The theorems.                                                           *)

(* Every step of the log channel preserves the invariant.                  *)
LEMMA StepPreserves == IInv /\ [Next]_vars => IInv'
<1> SUFFICES ASSUME IInv, [Next]_vars PROVE IInv'
  OBVIOUS
<1>1. CASE LearnPaths
  BY <1>1, LearnPathsPreserves
<1>2. CASE Produce
  BY <1>2, ProducePreserves
<1>3. CASE Connect
  BY <1>3, ConnectPreserves
<1>4. CASE Disconnect
  BY <1>4, DisconnectPreserves
<1>5. CASE \E due \in BOOLEAN : Turn(due)
  BY <1>5, TurnPreserves
<1>6. CASE \E s \in Streams : PushLog(s)
  BY <1>6, PushLogPreserves
<1>7. CASE \E s \in Streams : Receive(s)
  BY <1>7, ReceivePreserves
<1>8. CASE TogglePause
  BY <1>8, TogglePausePreserves
<1>9. CASE UNCHANGED vars
  <2> USE <1>9 DEF vars, worldVars, linkVars, sessionVars, pageVars
  <2>1. TypeOK' /\ Lossless' /\ Handshake' /\ KnownPaths' /\ LookIsCurrent'
    BY DEF IInv, TypeOK, FileType, Lossless, Handshake, KnownPaths,
           LookIsCurrent, Exists
  <2>2. \A s \in Streams :
          (Chained(s) /\ ReadsOn(s) /\ Untouched(s) /\ MergedOnly(s))'
    BY DEF IInv, Chained, ReadsOn, Untouched, MergedOnly
  <2> QED
    BY <2>1, <2>2 DEF IInv
<1> QED
  BY <1>1, <1>2, <1>3, <1>4, <1>5, <1>6, <1>7, <1>8, <1>9 DEF Next

(* IInv holds in every state of every run of the log channel.              *)
THEOREM Invariant == Spec => []IInv
<1>1. Init => IInv
  BY InitInvariant
<1>2. IInv /\ [Next]_vars => IInv'
  BY StepPreserves
<1> QED
  BY <1>1, <1>2, PTL DEF Spec

(* Every variable of the session, the link and the page keeps its type: no *)
(* offset ever goes below zero, whatever the files and the network did.    *)
THEOREM TypeCorrect == Spec => []TypeOK
<1>1. IInv => TypeOK
  BY DEF IInv
<1> QED
  BY <1>1, Invariant, PTL

(* appendLog() loses no byte of an output, repeats none and reorders none, *)
(* across any number of reconnects.                                        *)
THEOREM LosslessAlways == Spec => []Lossless
<1>1. IInv => Lossless
  BY DEF IInv
<1> QED
  BY <1>1, Invariant, PTL

(* log_streams and the page's offsets never disagree on where the next     *)
(* byte of a stream is.                                                    *)
THEOREM CursorsAlwaysAgree == Spec => []CursorsAgree
<1>1. IInv => CursorsAgree
  <2> SUFFICES ASSUME IInv, NEW s \in Streams, subscribed
               PROVE  cursor[s] = IF wire[s] = <<>> \/ wire[s][Len(wire[s])].merged
                                  THEN offsets[s] ELSE wire[s][Len(wire[s])].next
    BY DEF CursorsAgree
  <2>1. ReadsOn(s) /\ Untouched(s) /\ MergedOnly(s) /\ wire[s] \in Seq(Frame)
    BY DEF IInv, TypeOK
  <2>2. CASE wire[s] # <<>> /\ wire[s][Len(wire[s])].merged
    <3>1. Len(wire[s]) \in 1..Len(wire[s])
      BY <2>1, <2>2, EmptySeq
    <3>2. layout[s] = "merged"
      BY <2>1, <2>2, <3>1 DEF MergedOnly
    <3>3. offsets[s] = 0 /\ cursor[s] = 0
      BY <2>1, <3>2 DEF Untouched
    <3> QED
      BY <2>2, <3>3
  <2>3. CASE wire[s] = <<>> \/ ~wire[s][Len(wire[s])].merged
    BY <2>1, <2>3 DEF ReadsOn
  <2> QED
    BY <2>2, <2>3
<1> QED
  BY <1>1, Invariant, PTL

-----------------------------------------------------------------------------
(* The channel implements LogDelivery.  What the page is about to show is  *)
(* in the frames in flight: they have to come from the file, in the order  *)
(* of its generations.                                                     *)

(* A frame that changes what the page shows.                               *)
Carries(f) == f.rotated \/ f.from < f.next

Sourced(s) ==
  \A i \in 1..Len(wire[s]) :
    Carries(wire[s][i]) => /\ wire[s][i].gen \in 1..Gen(s)
                           /\ wire[s][i].next <= file[s][wire[s][i].gen]

(* Bytes of generation g may be followed by the frame.                     *)
Succeeds(f, g) == g <= f.gen /\ (f.rotated => g < f.gen)

InOrder(s) ==
  \A j \in 1..Len(wire[s]) : Carries(wire[s][j]) =>
    /\ \A p \in 1..Len(text[s]) : Succeeds(wire[s][j], text[s][p].gen)
    /\ \A i \in 1..(j - 1) : Carries(wire[s][i]) => Succeeds(wire[s][j], wire[s][i].gen)

(* The generations the page has bytes of, or will have.                    *)
Gens(s) ==
  {text[s][p].gen : p \in 1..Len(text[s])}
    \cup {wire[s][i].gen : i \in {j \in 1..Len(wire[s]) : Carries(wire[s][j])}}

(* The session is not past the end of the file if it has read any of it:   *)
(* when it is, the file was started over since.                            *)
Reaches(s) == Gen(s) \in Gens(s) => cursor[s] <= Size(s)

LookIsNewer ==
  look.taken /\ look.rotated => \A g \in Gens(Head(scan)) : g < Gen(Head(scan))

DInv ==
  /\ IInv
  /\ LookIsNewer
  /\ \A s \in Streams : /\ Delivery!Faithful(file[s], text[s])
                        /\ Sourced(s) /\ InOrder(s) /\ Reaches(s)

(* The page has no byte of a generation the file did not reach.            *)
LEMMA GensKnown ==
  ASSUME DInv, NEW s \in Streams
  PROVE  \A g \in Gens(s) : g \in 1..Gen(s) /\ g \in Nat
<1>1. file[s] \in Seq(Nat) /\ text[s] \in Seq(Byte)
  BY DEF DInv, IInv, TypeOK, FileType
<1>2. DOMAIN file[s] = 1..Gen(s) /\ DOMAIN text[s] = 1..Len(text[s]) /\ Gen(s) \in Nat
  BY <1>1 DEF Gen
<1>3. \A p \in 1..Len(text[s]) : text[s][p].gen \in 1..Gen(s)
  BY <1>2 DEF DInv, Delivery!Faithful
<1>4. \A i \in 1..Len(wire[s]) : Carries(wire[s][i]) => wire[s][i].gen \in 1..Gen(s)
  BY DEF DInv, Sourced
<1> QED
  BY <1>2, <1>3, <1>4 DEF Gens

(* What is said of a stream stays while nothing of it moves.               *)
LEMMA StreamStays ==
  ASSUME NEW s \in Streams, file' = file, text'[s] = text[s], wire'[s] = wire[s]
  PROVE  /\ Delivery!Faithful(file[s], text[s])' <=> Delivery!Faithful(file[s], text[s])
         /\ Sourced(s)' <=> Sourced(s)
         /\ InOrder(s)' <=> InOrder(s)
         /\ Gens(s)' = Gens(s)
         /\ Gen(s)' = Gen(s) /\ Size(s)' = Size(s)
  BY DEF Delivery!Faithful, Sourced, InOrder, Gens, Gen, Size

(* Before anything is written, nothing is shown.                           *)
LEMMA InitDelivers == Init => DInv
<1> SUFFICES ASSUME Init PROVE DInv
  OBVIOUS
<1>1. IInv
  BY InitInvariant
<1>2. LookIsNewer
  BY DEF Init, NoLook, LookIsNewer
<1>3. ASSUME NEW s \in Streams
      PROVE  /\ Delivery!Faithful(file[s], text[s])
             /\ Sourced(s) /\ InOrder(s) /\ Reaches(s)
  <2>1. text[s] = <<>> /\ wire[s] = <<>> /\ Len(wire[s]) = 0 /\ Len(text[s]) = 0
    BY EmptySeq DEF Init, Empty
  <2>2. Gens(s) = {}
    BY <2>1 DEF Gens
  <2> QED
    BY <2>1, <2>2 DEF Delivery!Faithful, Sourced, InOrder, Reaches
<1> QED
  BY <1>1, <1>2, <1>3 DEF DInv

(* A session may start reading from where the page is, or from the start.  *)
LEMMA QuietDelivers ==
  ASSUME DInv, IInv', UNCHANGED <<file, text, wire>>,
         (look' = look /\ scan' = scan) \/ ~look'.taken,
         \/ cursor' = cursor
         \/ cursor' = Zero
         \/ cursor' = offsets /\ wire = Empty
  PROVE  DInv'
<1>1. LookIsNewer'
  <2>1. CASE ~look'.taken
    BY <2>1 DEF LookIsNewer
  <2>2. CASE look' = look /\ scan' = scan
    BY <2>2 DEF DInv, LookIsNewer, Gens, Gen
  <2> QED
    BY <2>1, <2>2
<1>2. ASSUME NEW s \in Streams
      PROVE  /\ Delivery!Faithful(file[s], text[s])'
             /\ Sourced(s)' /\ InOrder(s)' /\ Reaches(s)'
  <2>1. /\ Delivery!Faithful(file[s], text[s])' /\ Sourced(s)' /\ InOrder(s)'
        /\ Gens(s)' = Gens(s) /\ Gen(s)' = Gen(s) /\ Size(s)' = Size(s)
    BY StreamStays DEF DInv
  <2>2. CASE cursor' = cursor
    BY <2>1, <2>2 DEF DInv, Reaches
  <2>3. ASSUME Gen(s) \in Gens(s) PROVE Size(s) \in Nat
    <3>1. file[s] \in Seq(Nat) /\ Gen(s) \in 1..Gen(s)
      BY <2>3, GensKnown DEF DInv, IInv, TypeOK, FileType
    <3> QED
      BY <3>1 DEF Size, Gen
  <2>4. CASE cursor' = Zero
    BY <2>1, <2>3, <2>4 DEF Reaches, Zero
  <2>5. CASE cursor' = offsets /\ wire = Empty
    <3> SUFFICES ASSUME Gen(s) \in Gens(s) PROVE offsets[s] <= Size(s)
      BY <2>1, <2>5 DEF Reaches
    <3>1. Len(wire[s]) = 0
      BY <2>5, EmptySeq DEF Empty
    <3>2. PICK p \in 1..Len(text[s]) : text[s][p].gen = Gen(s)
      BY <3>1 DEF Gens
    <3> DEFINE n == Len(text[s])
    <3>3. n \in 1..n /\ p \in 1..n /\ DOMAIN text[s] = 1..n /\ n = offsets[s]
      BY <3>2 DEF DInv, IInv, TypeOK, Lossless
    <3>4. text[s][p].gen <= text[s][n].gen /\ n <= file[s][text[s][n].gen]
      BY <3>3 DEF DInv, Delivery!Faithful
    <3>5. text[s][n].gen \in Gens(s)
      BY <3>3 DEF Gens
    <3>6. text[s][n].gen \in 1..Gen(s) /\ Gen(s) \in Nat
      BY <3>5, GensKnown
    <3>7. text[s][n].gen = Gen(s)
      BY <3>2, <3>4, <3>6
    <3> QED
      BY <3>3, <3>4, <3>7 DEF Size
  <2> QED
    BY <2>1, <2>2, <2>4, <2>5
<1> QED
  BY <1>1, <1>2 DEF DInv

(* A lost connection loses frames, not the order of the others.            *)
LEMMA LossDelivers ==
  ASSUME DInv, IInv', Disconnect
  PROVE  DInv'
<1>1. /\ UNCHANGED <<file, text>> /\ wire' = Empty /\ cursor' = Zero /\ ~look'.taken
  BY DEF Disconnect, NewSession, worldVars, pageVars, NoLook
<1>2. LookIsNewer'
  BY <1>1 DEF LookIsNewer
<1>3. ASSUME NEW s \in Streams
      PROVE  /\ Delivery!Faithful(file[s], text[s])'
             /\ Sourced(s)' /\ InOrder(s)' /\ Reaches(s)'
  <2>1. wire'[s] = <<>> /\ Len(wire'[s]) = 0
    BY <1>1, EmptySeq DEF Empty
  <2>2. Delivery!Faithful(file[s], text[s])'
    BY <1>1 DEF DInv, Delivery!Faithful
  <2>3. Sourced(s)' /\ InOrder(s)'
    BY <2>1 DEF Sourced, InOrder
  <2>4. Reaches(s)'
    <3> SUFFICES ASSUME Gen(s)' \in Gens(s)' PROVE cursor'[s] <= Size(s)'
      BY DEF Reaches
    <3>1. Gens(s)' \subseteq Gens(s) /\ Gen(s)' = Gen(s) /\ Size(s)' = Size(s)
      BY <1>1, <2>1 DEF Gens, Gen, Size
    <3>2. file[s] \in Seq(Nat) /\ Gen(s) \in 1..Gen(s)
      BY <3>1, GensKnown DEF DInv, IInv, TypeOK, FileType
    <3> QED
      BY <1>1, <3>1, <3>2 DEF Size, Gen, Zero
  <2> QED
    BY <2>2, <2>3, <2>4
<1> QED
  BY <1>2, <1>3 DEF DInv

(* A frame sent is of the file as it is, after all that was sent before.   *)
LEMMA FrameDelivers ==
  ASSUME DInv, IInv', NEW s \in Streams, NEW frame \in Frame,
         UNCHANGED <<file, text>>, ~look'.taken,
         wire' = [wire EXCEPT ![s] = Append(wire[s], frame)],
         cursor' = [cursor EXCEPT ![s] = frame.next],
         ~Carries(frame) => frame.next = cursor[s],
         Carries(frame) =>
           /\ Exists(s) /\ frame.gen = Gen(s) /\ frame.next <= Size(s)
           /\ frame.rotated => \A g \in Gens(s) : g < Gen(s)
  PROVE  DInv'
<1>1. LookIsNewer'
  BY DEF LookIsNewer
<1>2. /\ wire \in [Streams -> Seq(Frame)] /\ wire[s] \in Seq(Frame)
      /\ cursor \in [Streams -> Nat] /\ file[s] \in Seq(Nat)
  BY DEF DInv, IInv, TypeOK, FileType
<1> DEFINE n == Len(wire[s])
<1>3. /\ n \in Nat /\ Len(wire'[s]) = n + 1
      /\ \A i \in 1..n : wire'[s][i] = wire[s][i]
      /\ wire'[s][n + 1] = frame
      /\ \A i \in 1..(n + 1) : i \in 1..n \/ i = n + 1
  BY <1>2, AppendProperties, LenProperties
<1>4. ASSUME NEW r \in Streams, r # s
      PROVE  /\ Delivery!Faithful(file[r], text[r])'
             /\ Sourced(r)' /\ InOrder(r)' /\ Reaches(r)'
  <2>1. wire'[r] = wire[r] /\ cursor'[r] = cursor[r]
    BY <1>2, <1>4
  <2> QED
    BY <2>1, StreamStays DEF DInv, Reaches
<1>5. Delivery!Faithful(file[s], text[s])'
  BY DEF DInv, Delivery!Faithful
<1>6. Carries(frame) => Gen(s) \in 1..Gen(s) /\ Size(s) = file[s][Gen(s)]
  BY <1>2, EmptySeq DEF Exists, Gen, Size
<1>7. Sourced(s) /\ InOrder(s) /\ Reaches(s)
  BY DEF DInv
<1> HIDE DEF n
<1>8. Sourced(s)'
  <2> SUFFICES ASSUME NEW i \in 1..(n + 1), Carries(wire'[s][i])
               PROVE  /\ wire'[s][i].gen \in 1..Gen(s)
                      /\ wire'[s][i].next <= file[s][wire'[s][i].gen]
    BY <1>3 DEF Sourced, Carries, Gen
  <2>1. CASE i \in 1..n
    BY <1>3, <1>7, <2>1 DEF Sourced, n
  <2>2. CASE i = n + 1
    BY <1>3, <1>6, <2>2
  <2> QED
    BY <1>3, <2>1, <2>2
<1>9. \A g \in Gens(s) : Carries(frame) => Succeeds(frame, g)
  BY GensKnown DEF Succeeds
<1>10. InOrder(s)'
  <2> SUFFICES ASSUME NEW j \in 1..(n + 1), Carries(wire'[s][j])
               PROVE  /\ \A p \in 1..Len(text[s]) : Succeeds(wire'[s][j], text[s][p].gen)
                      /\ \A i \in 1..(j - 1) :
                           Carries(wire'[s][i]) => Succeeds(wire'[s][j], wire'[s][i].gen)
    BY <1>3 DEF InOrder, Carries, Succeeds
  <2>1. CASE j \in 1..n
    <3>1. \A i \in 1..(j - 1) : i \in 1..n
      BY <1>3, <2>1
    <3> QED
      BY <1>3, <1>7, <2>1, <3>1 DEF InOrder, n
  <2>2. CASE j = n + 1
    <3>1. \A i \in 1..(j - 1) : i \in 1..n /\ wire'[s][i] = wire[s][i]
      BY <1>3, <2>2
    <3>2. \A p \in 1..Len(text[s]) : text[s][p].gen \in Gens(s)
      BY DEF Gens
    <3>3. \A i \in 1..n : Carries(wire[s][i]) => wire[s][i].gen \in Gens(s)
      BY DEF Gens, n
    <3> QED
      BY <1>3, <1>9, <2>2, <3>1, <3>2, <3>3
  <2> QED
    BY <1>3, <2>1, <2>2
<1>11. Reaches(s)'
  <2> SUFFICES ASSUME Gen(s) \in Gens(s)' PROVE frame.next <= Size(s)
    BY <1>2 DEF Reaches, Gen, Size
  <2>1. CASE Carries(frame)
    BY <2>1
  <2>2. CASE ~Carries(frame)
    <3>1. Gens(s)' \subseteq Gens(s)
      BY <1>3, <2>2 DEF Gens, n, Carries
    <3> QED
      BY <1>7, <2>2, <3>1 DEF Reaches
  <2> QED
    BY <2>1, <2>2
<1> QED
  BY <1>1, <1>4, <1>5, <1>8, <1>10, <1>11 DEF DInv

(* push_log() sends what the file holds, or tells that it started over.    *)
LEMMA PushLogDelivers ==
  ASSUME DInv, IInv', NEW s \in Streams, PushLog(s)
  PROVE  DInv'
<1>1. /\ cursor \in [Streams -> Nat] /\ FileType
      /\ look \in [taken : BOOLEAN, rotated : BOOLEAN, from : Nat]
      /\ conn /\ UNCHANGED <<file, text>>
      /\ jobData[s] # "own" => ~look.taken /\ cursor[s] = 0
  BY DEF DInv, IInv, TypeOK, LookIsCurrent, Untouched, PushLog, PushMerged, PushUnknown,
         PushRefused, PushAbsent, LookAt, ReadOn, Serving, worldVars, pageVars
<1>2. CASE PushMerged(s)
  <2>1. ~look'.taken /\ cursor' = cursor
    BY <1>1, <1>2 DEF PushMerged
  <2>2. CASE wire' = wire
    BY <1>1, <2>1, <2>2, QuietDelivers
  <2>3. CASE wire' = [wire EXCEPT ![s] = Append(@, MergedFrame)]
    <3>0. /\ MergedFrame \in Frame /\ MergedFrame.next = 0
          /\ MergedFrame.from = 0 /\ ~MergedFrame.rotated
      BY DEF MergedFrame, LogFrame, Frame
    <3>1. MergedFrame \in Frame /\ MergedFrame.next = 0 /\ ~Carries(MergedFrame)
      BY <3>0 DEF Carries
    <3>2. cursor[s] = 0 /\ cursor' = [cursor EXCEPT ![s] = MergedFrame.next]
      BY <1>1, <1>2, <2>1, <3>1 DEF PushMerged
    <3>3. wire' = [wire EXCEPT ![s] = Append(wire[s], MergedFrame)]
      BY <2>3
    <3> QED
      BY <1>1, <2>1, <3>1, <3>2, <3>3, FrameDelivers
  <2> QED
    BY <1>2, <2>2, <2>3 DEF PushMerged
<1>3. ASSUME NEW frame \in Frame, NEW path, Push(s, frame, path),
             ~Carries(frame) => frame.next = cursor[s],
             Carries(frame) =>
               /\ Exists(s) /\ frame.gen = Gen(s) /\ frame.next <= Size(s)
               /\ frame.rotated => \A g \in Gens(s) : g < Gen(s)
      PROVE  DInv'
  <2>1. ~look'.taken
    BY <1>3 DEF Push, NoLook
  <2>2. CASE UNCHANGED <<cursor, wire>>
    BY <1>1, <2>1, <2>2, QuietDelivers
  <2>3. CASE /\ cursor' = [cursor EXCEPT ![s] = frame.next]
             /\ wire' = [wire EXCEPT ![s] = Append(wire[s], frame)]
    BY <1>1, <1>3, <2>1, <2>3, FrameDelivers
  <2> QED
    BY <1>3, <2>2, <2>3 DEF Push
<1>4. CASE PushUnknown(s)
  <2>1. /\ LogFrame(0, 0, 0, FALSE) \in Frame /\ ~Carries(LogFrame(0, 0, 0, FALSE))
        /\ LogFrame(0, 0, 0, FALSE).next = 0
    BY DEF LogFrame, Frame, Carries
  <2> QED
    BY <1>1, <1>3, <1>4, <2>1 DEF PushUnknown
<1>5. CASE PushRefused(s)
  <2>1. ~look'.taken
    BY <1>1, <1>5 DEF PushRefused
  <2> QED
    BY <1>1, <1>5, <2>1, QuietDelivers DEF PushRefused
<1>6. CASE PushAbsent(s)
  <2> DEFINE frame == LogFrame(0, cursor[s], cursor[s], FALSE)
  <2>1. frame \in Frame /\ ~Carries(frame) /\ frame.next = cursor[s]
    BY <1>1 DEF LogFrame, Frame, Carries
  <2>2. Push(s, frame, "own")
    BY <1>6 DEF PushAbsent
  <2> HIDE DEF frame
  <2> QED
    BY <1>3, <2>1, <2>2
<1>7. CASE LookAt(s)
  <2>1. /\ UNCHANGED <<cursor, scan, wire>> /\ look' = Look(s, cursor[s])
        /\ Exists(s) /\ Head(scan) = s
    BY <1>7 DEF LookAt, Serving
  <2>2. Gen(s) \in Nat /\ Size(s) \in Nat
    BY <1>1, <2>1, ReadProperties
  <2>3. LookIsNewer'
    <3> SUFFICES ASSUME look'.rotated, NEW g \in Gens(s) PROVE g < Gen(s)
      BY <1>1, <2>1, StreamStays DEF LookIsNewer
    <3>1. cursor[s] > Size(s)
      BY <2>1 DEF Look
    <3>2. g # Gen(s)
      BY <1>1, <2>2, <3>1 DEF DInv, Reaches
    <3> QED
      BY <2>2, <3>2, GensKnown
  <2> QED
    BY <1>1, <2>1, <2>3, StreamStays DEF DInv, Reaches
<1>8. CASE ReadOn(s)
  <2> DEFINE frame == LogFrame(Gen(s), look.from, ReadEnd(s, look.from), look.rotated)
  <2>1. /\ look.taken /\ Head(scan) = s /\ Exists(s)
        /\ look.rotated => look.from = 0
        /\ ~look.rotated => look.from = cursor[s]
        /\ Push(s, frame, "own")
    BY <1>8 DEF ReadOn, Serving, DInv, IInv, LookIsCurrent
  <2>2. /\ Gen(s) \in Nat /\ Size(s) \in Nat /\ ReadEnd(s, look.from) \in Nat
        /\ look.from <= ReadEnd(s, look.from)
    BY <1>1, <2>1, ReadProperties
  <2>3. /\ frame \in Frame /\ frame.rotated = look.rotated /\ frame.gen = Gen(s)
        /\ frame.from = look.from /\ frame.next = ReadEnd(s, look.from)
    BY <1>1, <2>2 DEF LogFrame, Frame
  <2>4. ~Carries(frame) => frame.next = cursor[s]
    BY <1>1, <2>1, <2>2, <2>3 DEF Carries
  <2>5. Carries(frame) => frame.next <= Size(s)
    BY <1>1, <2>1, <2>2, <2>3, LogFileAssumption DEF Carries, ReadEnd
  <2>6. frame.rotated => \A g \in Gens(s) : g < Gen(s)
    BY <2>1, <2>3 DEF DInv, LookIsNewer
  <2> HIDE DEF frame
  <2> QED
    BY <1>3, <2>1, <2>3, <2>4, <2>5, <2>6
<1> QED
  BY <1>2, <1>4, <1>5, <1>6, <1>7, <1>8 DEF PushLog

(* A file that grows or starts over leaves what was read of it true.       *)
LEMMA ProduceDelivers ==
  ASSUME DInv, IInv', Produce
  PROVE  DInv'
<1>1. UNCHANGED <<text, wire, cursor, scan, look>>
  BY DEF Produce, linkVars, sessionVars, pageVars
<1>2. PICK f \in Streams : StartFile(f) \/ WriteFile(f)
  BY DEF Produce
<1>3. file \in [Streams -> Seq(Nat)]
  BY DEF DInv, IInv, TypeOK, FileType
<1>4. ASSUME NEW s \in Streams
      PROVE  /\ Gen(s) \in Nat /\ Gen(s)' \in Nat
             /\ DOMAIN file[s] = 1..Gen(s) /\ DOMAIN file'[s] = 1..Gen(s)'
             /\ Gen(s) <= Gen(s)'
             /\ \A g \in 1..Gen(s) : /\ file[s][g] \in Nat /\ file'[s][g] \in Nat
                                     /\ file[s][g] <= file'[s][g]
  <2>1. file[s] \in Seq(Nat)
    BY <1>3
  <2>2. CASE s = f /\ StartFile(f)
    <3>1. file'[s] = Append(file[s], 0)
      BY <1>3, <2>2 DEF StartFile
    <3>2. /\ Append(file[s], 0) \in Seq(Nat)
          /\ Len(Append(file[s], 0)) = Len(file[s]) + 1
          /\ \A i \in 1..Len(file[s]) : Append(file[s], 0)[i] = file[s][i]
      BY <2>1, AppendProperties
    <3> QED
      BY <2>1, <3>1, <3>2 DEF Gen
  <2>3. CASE s = f /\ WriteFile(f)
    <3>1. Gen(s) \in 1..Len(file[s])
      BY <2>1, <2>3, EmptySeq DEF WriteFile, Exists, Gen
    <3>2. file'[s] = [file[s] EXCEPT ![Gen(s)] = file[s][Gen(s)] + 1]
      BY <1>3, <2>3 DEF WriteFile
    <3>3. /\ file'[s] \in Seq(Nat) /\ Len(file'[s]) = Len(file[s])
          /\ \A i \in 1..Len(file[s]) :
               file'[s][i] = IF i = Gen(s) THEN file[s][i] + 1 ELSE file[s][i]
      BY <2>1, <3>1, <3>2
    <3> QED
      BY <2>1, <3>1, <3>3 DEF Gen
  <2>4. CASE s # f
    <3>1. file'[s] = file[s]
      BY <1>2, <1>3, <2>4 DEF StartFile, WriteFile
    <3> QED
      BY <2>1, <3>1 DEF Gen
  <2> QED
    BY <1>2, <2>2, <2>3, <2>4
<1>5. \A s \in Streams : Gens(s)' = Gens(s)
  BY <1>1 DEF Gens
<1>6. LookIsNewer'
  <2> SUFFICES ASSUME look.taken, look.rotated, NEW g \in Gens(Head(scan))
               PROVE  g < Gen(Head(scan))'
    BY <1>1, <1>5 DEF LookIsNewer, Gens
  <2>1. Head(scan) \in Streams
    BY HeadTailProperties DEF DInv, IInv, TypeOK, LookIsCurrent
  <2>2. g < Gen(Head(scan)) /\ g \in Nat
    BY <2>1, GensKnown DEF DInv, LookIsNewer
  <2>3. PICK s \in Streams : s = Head(scan)
    BY <2>1
  <2>4. Gen(s) \in Nat /\ Gen(s)' \in Nat /\ Gen(s) <= Gen(s)'
    BY <1>4
  <2>5. g < Gen(s)'
    BY <2>2, <2>3, <2>4
  <2> QED
    BY <1>1, <2>3, <2>5 DEF Gen
<1>7. ASSUME NEW s \in Streams
      PROVE  /\ Delivery!Faithful(file[s], text[s])'
             /\ Sourced(s)' /\ InOrder(s)' /\ Reaches(s)'
  <2>1. Delivery!Faithful(file[s], text[s]) /\ Sourced(s) /\ InOrder(s) /\ Reaches(s)
    BY DEF DInv
  <2>2. Delivery!Faithful(file[s], text[s])'
    <3> SUFFICES ASSUME NEW i \in DOMAIN text[s]
                 PROVE  /\ text[s][i].pos = i
                        /\ text[s][i].gen \in DOMAIN file'[s]
                        /\ i <= file'[s][text[s][i].gen]
                        /\ \A j \in 1..i : text[s][j].gen <= text[s][i].gen
      BY <1>1 DEF Delivery!Faithful
    <3>1. text[s][i].gen \in 1..Gen(s) /\ i <= file[s][text[s][i].gen]
      BY <1>4, <2>1 DEF Delivery!Faithful
    <3>2. i \in Nat
      <4>1. text[s] \in Seq(Byte)
        BY DEF DInv, IInv, TypeOK
      <4> QED
        BY <4>1
    <3>3. text[s][i].gen \in DOMAIN file'[s] /\ i <= file'[s][text[s][i].gen]
      BY <1>4, <3>1, <3>2
    <3> QED
      BY <2>1, <3>3 DEF Delivery!Faithful
  <2>3. Sourced(s)'
    <3> SUFFICES ASSUME NEW i \in 1..Len(wire[s]), Carries(wire[s][i])
                 PROVE  /\ wire[s][i].gen \in 1..Gen(s)'
                        /\ wire[s][i].next <= file'[s][wire[s][i].gen]
      BY <1>1 DEF Sourced, Carries
    <3>1. wire[s][i].gen \in 1..Gen(s) /\ wire[s][i].next <= file[s][wire[s][i].gen]
      BY <2>1 DEF Sourced
    <3>2. wire[s][i].next \in Nat
      <4>1. wire[s] \in Seq(Frame)
        BY DEF DInv, IInv, TypeOK
      <4>2. wire[s][i] \in Frame
        BY <4>1, ElementOfSeq
      <4> QED
        BY <4>2 DEF Frame
    <3>3. PICK g \in 1..Gen(s) : g = wire[s][i].gen
      BY <3>1
    <3>4. /\ g \in 1..Gen(s)' /\ file[s][g] \in Nat /\ file'[s][g] \in Nat
          /\ file[s][g] <= file'[s][g]
      BY <1>4
    <3>5. wire[s][i].next <= file'[s][g]
      BY <3>1, <3>2, <3>3, <3>4
    <3> QED
      BY <3>3, <3>4, <3>5
  <2>4. InOrder(s)'
    BY <1>1, <2>1 DEF InOrder, Carries, Succeeds
  <2>5. Reaches(s)'
    <3> SUFFICES ASSUME Gen(s)' \in Gens(s) PROVE cursor[s] <= Size(s)'
      BY <1>1, <1>5 DEF Reaches
    <3>1. Gen(s)' \in 1..Gen(s) /\ Gen(s)' = Gen(s)
      BY <1>4, GensKnown
    <3>2. cursor[s] <= Size(s) /\ cursor[s] \in Nat
      BY <2>1, <3>1 DEF Reaches, DInv, IInv, TypeOK
    <3>3. /\ Size(s) = file[s][Gen(s)] /\ Size(s)' = file'[s][Gen(s)]
          /\ Gen(s) \in 1..Gen(s)
      BY <3>1 DEF Size, Gen
    <3> QED
      BY <1>4, <3>2, <3>3
  <2> QED
    BY <2>2, <2>3, <2>4, <2>5
<1> QED
  BY <1>6, <1>7 DEF DInv

(* appendLog() keeps the text it has unless the frame is rotated, and adds *)
(* bytes of one generation.                                                *)
LEMMA ReceivedText ==
  ASSUME IInv, NEW s \in Streams, Receive(s),
         NEW frame, frame = Head(wire[s]), ~frame.merged
  PROVE  /\ text' = [text EXCEPT ![s] = text'[s]]
         /\ DOMAIN text'[s] = 1..Len(text'[s]) /\ Len(text'[s]) \in Nat
         /\ frame.gen \in Nat /\ frame.next \in Nat
         /\ \A p \in 1..Len(text'[s]) :
              \/ /\ ~frame.rotated /\ p \in 1..Len(text[s]) /\ text'[s][p] = text[s][p]
              \/ /\ Carries(frame) /\ p <= frame.next
                 /\ text'[s][p].gen = frame.gen /\ text'[s][p].pos = p
         /\ ~frame.rotated =>
              /\ Len(text[s]) <= Len(text'[s])
              /\ \A p \in 1..Len(text[s]) : text'[s][p] = text[s][p]
<1> DEFINE kept == IF frame.rotated THEN <<>> ELSE text[s]
<1>1. /\ wire[s] # <<>> /\ wire[s] \in Seq(Frame)
      /\ text \in [Streams -> Seq(Byte)] /\ text[s] \in Seq(Byte)
  BY DEF IInv, TypeOK, Receive
<1>2. 1 \in 1..Len(wire[s]) /\ frame = wire[s][1] /\ frame \in Frame
  BY <1>1, EmptySeq, HeadTailProperties
<1>3. /\ frame.from \in Nat /\ frame.next \in Nat /\ frame.gen \in Nat
      /\ frame.from <= frame.next
      /\ frame.from = IF frame.rotated THEN 0 ELSE Len(text[s])
  BY <1>2 DEF IInv, Chained, Lossless, Frame
<1>4. text' = [text EXCEPT ![s] = kept \o Chunk(frame.gen, frame.from, frame.next)]
  BY DEF Receive
<1>5. kept \in Seq(Byte) /\ Len(kept) = frame.from
  BY <1>1, <1>3, EmptySeq
<1> DEFINE more == Chunk(frame.gen, frame.from, frame.next)
           n == frame.next - frame.from
<1>6. /\ more \in Seq(Byte) /\ Len(more) = n /\ n \in Nat
      /\ \A i \in 1..n : more[i].pos = frame.from + i /\ more[i].gen = frame.gen
  <2>1. /\ more \in Seq(Byte) /\ Len(more) = n /\ n \in Nat
        /\ \A i \in 1..n : more[i].pos = frame.from + i
    <3>1. n \in Nat
      BY <1>3
    <3>2. /\ Chunk(frame.gen, frame.from, frame.next) \in Seq(Byte)
          /\ Len(Chunk(frame.gen, frame.from, frame.next)) = frame.next - frame.from
          /\ \A i \in 1..(frame.next - frame.from) :
               Chunk(frame.gen, frame.from, frame.next)[i].pos = frame.from + i
      BY <1>3, ChunkProperties
    <3> QED
      BY <3>1, <3>2
  <2>2. \A i \in 1..n : more[i].gen = frame.gen
    BY DEF Chunk
  <2> QED
    BY <2>1, <2>2
<1> HIDE DEF more, kept
<1>7. /\ text'[s] = kept \o more /\ text'[s] \in Seq(Byte)
      /\ Len(text'[s]) = frame.from + n
      /\ \A i \in 1..(frame.from + n) :
           text'[s][i] = IF i <= frame.from THEN kept[i] ELSE more[i - frame.from]
  <2>1. text'[s] = kept \o more
    BY <1>1, <1>4 DEF more
  <2>2. /\ kept \o more \in Seq(Byte) /\ Len(kept \o more) = Len(kept) + Len(more)
        /\ \A i \in 1..(Len(kept) + Len(more)) :
             (kept \o more)[i] = IF i <= Len(kept) THEN kept[i] ELSE more[i - Len(kept)]
    BY <1>5, <1>6, ConcatProperties
  <2> QED
    BY <1>5, <1>6, <2>1, <2>2
<1>8. text' = [text EXCEPT ![s] = text'[s]]
  BY <1>1, <1>4
<1>9. ASSUME NEW p \in 1..Len(text'[s]), p <= frame.from
      PROVE  ~frame.rotated /\ p \in 1..Len(text[s]) /\ text'[s][p] = text[s][p]
  <2>1. ~frame.rotated /\ p \in 1..Len(text[s])
    BY <1>3, <1>9
  <2> QED
    BY <1>7, <1>9, <2>1 DEF kept
<1>10. ASSUME NEW p \in 1..Len(text'[s]), ~(p <= frame.from)
       PROVE  /\ Carries(frame) /\ p <= frame.next
              /\ text'[s][p].gen = frame.gen /\ text'[s][p].pos = p
  <2>1. p \in 1..(frame.from + n) /\ p \in Nat
    BY <1>3, <1>6, <1>7
  <2>2. /\ p - frame.from \in 1..n /\ frame.from + (p - frame.from) = p
        /\ frame.from < frame.next /\ p <= frame.next
    BY <1>3, <1>10, <2>1
  <2>3. text'[s][p] = more[p - frame.from]
    BY <1>7, <1>10, <2>1
  <2> QED
    BY <1>6, <2>2, <2>3 DEF Carries
<1>11. ~frame.rotated =>
         /\ Len(text[s]) <= Len(text'[s])
         /\ \A p \in 1..Len(text[s]) : text'[s][p] = text[s][p]
  BY <1>1, <1>3, <1>6, <1>7 DEF kept
<1>12. \A p \in 1..Len(text'[s]) :
          \/ /\ ~frame.rotated /\ p \in 1..Len(text[s]) /\ text'[s][p] = text[s][p]
          \/ /\ Carries(frame) /\ p <= frame.next
             /\ text'[s][p].gen = frame.gen /\ text'[s][p].pos = p
  BY <1>9, <1>10
<1>13. DOMAIN text'[s] = 1..Len(text'[s]) /\ Len(text'[s]) \in Nat
  BY <1>7
<1> QED
  BY <1>3, <1>8, <1>11, <1>12, <1>13

(* What a frame received adds follows what is shown, and what remains in   *)
(* flight follows it.                                                      *)
LEMMA ReceiveDelivers ==
  ASSUME DInv, IInv', NEW s \in Streams, Receive(s)
  PROVE  DInv' /\ [Delivery!Next]_(Delivery!vars)
<1>0. PICK frame : frame = Head(wire[s])
  OBVIOUS
<1> DEFINE n == Len(wire[s])
<1>1. /\ UNCHANGED <<file, cursor, scan, look>> /\ wire' = [wire EXCEPT ![s] = Tail(wire[s])]
      /\ wire[s] # <<>> /\ wire \in [Streams -> Seq(Frame)] /\ wire[s] \in Seq(Frame)
      /\ text[s] \in Seq(Byte) /\ text \in [Streams -> Seq(Byte)]
  BY DEF Receive, worldVars, sessionVars, DInv, IInv, TypeOK
<1>2. /\ n \in Nat \ {0} /\ frame = wire[s][1] /\ frame \in Frame
      /\ Len(wire'[s]) = n - 1
      /\ \A i \in 1..(n - 1) : i + 1 \in 1..n /\ wire'[s][i] = wire[s][i + 1]
  BY <1>0, <1>1, EmptySeq, HeadTailProperties
<1>3. Delivery!Faithful(file[s], text[s]) /\ Sourced(s) /\ InOrder(s) /\ Reaches(s)
  BY DEF DInv
<1>4. /\ \A r \in Streams \ {s} : text'[r] = text[r] /\ wire'[r] = wire[r]
      /\ frame.merged => text' = text
  BY <1>0, <1>1 DEF Receive
<1>5. Carries(frame) =>
        /\ frame.gen \in 1..Gen(s) /\ frame.next <= file[s][frame.gen]
        /\ frame.gen \in Gens(s)
        /\ \A p \in 1..Len(text[s]) : Succeeds(frame, text[s][p].gen)
        /\ \A j \in 1..(n - 1) : Carries(wire'[s][j]) => Succeeds(wire'[s][j], frame.gen)
  <2> SUFFICES ASSUME Carries(frame)
               PROVE  /\ frame.gen \in 1..Gen(s) /\ frame.next <= file[s][frame.gen]
                      /\ frame.gen \in Gens(s)
                      /\ \A p \in 1..Len(text[s]) : Succeeds(frame, text[s][p].gen)
                      /\ \A j \in 1..(n - 1) :
                           Carries(wire'[s][j]) => Succeeds(wire'[s][j], frame.gen)
    OBVIOUS
  <2>1. 1 \in 1..n /\ \A j \in 1..(n - 1) : 1 \in 1..((j + 1) - 1)
    BY <1>2
  <2>2. frame.gen \in Gens(s)
    BY <1>2, <2>1 DEF Gens
  <2>3. \A j \in 1..(n - 1) : Carries(wire[s][j + 1]) => Succeeds(wire[s][j + 1], wire[s][1].gen)
    BY <1>2, <1>3, <2>1 DEF InOrder
  <2> QED
    BY <1>2, <1>3, <2>1, <2>2, <2>3 DEF Sourced, InOrder
<1>6. /\ DOMAIN text[s] = 1..Len(text[s]) /\ Len(text[s]) \in Nat
      /\ DOMAIN file[s] = 1..Gen(s) /\ Gen(s) \in Nat
  <2>1. file[s] \in Seq(Nat)
    BY DEF DInv, IInv, TypeOK, FileType
  <2> QED
    BY <1>1, <2>1 DEF Gen
<1>7. ~frame.merged =>
        /\ text' = [text EXCEPT ![s] = text'[s]]
        /\ DOMAIN text'[s] = 1..Len(text'[s]) /\ Len(text'[s]) \in Nat
        /\ frame.gen \in Nat /\ frame.next \in Nat
        /\ \A p \in 1..Len(text'[s]) :
             \/ /\ ~frame.rotated /\ p \in 1..Len(text[s]) /\ text'[s][p] = text[s][p]
             \/ /\ Carries(frame) /\ p <= frame.next
                /\ text'[s][p].gen = frame.gen /\ text'[s][p].pos = p
        /\ ~frame.rotated =>
             /\ Len(text[s]) <= Len(text'[s])
             /\ \A p \in 1..Len(text[s]) : text'[s][p] = text[s][p]
  BY <1>0, ReceivedText DEF DInv
<1> HIDE DEF n
(* Every byte shown after the step was shown, or is of the frame.          *)
<1>8. \A p \in 1..Len(text'[s]) :
        \/ p \in 1..Len(text[s]) /\ text'[s][p] = text[s][p]
        \/ Carries(frame) /\ text'[s][p].gen = frame.gen
  BY <1>4, <1>7
<1>9. Gens(s)' \subseteq Gens(s)
  <2>1. ASSUME NEW p \in 1..Len(text'[s]) PROVE text'[s][p].gen \in Gens(s)
    BY <1>5, <1>8 DEF Gens
  <2>2. ASSUME NEW i \in 1..(n - 1), Carries(wire'[s][i]) PROVE wire'[s][i].gen \in Gens(s)
    BY <1>2, <2>2 DEF Gens, n
  <2>3. Gens(s)' = {text'[s][p].gen : p \in 1..Len(text'[s])}
                    \cup {wire'[s][i].gen : i \in {j \in 1..(n - 1) : Carries(wire'[s][j])}}
    BY <1>2 DEF Gens, Carries
  <2> QED
    BY <2>1, <2>2, <2>3
<1>10. Delivery!Faithful(file[s], text'[s])
  <2>1. CASE frame.merged
    BY <1>3, <1>4, <2>1
  <2>2. CASE ~frame.merged
    <3> SUFFICES ASSUME NEW i \in 1..Len(text'[s])
                 PROVE  /\ text'[s][i].pos = i
                        /\ text'[s][i].gen \in 1..Gen(s)
                        /\ i <= file[s][text'[s][i].gen]
                        /\ \A j \in 1..i : text'[s][j].gen <= text'[s][i].gen
      BY <1>6, <1>7, <2>2 DEF Delivery!Faithful
    <3>1. \A j \in 1..i : j \in 1..Len(text'[s])
      BY <1>7, <2>2
    <3>2. CASE ~frame.rotated /\ i \in 1..Len(text[s]) /\ text'[s][i] = text[s][i]
      <4>1. \A j \in 1..i : j \in 1..Len(text[s]) /\ text'[s][j] = text[s][j]
        BY <1>6, <1>7, <2>2, <3>2
      <4> QED
        BY <1>3, <1>6, <3>2, <4>1 DEF Delivery!Faithful
    <3>3. CASE /\ Carries(frame) /\ i <= frame.next
               /\ text'[s][i].gen = frame.gen /\ text'[s][i].pos = i
      <4>1. file[s][frame.gen] \in Nat
        <5>1. file[s] \in Seq(Nat)
          BY DEF DInv, IInv, TypeOK, FileType
        <5> QED
          BY <1>5, <3>3, <5>1 DEF Gen
      <4>2. i <= file[s][frame.gen]
        BY <1>5, <1>7, <2>2, <3>3, <4>1
      <4>3. \A j \in 1..i : text'[s][j].gen <= frame.gen
        BY <1>5, <1>7, <2>2, <3>1, <3>3 DEF Succeeds
      <4> QED
        BY <1>5, <3>3, <4>2, <4>3
    <3> QED
      BY <1>7, <2>2, <3>2, <3>3
  <2> QED
    BY <2>1, <2>2
<1>11. Sourced(s)'
  <2> SUFFICES ASSUME NEW i \in 1..(n - 1), Carries(wire'[s][i])
               PROVE  /\ wire'[s][i].gen \in 1..Gen(s)
                      /\ wire'[s][i].next <= file[s][wire'[s][i].gen]
    BY <1>1, <1>2 DEF Sourced, Carries, Gen
  <2> QED
    BY <1>2, <1>3 DEF Sourced, n
<1>12. InOrder(s)'
  <2> SUFFICES ASSUME NEW j \in 1..(n - 1), Carries(wire'[s][j])
               PROVE  /\ \A p \in 1..Len(text'[s]) : Succeeds(wire'[s][j], text'[s][p].gen)
                      /\ \A i \in 1..(j - 1) :
                           Carries(wire'[s][i]) => Succeeds(wire'[s][j], wire'[s][i].gen)
    BY <1>2 DEF InOrder, Carries, Succeeds
  <2>1. wire'[s][j] = wire[s][j + 1] /\ j + 1 \in 1..Len(wire[s])
    BY <1>2 DEF n
  <2>2. /\ \A p \in 1..Len(text[s]) : Succeeds(wire'[s][j], text[s][p].gen)
        /\ \A i \in 1..((j + 1) - 1) :
             Carries(wire[s][i]) => Succeeds(wire'[s][j], wire[s][i].gen)
    BY <1>3, <2>1 DEF InOrder
  <2>3. \A i \in 1..(j - 1) : i \in 1..(n - 1) /\ i + 1 \in 1..((j + 1) - 1)
    BY <1>2
  <2> QED
    BY <1>2, <1>5, <1>8, <2>2, <2>3
<1>13. LookIsNewer'
  <2> SUFFICES ASSUME look.taken, look.rotated, NEW g \in Gens(Head(scan))'
               PROVE  g < Gen(Head(scan))
    BY <1>1 DEF LookIsNewer, Gen
  <2>1. Head(scan) \in Streams
    BY HeadTailProperties DEF DInv, IInv, TypeOK, LookIsCurrent
  <2>2. g \in Gens(Head(scan))
    <3>1. CASE Head(scan) = s
      <4>1. Gens(Head(scan))' = Gens(s)'
        BY <1>1, <3>1 DEF Gens, Carries
      <4> QED
        BY <1>9, <3>1, <4>1
    <3>2. CASE Head(scan) # s
      BY <1>1, <1>4, <2>1, <3>2 DEF Gens, Carries
    <3> QED
      BY <3>1, <3>2
  <2> QED
    BY <2>2 DEF DInv, LookIsNewer
<1>14. Reaches(s)'
  BY <1>1, <1>3, <1>9 DEF Reaches, Gen, Size
<1>15. \A r \in Streams \ {s} : /\ Delivery!Faithful(file[r], text[r])'
                               /\ Sourced(r)' /\ InOrder(r)' /\ Reaches(r)'
  BY <1>1, <1>4, StreamStays DEF DInv, Reaches
<1>16. Delivery!Faithful(file[s], text[s])'
  BY <1>1, <1>10 DEF Delivery!Faithful
<1>17. [Delivery!Next]_(Delivery!vars)
  <2>1. CASE frame.merged
    BY <1>1, <1>4, <2>1 DEF Delivery!vars
  <2>2. CASE ~frame.merged /\ (~frame.rotated \/ text[s] = <<>>)
    <3>1. Len(text[s]) <= Len(text'[s]) /\ \A i \in 1..Len(text[s]) : text'[s][i] = text[s][i]
      <4>1. CASE ~frame.rotated
        BY <1>7, <2>2, <4>1
      <4>2. CASE text[s] = <<>>
        <5>1. Len(text[s]) = 0
          BY <4>2, EmptySeq
        <5> QED
          BY <1>7, <2>2, <5>1
      <4> QED
        BY <2>2, <4>1, <4>2
    <3>2. Delivery!Show(s)
      BY <1>1, <1>6, <1>7, <1>10, <2>2, <3>1 DEF Delivery!Show
    <3> QED
      BY <3>2 DEF Delivery!Next
  <2>3. CASE ~frame.merged /\ frame.rotated /\ text[s] # <<>>
    <3> DEFINE last == text[s][Len(text[s])].gen
    <3>1. Carries(frame) /\ Len(text[s]) \in 1..Len(text[s])
      BY <1>1, <2>3, EmptySeq DEF Carries
    <3>2. last < frame.gen
      BY <1>5, <2>3, <3>1 DEF Succeeds
    <3>3. last \in Gens(s)
      BY <3>1 DEF Gens
    <3>4. last < Gen(s)
      BY <1>5, <1>6, <3>1, <3>2, <3>3, GensKnown
    <3>5. \A i \in 1..Len(text'[s]) : last < text'[s][i].gen
      BY <1>7, <2>3, <3>2
    <3>6. Delivery!Restart(s)
      BY <1>1, <1>7, <1>10, <2>3, <3>4, <3>5 DEF Delivery!Restart, Gen
    <3> QED
      BY <3>6 DEF Delivery!Next
  <2> QED
    BY <2>1, <2>2, <2>3
<1> QED
  BY <1>11, <1>12, <1>13, <1>14, <1>15, <1>16, <1>17 DEF DInv

(* The job's steps are those of the promise; no other step of the channel  *)
(* touches the file or the text.                                           *)
LEMMA StepDelivers == DInv /\ [Next]_vars => DInv' /\ [Delivery!Next]_(Delivery!vars)
<1> SUFFICES ASSUME DInv, [Next]_vars PROVE DInv' /\ [Delivery!Next]_(Delivery!vars)
  OBVIOUS
<1>0. IInv'
  BY StepPreserves DEF DInv
<1>1. CASE Produce
  <2>1. text' = text
    BY <1>1 DEF Produce, pageVars
  <2>2. ASSUME NEW s \in Streams, StartFile(s) PROVE Delivery!Next
    BY <2>1, <2>2 DEF StartFile, Delivery!Next, Delivery!Start
  <2>3. ASSUME NEW s \in Streams, WriteFile(s) PROVE Delivery!Next
    BY <2>1, <2>3 DEF WriteFile, Exists, Gen, Delivery!Next, Delivery!Write
  <2> QED
    BY <1>0, <1>1, <2>2, <2>3, ProduceDelivers DEF Produce
<1>2. CASE \E s \in Streams : Receive(s)
  BY <1>0, <1>2, ReceiveDelivers
<1>3. CASE Disconnect
  <2>1. UNCHANGED <<file, text>>
    BY <1>3 DEF Disconnect, worldVars, pageVars
  <2> QED
    BY <1>0, <1>3, <2>1, LossDelivers DEF Delivery!vars
<1>4. CASE \E s \in Streams : PushLog(s)
  <2>1. UNCHANGED <<file, text>>
    BY <1>4 DEF PushLog, PushMerged, PushUnknown, PushRefused, PushAbsent, LookAt, ReadOn,
                Serving, worldVars, pageVars
  <2> QED
    BY <1>0, <1>4, <2>1, PushLogDelivers DEF Delivery!vars
<1>5. CASE LearnPaths \/ TogglePause \/ UNCHANGED vars
  <2>1. UNCHANGED <<file, text, wire, cursor, scan, look>>
    BY <1>5 DEF LearnPaths, TogglePause, vars, worldVars, linkVars, sessionVars, pageVars
  <2> QED
    BY <1>0, <2>1, QuietDelivers DEF Delivery!vars
<1>6. CASE Connect
  <2>1. UNCHANGED <<file, text, wire>> /\ cursor' = Zero /\ ~look'.taken
    BY <1>6 DEF Connect, NewSession, worldVars, pageVars, NoLook
  <2> QED
    BY <1>0, <2>1, QuietDelivers DEF Delivery!vars
<1>7. ASSUME NEW due \in BOOLEAN, Turn(due) PROVE DInv' /\ [Delivery!Next]_(Delivery!vars)
  <2>1. UNCHANGED <<file, text, wire, look>> /\ scan = <<>>
    BY <1>7 DEF Turn, HandleSubscribe, HandlePause, HandleResume, HandleNothing, Handling,
                Service, worldVars, linkVars, pageVars
  <2>2. ~look'.taken
    BY <2>1 DEF DInv, IInv, LookIsCurrent
  <2>3. cursor' = cursor \/ (cursor' = offsets /\ wire = Empty)
    <3>1. CASE HandleSubscribe(due)
      <4>1. control # <<>> /\ Head(control).type = "subscribe"
        BY <3>1 DEF HandleSubscribe, Handling
      <4>2. ~subscribed /\ Head(control) = control[1]
        BY <4>1, ControlTail DEF DInv
      <4>3. 1 \in 1..Len(control)
        BY <4>1, EmptySeq DEF DInv, IInv, TypeOK
      <4>4. Head(control).offsets = offsets /\ wire = Empty
        BY <4>1, <4>2, <4>3 DEF DInv, IInv, Handshake
      <4> QED
        BY <3>1, <4>4 DEF HandleSubscribe, StreamsFrom
    <3>2. CASE ~HandleSubscribe(due)
      BY <1>7, <3>2 DEF Turn, HandlePause, HandleResume, HandleNothing
    <3> QED
      BY <3>1, <3>2
  <2> QED
    BY <1>0, <2>1, <2>2, <2>3, QuietDelivers DEF Delivery!vars
<1> QED
  BY <1>1, <1>2, <1>3, <1>4, <1>5, <1>6, <1>7 DEF Next

(* The session, the link and the page together do what LogDelivery         *)
(* promises: the page shows the bytes of the file in order, of no older    *)
(* generation than it showed, and starts over only when the file did.      *)
THEOREM Implements == Spec => DeliverySpec
<1>1. Init => DInv /\ Delivery!Init
  BY InitDelivers DEF Init, FileInit, Empty, Delivery!Init
<1>2. DInv /\ [Next]_vars => DInv' /\ [Delivery!Next]_(Delivery!vars)
  BY StepDelivers
<1> QED
  BY <1>1, <1>2, PTL DEF Spec, DeliverySpec, Delivery!Spec
=============================================================================
