--------------------------- MODULE LiveChecksProofs ---------------------------
(***************************************************************************)
(* Machine-checked proofs about the checks channel, for every number of    *)
(* tasks, checks and events, any limits of what the agent reads and keeps, *)
(* any rounding of the page's numbers and any number of connections lost.  *)
(***************************************************************************)
EXTENDS LiveChecks, SequenceTheorems, FiniteSetTheorems, FunctionTheorems,
        WellFoundedInduction, TLAPS

Frame ==
  [type : {"checks"}, cursor : Nat, checks : [Key -> Nat]]
    \cup [type : {"check"}, event : Line]

Types ==
  /\ stamped \subseteq Event
  /\ written \subseteq Line /\ IsFiniteSet(written)
  /\ conn \in BOOLEAN /\ subscribed \in BOOLEAN
  /\ drops \in Nat
  /\ control \in Seq(Nat)
  /\ wire \in Seq(Frame)
  /\ cursor \in Nat /\ checksCursor \in Nat
  /\ reading \in {"nothing", "snapshot", "push"}
  /\ shown \in [Key -> Nat]

(* No two events have the same number, written or about to be.             *)
Stamps ==
  /\ \A e, f \in written : e.seq = f.seq => e = f
  /\ \A e, f \in stamped : e.seq = f.seq => e = f
  /\ \A e \in stamped, f \in written : e.seq # f.seq

(* What the page shows, or is sent, is in the files.                       *)
IsOf(k, q) == q = 0 \/ \E e \in written : KeyOf(e) = k /\ e.seq = q
Sources ==
  /\ \A k \in Key : IsOf(k, shown[k])
  /\ \A i \in 1..Len(wire) :
       /\ wire[i].type = "check" => wire[i].event \in written
       /\ wire[i].type = "checks" => \A k \in Key : IsOf(k, wire[i].checks[k])

(* A connection begins with one subscribe frame, and nothing is sent       *)
(* before the snapshot.                                                    *)
Handshake ==
  /\ ~conn => control = <<>> /\ ~subscribed
  /\ ~subscribed => wire = <<>> /\ reading = "nothing"
  /\ control # <<>> => ~subscribed
  /\ reading = "snapshot" => wire = <<>>

(* A line of a file already read was read, or came since, or is forgotten. *)
ReadBack ==
  /\ read \subseteq written
  /\ reading # "nothing" =>
       \A e \in written : e.task \notin unread => e \in read \/ e \in since \/ Forgotten(e)

(* What the page shows was written before the snapshot read its file.      *)
SnapshotSees == reading = "snapshot" => \A e \in since : shown[KeyOf(e)] # e.seq

(* The session's cursor is past all it has sent; the snapshot is first.    *)
Ahead ==
  subscribed /\ reading # "snapshot" =>
    /\ \A k \in Key : Ground[k] <= cursor
    /\ \A i \in 1..Len(wire) : /\ FrameSeq(wire[i]) <= cursor
                               /\ wire[i].type = "checks" => i = 1

(* A snapshot in flight takes back from the page only what is forgotten.   *)
Keeps(k, new) ==
  new >= shown[k] \/ \E e \in Of(k, written) : e.seq = shown[k] /\ Forgotten(e)
SnapshotKeeps ==
  SnapshotInFlight => \A k \in Key : Keeps(k, wire[1].checks[k])

IInv ==
  /\ Types /\ Stamps /\ Sources /\ Handshake /\ ReadBack /\ SnapshotSees
  /\ Ahead /\ DuplicateFree /\ SnapshotKeeps /\ OnlyLateMissed

-----------------------------------------------------------------------------
(* Finite sets of events, told apart by their numbers.                     *)

Distinct(S) == S \subseteq Line /\ IsFiniteSet(S) /\ \A e, f \in S : e.seq = f.seq => e = f

(* A bounded set of numbers has a largest one.                             *)
LEMMA MaxOfBounded ==
  ASSUME NEW S \in SUBSET Nat, S # {}, NEW m \in Nat, \A x \in S : x <= m
  PROVE  Max(S) \in S /\ \A y \in S : y <= Max(S)
<1> DEFINE T == {m - x : x \in S}
<1>1. T \subseteq Nat /\ T # {}
  <2>1. \A x \in S : m - x \in Nat
    OBVIOUS
  <2> QED
    BY <2>1
<1>2. PICK y \in T : \A z \in T : ~ (<<z, y>> \in OpToRel(<, Nat))
  BY <1>1, NatLessThanWellFounded, WFMin
<1>3. \A z \in T : y <= z
  <2> SUFFICES ASSUME NEW z \in T PROVE y <= z
    OBVIOUS
  <2>1. y \in Nat /\ z \in Nat
    BY <1>1
  <2>2. ~(z < y)
    BY <1>2, <2>1 DEF OpToRel
  <2> QED
    BY <2>1, <2>2
<1>4. PICK x \in S : y = m - x
  BY <1>2
<1>5. \A z \in S : z <= x
  BY <1>3, <1>4
<1> QED
  BY <1>5 DEF Max

(* The highest number of some events, or 0.                                *)
LEMMA HighestProperties ==
  ASSUME NEW S \in SUBSET Line
  PROVE  /\ Highest(S) \in Seqs(S) \cup {0}
         /\ Highest(S) \in Nat
         /\ \A e \in S : e.seq <= Highest(S)
<1> DEFINE Q == Seqs(S) \cup {0}
<1>1. Q \in SUBSET Nat /\ Q # {} /\ \A x \in Q : x <= MaxSeq
  BY LiveChecksAssumption DEF Seqs, Line
<1>2. Max(Q) \in Q /\ \A y \in Q : y <= Max(Q)
  BY <1>1, MaxOfBounded, LiveChecksAssumption
<1>3. Highest(S) = Max(Q)
  BY DEF Highest
<1> QED
  BY <1>1, <1>2, <1>3 DEF Seqs

(* The more events precede one, the higher its number.                     *)
LEMMA BeforeCounts ==
  ASSUME NEW S, Distinct(S), NEW e \in S
  PROVE  /\ Cardinality(Before(e, S)) \in 0..(Cardinality(S) - 1)
         /\ \A f \in S : e.seq < f.seq =>
              Cardinality(Before(e, S)) < Cardinality(Before(f, S))
<1>1. IsFiniteSet(S) /\ \A f \in S : f.seq \in Nat
  BY LiveChecksAssumption DEF Distinct, Line
<1>2. ASSUME NEW T, IsFiniteSet(T), Before(e, S) \subseteq T, e \in T
      PROVE  /\ Cardinality(Before(e, S)) \in Nat
             /\ Cardinality(T) \in Nat
             /\ Cardinality(Before(e, S)) < Cardinality(T)
  <2>1. e \notin Before(e, S)
    BY <1>1 DEF Before
  <2>2. Before(e, S) \in SUBSET (T \ {e})
    BY <1>2, <2>1
  <2>3. IsFiniteSet(T \ {e}) /\ Cardinality(T \ {e}) = Cardinality(T) - 1
    BY <1>2, FS_RemoveElement
  <2>4. /\ IsFiniteSet(Before(e, S))
        /\ Cardinality(Before(e, S)) <= Cardinality(T \ {e})
    BY <2>2, <2>3, FS_Subset
  <2> QED
    BY <1>2, <2>3, <2>4, FS_CardinalityType
<1>3. Before(e, S) \subseteq S
  BY DEF Before
<1>4. ASSUME NEW f \in S, e.seq < f.seq
      PROVE  Cardinality(Before(e, S)) < Cardinality(Before(f, S))
  <2>1. Before(e, S) \subseteq Before(f, S) /\ e \in Before(f, S)
    BY <1>1, <1>4 DEF Before
  <2>2. Before(f, S) \in SUBSET S
    BY DEF Before
  <2>3. IsFiniteSet(Before(f, S))
    BY <1>1, <2>2, FS_Subset
  <2> QED
    BY <1>2, <2>1, <2>3
<1> QED
  BY <1>1, <1>2, <1>3, <1>4

(* There is one event for every place.                                     *)
LEMMA EveryPlaceTaken ==
  ASSUME NEW S, Distinct(S), NEW i \in 1..Cardinality(S)
  PROVE  \E e \in S : Cardinality(Before(e, S)) = i - 1
<1> DEFINE n == Cardinality(S)
           place == [e \in S |-> Cardinality(Before(e, S))]
<1>1. IsFiniteSet(S) /\ n \in Nat
  BY FS_CardinalityType DEF Distinct
<1>2. place \in [S -> 0..(n - 1)]
  BY BeforeCounts
<1>3. \A e, f \in S : place[e] = place[f] => e = f
  <2> SUFFICES ASSUME NEW e \in S, NEW f \in S, e # f PROVE place[e] # place[f]
    OBVIOUS
  <2>1. e.seq \in Nat /\ f.seq \in Nat /\ e.seq # f.seq
    BY LiveChecksAssumption DEF Distinct, Line
  <2>2. e.seq < f.seq \/ f.seq < e.seq
    BY <2>1
  <2>3. /\ Cardinality(Before(e, S)) \in 0..(n - 1)
        /\ Cardinality(Before(f, S)) \in 0..(n - 1)
        /\ e.seq < f.seq => Cardinality(Before(e, S)) < Cardinality(Before(f, S))
        /\ f.seq < e.seq => Cardinality(Before(f, S)) < Cardinality(Before(e, S))
    BY BeforeCounts
  <2> QED
    BY <1>1, <2>2, <2>3
<1>4. IsFiniteSet(0..(n - 1)) /\ Cardinality(0..(n - 1)) = n
  <2>1. 0 \in Int /\ n - 1 \in Int
    BY <1>1
  <2> HIDE DEF n
  <2> QED
    BY <1>1, <2>1, FS_Interval
<1>5. place \in Injection(S, 0..(n - 1))
  BY <1>2, <1>3, Fun_IsInj
<1>6. place \in Surjection(S, 0..(n - 1))
  BY <1>4, <1>5, FS_Injection
<1>7. i - 1 \in 0..(n - 1)
  BY <1>1
<1>8. \E e \in S : place[e] = i - 1
  <2> HIDE DEF place, n
  <2>1. \A p \in 0..(n - 1) : \E e \in S : place[e] = p
    BY <1>6, Fun_SurjectionProperties
  <2> QED
    BY <1>7, <2>1
<1> QED
  BY <1>8

(* Sorted events are those of the set, in the order of their numbers.      *)
LEMMA SortedProperties ==
  ASSUME NEW S, Distinct(S)
  PROVE  /\ Sorted(S) \in Seq(S)
         /\ \A i, j \in 1..Len(Sorted(S)) :
              i < j => Sorted(S)[i].seq < Sorted(S)[j].seq
         /\ \A e \in S : \E i \in 1..Len(Sorted(S)) : Sorted(S)[i] = e
<1> DEFINE n == Cardinality(S)
           at(i) == CHOOSE e \in S : Cardinality(Before(e, S)) = i - 1
<1>1. n \in Nat /\ \A e \in S : e.seq \in Nat
  BY FS_CardinalityType, LiveChecksAssumption DEF Distinct, Line
<1>2. \A i \in 1..n : at(i) \in S /\ Cardinality(Before(at(i), S)) = i - 1
  BY EveryPlaceTaken
<1>3. Sorted(S) = [i \in 1..n |-> at(i)]
  BY DEF Sorted
<1> HIDE DEF at, n
<1>4. Sorted(S) \in Seq(S) /\ Len(Sorted(S)) = n
  BY <1>1, <1>2, <1>3, IsASeq
<1>5. ASSUME NEW i \in 1..n, NEW j \in 1..n, i < j PROVE at(i).seq < at(j).seq
  <2>1. at(i) \in S /\ at(j) \in S /\ at(i).seq \in Nat /\ at(j).seq \in Nat
    BY <1>1, <1>2
  <2>2. CASE at(j).seq < at(i).seq
    BY <1>1, <1>2, <1>5, <2>1, <2>2, BeforeCounts
  <2>3. CASE at(j).seq = at(i).seq
    <3>1. at(j) = at(i)
      BY <2>1, <2>3 DEF Distinct
    <3> QED
      BY <1>1, <1>2, <1>5, <3>1
  <2> QED
    BY <2>1, <2>2, <2>3
<1>6. ASSUME NEW e \in S PROVE \E i \in 1..n : at(i) = e
  <2> DEFINE i == Cardinality(Before(e, S)) + 1
  <2>1. i \in 1..n /\ i - 1 = Cardinality(Before(e, S))
    BY <1>1, BeforeCounts DEF n
  <2> HIDE DEF i
  <2>2. at(i) \in S /\ Cardinality(Before(at(i), S)) = Cardinality(Before(e, S))
    BY <1>2, <2>1
  <2>3. Cardinality(Before(e, S)) \in Nat
    BY <1>1, <2>1
  <2>4. e.seq \in Nat /\ at(i).seq \in Nat
    BY <1>1, <2>2
  <2>5. ~(e.seq < at(i).seq) /\ ~(at(i).seq < e.seq)
    BY <2>2, <2>3, BeforeCounts
  <2>6. e.seq = at(i).seq
    BY <2>4, <2>5
  <2> QED
    BY <2>1, <2>2, <2>6 DEF Distinct
<1> QED
  BY <1>3, <1>4, <1>5, <1>6

(* Any part of a set told apart by its numbers is.                         *)
LEMMA PartDistinct ==
  ASSUME NEW S, Distinct(S), NEW T, T \subseteq S
  PROVE  Distinct(T)
  BY FS_Subset DEF Distinct

LEMMA WrittenDistinct == ASSUME Types, Stamps PROVE Distinct(written)
  BY DEF Types, Stamps, Distinct

-----------------------------------------------------------------------------
(* What the agent keeps and forgets.                                       *)

(* A part of a finite set has at most as many members.                     *)
LEMMA PartCounts ==
  ASSUME NEW S, IsFiniteSet(S), NEW T, T \subseteq S
  PROVE  /\ IsFiniteSet(T) /\ Cardinality(S) \in Nat /\ Cardinality(T) \in Nat
         /\ Cardinality(T) <= Cardinality(S)
  BY FS_Subset, FS_CardinalityType

Since(q, S) == {e \in S : e.seq > q}

(* No event is remembered again.                                           *)
LEMMA ForgottenStays ==
  ASSUME written \subseteq written', IsFiniteSet(written'), NEW e, Forgotten(e)
  PROVE  Forgotten(e)'
<1>1. /\ Following(e)' \subseteq written' /\ Following(e) \subseteq Following(e)'
      /\ Since(e.seq, written') \subseteq written'
      /\ Since(e.seq, written) \subseteq Since(e.seq, written')
  BY DEF Following, Since
<1>2. IsFiniteSet(Following(e)') /\ IsFiniteSet(Since(e.seq, written'))
  BY <1>1, PartCounts
<1>3. /\ Cardinality(Following(e)) \in Nat /\ Cardinality(Following(e)') \in Nat
      /\ Cardinality(Following(e)) <= Cardinality(Following(e)')
      /\ Cardinality(Since(e.seq, written)) \in Nat
      /\ Cardinality(Since(e.seq, written')) \in Nat
      /\ Cardinality(Since(e.seq, written)) <= Cardinality(Since(e.seq, written'))
  BY <1>1, <1>2, PartCounts
<1>4. Forgotten(e) <=> \/ Cardinality(Following(e)) >= KeptOfFile
                       \/ Cardinality(Since(e.seq, written)) >= Kept
  BY DEF Forgotten, Since
<1>5. Forgotten(e)' <=> \/ Cardinality(Following(e)') >= KeptOfFile
                        \/ Cardinality(Since(e.seq, written')) >= Kept
  BY DEF Forgotten, Since, Following
<1> QED
  BY <1>3, <1>4, <1>5, LiveChecksAssumption

(* Of what the session read, the recent events go on; the others are       *)
(* forgotten.                                                              *)
LEMMA RecentProperties ==
  ASSUME Types, Stamps, ReadBack
  PROVE  /\ Recent(read) \subseteq read /\ Distinct(Recent(read))
         /\ \A e \in read : e \in Recent(read) \/ Forgotten(e)
<1>1. Recent(read) = {e \in read : Cardinality(Since(e.seq, read)) < Kept}
  BY DEF Recent, Since
<1>2. read \subseteq written /\ IsFiniteSet(written) /\ Distinct(read)
  BY WrittenDistinct, PartDistinct DEF ReadBack, Types
<1>3. Recent(read) \subseteq read /\ Distinct(Recent(read))
  BY <1>1, <1>2, PartDistinct
<1>4. ASSUME NEW e \in read, e \notin Recent(read) PROVE Forgotten(e)
  <2>1. ~(Cardinality(Since(e.seq, read)) < Kept)
    BY <1>1, <1>4
  <2>2. /\ Since(e.seq, written) \subseteq written
        /\ Since(e.seq, read) \subseteq Since(e.seq, written)
    BY <1>2 DEF Since
  <2>3. IsFiniteSet(Since(e.seq, written))
    BY <1>2, <2>2, PartCounts
  <2>4. /\ Cardinality(Since(e.seq, read)) \in Nat
        /\ Cardinality(Since(e.seq, written)) \in Nat
        /\ Cardinality(Since(e.seq, read)) <= Cardinality(Since(e.seq, written))
    BY <2>2, <2>3, PartCounts
  <2>5. Cardinality(Since(e.seq, written)) >= Kept
    BY <2>1, <2>4, LiveChecksAssumption
  <2> QED
    BY <2>5 DEF Forgotten, Since
<1> QED
  BY <1>3, <1>4

(* The page's numbers are numbers.                                         *)
LEMMA RoundedType == ASSUME NEW q \in Nat PROVE Rounded(q) \in Nat
<1>1. Grain \in Nat /\ Grain > 0
  BY LiveChecksAssumption
<1>2. q \div Grain \in Nat
  BY <1>1
<1>3. (q \div Grain) * Grain \in Nat /\ ((q \div Grain) + 1) * Grain \in Nat
  BY <1>1, <1>2
<1> QED
  BY <1>3 DEF Rounded

(* The greater of two numbers.                                             *)
LEMMA MaxOfTwo ==
  ASSUME NEW a \in Nat, NEW b \in Nat
  PROVE  Max({a, b}) \in {a, b} /\ a <= Max({a, b}) /\ b <= Max({a, b})
<1>1. PICK m \in Nat : \A x \in {a, b} : x <= m
  <2>1. CASE a <= b
    BY <2>1
  <2>2. CASE b <= a
    BY <2>2
  <2> QED
    BY <2>1, <2>2
<1> QED
  BY <1>1, MaxOfBounded

(* What a snapshot says.                                                   *)
LEMMA SnapshotProperties ==
  ASSUME NEW S \in SUBSET Line
  PROVE  /\ Snapshot(S) \in Frame /\ Snapshot(S).type = "checks"
         /\ Snapshot(S).cursor \in Seqs(S) \cup {0} /\ Snapshot(S).cursor \in Nat
         /\ \A e \in S : e.seq <= Snapshot(S).cursor
                           /\ e.seq <= Snapshot(S).checks[KeyOf(e)]
         /\ \A k \in Key : /\ Snapshot(S).checks[k] \in Seqs(Of(k, S)) \cup {0}
                           /\ Snapshot(S).checks[k] \in Nat
                           /\ Snapshot(S).checks[k] <= Snapshot(S).cursor
<1> DEFINE s == Snapshot(S)
<1>1. /\ s.type = "checks" /\ s.cursor = Highest(S)
      /\ s = [type |-> "checks", cursor |-> s.cursor, checks |-> s.checks]
      /\ s.checks = [k \in Key |-> Highest(Of(k, S))]
      /\ \A k \in Key : s.checks[k] = Highest(Of(k, S))
  BY DEF Snapshot
<1>2. /\ s.cursor \in Seqs(S) \cup {0} /\ s.cursor \in Nat
      /\ \A e \in S : e.seq <= s.cursor
  BY <1>1, HighestProperties
<1>3. ASSUME NEW k \in Key
      PROVE  /\ s.checks[k] \in Seqs(Of(k, S)) \cup {0}
             /\ s.checks[k] \in Nat
             /\ \A e \in Of(k, S) : e.seq <= s.checks[k]
             /\ s.checks[k] <= s.cursor
  <2>1. Of(k, S) \in SUBSET Line /\ Of(k, S) \subseteq S
    BY DEF Of
  <2>2. /\ s.checks[k] \in Seqs(Of(k, S)) \cup {0} /\ s.checks[k] \in Nat
        /\ \A e \in Of(k, S) : e.seq <= s.checks[k]
    BY <1>1, <2>1, HighestProperties
  <2>3. s.checks[k] <= s.cursor
    <3>1. CASE s.checks[k] = 0
      BY <1>2, <3>1
    <3>2. CASE s.checks[k] \in Seqs(Of(k, S))
      BY <1>2, <2>1, <3>2 DEF Seqs
    <3> QED
      BY <2>2, <3>1, <3>2
  <2> QED
    BY <2>2, <2>3
<1>4. \A e \in S : KeyOf(e) \in Key /\ e \in Of(KeyOf(e), S)
  BY DEF Line, KeyOf, Key, Of
<1>5. s \in Frame
  <2>1. s.checks \in [Key -> Nat]
    BY <1>1, <1>3
  <2> HIDE DEF s
  <2> QED
    BY <1>1, <1>2, <2>1 DEF Frame
<1> HIDE DEF s
<1>6. \A e \in S : e.seq <= s.checks[KeyOf(e)]
  BY <1>3, <1>4
<1> QED
  BY <1>1, <1>2, <1>3, <1>5, <1>6 DEF s
-----------------------------------------------------------------------------
(* The job.                                                                *)

(* Before the first connection nothing is written, sent or shown.          *)
LEMMA InitInvariant == Init => IInv
<1> SUFFICES ASSUME Init PROVE IInv
  OBVIOUS
<1> USE DEF Init
<1>1. Types
  BY EmptySeq, FS_EmptySet DEF Types
<1>2. Sources
  BY EmptySeq DEF Sources, IsOf
<1>3. Stamps /\ Handshake /\ ReadBack /\ SnapshotSees /\ Ahead
  BY DEF Stamps, Handshake, ReadBack, SnapshotSees, Ahead
<1>4. DuplicateFree /\ SnapshotKeeps /\ OnlyLateMissed
  BY DEF DuplicateFree, SnapshotKeeps, SnapshotInFlight, OnlyLateMissed
<1> QED
  BY <1>1, <1>2, <1>3, <1>4 DEF IInv

(* What is said of the files stays as long as they do.                     *)
LEMMA FilesStay ==
  ASSUME written' = written
  PROVE  /\ \A e : Forgotten(e)' <=> Forgotten(e)
         /\ \A k, q : IsOf(k, q)' <=> IsOf(k, q)
         /\ \A k : Of(k, written)' = Of(k, written)
  BY DEF Forgotten, Following, IsOf, Of

(* So does what is said of the page and of what is on its way to it.       *)
LEMMA ViewStays ==
  ASSUME UNCHANGED <<written, wire, shown>>
  PROVE  /\ Ground' = Ground
         /\ \A e : Told(e)' <=> Told(e)
         /\ Sources' <=> Sources
         /\ DuplicateFree' <=> DuplicateFree
         /\ SnapshotKeeps' <=> SnapshotKeeps
<1>1. Ground' = Ground /\ (SnapshotInFlight' <=> SnapshotInFlight)
  BY DEF Ground, SnapshotInFlight
<1>2. /\ \A e : Forgotten(e)' <=> Forgotten(e)
      /\ \A k, q : IsOf(k, q)' <=> IsOf(k, q)
      /\ \A k : Of(k, written)' = Of(k, written)
  BY FilesStay
<1>3. \A k, q : Keeps(k, q)' <=> Keeps(k, q)
  BY <1>2 DEF Keeps
<1> QED
  BY <1>1, <1>2, <1>3 DEF Told, KeyOf, Sources, DuplicateFree, FrameSeq, SnapshotKeeps

(* A step that leaves the session's cursor and what is behind it alone.    *)
LEMMA SessionStays ==
  ASSUME IInv, UNCHANGED <<written, wire, shown, subscribed, reading, cursor, late>>
  PROVE  Ahead' /\ OnlyLateMissed'
<1>1. /\ Ground' = Ground
      /\ \A e : Told(e)' <=> Told(e)
      /\ \A e : Forgotten(e)' <=> Forgotten(e)
  BY ViewStays, FilesStay
<1>2. \A q : Past(q)' <=> Past(q)
  BY DEF Past
<1> QED
  BY <1>1, <1>2 DEF IInv, Ahead, FrameSeq, OnlyLateMissed

(* Taking the time changes nothing but what is about to be written.        *)
LEMMA StampPreserves ==
  ASSUME IInv, NEW t \in Tasks, Stamp(t)
  PROVE  IInv'
<1>1. PICK q \in (1..MaxSeq) \ Used, c \in Checks :
        stamped' = stamped \cup {[seq |-> q, task |-> t, check |-> c]}
  BY DEF Stamp
<1>2. UNCHANGED <<written, linkVars, sessionVars, pageVars, pastVars>>
  BY DEF Stamp
<1> USE <1>2 DEF linkVars, sessionVars, pageVars, pastVars
<1>3. Types'
  BY <1>1 DEF IInv, Types, Event
<1>4. Stamps'
  <2>1. \A e \in stamped \cup written : e.seq # q
    BY <1>1 DEF Used, Seqs
  <2>2. \A e \in stamped' : e \in stamped \/ e = [seq |-> q, task |-> t, check |-> c]
    BY <1>1
  <2> QED
    BY <2>1, <2>2 DEF IInv, Stamps
<1>5. Sources' /\ DuplicateFree' /\ SnapshotKeeps'
  BY ViewStays DEF IInv
<1>6. Handshake' /\ SnapshotSees' /\ ReadBack'
  BY FilesStay DEF IInv, Handshake, ReadBack, SnapshotSees, KeyOf
<1>7. Ahead' /\ OnlyLateMissed'
  BY SessionStays
<1> QED
  BY <1>3, <1>4, <1>5, <1>6, <1>7 DEF IInv

(* A line that appears below the cursor of a session that has left its     *)
(* snapshot behind is late.                                                *)
LEMMA WriteLinePreserves ==
  ASSUME IInv, NEW e \in stamped, WriteLine(e)
  PROVE  IInv'
<1>0. PICK x : x = [seq |-> e.seq, task |-> e.task, check |-> e.check,
                    line |-> Cardinality(Lines(e.task)) + 1]
  OBVIOUS
<1>1. /\ stamped' = stamped \ {e} /\ written' = written \cup {x}
      /\ since' = IF reading # "nothing" /\ e.task \notin unread
                    THEN since \cup {x} ELSE since
      /\ late' = IF Past(e.seq) THEN late \cup {x} ELSE late
      /\ UNCHANGED <<linkVars, sessionVars, pageVars>>
  BY <1>0 DEF WriteLine
<1>2. x \in Line /\ x.seq = e.seq /\ x.task = e.task /\ x.seq \in Nat /\ x.seq > 0
  <2>1. Lines(e.task) \subseteq written /\ IsFiniteSet(written)
    BY DEF Lines, IInv, Types
  <2>2. Cardinality(Lines(e.task)) \in Nat
    BY <2>1, PartCounts
  <2>3. e \in Event
    BY DEF IInv, Types
  <2>4. e.seq \in 1..MaxSeq /\ e.task \in Tasks /\ e.check \in Checks
    BY <2>3 DEF Event
  <2> QED
    BY <1>0, <2>2, <2>4, LiveChecksAssumption DEF Line
<1> USE <1>1 DEF linkVars, sessionVars, pageVars
<1>3. Types'
  BY <1>2, FS_AddElement DEF IInv, Types
<1>4. Stamps'
  <2>1. \A f \in written : f.seq # x.seq
    BY <1>2 DEF IInv, Stamps
  <2>2. \A f \in stamped \ {e} : f.seq # x.seq
    BY <1>2 DEF IInv, Stamps
  <2> QED
    BY <2>1, <2>2 DEF IInv, Stamps
<1>5. \A k, q : IsOf(k, q) => IsOf(k, q)'
  BY DEF IsOf
<1>6. \A f : Forgotten(f) => Forgotten(f)'
  BY <1>3, ForgottenStays DEF Types
<1>7. Ground' = Ground /\ (SnapshotInFlight' <=> SnapshotInFlight)
      /\ \A f : Told(f)' <=> Told(f)
  BY DEF Ground, SnapshotInFlight, Told, KeyOf
<1>8. Sources'
  BY <1>5 DEF IInv, Sources
<1>9. Handshake' /\ Ahead' /\ DuplicateFree'
  BY <1>7 DEF IInv, Handshake, Ahead, DuplicateFree, FrameSeq
<1>10. ReadBack'
  <2>1. read' \subseteq written'
    BY DEF IInv, ReadBack
  <2>2. ASSUME reading # "nothing", NEW f \in written', f.task \notin unread
        PROVE  f \in read \/ f \in since' \/ Forgotten(f)'
    <3>1. CASE f \in written
      BY <1>6, <2>2, <3>1 DEF IInv, ReadBack
    <3>2. CASE f = x
      BY <1>2, <2>2, <3>2
    <3> QED
      BY <3>1, <3>2
  <2> QED
    BY <2>1, <2>2 DEF ReadBack
<1>11. SnapshotSees'
  <2>1. \A f \in since' : f \in since \/ f = x
    OBVIOUS
  <2>2. KeyOf(x) \in Key
    BY <1>2 DEF Line, KeyOf, Key
  <2>3. shown[KeyOf(x)] # x.seq
    <3>1. shown[KeyOf(x)] = 0 \/ \E f \in written : f.seq = shown[KeyOf(x)]
      BY <2>2 DEF IInv, Sources, IsOf
    <3>2. \A f \in written : f.seq # x.seq
      BY <1>2 DEF IInv, Stamps
    <3> QED
      BY <1>2, <3>1, <3>2
  <2> QED
    BY <2>1, <2>3 DEF IInv, SnapshotSees, KeyOf
<1>12. \A k, q : Keeps(k, q) => Keeps(k, q)'
  BY <1>6 DEF Keeps, Of
<1>13. SnapshotKeeps'
  BY <1>7, <1>12 DEF IInv, SnapshotKeeps
<1>14. OnlyLateMissed'
  <2>1. \A q : Past(q)' <=> Past(q)
    BY DEF Past
  <2>2. \A f \in written' : f \in written \/ f = x
    OBVIOUS
  <2>3. Past(x.seq) => x \in late'
    BY <1>2
  <2> QED
    BY <1>6, <1>7, <2>1, <2>2, <2>3 DEF IInv, OnlyLateMissed
<1> QED
  BY <1>3, <1>4, <1>8, <1>9, <1>10, <1>11, <1>13, <1>14 DEF IInv

-----------------------------------------------------------------------------
(* The connection.                                                         *)

LEMMA ConnectPreserves == IInv /\ Connect => IInv'
<1> SUFFICES ASSUME IInv, Connect PROVE IInv'
  OBVIOUS
<1> USE DEF Connect, NewSession, jobVars, pageVars
<1>1. Types'
  <2>1. <<checksCursor>> \in Seq(Nat)
    BY DEF IInv, Types
  <2> QED
    BY <2>1 DEF IInv, Types
<1>2. Stamps' /\ Handshake'
  BY DEF IInv, Stamps, Handshake
<1>3. Sources' /\ DuplicateFree' /\ SnapshotKeeps'
  BY ViewStays DEF IInv
<1>4. ReadBack' /\ SnapshotSees' /\ Ahead' /\ OnlyLateMissed'
  BY DEF ReadBack, SnapshotSees, Ahead, OnlyLateMissed, Past
<1> QED
  BY <1>1, <1>2, <1>3, <1>4 DEF IInv

LEMMA DisconnectPreserves == IInv /\ Disconnect => IInv'
<1> SUFFICES ASSUME IInv, Disconnect PROVE IInv'
  OBVIOUS
<1> USE DEF Disconnect, NewSession, jobVars, pageVars
<1>1. Types'
  <2>1. control' \in Seq(Nat) /\ wire' \in Seq(Frame)
    BY EmptySeq
  <2>2. drops \in Nat /\ drops' = drops + 1
    BY DEF IInv, Types
  <2>3. drops' \in Nat
    BY <2>2
  <2>4. conn' \in BOOLEAN /\ subscribed' \in BOOLEAN /\ cursor' \in Nat
        /\ reading' \in {"nothing", "snapshot", "push"}
    OBVIOUS
  <2>5. UNCHANGED <<stamped, written, shown, checksCursor>>
    OBVIOUS
  <2> QED
    BY <2>1, <2>3, <2>4, <2>5 DEF IInv, Types
<1>2. Stamps' /\ Handshake'
  BY DEF IInv, Stamps, Handshake
<1>3. Sources'
  BY FilesStay, EmptySeq DEF IInv, Sources
<1>4. ReadBack' /\ SnapshotSees' /\ Ahead' /\ OnlyLateMissed'
  BY DEF ReadBack, SnapshotSees, Ahead, OnlyLateMissed, Past
<1>5. DuplicateFree' /\ SnapshotKeeps'
  BY EmptySeq DEF DuplicateFree, SnapshotKeeps, SnapshotInFlight
<1> QED
  BY <1>1, <1>2, <1>3, <1>4, <1>5 DEF IInv

-----------------------------------------------------------------------------
(* The session.                                                            *)

(* The session starts from the cursor of the page.                         *)
LEMMA SubscribePreserves == IInv /\ Subscribe => IInv'
<1> SUFFICES ASSUME IInv, Subscribe PROVE IInv'
  OBVIOUS
<1>1. /\ conn /\ ~subscribed /\ wire = <<>> /\ control # <<>> /\ control' = <<>>
      /\ subscribed' = TRUE /\ cursor' = Head(control)
      /\ reading' = "snapshot" /\ unread' = Tasks /\ read' = {} /\ since' = {}
      /\ UNCHANGED <<stamped, written, conn, drops, wire, shown, checksCursor, late>>
  BY DEF Subscribe, StartReading, jobVars, pageVars, IInv, Handshake
<1>2. Types'
  <2>1. control' \in Seq(Nat)
    BY <1>1, EmptySeq
  <2>2. cursor' \in Nat
    BY <1>1, HeadTailProperties DEF IInv, Types
  <2>3. subscribed' \in BOOLEAN /\ reading' \in {"nothing", "snapshot", "push"}
    BY <1>1
  <2> QED
    BY <1>1, <2>1, <2>2, <2>3 DEF IInv, Types
<1>3. Sources' /\ DuplicateFree' /\ SnapshotKeeps'
  BY <1>1, ViewStays DEF IInv
<1>4. Stamps'
  BY <1>1 DEF IInv, Stamps
<1>5. ReadBack'
  <2>1. \A e \in written : e.task \in Tasks
    BY DEF IInv, Types, Line
  <2> QED
    BY <1>1, <2>1 DEF ReadBack
<1>6. Handshake' /\ SnapshotSees' /\ Ahead' /\ OnlyLateMissed'
  BY <1>1 DEF Handshake, SnapshotSees, Ahead, OnlyLateMissed, Past
<1> QED
  BY <1>2, <1>3, <1>4, <1>5, <1>6 DEF IInv

LEMMA ServicePreserves == IInv /\ Service => IInv'
<1> SUFFICES ASSUME IInv, Service PROVE IInv'
  OBVIOUS
<1>1. /\ conn /\ subscribed /\ reading = "nothing" /\ control = <<>>
      /\ reading' = "push" /\ unread' = Tasks /\ read' = {} /\ since' = {}
      /\ UNCHANGED <<stamped, written, conn, drops, control, wire, subscribed, cursor,
                     shown, checksCursor, late>>
  BY DEF Service, StartReading, jobVars, linkVars, pageVars
<1>2. Types' /\ Stamps'
  BY <1>1 DEF IInv, Types, Stamps
<1>3. Sources' /\ DuplicateFree' /\ SnapshotKeeps'
  BY <1>1, ViewStays DEF IInv
<1>4. ReadBack'
  <2>1. \A e \in written : e.task \in Tasks
    BY DEF IInv, Types, Line
  <2> QED
    BY <1>1, <2>1 DEF ReadBack
<1>5. Handshake' /\ SnapshotSees'
  BY <1>1 DEF IInv, Handshake, SnapshotSees
<1>6. /\ Ground' = Ground
      /\ \A e : Told(e)' <=> Told(e)
      /\ \A e : Forgotten(e)' <=> Forgotten(e)
  BY <1>1, ViewStays, FilesStay
<1>7. \A q : Past(q)' <=> Past(q)
  BY <1>1 DEF Past
<1>8. Ahead' /\ OnlyLateMissed'
  BY <1>1, <1>6, <1>7 DEF IInv, Ahead, FrameSeq, OnlyLateMissed
<1> QED
  BY <1>2, <1>3, <1>4, <1>5, <1>8 DEF IInv

(* The lines of the file that are not read have too many after them.       *)
LEMMA ReadFilePreserves ==
  ASSUME IInv, NEW t \in Tasks, ReadFile(t)
  PROVE  IInv'
<1>1. /\ unread' = unread \ {t}
      /\ read' = read \cup LastLines(t)
      /\ UNCHANGED <<stamped, written, conn, drops, control, wire, subscribed, cursor,
                     reading, shown, checksCursor, since, late>>
  BY DEF ReadFile, jobVars, linkVars, pageVars, pastVars
<1>2. Types' /\ Stamps' /\ Handshake' /\ SnapshotSees'
  BY <1>1 DEF IInv, Types, Stamps, Handshake, SnapshotSees, KeyOf
<1>3. Sources' /\ DuplicateFree' /\ SnapshotKeeps'
  BY <1>1, ViewStays DEF IInv
<1>4. ReadBack'
  <2>1. LastLines(t) \subseteq written
    BY DEF LastLines, Lines
  <2>2. \A e \in written : e.task = t => e \in LastLines(t) \/ Forgotten(e)
    <3> SUFFICES ASSUME NEW e \in written, e.task = t, e \notin LastLines(t)
                 PROVE  Forgotten(e)
      OBVIOUS
    <3>1. ~(Cardinality(Following(e)) < KeptOfFile)
      BY DEF LastLines, Lines
    <3>2. Following(e) \subseteq written
      BY DEF Following
    <3>3. Cardinality(Following(e)) \in Nat
      BY <3>2, PartCounts DEF IInv, Types
    <3>4. Cardinality(Following(e)) >= KeptOfFile
      BY <3>1, <3>3, LiveChecksAssumption
    <3> QED
      BY <3>4 DEF Forgotten
  <2>3. \A e : Forgotten(e)' <=> Forgotten(e)
    BY <1>1, FilesStay
  <2>4. read' \subseteq written'
    BY <1>1, <2>1 DEF IInv, ReadBack
  <2>5. ASSUME reading # "nothing", NEW e \in written, e.task \notin unread'
        PROVE  e \in read' \/ e \in since \/ Forgotten(e)
    <3>1. CASE e.task = t
      BY <1>1, <2>2, <3>1
    <3>2. CASE e.task # t
      BY <1>1, <2>5, <3>2 DEF IInv, ReadBack
    <3> QED
      BY <3>1, <3>2
  <2> QED
    BY <1>1, <2>3, <2>4, <2>5 DEF ReadBack
<1>5. Ahead' /\ OnlyLateMissed'
  BY <1>1, SessionStays
<1> QED
  BY <1>2, <1>3, <1>4, <1>5 DEF IInv

(* The snapshot says all that was read: of what it takes the cursor past,  *)
(* only the lines that came since are left out.                            *)
LEMMA SendSnapshotPreserves == IInv /\ SendSnapshot => IInv'
<1> SUFFICES ASSUME IInv, SendSnapshot PROVE IInv'
  OBVIOUS
<1>0. PICK s : s = Snapshot(Recent(read))
  OBVIOUS
<1>1. /\ reading = "snapshot" /\ unread = {} /\ subscribed /\ conn /\ control = <<>>
      /\ wire = <<>>
      /\ cursor' = Max({cursor, s.cursor})
      /\ wire' = Append(wire, s)
      /\ reading' = "push" /\ unread' = Tasks /\ read' = {} /\ since' = {}
      /\ late' = late \cup {e \in since : e.seq <= cursor'}
      /\ UNCHANGED <<stamped, written, conn, drops, control, subscribed, shown, checksCursor>>
  BY <1>0 DEF SendSnapshot, StartReading, ResumeFrom, Missed, jobVars, pageVars, IInv, Handshake
<1>2. /\ Recent(read) \subseteq read /\ read \subseteq written
      /\ \A e \in read : e \in Recent(read) \/ Forgotten(e)
  BY RecentProperties DEF IInv, ReadBack
<1>3. /\ s \in Frame /\ s.type = "checks" /\ s.cursor \in Nat
      /\ \A e \in Recent(read) : e.seq <= s.checks[KeyOf(e)]
      /\ \A k \in Key : /\ s.checks[k] \in Seqs(Of(k, Recent(read))) \cup {0}
                        /\ s.checks[k] \in Nat /\ s.checks[k] <= s.cursor
  <2>1. Recent(read) \in SUBSET Line
    BY <1>2 DEF IInv, Types
  <2> QED
    BY <1>0, <2>1, SnapshotProperties
<1>4. /\ cursor' \in Nat /\ s.cursor <= cursor'
  BY <1>1, <1>3, MaxOfTwo DEF IInv, Types
<1>5. /\ wire' \in Seq(Frame) /\ Len(wire') = 1 /\ wire'[1] = s /\ wire' # <<>>
      /\ DOMAIN wire' = 1..1
  <2>1. wire' = <<s>>
    BY <1>1
  <2> QED
    BY <1>3, <2>1
<1>6. Types'
  <2>1. reading' \in {"nothing", "snapshot", "push"}
    BY <1>1
  <2> QED
    BY <1>1, <1>4, <1>5, <2>1 DEF IInv, Types
<1>7. Stamps' /\ Handshake' /\ SnapshotSees'
  BY <1>1 DEF IInv, Stamps, Handshake, SnapshotSees
<1>8. ReadBack'
  <2>1. \A e \in written : e.task \in Tasks
    BY DEF IInv, Types, Line
  <2> QED
    BY <1>1, <2>1 DEF ReadBack
<1>9. Sources'
  <2>1. \A k \in Key : IsOf(k, s.checks[k])
    BY <1>2, <1>3 DEF IsOf, Seqs, Of
  <2>2. \A i \in 1..Len(wire') : wire'[i] = s
    BY <1>5
  <2>3. \A k, q : IsOf(k, q)' <=> IsOf(k, q)
    BY <1>1, FilesStay
  <2> QED
    BY <1>1, <1>3, <2>1, <2>2, <2>3 DEF IInv, Sources
<1>10. Ground' = s.checks /\ SnapshotInFlight'
  BY <1>3, <1>5 DEF Ground, SnapshotInFlight
<1>11. Ahead'
  <2>1. \A k \in Key : s.checks[k] <= cursor'
    BY <1>3, <1>4
  <2>2. \A i \in 1..Len(wire') : i = 1 /\ wire'[i] = s
    BY <1>5
  <2>3. FrameSeq(s) <= cursor'
    BY <1>3, <1>4 DEF FrameSeq
  <2> QED
    BY <1>10, <2>1, <2>2, <2>3 DEF Ahead, FrameSeq
<1>12. DuplicateFree'
  <2>1. \A i \in DOMAIN wire' : wire'[i].type # "check"
    BY <1>3, <1>5
  <2> QED
    BY <2>1 DEF DuplicateFree
<1>13. ASSUME NEW e \in written
       PROVE  s.checks[KeyOf(e)] >= e.seq \/ Forgotten(e) \/ e \in since
  <2>1. e \in read \/ e \in since \/ Forgotten(e)
    BY <1>1 DEF IInv, ReadBack
  <2>2. e.seq \in Nat /\ KeyOf(e) \in Key
    BY LiveChecksAssumption DEF IInv, Types, Line, KeyOf, Key
  <2>3. e \in Recent(read) => s.checks[KeyOf(e)] >= e.seq
    BY <1>3, <2>2
  <2> QED
    BY <1>2, <2>1, <2>3
<1>14. SnapshotKeeps'
  <2>0. \A k, q : Keeps(k, q)' <=> Keeps(k, q)
    BY <1>1, FilesStay DEF Keeps
  <2> SUFFICES ASSUME NEW k \in Key PROVE Keeps(k, s.checks[k])
    BY <1>5, <2>0 DEF SnapshotKeeps
  <2>1. shown[k] \in Nat /\ s.checks[k] \in Nat
    BY <1>3 DEF IInv, Types
  <2>2. CASE shown[k] = 0
    BY <2>1, <2>2 DEF Keeps
  <2>3. CASE shown[k] # 0
    <3>1. PICK e \in written : KeyOf(e) = k /\ e.seq = shown[k]
      BY <2>3 DEF IInv, Sources, IsOf
    <3>2. e \notin since
      BY <1>1, <3>1 DEF IInv, SnapshotSees
    <3>3. s.checks[k] >= shown[k] \/ Forgotten(e)
      BY <1>13, <3>1, <3>2
    <3>4. e \in Of(k, written)
      BY <3>1 DEF Of
    <3> QED
      BY <3>1, <3>3, <3>4 DEF Keeps
  <2> QED
    BY <2>2, <2>3
<1>15. OnlyLateMissed'
  <2> SUFFICES ASSUME NEW e \in written, Past(e.seq)'
               PROVE  Told(e)' \/ Forgotten(e) \/ e \in late'
    BY <1>1, FilesStay DEF OnlyLateMissed
  <2>1. e.seq <= cursor'
    BY DEF Past
  <2>2. s.checks[KeyOf(e)] >= e.seq => Told(e)'
    BY <1>10 DEF Told, KeyOf
  <2>3. e \in since => e \in late'
    BY <1>1, <2>1
  <2> QED
    BY <1>13, <2>2, <2>3
<1> QED
  BY <1>6, <1>7, <1>8, <1>9, <1>11, <1>12, <1>14, <1>15 DEF IInv

(* What the frames in flight come on top of is a number for every check.   *)
LEMMA GroundType == ASSUME Types PROVE Ground \in [Key -> Nat]
<1>1. CASE SnapshotInFlight
  <2>1. wire # <<>> /\ wire[1] \in Frame /\ wire[1].type = "checks"
    BY <1>1 DEF SnapshotInFlight, Types
  <2>2. wire[1].checks \in [Key -> Nat]
    BY <2>1 DEF Frame
  <2> QED
    BY <1>1, <2>2 DEF Ground
<1>2. CASE ~SnapshotInFlight
  BY <1>2 DEF Ground, Types
<1> QED
  BY <1>1, <1>2

(* The events past the cursor follow all that was sent, and all that was   *)
(* read past it is among them.                                             *)
LEMMA PushChecksPreserves == IInv /\ PushChecks => IInv'
<1> SUFFICES ASSUME IInv, PushChecks PROVE IInv'
  OBVIOUS
<1>0. PICK fresh : fresh = Fresh(Recent(read))
  OBVIOUS
<1> DEFINE F == {e \in Recent(read) : e.seq > cursor}
           frames == [i \in DOMAIN fresh |-> [type |-> "check", event |-> fresh[i]]]
           n == Len(fresh)
           m == Len(wire)
<1>1. /\ reading = "push" /\ subscribed /\ reading' = "nothing" /\ read' = {}
      /\ wire' = wire \o frames
      /\ cursor' = IF fresh = <<>> THEN cursor ELSE Last(fresh).seq
      /\ unread = {} /\ since' = {}
      /\ late' = late \cup {e \in since : e.seq <= cursor'}
      /\ UNCHANGED <<stamped, written, conn, drops, control, subscribed, unread, shown,
                     checksCursor>>
  BY <1>0 DEF PushChecks, Missed, jobVars, pageVars, IInv, Handshake
<1>2. /\ Recent(read) \subseteq read /\ read \subseteq written /\ Distinct(Recent(read))
      /\ \A e \in read : e \in Recent(read) \/ Forgotten(e)
  BY RecentProperties DEF IInv, ReadBack
<1>3. /\ fresh \in Seq(F) /\ F \subseteq written
      /\ \A i, j \in 1..n : i < j => fresh[i].seq < fresh[j].seq
      /\ \A e \in F : \E i \in 1..n : fresh[i] = e
  <2>1. Distinct(F) /\ F \subseteq written
    BY <1>2, PartDistinct
  <2>2. fresh = Sorted(F)
    BY <1>0 DEF Fresh
  <2> HIDE DEF F
  <2> QED
    BY <2>1, <2>2, SortedProperties
<1>4. \A e \in written : e \in Line /\ e.seq \in Nat /\ e.seq > 0 /\ KeyOf(e) \in Key
  BY LiveChecksAssumption DEF IInv, Types, Line, KeyOf, Key
<1>5. n \in Nat /\ m \in Nat /\ DOMAIN fresh = 1..n
      /\ \A i \in 1..n : fresh[i] \in F
  BY <1>3 DEF IInv, Types
<1>6. \A i \in 1..n : frames[i].type = "check" /\ frames[i].event = fresh[i]
  BY <1>5
<1>7. frames \in Seq(Frame) /\ Len(frames) = n
  <2>1. \A i \in 1..n : [type |-> "check", event |-> fresh[i]] \in Frame
    BY <1>3, <1>4, <1>5 DEF Frame
  <2> HIDE DEF F, n
  <2> QED
    BY <1>5, <2>1, IsASeq
<1> HIDE DEF frames, F
<1>8. /\ wire' \in Seq(Frame) /\ Len(wire') = m + n
      /\ \A i \in 1..m : wire'[i] = wire[i]
      /\ \A i \in 1..n : wire'[m + i] = frames[i]
  <2>1. wire \in Seq(Frame)
    BY DEF IInv, Types
  <2>2. /\ wire \o frames \in Seq(Frame)
        /\ Len(wire \o frames) = Len(wire) + Len(frames)
        /\ \A i \in 1..Len(wire) + Len(frames) :
             (wire \o frames)[i] = IF i <= Len(wire) THEN wire[i] ELSE frames[i - Len(wire)]
    BY <1>7, <2>1, ConcatProperties
  <2>3. \A i \in 1..m : i \in 1..Len(wire) + Len(frames) /\ i <= Len(wire)
    BY <1>5, <1>7
  <2>4. \A i \in 1..n : /\ m + i \in 1..Len(wire) + Len(frames)
                        /\ ~(m + i <= Len(wire)) /\ (m + i) - Len(wire) = i
    BY <1>5, <1>7
  <2> QED
    BY <1>1, <1>7, <2>2, <2>3, <2>4
<1> HIDE DEF n, m
<1>9. \A i \in 1..Len(wire') : i \in 1..m \/ \E p \in 1..n : i = m + p
  <2> SUFFICES ASSUME NEW i \in 1..Len(wire'), i \notin 1..m PROVE \E p \in 1..n : i = m + p
    OBVIOUS
  <2>1. i - m \in 1..n /\ i = m + (i - m)
    BY <1>5, <1>8
  <2> QED
    BY <2>1
<1>10. /\ cursor' \in Nat /\ cursor <= cursor'
       /\ \A i \in 1..n : fresh[i] \in written /\ fresh[i].seq > cursor
                            /\ fresh[i].seq <= cursor'
       /\ cursor' # cursor => n \in 1..n /\ fresh[n].seq = cursor'
  <2>1. CASE fresh = <<>>
    <3>1. n = 0
      BY <2>1 DEF n
    <3> QED
      BY <1>1, <2>1, <3>1 DEF IInv, Types
  <2>2. CASE fresh # <<>>
    <3>1. n \in 1..n /\ cursor' = fresh[n].seq
      BY <1>1, <1>3, <2>2 DEF n, Last
    <3>2. ASSUME NEW i \in 1..n
          PROVE  /\ fresh[i] \in written /\ fresh[i].seq > cursor
                 /\ fresh[i].seq <= cursor' /\ cursor' \in Nat /\ cursor <= cursor'
      <4>1. /\ fresh[i] \in written /\ fresh[i].seq > cursor /\ fresh[i].seq \in Nat
            /\ fresh[n] \in written /\ fresh[n].seq > cursor /\ fresh[n].seq \in Nat
        BY <1>3, <1>4, <1>5, <3>1 DEF F
      <4>2. i < n \/ i = n
        BY <1>5
      <4>3. i < n => fresh[i].seq < fresh[n].seq
        BY <1>3, <3>1
      <4>4. cursor \in Nat
        BY DEF IInv, Types
      <4> QED
        BY <3>1, <4>1, <4>2, <4>3, <4>4
    <3> QED
      BY <3>1, <3>2
  <2> QED
    BY <2>1, <2>2
<1>11. Types'
  <2>1. reading' \in {"nothing", "snapshot", "push"}
    BY <1>1
  <2> QED
    BY <1>1, <1>8, <1>10, <2>1 DEF IInv, Types
<1>12. Stamps' /\ Handshake' /\ ReadBack' /\ SnapshotSees'
  <2>1. read' \subseteq written'
    BY <1>1
  <2> QED
    BY <1>1, <2>1 DEF IInv, Stamps, Handshake, ReadBack, SnapshotSees
<1>13. Sources'
  <2>1. \A k, q : IsOf(k, q)' <=> IsOf(k, q)
    BY <1>1, FilesStay
  <2>2. ASSUME NEW i \in 1..Len(wire')
        PROVE  /\ wire'[i].type = "check" => wire'[i].event \in written
               /\ wire'[i].type = "checks" => \A k \in Key : IsOf(k, wire'[i].checks[k])
    <3>1. CASE i \in 1..m
      <4>1. wire'[i] = wire[i] /\ i \in 1..Len(wire)
        BY <1>8, <3>1 DEF m
      <4> QED
        BY <4>1 DEF IInv, Sources
    <3>2. \A p \in 1..n : wire'[m + p].type = "check" /\ wire'[m + p].event \in written
      BY <1>6, <1>8, <1>10
    <3> QED
      BY <1>9, <3>1, <3>2
  <2> QED
    BY <1>1, <2>1, <2>2 DEF IInv, Sources
<1>14. Ground' = Ground /\ (SnapshotInFlight' => SnapshotInFlight /\ wire'[1] = wire[1])
  <2>1. CASE m = 0
    <3>1. wire = <<>>
      BY <2>1 DEF IInv, Types, m
    <3>2. wire' # <<>> => 1 \in 1..n
      BY <1>5, <1>8, <2>1
    <3>3. wire' # <<>> => wire'[m + 1].type = "check" /\ m + 1 = 1
      BY <1>6, <1>8, <2>1, <3>2
    <3>4. wire' # <<>> => wire'[1].type = "check"
      BY <3>3
    <3> QED
      BY <1>1, <3>1, <3>4 DEF Ground, SnapshotInFlight
  <2>2. CASE m # 0
    <3>1. 1 \in 1..m /\ wire # <<>>
      BY <1>5, <2>2 DEF IInv, Types, m
    <3>2. wire'[1] = wire[1]
      BY <1>8, <3>1
    <3>3. wire' # <<>>
      BY <1>5, <1>8, <2>2
    <3> QED
      BY <1>1, <3>1, <3>2, <3>3 DEF Ground, SnapshotInFlight
  <2> QED
    BY <2>1, <2>2
<1>15. Ahead'
  <2>0. cursor \in Nat /\ cursor' \in Nat
    BY <1>10 DEF IInv, Types
  <2>1. \A k \in Key : Ground[k] <= cursor'
    <3> SUFFICES ASSUME NEW k \in Key PROVE Ground[k] <= cursor'
      OBVIOUS
    <3>1. Ground[k] <= cursor
      BY <1>1 DEF IInv, Ahead
    <3>2. Ground[k] \in Nat
      BY GroundType DEF IInv
    <3> QED
      BY <1>10, <2>0, <3>1, <3>2
  <2>2. ASSUME NEW i \in 1..m
        PROVE  FrameSeq(wire[i]) <= cursor' /\ (wire[i].type = "checks" => i = 1)
    <3>1. FrameSeq(wire[i]) <= cursor /\ (wire[i].type = "checks" => i = 1)
      BY <1>1 DEF IInv, Ahead, m
    <3>2. FrameSeq(wire[i]) \in Nat
      BY <1>4, LiveChecksAssumption DEF IInv, Types, Frame, FrameSeq, Line, m
    <3> QED
      BY <1>10, <2>0, <3>1, <3>2
  <2>3. \A i \in 1..n : FrameSeq(frames[i]) <= cursor' /\ frames[i].type # "checks"
    BY <1>6, <1>10 DEF FrameSeq
  <2>4. \A i \in 1..Len(wire') : /\ FrameSeq(wire'[i]) <= cursor'
                                 /\ wire'[i].type = "checks" => i = 1
    BY <1>8, <1>9, <2>2, <2>3
  <2> QED
    BY <1>14, <2>1, <2>4 DEF Ahead, FrameSeq
<1>16. DuplicateFree'
  <2> SUFFICES ASSUME NEW i \in 1..Len(wire'), wire'[i].type = "check"
               PROVE  /\ \A k \in Key : Ground[k] < FrameSeq(wire'[i])
                      /\ \A j \in 1..(i - 1) : FrameSeq(wire'[j]) < FrameSeq(wire'[i])
    <3>1. DOMAIN wire' = 1..Len(wire')
      BY <1>8
    <3> QED
      BY <1>14, <3>1 DEF DuplicateFree, FrameSeq
  <2>1. CASE i \in 1..m
    <3>1. DOMAIN wire = 1..m /\ \A j \in 1..(i - 1) : j \in 1..m
      BY <1>5, <2>1 DEF IInv, Types, m
    <3> QED
      BY <1>8, <2>1, <3>1 DEF IInv, DuplicateFree
  <2>2. ASSUME NEW p \in 1..n, i = m + p
        PROVE  /\ \A k \in Key : Ground[k] < FrameSeq(wire'[i])
               /\ \A j \in 1..(i - 1) : FrameSeq(wire'[j]) < FrameSeq(wire'[i])
    <3>1. FrameSeq(wire'[i]) = fresh[p].seq
      BY <1>6, <1>8, <2>2 DEF FrameSeq
    <3>2. fresh[p].seq \in Nat /\ fresh[p].seq > cursor /\ cursor \in Nat
      BY <1>4, <1>10 DEF IInv, Types
    <3>3. ASSUME NEW j \in 1..m PROVE FrameSeq(wire'[j]) < fresh[p].seq
      <4>1. FrameSeq(wire[j]) <= cursor
        BY <1>1 DEF IInv, Ahead, m
      <4>2. FrameSeq(wire[j]) \in Nat
        BY <1>4, LiveChecksAssumption DEF IInv, Types, Frame, FrameSeq, Line, m
      <4> QED
        BY <1>8, <3>2, <4>1, <4>2
    <3>4. ASSUME NEW q \in 1..n, q < p PROVE FrameSeq(wire'[m + q]) < fresh[p].seq
      <4>1. wire'[m + q].type = "check" /\ wire'[m + q].event = fresh[q]
        BY <1>6, <1>8
      <4> QED
        BY <1>3, <3>4, <4>1 DEF FrameSeq, n
    <3>5. ASSUME NEW j \in 1..(i - 1) PROVE j \in 1..m \/ \E q \in 1..n : j = m + q /\ q < p
      <4> SUFFICES ASSUME j \notin 1..m PROVE j - m \in 1..n /\ j - m < p /\ j = m + (j - m)
        OBVIOUS
      <4> QED
        BY <1>5, <2>2
    <3>6. ASSUME NEW k \in Key PROVE Ground[k] < fresh[p].seq
      <4>1. Ground[k] <= cursor
        BY <1>1 DEF IInv, Ahead
      <4>2. Ground[k] \in Nat
        BY GroundType DEF IInv
      <4> QED
        BY <3>2, <4>1, <4>2
    <3> QED
      BY <3>1, <3>3, <3>4, <3>5, <3>6
  <2> QED
    BY <1>9, <2>1, <2>2
<1>17. SnapshotKeeps'
  <2>1. \A k, q : Keeps(k, q)' <=> Keeps(k, q)
    BY <1>1, FilesStay DEF Keeps
  <2> QED
    BY <1>14, <2>1 DEF IInv, SnapshotKeeps
<1>18. OnlyLateMissed'
  <2> SUFFICES ASSUME NEW e \in written, e.seq <= cursor'
               PROVE  Told(e)' \/ Forgotten(e) \/ e \in late'
    BY <1>1, FilesStay DEF OnlyLateMissed, Past
  <2>1. CASE e.seq <= cursor
    <3>1. Told(e) \/ Forgotten(e) \/ e \in late
      BY <1>1, <2>1 DEF IInv, OnlyLateMissed, Past
    <3>2. ASSUME NEW i \in DOMAIN wire, wire[i].type = "check", wire[i].event = e
          PROVE  Told(e)'
      <4>0. i \in 1..m
        BY <3>2 DEF IInv, Types, m
      <4>1. i \in DOMAIN wire' /\ wire'[i] = wire[i]
        BY <1>5, <1>8, <4>0
      <4> QED
        BY <3>2, <4>1 DEF Told
    <3>3. Ground[KeyOf(e)] >= e.seq => Told(e)'
      BY <1>14 DEF Told, KeyOf
    <3> QED
      BY <1>1, <3>1, <3>2, <3>3 DEF Told
  <2>2. CASE ~(e.seq <= cursor)
    <3>1. e \in read \/ e \in since \/ Forgotten(e)
      BY <1>1 DEF IInv, ReadBack
    <3>2. ASSUME e \in Recent(read) PROVE Told(e)'
      <4>1. e.seq > cursor
        BY <1>4, <2>2 DEF IInv, Types
      <4>2. PICK i \in 1..n : fresh[i] = e
        BY <1>3, <3>2, <4>1 DEF F
      <4>3. wire'[m + i].type = "check" /\ wire'[m + i].event = e
        BY <1>6, <1>8, <4>2
      <4>4. m + i \in DOMAIN wire'
        BY <1>5, <1>8
      <4> QED
        BY <4>3, <4>4 DEF Told
    <3>3. e \in since => e \in late'
      BY <1>1
    <3> QED
      BY <1>2, <3>1, <3>2, <3>3
  <2> QED
    BY <2>1, <2>2
<1> QED
  BY <1>11, <1>12, <1>13, <1>15, <1>16, <1>17, <1>18 DEF IInv

-----------------------------------------------------------------------------
(* The page.                                                               *)

(* What a frame does to the page: it takes the first frame's place in what *)
(* the others come on top of.                                              *)
LEMMA ReceiveShows ==
  ASSUME IInv, Receive
  PROVE  /\ subscribed /\ reading # "snapshot" /\ wire # <<>>
         /\ wire' = Tail(wire)
         /\ UNCHANGED <<stamped, written, conn, drops, control, subscribed, cursor, reading,
                        unread, read, since, late>>
         /\ checksCursor' \in Nat
         /\ shown' \in [Key -> Nat]
         /\ \A k \in Key : /\ Keeps(k, shown'[k]) /\ IsOf(k, shown'[k])
                           /\ shown'[k] <= cursor
                           /\ shown'[k] = Ground[k]
                                \/ (wire[1].type = "check" /\ shown'[k] = FrameSeq(wire[1]))
         /\ \A e \in written :
              \/ wire[1].type = "check" /\ wire[1].event = e
              \/ Ground[KeyOf(e)] >= e.seq
              => shown'[KeyOf(e)] >= e.seq
<1>1. /\ wire # <<>> /\ wire' = Tail(wire)
      /\ UNCHANGED <<stamped, written, conn, drops, control, subscribed, cursor, reading,
                     unread, read, since, late>>
  BY DEF Receive, jobVars, sessionVars, pastVars
<1>2. subscribed /\ reading # "snapshot"
  BY <1>1 DEF IInv, Handshake
<1>3. 1 \in 1..Len(wire) /\ wire[1] \in Frame /\ Head(wire) = wire[1]
  BY <1>1 DEF IInv, Types
<1>4. \A e \in written : e \in Line /\ e.seq \in Nat /\ e.seq > 0 /\ KeyOf(e) \in Key
  BY LiveChecksAssumption DEF IInv, Types, Line, KeyOf, Key
<1>5. checksCursor \in Nat /\ shown \in [Key -> Nat] /\ cursor \in Nat
  BY DEF IInv, Types
<1>6. \A k \in Key : Ground[k] <= cursor
  BY <1>2 DEF IInv, Ahead
<1>7. CASE wire[1].type = "checks"
  <2>1. wire[1].cursor \in Nat /\ wire[1].checks \in [Key -> Nat]
    BY <1>3, <1>7 DEF Frame
  <2>2. shown' = wire[1].checks /\ checksCursor' = Max({checksCursor, Rounded(wire[1].cursor)})
    BY <1>3, <1>7 DEF Receive
  <2>3. checksCursor' \in Nat
    BY <1>5, <2>1, <2>2, RoundedType, MaxOfTwo
  <2>4. SnapshotInFlight /\ Ground = shown'
    BY <1>1, <1>7, <2>2 DEF SnapshotInFlight, Ground
  <2>5. \A k \in Key : Keeps(k, shown'[k])
    BY <2>2, <2>4 DEF IInv, SnapshotKeeps
  <2>6. \A k \in Key : IsOf(k, shown'[k])
    BY <1>3, <1>7, <2>2 DEF IInv, Sources
  <2> QED
    BY <1>1, <1>2, <1>6, <1>7, <2>1, <2>2, <2>3, <2>4, <2>5, <2>6
<1>8. CASE wire[1].type = "check"
  <2>0. PICK f \in written : f = wire[1].event
    BY <1>3, <1>8 DEF IInv, Sources
  <2>1. FrameSeq(wire[1]) = f.seq
    BY <1>8, <2>0 DEF FrameSeq
  <2>2. /\ shown' = [shown EXCEPT ![KeyOf(f)] = f.seq]
        /\ checksCursor' = Max({checksCursor, Rounded(f.seq)})
    BY <1>3, <1>8, <2>0 DEF Receive
  <2>3. checksCursor' \in Nat
    BY <1>4, <1>5, <2>2, RoundedType, MaxOfTwo
  <2>4. Ground = shown
    BY <1>8 DEF SnapshotInFlight, Ground
  <2>5. \A k \in Key : shown[k] < f.seq
    <3>1. 1 \in DOMAIN wire
      BY <1>3 DEF IInv, Types
    <3> QED
      BY <1>8, <2>1, <2>4, <3>1 DEF IInv, DuplicateFree
  <2>6. f.seq <= cursor
    BY <1>2, <1>3, <2>1 DEF IInv, Ahead
  <2>7. \A k \in Key : shown'[k] = IF k = KeyOf(f) THEN f.seq ELSE shown[k]
    BY <1>5, <2>2
  <2>8. shown' \in [Key -> Nat]
    BY <1>4, <1>5, <2>2
  <2>9. IsOf(KeyOf(f), f.seq)
    BY DEF IsOf
  <2>10. ASSUME NEW k \in Key
         PROVE  /\ Keeps(k, shown'[k]) /\ IsOf(k, shown'[k]) /\ shown'[k] <= cursor
                /\ shown'[k] = Ground[k] \/ shown'[k] = f.seq
    <3>1. shown[k] \in Nat /\ IsOf(k, shown[k])
      BY <1>5 DEF IInv, Sources
    <3>2. shown[k] <= cursor
      BY <1>6, <2>4
    <3>3. shown'[k] >= shown[k]
      BY <1>4, <2>5, <2>7, <3>1
    <3> QED
      BY <2>4, <2>6, <2>7, <2>9, <3>1, <3>2, <3>3 DEF Keeps
  <2>11. ASSUME NEW e \in written, wire[1].event = e \/ Ground[KeyOf(e)] >= e.seq
         PROVE  shown'[KeyOf(e)] >= e.seq
    <3>1. CASE wire[1].event = e
      BY <1>4, <2>0, <2>7, <3>1
    <3>2. CASE Ground[KeyOf(e)] >= e.seq
      <4>1. shown[KeyOf(e)] < f.seq /\ shown[KeyOf(e)] >= e.seq /\ shown[KeyOf(e)] \in Nat
        BY <1>4, <1>5, <2>4, <2>5, <3>2
      <4> QED
        BY <1>4, <2>7, <4>1
    <3> QED
      BY <2>11, <3>1, <3>2
  <2> QED
    BY <1>1, <1>2, <1>8, <2>1, <2>3, <2>8, <2>10, <2>11
<1> QED
  BY <1>3, <1>7, <1>8 DEF Frame

(* A frame received leaves the others newer than the page.                 *)
LEMMA ReceivePreserves == IInv /\ Receive => IInv'
<1> SUFFICES ASSUME IInv, Receive PROVE IInv'
  OBVIOUS
<1> DEFINE m == Len(wire)
<1>1. /\ subscribed /\ reading # "snapshot" /\ wire # <<>> /\ wire' = Tail(wire)
      /\ UNCHANGED <<stamped, written, conn, drops, control, subscribed, cursor, reading,
                     unread, read, since, late>>
      /\ checksCursor' \in Nat
      /\ shown' \in [Key -> Nat]
      /\ \A k \in Key : /\ Keeps(k, shown'[k]) /\ IsOf(k, shown'[k])
                        /\ shown'[k] <= cursor
                        /\ shown'[k] = Ground[k]
                             \/ (wire[1].type = "check" /\ shown'[k] = FrameSeq(wire[1]))
      /\ \A e \in written :
           \/ wire[1].type = "check" /\ wire[1].event = e
           \/ Ground[KeyOf(e)] >= e.seq
           => shown'[KeyOf(e)] >= e.seq
  BY ReceiveShows
<1>2. wire \in Seq(Frame) /\ m \in Nat /\ 1 \in 1..m /\ DOMAIN wire = 1..m
  BY <1>1 DEF IInv, Types
<1>3. /\ wire' \in Seq(Frame) /\ Len(wire') = m - 1 /\ DOMAIN wire' = 1..(m - 1)
      /\ \A i \in 1..(m - 1) : i + 1 \in 1..m /\ wire'[i] = wire[i + 1]
  BY <1>1, <1>2
<1>4. \A e \in written : e \in Line /\ e.seq \in Nat /\ e.seq > 0 /\ KeyOf(e) \in Key
  BY LiveChecksAssumption DEF IInv, Types, Line, KeyOf, Key
<1>5. \A i \in 1..m : FrameSeq(wire[i]) <= cursor /\ (wire[i].type = "checks" => i = 1)
  BY <1>1 DEF IInv, Ahead
<1>6. \A i \in 1..(m - 1) : wire'[i].type = "check" /\ wire'[i].event \in written
  <2> SUFFICES ASSUME NEW i \in 1..(m - 1) PROVE wire'[i].type = "check" /\ wire'[i].event \in written
    OBVIOUS
  <2>1. wire'[i] = wire[i + 1] /\ i + 1 \in 1..m /\ i + 1 # 1
    BY <1>3
  <2>2. wire[i + 1].type = "check"
    BY <1>2, <1>5, <2>1 DEF Frame
  <2> QED
    BY <2>1, <2>2 DEF IInv, Sources
<1> HIDE DEF m
<1>7. /\ \A e : Forgotten(e)' <=> Forgotten(e)
      /\ \A k, p : IsOf(k, p)' <=> IsOf(k, p)
  BY <1>1, FilesStay
<1>8. ~SnapshotInFlight' /\ Ground' = shown'
  <2>1. wire' # <<>> => 1 \in 1..(m - 1)
    BY <1>2, <1>3
  <2> QED
    BY <1>6, <2>1 DEF SnapshotInFlight, Ground
<1>9. Types'
  BY <1>1, <1>3 DEF IInv, Types
<1>10. Stamps' /\ Handshake'
  BY <1>1 DEF IInv, Stamps, Handshake
<1>11. ReadBack' /\ SnapshotSees'
  BY <1>1, <1>7 DEF IInv, ReadBack, SnapshotSees
<1>12. Sources'
  BY <1>1, <1>3, <1>6, <1>7 DEF IInv, Sources
<1>13. Ahead'
  <2>1. \A i \in 1..(m - 1) : FrameSeq(wire'[i]) <= cursor /\ wire'[i].type # "checks"
    BY <1>3, <1>5, <1>6
  <2> QED
    BY <1>1, <1>3, <1>8, <2>1 DEF Ahead, FrameSeq
<1>14. DuplicateFree'
  <2> SUFFICES ASSUME NEW i \in 1..(m - 1)
               PROVE  /\ \A k \in Key : shown'[k] < FrameSeq(wire'[i])
                      /\ \A j \in 1..(i - 1) : FrameSeq(wire'[j]) < FrameSeq(wire'[i])
    BY <1>3, <1>8 DEF DuplicateFree, FrameSeq
  <2>1. wire'[i] = wire[i + 1] /\ i + 1 \in DOMAIN wire /\ wire[i + 1].type = "check"
    BY <1>2, <1>3, <1>6
  <2>2. /\ \A k \in Key : Ground[k] < FrameSeq(wire[i + 1])
        /\ \A j \in 1..((i + 1) - 1) : FrameSeq(wire[j]) < FrameSeq(wire[i + 1])
    BY <2>1 DEF IInv, DuplicateFree
  <2>3. /\ 1 \in 1..((i + 1) - 1)
        /\ \A j \in 1..(i - 1) : j \in 1..(m - 1) /\ j + 1 \in 1..((i + 1) - 1)
    BY <1>2
  <2> QED
    BY <1>1, <1>3, <2>1, <2>2, <2>3
<1>15. SnapshotKeeps'
  BY <1>8 DEF SnapshotKeeps
<1>16. OnlyLateMissed'
  <2> SUFFICES ASSUME NEW e \in written, e.seq <= cursor
               PROVE  Told(e)' \/ Forgotten(e) \/ e \in late
    BY <1>1, <1>7 DEF OnlyLateMissed, Past
  <2>1. Told(e) \/ Forgotten(e) \/ e \in late
    BY <1>1 DEF IInv, OnlyLateMissed, Past
  <2>2. ASSUME NEW i \in 1..m, wire[i].type = "check", wire[i].event = e
        PROVE  shown'[KeyOf(e)] >= e.seq \/ \E j \in 1..(m - 1) : wire'[j].event = e
    <3>1. CASE i = 1
      BY <1>1, <2>2, <3>1
    <3>2. CASE i # 1
      <4>1. i - 1 \in 1..(m - 1) /\ (i - 1) + 1 = i
        BY <1>2, <3>2
      <4> QED
        BY <1>3, <2>2, <4>1
    <3> QED
      BY <3>1, <3>2
  <2>3. Told(e) => \/ shown'[KeyOf(e)] >= e.seq
                   \/ \E j \in 1..(m - 1) : wire'[j].event = e
    BY <1>1, <1>2, <2>2 DEF Told
  <2>4. /\ shown'[KeyOf(e)] >= e.seq => Told(e)'
        /\ \A j \in 1..(m - 1) : wire'[j].event = e => Told(e)'
    BY <1>3, <1>6, <1>8 DEF Told, KeyOf
  <2> QED
    BY <2>1, <2>3, <2>4
<1> QED
  BY <1>9, <1>10, <1>11, <1>12, <1>13, <1>14, <1>15, <1>16 DEF IInv

-----------------------------------------------------------------------------
(* The theorems.                                                           *)

LEMMA StepPreserves == IInv /\ [Next]_vars => IInv'
<1> SUFFICES ASSUME IInv, [Next]_vars PROVE IInv'
  OBVIOUS
<1>1. ASSUME NEW t \in Tasks, Stamp(t) PROVE IInv'
  BY <1>1, StampPreserves
<1>2. ASSUME NEW e \in stamped, WriteLine(e) PROVE IInv'
  BY <1>2, WriteLinePreserves
<1>3. CASE Connect
  BY <1>3, ConnectPreserves
<1>4. CASE Disconnect
  BY <1>4, DisconnectPreserves
<1>5. CASE Session
  <2>1. ASSUME NEW t \in Tasks, ReadFile(t) PROVE IInv'
    BY <2>1, ReadFilePreserves
  <2> QED
    BY <1>5, <2>1, SubscribePreserves, ServicePreserves, SendSnapshotPreserves,
       PushChecksPreserves DEF Session
<1>6. CASE Receive
  BY <1>6, ReceivePreserves
<1>7. CASE UNCHANGED vars
  <2> USE <1>7 DEF vars, jobVars, linkVars, sessionVars, pageVars, pastVars
  <2>1. Types' /\ Stamps' /\ Handshake'
    BY DEF IInv, Types, Stamps, Handshake
  <2>2. Sources' /\ DuplicateFree' /\ SnapshotKeeps' /\ Ahead' /\ OnlyLateMissed'
    BY ViewStays, SessionStays DEF IInv
  <2>3. ReadBack' /\ SnapshotSees'
    BY FilesStay DEF IInv, ReadBack, SnapshotSees, KeyOf
  <2> QED
    BY <2>1, <2>2, <2>3 DEF IInv
<1> QED
  BY <1>1, <1>2, <1>3, <1>4, <1>5, <1>6, <1>7 DEF Next

LEMMA Invariant == Spec => []IInv
  BY InitInvariant, StepPreserves, PTL DEF Spec

(* No event is ever on its way to a page that has it, nor behind a newer   *)
(* one, whatever connections were lost.                                    *)
THEOREM NoDuplicates == Spec => []DuplicateFree
<1>1. IInv => DuplicateFree
  BY DEF IInv
<1> QED
  BY <1>1, Invariant, PTL

(* Whatever a session's cursor is past is on the page or on its way to it, *)
(* or forgotten, or its line came too late: it was not in its file yet     *)
(* when the session, having read it, went past its number.                 *)
THEOREM OnlyLateLost == Spec => []OnlyLateMissed
<1>1. IInv => OnlyLateMissed
  BY DEF IInv
<1> QED
  BY <1>1, Invariant, PTL

(* No check shown goes back to an older event, unless the agent forgot the *)
(* one shown.                                                              *)
THEOREM ChecksAdvance == Spec => NeverOlder
<1>1. IInv /\ [Next]_vars =>
        [\A k \in Key :
           \/ shown'[k] >= shown[k]
           \/ \E e \in Of(k, written) : e.seq = shown[k] /\ Forgotten(e)]_vars
  <2> SUFFICES ASSUME IInv, [Next]_vars, ~UNCHANGED vars, NEW k \in Key
               PROVE  Keeps(k, shown'[k])
    BY DEF Keeps
  <2>1. CASE Receive
    BY <2>1, ReceiveShows
  <2>2. CASE ~Receive
    <3>1. shown' = shown
      BY <2>2 DEF Next, vars, Session, Stamp, WriteLine, Connect, Disconnect, Subscribe,
                  Service, ReadFile, SendSnapshot, PushChecks, pageVars
    <3>2. shown[k] \in Nat
      BY DEF IInv, Types
    <3> QED
      BY <3>1, <3>2 DEF Keeps
  <2> QED
    BY <2>1, <2>2
<1> QED
  BY <1>1, Invariant, PTL DEF Spec, NeverOlder
=============================================================================
