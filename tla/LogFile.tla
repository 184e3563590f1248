------------------------------- MODULE LogFile -------------------------------
(***************************************************************************)
(* The output files of one Slurm job and the incremental read of them that *)
(* the agent's live session and its REST endpoint share                    *)
(* (slurmweb/views/agent.py, _read_log_chunk).                             *)
(*                                                                         *)
(* A byte is told apart by the generation of the file it belongs to (a     *)
(* file is started over when the job is requeued or its output rotated)    *)
(* and by its position.  file[s] is the sequence of the sizes reached by   *)
(* the generations of the output of stream s: the last entry is the file   *)
(* on disk, the earlier ones are history that only properties read.        *)
(***************************************************************************)
EXTENDS Naturals, Sequences

CONSTANTS
  Limit,    \* bytes read at once (LOG_LIMIT)
  Wide,     \* positions at which a two-byte UTF-8 character begins
  MaxSize,  \* bound: bytes a generation of the file of each stream may hold
  MaxGen    \* bound: generations of the file of each stream

Streams == {"stdout", "stderr"}

ASSUME LogFileAssumption ==
  /\ Limit \in Nat \ {0}
  /\ Wide \subseteq Nat
  /\ \A p \in Wide : p + 1 \notin Wide
  /\ MaxSize \in [Streams -> Nat]
  /\ MaxGen \in [Streams -> Nat]

VARIABLE file

Byte == [gen : Nat, pos : Nat, whole : BOOLEAN]

Exists(s) == file[s] # <<>>
Gen(s)    == Len(file[s])
Size(s)   == file[s][Gen(s)]

FileInit == file = [s \in Streams |-> <<>>]

(* Slurm opens the output of the job: the first time, or again, emptying   *)
(* it, when the job is requeued.                                           *)
StartFile(s) ==
  /\ Gen(s) < MaxGen[s]
  /\ file' = [file EXCEPT ![s] = Append(@, 0)]

(* The job writes one more byte.                                           *)
WriteFile(s) ==
  /\ Exists(s)
  /\ Size(s) < MaxSize[s]
  /\ file' = [file EXCEPT ![s][Gen(s)] = @ + 1]

(* chunk.decode("utf-8", errors="replace") sees the bytes of one chunk     *)
(* only: a character cut by either end of the chunk is replaced by U+FFFD. *)
Whole(pos, from, to) ==
  /\ pos \in Wide => pos + 1 <= to
  /\ \A p \in Wide : pos = p + 1 => p > from

Chunk(gen, from, to) ==
  [i \in 1..(to - from) |->
     [gen |-> gen, pos |-> from + i, whole |-> Whole(from + i, from, to)]]

(* A look that seeks back from the end, and one that restarts a stream     *)
(* that is caught up: what mutation runs use in place of Look.             *)
Look_FromEnd(s, from) ==
  [taken   |-> TRUE,
   rotated |-> from > Size(s),
   from    |-> IF from > Size(s) THEN Size(s) - from ELSE from]

Look_CaughtUp(s, from) ==
  [taken   |-> TRUE,
   rotated |-> from >= Size(s),
   from    |-> IF from >= Size(s) THEN 0 ELSE from]

(* Where a stream is read from, decided on the size the file has when it   *)
(* is looked at: from the start when it shrank below the offset.           *)
Look(s, from) ==
  [taken   |-> TRUE,
   rotated |-> from > Size(s),
   from    |-> IF from > Size(s) THEN 0 ELSE from]

NoLook == [taken |-> FALSE, rotated |-> FALSE, from |-> 0]

(* handle.read(limit) from an offset: to the end of what the file holds    *)
(* when it is read, to the limit, or nothing past the end.                 *)
ReadEnd(s, from) ==
  IF from >= Size(s) THEN from
  ELSE IF Size(s) - from > Limit THEN from + Limit ELSE Size(s)

FileType == file \in [Streams -> Seq(Nat)]
=============================================================================
