----------------------------- MODULE LogDelivery -----------------------------
(***************************************************************************)
(* What the log channel of the job page promises, without sessions,        *)
(* cursors or connections: the page shows, for every output stream, the    *)
(* bytes of the file in order, each once and with no gap, never going back *)
(* to an older generation of the file, and it starts over only when the    *)
(* file did.                                                               *)
(***************************************************************************)
EXTENDS Naturals, Sequences

CONSTANT Streams

VARIABLES
  reach,  \* reach[s][g]: bytes written by generation g of the file of s
  shown   \* shown[s]: the bytes on display, as records with gen and pos

vars == <<reach, shown>>

(* A text made of bytes the file really had at these positions.            *)
Faithful(r, text) ==
  \A i \in DOMAIN text :
    /\ text[i].pos = i
    /\ text[i].gen \in DOMAIN r
    /\ i <= r[text[i].gen]
    /\ \A j \in 1..i : text[j].gen <= text[i].gen

Init ==
  /\ reach = [s \in Streams |-> <<>>]
  /\ shown = [s \in Streams |-> <<>>]

(* The job opens the file (again).                                         *)
Start(s) ==
  /\ reach' = [reach EXCEPT ![s] = Append(@, 0)]
  /\ UNCHANGED shown

(* The job writes.                                                         *)
Write(s) ==
  /\ reach[s] # <<>>
  /\ reach' = [reach EXCEPT ![s][Len(reach[s])] = @ + 1]
  /\ UNCHANGED shown

(* The page shows more of a stream.                                        *)
Show(s) ==
  /\ UNCHANGED reach
  /\ shown' = [shown EXCEPT ![s] = shown'[s]]
  /\ Len(shown[s]) <= Len(shown'[s])
  /\ \A i \in DOMAIN shown[s] : shown'[s][i] = shown[s][i]
  /\ Faithful(reach[s], shown'[s])

(* The page drops what it shows for the start of a newer generation.       *)
Restart(s) ==
  /\ UNCHANGED reach
  /\ shown[s] # <<>>
  /\ shown' = [shown EXCEPT ![s] = shown'[s]]
  /\ shown[s][Len(shown[s])].gen < Len(reach[s])
  /\ \A i \in DOMAIN shown'[s] :
       shown[s][Len(shown[s])].gen < shown'[s][i].gen
  /\ Faithful(reach[s], shown'[s])

Next == \E s \in Streams : Start(s) \/ Write(s) \/ Show(s) \/ Restart(s)

Spec == Init /\ [][Next]_vars
=============================================================================
