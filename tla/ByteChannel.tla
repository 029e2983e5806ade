---------------------------- MODULE ByteChannel ----------------------------
(***************************************************************************)
(* What a connection promises in the direction from a plug to a guest      *)
(* socket: a queue of bytes from which they arrive in the order in which   *)
(* they were written, never more of them than the window lets the receiver *)
(* leave unread.  There is one wire for each pair of ports, closed until   *)
(* its two ends know each other.                                           *)
(***************************************************************************)
EXTENDS Naturals, Sequences, SequencesExt

CONSTANTS
  Keys,    \* pairs of ports
  Window   \* bytes that may have arrived and not been read

VARIABLE wires

Closed == [open |-> FALSE, pending |-> <<>>, arrived |-> <<>>, read |-> 0]

Init == wires = [k \in Keys |-> Closed]

\* The ends find each other; the plug may already have written.
Open(k) ==
  /\ ~wires[k].open
  /\ wires' = [wires EXCEPT ![k] = [Closed EXCEPT !.open = TRUE, !.pending = wires'[k].pending]]

Write(k) ==
  /\ wires[k].open
  /\ IsPrefix(wires[k].pending, wires'[k].pending)
  /\ wires' = [wires EXCEPT ![k].pending = wires'[k].pending]

Arrive(k, n) ==
  LET w == wires[k]
  IN  /\ w.open
      /\ Len(w.arrived) + n - w.read <= Window
      /\ wires' = [wires EXCEPT
                     ![k].arrived = w.arrived \o SubSeq(w.pending, 1, n),
                     ![k].pending = SubSeq(w.pending, n + 1, Len(w.pending))]

Read(k) ==
  /\ wires[k].open /\ wires[k].read < Len(wires[k].arrived)
  /\ wires' = [wires EXCEPT ![k].read = wires[k].read + 1]

\* Either end hangs up; what has not arrived is gone.
Close(k) == wires[k].open /\ wires' = [wires EXCEPT ![k] = Closed]

Next ==
  \E k \in Keys :
    \/ Open(k) \/ Write(k) \/ Read(k) \/ Close(k)
    \/ \E n \in 1 .. Len(wires[k].pending) : Arrive(k, n)

Spec == Init /\ [][Next]_wires
=============================================================================
