----------------------------- MODULE MessageLink -----------------------------
(***************************************************************************)
(* What the two halves of PacketSerial promise to the applications at both *)
(* ends of a line that loses nothing: every message that was sent reaches  *)
(* the receiver's handler, once, in the order of sending and with nothing  *)
(* but zeros behind it.                                                    *)
(***************************************************************************)
EXTENDS Naturals, Sequences

CONSTANTS
  Message,    \* sequences of bytes
  SIZE        \* bytes in what the receiver's handler is given

VARIABLES
  queue,      \* messages sent and not delivered yet
  delivered   \* what the handler was last given

vars == <<queue, delivered>>

Padded(m) == [k \in 0..SIZE-1 |-> IF k < Len(m) THEN m[k+1] ELSE 0]

Init == queue = <<>> /\ delivered = Padded(<<>>)

Send(m) ==
  /\ queue' = Append(queue, m)
  /\ UNCHANGED delivered

Deliver ==
  /\ queue # <<>>
  /\ delivered' = Padded(Head(queue))
  /\ queue' = Tail(queue)

Next == (\E m \in Message : Send(m)) \/ Deliver

Spec == Init /\ [][Next]_vars /\ WF_vars(Deliver)
=============================================================================
