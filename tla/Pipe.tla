-------------------------------- MODULE Pipe --------------------------------
(***************************************************************************)
(* What a direction of the connection promises to the code above it,       *)
(* whatever framing and compression do underneath: the values handed to it *)
(* come out once each and in order.  Values are numbered as they are       *)
(* written, so a number stands for all the values written up to it.        *)
(***************************************************************************)
EXTENDS Naturals, Sequences

VARIABLES
  sent,       \* values written so far
  flushed,    \* how many of them a flush has let go
  received    \* what the other side has read

vars == <<sent, flushed, received>>

Init == sent = 0 /\ flushed = 0 /\ received = <<>>

(* Values are handed over, or flushed, or both (a compressed block). *)
Write == /\ sent' >= sent
         /\ flushed' \in {flushed, sent'}
         /\ UNCHANGED received

(* What is not flushed may get through, what is not written may not. *)
Receive == \E n \in Len(received) + 1 .. sent :
             /\ received' = received \o [i \in 1 .. n - Len(received) |-> Len(received) + i]
             /\ UNCHANGED <<sent, flushed>>

Next == Write \/ Receive

Spec == Init /\ [][Next]_vars
=============================================================================
