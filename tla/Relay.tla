--------------------------------- MODULE Relay ---------------------------------
(***************************************************************************)
(* What the controller promises to the receiver, whatever its timing.      *)
(*                                                                         *)
(* The packets of the data generator leave in the order they came, each    *)
(* exactly once.  A packet is forwarded at once as plain data, or it is    *)
(* one of Size consecutive packets of a burst, numbered 0 .. Size - 1;     *)
(* a burst is never interrupted by plain data, never cut short and never   *)
(* started again before it is complete.  Fewer than Size packets wait, all *)
(* of them of one burst.                                                   *)
(***************************************************************************)
EXTENDS Integers

CONSTANT Size   \* packets in a burst

VARIABLES
  accepted,   \* packets taken from the data generator so far
  sent,       \* packets sent to the receiver so far
  pos,        \* index the next packet of the burst under way will carry
  wire        \* the packets that left in the last step, oldest first

vars == <<accepted, sent, pos, wire>>

Plain(s) == [seq |-> s, index |-> -1]
InBurst(s, i) == [seq |-> s, index |-> i]

Init ==
  /\ accepted = 0
  /\ sent = 0
  /\ pos = 0
  /\ wire = <<>>

\* Mutant of Forward: plain data interrupts a burst.
ForwardAnyTime ==
  /\ sent = accepted
  /\ accepted' = accepted + 1
  /\ sent' = sent + 1
  /\ wire' = <<Plain(accepted)>>
  /\ UNCHANGED pos

\* A packet goes straight through; nothing may be waiting and no burst be open.
Forward ==
  /\ pos = 0
  /\ sent = accepted
  /\ accepted' = accepted + 1
  /\ sent' = sent + 1
  /\ wire' = <<Plain(accepted)>>
  /\ UNCHANGED pos

\* k packets of the burst are taken in and its next n packets leave.
Burst(k, n) ==
  /\ pos + (accepted + k - sent) <= Size
  /\ accepted' = accepted + k
  /\ sent' = sent + n
  /\ sent' <= accepted'
  /\ accepted' - sent' < Size
  /\ wire' = [i \in 1 .. n |-> InBurst(sent + i - 1, pos + i - 1)]
  /\ pos' = IF pos + n = Size THEN 0 ELSE pos + n

Next == Forward \/ \E k \in {0, 1}, n \in 0 .. Size : Burst(k, n)

Spec == Init /\ [][Next]_vars
================================================================================
