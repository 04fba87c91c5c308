---------------------------- MODULE ControllerRelay ----------------------------
(***************************************************************************)
(* The control loop implements Relay, when bursts do not overlap: the      *)
(* interval between two burst starts is at least a burst long at every     *)
(* rate the loop can reach.  Nothing in the code checks this: it is what   *)
(* "should make this a multiple of BURST_SIZE" in net_include.h asks for.  *)
(***************************************************************************)
EXTENDS Controller

ASSUME IntervalCoversBurst ==
  \A d \in 0 .. BURST_SIZE - 1, r \in Rates \cup {START_SPEED} : ~IntervalElapsed(d, r)

\* The index of the next packet of the burst to leave.
Pos == IF burst_seq_send = -1 THEN 0 ELSE burst_seq_send

\* The packets of the burst that have not left wait in pkt_buffer.
Sent == IF burst_seq_recv = -1 THEN seq ELSE seq - burst_seq_recv + Pos

IsData(p) == p.type \in {"DATA", "BURST"}

OnWire(p) ==
  [seq |-> p.seq_num,
   index |-> IF p.type = "DATA" THEN -1 ELSE p.seq_num - p.burst_start]

\* A step sends data packets only, or one packet of another type.
Wire(o) ==
  IF o # <<>> /\ IsData(o[1]) THEN [i \in 1 .. Len(o) |-> OnWire(o[i])] ELSE <<>>

Leaving == Wire(out)

R == INSTANCE Relay WITH
       Size <- BURST_SIZE,
       accepted <- seq,
       sent <- Sent,
       pos <- Pos,
       wire <- Leaving

\* Every data packet leaves exactly once, in order, with the header that says
\* where it stands in its burst; bursts are whole and never overlap.
RefinesRelay == R!Spec

\* pkt_buffer holds the packets of the burst being taken in, in their places.
BufferIsBurst ==
  /\ burst_seq_recv # -1 => last_burst = seq - burst_seq_recv
  /\ \A i \in 0 .. BURST_SIZE - 1 :
       i < burst_seq_recv =>
         /\ pkt_buffer[i].type = "BURST"
         /\ pkt_buffer[i].seq_num = last_burst + i
         /\ pkt_buffer[i].burst_start = last_burst

\* Sending begins when half of the burst is there and never overtakes taking in.
SendBehindRecv ==
  burst_seq_send # -1 =>
    burst_seq_send <= burst_seq_recv /\ burst_seq_recv > BURST_SIZE \div 2
================================================================================
