------------------------------- MODULE Receiver --------------------------------
(***************************************************************************)
(* The receiver: receive_bandwidth() of receive_bandwidth.c.               *)
(*                                                                         *)
(* It keeps the arrival times of the last BURST_SIZE packets in a ring and *)
(* those of the packets of a burst in an array, and reports the rate it    *)
(* measures between two of them.  An arrival time is represented by the    *)
(* identity of the packet that arrived then, and a measured rate by the    *)
(* two arrivals it was measured between: which arrivals are used is what   *)
(* can go wrong, how long they were apart is up to the network, so whether *)
(* a measurement is below the threshold is left open.                      *)
(***************************************************************************)
EXTENDS Integers, SequencesExt

CONSTANTS
  BURST_SIZE,     \* params.burst_size
  GRACE_PERIOD,   \* params.grace_period
  pred_mode,      \* params.pred_mode: 0 is EWMA, 1 is the running average
  android         \* the thread runs in the Android client

ASSUME ReceiverAssumption ==
  /\ BURST_SIZE \in Nat \ {0, 1}
  /\ GRACE_PERIOD \in Nat \ {0}
  /\ pred_mode \in {0, 1}
  /\ android \in BOOLEAN

VARIABLES
  pc,                  \* "loop", "returned" or "exited"
  kill,                \* kill_thread of receive_bandwidth.c
  curRate,             \* the rate in the header of the last data packet
  numAtCurRate,        \* how many packets came at it; counts up to BURST_SIZE
  numBelowThreshold,
  seq,                 \* next expected sequence number
  received,            \* received[s % BURST_SIZE]: packet s of the window came
  arrivals,            \* and when
  burst,               \* in a burst
  bStart, bEnd,        \* lowest and highest index received of it
  breceived,           \* which indices of it were received
  barrivals,           \* and when
  net,                 \* the socket's queue
  replies              \* what the last step sent

window == <<received, arrivals>>
burst_state == <<burst, bStart, bEnd, breceived, barrivals>>
rate_state == <<curRate, numAtCurRate>>
receiver_vars == <<pc, kill, rate_state, numBelowThreshold, seq, window, burst_state>>

Slots == 0 .. BURST_SIZE - 1

Header(type, seq_num, burst_start, rate) ==
  [type |-> type, seq_num |-> seq_num, burst_start |-> burst_start, rate |-> rate]

\* The arrival of a packet, for its arrival time.
Arrival(p) == [seq |-> p.seq_num, type |-> p.type, start |-> p.burst_start, rate |-> p.rate]
Never == [seq |-> -1, type |-> "NONE", start |-> -1, rate |-> 0]

\* A packet without a payload; for START it matters who sent it.
Signal(type, from) == [type |-> type, from |-> from]

\* What is sent: a report with the arrivals it measured between, or a signal.
Report(type, seq_num, from, to, span) ==
  [type |-> type, seq_num |-> seq_num, from |-> from, to |-> to, span |-> span]
Reply(type) == Report(type, 0, Never, Never, 0)

ReceiverInit ==
  /\ pc = "loop"
  /\ kill = FALSE
  /\ curRate = 0
  /\ numAtCurRate = 0
  /\ numBelowThreshold = 0
  /\ seq = 0
  /\ received = [i \in Slots |-> 0]
  /\ arrivals = [i \in Slots |-> Never]
  /\ burst = FALSE
  /\ bStart = BURST_SIZE
  /\ bEnd = -1
  /\ breceived = [i \in Slots |-> 0]
  /\ barrivals = [i \in Slots |-> Never]

--------------------------------------------------------------------------------
(* The handling of one packet, p. *)

\* numAtCurRate once p is counted; more than BURST_SIZE makes no difference.
NumAtRate(p) ==
  IF p.rate # curRate
  THEN 1
  ELSE IF numAtCurRate < BURST_SIZE THEN numAtCurRate + 1 ELSE BURST_SIZE

\* Mutant of CountRate: a new rate does not restart the count.
CountRateOnly(p) ==
  /\ curRate' = p.rate
  /\ numAtCurRate' = IF numAtCurRate < BURST_SIZE THEN numAtCurRate + 1 ELSE BURST_SIZE

\* Every data packet is counted, before the check of its sequence number.
CountRate(p) ==
  /\ curRate' = p.rate
  /\ numAtCurRate' = NumAtRate(p)

\* On Android an ECHO is sent back; it is then handled like a data packet.
EchoBack(p) == IF android /\ p.type = "ECHO" THEN <<Reply("ECHO")>> ELSE <<>>

\* Mutants of Skipped: the window is not cleared where packets were lost; it is
\* cleared one packet too far back.
SkippedNone(p) == {}
SkippedTooMany(p) == {s % BURST_SIZE : s \in seq - 1 .. p.seq_num - 1}

\* The slots of the packets that were skipped before p.
Skipped(p) == {s % BURST_SIZE : s \in seq .. p.seq_num - 1}

\* The skipped packets are marked as not received, p as received.
MarkArrival(p) ==
  LET own == p.seq_num % BURST_SIZE
  IN  /\ received' = [i \in Slots |-> IF i = own THEN 1
                                      ELSE IF i \in Skipped(p) THEN 0 ELSE received[i]]
      /\ arrivals' = [arrivals EXCEPT ![own] = Arrival(p)]

\* The connection's peer asks again: acknowledged, everybody else is turned away.
RecvStart(p) ==
  /\ p.type = "START"
  /\ replies' = <<Reply(IF p.from = "peer" THEN "START_ACK" ELSE "BUSY")>>
  /\ UNCHANGED receiver_vars

RecvStop(p) ==
  /\ p.type = "STOP"
  /\ pc' = "returned"
  /\ replies' = <<>>
  /\ UNCHANGED <<kill, rate_state, numBelowThreshold, seq, window, burst_state>>

\* Whatever is no START and no STOP is taken for data: an ECHO, and a START_ACK or
\* BUSY that comes late.
IsData(p) == p.type \notin {"START", "STOP"}

\* Mutant of OutOfOrder: the packet expected is dropped.
OutOfOrderNext(p) == p.seq_num <= seq

OutOfOrder(p) == p.seq_num < seq

\* "out of order packet, drop"
RecvOutOfOrder(p) ==
  /\ IsData(p)
  /\ OutOfOrder(p)
  /\ CountRate(p)
  /\ replies' = EchoBack(p)
  /\ UNCHANGED <<pc, kill, numBelowThreshold, seq, window, burst_state>>

\* The range of indices received grows to take in this one.
Widen(index) ==
  /\ bStart' = IF index < bStart THEN index ELSE bStart
  /\ bEnd' = IF index > bEnd THEN index ELSE bEnd

RecvBurst(p) ==
  /\ p.type = "BURST"
  /\ ~OutOfOrder(p)
  /\ CountRate(p)
  /\ MarkArrival(p)
  /\ replies' = <<>>
  /\ LET index == p.seq_num - p.burst_start
         before == IF burst THEN breceived ELSE [i \in Slots |-> 0]
     IN  /\ burst' = TRUE
         /\ IF index >= BURST_SIZE
            THEN /\ pc' = "exited"   \* "invalid burst index", exit(1)
                 /\ seq' = p.seq_num
                 /\ breceived' = before
                 /\ UNCHANGED <<bStart, bEnd, barrivals>>
            ELSE /\ breceived' = [before EXCEPT ![index] = 1]
                 /\ barrivals' = [barrivals EXCEPT ![index] = Arrival(p)]
                 /\ Widen(index)
                 /\ seq' = p.seq_num + 1
                 /\ UNCHANGED pc
  /\ UNCHANGED <<kill, numBelowThreshold>>

\* The burst that just ended can be measured: two of its packets arrived.
BurstMeasured == burst /\ bEnd # bStart

\* Mutants of ResetBurst: nothing is reset; the bounds are not.
NoReset == UNCHANGED burst_state
NoBoundsReset == burst' = FALSE /\ UNCHANGED <<bStart, bEnd, breceived, barrivals>>

ResetBurst ==
  /\ burst' = FALSE
  /\ bStart' = BURST_SIZE
  /\ bEnd' = -1
  /\ UNCHANGED <<breceived, barrivals>>

BurstReport(p) ==
  Report("BURST_REPORT", p.seq_num, barrivals[bStart], barrivals[bEnd], bEnd - bStart)

\* A burst of which only one packet arrived stays open.
EndBurst == IF BurstMeasured THEN ResetBurst ELSE UNCHANGED burst_state

\* Enough packets came at this rate for the prediction mode to measure.
WindowFull(p) == NumAtRate(p) >= IF pred_mode = 0 THEN 2 ELSE BURST_SIZE

\* The slot of the packet the measurement starts at.
FirstSlot(p) == (IF pred_mode = 0 THEN p.seq_num - 1 ELSE p.seq_num + 1) % BURST_SIZE

\* The packet the measurement would start at did not arrive.
SampleMissing(p) == WindowFull(p) /\ received'[FirstSlot(p)] = 0

\* What is reported when p's measurement is below the threshold.
RateReport(p) ==
  IF WindowFull(p)
  THEN Report("REPORT", p.seq_num, arrivals'[FirstSlot(p)], Arrival(p),
              IF pred_mode = 0 THEN 1 ELSE BURST_SIZE - 1)
  ELSE Report("REPORT", p.seq_num, Never, Never, 0)

\* Only a measurement can be below the threshold, and a rate of 0.
MayBeSlow(p) == WindowFull(p) \/ p.rate = 0

\* The measurement is skipped, and so is seq = currSeq + 1.
SkipMeasurement(p, sent) ==
  /\ SampleMissing(p)
  /\ seq' = p.seq_num
  /\ replies' = sent
  /\ UNCHANGED numBelowThreshold

AboveThreshold(p, sent) ==
  /\ ~SampleMissing(p)
  /\ seq' = p.seq_num + 1
  /\ numBelowThreshold' = 0
  /\ replies' = sent

\* Mutant of GraceSpent: one more measurement is tolerated.
GraceSpentLate == numBelowThreshold >= GRACE_PERIOD

\* With this measurement there are as many below the threshold as tolerated.
GraceSpent == numBelowThreshold + 1 >= GRACE_PERIOD

BelowThreshold(p, sent) ==
  /\ ~SampleMissing(p)
  /\ MayBeSlow(p)
  /\ seq' = p.seq_num + 1
  /\ IF GraceSpent
     THEN /\ numBelowThreshold' = 0
          /\ replies' = sent \o <<RateReport(p)>>
     ELSE /\ numBelowThreshold' = numBelowThreshold + 1
          /\ replies' = sent

\* A packet that is not of a burst: it ends one, and it is measured.
RecvPlain(p) ==
  /\ IsData(p)
  /\ p.type # "BURST"
  /\ ~OutOfOrder(p)
  /\ CountRate(p)
  /\ MarkArrival(p)
  /\ EndBurst
  /\ LET sent == EchoBack(p) \o (IF BurstMeasured THEN <<BurstReport(p)>> ELSE <<>>)
     IN  SkipMeasurement(p, sent) \/ AboveThreshold(p, sent) \/ BelowThreshold(p, sent)
  /\ UNCHANGED <<pc, kill>>

Receive ==
  /\ pc = "loop"
  /\ ~kill
  /\ net # <<>>
  /\ net' = Tail(net)
  /\ LET p == Head(net)
     IN  RecvStart(p) \/ RecvStop(p) \/ RecvOutOfOrder(p) \/ RecvBurst(p) \/ RecvPlain(p)

\* RECV_TIMEOUT_SEC without a packet: the connection is over.
RecvTimeout ==
  /\ pc = "loop"
  /\ ~kill
  /\ net = <<>>
  /\ pc' = "returned"
  /\ replies' = <<>>
  /\ UNCHANGED <<kill, rate_state, numBelowThreshold, seq, window, burst_state, net>>

ReceiverStops ==
  /\ pc = "loop"
  /\ kill
  /\ pc' = "returned"
  /\ replies' = <<Reply("STOP")>>
  /\ UNCHANGED <<kill, rate_state, numBelowThreshold, seq, window, burst_state, net>>

stop_receiving_thread ==
  /\ pc = "loop"
  /\ ~kill
  /\ kill' = TRUE
  /\ replies' = <<>>
  /\ UNCHANGED <<pc, rate_state, numBelowThreshold, seq, window, burst_state, net>>
================================================================================
