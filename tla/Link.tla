---------------------------------- MODULE Link ----------------------------------
(***************************************************************************)
(* The receiver at the end of a UDP path from the controller.              *)
(*                                                                         *)
(* The sender is what ControllerRelay shows control() to implement: Relay, *)
(* with the header of every packet fixed when it is taken in.  The rate    *)
(* may have changed at every packet, for reports may arrive at any time.   *)
(* On a server's sender an ECHO carries the header of the packet taken in  *)
(* last, which may still wait to leave.                                    *)
(***************************************************************************)
EXTENDS Receiver

CONSTANTS
  Rates,          \* the rates the sender may use
  MinInterval,    \* packets from one burst start to the next, at least
  SendsEcho,      \* the sender runs on the server: it sends ECHOs
  LateReplies,    \* the receiver runs on a client: acknowledgements of its START come late
  MaySignal,      \* STOP and START packets may arrive
  MayLose, MayDuplicate, MayReorder,   \* what the network may do
  NetSize,        \* bound: packets in flight
  MaxSeq          \* bound: packets taken in

ASSUME LinkAssumption ==
  /\ Rates \subseteq Nat \ {0}
  /\ MinInterval \in Nat /\ MinInterval >= BURST_SIZE
  /\ SendsEcho \in BOOLEAN
  /\ LateReplies \in BOOLEAN
  /\ MaySignal \in BOOLEAN
  /\ MayLose \in BOOLEAN
  /\ MayDuplicate \in BOOLEAN
  /\ MayReorder \in BOOLEAN
  /\ NetSize \in Nat
  /\ MaxSeq \in Nat

VARIABLES
  accepted, sent, pos, wire,   \* of Relay
  last_burst,                  \* first packet of the last burst taken in
  pending,                     \* headers of the packets that wait to leave
  hdr,                         \* data_pkt.hdr of the sender
  highest,                     \* history: highest data sequence number that has arrived
  intact                       \* history: no packet was lost

sender_vars == <<accepted, sent, pos, last_burst, pending, hdr>>
history == <<highest, intact>>
vars == <<receiver_vars, net, replies, sender_vars, wire, history>>

Sender == INSTANCE Relay WITH Size <- BURST_SIZE

BURST_FACTOR == 2

Init ==
  /\ ReceiverInit
  /\ net = <<>>
  /\ replies = <<>>
  /\ Sender!Init
  /\ last_burst = 0
  /\ pending = <<>>
  /\ hdr = Header("DATA", 0, 0, 0)
  /\ highest = -1
  /\ intact = TRUE

\* The header of the packet taken in, plain if it leaves as plain data at once.
TakenHeader(rate) ==
  IF wire' = <<Sender!Plain(accepted)>>
  THEN Header("DATA", accepted, 0, rate)
  ELSE Header("BURST", accepted, accepted - pos - Len(pending), BURST_FACTOR * rate)

\* A packet that starts a burst comes no sooner than the interval allows.
StartsInTime(p) ==
  p.type = "BURST" /\ p.seq_num = p.burst_start => p.seq_num - last_burst >= MinInterval

SenderStep ==
  /\ Len(net) < NetSize
  /\ Sender!Next
  /\ accepted' <= MaxSeq
  /\ <<accepted', sent'>> # <<accepted, sent>>
  /\ \E rate \in Rates :
       LET taken == IF accepted' = accepted THEN <<>> ELSE <<TakenHeader(rate)>>
           waiting == pending \o taken
           n == sent' - sent
       IN  /\ \A i \in DOMAIN taken : StartsInTime(taken[i])
           /\ last_burst' = IF taken # <<>> /\ taken[1].type = "BURST"
                            THEN taken[1].burst_start
                            ELSE last_burst
           /\ hdr' = IF taken = <<>> THEN hdr ELSE taken[1]
           /\ net' = net \o SubSeq(waiting, 1, n)
           /\ pending' = SubSeq(waiting, n + 1, Len(waiting))
  /\ replies' = <<>>
  /\ UNCHANGED <<receiver_vars, history>>

\* Neither end sends anything.
Quiet == replies' = <<>> /\ wire' = <<>>

\* Once a second, at the top of the sender's loop.
SenderEcho ==
  /\ SendsEcho
  /\ Len(net) < NetSize
  /\ hdr' = [hdr EXCEPT !.type = "ECHO"]
  /\ net' = Append(net, hdr')
  /\ Quiet
  /\ UNCHANGED <<receiver_vars, accepted, sent, pos, last_burst, pending, history>>

\* The server acknowledged a START on this lane more than once, or the network did.
\* The header is zero, and a BUSY would be handled alike.
LateReply ==
  /\ LateReplies
  /\ Len(net) < NetSize
  /\ net' = Append(net, Header("START_ACK", 0, 0, 0))
  /\ Quiet
  /\ UNCHANGED <<receiver_vars, sender_vars, history>>

\* The sender is stopped, or its peer or a third party asks for a connection.
SignalArrives ==
  /\ MaySignal
  /\ Len(net) < NetSize
  /\ \E p \in {Signal("STOP", "peer"), Signal("START", "peer"), Signal("START", "other")} :
       net' = Append(net, p)
  /\ Quiet
  /\ UNCHANGED <<receiver_vars, sender_vars, history>>

Lose ==
  /\ MayLose
  /\ \E i \in DOMAIN net : net' = RemoveAt(net, i)
  /\ intact' = FALSE
  /\ Quiet
  /\ UNCHANGED <<receiver_vars, sender_vars, highest>>

Duplicate ==
  /\ MayDuplicate
  /\ Len(net) < NetSize
  /\ \E i \in DOMAIN net : net' = Append(net, net[i])
  /\ Quiet
  /\ UNCHANGED <<receiver_vars, sender_vars, history>>

Reorder ==
  /\ MayReorder
  /\ \E i \in 1 .. Len(net) - 1 :
       net' = [net EXCEPT ![i] = net[i + 1], ![i + 1] = net[i]]
  /\ Quiet
  /\ UNCHANGED <<receiver_vars, sender_vars, history>>

\* Only DATA and BURST packets count as data that arrived.
Highest ==
  LET p == Head(net)
  IN  IF p.type \in {"DATA", "BURST"} /\ p.seq_num > highest THEN p.seq_num ELSE highest

TakePacket ==
  /\ Receive
  /\ highest' = Highest
  /\ wire' = <<>>
  /\ UNCHANGED <<sender_vars, intact>>

OtherReceiverStep ==
  /\ RecvTimeout \/ ReceiverStops \/ stop_receiving_thread
  /\ wire' = <<>>
  /\ UNCHANGED <<sender_vars, history>>

Next ==
  \/ SenderStep \/ SenderEcho \/ LateReply \/ SignalArrives
  \/ Lose \/ Duplicate \/ Reorder
  \/ TakePacket \/ OtherReceiverStep

Spec == Init /\ [][Next]_vars

--------------------------------------------------------------------------------
(* Properties. *)

\* Packets that are taken for data and are none may arrive.
Strays == SendsEcho \/ LateReplies

ArrivalRecord ==
  [seq : Int, type : {"DATA", "BURST", "ECHO", "START_ACK", "NONE"}, start : Int, rate : Nat]

TypeOK ==
  /\ pc \in {"loop", "returned", "exited"}
  /\ kill \in BOOLEAN
  /\ curRate \in Nat
  /\ numAtCurRate \in 0 .. BURST_SIZE
  /\ numBelowThreshold \in 0 .. GRACE_PERIOD - 1
  /\ seq \in Nat
  /\ received \in [Slots -> {0, 1}]
  /\ arrivals \in [Slots -> ArrivalRecord]
  /\ burst \in BOOLEAN
  /\ breceived \in [Slots -> {0, 1}]
  /\ barrivals \in [Slots -> ArrivalRecord]
  /\ highest \in Int
  /\ Len(net) <= NetSize + BURST_SIZE

\* Whatever the network does, the burst's array is indexed within its bounds and
\* at both ends of the range it was written, and -1 is not an index: the first
\* packet is never measured against the one before it.
IndicesSafe ==
  /\ pc # "exited"
  /\ IF burst
     THEN /\ bStart \in Slots /\ bEnd \in bStart .. BURST_SIZE - 1
          /\ barrivals[bStart] # Never /\ barrivals[bEnd] # Never
     ELSE bStart = BURST_SIZE /\ bEnd = -1
  /\ seq = 0 => numAtCurRate = 0

Reports(type) == {r \in ToSet(replies) : r.type = type}

\* A measured rate spans the packets it is divided by: the number of packets
\* between the two arrivals it uses, although the ring wraps and has holes.
SpanIsTrue ==
  \A r \in Reports("REPORT") : r.span > 0 => r.to.seq - r.from.seq = r.span

\* "only use measurements after we have received WINDOW_SIZE packets at current
\* rate": the window that is measured was sent at one rate.
MeasuredAtOneRate ==
  \A r \in Reports("REPORT") :
    r.span > 0 =>
      \A i \in Slots : received[i] = 1 /\ arrivals[i].seq >= r.from.seq
                         => arrivals[i].rate = r.to.rate

\* "First and last sequence numbers we receive", of the burst that just
\* finished: as long as nothing is lost, both ends of a measured burst belong to
\* the same burst, also where the next one follows at once, and it is reported
\* once, on the packet that follows it.
MeasuresOneBurst ==
  \A r \in Reports("BURST_REPORT") :
    intact => /\ r.from.start = r.to.start
              /\ r.to.seq - r.from.seq = r.span
              /\ r.seq_num = r.to.start + BURST_SIZE

\* "burst just finished, send report": what makes the receiver report a burst is
\* a packet that comes after all of it, also when packets of it were lost.
BurstIsOver ==
  \A r \in Reports("BURST_REPORT") : r.seq_num >= r.to.start + BURST_SIZE

\* "whether we have received a packet in window": a packet of the window is
\* marked as received exactly when its arrival was recorded, until the first
\* loss.  After one, the measurement that is skipped makes it wrong.
ReceivedIsTrue ==
  intact =>
    \A s \in (seq - BURST_SIZE) .. (seq - 1) :
      s >= 0 => (received[s % BURST_SIZE] = 1 <=> arrivals[s % BURST_SIZE].seq = s)

\* "out of order packet, drop": a data packet above all that arrived before it
\* is not dropped.
InOrderIsKept ==
  [][highest' # highest => arrivals'[highest' % BURST_SIZE] = Arrival(Head(net))]_vars

\* The same of the packets of bursts alone.
BurstIsKept ==
  [][highest' # highest /\ Head(net).type = "BURST"
       => arrivals'[highest' % BURST_SIZE] = Arrival(Head(net))]_vars
================================================================================
