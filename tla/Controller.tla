------------------------------ MODULE Controller -------------------------------
(***************************************************************************)
(* The sender's control loop: control() of controller.c.                   *)
(*                                                                         *)
(* One thread alternates between the top of its loop, where it looks at    *)
(* kill_thread, and select() on two sockets: s_data, where the data        *)
(* generator's packets queue, and s_server, where the receiver's reports   *)
(* queue.  When select() finds both readable the data packet is handled    *)
(* first and the report in the same iteration.  When it finds neither      *)
(* before the timeout, the next packets of a burst under way leave.        *)
(*                                                                         *)
(* Times are abstracted: a timeout may happen whenever both queues are     *)
(* empty, and a late wake-up makes up for any number of packets.  A        *)
(* payload carries nothing the loop looks at, so a packet is its header.   *)
(***************************************************************************)
EXTENDS RateControl, Sequences

CONSTANTS
  BURST_SIZE,      \* params.burst_size
  INTERVAL_SIZE,   \* params.interval_size: packets between burst starts
  INTERVAL_TIME,   \* params.interval_time, as packets sent in it at 1 Mbps; 0: unused
  INSTANT_BURST,   \* params.instant_burst: a burst leaves only when complete
  START_SPEED,     \* params.start_speed
  Android,         \* the thread runs in the Android client
  Speeds,          \* the rates a receiver may report
  StaleReplies,    \* most replies of the generator to repeated LOCAL_STARTs
  DataQueue,       \* bound: packets waiting in s_data
  ServerQueue,     \* bound: packets waiting in s_server
  MaxSeq           \* bound: packets generated (a burst begun is completed)

ASSUME ParamAssumption ==
  /\ BURST_SIZE \in Nat \ {0}
  /\ INTERVAL_SIZE \in Nat
  /\ INTERVAL_TIME \in Nat
  /\ INSTANT_BURST \in BOOLEAN
  /\ START_SPEED \in Nat
  /\ Android \in BOOLEAN
  /\ Speeds \subseteq Nat
  /\ StaleReplies \in Nat
  /\ DataQueue \in Nat
  /\ ServerQueue \in Nat
  /\ MaxSeq \in Nat

VARIABLES
  pc,               \* where the thread is
  kill_thread,      \* set by stop_controller_thread()
  seq,              \* sequence number of the next data packet
  last_burst,       \* sequence number of the last burst's first packet
  rate,             \* the current sending rate
  burst_seq_recv,   \* index in the burst of the next packet taken in, or -1
  burst_seq_send,   \* index in the burst of the next packet to send, or -1
  pkt_buffer,       \* the packets of the burst
  hdr,              \* data_pkt.hdr
  dataQ,            \* s_data's queue: the generator's datagrams
  serverQ,          \* s_server's queue: the receiver's packets
  control,          \* the last rate sent to the generator, 0 before the first
  out               \* what the last step sent on s_server, oldest first

burst_vars == <<last_burst, burst_seq_recv, burst_seq_send, pkt_buffer>>
env_vars == <<kill_thread, dataQ, serverQ>>
vars == <<pc, kill_thread, seq, rate, hdr, dataQ, serverQ, control, out, burst_vars>>

PacketTypes == {"DATA", "BURST", "REPORT", "BURST_REPORT", "START", "START_ACK",
                "STOP", "BUSY", "ECHO"}

\* packet_header of net_include.h.  START packets also say who sent them.
Header(type, seq_num, burst_start, r) ==
  [type |-> type, seq_num |-> seq_num, burst_start |-> burst_start, rate |-> r]

Zero == Header("DATA", 0, 0, 0)   \* memset(&data_pkt, 0, ...): NETWORK_DATA is 0
Garbage == Header("DATA", -1, -1, 0)   \* a pkt_buffer slot never written

Signal(type) == Header(type, 0, 0, 0)

\* What can arrive on s_server: reports, the ends of the connection, the echo
\* of an ECHO, and START from the peer or from somebody else.
ServerPackets ==
  [type : {"REPORT", "BURST_REPORT"}, rate : Speeds, from : {"peer"}]
    \cup [type : {"STOP", "ECHO"}, rate : {0}, from : {"peer"}]
    \cup [type : {"START"}, rate : {0}, from : {"peer", "other"}]

Init ==
  /\ pc = "top"
  /\ kill_thread = FALSE
  /\ seq = 0
  /\ last_burst = 0
  /\ rate = START_SPEED
  /\ burst_seq_recv = -1
  /\ burst_seq_send = -1
  /\ pkt_buffer = [i \in 0 .. BURST_SIZE - 1 |-> Garbage]
  /\ hdr = Zero
  /\ dataQ \in {[i \in 1 .. n |-> "reply"] : n \in 0 .. StaleReplies}
  /\ serverQ = <<>>
  /\ control = 0
  /\ out = <<>>

--------------------------------------------------------------------------------
(* The top of the loop. *)

\* kill_thread is set: tell the peer and leave.
TopStop ==
  /\ pc = "top"
  /\ kill_thread
  /\ pc' = "returned"
  /\ out' = <<Signal("STOP")>>
  /\ UNCHANGED <<seq, rate, hdr, control, burst_vars, env_vars>>

\* Mutant of TopProceed: kill_thread is not looked at.
TopProceedDeaf ==
  /\ pc = "top"
  /\ pc' = "select"
  /\ out' = <<>>
  /\ UNCHANGED <<seq, rate, hdr, control, burst_vars, env_vars>>

TopProceed ==
  /\ pc = "top"
  /\ ~kill_thread
  /\ pc' = "select"
  /\ out' = <<>>
  /\ UNCHANGED <<seq, rate, hdr, control, burst_vars, env_vars>>

\* Once a second the server's sender reuses data_pkt, whose header is still the
\* one of the last data packet, for an ECHO.
TopEcho ==
  /\ pc = "top"
  /\ ~kill_thread
  /\ ~Android
  /\ pc' = "select"
  /\ hdr' = [hdr EXCEPT !.type = "ECHO"]
  /\ out' = <<hdr'>>
  /\ UNCHANGED <<seq, rate, control, burst_vars, env_vars>>

--------------------------------------------------------------------------------
(* A packet from the data generator. *)

\* d packets after the last burst started, at rate r, the next one starts.
IntervalElapsed(d, r) ==
  IF INTERVAL_TIME # 0
  THEN d * OneMbps >= INTERVAL_TIME * r
  ELSE d >= INTERVAL_SIZE

\* Mutant of BurstIndex: a burst is left one packet early.
LeavesEarly(due) ==
  IF due THEN 0
  ELSE IF burst_seq_recv = BURST_SIZE - 1 THEN -1 ELSE burst_seq_recv

\* The index the new packet gets in a burst, -1 for plain data.
BurstIndex(due) == IF due THEN 0 ELSE burst_seq_recv

\* Packet b is the one that lets the burst begin to leave, or completes it.
HalfWay(b) == ~INSTANT_BURST /\ b = BURST_SIZE \div 2
Complete(b) == b + 1 = BURST_SIZE

\* Once packet b is stored, packets SendFrom(b) .. SendUpto(b) - 1 leave.
SendFrom(b) ==
  IF HalfWay(b) \/ (INSTANT_BURST /\ Complete(b)) THEN 0 ELSE burst_seq_send
SendUpto(b) ==
  IF Complete(b) /\ SendFrom(b) # -1
  THEN BURST_SIZE
  ELSE IF HalfWay(b) THEN 1 ELSE burst_seq_send

\* Mutants of CursorAfter: a complete burst does not reset the cursor; the
\* packet sent half-way is not counted.
CursorNotReset(b) == SendUpto(b)
CursorNotCounted(b) == IF Complete(b) THEN -1 ELSE IF HalfWay(b) THEN 0 ELSE SendUpto(b)

CursorAfter(b) == IF Complete(b) THEN -1 ELSE SendUpto(b)

\* Packets i .. j - 1 of a buffer.
Slice(buf, i, j) == [k \in 1 .. (j - i) |-> buf[i + k - 1]]

\* After a data packet the same iteration reads s_server if it is readable.
AfterData == pc' = IF serverQ = <<>> THEN "top" ELSE "server"

\* The packet does not belong to a burst: pass it on.
ForwardData ==
  IF burst_seq_send # -1
  THEN /\ pc' = "exited"   \* "burst not done", exit(1)
       /\ out' = <<>>
       /\ UNCHANGED <<seq, burst_vars>>
  ELSE /\ out' = <<hdr'>>
       /\ AfterData
       /\ seq' = seq + 1
       /\ UNCHANGED burst_vars

\* Mutant of Stored: the packet is stored before its header is written.
StoredEarly == hdr

\* What goes into pkt_buffer.
Stored == hdr'

\* The packet is number b of the burst: store it, and send what may leave.
BufferData(b, due) ==
  /\ last_burst' = IF due THEN seq ELSE last_burst
  /\ pkt_buffer' = [pkt_buffer EXCEPT ![b] = Stored]
  /\ burst_seq_recv' = IF Complete(b) THEN -1 ELSE b + 1
  /\ burst_seq_send' = CursorAfter(b)
  /\ out' = Slice(pkt_buffer', SendFrom(b), SendUpto(b))
  /\ AfterData
  /\ seq' = seq + 1

TakeIn(b, due) ==
  /\ hdr' = IF b = -1
            THEN Header("DATA", seq, 0, rate)
            ELSE Header("BURST", seq, seq - b, rate * BURST_FACTOR)
  /\ IF b = -1 THEN ForwardData ELSE BufferData(b, due)

\* Mutant of DataReady: a packet from the receiver goes first.
DataReadyAlone == dataQ # <<>> /\ serverQ = <<>>

\* What select() found is looked at in this order: data first.
DataReady == dataQ # <<>>

HandleData ==
  /\ pc = "select"
  /\ DataReady
  /\ dataQ' = Tail(dataQ)
  /\ IF Head(dataQ) = "reply"
     THEN /\ pc' = "ipc_error"   \* a datagram of the wrong size: exit(1)
          /\ out' = <<>>
          /\ UNCHANGED <<seq, hdr, burst_vars>>
     ELSE LET due == IntervalElapsed(seq - last_burst, rate)
          IN  TakeIn(BurstIndex(due), due)
  /\ UNCHANGED <<rate, control, kill_thread, serverQ>>

--------------------------------------------------------------------------------
(* A packet from the receiver. *)

\* The type the code tests for START and STOP: that of its own last packet.
TestedType(m) == hdr.type

\* handleStartPacket()
StartReply(m) == Signal(IF m.from = "peer" THEN "START_ACK" ELSE "BUSY")

IsReport(m) == m.type \in {"REPORT", "BURST_REPORT"}

\* Mutant of RateAfter: the reported rate is taken unchecked.
RateUnchecked(m) == IF IsReport(m) THEN m.rate ELSE rate

RateAfter(m) ==
  IF IsReport(m) THEN adjustRate(rate, m.rate, m.type = "BURST_REPORT") ELSE rate

\* Mutant of ControlAfter: the generator is only told of lower rates.
ControlOnLower(m) == IF IsReport(m) /\ RateAfter(m) < rate THEN RateAfter(m) ELSE control

\* The LOCAL_CONTROL message; only the last one matters to the generator.
ControlAfter(m) == IF IsReport(m) THEN RateAfter(m) ELSE control

HandleServer ==
  /\ pc = "server" \/ (pc = "select" /\ ~DataReady)
  /\ serverQ # <<>>
  /\ serverQ' = Tail(serverQ)
  /\ LET m == Head(serverQ)
     IN  IF TestedType(m) = "START"
         THEN /\ pc' = "top"
              /\ out' = <<StartReply(m)>>
              /\ UNCHANGED <<rate, control>>
         ELSE IF TestedType(m) = "STOP"
         THEN /\ pc' = "returned"
              /\ out' = <<>>
              /\ UNCHANGED <<rate, control>>
         ELSE /\ pc' = "top"
              /\ out' = <<>>
              /\ rate' = RateAfter(m)
              /\ control' = ControlAfter(m)
  /\ UNCHANGED <<seq, hdr, burst_vars, kill_thread, dataQ>>

--------------------------------------------------------------------------------
(* select() timed out. *)

\* Mutant of MayMakeUp: the packets sent are not checked to be taken in.
MayMakeUpUnread(n) == n = 1 \/ burst_seq_send + n <= BURST_SIZE

\* The next n packets may leave: one, and the ones that make up for a late timer.
MayMakeUp(n) ==
  \/ n = 1
  \/ burst_seq_send + n <= BURST_SIZE /\ burst_seq_send + n <= burst_seq_recv

\* Nothing can leave: no burst is leaving, or its next packet is not there yet.
NothingToSend ==
  \/ burst_seq_send = -1
  \/ burst_seq_send >= burst_seq_recv /\ burst_seq_recv # -1

Timeout ==
  /\ pc = "select"
  /\ dataQ = <<>>
  /\ serverQ = <<>>
  /\ pc' = "top"
  /\ IF NothingToSend
     THEN out' = <<>> /\ UNCHANGED burst_seq_send
     ELSE \E n \in 1 .. BURST_SIZE :
            /\ MayMakeUp(n)
            /\ out' = Slice(pkt_buffer, burst_seq_send, burst_seq_send + n)
            /\ burst_seq_send' = IF burst_seq_send + n = BURST_SIZE
                                 THEN -1
                                 ELSE burst_seq_send + n
  /\ UNCHANGED <<seq, rate, hdr, control, last_burst, burst_seq_recv, pkt_buffer, env_vars>>

--------------------------------------------------------------------------------
(* The other threads and the network. *)

Running == pc \notin {"returned", "exited", "ipc_error"}

\* How many packets will have been taken in once the queue is empty.
Generated == seq + Len(dataQ)

GenerateData ==
  /\ Running
  /\ Len(dataQ) < DataQueue
  /\ \/ Generated < MaxSeq
     \/ burst_seq_recv # -1 /\ Generated < MaxSeq + BURST_SIZE
  /\ dataQ' = Append(dataQ, "data")
  /\ UNCHANGED <<pc, kill_thread, seq, rate, hdr, serverQ, control, out, burst_vars>>

ServerSends(m) ==
  /\ Running
  /\ Len(serverQ) < ServerQueue
  /\ serverQ' = Append(serverQ, m)
  /\ UNCHANGED <<pc, kill_thread, seq, rate, hdr, dataQ, control, out, burst_vars>>

stop_controller_thread ==
  /\ ~kill_thread
  /\ kill_thread' = TRUE
  /\ UNCHANGED <<pc, seq, rate, hdr, dataQ, serverQ, control, out, burst_vars>>

Thread == TopStop \/ TopProceed \/ TopEcho \/ HandleData \/ HandleServer \/ Timeout

Environment ==
  GenerateData \/ stop_controller_thread \/ \E m \in ServerPackets : ServerSends(m)

Next == Thread \/ Environment

Spec == Init /\ [][Next]_vars

\* The thread is scheduled, its select() times out, and the generator generates.
Fairness == WF_vars(Thread) /\ WF_vars(GenerateData)

FairSpec == Spec /\ Fairness

--------------------------------------------------------------------------------
(* Properties. *)

Packet == [type : PacketTypes, seq_num : Int, burst_start : Int, rate : Nat]

TypeOK ==
  /\ pc \in {"top", "select", "server", "returned", "exited", "ipc_error"}
  /\ kill_thread \in BOOLEAN
  /\ seq \in Nat
  /\ last_burst \in Nat
  /\ rate \in Nat
  /\ burst_seq_recv \in -1 .. BURST_SIZE - 1
  /\ burst_seq_send \in -1 .. BURST_SIZE - 1
  /\ pkt_buffer \in [0 .. BURST_SIZE - 1 -> Packet]
  /\ hdr \in Packet
  /\ dataQ \in Seq({"data", "reply"})
  /\ serverQ \in Seq(ServerPackets)
  /\ control \in Nat
  /\ out \in Seq(Packet)

\* Whatever the parameters and however the reports change the interval, no
\* packet arrives outside a burst while one is still leaving: the exit(1) of
\* "burst not done" is never taken.
NoExit == pc # "exited"

\* The two cursors of a burst are linked: packets leave only while a burst is
\* being taken in, and only packets of its first half have not begun to leave.
CursorsLinked ==
  /\ burst_seq_recv # -1 => burst_seq_recv > 0
  /\ burst_seq_send # -1 => burst_seq_recv # -1 /\ burst_seq_send > 0
  /\ ~INSTANT_BURST /\ burst_seq_recv > BURST_SIZE \div 2 => burst_seq_send # -1
  /\ INSTANT_BURST => burst_seq_send = -1

\* The generator was told the rate the loop stamps on the packets, and a rate
\* that came from a report is within the limits.
GeneratorTold ==
  IF control = 0 THEN rate = START_SPEED ELSE control = rate /\ rate \in Rates

\* The rate only goes up to the minimum, when it was below, or when a burst report
\* is read: by at most 1 Mbps, and never above 90 % of what that report measured.
\* So a report that is old or repeated may still raise the rate, but read as often
\* as it likes not beyond what was measured; a plain report never raises it.
RaisesAreEarned ==
  [][rate' > rate =>
       \/ rate' = MIN_SPEED
       \/ LET m == Head(serverQ)
          IN  /\ m.type = "BURST_REPORT"
              /\ rate' <= rate + OneMbps
              /\ rate' <= Discounted(m.rate)]_vars

\* A burst that has begun is completed, however the reports and timers fall,
\* unless the thread is stopped.
BurstCompletes == burst_seq_recv # -1 ~> burst_seq_recv = -1 \/ ~Running

\* A stop request ends the thread, also in the middle of a burst.
StopReturns == kill_thread ~> ~Running
================================================================================
