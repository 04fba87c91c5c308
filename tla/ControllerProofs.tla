--------------------------- MODULE ControllerProofs ----------------------------
(***************************************************************************)
(* What holds of the control loop for every value of its parameters.       *)
(***************************************************************************)
EXTENDS Controller, SequenceTheorems, TLAPS

USE DEF DataReady

--------------------------------------------------------------------------------
(* The rate arithmetic. *)

\* adjustRate() always returns a rate within the limits, whatever it is given.
LEMMA AdjustRateInRates ==
  ASSUME NEW current \in Nat, NEW reported \in Nat, NEW burst \in BOOLEAN
  PROVE  adjustRate(current, reported, burst) \in Rates
<1>1. ASSUME NEW r \in Int PROVE ClampRate(r) \in Rates
  BY SpeedAssumption DEF ClampRate, Rates
<1>2. Discounted(reported) \in Int
  BY DEF Discounted
<1> QED BY <1>1, <1>2, SpeedAssumption DEF adjustRate

\* It raises the rate only on a burst report, by at most 1 Mbps and not above 90 %
\* of what was reported, or to the minimum.
LEMMA AdjustRateRaise ==
  ASSUME NEW current \in Nat, NEW reported \in Nat, NEW burst \in BOOLEAN,
         adjustRate(current, reported, burst) > current
  PROVE  \/ adjustRate(current, reported, burst) = MIN_SPEED
         \/ /\ burst
            /\ adjustRate(current, reported, burst) <= current + OneMbps
            /\ adjustRate(current, reported, burst) <= Discounted(reported)
<1>1. Discounted(reported) \in Int
  BY DEF Discounted
<1>2. CASE burst
  BY <1>1, <1>2, SpeedAssumption DEF adjustRate, ClampRate
<1>3. CASE ~burst
  BY <1>3, SpeedAssumption DEF adjustRate, ClampRate
<1> QED BY <1>2, <1>3

--------------------------------------------------------------------------------
(* Types and cursors. *)

IndInv == TypeOK /\ CursorsLinked /\ NoExit

LEMMA SliceType ==
  ASSUME NEW buf \in [0 .. BURST_SIZE - 1 -> Packet],
         NEW i \in Int, NEW j \in Int, i >= 0 \/ j = i, j <= BURST_SIZE
  PROVE  Slice(buf, i, j) \in Seq(Packet)
<1>1. CASE j <= i
  <2>1. Slice(buf, i, j) = [k \in 1 .. 0 |-> buf[i + k - 1]]
    BY <1>1 DEF Slice
  <2> QED BY <2>1, <1>1
<1>2. CASE j > i
  <2>1. \A k \in 1 .. j - i : buf[i + k - 1] \in Packet
    BY <1>2, ParamAssumption
  <2>2. j - i \in Nat
    BY <1>2
  <2> QED BY <2>1, <2>2, IsASeq DEF Slice
<1> QED BY <1>1, <1>2

LEMMA HeaderType ==
  ASSUME NEW t \in PacketTypes, NEW s \in Int, NEW b \in Int, NEW r \in Nat
  PROVE  Header(t, s, b, r) \in Packet
BY DEF Header, Packet

LEMMA SignalType ==
  ASSUME NEW t \in PacketTypes
  PROVE  Signal(t) \in Packet
BY HeaderType DEF Signal

LEMMA InitIndInv == Init => IndInv
<1> SUFFICES ASSUME Init PROVE IndInv
  OBVIOUS
<1> USE ParamAssumption DEF Init
<1>1. pkt_buffer \in [0 .. BURST_SIZE - 1 -> Packet] /\ hdr \in Packet
  BY HeaderType DEF Garbage, Zero, PacketTypes
<1>2. dataQ \in Seq({"data", "reply"})
  OBVIOUS
<1>3. TypeOK
  BY <1>1, <1>2, EmptySeq DEF TypeOK
<1>4. CursorsLinked /\ NoExit
  BY DEF CursorsLinked, NoExit
<1> QED BY <1>3, <1>4 DEF IndInv

\* The part of the state that the steps without data packets leave alone.
LEMMA TopStepIndInv ==
  ASSUME IndInv, TopStop \/ TopProceed \/ TopEcho
  PROVE  IndInv'
<1> USE DEF IndInv, burst_vars, env_vars
<1>1. CASE TopStop
  <2>1. out' \in Seq(Packet)
    BY <1>1, SignalType DEF TopStop, PacketTypes
  <2> QED BY <1>1, <2>1 DEF TopStop, TypeOK, CursorsLinked, NoExit
<1>2. CASE TopProceed
  BY <1>2, EmptySeq DEF TopProceed, TypeOK, CursorsLinked, NoExit
<1>3. CASE TopEcho
  <2>1. hdr' \in Packet
    BY <1>3 DEF TopEcho, TypeOK, Packet, PacketTypes
  <2>2. out' \in Seq(Packet)
    BY <1>3, <2>1 DEF TopEcho
  <2> QED BY <1>3, <2>1, <2>2 DEF TopEcho, TypeOK, CursorsLinked, NoExit
<1> QED BY <1>1, <1>2, <1>3

\* Only the cursors' own arithmetic matters when a burst packet is stored.
LEMMA BurstCursors ==
  ASSUME IndInv, NEW b \in 0 .. BURST_SIZE - 1, b = 0 \/ b = burst_seq_recv
  PROVE  /\ SendFrom(b) \in Int
         /\ SendUpto(b) \in Int
         /\ SendFrom(b) >= 0 \/ SendUpto(b) = SendFrom(b)
         /\ SendUpto(b) <= BURST_SIZE
         /\ ~Complete(b) => /\ CursorAfter(b) \in -1 .. BURST_SIZE - 1
                            /\ CursorAfter(b) # 0
                            /\ INSTANT_BURST => CursorAfter(b) = -1
                            /\ ~INSTANT_BURST /\ b + 1 > BURST_SIZE \div 2 => CursorAfter(b) # -1
         /\ Complete(b) => CursorAfter(b) = -1
BY ParamAssumption
   DEF IndInv, TypeOK, CursorsLinked, SendFrom, SendUpto, CursorAfter, HalfWay, Complete

LEMMA HandleDataIndInv ==
  ASSUME IndInv, HandleData
  PROVE  IndInv'
<1> USE DEF IndInv
<1> DEFINE due == IntervalElapsed(seq - last_burst, rate)
           b == BurstIndex(due)
<1>1. dataQ' \in Seq({"data", "reply"})
  <2>1. dataQ # <<>> /\ dataQ' = Tail(dataQ)
    BY DEF HandleData
  <2> QED BY <2>1 DEF TypeOK
<1>2. /\ rate' = rate /\ control' = control /\ kill_thread' = kill_thread
      /\ serverQ' = serverQ
  BY DEF HandleData
<1>3. CASE Head(dataQ) = "reply"
  <2>1. /\ pc' = "ipc_error" /\ out' = <<>> /\ seq' = seq /\ hdr' = hdr
        /\ UNCHANGED burst_vars
    BY <1>3 DEF HandleData
  <2> QED BY <1>1, <1>2, <2>1, EmptySeq DEF TypeOK, CursorsLinked, NoExit, burst_vars
<1>4. CASE Head(dataQ) # "reply"
  <2>1. TakeIn(b, due)
    BY <1>4 DEF HandleData
  <2>2. b \in -1 .. BURST_SIZE - 1 /\ (b = -1 \/ b = 0 \/ b = burst_seq_recv)
        /\ (b = -1 => burst_seq_recv = -1)
    BY ParamAssumption DEF TypeOK, BurstIndex
  <2>3. hdr' \in Packet
    <3>1. b = -1 => hdr' = Header("DATA", seq, 0, rate)
      BY <2>1 DEF TakeIn
    <3>2. b # -1 => hdr' = Header("BURST", seq, seq - b, rate * BURST_FACTOR)
      BY <2>1 DEF TakeIn
    <3>3. seq \in Int /\ seq - b \in Int /\ rate \in Nat /\ rate * BURST_FACTOR \in Nat
      BY <2>2 DEF TypeOK, BURST_FACTOR
    <3> QED BY <3>1, <3>2, <3>3, HeaderType DEF PacketTypes
  <2>4. CASE b = -1
    <3>1. burst_seq_send = -1
      BY <2>4, <2>2 DEF CursorsLinked
    <3>2. /\ out' = <<hdr'>> /\ AfterData /\ seq' = seq + 1 /\ UNCHANGED burst_vars
      BY <2>1, <2>4, <3>1 DEF TakeIn, ForwardData
    <3>3. out' \in Seq(Packet)
      BY <3>2, <2>3
    <3> QED BY <1>1, <1>2, <2>3, <3>2, <3>3
            DEF TypeOK, CursorsLinked, NoExit, burst_vars, AfterData
  <2>5. CASE b # -1
    <3>1. b \in 0 .. BURST_SIZE - 1
      BY <2>2, <2>5
    <3>2. BufferData(b, due)
      BY <2>1, <2>5 DEF TakeIn
    <3>3. pkt_buffer' \in [0 .. BURST_SIZE - 1 -> Packet]
      BY <3>2, <2>3 DEF BufferData, Stored, TypeOK
    <3>4. out' \in Seq(Packet)
      BY <3>1, <3>2, <3>3, <2>2, BurstCursors, SliceType DEF BufferData, Stored
    <3>5. last_burst' \in Nat /\ seq' \in Nat
      BY <3>2 DEF BufferData, Stored, TypeOK
    <3>6. pc' \in {"top", "server"}
      BY <3>2 DEF BufferData, Stored, AfterData
    <3>7. /\ burst_seq_recv' = IF Complete(b) THEN -1 ELSE b + 1
          /\ burst_seq_send' = CursorAfter(b)
      BY <3>2 DEF BufferData, Stored
    <3>8. /\ burst_seq_recv' \in -1 .. BURST_SIZE - 1
          /\ burst_seq_send' \in -1 .. BURST_SIZE - 1
          /\ CursorsLinked'
      BY <3>1, <3>7, <2>2, BurstCursors, ParamAssumption DEF CursorsLinked, Complete
    <3> QED BY <1>1, <1>2, <2>3, <3>3, <3>4, <3>5, <3>6, <3>8 DEF TypeOK, NoExit
  <2> QED BY <2>4, <2>5
<1> QED BY <1>3, <1>4

LEMMA ServerPacketRate ==
  ASSUME NEW m \in ServerPackets
  PROVE  m.rate \in Nat /\ (m.type = "BURST_REPORT") \in BOOLEAN
<1>1. m.rate \in Speeds \cup {0}
  BY DEF ServerPackets
<1>2. m.rate \in Nat
  <2>1. \A s \in Speeds : s \in Nat
    BY ParamAssumption
  <2> QED BY <1>1, <2>1
<1>3. (m.type = "BURST_REPORT") \in BOOLEAN
  OBVIOUS
<1> QED BY <1>2, <1>3

LEMMA HandleServerIndInv ==
  ASSUME IndInv, HandleServer
  PROVE  IndInv'
<1> USE DEF IndInv
<1> DEFINE m == Head(serverQ)
<1>1. m \in ServerPackets /\ serverQ' \in Seq(ServerPackets)
  BY DEF HandleServer, TypeOK
<1>2. RateAfter(m) \in Nat /\ ControlAfter(m) \in Nat
  <2>1. m.rate \in Nat /\ (m.type = "BURST_REPORT") \in BOOLEAN
    BY <1>1, ServerPacketRate
  <2>2. adjustRate(rate, m.rate, m.type = "BURST_REPORT") \in Rates
    BY <2>1, AdjustRateInRates DEF TypeOK
  <2> QED BY <2>2, SpeedAssumption DEF RateAfter, ControlAfter, TypeOK, Rates
<1>3. /\ UNCHANGED <<seq, hdr, last_burst, burst_seq_recv, burst_seq_send, pkt_buffer>>
      /\ UNCHANGED <<kill_thread, dataQ>>
  BY DEF HandleServer, burst_vars
<1>4. rate' \in Nat /\ control' \in Nat
  BY <1>2 DEF HandleServer, TypeOK
<1>5. pc' \in {"top", "returned"}
  BY DEF HandleServer
<1>6. out' \in Seq(Packet)
  <2>1. StartReply(m) \in Packet
    BY SignalType DEF StartReply, PacketTypes
  <2>2. out' = <<StartReply(m)>> \/ out' = <<>>
    BY DEF HandleServer
  <2>3. <<StartReply(m)>> \in Seq(Packet) /\ <<>> \in Seq(Packet)
    BY <2>1
  <2> QED BY <2>2, <2>3, Zenon
<1> QED BY <1>1, <1>3, <1>4, <1>5, <1>6 DEF TypeOK, CursorsLinked, NoExit

LEMMA TimeoutIndInv ==
  ASSUME IndInv, Timeout
  PROVE  IndInv'
<1> USE DEF IndInv
<1>1. /\ UNCHANGED <<seq, rate, hdr, control, last_burst, burst_seq_recv, pkt_buffer>>
      /\ UNCHANGED <<kill_thread, dataQ, serverQ>>
      /\ pc' = "top"
  BY DEF Timeout, env_vars
<1>2. CASE NothingToSend
  <2>1. out' = <<>> /\ burst_seq_send' = burst_seq_send
    BY <1>2 DEF Timeout
  <2> QED BY <1>1, <2>1, EmptySeq DEF TypeOK, CursorsLinked, NoExit
<1>3. CASE ~NothingToSend
  <2>1. PICK n \in 1 .. BURST_SIZE :
          /\ MayMakeUp(n)
          /\ out' = Slice(pkt_buffer, burst_seq_send, burst_seq_send + n)
          /\ burst_seq_send' = IF burst_seq_send + n = BURST_SIZE
                               THEN -1
                               ELSE burst_seq_send + n
    BY <1>3 DEF Timeout
  <2>2. /\ burst_seq_send \in Nat /\ burst_seq_send > 0
        /\ burst_seq_recv # -1
        /\ burst_seq_send + n <= burst_seq_recv
    BY <1>3, <2>1, ParamAssumption DEF NothingToSend, MayMakeUp, TypeOK, CursorsLinked
  <2>3. burst_seq_send' = burst_seq_send + n /\ burst_seq_send' < BURST_SIZE
    BY <2>1, <2>2, ParamAssumption DEF TypeOK
  <2>4. out' \in Seq(Packet)
    <3>1. /\ pkt_buffer \in [0 .. BURST_SIZE - 1 -> Packet]
          /\ burst_seq_send \in Int /\ burst_seq_send + n \in Int
          /\ burst_seq_send >= 0
          /\ burst_seq_send + n <= BURST_SIZE
      BY <2>2, <2>3, <2>1, ParamAssumption DEF TypeOK
    <3> QED BY <2>1, <3>1, SliceType
  <2> QED BY <1>1, <2>2, <2>3, <2>4, ParamAssumption
          DEF TypeOK, CursorsLinked, NoExit
<1> QED BY <1>2, <1>3

LEMMA EnvironmentIndInv ==
  ASSUME IndInv, Environment
  PROVE  IndInv'
<1> USE DEF IndInv, burst_vars
<1>1. CASE GenerateData
  <2>1. dataQ' = Append(dataQ, "data")
    BY <1>1 DEF GenerateData
  <2>2. dataQ' \in Seq({"data", "reply"})
    BY <2>1 DEF TypeOK
  <2> QED BY <1>1, <2>2 DEF GenerateData, TypeOK, CursorsLinked, NoExit
<1>2. CASE stop_controller_thread
  BY <1>2 DEF stop_controller_thread, TypeOK, CursorsLinked, NoExit
<1>3. ASSUME NEW m \in ServerPackets, ServerSends(m) PROVE IndInv'
  <2>1. serverQ' \in Seq(ServerPackets)
    BY <1>3 DEF ServerSends, TypeOK
  <2> QED BY <1>3, <2>1 DEF ServerSends, TypeOK, CursorsLinked, NoExit
<1> QED BY <1>1, <1>2, <1>3 DEF Environment

LEMMA StutterIndInv ==
  ASSUME IndInv, UNCHANGED vars
  PROVE  IndInv'
BY DEF IndInv, vars, burst_vars, TypeOK, CursorsLinked, NoExit

LEMMA StepIndInv == IndInv /\ [Next]_vars => IndInv'
<1> SUFFICES ASSUME IndInv, [Next]_vars PROVE IndInv'
  OBVIOUS
<1> QED BY TopStepIndInv, HandleDataIndInv, HandleServerIndInv, TimeoutIndInv,
           EnvironmentIndInv, StutterIndInv
        DEF Next, Thread

\* IndInv is an invariant of the control loop, with any interval.
THEOREM Invariance == Spec => []IndInv
BY InitIndInv, StepIndInv, PTL DEF Spec

\* The variables keep their types; the cursors never leave the buffer.
THEOREM TypeCorrect == Spec => []TypeOK
<1>1. IndInv => TypeOK
  BY DEF IndInv
<1> QED BY <1>1, Invariance, PTL

\* The process never exits with "burst not done", however the interval changes
\* while a burst is under way.
THEOREM NeverExits == Spec => []NoExit
<1>1. IndInv => NoExit
  BY DEF IndInv
<1> QED BY <1>1, Invariance, PTL

\* A burst leaves only while it is taken in, and begins to leave half-way.
THEOREM CursorsAreLinked == Spec => []CursorsLinked
<1>1. IndInv => CursorsLinked
  BY DEF IndInv
<1> QED BY <1>1, Invariance, PTL

--------------------------------------------------------------------------------
(* The rate. *)

LEMMA OnlyServerChangesRate ==
  ASSUME [Next]_vars, ~HandleServer
  PROVE  rate' = rate /\ control' = control
BY DEF Next, Thread, Environment, TopStop, TopProceed, TopEcho, HandleData, Timeout,
       GenerateData, stop_controller_thread, ServerSends, vars

LEMMA ServerChangesRate ==
  ASSUME IndInv, HandleServer
  PROVE  /\ Head(serverQ) \in ServerPackets
         /\ \/ rate' = rate /\ control' = control
            \/ /\ rate' = adjustRate(rate, Head(serverQ).rate, Head(serverQ).type = "BURST_REPORT")
               /\ control' = rate'
<1>1. Head(serverQ) \in ServerPackets
  BY DEF HandleServer, IndInv, TypeOK
<1> QED BY <1>1 DEF HandleServer, RateAfter, ControlAfter

LEMMA StepGeneratorTold == IndInv /\ GeneratorTold /\ [Next]_vars => GeneratorTold'
<1> SUFFICES ASSUME IndInv, GeneratorTold, [Next]_vars PROVE GeneratorTold'
  OBVIOUS
<1>1. CASE ~HandleServer
  BY <1>1, OnlyServerChangesRate DEF GeneratorTold
<1>2. CASE HandleServer
  <2> DEFINE m == Head(serverQ)
  <2>1. m \in ServerPackets
    BY <1>2, ServerChangesRate
  <2>2. adjustRate(rate, m.rate, m.type = "BURST_REPORT") \in Rates
    BY <2>1, ServerPacketRate, AdjustRateInRates DEF IndInv, TypeOK
  <2>3. adjustRate(rate, m.rate, m.type = "BURST_REPORT") # 0
    BY <2>2, SpeedAssumption DEF Rates
  <2> QED BY <1>2, <2>2, <2>3, ServerChangesRate DEF GeneratorTold
<1> QED BY <1>1, <1>2

\* The generator has been told the current rate, which is within the limits.
THEOREM GeneratorIsTold == Spec => []GeneratorTold
<1>1. Init => GeneratorTold
  BY DEF Init, GeneratorTold
<1> QED BY <1>1, StepGeneratorTold, Invariance, PTL DEF Spec

\* A plain report never raises the rate; a burst report by at most 1 Mbps, and
\* never above 90 % of what it measured.
THEOREM RaisesEarned == Spec => RaisesAreEarned
<1> DEFINE A == rate' > rate =>
                  \/ rate' = MIN_SPEED
                  \/ LET m == Head(serverQ)
                     IN  /\ m.type = "BURST_REPORT"
                         /\ rate' <= rate + OneMbps
                         /\ rate' <= Discounted(m.rate)
<1>1. ASSUME IndInv, [Next]_vars PROVE [A]_vars
  <2>1. CASE ~HandleServer
    BY <1>1, <2>1, OnlyServerChangesRate DEF IndInv, TypeOK
  <2>2. CASE HandleServer
    <3> DEFINE m == Head(serverQ)
    <3>1. m \in ServerPackets
      BY <1>1, <2>2, ServerChangesRate
    <3>2. m.rate \in Nat /\ (m.type = "BURST_REPORT") \in BOOLEAN /\ rate \in Nat
      BY <1>1, <3>1, ServerPacketRate DEF IndInv, TypeOK
    <3>3. CASE rate' = rate
      BY <3>3, <3>2
    <3>4. CASE rate' = adjustRate(rate, m.rate, m.type = "BURST_REPORT")
      BY <3>4, <3>2, AdjustRateRaise
    <3> QED BY <1>1, <2>2, <3>3, <3>4, ServerChangesRate
  <2> QED BY <2>1, <2>2
<1> QED BY <1>1, Invariance, PTL DEF Spec, RaisesAreEarned
================================================================================
