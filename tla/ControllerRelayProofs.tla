------------------------- MODULE ControllerRelayProofs -------------------------
(***************************************************************************)
(* Spec => Relay's specification, for every burst size, interval, limit    *)
(* on the rate and order of reports, when bursts cannot overlap.           *)
(***************************************************************************)
EXTENDS ControllerRelay, ControllerProofs

RelayInv == IndInv /\ GeneratorTold /\ BufferIsBurst /\ SendBehindRecv

\* A burst is never due while another one is being taken in.
LEMMA NoOverlap ==
  ASSUME RelayInv, IntervalElapsed(seq - last_burst, rate)
  PROVE  burst_seq_recv = -1
<1> SUFFICES ASSUME burst_seq_recv # -1 PROVE FALSE
  OBVIOUS
<1>1. seq - last_burst = burst_seq_recv /\ burst_seq_recv \in 0 .. BURST_SIZE - 1
  BY ParamAssumption DEF RelayInv, IndInv, TypeOK, BufferIsBurst
<1>2. rate \in Rates \cup {START_SPEED}
  BY DEF RelayInv, GeneratorTold
<1> QED BY <1>1, <1>2, IntervalCoversBurst

\* What a slice of a burst's packets looks like on the wire.
LEMMA WireOfSlice ==
  \A buf : \A first \in Int, i \in Nat, n \in Nat :
    (\A k \in i .. i + n - 1 : /\ buf[k].type = "BURST"
                               /\ buf[k].seq_num = first + k
                               /\ buf[k].burst_start = first)
    => Wire(Slice(buf, i, i + n)) = [k \in 1 .. n |-> R!InBurst(first + i + k - 1, i + k - 1)]
<1> SUFFICES ASSUME NEW buf, NEW first \in Int, NEW i \in Nat, NEW n \in Nat,
                    \A k \in i .. i + n - 1 : /\ buf[k].type = "BURST"
                                              /\ buf[k].seq_num = first + k
                                              /\ buf[k].burst_start = first
             PROVE  Wire(Slice(buf, i, i + n))
                      = [k \in 1 .. n |-> R!InBurst(first + i + k - 1, i + k - 1)]
  OBVIOUS
<1> DEFINE s == Slice(buf, i, i + n)
<1>1. s = [k \in 1 .. n |-> buf[i + k - 1]]
  BY DEF Slice
<1>2. Len(s) = n
  <2> DEFINE S == {buf[i + k - 1] : k \in 1 .. n}
  <2>1. s \in Seq(S)
    <3>1. \A k \in 1 .. n : buf[i + k - 1] \in S
      OBVIOUS
    <3>2. s \in [1 .. n -> S]
      BY <1>1, <3>1
    <3> QED BY <3>2, SeqDef
  <2>2. DOMAIN s = 1 .. Len(s) /\ Len(s) \in Nat
    BY <2>1, LenProperties
  <2>3. DOMAIN s = 1 .. n
    BY <1>1
  <2> QED BY <2>2, <2>3
<1>3. \A k \in 1 .. n : OnWire(s[k]) = R!InBurst(first + i + k - 1, i + k - 1)
  <2> TAKE k \in 1 .. n
  <2>1. s[k] = buf[i + k - 1] /\ i + k - 1 \in i .. i + n - 1
    BY <1>1
  <2> QED BY <2>1 DEF OnWire, R!InBurst
<1>4. CASE n = 0
  <2>1. s = <<>>
    BY <1>1, <1>4
  <2> QED BY <2>1, <1>4 DEF Wire
<1>5. CASE n > 0
  <2>1. s # <<>> /\ IsData(s[1])
    BY <1>1, <1>2, <1>5 DEF IsData
  <2>2. Wire(s) = [k \in 1 .. n |-> OnWire(s[k])]
    BY <2>1, <1>2 DEF Wire
  <2> QED BY <2>2, <1>3
<1> QED BY <1>4, <1>5

\* The state after packet b of a burst is stored.
LEMMA BufferDataStep ==
  ASSUME RelayInv, NEW b \in 0 .. BURST_SIZE - 1, NEW due,
         BufferData(b, due),
         hdr' = Header("BURST", seq, seq - b, rate * BURST_FACTOR),
         \/ due /\ b = 0 /\ burst_seq_recv = -1
         \/ ~due /\ b = burst_seq_recv
  PROVE  /\ last_burst' = seq - b
         /\ \A i \in 0 .. b : /\ pkt_buffer'[i].type = "BURST"
                              /\ pkt_buffer'[i].seq_num = last_burst' + i
                              /\ pkt_buffer'[i].burst_start = last_burst'
<1> USE DEF RelayInv, IndInv
<1>1. last_burst' = seq - b
  BY DEF BufferData, Stored, BufferIsBurst, TypeOK
<1>2. b # 0 => last_burst' = last_burst
  BY DEF BufferData, Stored
<1>3. pkt_buffer' = [pkt_buffer EXCEPT ![b] = hdr']
  BY DEF BufferData, Stored
<1>4. DOMAIN pkt_buffer = 0 .. BURST_SIZE - 1
  BY DEF TypeOK
<1>5. /\ pkt_buffer'[b].type = "BURST"
      /\ pkt_buffer'[b].seq_num = last_burst' + b
      /\ pkt_buffer'[b].burst_start = last_burst'
  BY <1>1, <1>3, <1>4 DEF Header, TypeOK
<1>6. ASSUME NEW i \in 0 .. b, i # b
      PROVE  /\ pkt_buffer'[i].type = "BURST"
             /\ pkt_buffer'[i].seq_num = last_burst' + i
             /\ pkt_buffer'[i].burst_start = last_burst'
  <2>1. i < b /\ b # 0 /\ i \in 0 .. BURST_SIZE - 1 /\ b = burst_seq_recv
    BY <1>6, ParamAssumption
  <2>2. pkt_buffer'[i] = pkt_buffer[i]
    BY <1>3, <1>4, <2>1
  <2> QED BY <2>1, <2>2, <1>2 DEF BufferIsBurst
<1> QED BY <1>1, <1>5, <1>6

LEMMA UnchangedRelayInv ==
  ASSUME RelayInv, UNCHANGED <<seq, burst_vars>>
  PROVE  BufferIsBurst' /\ SendBehindRecv'
<1>1. UNCHANGED <<seq, last_burst, burst_seq_recv, burst_seq_send, pkt_buffer>>
  BY DEF burst_vars
<1> QED BY <1>1 DEF RelayInv, BufferIsBurst, SendBehindRecv

LEMMA StepRelayInv == RelayInv /\ [Next]_vars => RelayInv'
<1> SUFFICES ASSUME RelayInv, [Next]_vars
             PROVE  BufferIsBurst' /\ SendBehindRecv' /\ IndInv' /\ GeneratorTold'
  BY DEF RelayInv
<1> USE DEF RelayInv
<1>1. IndInv' /\ GeneratorTold'
  BY StepIndInv, StepGeneratorTold
<1>2. CASE HandleData
  <2> DEFINE due == IntervalElapsed(seq - last_burst, rate)
             b == BurstIndex(due)
  <2>1. CASE UNCHANGED <<seq, burst_vars>>
    BY <2>1, UnchangedRelayInv, <1>1
  <2>2. CASE ~UNCHANGED <<seq, burst_vars>>
    <3>1. TakeIn(b, due)
      BY <1>2, <2>2 DEF HandleData
    <3>2. CASE b = -1
      <4>1. burst_seq_recv = -1 /\ burst_seq_send = -1
        BY <3>2, ParamAssumption DEF BurstIndex, IndInv, CursorsLinked
      <4>2. UNCHANGED burst_vars
        BY <3>1, <3>2 DEF TakeIn, ForwardData
      <4>3. burst_seq_recv' = -1 /\ burst_seq_send' = -1
        BY <4>1, <4>2 DEF burst_vars
      <4>4. BufferIsBurst' /\ SendBehindRecv'
        BY <4>3 DEF BufferIsBurst, SendBehindRecv
      <4> QED BY <4>4, <1>1
    <3>3. CASE b # -1
      <4>1. /\ b \in 0 .. BURST_SIZE - 1
            /\ BufferData(b, due)
            /\ hdr' = Header("BURST", seq, seq - b, rate * BURST_FACTOR)
            /\ \/ due /\ b = 0 /\ burst_seq_recv = -1
               \/ ~due /\ b = burst_seq_recv
        BY <3>1, <3>3, NoOverlap, ParamAssumption DEF TakeIn, BurstIndex, IndInv, TypeOK
      <4>2. /\ last_burst' = seq - b
            /\ \A i \in 0 .. b : /\ pkt_buffer'[i].type = "BURST"
                                 /\ pkt_buffer'[i].seq_num = last_burst' + i
                                 /\ pkt_buffer'[i].burst_start = last_burst'
        BY <4>1, BufferDataStep
      <4>3. /\ burst_seq_recv' = IF Complete(b) THEN -1 ELSE b + 1
            /\ burst_seq_send' = CursorAfter(b)
            /\ seq' = seq + 1
        BY <4>1 DEF BufferData, Stored
      <4>4. BufferIsBurst'
        BY <4>1, <4>2, <4>3 DEF BufferIsBurst, IndInv, TypeOK
      <4>5. SendBehindRecv'
        BY <4>1, <4>3, ParamAssumption
           DEF SendBehindRecv, IndInv, TypeOK, CursorAfter, SendUpto, SendFrom, Complete, HalfWay
      <4> QED BY <4>4, <4>5, <1>1
    <3> QED BY <3>2, <3>3
  <2> QED BY <2>1, <2>2, <1>1
<1>3. CASE Timeout
  <2>1. BufferIsBurst'
    BY <1>3 DEF Timeout, BufferIsBurst
  <2>2. SendBehindRecv'
    BY <1>3, ParamAssumption
       DEF Timeout, SendBehindRecv, NothingToSend, MayMakeUp, IndInv, TypeOK, CursorsLinked
  <2> QED BY <2>1, <2>2, <1>1
<1>4. CASE ~HandleData /\ ~Timeout
  <2>1. UNCHANGED <<seq, burst_vars>>
    BY <1>4 DEF Next, Thread, Environment, TopStop, TopProceed, TopEcho, HandleServer,
                GenerateData, stop_controller_thread, ServerSends, vars
  <2> QED BY <2>1, <1>1, UnchangedRelayInv
<1> QED BY <1>2, <1>3, <1>4

LEMMA InitRelayInv == Init => RelayInv
BY InitIndInv, ParamAssumption
   DEF RelayInv, Init, GeneratorTold, BufferIsBurst, SendBehindRecv

\* pkt_buffer always holds the burst that is being taken in.
THEOREM BufferHoldsBurst == Spec => []RelayInv
BY InitRelayInv, StepRelayInv, PTL DEF Spec

\* What leaves from pkt_buffer is the burst under way: no slot of an earlier
\* burst, or one never written, can be sent.
THEOREM BufferIsTheBurst == Spec => []BufferIsBurst
<1>1. RelayInv => BufferIsBurst
  BY DEF RelayInv
<1> QED BY <1>1, BufferHoldsBurst, PTL

\* The send cursor never overtakes the receive cursor, however late the timer.
THEOREM SendStaysBehind == Spec => []SendBehindRecv
<1>1. RelayInv => SendBehindRecv
  BY DEF RelayInv
<1> QED BY <1>1, BufferHoldsBurst, PTL

--------------------------------------------------------------------------------
(* Every step is a step of Relay. *)

LEMMA InitRefines == Init => R!Init
BY DEF Init, R!Init, Sent, Pos, Leaving, Wire

LEMMA RelayTypes ==
  ASSUME RelayInv
  PROVE  /\ seq \in Nat /\ Sent \in Int /\ Pos \in Int
         /\ Sent <= seq /\ seq - Sent < BURST_SIZE
         /\ Pos + (seq - Sent) <= BURST_SIZE
         /\ Pos \in 0 .. BURST_SIZE - 1
BY ParamAssumption
   DEF RelayInv, IndInv, TypeOK, CursorsLinked, SendBehindRecv, Sent, Pos

\* A step that neither takes a data packet in nor sends one.
LEMMA SilentStep ==
  ASSUME RelayInv, UNCHANGED <<seq, burst_vars>>, Leaving' = <<>>
  PROVE  R!Burst(0, 0)
<1>1. UNCHANGED <<seq, last_burst, burst_seq_recv, burst_seq_send, pkt_buffer>>
  BY DEF burst_vars
<1>2. Sent' = Sent /\ Pos' = Pos /\ seq' = seq
  BY <1>1 DEF Sent, Pos
<1>3. Leaving' = [i \in 1 .. 0 |-> R!InBurst(Sent + i - 1, Pos + i - 1)]
  OBVIOUS
<1> QED BY <1>2, <1>3, RelayTypes, ParamAssumption DEF R!Burst

LEMMA SignalIsSilent ==
  ASSUME NEW p, p.type \notin {"DATA", "BURST"}
  PROVE  Wire(<<p>>) = <<>>
BY DEF Wire, IsData

LEMMA NothingIsSilent == Wire(<<>>) = <<>>
BY DEF Wire

LEMMA HandleDataRefines ==
  ASSUME RelayInv, HandleData
  PROVE  R!Next
<1> DEFINE due == IntervalElapsed(seq - last_burst, rate)
           b == BurstIndex(due)
<1> USE DEF RelayInv, IndInv
<1>1. CASE Head(dataQ) = "reply"
  <2>1. UNCHANGED <<seq, burst_vars>> /\ out' = <<>>
    BY <1>1 DEF HandleData
  <2>2. Leaving' = <<>>
    BY <2>1, NothingIsSilent DEF Leaving
  <2>3. R!Burst(0, 0)
    BY <2>1, <2>2, SilentStep
  <2> QED BY <2>3, ParamAssumption DEF R!Next
<1>2. CASE Head(dataQ) # "reply" /\ b = -1
  <2>1. burst_seq_recv = -1 /\ burst_seq_send = -1
    BY <1>2, ParamAssumption DEF BurstIndex, CursorsLinked
  <2>2. /\ hdr' = Header("DATA", seq, 0, rate)
        /\ out' = <<hdr'>> /\ seq' = seq + 1 /\ UNCHANGED burst_vars
    BY <1>2, <2>1 DEF HandleData, TakeIn, ForwardData
  <2>3. Pos = 0 /\ Sent = seq /\ Pos' = 0 /\ Sent' = seq + 1
    BY <2>1, <2>2 DEF burst_vars, Pos, Sent
  <2>4. Leaving' = <<R!Plain(seq)>>
    <3>1. OnWire(hdr') = R!Plain(seq) /\ IsData(hdr')
      BY <2>2 DEF OnWire, IsData, R!Plain, Header
    <3>2. Leaving' = Wire(<<hdr'>>)
      BY <2>2 DEF Leaving
    <3>3. Wire(<<hdr'>>) = [i \in 1 .. 1 |-> OnWire(<<hdr'>>[i])]
      BY <3>1 DEF Wire
    <3> QED BY <3>1, <3>2, <3>3
  <2> QED BY <2>2, <2>3, <2>4 DEF R!Next, R!Forward
<1>3. CASE Head(dataQ) # "reply" /\ b # -1
  <2>1. /\ b \in 0 .. BURST_SIZE - 1
        /\ BufferData(b, due)
        /\ hdr' = Header("BURST", seq, seq - b, rate * BURST_FACTOR)
        /\ \/ due /\ b = 0 /\ burst_seq_recv = -1
           \/ ~due /\ b = burst_seq_recv
    BY <1>3, NoOverlap, ParamAssumption DEF HandleData, TakeIn, BurstIndex, TypeOK
  <2>2. /\ last_burst' = seq - b
        /\ \A i \in 0 .. b : /\ pkt_buffer'[i].type = "BURST"
                             /\ pkt_buffer'[i].seq_num = last_burst' + i
                             /\ pkt_buffer'[i].burst_start = last_burst'
    BY <2>1, BufferDataStep
  <2>3. /\ burst_seq_recv' = IF Complete(b) THEN -1 ELSE b + 1
        /\ burst_seq_send' = CursorAfter(b)
        /\ out' = Slice(pkt_buffer', SendFrom(b), SendUpto(b))
        /\ seq' = seq + 1
    BY <2>1 DEF BufferData, Stored
  <2> DEFINE n == SendUpto(b) - SendFrom(b)
  <2>4. Sent = seq - b + Pos
    BY <2>1 DEF Sent, Pos, CursorsLinked, TypeOK
  <2>room. Pos + (seq + 1 - Sent) <= BURST_SIZE
    BY <2>1, <2>4, RelayTypes, ParamAssumption
  <2>5. n \in 0 .. BURST_SIZE /\ SendFrom(b) \in Int /\ SendUpto(b) \in Int
    BY <2>1, ParamAssumption
       DEF SendFrom, SendUpto, Complete, HalfWay, TypeOK, CursorsLinked
  <2>6. n > 0 => SendFrom(b) = Pos /\ Pos + n <= b + 1
    BY <2>1, ParamAssumption
       DEF Pos, SendFrom, SendUpto, Complete, HalfWay, TypeOK, CursorsLinked, SendBehindRecv
  <2>7. Leaving' = [i \in 1 .. n |-> R!InBurst(Sent + i - 1, Pos + i - 1)]
    <3>1. CASE n = 0
      BY <2>3, <3>1, NothingIsSilent DEF Leaving, Slice
    <3>2. CASE n > 0
      <4> DEFINE first == seq - b
      <4>1. SendFrom(b) = Pos /\ Pos \in Nat /\ SendUpto(b) = Pos + n
        BY <2>6, <3>2, <2>5, RelayTypes
      <4>2. \A k \in Pos .. Pos + n - 1 : /\ pkt_buffer'[k].type = "BURST"
                                          /\ pkt_buffer'[k].seq_num = first + k
                                          /\ pkt_buffer'[k].burst_start = first
        BY <2>2, <2>5, <2>6, <3>2, <4>1, <2>1
      <4>3. first \in Int /\ n \in Nat
        BY <2>1, <2>5 DEF TypeOK
      <4>4. Wire(Slice(pkt_buffer', Pos, Pos + n))
              = [k \in 1 .. n |-> R!InBurst(first + Pos + k - 1, Pos + k - 1)]
        <5> HIDE DEF first, n, b, due
        <5>1. \A f \in Int, i \in Nat, l \in Nat :
                (\A k \in i .. i + l - 1 : /\ pkt_buffer'[k].type = "BURST"
                                           /\ pkt_buffer'[k].seq_num = f + k
                                           /\ pkt_buffer'[k].burst_start = f)
                => Wire(Slice(pkt_buffer', i, i + l))
                     = [k \in 1 .. l |-> R!InBurst(f + i + k - 1, i + k - 1)]
          BY WireOfSlice, ZenonT(60)
        <5> QED BY <4>1, <4>2, <4>3, <5>1, Zenon
      <4>5. Leaving' = Wire(Slice(pkt_buffer', Pos, Pos + n))
        BY <2>3, <4>1 DEF Leaving
      <4> QED BY <4>4, <4>5, <2>4
    <3> QED BY <3>1, <3>2, <2>5
  <2>8. CASE Complete(b)
    <3>1. SendFrom(b) = Pos /\ SendUpto(b) = BURST_SIZE
      BY <2>1, <2>8, ParamAssumption
         DEF Pos, SendFrom, SendUpto, Complete, HalfWay, TypeOK, CursorsLinked, SendBehindRecv
    <3>2. burst_seq_recv' = -1 /\ burst_seq_send' = -1 /\ b + 1 = BURST_SIZE
      BY <2>3, <2>8 DEF CursorAfter, Complete
    <3>3. Sent' = seq + 1 /\ Pos' = 0
      BY <2>3, <3>2 DEF Sent, Pos
    <3>4. Pos + n = BURST_SIZE /\ Sent' = Sent + n
      BY <3>1, <3>2, <3>3, <2>4, <2>1, RelayTypes, ParamAssumption
    <3>5. R!Burst(1, n)
      BY <2>3, <2>7, <2>room, <3>3, <3>4, RelayTypes, ParamAssumption DEF R!Burst
    <3> QED BY <2>5, <3>5 DEF R!Next
  <2>9. CASE ~Complete(b)
    <3>1. /\ burst_seq_recv' = b + 1 /\ burst_seq_recv' # -1 /\ b + 1 < BURST_SIZE
          /\ burst_seq_send' = SendUpto(b)
      BY <2>1, <2>3, <2>9, ParamAssumption DEF CursorAfter, Complete
    <3>2. Pos' = Pos + n /\ Pos' <= b + 1
      <4>1. CASE HalfWay(b)
        <5>1. SendFrom(b) = 0 /\ SendUpto(b) = 1 /\ Pos = 0
          BY <4>1, <2>1, <2>9, ParamAssumption
             DEF SendFrom, SendUpto, HalfWay, Pos, TypeOK, CursorsLinked, SendBehindRecv
        <5> QED BY <5>1, <3>1, <2>1 DEF Pos
      <4>2. CASE ~HalfWay(b)
        <5>1. SendFrom(b) = burst_seq_send /\ SendUpto(b) = burst_seq_send
          BY <4>2, <2>9 DEF SendFrom, SendUpto
        <5> QED BY <5>1, <3>1, <2>1 DEF Pos, TypeOK, SendBehindRecv
      <4> QED BY <4>1, <4>2
    <3>3. Sent' = seq - b + Pos'
      BY <2>3, <3>1, <2>1, RelayTypes DEF Sent
    <3>4. Sent' = Sent + n /\ Sent' <= seq' /\ seq' - Sent' < BURST_SIZE /\ Pos + n < BURST_SIZE
      BY <3>1, <3>2, <3>3, <2>1, <2>3, <2>4, <2>5, RelayTypes, ParamAssumption
    <3>5. R!Burst(1, n)
      BY <2>3, <2>7, <2>room, <3>2, <3>4, RelayTypes, ParamAssumption DEF R!Burst
    <3> QED BY <2>5, <3>5 DEF R!Next
  <2> QED BY <2>8, <2>9
<1> QED BY <1>1, <1>2, <1>3

LEMMA TimeoutRefines ==
  ASSUME RelayInv, Timeout
  PROVE  R!Next
<1> USE DEF RelayInv, IndInv
<1>1. CASE NothingToSend
  <2>1. UNCHANGED <<seq, burst_vars>> /\ out' = <<>>
    BY <1>1 DEF Timeout, burst_vars
  <2>2. Leaving' = <<>>
    BY <2>1, NothingIsSilent DEF Leaving
  <2>3. R!Burst(0, 0)
    BY <2>1, <2>2, SilentStep
  <2> QED BY <2>3, ParamAssumption DEF R!Next
<1>2. CASE ~NothingToSend
  <2>1. PICK n \in 1 .. BURST_SIZE :
          /\ MayMakeUp(n)
          /\ out' = Slice(pkt_buffer, burst_seq_send, burst_seq_send + n)
          /\ burst_seq_send' = IF burst_seq_send + n = BURST_SIZE
                               THEN -1
                               ELSE burst_seq_send + n
    BY <1>2 DEF Timeout
  <2>2. UNCHANGED <<seq, last_burst, burst_seq_recv, pkt_buffer>>
    BY DEF Timeout
  <2>3. /\ burst_seq_send = Pos /\ Pos \in Nat /\ burst_seq_recv # -1
        /\ Pos + n <= burst_seq_recv
    BY <1>2, <2>1, ParamAssumption DEF NothingToSend, MayMakeUp, TypeOK, CursorsLinked, Pos
  <2>4. Pos' = Pos + n /\ Pos + n < BURST_SIZE
    BY <2>1, <2>3, ParamAssumption DEF Pos, TypeOK
  <2>5. Sent = last_burst + Pos /\ Sent' = Sent + n /\ Sent' <= seq'
    BY <2>2, <2>3, <2>4 DEF Sent, BufferIsBurst, TypeOK
  <2>6. Leaving' = [k \in 1 .. n |-> R!InBurst(Sent + k - 1, Pos + k - 1)]
    <3>1. \A k \in Pos .. Pos + n - 1 : /\ pkt_buffer[k].type = "BURST"
                                        /\ pkt_buffer[k].seq_num = last_burst + k
                                        /\ pkt_buffer[k].burst_start = last_burst
      BY <2>3, ParamAssumption DEF BufferIsBurst, TypeOK
    <3>2. last_burst \in Int /\ n \in Nat
      BY DEF TypeOK
    <3>3. Wire(Slice(pkt_buffer, Pos, Pos + n))
            = [k \in 1 .. n |-> R!InBurst(last_burst + Pos + k - 1, Pos + k - 1)]
      <4>1. \A f \in Int, i \in Nat, l \in Nat :
              (\A k \in i .. i + l - 1 : /\ pkt_buffer[k].type = "BURST"
                                         /\ pkt_buffer[k].seq_num = f + k
                                         /\ pkt_buffer[k].burst_start = f)
              => Wire(Slice(pkt_buffer, i, i + l))
                   = [k \in 1 .. l |-> R!InBurst(f + i + k - 1, i + k - 1)]
        BY WireOfSlice, ZenonT(60)
      <4> QED BY <2>3, <3>1, <3>2, <4>1, Zenon
    <3>4. Leaving' = Wire(Slice(pkt_buffer, Pos, Pos + n))
      BY <2>1, <2>3 DEF Leaving
    <3> QED BY <3>3, <3>4, <2>5
  <2>7. R!Burst(0, n)
    BY <2>2, <2>4, <2>5, <2>6, RelayTypes, ParamAssumption, SMTT(30) DEF R!Burst
  <2> QED BY <2>7 DEF R!Next
<1> QED BY <1>1, <1>2

LEMMA OtherThreadStepsRefine ==
  ASSUME RelayInv, TopStop \/ TopProceed \/ TopEcho \/ HandleServer
  PROVE  R!Next
<1>1. UNCHANGED <<seq, burst_vars>>
  BY DEF TopStop, TopProceed, TopEcho, HandleServer
<1>2. Leaving' = <<>>
  <2>1. CASE TopStop
    <3>1. Signal("STOP").type \notin {"DATA", "BURST"}
      BY DEF Signal, Header
    <3> QED BY <2>1, <3>1, SignalIsSilent DEF TopStop, Leaving
  <2>2. CASE TopProceed
    BY <2>2, NothingIsSilent DEF TopProceed, Leaving
  <2>3. CASE TopEcho
    <3>1. hdr'.type = "ECHO" /\ out' = <<hdr'>>
      BY <2>3 DEF TopEcho, RelayInv, IndInv, TypeOK, Packet
    <3>2. Wire(out') = <<>>
      BY <3>1 DEF Wire, IsData
    <3> QED BY <3>2 DEF Leaving
  <2>4. CASE HandleServer
    <3> DEFINE reply == StartReply(Head(serverQ))
    <3>1. out' = <<reply>> \/ out' = <<>>
      BY <2>4 DEF HandleServer
    <3>2. reply.type \notin {"DATA", "BURST"}
      BY DEF StartReply, Signal, Header
    <3>3. Wire(<<reply>>) = <<>> /\ Wire(<<>>) = <<>>
      BY <3>2, SignalIsSilent, NothingIsSilent
    <3> QED BY <3>1, <3>3 DEF Leaving
  <2> QED BY <2>1, <2>2, <2>3, <2>4
<1>3. R!Burst(0, 0)
  BY <1>1, <1>2, SilentStep
<1> QED BY <1>3, ParamAssumption DEF R!Next

LEMMA EnvironmentStutters ==
  ASSUME Environment \/ UNCHANGED vars
  PROVE  UNCHANGED R!vars
<1>1. UNCHANGED <<seq, out, last_burst, burst_seq_recv, burst_seq_send>>
  BY DEF Environment, GenerateData, stop_controller_thread, ServerSends, vars, burst_vars
<1> QED BY <1>1 DEF R!vars, Sent, Pos, Leaving

LEMMA StepRefines == RelayInv /\ [Next]_vars => [R!Next]_(R!vars)
<1> SUFFICES ASSUME RelayInv, [Next]_vars PROVE [R!Next]_(R!vars)
  OBVIOUS
<1> QED BY HandleDataRefines, TimeoutRefines, OtherThreadStepsRefine, EnvironmentStutters
        DEF Next, Thread

\* The control loop relays every packet once, in order, in whole bursts.
THEOREM ControllerRefinesRelay == Spec => RefinesRelay
BY InitRelayInv, StepRelayInv, InitRefines, StepRefines, PTL DEF Spec, RefinesRelay, R!Spec
================================================================================
