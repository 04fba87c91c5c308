------------------------------- MODULE LinkProofs -------------------------------
(***************************************************************************)
(* What holds of the receiver at the end of the path for every burst size, *)
(* every rate and every network.                                           *)
(***************************************************************************)
EXTENDS Link, TLAPS

USE ReceiverAssumption, LinkAssumption
USE DEF window, burst_state, rate_state, receiver_vars, sender_vars, history

--------------------------------------------------------------------------------
(* Remainders. *)

LEMMA ModRange ==
  ASSUME NEW n \in Nat \ {0}, NEW a \in Int
  PROVE  a % n \in 0 .. n - 1
OBVIOUS

LEMMA ModDiv ==
  ASSUME NEW n \in Nat \ {0}, NEW a \in Int
  PROVE  a \div n \in Int /\ a = n * (a \div n) + (a % n)
OBVIOUS

LEMMA ModEq ==
  ASSUME NEW n \in Nat \ {0}, NEW a \in Int, NEW b \in Int, a % n = b % n, a - b < n, b - a < n
  PROVE  a = b
<1> DEFINE k == (a \div n) - (b \div n)
<1>1. k \in Int /\ a - b = n * k
  BY ModDiv
<1> HIDE DEF k
<1>2. n * k < n /\ -n < n * k
  BY <1>1
<1>3. k >= 1 => n * k >= n
  BY <1>1
<1>4. k <= -1 => n * k <= -n
  BY <1>1
<1> QED BY <1>1, <1>2, <1>3, <1>4

LEMMA ModUnique ==
  ASSUME NEW n \in Nat \ {0}, NEW q \in Int, NEW r \in 0 .. n - 1
  PROVE  (n * q + r) % n = r
<1> DEFINE a == n * q + r
<1>1. a \in Int /\ a = n * (a \div n) + (a % n) /\ a \div n \in Int /\ a % n \in 0 .. n - 1
  BY ModDiv, ModRange
<1> DEFINE k == (a \div n) - q
<1>2. k \in Int /\ n * k = r - (a % n)
  BY <1>1
<1> HIDE DEF a, k
<1>3. k >= 1 => n * k >= n
  BY <1>2
<1>4. k <= -1 => n * k <= -n
  BY <1>2
<1>5. k = 0 
  BY <1>1, <1>2, <1>3, <1>4
<1>6. a % n = r
  BY <1>1, <1>2, <1>5
<1> QED BY <1>6 DEF a

LEMMA ModAdd ==
  ASSUME NEW n \in Nat \ {0}, NEW a \in Int
  PROVE  (a + n) % n = a % n
<1> DEFINE q == a \div n  r == a % n
<1>1. q \in Int /\ r \in 0 .. n - 1 /\ a = n * q + r
  BY ModDiv, ModRange
<1> HIDE DEF q, r
<1>2. a + n = n * (q + 1) + r
  BY <1>1
<1>3. a % n = r /\ (n * (q + 1) + r) % n = r
  BY <1>1, ModUnique
<1> QED BY <1>2, <1>3

--------------------------------------------------------------------------------
(* The invariants. *)

Headers == [type : {"DATA", "BURST", "ECHO", "START_ACK"}, seq_num : Nat, burst_start : Nat, rate : Nat]
Signals == [type : {"STOP", "START"}, from : {"peer", "other"}]

\* Where the burst that is under way starts, or the next one will.
current == sent - pos
Open == pos > 0 \/ sent < accepted

\* The sender: the packets that wait are those of the burst under way, in order.
SenderInv ==
  /\ accepted \in Nat /\ sent \in 0 .. accepted /\ pos \in 0 .. BURST_SIZE - 1 /\ pos <= sent
  /\ pos + (accepted - sent) <= BURST_SIZE /\ accepted - sent < BURST_SIZE
  /\ pending \in Seq(Headers) /\ Len(pending) = accepted - sent
  /\ \A i \in 1 .. Len(pending) :
       /\ pending[i].type = "BURST" /\ pending[i].burst_start = current
       /\ pending[i].seq_num = sent + i - 1
  /\ hdr \in Headers

NetInv ==
  /\ net \in Seq(Headers \cup Signals)
  /\ \A i \in 1 .. Len(net) :
       /\ net[i].type = "BURST" =>
            net[i].burst_start <= net[i].seq_num /\ net[i].seq_num < net[i].burst_start + BURST_SIZE
       /\ net[i].type \in {"ECHO", "START_ACK"} => Strays

\* The ring: what is marked as received is one of the last BURST_SIZE packets, or the
\* one whose measurement was skipped.
RingInv ==
  \A i \in Slots : received[i] = 1 =>
    arrivals[i].seq % BURST_SIZE = i /\ arrivals[i].seq \in seq - BURST_SIZE .. seq

\* The array of a burst: it holds packets of bursts, and they are behind.
BurstInv == \A i \in Slots : barrivals[i] # Never => barrivals[i].type = "BURST" /\ barrivals[i].seq < seq

BaseInv == TypeOK /\ SenderInv /\ NetInv /\ RingInv /\ BurstInv /\ IndicesSafe

LEMMA BaseInit == Init => BaseInv
<1> SUFFICES ASSUME Init PROVE BaseInv
  OBVIOUS
<1> USE DEF Init, ReceiverInit, Sender!Init
<1>1. Never \in ArrivalRecord
  BY DEF Never, ArrivalRecord
<1>2. received \in [Slots -> {0, 1}] /\ arrivals \in [Slots -> ArrivalRecord]
      /\ breceived \in [Slots -> {0, 1}] /\ barrivals \in [Slots -> ArrivalRecord]
  BY <1>1
<1>3. TypeOK
  <2>1. Len(net) = 0 /\ highest \in Int /\ numBelowThreshold \in 0 .. GRACE_PERIOD - 1
    OBVIOUS
  <2>2. numAtCurRate \in 0 .. BURST_SIZE /\ curRate \in Nat /\ seq \in Nat
    OBVIOUS
  <2>3. pc \in {"loop", "returned", "exited"} /\ kill \in BOOLEAN /\ burst \in BOOLEAN
    OBVIOUS
  <2>4. Len(net) <= NetSize + BURST_SIZE
    BY <2>1
  <2> HIDE DEF Init
  <2> QED BY <1>2, <2>1, <2>2, <2>3, <2>4, Zenon DEF TypeOK
<1>4. SenderInv
  BY DEF SenderInv, Headers, Header
<1>5. NetInv /\ RingInv /\ BurstInv
  BY DEF NetInv, RingInv, BurstInv
<1>6. IndicesSafe
  BY DEF IndicesSafe, Slots
<1> QED BY <1>3, <1>4, <1>5, <1>6 DEF BaseInv

--------------------------------------------------------------------------------
(* The sender. *)

LEMMA Slices ==
  ASSUME NEW S, NEW w \in Seq(S), NEW n \in 0 .. Len(w), NEW q, q = SubSeq(w, 1, n),
         NEW r, r = SubSeq(w, n + 1, Len(w))
  PROVE  /\ q \in Seq(S) /\ Len(q) = n /\ \A i \in 1 .. n : q[i] = w[i]
         /\ r \in Seq(S) /\ Len(r) = Len(w) - n /\ \A i \in 1 .. Len(w) - n : r[i] = w[n + i]
<1>1. q \in Seq(S) /\ Len(q) = n
  OBVIOUS
<1>2. \A i \in 1 .. n : q[i] = w[i]
  OBVIOUS
<1>3. r \in Seq(S) /\ Len(r) = Len(w) - n
  OBVIOUS
<1>4. \A i \in 1 .. Len(w) - n : r[i] = w[n + i]
  OBVIOUS
<1> QED BY <1>1, <1>2, <1>3, <1>4

LEMMA Joined ==
  ASSUME NEW S, NEW a \in Seq(S), NEW b \in Seq(S)
  PROVE  Len(a) \in Nat /\ Len(a \o b) = Len(a) + Len(b)
OBVIOUS

\* The first n of the packets w leave, the others wait.
Moved(w, n) ==
  /\ net' \in Seq(Headers \cup Signals) /\ Len(net') = Len(net) + n
  /\ \A i \in 1 .. Len(net) : net'[i] = net[i]
  /\ \A i \in 1 .. n : net'[Len(net) + i] = w[i]
  /\ pending' \in Seq(Headers) /\ Len(pending') = Len(w) - n
  /\ \A i \in 1 .. Len(w) - n : pending'[i] = w[n + i]

\* A step of the sender: of the packets w that wait, the last of which may be new, the
\* first n leave.
SenderMove(w, n) ==
  /\ sent' = sent + n /\ accepted' = sent + Len(w)
  /\ Len(w) \in {Len(pending), Len(pending) + 1} /\ \A i \in 1 .. Len(pending) : w[i] = pending[i]
  /\ \A i \in 1 .. Len(w) : w[i].seq_num = sent + i - 1
  /\ Moved(w, n)
  /\ \/ /\ pos = 0 /\ pos' = 0 /\ Len(pending) = 0 /\ Len(w) = 1 /\ n = 1
        /\ w[1].type = "DATA"
     \/ /\ pos + Len(w) <= BURST_SIZE /\ accepted' - sent' < BURST_SIZE
        /\ \A i \in 1 .. Len(w) : w[i].type = "BURST" /\ w[i].burst_start = current
        /\ pos' = IF pos + n = BURST_SIZE THEN 0 ELSE pos + n
  /\ hdr' \in Headers

LEMMA SenderSlices ==
  ASSUME BaseInv, NEW w \in Seq(Headers), NEW n \in 0 .. Len(w),
         net' = net \o SubSeq(w, 1, n), pending' = SubSeq(w, n + 1, Len(w))
  PROVE  Moved(w, n)
<1> DEFINE q == SubSeq(w, 1, n)
<1>1. q \in Seq(Headers) /\ Len(q) = n /\ (\A i \in 1 .. n : q[i] = w[i])
      /\ pending' \in Seq(Headers) /\ Len(pending') = Len(w) - n
      /\ \A i \in 1 .. Len(w) - n : pending'[i] = w[n + i]
  BY Slices
<1>2. net' = net \o q /\ net \in Seq(Headers \cup Signals)
  BY DEF BaseInv, NetInv
<1> HIDE DEF q
<1>3. q \in Seq(Headers \cup Signals)
  BY <1>1
<1>4. Len(net) \in Nat /\ Len(net') = Len(net) + Len(q)
  <2>1. Len(net) \in Nat /\ Len(net \o q) = Len(net) + Len(q)
    BY <1>2, <1>3, Joined
  <2> QED BY <1>2, <2>1
<1>5. net' \in Seq(Headers \cup Signals) /\ \A i \in 1 .. Len(net) : net'[i] = net[i]
  BY <1>2, <1>3
<1>6. ASSUME NEW i \in 1 .. n PROVE net'[Len(net) + i] = w[i]
  <2>1. net'[Len(net) + i] = q[i]
    BY <1>1, <1>2, <1>3, <1>4
  <2> QED BY <1>1, <2>1
<1> QED BY <1>1, <1>4, <1>5, <1>6 DEF Moved

LEMMA SenderEffect ==
  ASSUME BaseInv, SenderStep
  PROVE  \E w \in Seq(Headers) : \E n \in 0 .. Len(w) : SenderMove(w, n)
<1>1. PICK rate \in Rates :
        LET taken == IF accepted' = accepted THEN <<>> ELSE <<TakenHeader(rate)>>
            waiting == pending \o taken
            n == sent' - sent
        IN  /\ hdr' = IF taken = <<>> THEN hdr ELSE taken[1]
            /\ net' = net \o SubSeq(waiting, 1, n)
            /\ pending' = SubSeq(waiting, n + 1, Len(waiting))
  BY DEF SenderStep
<1> DEFINE taken == IF accepted' = accepted THEN <<>> ELSE <<TakenHeader(rate)>>
           w == pending \o taken
<1>2. /\ net' = net \o SubSeq(w, 1, sent' - sent) /\ pending' = SubSeq(w, sent' - sent + 1, Len(w))
      /\ hdr' = IF taken = <<>> THEN hdr ELSE taken[1]
  BY <1>1
<1>3. rate \in Nat /\ accepted \in Nat /\ sent \in Nat /\ pos \in Nat /\ pending \in Seq(Headers) /\ hdr \in Headers
      /\ Len(pending) = accepted - sent /\ current \in Nat
  BY DEF BaseInv, SenderInv, current
<1>4. CASE Sender!Forward
  <2>1. /\ pos = 0 /\ pos' = 0 /\ sent = accepted /\ accepted' = accepted + 1 /\ sent' = sent + 1
        /\ TakenHeader(rate) = Header("DATA", accepted, 0, rate)
    BY <1>4 DEF Sender!Forward, TakenHeader
  <2>2. w = <<Header("DATA", accepted, 0, rate)>> /\ taken = <<Header("DATA", accepted, 0, rate)>> /\ Len(pending) = 0
    BY <1>3, <2>1
  <2>3. Header("DATA", accepted, 0, rate) \in Headers
    BY <1>3 DEF Header, Headers
  <2> DEFINE h == Header("DATA", accepted, 0, rate)
  <2>4. h \in Headers /\ h.seq_num = accepted /\ h.type = "DATA"
    BY <2>3 DEF Header
  <2> HIDE DEF taken, w, h
  <2>5. w = <<h>> /\ taken = <<h>>
    BY <2>2 DEF h
  <2>6. w \in Seq(Headers) /\ Len(w) = 1 /\ w[1] = h /\ hdr' \in Headers
    BY <1>2, <2>4, <2>5
  <2>7. \A i \in 1 .. Len(w) : w[i].seq_num = sent + i - 1
    BY <1>3, <2>1, <2>4, <2>6
  <2>8. 1 \in 0 .. Len(w) /\ sent' - sent = 1
    BY <1>3, <2>1, <2>6
  <2>9. Moved(w, 1)
    BY <1>2, <2>6, <2>8, SenderSlices
  <2>10. SenderMove(w, 1)
    BY <1>3, <2>1, <2>2, <2>4, <2>6, <2>7, <2>9 DEF SenderMove
  <2> QED BY <2>6, <2>8, <2>10
<1>5. CASE \E k \in {0, 1}, n \in 0 .. BURST_SIZE : Sender!Burst(k, n)
  <2>1. PICK k \in {0, 1}, n \in 0 .. BURST_SIZE : Sender!Burst(k, n)
    BY <1>5
  <2>2. /\ pos + (accepted + k - sent) <= BURST_SIZE /\ accepted' = accepted + k /\ sent' = sent + n
        /\ sent' <= accepted' /\ accepted' - sent' < BURST_SIZE
        /\ wire' = [i \in 1 .. n |-> Sender!InBurst(sent + i - 1, pos + i - 1)]
        /\ pos' = IF pos + n = BURST_SIZE THEN 0 ELSE pos + n
    BY <2>1 DEF Sender!Burst
  <2>3. wire' # <<Sender!Plain(accepted)>>
    <3> SUFFICES ASSUME wire' = <<Sender!Plain(accepted)>> PROVE FALSE
      OBVIOUS
    <3>1. wire'[1] = Sender!Plain(accepted) /\ DOMAIN wire' = 1 .. 1
      OBVIOUS
    <3>2. DOMAIN wire' = 1 .. n
      BY <2>2
    <3>3. n = 1
      BY <3>1, <3>2
    <3>4. wire'[1] = Sender!InBurst(sent + 1 - 1, pos + 1 - 1)
      BY <2>2, <3>3
    <3>5. wire'[1].index # wire'[1].index
      BY <1>3, <3>1, <3>4 DEF Sender!Plain, Sender!InBurst
    <3> QED BY <3>5
  <2>4. TakenHeader(rate) = Header("BURST", accepted, current, BURST_FACTOR * rate)
    BY <1>3, <2>3 DEF TakenHeader, current
  <2> DEFINE h == Header("BURST", accepted, current, BURST_FACTOR * rate)
  <2>5. h \in Headers /\ h.type = "BURST" /\ h.seq_num = accepted /\ h.burst_start = current
    BY <1>3 DEF Header, Headers, BURST_FACTOR
  <2> HIDE DEF h
  <2>6. taken = IF k = 0 THEN <<>> ELSE <<h>>
    BY <1>3, <2>2, <2>4 DEF h
  <2> HIDE DEF taken
  <2>7. w \in Seq(Headers) /\ Len(w) = Len(pending) + k /\ (\A i \in 1 .. Len(pending) : w[i] = pending[i])
        /\ (k = 1 => w[Len(pending) + 1] = h)
    BY <1>3, <2>5, <2>6
  <2>8. hdr' \in Headers
    BY <1>2, <1>3, <2>5, <2>6
  <2> HIDE DEF w
  <2>9. \A i \in 1 .. Len(w) : w[i].type = "BURST" /\ w[i].burst_start = current /\ w[i].seq_num = sent + i - 1
    <3> SUFFICES ASSUME NEW i \in 1 .. Len(w)
                 PROVE  w[i].type = "BURST" /\ w[i].burst_start = current /\ w[i].seq_num = sent + i - 1
      OBVIOUS
    <3>1. CASE i \in 1 .. Len(pending)
      BY <2>7, <3>1 DEF BaseInv, SenderInv
    <3>2. CASE i = Len(pending) + 1 /\ k = 1
      <4>1. w[i] = h
        BY <2>7, <3>2
      <4>2. accepted = sent + i - 1
        BY <1>3, <3>2
      <4> QED BY <2>5, <4>1, <4>2
    <3> QED BY <1>3, <2>7, <3>1, <3>2
  <2>10. accepted' = sent + Len(w) /\ Len(w) \in {Len(pending), Len(pending) + 1}
    <3>1. accepted' = accepted + k /\ k \in {0, 1}
      BY <2>2
    <3> QED BY <1>3, <2>7, <3>1
  <2>11. sent' - sent = n /\ n \in 0 .. Len(w) /\ pos + Len(w) <= BURST_SIZE
    BY <1>3, <2>2, <2>10
  <2>12. Moved(w, n)
    BY <1>2, <2>7, <2>11, SenderSlices
  <2>13. SenderMove(w, n)
    BY <2>2, <2>7, <2>8, <2>9, <2>10, <2>11, <2>12 DEF SenderMove
  <2> QED BY <2>7, <2>11, <2>13
<1> QED BY <1>4, <1>5 DEF SenderStep, Sender!Next

LEMMA SenderKeepsBase ==
  ASSUME BaseInv, SenderStep
  PROVE  BaseInv'
<1>1. PICK w \in Seq(Headers) : \E n \in 0 .. Len(w) : SenderMove(w, n)
  BY SenderEffect
<1>2. PICK n \in 0 .. Len(w) : SenderMove(w, n)
  BY <1>1
<1>3. UNCHANGED <<receiver_vars, history>> /\ Len(net) < NetSize
  BY DEF SenderStep
<1>4. SenderInv /\ NetInv
  BY DEF BaseInv
<1>5. accepted' \in Nat /\ sent' \in 0 .. accepted' /\ pos' \in 0 .. BURST_SIZE - 1 /\ pos' <= sent'
      /\ pos' + (accepted' - sent') <= BURST_SIZE /\ accepted' - sent' < BURST_SIZE
      /\ Len(w) \in Nat /\ Len(w) <= BURST_SIZE
  <2>1. /\ pos \in 0 .. BURST_SIZE - 1 /\ sent \in Nat /\ pos <= sent /\ Len(w) \in Nat /\ Len(pending) = accepted - sent
        /\ sent' = sent + n /\ accepted' = sent + Len(w) /\ accepted' \in Nat
    <3>1. accepted' = sent + Len(w) /\ sent' = sent + n
      BY <1>2 DEF SenderMove
    <3> QED BY <1>4, <3>1 DEF SenderInv
  <2>2. CASE pos = 0 /\ pos' = 0 /\ Len(w) = 1 /\ n = 1
    BY <2>1, <2>2
  <2>3. CASE pos + Len(w) <= BURST_SIZE /\ accepted' - sent' < BURST_SIZE
             /\ pos' = IF pos + n = BURST_SIZE THEN 0 ELSE pos + n
    BY <2>1, <2>3
  <2> QED BY <1>2, <2>2, <2>3 DEF SenderMove
<1>6. TypeOK'
  <2>1. Len(net') <= NetSize + BURST_SIZE
    BY <1>2, <1>3, <1>4, <1>5 DEF SenderMove, Moved, NetInv
  <2> QED BY <1>3, <2>1 DEF TypeOK, BaseInv, receiver_vars
<1>7. SenderInv'
  <2>1. ASSUME NEW i \in 1 .. Len(pending')
        PROVE  /\ pending'[i].type = "BURST" /\ pending'[i].burst_start = current'
               /\ pending'[i].seq_num = sent' + i - 1
    <3>1. i \in 1 .. Len(w) - n /\ pending'[i] = w[n + i] /\ n + i \in 1 .. Len(w)
      BY <1>2 DEF SenderMove, Moved
    <3>2. pos + Len(w) <= BURST_SIZE /\ w[n + i].type = "BURST" /\ w[n + i].burst_start = current
          /\ pos' = pos + n /\ w[n + i].seq_num = sent + (n + i) - 1
      <4>1. ~(Len(w) = 1 /\ n = 1)
        BY <3>1
      <4>2. /\ pos + Len(w) <= BURST_SIZE
            /\ \A k \in 1 .. Len(w) : w[k].type = "BURST" /\ w[k].burst_start = current
            /\ pos' = IF pos + n = BURST_SIZE THEN 0 ELSE pos + n
        BY <1>2, <4>1 DEF SenderMove
      <4>3. w[n + i].seq_num = sent + (n + i) - 1
        BY <1>2, <3>1 DEF SenderMove
      <4>4. n < Len(w) /\ Len(w) \in Nat /\ pos \in Nat
        BY <1>4, <3>1 DEF SenderInv
      <4>5. pos' = pos + n
        BY <4>2, <4>4
      <4> QED BY <3>1, <4>2, <4>3, <4>5
    <3>3. sent' = sent + n /\ sent \in Nat /\ pos \in Nat
      BY <1>2, <1>4 DEF SenderMove, SenderInv
    <3>4. current' = current
      BY <3>2, <3>3 DEF current
    <3>5. sent + (n + i) - 1 = sent' + i - 1
      BY <3>1, <3>3
    <3> QED BY <3>1, <3>2, <3>4, <3>5
  <2>2. Len(pending') = accepted' - sent' /\ pending' \in Seq(Headers) /\ hdr' \in Headers
    BY <1>2, <1>4, <1>5 DEF SenderMove, Moved, SenderInv
  <2> QED BY <1>5, <2>1, <2>2 DEF SenderInv
<1>8. NetInv'
  <2>1. ASSUME NEW i \in 1 .. Len(net')
        PROVE  /\ net'[i].type = "BURST" =>
                    net'[i].burst_start <= net'[i].seq_num /\ net'[i].seq_num < net'[i].burst_start + BURST_SIZE
               /\ net'[i].type \in {"ECHO", "START_ACK"} => Strays
    <3>1. CASE i \in 1 .. Len(net)
      BY <1>2, <1>4, <3>1 DEF SenderMove, Moved, NetInv
    <3>2. CASE i \notin 1 .. Len(net)
      <4> DEFINE j == i - Len(net)
      <4>1. j \in 1 .. n /\ j \in 1 .. Len(w) /\ net'[Len(net) + j] = w[j] /\ Len(net) + j = i
        <5>1. Len(net) \in Nat /\ Len(net') = Len(net) + n /\ n <= Len(w)
              /\ \A k \in 1 .. n : net'[Len(net) + k] = w[k]
          BY <1>2, <1>4 DEF SenderMove, Moved, NetInv
        <5>2. j \in 1 .. n /\ Len(net) + j = i
          BY <3>2, <5>1
        <5> QED BY <5>1, <5>2
      <4> HIDE DEF j
      <4>2. w[j].seq_num = sent + j - 1
        BY <1>2, <4>1 DEF SenderMove
      <4>3. \/ w[j].type = "DATA"
            \/ w[j].type = "BURST" /\ w[j].burst_start = current /\ pos + Len(w) <= BURST_SIZE
        <5>1. CASE Len(w) = 1 /\ w[1].type = "DATA"
          <6>1. j = 1
            BY <4>1, <5>1
          <6>2. w[j].type = "DATA"
            BY <5>1, <6>1
          <6> QED BY <6>2
        <5>2. CASE /\ pos + Len(w) <= BURST_SIZE
                   /\ \A k \in 1 .. Len(w) : w[k].type = "BURST" /\ w[k].burst_start = current
          BY <4>1, <5>2
        <5> QED BY <1>2, <5>1, <5>2 DEF SenderMove
      <4>4. w[j].type = "BURST" =>
              w[j].burst_start <= w[j].seq_num /\ w[j].seq_num < w[j].burst_start + BURST_SIZE
        <5>1. pos \in Nat /\ sent \in Nat /\ BURST_SIZE \in Nat /\ current = sent - pos
          BY <1>4 DEF SenderInv, current
        <5>2. j \in Nat /\ 1 <= j /\ j <= Len(w) /\ Len(w) \in Nat
          BY <4>1
        <5>3. w[j].type = "BURST" => w[j].burst_start = sent - pos /\ pos + Len(w) <= BURST_SIZE
          BY <4>3, <5>1
        <5> QED BY <4>2, <5>1, <5>2, <5>3
      <4> QED BY <4>1, <4>3, <4>4
    <3> QED BY <3>1, <3>2
  <2> QED BY <1>2, <2>1 DEF SenderMove, Moved, NetInv
<1>9. RingInv' /\ BurstInv' /\ IndicesSafe'
  BY <1>3 DEF BaseInv, RingInv, BurstInv, IndicesSafe, receiver_vars
<1> QED BY <1>6, <1>7, <1>8, <1>9 DEF BaseInv

--------------------------------------------------------------------------------
(* The network, the sender's ECHOs and late acknowledgements. *)

NetworkStep == SenderEcho \/ LateReply \/ SignalArrives \/ Lose \/ Duplicate \/ Reorder

\* What is in flight was in flight, or is a signal, an ECHO or an acknowledgement.
NetworkMove ==
  /\ net' \in Seq(Headers \cup Signals) /\ Len(net') <= NetSize + BURST_SIZE
  /\ \A i \in 1 .. Len(net') :
       \/ \E j \in 1 .. Len(net) : net'[i] = net[j]
       \/ net'[i] \in Signals
       \/ Strays /\ net'[i] \in Headers /\ net'[i].type \in {"ECHO", "START_ACK"}
  /\ hdr' \in Headers
  /\ UNCHANGED <<receiver_vars, accepted, sent, pos, pending, highest>>

LEMMA SwapElements ==
  ASSUME NEW S, NEW s \in Seq(S), NEW i \in 1 .. Len(s) - 1,
         NEW r, r = [s EXCEPT ![i] = s[i + 1], ![i + 1] = s[i]]
  PROVE  /\ r \in Seq(S) /\ Len(r) = Len(s)
         /\ r[i] = s[i + 1] /\ r[i + 1] = s[i] /\ \A k \in 1 .. Len(s) : k # i /\ k # i + 1 => r[k] = s[k]
OBVIOUS

LEMMA RemoveElement ==
  ASSUME NEW S, NEW s \in Seq(S), NEW i \in 1 .. Len(s)
  PROVE  /\ RemoveAt(s, i) \in Seq(S) /\ Len(RemoveAt(s, i)) = Len(s) - 1
         /\ \A k \in 1 .. i - 1 : RemoveAt(s, i)[k] = s[k]
         /\ \A k \in i .. Len(s) - 1 : RemoveAt(s, i)[k] = s[k + 1]
<1> DEFINE r == RemoveAt(s, i)  q == SubSeq(s, 1, i - 1)  t == SubSeq(s, i + 1, Len(s))
<1>1. q \in Seq(S) /\ Len(q) = i - 1 /\ \A k \in 1 .. i - 1 : q[k] = s[k]
  OBVIOUS
<1>2. t \in Seq(S) /\ Len(t) = Len(s) - i /\ \A k \in 1 .. Len(s) - i : t[k] = s[k + i]
  OBVIOUS
<1>3. r = q \o t
  BY DEF RemoveAt
<1> HIDE DEF r, q, t
<1>4. r \in Seq(S) /\ Len(r) = Len(s) - 1
  BY <1>1, <1>2, <1>3
<1>5. \A k \in 1 .. i - 1 : r[k] = s[k]
  <2>1. \A k \in 1 .. i - 1 : r[k] = q[k]
    BY <1>1, <1>2, <1>3
  <2> QED BY <1>1, <2>1
<1>6. ASSUME NEW k \in i .. Len(s) - 1 PROVE r[k] = s[k + 1]
  <2>1. r[k] = t[k - (i - 1)]
    BY <1>1, <1>2, <1>3
  <2>2. k - (i - 1) \in 1 .. Len(s) - i
    OBVIOUS
  <2> QED BY <1>2, <2>1, <2>2
<1> QED BY <1>4, <1>5, <1>6 DEF r

LEMMA NetworkEffect ==
  ASSUME BaseInv, NetworkStep
  PROVE  NetworkMove
<1>1. net \in Seq(Headers \cup Signals) /\ hdr \in Headers /\ Len(net) <= NetSize + BURST_SIZE
  BY DEF BaseInv, NetInv, SenderInv, TypeOK
<1>2. CASE SenderEcho
  <2>1. hdr' \in Headers /\ hdr'.type = "ECHO" /\ Strays
    BY <1>1, <1>2 DEF SenderEcho, Headers, Strays
  <2>2. net' = Append(net, hdr') /\ Len(net) < NetSize
    BY <1>2 DEF SenderEcho
  <2>3. net' \in Seq(Headers \cup Signals) /\ Len(net') = Len(net) + 1
    BY <1>1, <2>1, <2>2
  <2>4. \A i \in 1 .. Len(net') : net'[i] = hdr' \/ \E j \in 1 .. Len(net) : net'[i] = net[j]
    BY <1>1, <2>2, <2>3
  <2>5. UNCHANGED <<receiver_vars, accepted, sent, pos, pending, highest>>
    BY <1>2 DEF SenderEcho
  <2>6. Len(net') <= NetSize + BURST_SIZE
    BY <1>1, <2>2, <2>3
  <2> QED BY <2>1, <2>3, <2>4, <2>5, <2>6 DEF NetworkMove
<1>3. CASE SignalArrives
  <2>1. PICK p \in Signals : net' = Append(net, p) /\ Len(net) < NetSize
    BY <1>3 DEF SignalArrives, Signal, Signals
  <2>2. net' \in Seq(Headers \cup Signals) /\ Len(net') = Len(net) + 1
    BY <1>1, <2>1
  <2>3. \A i \in 1 .. Len(net') : net'[i] = p \/ \E j \in 1 .. Len(net) : net'[i] = net[j]
    BY <1>1, <2>1, <2>2
  <2> QED BY <1>1, <1>3, <2>1, <2>2, <2>3 DEF NetworkMove, SignalArrives
<1>4. CASE Lose
  <2>1. PICK i \in 1 .. Len(net) : net' = RemoveAt(net, i)
    BY <1>1, <1>4 DEF Lose
  <2>2. /\ net' \in Seq(Headers \cup Signals) /\ Len(net') = Len(net) - 1
        /\ \A k \in 1 .. i - 1 : net'[k] = net[k]
        /\ \A k \in i .. Len(net) - 1 : net'[k] = net[k + 1]
    BY <1>1, <2>1, RemoveElement
  <2>3. ASSUME NEW k \in 1 .. Len(net')
        PROVE  \E j \in 1 .. Len(net) : net'[k] = net[j]
    <3>1. CASE k \in 1 .. i - 1
      BY <1>1, <2>2, <3>1
    <3>2. CASE k \in i .. Len(net) - 1
      BY <1>1, <2>2, <3>2
    <3> QED BY <1>1, <2>2, <3>1, <3>2
  <2> QED BY <1>1, <1>4, <2>2, <2>3 DEF NetworkMove, Lose
<1>5. CASE Duplicate
  <2>1. PICK i \in 1 .. Len(net) : net' = Append(net, net[i]) /\ Len(net) < NetSize
    BY <1>1, <1>5 DEF Duplicate
  <2>2. net' \in Seq(Headers \cup Signals) /\ Len(net') = Len(net) + 1
    BY <1>1, <2>1
  <2>3. \A k \in 1 .. Len(net') : \E j \in 1 .. Len(net) : net'[k] = net[j]
    BY <1>1, <2>1, <2>2
  <2>4. Len(net') <= NetSize + BURST_SIZE
    BY <1>1, <2>1, <2>2
  <2>5. UNCHANGED <<receiver_vars, accepted, sent, pos, pending, highest>> /\ hdr' = hdr
    BY <1>5 DEF Duplicate
  <2> QED BY <1>1, <2>2, <2>3, <2>4, <2>5 DEF NetworkMove
<1>6. CASE Reorder
  <2>1. PICK i \in 1 .. Len(net) - 1 : net' = [net EXCEPT ![i] = net[i + 1], ![i + 1] = net[i]]
    BY <1>6 DEF Reorder
  <2>2. /\ net' \in Seq(Headers \cup Signals) /\ Len(net') = Len(net)
        /\ net'[i] = net[i + 1] /\ net'[i + 1] = net[i]
        /\ \A k \in 1 .. Len(net) : k # i /\ k # i + 1 => net'[k] = net[k]
    BY <1>1, <2>1, SwapElements
  <2>3. \A k \in 1 .. Len(net') : \E j \in 1 .. Len(net) : net'[k] = net[j]
    BY <1>1, <2>2
  <2> QED BY <1>1, <1>6, <2>2, <2>3 DEF NetworkMove, Reorder
<1>7. CASE LateReply
  <2> DEFINE ack == Header("START_ACK", 0, 0, 0)
  <2>1. ack \in Headers /\ ack.type = "START_ACK" /\ Strays
    BY <1>7 DEF LateReply, Header, Headers, Strays
  <2>2. net' = Append(net, ack) /\ Len(net) < NetSize
    BY <1>7 DEF LateReply
  <2> HIDE DEF ack
  <2>3. net' \in Seq(Headers \cup Signals) /\ Len(net') = Len(net) + 1
    BY <1>1, <2>1, <2>2
  <2>4. \A i \in 1 .. Len(net') : net'[i] = ack \/ \E j \in 1 .. Len(net) : net'[i] = net[j]
    BY <1>1, <2>2, <2>3
  <2>5. hdr' = hdr /\ UNCHANGED <<receiver_vars, accepted, sent, pos, pending, highest>>
    BY <1>7 DEF LateReply, sender_vars, history
  <2>6. Len(net') <= NetSize + BURST_SIZE
    BY <1>1, <2>2, <2>3
  <2> QED BY <1>1, <2>1, <2>3, <2>4, <2>5, <2>6 DEF NetworkMove
<1> QED BY <1>2, <1>3, <1>4, <1>5, <1>6, <1>7 DEF NetworkStep

LEMMA NetworkKeepsBase ==
  ASSUME BaseInv, NetworkMove
  PROVE  BaseInv'
<1>1. TypeOK' /\ RingInv' /\ BurstInv' /\ IndicesSafe'
  BY DEF NetworkMove, BaseInv, TypeOK, RingInv, BurstInv, IndicesSafe, receiver_vars
<1>2. SenderInv'
  BY DEF NetworkMove, BaseInv, SenderInv, current
<1>3. NetInv'
  BY DEF NetworkMove, BaseInv, NetInv, Signals
<1> QED BY <1>1, <1>2, <1>3 DEF BaseInv

--------------------------------------------------------------------------------
(* The receiver. *)

LEMMA HeadTail ==
  ASSUME NEW S, NEW s \in Seq(S), s # <<>>
  PROVE  /\ Len(s) \in Nat \ {0} /\ Head(s) = s[1] /\ Head(s) \in S
         /\ Tail(s) \in Seq(S) /\ Len(Tail(s)) = Len(s) - 1
         /\ \A i \in 1 .. Len(s) - 1 : Tail(s)[i] = s[i + 1]
OBVIOUS

\* A data packet that arrives has a header, and a place in its burst.
HeadData(p) ==
  /\ p \in Headers
  /\ p.type = "BURST" => p.burst_start <= p.seq_num /\ p.seq_num < p.burst_start + BURST_SIZE
  /\ p.type \in {"ECHO", "START_ACK"} => Strays

LEMMA PacketArrives ==
  ASSUME BaseInv, net # <<>>, net' = Tail(net)
  PROVE  /\ net' \in Seq(Headers \cup Signals) /\ Len(net') = Len(net) - 1 /\ Len(net) \in Nat \ {0}
         /\ \A i \in 1 .. Len(net') : net'[i] = net[i + 1]
         /\ Head(net) = net[1]
         /\ IsData(Head(net)) => HeadData(Head(net))
<1>1. net \in Seq(Headers \cup Signals)
  BY DEF BaseInv, NetInv
<1>2. /\ net' \in Seq(Headers \cup Signals) /\ Len(net') = Len(net) - 1 /\ Len(net) \in Nat \ {0}
      /\ \A i \in 1 .. Len(net') : net'[i] = net[i + 1]
      /\ Head(net) = net[1] /\ Head(net) \in Headers \cup Signals
  BY <1>1, HeadTail
<1>3. IsData(Head(net)) => Head(net) \in Headers
  BY <1>2 DEF IsData, Signals
<1>4. 1 \in 1 .. Len(net)
  BY <1>2
<1>5. /\ net[1].type = "BURST" =>
            net[1].burst_start <= net[1].seq_num /\ net[1].seq_num < net[1].burst_start + BURST_SIZE
      /\ net[1].type \in {"ECHO", "START_ACK"} => Strays
  BY <1>4 DEF BaseInv, NetInv
<1> QED BY <1>2, <1>3, <1>5 DEF HeadData

LEMMA ArrivalOf ==
  ASSUME NEW p \in Headers
  PROVE  /\ Arrival(p) \in ArrivalRecord /\ Arrival(p) # Never
         /\ Arrival(p).seq = p.seq_num /\ Arrival(p).type = p.type
         /\ Arrival(p).start = p.burst_start /\ Arrival(p).rate = p.rate
         /\ p.seq_num \in Nat /\ p.burst_start \in Nat /\ p.rate \in Nat
         /\ p.type \in {"DATA", "BURST", "ECHO", "START_ACK"}
BY DEF Headers, Arrival, ArrivalRecord, Never

LEMMA Counted ==
  ASSUME BaseInv, NEW p \in Headers, CountRate(p)
  PROVE  curRate' \in Nat /\ numAtCurRate' \in 1 .. BURST_SIZE
BY ArrivalOf DEF CountRate, NumAtRate, BaseInv, TypeOK

\* Once p is marked, what is marked are the last BURST_SIZE packets up to it.
LEMMA RingMarked ==
  ASSUME BaseInv, NEW p \in Headers, ~OutOfOrder(p), MarkArrival(p)
  PROVE  /\ received' \in [Slots -> {0, 1}] /\ arrivals' \in [Slots -> ArrivalRecord]
         /\ p.seq_num % BURST_SIZE \in Slots
         /\ received'[p.seq_num % BURST_SIZE] = 1 /\ arrivals'[p.seq_num % BURST_SIZE] = Arrival(p)
         /\ \A i \in Slots : received'[i] = 1 =>
              /\ arrivals'[i].seq % BURST_SIZE = i /\ arrivals'[i].seq \in p.seq_num + 1 - BURST_SIZE .. p.seq_num
              /\ arrivals'[i] = Arrival(p) \/ (received[i] = 1 /\ arrivals'[i] = arrivals[i])
<1> DEFINE q == p.seq_num  own == q % BURST_SIZE
<1>1. q \in Nat /\ seq \in Nat /\ q >= seq /\ BURST_SIZE \in Nat \ {0} /\ Arrival(p) \in ArrivalRecord
      /\ Arrival(p).seq = q
  BY ArrivalOf DEF BaseInv, TypeOK, OutOfOrder
<1> HIDE DEF q
<1>2. own \in Slots
  <2>1. q % BURST_SIZE \in 0 .. BURST_SIZE - 1
    BY <1>1, ModRange
  <2> QED BY <2>1 DEF Slots
<1>3. received \in [Slots -> {0, 1}] /\ arrivals \in [Slots -> ArrivalRecord]
  BY DEF BaseInv, TypeOK
<1>4. /\ received' = [i \in Slots |-> IF i = own THEN 1 ELSE IF i \in Skipped(p) THEN 0 ELSE received[i]]
      /\ arrivals' = [arrivals EXCEPT ![own] = Arrival(p)]
  BY DEF MarkArrival, q
<1>5. received' \in [Slots -> {0, 1}] /\ arrivals' \in [Slots -> ArrivalRecord]
  BY <1>1, <1>2, <1>3, <1>4
<1>6. received'[own] = 1 /\ arrivals'[own] = Arrival(p)
  BY <1>2, <1>3, <1>4
<1>7. ASSUME NEW i \in Slots, received'[i] = 1, i # own
      PROVE  /\ received[i] = 1 /\ arrivals'[i] = arrivals[i] /\ arrivals[i].seq % BURST_SIZE = i
             /\ arrivals[i].seq \in q + 1 - BURST_SIZE .. q
  <2>1. i \notin Skipped(p) /\ received[i] = 1 /\ arrivals'[i] = arrivals[i]
    BY <1>2, <1>3, <1>4, <1>7
  <2> DEFINE s == arrivals[i].seq
  <2>2. s % BURST_SIZE = i /\ s \in seq - BURST_SIZE .. seq
    BY <2>1 DEF BaseInv, RingInv
  <2> HIDE DEF s
  <2>3. s \in Int /\ (s + BURST_SIZE) % BURST_SIZE = i
    <3>1. s \in Int
      BY <1>1, <2>2
    <3>2. (s + BURST_SIZE) % BURST_SIZE = s % BURST_SIZE
      BY <1>1, <3>1, ModAdd
    <3> QED BY <2>2, <3>1, <3>2
  <2>4. s + BURST_SIZE # q
    BY <1>7, <2>3
  <2>5. s + BURST_SIZE \notin seq .. q - 1
    BY <2>1, <2>3 DEF Skipped, q
  <2>6. s \in q + 1 - BURST_SIZE .. q
    BY <1>1, <2>2, <2>3, <2>4, <2>5
  <2> QED BY <2>1, <2>2, <2>6 DEF s
<1>8. q \in q + 1 - BURST_SIZE .. q
  BY <1>1
<1> QED BY <1>1, <1>2, <1>5, <1>6, <1>7, <1>8 DEF q

LEMMA RingKept ==
  ASSUME BaseInv, NEW p \in Headers, ~OutOfOrder(p), MarkArrival(p), seq' \in {p.seq_num, p.seq_num + 1}
  PROVE  RingInv'
<1>1. p.seq_num \in Nat
  BY ArrivalOf
<1>2. ASSUME NEW i \in Slots, received'[i] = 1
      PROVE  arrivals'[i].seq % BURST_SIZE = i /\ arrivals'[i].seq \in seq' - BURST_SIZE .. seq'
  <2>1. arrivals'[i].seq % BURST_SIZE = i /\ arrivals'[i].seq \in p.seq_num + 1 - BURST_SIZE .. p.seq_num
    BY <1>2, RingMarked
  <2> QED BY <1>1, <2>1
<1> QED BY <1>2 DEF RingInv

\* What the measurement decides: the packet counts as arrived unless it is skipped.
LEMMA PlainOutcome ==
  ASSUME BaseInv, NEW p \in Headers, RecvPlain(p)
  PROVE  /\ numBelowThreshold' \in 0 .. GRACE_PERIOD - 1
         /\ \/ ~SampleMissing(p) /\ seq' = p.seq_num + 1
            \/ SampleMissing(p) /\ seq' = p.seq_num /\ p.seq_num > 0
<1>1. PICK sends : SkipMeasurement(p, sends) \/ AboveThreshold(p, sends) \/ BelowThreshold(p, sends)
  BY DEF RecvPlain
<1>2. numBelowThreshold \in 0 .. GRACE_PERIOD - 1
  BY DEF BaseInv, TypeOK
<1>3. CASE SkipMeasurement(p, sends)
  <2>1. SampleMissing(p) /\ seq' = p.seq_num /\ numBelowThreshold' = numBelowThreshold
    BY <1>3 DEF SkipMeasurement
  <2>2. p.seq_num # 0
    <3> SUFFICES ASSUME p.seq_num = 0 PROVE FALSE
      OBVIOUS
    <3>1. seq = 0
      BY DEF RecvPlain, OutOfOrder, BaseInv, TypeOK
    <3>2. numAtCurRate = 0
      BY <3>1 DEF BaseInv, IndicesSafe
    <3>3. NumAtRate(p) = 1
      BY <3>2 DEF NumAtRate
    <3> QED BY <2>1, <3>3 DEF SampleMissing, WindowFull
  <2> QED BY <1>2, <2>1, <2>2, ArrivalOf
<1>4. CASE AboveThreshold(p, sends)
  BY <1>4 DEF AboveThreshold
<1>5. CASE BelowThreshold(p, sends)
  <2>1. ~SampleMissing(p) /\ seq' = p.seq_num + 1
    BY <1>5 DEF BelowThreshold
  <2>2. CASE GraceSpent
    BY <1>5, <2>1, <2>2 DEF BelowThreshold
  <2>3. CASE ~GraceSpent
    <3>1. numBelowThreshold' = numBelowThreshold + 1
      BY <1>5, <2>3 DEF BelowThreshold
    <3> QED BY <1>2, <2>1, <2>3, <3>1 DEF GraceSpent
  <2> QED BY <2>2, <2>3
<1> QED BY <1>1, <1>3, <1>4, <1>5

\* Whatever the step does, what is in flight and waits stays well formed.
LEMMA PacketGone ==
  ASSUME BaseInv, net # <<>>, net' = Tail(net), UNCHANGED sender_vars
  PROVE  NetInv' /\ SenderInv' /\ Len(net') <= NetSize + BURST_SIZE
<1>1. SenderInv'
  BY DEF BaseInv, SenderInv, current
<1>2. /\ net' \in Seq(Headers \cup Signals) /\ Len(net') = Len(net) - 1 /\ Len(net) \in Nat \ {0}
      /\ \A i \in 1 .. Len(net') : net'[i] = net[i + 1]
  BY PacketArrives
<1>3. NetInv'
  BY <1>2 DEF BaseInv, NetInv
<1>4. Len(net) <= NetSize + BURST_SIZE
  BY DEF BaseInv, TypeOK
<1> QED BY <1>1, <1>2, <1>3, <1>4

LEMMA BurstKeepsArrays ==
  ASSUME BaseInv, NEW p \in Headers, HeadData(p), RecvBurst(p)
  PROVE  /\ pc' = pc /\ seq' = p.seq_num + 1 /\ burst' = TRUE
         /\ p.seq_num - p.burst_start \in Slots
         /\ barrivals' = [barrivals EXCEPT ![p.seq_num - p.burst_start] = Arrival(p)]
         /\ Widen(p.seq_num - p.burst_start)
         /\ breceived' \in [Slots -> {0, 1}]
<1> DEFINE index == p.seq_num - p.burst_start
<1>1. p.seq_num \in Nat /\ p.burst_start \in Nat
  BY ArrivalOf
<1>2. index \in Slots
  BY <1>1 DEF HeadData, RecvBurst, Slots
<1>3. ~(index >= BURST_SIZE)
  BY <1>2 DEF Slots
<1> HIDE DEF index
<1>4. /\ breceived' = [IF burst THEN breceived ELSE [i \in Slots |-> 0] EXCEPT ![index] = 1]
      /\ barrivals' = [barrivals EXCEPT ![index] = Arrival(p)]
      /\ Widen(index) /\ seq' = p.seq_num + 1 /\ UNCHANGED pc /\ burst' = TRUE
  BY <1>3 DEF RecvBurst, index
<1>5. breceived \in [Slots -> {0, 1}]
  BY DEF BaseInv, TypeOK
<1>6. CASE burst
  BY <1>2, <1>4, <1>5, <1>6 DEF index
<1>7. CASE ~burst
  BY <1>2, <1>4, <1>7 DEF index
<1> QED BY <1>6, <1>7

LEMMA BurstKeepsBase ==
  ASSUME BaseInv, NEW p \in Headers, HeadData(p), RecvBurst(p),
         NetInv', SenderInv', Len(net') <= NetSize + BURST_SIZE, highest' \in Int
  PROVE  BaseInv'
<1> DEFINE index == p.seq_num - p.burst_start
<1>1. /\ pc' = pc /\ seq' = p.seq_num + 1 /\ burst' = TRUE /\ index \in Slots
      /\ barrivals' = [barrivals EXCEPT ![index] = Arrival(p)]
      /\ Widen(index) /\ breceived' \in [Slots -> {0, 1}]
  BY BurstKeepsArrays
<1>2. /\ CountRate(p) /\ MarkArrival(p) /\ ~OutOfOrder(p) /\ p.type = "BURST"
      /\ UNCHANGED <<kill, numBelowThreshold>>
  BY DEF RecvBurst
<1>3. /\ Arrival(p) \in ArrivalRecord /\ Arrival(p) # Never
      /\ Arrival(p).seq = p.seq_num /\ Arrival(p).type = p.type /\ p.seq_num \in Nat
  BY ArrivalOf
<1> HIDE DEF index
<1>4. TypeOK /\ IndicesSafe /\ BurstInv
  BY DEF BaseInv
<1>5. barrivals' \in [Slots -> ArrivalRecord]
  BY <1>1, <1>3, <1>4 DEF TypeOK
<1>6. TypeOK'
  <2>1. curRate' \in Nat /\ numAtCurRate' \in 0 .. BURST_SIZE
    BY <1>2, Counted
  <2>2. received' \in [Slots -> {0, 1}] /\ arrivals' \in [Slots -> ArrivalRecord]
    BY <1>2, RingMarked
  <2>3. seq' \in Nat /\ pc' = pc /\ burst' \in BOOLEAN
    BY <1>1, <1>3
  <2> QED BY <1>1, <1>2, <1>4, <1>5, <2>1, <2>2, <2>3 DEF TypeOK
<1>7. RingInv'
  BY <1>1, <1>2, RingKept
<1>8. BurstInv'
  <2> SUFFICES ASSUME NEW i \in Slots, barrivals'[i] # Never
               PROVE  barrivals'[i].type = "BURST" /\ barrivals'[i].seq < seq'
    BY DEF BurstInv
  <2>1. CASE i = index
    BY <1>1, <1>2, <1>3, <1>4, <2>1 DEF TypeOK
  <2>2. CASE i # index
    <3>1. barrivals'[i] = barrivals[i]
      BY <1>1, <1>4, <2>2 DEF TypeOK
    <3>2. barrivals[i].type = "BURST" /\ barrivals[i].seq < seq /\ barrivals[i].seq \in Int /\ seq \in Nat
      BY <1>4, <3>1 DEF BurstInv, TypeOK, ArrivalRecord
    <3> QED BY <1>1, <1>2, <1>3, <3>1, <3>2 DEF OutOfOrder
  <2> QED BY <2>1, <2>2
<1>9. IndicesSafe'
  <2>1. barrivals'[index] # Never /\ \A i \in Slots : barrivals[i] # Never => barrivals'[i] # Never
    BY <1>1, <1>3, <1>4 DEF TypeOK
  <2>2. seq' # 0 /\ pc' # "exited"
    BY <1>1, <1>3, <1>4 DEF IndicesSafe
  <2>3. bStart' = (IF index < bStart THEN index ELSE bStart) /\ bEnd' = (IF index > bEnd THEN index ELSE bEnd)
    BY <1>1 DEF Widen
  <2>4. /\ bStart' \in Slots /\ bEnd' \in bStart' .. BURST_SIZE - 1
        /\ barrivals'[bStart'] # Never /\ barrivals'[bEnd'] # Never
    <3>1. CASE burst
      <4>1. bStart \in Slots /\ bEnd \in bStart .. BURST_SIZE - 1 /\ bEnd \in Slots
            /\ barrivals[bStart] # Never /\ barrivals[bEnd] # Never
        BY <1>4, <3>1 DEF IndicesSafe, Slots
      <4>2. barrivals'[bStart] # Never /\ barrivals'[bEnd] # Never
        BY <2>1, <4>1
      <4>3. bStart' \in Slots /\ bEnd' \in bStart' .. BURST_SIZE - 1
        BY <1>1, <2>3, <4>1 DEF Slots
      <4> QED BY <2>1, <2>3, <4>2, <4>3
    <3>2. CASE ~burst
      <4>1. bStart = BURST_SIZE /\ bEnd = -1
        BY <1>4, <3>2 DEF IndicesSafe
      <4>2. bStart' = index /\ bEnd' = index
        BY <1>1, <2>3, <4>1 DEF Slots
      <4> QED BY <1>1, <2>1, <4>2 DEF Slots
    <3> QED BY <3>1, <3>2
  <2> QED BY <1>1, <2>2, <2>4 DEF IndicesSafe
<1> QED BY <1>6, <1>7, <1>8, <1>9 DEF BaseInv

LEMMA PlainKeepsBase ==
  ASSUME BaseInv, NEW p \in Headers, RecvPlain(p),
         NetInv', SenderInv', Len(net') <= NetSize + BURST_SIZE, highest' \in Int
  PROVE  BaseInv'
<1>1. CountRate(p) /\ MarkArrival(p) /\ ~OutOfOrder(p) /\ EndBurst /\ UNCHANGED <<pc, kill>>
  BY DEF RecvPlain
<1>2. p.seq_num \in Nat /\ seq \in Nat /\ p.seq_num >= seq
  BY <1>1, ArrivalOf DEF BaseInv, TypeOK, OutOfOrder
<1>3. numBelowThreshold' \in 0 .. GRACE_PERIOD - 1 /\ seq' \in {p.seq_num, p.seq_num + 1} /\ seq' > 0
  BY <1>2, PlainOutcome
<1>4. TypeOK /\ IndicesSafe /\ BurstInv
  BY DEF BaseInv
<1>5. /\ barrivals' = barrivals /\ breceived' = breceived
      /\ \/ burst' = FALSE /\ bStart' = BURST_SIZE /\ bEnd' = -1
         \/ burst' = burst /\ bStart' = bStart /\ bEnd' = bEnd
  BY <1>1 DEF EndBurst, ResetBurst
<1>6. TypeOK'
  <2>1. curRate' \in Nat /\ numAtCurRate' \in 0 .. BURST_SIZE
    BY <1>1, Counted
  <2>2. received' \in [Slots -> {0, 1}] /\ arrivals' \in [Slots -> ArrivalRecord]
    BY <1>1, RingMarked
  <2>3. seq' \in Nat
    BY <1>2, <1>3
  <2>4. burst' \in BOOLEAN
    BY <1>4, <1>5, Zenon DEF TypeOK
  <2> QED BY <1>1, <1>3, <1>4, <1>5, <2>1, <2>2, <2>3, <2>4 DEF TypeOK
<1>7. RingInv'
  BY <1>1, <1>3, RingKept
<1>8. BurstInv'
  <2>1. \A i \in Slots : barrivals[i].seq \in Int
    BY <1>4 DEF TypeOK, ArrivalRecord
  <2> QED BY <1>2, <1>3, <1>4, <1>5, <2>1 DEF BurstInv
<1>9. IndicesSafe'
  <2>1. pc' # "exited" /\ seq' # 0
    BY <1>1, <1>3, <1>4 DEF IndicesSafe
  <2>2. CASE burst' = FALSE /\ bStart' = BURST_SIZE /\ bEnd' = -1
    BY <2>1, <2>2 DEF IndicesSafe
  <2>3. CASE burst' = burst /\ bStart' = bStart /\ bEnd' = bEnd
    BY <1>4, <1>5, <2>1, <2>3 DEF IndicesSafe
  <2> QED BY <1>5, <2>2, <2>3
<1> QED BY <1>6, <1>7, <1>8, <1>9 DEF BaseInv

LEMMA ReceiveKeepsBase ==
  ASSUME BaseInv, TakePacket
  PROVE  BaseInv'
<1> DEFINE p == Head(net)
<1>1. /\ net # <<>> /\ net' = Tail(net) /\ pc = "loop" /\ UNCHANGED sender_vars
      /\ RecvStart(p) \/ RecvStop(p) \/ RecvOutOfOrder(p) \/ RecvBurst(p) \/ RecvPlain(p)
  BY DEF TakePacket, Receive
<1>2. NetInv' /\ SenderInv' /\ Len(net') <= NetSize + BURST_SIZE
  BY <1>1, PacketGone
<1>3. IsData(p) => HeadData(p)
  BY <1>1, PacketArrives
<1>4. highest' \in Int
  <2>1. highest' = IF p.type \in {"DATA", "BURST"} /\ p.seq_num > highest THEN p.seq_num ELSE highest
    BY DEF TakePacket, Highest
  <2>2. highest \in Int
    BY DEF BaseInv, TypeOK
  <2>3. p.type \in {"DATA", "BURST"} => p.seq_num \in Nat
    BY <1>3, ArrivalOf DEF IsData, HeadData
  <2> QED BY <2>1, <2>2, <2>3
<1>5. TypeOK /\ RingInv /\ BurstInv /\ IndicesSafe
  BY DEF BaseInv
<1> HIDE DEF p
<1>6. CASE RecvStart(p)
  <2>1. UNCHANGED receiver_vars
    BY <1>6 DEF RecvStart
  <2> QED BY <1>2, <1>4, <1>5, <2>1 DEF BaseInv, TypeOK, RingInv, BurstInv, IndicesSafe, receiver_vars
<1>7. CASE RecvStop(p)
  <2>1. pc' = "returned" /\ UNCHANGED <<kill, rate_state, numBelowThreshold, seq, window, burst_state>>
    BY <1>7 DEF RecvStop
  <2> QED BY <1>2, <1>4, <1>5, <2>1 DEF BaseInv, TypeOK, RingInv, BurstInv, IndicesSafe
<1>8. CASE RecvOutOfOrder(p)
  <2>1. /\ IsData(p) /\ OutOfOrder(p) /\ CountRate(p)
        /\ UNCHANGED <<pc, kill, numBelowThreshold, seq, window, burst_state>>
    BY <1>8 DEF RecvOutOfOrder
  <2>2. p \in Headers
    BY <1>3, <2>1 DEF HeadData
  <2>3. curRate' \in Nat /\ numAtCurRate' \in 0 .. BURST_SIZE
    BY <2>1, <2>2, Counted
  <2>4. seq # 0
    BY <2>1, <2>2, ArrivalOf DEF OutOfOrder
  <2>5. TypeOK'
    BY <1>2, <1>4, <1>5, <2>1, <2>3 DEF TypeOK
  <2>6. RingInv' /\ BurstInv' /\ IndicesSafe'
    BY <1>5, <2>1, <2>4 DEF RingInv, BurstInv, IndicesSafe
  <2> QED BY <1>2, <2>5, <2>6 DEF BaseInv
<1>9. CASE RecvBurst(p)
  <2>1. IsData(p)
    BY <1>9 DEF RecvBurst, IsData
  <2> QED BY <1>2, <1>3, <1>4, <1>9, <2>1, BurstKeepsBase DEF HeadData
<1>10. CASE RecvPlain(p)
  <2>1. IsData(p)
    BY <1>10 DEF RecvPlain, IsData
  <2> QED BY <1>2, <1>3, <1>4, <1>10, <2>1, PlainKeepsBase DEF HeadData
<1> QED BY <1>1, <1>6, <1>7, <1>8, <1>9, <1>10

LEMMA OtherKeepsBase ==
  ASSUME BaseInv, OtherReceiverStep
  PROVE  BaseInv'
<1>1. /\ UNCHANGED <<rate_state, numBelowThreshold, seq, window, burst_state, net, sender_vars, history>>
      /\ pc' \in {"loop", "returned"} /\ kill' \in BOOLEAN
  BY DEF OtherReceiverStep, RecvTimeout, ReceiverStops, stop_receiving_thread, BaseInv, TypeOK
<1> QED BY <1>1 DEF BaseInv, TypeOK, SenderInv, NetInv, RingInv, BurstInv, IndicesSafe, current

LEMMA BaseStep == BaseInv /\ [Next]_vars => BaseInv'
<1> SUFFICES ASSUME BaseInv, [Next]_vars PROVE BaseInv'
  OBVIOUS
<1>1. CASE SenderStep
  BY <1>1, SenderKeepsBase
<1>2. CASE NetworkStep
  BY <1>2, NetworkEffect, NetworkKeepsBase
<1>3. CASE TakePacket
  BY <1>3, ReceiveKeepsBase
<1>4. CASE OtherReceiverStep
  BY <1>4, OtherKeepsBase
<1>5. CASE UNCHANGED vars
  BY <1>5 DEF vars, receiver_vars, BaseInv, TypeOK, SenderInv, NetInv, RingInv, BurstInv, IndicesSafe, current
<1> QED BY <1>1, <1>2, <1>3, <1>4, <1>5 DEF Next, NetworkStep

LEMMA BaseHolds == Spec => []BaseInv
BY BaseInit, BaseStep, PTL DEF Spec

\* The types of the variables.
THEOREM TypeCorrect == Spec => []TypeOK
<1>1. BaseInv => TypeOK
  BY DEF BaseInv
<1> QED BY <1>1, BaseHolds, PTL

\* Whatever the network loses, duplicates and reorders, and whatever connects: the
\* array of a burst is never indexed outside its bounds or where nothing was written.
THEOREM IndicesStaySafe == Spec => []IndicesSafe
<1>1. BaseInv => IndicesSafe
  BY DEF BaseInv
<1> QED BY <1>1, BaseHolds, PTL

--------------------------------------------------------------------------------
(* The reports. *)

\* What the receiver may say while it handles a packet that is not of a burst.
Said(p) ==
  {Reply("ECHO")} \cup {r \in {BurstReport(p)} : BurstMeasured} \cup {r \in {RateReport(p)} : ~SampleMissing(p)}

LEMMA Elements ==
  ASSUME NEW S, NEW s \in Seq(S)
  PROVE  ToSet(s) \subseteq S
BY DEF ToSet

LEMMA ReplyTypes ==
  /\ \A t : Reply(t).type = t
  /\ \A p : BurstReport(p).type = "BURST_REPORT"
  /\ \A p : RateReport(p).type = "REPORT"
BY DEF Reply, BurstReport, RateReport, Report

LEMMA PlainReplies ==
  ASSUME NEW p, RecvPlain(p)
  PROVE  ToSet(replies') \subseteq Said(p)
<1> DEFINE echo == EchoBack(p)
           ended == IF BurstMeasured THEN <<BurstReport(p)>> ELSE <<>>
           sends == echo \o ended
<1>1. echo \in Seq(Said(p))
  <2>1. Reply("ECHO") \in Said(p)
    BY DEF Said
  <2> QED BY <2>1 DEF EchoBack
<1>2. ended \in Seq(Said(p))
  <2>1. CASE BurstMeasured
    <3>1. BurstReport(p) \in Said(p)
      BY <2>1 DEF Said
    <3> QED BY <2>1, <3>1
  <2>2. CASE ~BurstMeasured
    BY <2>2
  <2> QED BY <2>1, <2>2
<1> HIDE DEF echo, ended
<1>3. sends \in Seq(Said(p))
  BY <1>1, <1>2
<1>4. SkipMeasurement(p, sends) \/ AboveThreshold(p, sends) \/ BelowThreshold(p, sends)
  BY DEF RecvPlain, echo, ended
<1> HIDE DEF sends
<1>5. replies' \in Seq(Said(p))
  <2>1. CASE SkipMeasurement(p, sends) \/ AboveThreshold(p, sends)
    BY <1>3, <2>1 DEF SkipMeasurement, AboveThreshold
  <2>2. CASE BelowThreshold(p, sends)
    <3>1. ~SampleMissing(p) /\ (replies' = sends \/ replies' = sends \o <<RateReport(p)>>)
      BY <2>2 DEF BelowThreshold
    <3>2. RateReport(p) \in Said(p)
      BY <3>1 DEF Said
    <3> DEFINE last == RateReport(p)
    <3> HIDE DEF last
    <3>3. <<last>> \in Seq(Said(p))
      BY <3>2 DEF last
    <3> QED BY <1>3, <3>1, <3>3 DEF last
  <2> QED BY <1>4, <2>1, <2>2
<1> QED BY <1>5, Elements

\* Only on a packet that is not of a burst does the receiver report anything.
LEMMA ReportsOf ==
  ASSUME BaseInv, Next, NEW r \in ToSet(replies'), r.type \in {"REPORT", "BURST_REPORT"}
  PROVE  /\ TakePacket /\ RecvPlain(Head(net)) /\ HeadData(Head(net)) /\ Head(net) \in Headers
         /\ r.type = "REPORT" => r = RateReport(Head(net)) /\ ~SampleMissing(Head(net))
         /\ r.type = "BURST_REPORT" => r = BurstReport(Head(net)) /\ BurstMeasured
<1> DEFINE p == Head(net)
<1>1. replies' # <<>>
  BY DEF ToSet
<1>2. ASSUME NEW t, t \notin {"REPORT", "BURST_REPORT"} PROVE replies' # <<Reply(t)>>
  <2> SUFFICES ASSUME replies' = <<Reply(t)>> PROVE FALSE
    OBVIOUS
  <2>1. ToSet(replies') \subseteq {Reply(t)}
    <3> DEFINE x == Reply(t)
    <3>1. replies' = <<x>>
      OBVIOUS
    <3> HIDE DEF x
    <3>2. replies' \in Seq({x})
      BY <3>1
    <3> QED BY <3>2, Elements DEF x
  <2> QED BY <1>2, <2>1, ReplyTypes
<1>3. ~SenderStep /\ ~NetworkStep
  BY <1>1 DEF SenderStep, NetworkStep, SenderEcho, LateReply, SignalArrives, Lose, Duplicate, Reorder, Quiet
<1>4. ~OtherReceiverStep
  BY <1>1, <1>2 DEF OtherReceiverStep, RecvTimeout, ReceiverStops, stop_receiving_thread
<1>5. TakePacket /\ Receive
  BY <1>3, <1>4 DEF Next, NetworkStep, TakePacket
<1>6. RecvStart(p) \/ RecvStop(p) \/ RecvOutOfOrder(p) \/ RecvBurst(p) \/ RecvPlain(p)
  BY <1>5 DEF Receive
<1>7. ~RecvStart(p)
  BY <1>2 DEF RecvStart
<1>8. ~RecvStop(p) /\ ~RecvBurst(p)
  BY <1>1 DEF RecvStop, RecvBurst
<1>9. ~RecvOutOfOrder(p)
  BY <1>1, <1>2 DEF RecvOutOfOrder, EchoBack
<1>10. RecvPlain(p)
  BY <1>6, <1>7, <1>8, <1>9
<1>11. HeadData(p)
  BY <1>5, <1>10, PacketArrives DEF Receive, RecvPlain, IsData
<1>12. r \in Said(p)
  BY <1>10, PlainReplies
<1> HIDE DEF p
<1>13. /\ r.type = "REPORT" => r = RateReport(p) /\ ~SampleMissing(p)
       /\ r.type = "BURST_REPORT" => r = BurstReport(p) /\ BurstMeasured
  BY <1>12, ReplyTypes DEF Said
<1> QED BY <1>5, <1>10, <1>11, <1>13 DEF p, HeadData

\* The measurement starts where it says: the slot holds the packet it stands for.
LEMMA FirstMarked ==
  ASSUME BaseInv, NEW p \in Headers, ~OutOfOrder(p), MarkArrival(p), WindowFull(p), ~SampleMissing(p)
  PROVE  /\ FirstSlot(p) \in Slots /\ received'[FirstSlot(p)] = 1
         /\ arrivals'[FirstSlot(p)].seq = p.seq_num - (IF pred_mode = 0 THEN 1 ELSE BURST_SIZE - 1)
<1> DEFINE q == p.seq_num
           first == q - (IF pred_mode = 0 THEN 1 ELSE BURST_SIZE - 1)
           s == arrivals'[FirstSlot(p)].seq
<1>1. q \in Int
  BY ArrivalOf
<1> HIDE DEF q
<1>2. BURST_SIZE \in Nat \ {0} /\ BURST_SIZE >= 2
  OBVIOUS
<1>3. first \in Int /\ FirstSlot(p) = first % BURST_SIZE
  <2>1. CASE pred_mode = 0
    BY <1>1, <2>1 DEF FirstSlot, q
  <2>2. CASE pred_mode # 0
    <3>1. first \in Int /\ first + BURST_SIZE = q + 1
      BY <1>1, <1>2, <2>2
    <3>2. (first + BURST_SIZE) % BURST_SIZE = first % BURST_SIZE
      BY <1>2, <3>1, ModAdd
    <3> QED BY <2>2, <3>1, <3>2 DEF FirstSlot, q
  <2> QED BY <2>1, <2>2
<1>4. first \in q + 1 - BURST_SIZE .. q
  BY <1>1, <1>2
<1> HIDE DEF first
<1>5. FirstSlot(p) \in Slots
  <2>1. first % BURST_SIZE \in 0 .. BURST_SIZE - 1
    BY <1>2, <1>3, ModRange
  <2> QED BY <1>3, <2>1 DEF Slots
<1>6. received'[FirstSlot(p)] = 1
  <2>1. received' \in [Slots -> {0, 1}]
    BY RingMarked
  <2> QED BY <1>5, <2>1 DEF SampleMissing
<1>7. s % BURST_SIZE = FirstSlot(p) /\ s \in q + 1 - BURST_SIZE .. q
  BY <1>5, <1>6, RingMarked DEF q
<1> HIDE DEF s
<1>8. s = first
  <2>1. s \in Int /\ s % BURST_SIZE = first % BURST_SIZE /\ s - first < BURST_SIZE /\ first - s < BURST_SIZE
    BY <1>1, <1>2, <1>3, <1>4, <1>7
  <2> QED BY <1>2, <1>3, <2>1, ModEq
<1> QED BY <1>5, <1>6, <1>8 DEF first, s, q

LEMMA SpanStep ==
  ASSUME BaseInv, Next
  PROVE  SpanIsTrue'
<1> SUFFICES ASSUME NEW r \in ToSet(replies'), r.type = "REPORT", r.span > 0
             PROVE  r.to.seq - r.from.seq = r.span
  BY DEF SpanIsTrue, Reports
<1> DEFINE p == Head(net)
<1>1. RecvPlain(p) /\ p \in Headers /\ r = RateReport(p) /\ ~SampleMissing(p)
  BY ReportsOf
<1>2. ~OutOfOrder(p) /\ MarkArrival(p)
  BY <1>1 DEF RecvPlain
<1> HIDE DEF p
<1>3. WindowFull(p) /\ r.from = arrivals'[FirstSlot(p)] /\ r.to = Arrival(p)
      /\ r.span = IF pred_mode = 0 THEN 1 ELSE BURST_SIZE - 1
  BY <1>1 DEF RateReport, Report
<1>4. r.from.seq = p.seq_num - r.span
  BY <1>1, <1>2, <1>3, FirstMarked
<1>5. r.to.seq = p.seq_num /\ p.seq_num \in Nat /\ r.span \in Int
  BY <1>1, <1>3, ArrivalOf
<1> QED BY <1>4, <1>5

\* "interval_to_speed(tm_diff, BURST_SIZE - 1)": a rate that is reported is measured
\* between two packets that are as many apart as it is divided by, on every network.
THEOREM SpansAreTrue == Spec => []SpanIsTrue
<1>1. Init => SpanIsTrue
  BY DEF Init, SpanIsTrue, Reports, ToSet
<1>2. BaseInv /\ SpanIsTrue /\ [Next]_vars => SpanIsTrue'
  <2>1. UNCHANGED vars /\ SpanIsTrue => SpanIsTrue'
    BY DEF vars, SpanIsTrue, Reports
  <2> QED BY <2>1, SpanStep
<1> QED BY <1>1, <1>2, BaseHolds, PTL DEF Spec

--------------------------------------------------------------------------------
(* Bursts are whole. *)

\* The arrivals of packets that wait or are in flight, and those that are remembered.
Seen ==
  {Arrival(net[i]) : i \in {j \in 1 .. Len(net) : IsData(net[j])}}
    \cup {Arrival(pending[i]) : i \in 1 .. Len(pending)}
    \cup {arrivals[i] : i \in Slots} \cup {barrivals[i] : i \in Slots}

\* A packet of a burst belongs to one that is complete or under way, and lies in it;
\* plain data was sent before the burst that is under way.
Placed(a) ==
  /\ a.type = "BURST" =>
       /\ a.start \in Nat /\ a.seq \in a.start .. a.start + BURST_SIZE - 1
       /\ a.start + BURST_SIZE <= current \/ (Open /\ a.start = current)
  /\ a.type = "DATA" => a.seq \in Nat /\ a.seq < current

\* No two bursts overlap, and no plain data is numbered within one.
Apart(a, b) ==
  a.type = "BURST" =>
    /\ b.type = "BURST" =>
         a.start = b.start \/ a.start + BURST_SIZE <= b.start \/ b.start + BURST_SIZE <= a.start
    /\ b.type = "DATA" => b.seq < a.start \/ b.seq >= a.start + BURST_SIZE

SeenInv == (\A a \in Seen : Placed(a)) /\ (\A a, b \in Seen : Apart(a, b))

LEMMA SeenStep ==
  ASSUME SeenInv, NEW Fresh, Seen' \subseteq Seen \cup Fresh,
         \A a \in Seen : Placed(a) => Placed(a)',
         \A a \in Fresh : Placed(a)' /\ Apart(a, a),
         \A a \in Fresh, b \in Seen : Placed(b) => Apart(a, b) /\ Apart(b, a),
         \A a, b \in Fresh : Apart(a, b)
  PROVE  SeenInv'
<1>1. \A a \in Seen' : Placed(a)'
  BY DEF SeenInv
<1>2. \A a, b \in Seen' : Apart(a, b)
  BY DEF SeenInv
<1> QED BY <1>1, <1>2 DEF SeenInv, Apart

LEMMA SenderKeepsSeen ==
  ASSUME BaseInv, SeenInv, SenderStep
  PROVE  SeenInv'
<1>1. PICK w \in Seq(Headers) : \E n \in 0 .. Len(w) : SenderMove(w, n)
  BY SenderEffect
<1>2. PICK n \in 0 .. Len(w) : SenderMove(w, n)
  BY <1>1
<1>3. Moved(w, n) /\ UNCHANGED <<arrivals, barrivals>>
  BY <1>2 DEF SenderMove, SenderStep, receiver_vars
<1>4. /\ sent' = sent + n /\ accepted' = sent + Len(w) /\ Len(w) \in Nat
      /\ sent \in Nat /\ pos \in Nat /\ pos <= sent /\ pos < BURST_SIZE /\ Len(pending) = accepted - sent
      /\ Len(pending) \in Nat /\ accepted \in Nat
      /\ Len(w) \in {Len(pending), Len(pending) + 1} /\ \A i \in 1 .. Len(pending) : w[i] = pending[i]
      /\ \A i \in 1 .. Len(w) : w[i].seq_num = sent + i - 1
  BY <1>2 DEF BaseInv, SenderInv, SenderMove
<1> DEFINE a0 == Arrival(w[Len(w)])
           fresh == IF Len(w) > Len(pending) THEN {a0} ELSE {}
<1>5. Seen' \subseteq Seen \cup fresh
  <2>1. \A i \in 1 .. Len(w) : Arrival(w[i]) \in Seen \cup fresh
    <3> SUFFICES ASSUME NEW i \in 1 .. Len(w) PROVE Arrival(w[i]) \in Seen \cup fresh
      OBVIOUS
    <3>1. CASE i \in 1 .. Len(pending)
      BY <1>4, <3>1 DEF Seen
    <3>2. CASE i \notin 1 .. Len(pending)
      <4>1. i = Len(w) /\ Len(w) > Len(pending)
        BY <1>4, <3>2
      <4> QED BY <4>1
    <3> QED BY <3>1, <3>2
  <2> HIDE DEF fresh
  <2> SUFFICES ASSUME NEW a \in Seen' PROVE a \in Seen \cup fresh
    OBVIOUS
  <2>2. Len(net) \in Nat
    BY DEF BaseInv, NetInv
  <2>3. ASSUME NEW i \in 1 .. Len(net'), IsData(net'[i]), a = Arrival(net'[i]) PROVE a \in Seen \cup fresh
    <3>1. CASE i \in 1 .. Len(net)
      <4>1. net'[i] = net[i]
        BY <1>3, <3>1 DEF Moved
      <4> QED BY <2>3, <3>1, <4>1 DEF Seen
    <3>2. CASE i \notin 1 .. Len(net)
      <4> DEFINE j == i - Len(net)
      <4>1. j \in 1 .. n /\ Len(net) + j = i
        BY <1>3, <2>2, <3>2 DEF Moved
      <4> HIDE DEF j
      <4>2. net'[i] = w[j] /\ j \in 1 .. Len(w)
        BY <1>3, <1>4, <4>1 DEF Moved
      <4> QED BY <2>1, <2>3, <4>2
    <3> QED BY <3>1, <3>2
  <2>4. ASSUME NEW i \in 1 .. Len(pending'), a = Arrival(pending'[i]) PROVE a \in Seen \cup fresh
    <3>1. pending'[i] = w[n + i] /\ n + i \in 1 .. Len(w)
      BY <1>3, <1>4 DEF Moved
    <3> QED BY <2>1, <2>4, <3>1
  <2>5. ASSUME NEW i \in Slots, a = arrivals'[i] \/ a = barrivals'[i] PROVE a \in Seen \cup fresh
    BY <1>3, <2>5 DEF Seen
  <2> QED BY <2>3, <2>4, <2>5 DEF Seen
<1>6. Len(w) > Len(pending) =>
        /\ w[Len(w)] \in Headers /\ w[Len(w)].seq_num = accepted /\ Len(w) = Len(pending) + 1
        /\ a0.type = w[Len(w)].type /\ a0.seq = accepted /\ a0.start = w[Len(w)].burst_start
  <2> SUFFICES ASSUME Len(w) > Len(pending)
               PROVE  /\ w[Len(w)] \in Headers /\ w[Len(w)].seq_num = accepted /\ Len(w) = Len(pending) + 1
                      /\ a0.type = w[Len(w)].type /\ a0.seq = accepted /\ a0.start = w[Len(w)].burst_start
    OBVIOUS
  <2>1. Len(w) = Len(pending) + 1 /\ Len(w) \in 1 .. Len(w)
    BY <1>4
  <2>2. w[Len(w)] \in Headers /\ w[Len(w)].seq_num = accepted
    BY <1>4, <2>1
  <2> QED BY <2>1, <2>2, ArrivalOf
<1> HIDE DEF a0
<1>7. CASE pos = 0 /\ pos' = 0 /\ Len(pending) = 0 /\ Len(w) = 1 /\ n = 1 /\ w[1].type = "DATA"
  <2>1. fresh = {a0} /\ a0.type = "DATA" /\ a0.seq = current /\ current' = current + 1 /\ current \in Nat /\ ~Open
    BY <1>4, <1>6, <1>7 DEF current, Open
  <2> HIDE DEF fresh
  <2>2. \A a \in Seen : Placed(a) => Placed(a)'
    BY <2>1 DEF Placed
  <2>3. \A a \in fresh : Placed(a)' /\ Apart(a, a)
    BY <2>1 DEF Placed, Apart
  <2>4. \A a \in fresh, b \in Seen : Placed(b) => Apart(a, b) /\ Apart(b, a)
    BY <2>1 DEF Placed, Apart
  <2>5. \A a, b \in fresh : Apart(a, b)
    BY <2>1 DEF Apart
  <2> QED BY <1>5, <2>2, <2>3, <2>4, <2>5, SeenStep
<1>8. CASE /\ pos + Len(w) <= BURST_SIZE
           /\ \A i \in 1 .. Len(w) : w[i].type = "BURST" /\ w[i].burst_start = current
           /\ pos' = IF pos + n = BURST_SIZE THEN 0 ELSE pos + n
  <2>1. current \in Nat /\ current <= accepted
    BY <1>4 DEF current
  <2>2. \/ current' = current + BURST_SIZE
        \/ current' = current /\ pos' = pos + n
    BY <1>4, <1>8 DEF current
  <2>3. Open \/ Len(w) > Len(pending) => current' = current + BURST_SIZE \/ (current' = current /\ Open')
    <3>1. Open \/ Len(w) > Len(pending) => pos + n > 0 \/ sent' < accepted'
      BY <1>4 DEF Open
    <3> QED BY <1>4, <1>8, <2>2, <3>1 DEF Open
  <2>4. Len(w) > Len(pending) => a0.type = "BURST" /\ a0.start = current /\ a0.seq = accepted
                                   /\ accepted < current + BURST_SIZE
    BY <1>4, <1>6, <1>8 DEF current
  <2>5. \A a \in fresh : /\ a = a0 /\ a0.type = "BURST" /\ a0.start = current /\ a0.seq = accepted
                         /\ accepted < current + BURST_SIZE /\ Len(w) > Len(pending)
    BY <2>4
  <2> HIDE DEF fresh
  <2>6. \A a \in Seen : Placed(a) => Placed(a)'
    BY <2>1, <2>2, <2>3 DEF Placed
  <2>7. \A a \in fresh : Placed(a)' /\ Apart(a, a)
    BY <1>4, <2>1, <2>3, <2>5 DEF Placed, Apart
  <2>8. \A a \in fresh, b \in Seen : Placed(b) => Apart(a, b) /\ Apart(b, a)
    BY <2>1, <2>5 DEF Placed, Apart
  <2>9. \A a, b \in fresh : Apart(a, b)
    BY <2>5 DEF Apart
  <2> QED BY <1>5, <2>6, <2>7, <2>8, <2>9, SeenStep
<1> QED BY <1>2, <1>7, <1>8 DEF SenderMove

\* Steps that leave the sender alone add to what is seen only packets that are no data.
LEMMA OthersKeepSeen ==
  ASSUME SeenInv, UNCHANGED <<accepted, sent, pos>>, \A a \in Seen' : a \in Seen \/ a.type \in {"ECHO", "START_ACK"}
  PROVE  SeenInv'
<1> DEFINE strays == {a \in Seen' : a.type \in {"ECHO", "START_ACK"}}
<1>1. Seen' \subseteq Seen \cup strays /\ \A a \in strays : a.type \in {"ECHO", "START_ACK"}
  OBVIOUS
<1> HIDE DEF strays
<1>2. \A a \in Seen : Placed(a) => Placed(a)'
  BY DEF Placed, current, Open
<1>3. \A a \in strays : Placed(a)' /\ Apart(a, a)
  BY <1>1 DEF Placed, Apart
<1>4. \A a \in strays : \A b : Apart(a, b) /\ Apart(b, a)
  BY <1>1 DEF Apart
<1> QED BY <1>1, <1>2, <1>3, <1>4, SeenStep

LEMMA NetworkKeepsSeen ==
  ASSUME SeenInv, NetworkMove
  PROVE  SeenInv'
<1>1. ASSUME NEW a \in Seen' PROVE a \in Seen \/ a.type \in {"ECHO", "START_ACK"}
  <2>1. ASSUME NEW i \in 1 .. Len(net'), IsData(net'[i]), a = Arrival(net'[i]) PROVE a \in Seen \/ a.type \in {"ECHO", "START_ACK"}
    <3>1. CASE \E j \in 1 .. Len(net) : net'[i] = net[j]
      BY <2>1, <3>1 DEF Seen
    <3>2. CASE net'[i] \in Signals
      BY <2>1, <3>2 DEF Signals, IsData
    <3>3. CASE net'[i] \in Headers /\ net'[i].type \in {"ECHO", "START_ACK"}
      BY <2>1, <3>3, ArrivalOf
    <3> QED BY <3>1, <3>2, <3>3 DEF NetworkMove
  <2>2. UNCHANGED <<pending, arrivals, barrivals>>
    BY DEF NetworkMove, receiver_vars
  <2>3. ASSUME NEW i \in 1 .. Len(pending'), a = Arrival(pending'[i]) PROVE a \in Seen
    BY <2>2, <2>3 DEF Seen
  <2>4. ASSUME NEW i \in Slots, a = arrivals'[i] \/ a = barrivals'[i] PROVE a \in Seen
    BY <2>2, <2>4 DEF Seen
  <2> QED BY <2>1, <2>3, <2>4 DEF Seen
<1> QED BY <1>1, OthersKeepSeen DEF NetworkMove

\* What the receiver remembers it has just received or remembered before.
LEMMA Remembered ==
  ASSUME BaseInv, TakePacket, NEW i \in Slots
  PROVE  /\ arrivals'[i] = arrivals[i] \/ (IsData(Head(net)) /\ arrivals'[i] = Arrival(Head(net)))
         /\ barrivals'[i] = barrivals[i] \/ (IsData(Head(net)) /\ barrivals'[i] = Arrival(Head(net)))
<1> DEFINE p == Head(net)
<1>1. /\ RecvStart(p) \/ RecvStop(p) \/ RecvOutOfOrder(p) \/ RecvBurst(p) \/ RecvPlain(p)
      /\ IsData(p) => HeadData(p)
  BY PacketArrives DEF TakePacket, Receive
<1> HIDE DEF p
<1>2. arrivals \in [Slots -> ArrivalRecord] /\ barrivals \in [Slots -> ArrivalRecord]
  BY DEF BaseInv, TypeOK
<1>3. CASE RecvStart(p) \/ RecvStop(p) \/ RecvOutOfOrder(p)
  BY <1>3 DEF RecvStart, RecvStop, RecvOutOfOrder, receiver_vars
<1>4. CASE RecvBurst(p)
  <2>1. IsData(p) /\ MarkArrival(p) /\ p \in Headers /\ HeadData(p)
    BY <1>1, <1>4 DEF RecvBurst, IsData, HeadData
  <2>2. barrivals' = [barrivals EXCEPT ![p.seq_num - p.burst_start] = Arrival(p)]
    BY <1>4, <2>1, BurstKeepsArrays
  <2> QED BY <1>2, <2>1, <2>2 DEF MarkArrival, p
<1>5. CASE RecvPlain(p)
  <2>1. IsData(p) /\ MarkArrival(p) /\ barrivals' = barrivals
    BY <1>5 DEF RecvPlain, IsData, EndBurst, ResetBurst
  <2> QED BY <1>2, <2>1 DEF MarkArrival, p
<1> QED BY <1>1, <1>3, <1>4, <1>5

LEMMA ReceiveKeepsSeen ==
  ASSUME BaseInv, SeenInv, TakePacket
  PROVE  SeenInv'
<1>1. /\ \A i \in 1 .. Len(net') : net'[i] = net[i + 1]
      /\ Len(net') = Len(net) - 1 /\ Len(net) \in Nat \ {0} /\ Head(net) = net[1]
  BY PacketArrives DEF TakePacket, Receive
<1>2. IsData(Head(net)) => Arrival(Head(net)) \in Seen
  <2>1. 1 \in 1 .. Len(net)
    BY <1>1
  <2> QED BY <1>1, <2>1 DEF Seen
<1>3. ASSUME NEW a \in Seen' PROVE a \in Seen
  <2>1. ASSUME NEW i \in 1 .. Len(net'), IsData(net'[i]), a = Arrival(net'[i]) PROVE a \in Seen
    <3>1. i + 1 \in 1 .. Len(net) /\ net'[i] = net[i + 1]
      BY <1>1
    <3> QED BY <2>1, <3>1 DEF Seen
  <2>2. ASSUME NEW i \in 1 .. Len(pending'), a = Arrival(pending'[i]) PROVE a \in Seen
    BY <2>2 DEF Seen, TakePacket
  <2>3. ASSUME NEW i \in Slots, a = arrivals'[i] \/ a = barrivals'[i] PROVE a \in Seen
    <3>1. arrivals[i] \in Seen /\ barrivals[i] \in Seen
      BY DEF Seen
    <3> QED BY <1>2, <2>3, <3>1, Remembered
  <2> QED BY <2>1, <2>2, <2>3 DEF Seen
<1> QED BY <1>3, OthersKeepSeen DEF TakePacket

LEMMA SeenHolds == Spec => []SeenInv
<1>1. Init => SeenInv
  <2> SUFFICES ASSUME Init PROVE SeenInv
    OBVIOUS
  <2>1. Seen \subseteq {Never}
    BY DEF Init, ReceiverInit, Seen
  <2>2. Never.type = "NONE"
    BY DEF Never
  <2> QED BY <2>1, <2>2 DEF SeenInv, Placed, Apart
<1>2. BaseInv /\ SeenInv /\ [Next]_vars => SeenInv'
  <2> SUFFICES ASSUME BaseInv, SeenInv, [Next]_vars PROVE SeenInv'
    OBVIOUS
  <2>1. CASE SenderStep
    BY <2>1, SenderKeepsSeen
  <2>2. CASE NetworkStep
    BY <2>2, NetworkEffect, NetworkKeepsSeen
  <2>3. CASE TakePacket
    BY <2>3, ReceiveKeepsSeen
  <2>4. CASE OtherReceiverStep \/ UNCHANGED vars
    <3>1. UNCHANGED <<net, pending, arrivals, barrivals, accepted, sent, pos>>
      BY <2>4 DEF OtherReceiverStep, RecvTimeout, ReceiverStops, stop_receiving_thread, vars, receiver_vars
    <3>2. Seen' = Seen
      BY <3>1 DEF Seen
    <3> QED BY <3>1, <3>2, OthersKeepSeen
  <2> QED BY <2>1, <2>2, <2>3, <2>4 DEF Next, NetworkStep
<1> QED BY <1>1, <1>2, BaseHolds, PTL DEF Spec

\* "burst just finished, send report": the packet that makes the receiver report a burst
\* comes after all of it, whatever the network loses, duplicates and reorders, where
\* neither ECHOs nor late acknowledgements come (one ends a burst anywhere).
THEOREM BurstsAreOver ==
  ASSUME ~Strays
  PROVE  Spec => []BurstIsOver
<1>1. Init => BurstIsOver
  BY DEF Init, BurstIsOver, Reports, ToSet
<1>2. BaseInv /\ SeenInv /\ Next => BurstIsOver'
  <2> SUFFICES ASSUME BaseInv, SeenInv, Next, NEW r \in ToSet(replies'), r.type = "BURST_REPORT"
               PROVE  r.seq_num >= r.to.start + BURST_SIZE
    BY DEF BurstIsOver, Reports
  <2> DEFINE p == Head(net)  a == barrivals[bEnd]
  <2>1. TakePacket /\ RecvPlain(p) /\ p \in Headers /\ HeadData(p) /\ r = BurstReport(p) /\ BurstMeasured
    BY ReportsOf
  <2>2. p.type = "DATA" /\ ~OutOfOrder(p)
    BY <2>1, ArrivalOf DEF RecvPlain, HeadData
  <2>3. r.seq_num = p.seq_num /\ r.to = a
    BY <2>1 DEF BurstReport, Report
  <2>4. Arrival(p) \in Seen
    <3>1. 1 \in 1 .. Len(net) /\ p = net[1]
      BY <2>1, PacketArrives DEF TakePacket, Receive
    <3> QED BY <2>2, <3>1 DEF Seen, IsData
  <2> HIDE DEF p
  <2>5. bEnd \in Slots /\ a # Never
    BY <2>1 DEF BurstMeasured, BaseInv, IndicesSafe, Slots
  <2>6. a \in Seen /\ a.type = "BURST" /\ a.seq < seq
    BY <2>5 DEF Seen, BaseInv, BurstInv
  <2> HIDE DEF a
  <2>7. a.start \in Nat /\ a.seq >= a.start /\ a.seq \in Int
    BY <2>6 DEF SeenInv, Placed
  <2>8. p.seq_num < a.start \/ p.seq_num >= a.start + BURST_SIZE
    BY <2>1, <2>2, <2>4, <2>6, ArrivalOf DEF SeenInv, Apart
  <2>9. p.seq_num \in Nat /\ seq \in Nat /\ p.seq_num >= seq
    BY <2>1, <2>2, ArrivalOf DEF OutOfOrder, BaseInv, TypeOK
  <2> QED BY <2>3, <2>6, <2>7, <2>8, <2>9
<1>3. UNCHANGED vars /\ BurstIsOver => BurstIsOver'
  BY DEF vars, BurstIsOver, Reports
<1> QED BY <1>1, <1>2, <1>3, BaseHolds, SeenHolds, PTL DEF Spec

--------------------------------------------------------------------------------
(* Nothing above what has arrived is dropped. *)

\* Without ECHOs and late acknowledgements only what is sent counts as arrived.
AheadInv == ~Strays => seq <= highest + 1

\* How far a packet moves the receiver.
LEMMA SeqMoves ==
  ASSUME BaseInv, TakePacket
  PROVE  \/ seq' = seq
         \/ IsData(Head(net)) /\ ~OutOfOrder(Head(net)) /\ seq' \in {Head(net).seq_num, Head(net).seq_num + 1}
<1> DEFINE p == Head(net)
<1>1. /\ RecvStart(p) \/ RecvStop(p) \/ RecvOutOfOrder(p) \/ RecvBurst(p) \/ RecvPlain(p)
      /\ IsData(p) => HeadData(p)
  BY PacketArrives DEF TakePacket, Receive
<1> HIDE DEF p
<1>2. CASE RecvStart(p) \/ RecvStop(p) \/ RecvOutOfOrder(p)
  BY <1>2 DEF RecvStart, RecvStop, RecvOutOfOrder, receiver_vars
<1>3. CASE RecvBurst(p)
  <2>1. IsData(p) /\ ~OutOfOrder(p)
    BY <1>3 DEF RecvBurst, IsData
  <2>2. seq' = p.seq_num + 1
    BY <1>1, <1>3, <2>1, BurstKeepsArrays DEF HeadData
  <2> QED BY <2>1, <2>2 DEF p
<1>4. CASE RecvPlain(p)
  <2>1. IsData(p) /\ ~OutOfOrder(p)
    BY <1>4 DEF RecvPlain, IsData
  <2>2. seq' \in {p.seq_num, p.seq_num + 1}
    BY <1>1, <1>4, <2>1, PlainOutcome DEF HeadData
  <2> QED BY <2>1, <2>2 DEF p
<1> QED BY <1>1, <1>2, <1>3, <1>4

LEMMA AheadHolds == Spec => []AheadInv
<1>1. Init => AheadInv
  BY DEF Init, ReceiverInit, AheadInv
<1>2. BaseInv /\ AheadInv /\ [Next]_vars => AheadInv'
  <2> SUFFICES ASSUME BaseInv, AheadInv, [Next]_vars, ~Strays PROVE seq' <= highest' + 1
    BY DEF AheadInv
  <2>1. seq <= highest + 1 /\ seq \in Nat /\ highest \in Int
    BY DEF AheadInv, BaseInv, TypeOK
  <2>2. CASE SenderStep \/ OtherReceiverStep \/ UNCHANGED vars
    <3>1. UNCHANGED <<seq, highest>>
      BY <2>2 DEF SenderStep, OtherReceiverStep, RecvTimeout, ReceiverStops, stop_receiving_thread,
                  vars, receiver_vars
    <3> QED BY <2>1, <3>1
  <2>3. CASE NetworkStep
    <3>1. UNCHANGED <<seq, highest>>
      BY <2>3, NetworkEffect DEF NetworkMove, receiver_vars
    <3> QED BY <2>1, <3>1
  <2>4. CASE TakePacket
    <3> DEFINE p == Head(net)
    <3>1. highest' = IF p.type \in {"DATA", "BURST"} /\ p.seq_num > highest THEN p.seq_num ELSE highest
      BY <2>4 DEF TakePacket, Highest
    <3>2. IsData(p) => p \in Headers /\ p.type \in {"DATA", "BURST"}
      BY <2>4, PacketArrives, ArrivalOf DEF TakePacket, Receive, HeadData, IsData
    <3>3. seq' = seq \/ (IsData(p) /\ seq' \in {p.seq_num, p.seq_num + 1})
      BY <2>4, SeqMoves
    <3> HIDE DEF p
    <3>4. p.type \in {"DATA", "BURST"} => p.seq_num \in Nat
      BY <3>2, ArrivalOf DEF IsData
    <3>5. CASE seq' = seq
      BY <2>1, <3>1, <3>4, <3>5
    <3>6. CASE IsData(p) /\ seq' \in {p.seq_num, p.seq_num + 1}
      BY <2>1, <3>1, <3>2, <3>4, <3>6
    <3> QED BY <3>3, <3>5, <3>6
  <2> QED BY <2>2, <2>3, <2>4 DEF Next, NetworkStep
<1> QED BY <1>1, <1>2, BaseHolds, PTL DEF Spec

\* "out of order packet, drop": a data packet above all that arrived before it is not
\* dropped, whatever the network does, where neither ECHOs nor late acknowledgements
\* come (an ECHO carries the number of a packet that may still wait to leave, an
\* acknowledgement number 0).
THEOREM InOrderStaysKept ==
  ASSUME ~Strays
  PROVE  Spec => InOrderIsKept
<1>1. ASSUME BaseInv, AheadInv, [Next]_vars
      PROVE  [highest' # highest => arrivals'[highest' % BURST_SIZE] = Arrival(Head(net))]_vars
  <2> SUFFICES ASSUME highest' # highest
               PROVE  arrivals'[highest' % BURST_SIZE] = Arrival(Head(net))
    OBVIOUS
  <2> USE <1>1
  <2>1. ~SenderStep /\ ~OtherReceiverStep /\ ~UNCHANGED vars
    BY DEF SenderStep, OtherReceiverStep, vars
  <2>2. ~NetworkStep
    BY NetworkEffect DEF NetworkMove
  <2>3. TakePacket
    BY <2>1, <2>2 DEF Next, NetworkStep
  <2> DEFINE p == Head(net)
  <2>4. p.type \in {"DATA", "BURST"} /\ p.seq_num > highest /\ highest' = p.seq_num
    BY <2>3 DEF TakePacket, Highest
  <2>5. /\ RecvStart(p) \/ RecvStop(p) \/ RecvOutOfOrder(p) \/ RecvBurst(p) \/ RecvPlain(p)
        /\ HeadData(p)
    BY <2>3, <2>4, PacketArrives DEF TakePacket, Receive, IsData
  <2> HIDE DEF p
  <2>6. p \in Headers /\ p.seq_num \in Nat
    BY <2>5, ArrivalOf DEF HeadData
  <2>7. ~OutOfOrder(p)
    BY <2>4, <2>6 DEF AheadInv, OutOfOrder, BaseInv, TypeOK
  <2>8. MarkArrival(p)
    BY <2>4, <2>5, <2>7 DEF RecvStart, RecvStop, RecvOutOfOrder, RecvBurst, RecvPlain
  <2>9. arrivals'[p.seq_num % BURST_SIZE] = Arrival(p)
    BY <2>6, <2>7, <2>8, RingMarked
  <2> QED BY <2>4, <2>9 DEF p
<1>2. BaseInv /\ AheadInv /\ [Next]_vars
        => [highest' # highest => arrivals'[highest' % BURST_SIZE] = Arrival(Head(net))]_vars
  BY <1>1
<1> QED BY <1>2, BaseHolds, AheadHolds, PTL DEF Spec, InOrderIsKept

--------------------------------------------------------------------------------
(* A network that keeps the order: it loses packets at most. *)

Fifo == ~Strays /\ ~MayDuplicate /\ ~MayReorder

\* What is in flight is in order, and above what has arrived.
NetOrder ==
  \A i \in 1 .. Len(net) : IsData(net[i]) =>
    /\ highest < net[i].seq_num /\ net[i].seq_num < sent
    /\ \A j \in i + 1 .. Len(net) : IsData(net[j]) => net[i].seq_num < net[j].seq_num

\* As many packets as are counted at the current rate were sent at it.
RingOrder ==
  /\ highest \in -1 .. sent - 1
  /\ \A i \in Slots : received[i] = 1 =>
       /\ arrivals[i].seq <= highest /\ arrivals[i].type \in {"DATA", "BURST"}
       /\ arrivals[i].seq > highest - numAtCurRate => arrivals[i].rate = curRate

OrderInv == NetOrder /\ RingOrder

LEMMA InFlight ==
  ASSUME BaseInv
  PROVE  /\ Len(net) \in Nat
         /\ \A i \in 1 .. Len(net) : IsData(net[i]) => net[i] \in Headers /\ net[i].seq_num \in Nat
<1>1. net \in Seq(Headers \cup Signals)
  BY DEF BaseInv, NetInv
<1>2. \A i \in 1 .. Len(net) : IsData(net[i]) => net[i] \in Headers
  BY <1>1 DEF IsData, Signals
<1> QED BY <1>1, <1>2, ArrivalOf

LEMMA SenderKeepsOrder ==
  ASSUME BaseInv, OrderInv, SenderStep
  PROVE  OrderInv'
<1>1. PICK w \in Seq(Headers) : \E n \in 0 .. Len(w) : SenderMove(w, n)
  BY SenderEffect
<1>2. PICK n \in 0 .. Len(w) : SenderMove(w, n)
  BY <1>1
<1>3. /\ Len(net') = Len(net) + n /\ Len(net) \in Nat /\ Len(w) \in Nat
      /\ sent' = sent + n /\ sent \in Nat /\ highest \in -1 .. sent - 1
      /\ \A i \in 1 .. Len(net) : net'[i] = net[i]
      /\ \A i \in 1 .. n : net'[Len(net) + i] = w[i] /\ w[i].seq_num = sent + i - 1
  <2>1. Len(net) \in Nat /\ Len(w) \in Nat
    BY InFlight
  <2>2. sent' = sent + n /\ Moved(w, n) /\ \A i \in 1 .. Len(w) : w[i].seq_num = sent + i - 1
    BY <1>2 DEF SenderMove
  <2>3. sent \in Nat /\ highest \in -1 .. sent - 1
    BY DEF BaseInv, SenderInv, OrderInv, RingOrder
  <2>4. \A i \in 1 .. n : i \in 1 .. Len(w)
    BY <2>1
  <2> QED BY <2>1, <2>2, <2>3, <2>4 DEF Moved
<1>4. UNCHANGED <<receiver_vars, highest>>
  BY DEF SenderStep
<1>5. ASSUME NEW i \in 1 .. Len(net')
      PROVE  \/ i \in 1 .. Len(net) /\ net'[i] = net[i]
             \/ i > Len(net) /\ net'[i].seq_num = sent + (i - Len(net)) - 1
  <2> DEFINE k == i - Len(net)
  <2>1. CASE i \in 1 .. Len(net)
    BY <1>3, <2>1
  <2>2. CASE i \notin 1 .. Len(net)
    <3>1. k \in 1 .. n /\ Len(net) + k = i /\ i > Len(net)
      BY <1>3, <2>2
    <3> HIDE DEF k
    <3>2. net'[i].seq_num = sent + k - 1
      BY <1>3, <3>1
    <3> QED BY <3>1, <3>2 DEF k
  <2> QED BY <2>1, <2>2
<1>6. NetOrder'
  <2> SUFFICES ASSUME NEW i \in 1 .. Len(net'), IsData(net'[i])
               PROVE  /\ highest' < net'[i].seq_num /\ net'[i].seq_num < sent'
                      /\ \A j \in i + 1 .. Len(net') : IsData(net'[j]) => net'[i].seq_num < net'[j].seq_num
    BY DEF NetOrder
  <2>1. CASE i \in 1 .. Len(net)
    <3>1. net'[i] = net[i] /\ highest < net[i].seq_num /\ net[i].seq_num < sent /\ net[i].seq_num \in Nat
          /\ \A j \in i + 1 .. Len(net) : IsData(net[j]) => net[i].seq_num < net[j].seq_num
      <4>1. net'[i] = net[i]
        BY <1>3, <2>1
      <4> QED BY <2>1, <4>1, InFlight DEF OrderInv, NetOrder
    <3>2. ASSUME NEW j \in i + 1 .. Len(net'), IsData(net'[j]) PROVE net'[i].seq_num < net'[j].seq_num
      <4>1. j \in 1 .. Len(net')
        BY <1>3
      <4>2. CASE j \in 1 .. Len(net) /\ net'[j] = net[j]
        BY <3>1, <3>2, <4>2
      <4>3. CASE j > Len(net) /\ net'[j].seq_num = sent + (j - Len(net)) - 1
        <5>1. Len(net) \in Nat /\ j \in Nat /\ sent \in Nat
          BY <1>3, <4>1
        <5>2. net'[j].seq_num \in Int /\ net'[j].seq_num >= sent
          BY <4>3, <5>1
        <5>3. net'[i].seq_num \in Nat /\ net'[i].seq_num < sent
          BY <3>1
        <5> QED BY <5>1, <5>2, <5>3
      <4> QED BY <1>5, <4>1, <4>2, <4>3
    <3>3. highest' = highest /\ net'[i].seq_num < sent'
      BY <1>3, <1>4, <3>1
    <3> QED BY <3>1, <3>2, <3>3
  <2>2. CASE i \notin 1 .. Len(net)
    <3>1. i > Len(net) /\ net'[i].seq_num = sent + (i - Len(net)) - 1
      BY <1>5, <2>2
    <3>2. ASSUME NEW j \in i + 1 .. Len(net'), IsData(net'[j]) PROVE net'[i].seq_num < net'[j].seq_num
      <4>1. j \in 1 .. Len(net') /\ j \notin 1 .. Len(net)
        BY <1>3, <3>1
      <4>2. net'[j].seq_num = sent + (j - Len(net)) - 1
        BY <1>5, <4>1
      <4>3. Len(net) \in Nat /\ i \in Nat /\ j \in Nat /\ i < j /\ sent \in Nat
        BY <1>3, <4>1
      <4> QED BY <3>1, <4>2, <4>3
    <3>3. sent <= net'[i].seq_num /\ net'[i].seq_num < sent'
      BY <1>3, <3>1
    <3>4. highest' \in Int /\ highest' < sent /\ sent \in Int /\ net'[i].seq_num \in Int
      BY <1>3, <1>4, <3>1
    <3>5. highest' < net'[i].seq_num
      BY <3>3, <3>4
    <3> QED BY <3>2, <3>3, <3>5
  <2> QED BY <2>1, <2>2
<1>7. RingOrder'
  BY <1>3, <1>4 DEF OrderInv, RingOrder, receiver_vars
<1> QED BY <1>6, <1>7 DEF OrderInv

\* Without duplicates, reordering, ECHOs and late acknowledgements, a packet is lost or
\* a signal comes.
LEMMA FifoNetwork ==
  ASSUME Fifo, BaseInv, NetworkStep
  PROVE  /\ UNCHANGED <<receiver_vars, highest, sent>>
         /\ \/ /\ intact' = intact /\ Len(net') = Len(net) + 1 /\ ~IsData(net'[Len(net')])
               /\ \A i \in 1 .. Len(net) : net'[i] = net[i]
            \/ /\ intact' = FALSE /\ Len(net') = Len(net) - 1
               /\ \E k \in 1 .. Len(net) :
                    /\ \A i \in 1 .. k - 1 : net'[i] = net[i]
                    /\ \A i \in k .. Len(net) - 1 : net'[i] = net[i + 1]
<1>1. UNCHANGED <<receiver_vars, highest, sent>>
  BY NetworkEffect DEF NetworkMove
<1>2. net \in Seq(Headers \cup Signals)
  BY DEF BaseInv, NetInv
<1>3. CASE SignalArrives
  <2>1. PICK x \in Signals : net' = Append(net, x)
    BY <1>3 DEF SignalArrives, Signal, Signals
  <2>2. intact' = intact
    BY <1>3 DEF SignalArrives
  <2>3. ~IsData(x)
    BY DEF IsData, Signals
  <2>4. Len(net') = Len(net) + 1 /\ net'[Len(net')] = x /\ \A i \in 1 .. Len(net) : net'[i] = net[i]
    BY <1>2, <2>1
  <2> QED BY <1>1, <2>2, <2>3, <2>4
<1>4. CASE Lose
  <2>1. PICK k \in 1 .. Len(net) : net' = RemoveAt(net, k)
    BY <1>2, <1>4 DEF Lose
  <2>2. /\ Len(net') = Len(net) - 1
        /\ \A i \in 1 .. k - 1 : net'[i] = net[i]
        /\ \A i \in k .. Len(net) - 1 : net'[i] = net[i + 1]
    BY <1>2, <2>1, RemoveElement
  <2>3. intact' = FALSE
    BY <1>4 DEF Lose
  <2> QED BY <1>1, <2>2, <2>3
<1> QED BY <1>3, <1>4 DEF NetworkStep, Fifo, Strays, SenderEcho, LateReply, Duplicate, Reorder

LEMMA NetworkKeepsOrder ==
  ASSUME Fifo, BaseInv, OrderInv, NetworkStep
  PROVE  OrderInv'
<1>1. UNCHANGED <<receiver_vars, highest, sent>> /\ Len(net) \in Nat
  BY FifoNetwork, InFlight
<1>2. RingOrder'
  BY <1>1 DEF OrderInv, RingOrder, receiver_vars
<1>3. CASE /\ Len(net') = Len(net) + 1 /\ ~IsData(net'[Len(net')])
           /\ \A i \in 1 .. Len(net) : net'[i] = net[i]
  <2>1. \A i \in 1 .. Len(net') : IsData(net'[i]) => i \in 1 .. Len(net) /\ net'[i] = net[i]
    BY <1>1, <1>3
  <2>2. NetOrder'
    <3> SUFFICES ASSUME NEW i \in 1 .. Len(net'), IsData(net'[i])
                 PROVE  /\ highest' < net'[i].seq_num /\ net'[i].seq_num < sent'
                        /\ \A j \in i + 1 .. Len(net') : IsData(net'[j]) => net'[i].seq_num < net'[j].seq_num
      BY DEF NetOrder
    <3>1. i \in 1 .. Len(net) /\ net'[i] = net[i]
      BY <2>1
    <3>2. \A j \in i + 1 .. Len(net') : IsData(net'[j]) => j \in i + 1 .. Len(net) /\ net'[j] = net[j]
      BY <1>1, <1>3, <2>1, <3>1
    <3> QED BY <1>1, <3>1, <3>2 DEF OrderInv, NetOrder
  <2> QED BY <1>2, <2>2 DEF OrderInv
<1>4. CASE /\ Len(net') = Len(net) - 1
           /\ \E k \in 1 .. Len(net) :
                /\ \A i \in 1 .. k - 1 : net'[i] = net[i]
                /\ \A i \in k .. Len(net) - 1 : net'[i] = net[i + 1]
  <2>1. PICK k \in 1 .. Len(net) :
          /\ \A i \in 1 .. k - 1 : net'[i] = net[i]
          /\ \A i \in k .. Len(net) - 1 : net'[i] = net[i + 1]
    BY <1>4
  <2> DEFINE f(i) == IF i < k THEN i ELSE i + 1
  <2>2. \A i \in 1 .. Len(net') : f(i) \in 1 .. Len(net) /\ net'[i] = net[f(i)]
    <3> SUFFICES ASSUME NEW i \in 1 .. Len(net') PROVE f(i) \in 1 .. Len(net) /\ net'[i] = net[f(i)]
      OBVIOUS
    <3>1. CASE i < k
      BY <1>1, <1>4, <2>1, <3>1
    <3>2. CASE ~(i < k)
      <4>1. i \in k .. Len(net) - 1 /\ i + 1 \in 1 .. Len(net)
        BY <1>1, <1>4, <3>2
      <4> QED BY <2>1, <3>2, <4>1
    <3> QED BY <3>1, <3>2
  <2>3. \A i \in 1 .. Len(net') : \A j \in i + 1 .. Len(net') :
          j \in 1 .. Len(net') /\ f(j) \in f(i) + 1 .. Len(net)
    BY <1>1, <1>4
  <2> HIDE DEF f
  <2>4. NetOrder'
    <3> SUFFICES ASSUME NEW i \in 1 .. Len(net'), IsData(net'[i])
                 PROVE  /\ highest' < net'[i].seq_num /\ net'[i].seq_num < sent'
                        /\ \A j \in i + 1 .. Len(net') : IsData(net'[j]) => net'[i].seq_num < net'[j].seq_num
      BY DEF NetOrder
    <3>1. f(i) \in 1 .. Len(net) /\ net'[i] = net[f(i)]
      BY <2>2
    <3>2. \A j \in i + 1 .. Len(net') : f(j) \in f(i) + 1 .. Len(net) /\ net'[j] = net[f(j)]
      BY <2>2, <2>3
    <3> QED BY <1>1, <3>1, <3>2 DEF OrderInv, NetOrder
  <2> QED BY <1>2, <2>4 DEF OrderInv
<1> QED BY <1>3, <1>4, FifoNetwork

\* Every data packet that arrives is the highest so far, and it is not dropped.
LEMMA FifoArrives ==
  ASSUME Fifo, BaseInv, AheadInv, OrderInv, TakePacket, NEW p, p = Head(net)
  PROVE  /\ ~IsData(p) => UNCHANGED <<highest, rate_state, seq, window, burst_state>>
         /\ IsData(p) =>
              /\ p \in Headers /\ p.type \in {"DATA", "BURST"} /\ HeadData(p)
              /\ highest < p.seq_num /\ p.seq_num < sent /\ highest' = p.seq_num
              /\ ~OutOfOrder(p) /\ CountRate(p) /\ MarkArrival(p)
              /\ (p.type = "BURST" /\ RecvBurst(p)) \/ (p.type = "DATA" /\ RecvPlain(p))
<1>1. /\ RecvStart(p) \/ RecvStop(p) \/ RecvOutOfOrder(p) \/ RecvBurst(p) \/ RecvPlain(p)
      /\ IsData(p) => HeadData(p)
      /\ p = net[1] /\ Len(net) \in Nat \ {0}
      /\ highest' = IF p.type \in {"DATA", "BURST"} /\ p.seq_num > highest THEN p.seq_num ELSE highest
  BY PacketArrives DEF TakePacket, Receive, Highest
<1>2. CASE ~IsData(p)
  <2>1. RecvStart(p) \/ RecvStop(p)
    BY <1>1, <1>2 DEF RecvOutOfOrder, RecvBurst, RecvPlain, IsData
  <2>2. highest' = highest
    BY <1>1, <1>2 DEF IsData
  <2> QED BY <1>2, <2>1, <2>2 DEF RecvStart, RecvStop, receiver_vars
<1>3. CASE IsData(p)
  <2>1. p \in Headers /\ p.type \in {"DATA", "BURST"} /\ HeadData(p) /\ p.seq_num \in Nat
    BY <1>1, <1>3, ArrivalOf DEF HeadData, IsData, Fifo
  <2>2. highest < p.seq_num /\ p.seq_num < sent
    <3>1. 1 \in 1 .. Len(net)
      BY <1>1
    <3> QED BY <1>1, <1>3, <3>1 DEF OrderInv, NetOrder
  <2>3. highest' = p.seq_num
    BY <1>1, <2>1, <2>2 DEF BaseInv, TypeOK
  <2>4. ~OutOfOrder(p)
    BY <2>1, <2>2 DEF Fifo, AheadInv, OutOfOrder, BaseInv, TypeOK
  <2>5. (p.type = "BURST" /\ RecvBurst(p)) \/ (p.type = "DATA" /\ RecvPlain(p))
    BY <1>1, <2>1, <2>4 DEF RecvStart, RecvStop, RecvOutOfOrder, RecvBurst, RecvPlain
  <2>6. CountRate(p) /\ MarkArrival(p)
    BY <2>5 DEF RecvBurst, RecvPlain
  <2> QED BY <1>3, <2>1, <2>2, <2>3, <2>4, <2>5, <2>6
<1> QED BY <1>2, <1>3

LEMMA ReceiveKeepsOrder ==
  ASSUME Fifo, BaseInv, AheadInv, OrderInv, TakePacket
  PROVE  OrderInv'
<1> DEFINE p == Head(net)
<1>1. /\ \A i \in 1 .. Len(net') : net'[i] = net[i + 1]
      /\ Len(net') = Len(net) - 1 /\ Len(net) \in Nat \ {0} /\ p = net[1] /\ sent' = sent
  BY PacketArrives DEF TakePacket, Receive
<1>2. /\ ~IsData(p) => UNCHANGED <<highest, rate_state, seq, window, burst_state>>
      /\ IsData(p) =>
              /\ p \in Headers /\ p.type \in {"DATA", "BURST"}
              /\ highest < p.seq_num /\ p.seq_num < sent /\ highest' = p.seq_num
              /\ ~OutOfOrder(p) /\ CountRate(p) /\ MarkArrival(p)
  BY FifoArrives
<1> HIDE DEF p
<1>3. NetOrder'
  <2> SUFFICES ASSUME NEW i \in 1 .. Len(net'), IsData(net'[i])
               PROVE  /\ highest' < net'[i].seq_num /\ net'[i].seq_num < sent'
                      /\ \A j \in i + 1 .. Len(net') : IsData(net'[j]) => net'[i].seq_num < net'[j].seq_num
    BY DEF NetOrder
  <2>1. net'[i] = net[i + 1] /\ i + 1 \in 1 .. Len(net)
    BY <1>1
  <2>2. highest < net[i + 1].seq_num /\ net[i + 1].seq_num < sent
    BY <2>1 DEF OrderInv, NetOrder
  <2>3. ASSUME NEW j \in i + 1 .. Len(net'), IsData(net'[j]) PROVE net'[i].seq_num < net'[j].seq_num
    <3>1. net'[j] = net[j + 1] /\ j + 1 \in (i + 1) + 1 .. Len(net)
      BY <1>1
    <3> QED BY <2>1, <2>3, <3>1 DEF OrderInv, NetOrder
  <2>4. highest' < net[i + 1].seq_num
    <3>1. CASE IsData(p)
      <4>1. 1 \in 1 .. Len(net) /\ i + 1 \in 1 + 1 .. Len(net)
        BY <1>1
      <4> QED BY <1>1, <1>2, <2>1, <3>1, <4>1 DEF OrderInv, NetOrder
    <3> QED BY <1>2, <2>2, <3>1
  <2> QED BY <1>1, <2>1, <2>2, <2>3, <2>4
<1>4. RingOrder'
  <2>1. CASE ~IsData(p)
    BY <1>1, <1>2, <2>1 DEF OrderInv, RingOrder
  <2>2. CASE IsData(p)
    <3>1. p.seq_num \in Nat /\ highest \in Int /\ highest >= -1 /\ sent \in Int
          /\ numAtCurRate \in Nat
      BY <1>2, <2>2, ArrivalOf DEF OrderInv, RingOrder, BaseInv, TypeOK, SenderInv
    <3>2. curRate' = p.rate /\ numAtCurRate' \in Nat
          /\ (p.rate # curRate => numAtCurRate' = 1) /\ (p.rate = curRate => numAtCurRate' <= numAtCurRate + 1)
      BY <1>2, <2>2, <3>1, ArrivalOf DEF CountRate, NumAtRate
    <3> SUFFICES ASSUME NEW i \in Slots, received'[i] = 1
                 PROVE  /\ arrivals'[i].seq <= highest' /\ arrivals'[i].type \in {"DATA", "BURST"}
                        /\ arrivals'[i].seq > highest' - numAtCurRate' => arrivals'[i].rate = curRate'
      BY <1>1, <1>2, <2>2, <3>1 DEF RingOrder
    <3>3. CASE arrivals'[i] = Arrival(p)
      BY <1>2, <2>2, <3>1, <3>2, <3>3, ArrivalOf
    <3>4. CASE received[i] = 1 /\ arrivals'[i] = arrivals[i]
      <4>1. /\ arrivals[i].seq <= highest /\ arrivals[i].type \in {"DATA", "BURST"} /\ arrivals[i].seq \in Int
            /\ arrivals[i].seq > highest - numAtCurRate => arrivals[i].rate = curRate
        BY <3>4 DEF OrderInv, RingOrder, BaseInv, TypeOK, ArrivalRecord
      <4> QED BY <1>2, <2>2, <3>1, <3>2, <3>4, <4>1
    <3> QED BY <1>2, <2>2, <3>3, <3>4, RingMarked
  <2> QED BY <2>1, <2>2
<1> QED BY <1>3, <1>4 DEF OrderInv

LEMMA OrderHolds ==
  ASSUME Fifo
  PROVE  Spec => []OrderInv
<1>1. Init => OrderInv
  BY DEF Init, ReceiverInit, Sender!Init, OrderInv, NetOrder, RingOrder
<1>2. BaseInv /\ AheadInv /\ OrderInv /\ [Next]_vars => OrderInv'
  <2> SUFFICES ASSUME BaseInv, AheadInv, OrderInv, [Next]_vars PROVE OrderInv'
    OBVIOUS
  <2>1. CASE SenderStep
    BY <2>1, SenderKeepsOrder
  <2>2. CASE NetworkStep
    BY <2>2, NetworkKeepsOrder
  <2>3. CASE TakePacket
    BY <2>3, ReceiveKeepsOrder
  <2>4. CASE OtherReceiverStep \/ UNCHANGED vars
    <3>1. UNCHANGED <<net, highest, sent, window, rate_state>>
      BY <2>4 DEF OtherReceiverStep, RecvTimeout, ReceiverStops, stop_receiving_thread, vars, receiver_vars
    <3> QED BY <3>1 DEF OrderInv, NetOrder, RingOrder
  <2> QED BY <2>1, <2>2, <2>3, <2>4 DEF Next, NetworkStep
<1> QED BY <1>1, <1>2, BaseHolds, AheadHolds, PTL DEF Spec

\* "only use measurements after we have received WINDOW_SIZE packets at current rate":
\* where the network keeps the order, although it may lose packets, all that is marked
\* as received in the window that is measured was sent at the rate it is measured for.
THEOREM MeasuredAtRate ==
  ASSUME Fifo
  PROVE  Spec => []MeasuredAtOneRate
<1>1. Init => MeasuredAtOneRate
  BY DEF Init, MeasuredAtOneRate, Reports, ToSet
<1>2. BaseInv /\ AheadInv /\ OrderInv /\ Next => MeasuredAtOneRate'
  <2> SUFFICES ASSUME BaseInv, AheadInv, OrderInv, Next,
                      NEW r \in ToSet(replies'), r.type = "REPORT", r.span > 0,
                      NEW i \in Slots, received'[i] = 1, arrivals'[i].seq >= r.from.seq
               PROVE  arrivals'[i].rate = r.to.rate
    BY DEF MeasuredAtOneRate, Reports
  <2> DEFINE p == Head(net)
  <2>1. TakePacket /\ RecvPlain(p) /\ p \in Headers /\ r = RateReport(p) /\ ~SampleMissing(p)
    BY ReportsOf
  <2>2. highest' = p.seq_num /\ ~OutOfOrder(p) /\ CountRate(p) /\ MarkArrival(p)
    BY <2>1, FifoArrives DEF RecvPlain, IsData
  <2>3. RingOrder'
    BY <2>1, ReceiveKeepsOrder DEF OrderInv
  <2> HIDE DEF p
  <2>4. /\ WindowFull(p) /\ r.from = arrivals'[FirstSlot(p)] /\ r.to = Arrival(p)
        /\ r.span = IF pred_mode = 0 THEN 1 ELSE BURST_SIZE - 1
    BY <2>1 DEF RateReport, Report
  <2>5. r.from.seq = p.seq_num - r.span
    BY <2>1, <2>2, <2>4, FirstMarked
  <2>6. curRate' = p.rate /\ numAtCurRate' = NumAtRate(p) /\ r.to.rate = p.rate
    BY <2>1, <2>2, <2>4, ArrivalOf DEF CountRate
  <2>7. numAtCurRate' \in Nat /\ r.span < numAtCurRate'
    BY <2>1, <2>2, <2>4, <2>6, Counted DEF WindowFull
  <2>8. p.seq_num \in Nat /\ r.span \in Int
    BY <2>1, <2>4, ArrivalOf
  <2>9. arrivals'[i].seq \in Int
    <3>1. arrivals' \in [Slots -> ArrivalRecord]
      BY <2>1, <2>2, RingMarked
    <3> QED BY <3>1 DEF ArrivalRecord
  <2>10. arrivals'[i].seq > highest' - numAtCurRate'
    BY <2>2, <2>5, <2>7, <2>8, <2>9
  <2> QED BY <2>3, <2>6, <2>10 DEF RingOrder
<1>3. UNCHANGED vars /\ MeasuredAtOneRate => MeasuredAtOneRate'
  BY DEF vars, receiver_vars, MeasuredAtOneRate, Reports
<1> QED BY <1>1, <1>2, <1>3, BaseHolds, AheadHolds, OrderHolds, PTL DEF Spec

--------------------------------------------------------------------------------
(* Nothing was lost. *)

\* Whatever was sent has arrived or is in flight, and the ring holds what came last.
IntactInv ==
  intact =>
    /\ \A s \in highest + 1 .. sent - 1 : \E i \in 1 .. Len(net) : IsData(net[i]) /\ net[i].seq_num = s
    /\ seq = highest + 1 /\ numAtCurRate <= seq
    /\ \A s \in seq - BURST_SIZE .. seq - 1 :
         s >= 0 => received[s % BURST_SIZE] = 1 /\ arrivals[s % BURST_SIZE].seq = s

LEMMA SenderKeepsIntact ==
  ASSUME BaseInv, OrderInv, IntactInv, SenderStep
  PROVE  IntactInv'
<1> SUFFICES ASSUME intact PROVE IntactInv'
  BY DEF SenderStep, IntactInv
<1>1. PICK w \in Seq(Headers) : \E n \in 0 .. Len(w) : SenderMove(w, n)
  BY SenderEffect
<1>2. PICK n \in 0 .. Len(w) : SenderMove(w, n)
  BY <1>1
<1>3. /\ sent' = sent + n /\ Moved(w, n) /\ \A i \in 1 .. Len(w) : w[i].seq_num = sent + i - 1
      /\ sent \in Nat /\ highest \in -1 .. sent - 1 /\ Len(net) \in Nat /\ Len(w) \in Nat
  <2>1. sent' = sent + n /\ Moved(w, n) /\ \A i \in 1 .. Len(w) : w[i].seq_num = sent + i - 1
    BY <1>2 DEF SenderMove
  <2>2. sent \in Nat /\ highest \in -1 .. sent - 1
    BY DEF BaseInv, SenderInv, OrderInv, RingOrder
  <2> QED BY <2>1, <2>2, InFlight
<1>4. UNCHANGED <<receiver_vars, highest>>
  BY DEF SenderStep
<1>5. \A i \in 1 .. n : w[i] \in Headers /\ IsData(w[i])
  <2>1. \A x \in Headers : IsData(x)
    BY DEF Headers, IsData
  <2> QED BY <1>3, <2>1
<1>6. ASSUME NEW s \in highest' + 1 .. sent' - 1
      PROVE  \E i \in 1 .. Len(net') : IsData(net'[i]) /\ net'[i].seq_num = s
  <2>1. CASE s \in highest + 1 .. sent - 1
    <3>1. PICK i \in 1 .. Len(net) : IsData(net[i]) /\ net[i].seq_num = s
      BY <2>1 DEF IntactInv
    <3>2. i \in 1 .. Len(net') /\ net'[i] = net[i]
      BY <1>3 DEF Moved
    <3> QED BY <3>1, <3>2
  <2>2. CASE s \notin highest + 1 .. sent - 1
    <3> DEFINE k == s - sent + 1
    <3>0. s \in Int /\ sent \in Nat /\ n \in Nat /\ Len(w) \in Nat /\ n <= Len(w) /\ sent <= s /\ s < sent + n
      BY <1>3, <1>4, <2>2
    <3>1. k \in 1 .. n /\ k \in 1 .. Len(w) /\ sent + k - 1 = s
      BY <3>0
    <3> HIDE DEF k
    <3>2. net'[Len(net) + k] = w[k] /\ Len(net') = Len(net) + n /\ w[k].seq_num = s
      BY <1>3, <3>1 DEF Moved
    <3>3. Len(net) + k \in 1 .. Len(net')
      <4>1. Len(net) \in Nat /\ n \in Nat
        BY <1>3
      <4> QED BY <3>1, <3>2, <4>1
    <3> QED BY <1>5, <3>1, <3>2, <3>3
  <2> QED BY <2>1, <2>2
<1> QED BY <1>4, <1>6 DEF IntactInv, receiver_vars

LEMMA NetworkKeepsIntact ==
  ASSUME Fifo, BaseInv, IntactInv, NetworkStep
  PROVE  IntactInv'
<1> SUFFICES ASSUME intact' PROVE IntactInv'
  BY DEF IntactInv
<1>1. /\ UNCHANGED <<receiver_vars, highest, sent>> /\ intact /\ Len(net) \in Nat /\ Len(net') = Len(net) + 1
      /\ \A i \in 1 .. Len(net) : net'[i] = net[i]
  BY FifoNetwork, InFlight
<1>2. ASSUME NEW s \in highest' + 1 .. sent' - 1
      PROVE  \E i \in 1 .. Len(net') : IsData(net'[i]) /\ net'[i].seq_num = s
  <2>1. PICK i \in 1 .. Len(net) : IsData(net[i]) /\ net[i].seq_num = s
    BY <1>1 DEF IntactInv
  <2>2. i \in 1 .. Len(net') /\ net'[i] = net[i]
    BY <1>1
  <2> QED BY <2>1, <2>2
<1> QED BY <1>1, <1>2 DEF IntactInv, receiver_vars

\* As long as nothing is lost the packet that arrives is the one expected, and its
\* measurement is not skipped.
LEMMA NextArrives ==
  ASSUME Fifo, BaseInv, AheadInv, OrderInv, IntactInv, TakePacket, intact, NEW p, p = Head(net), IsData(p)
  PROVE  p.seq_num = highest + 1 /\ seq = p.seq_num /\ seq' = p.seq_num + 1 /\ p.seq_num \in Nat
<1>1. /\ p \in Headers /\ p.type \in {"DATA", "BURST"} /\ HeadData(p)
      /\ highest < p.seq_num /\ p.seq_num < sent
      /\ ~OutOfOrder(p) /\ CountRate(p) /\ MarkArrival(p)
      /\ (p.type = "BURST" /\ RecvBurst(p)) \/ (p.type = "DATA" /\ RecvPlain(p))
  BY FifoArrives
<1>2. p.seq_num \in Nat /\ highest \in Int /\ highest >= -1 /\ sent \in Nat /\ seq = highest + 1
  BY <1>1, ArrivalOf DEF OrderInv, RingOrder, BaseInv, SenderInv, IntactInv
<1>3. p.seq_num = highest + 1
  <2>1. PICK i \in 1 .. Len(net) : IsData(net[i]) /\ net[i].seq_num = highest + 1
    BY <1>1, <1>2 DEF IntactInv
  <2>2. p = net[1] /\ Len(net) \in Nat \ {0}
    BY PacketArrives DEF TakePacket, Receive
  <2>3. i > 1 => p.seq_num < net[i].seq_num
    <3>1. i > 1 => 1 \in 1 .. Len(net) /\ i \in 1 + 1 .. Len(net)
      BY <2>2
    <3> QED BY <2>1, <2>2, <3>1 DEF OrderInv, NetOrder
  <2> QED BY <1>1, <1>2, <2>1, <2>2, <2>3
<1>4. ASSUME RecvPlain(p) PROVE ~SampleMissing(p)
  <2> SUFFICES ASSUME SampleMissing(p) PROVE FALSE
    OBVIOUS
  <2> DEFINE q == p.seq_num
             first == q - (IF pred_mode = 0 THEN 1 ELSE BURST_SIZE - 1)
  <2>1. NumAtRate(p) <= q + 1 /\ NumAtRate(p) \in Nat
    BY <1>2, <1>3 DEF NumAtRate, IntactInv, BaseInv, TypeOK
  <2>2. NumAtRate(p) >= IF pred_mode = 0 THEN 2 ELSE BURST_SIZE
    BY DEF SampleMissing, WindowFull
  <2>3. first \in seq - BURST_SIZE .. seq - 1 /\ first >= 0
    BY <1>2, <1>3, <2>1, <2>2
  <2>4. FirstSlot(p) = first % BURST_SIZE
    <3>1. CASE pred_mode = 0
      BY <3>1 DEF FirstSlot
    <3>2. CASE pred_mode # 0
      <4> HIDE DEF q
      <4>1. q \in Nat
        BY <1>2 DEF q
      <4>2. first \in Int /\ first + BURST_SIZE = q + 1
        BY <3>2, <4>1
      <4>3. (first + BURST_SIZE) % BURST_SIZE = first % BURST_SIZE
        BY <4>2, ModAdd
      <4> QED BY <3>2, <4>2, <4>3 DEF FirstSlot, q
    <3> QED BY <3>1, <3>2
  <2> HIDE DEF first
  <2>5. received[first % BURST_SIZE] = 1
    BY <2>3 DEF IntactInv
  <2>6. first % BURST_SIZE \in Slots
    <3>1. first \in Int
      BY <1>2, <2>3
    <3>2. first % BURST_SIZE \in 0 .. BURST_SIZE - 1
      BY <3>1, ModRange
    <3> QED BY <3>2 DEF Slots
  <2>7. Skipped(p) = {}
    BY <1>2, <1>3 DEF Skipped
  <2>8. received'[first % BURST_SIZE] = 1
    BY <1>1, <2>5, <2>6, <2>7 DEF MarkArrival
  <2> QED BY <2>4, <2>8 DEF SampleMissing
<1>5. seq' = p.seq_num + 1
  <2>1. CASE RecvBurst(p)
    BY <1>1, <2>1, BurstKeepsArrays
  <2>2. CASE RecvPlain(p)
    BY <1>1, <1>4, <2>2, PlainOutcome
  <2> QED BY <1>1, <2>1, <2>2
<1> QED BY <1>2, <1>3, <1>5

LEMMA ReceiveKeepsIntact ==
  ASSUME Fifo, BaseInv, AheadInv, OrderInv, IntactInv, TakePacket
  PROVE  IntactInv'
<1> SUFFICES ASSUME intact PROVE IntactInv'
  BY DEF TakePacket, IntactInv
<1> DEFINE p == Head(net)
<1>1. /\ \A i \in 1 .. Len(net') : net'[i] = net[i + 1]
      /\ Len(net') = Len(net) - 1 /\ Len(net) \in Nat \ {0} /\ p = net[1] /\ sent' = sent
  BY PacketArrives DEF TakePacket, Receive
<1>2. /\ ~IsData(p) => UNCHANGED <<highest, rate_state, seq, window, burst_state>>
      /\ IsData(p) =>
           /\ p \in Headers /\ highest' = p.seq_num /\ CountRate(p) /\ MarkArrival(p)
           /\ p.seq_num = highest + 1 /\ seq = p.seq_num /\ seq' = p.seq_num + 1 /\ p.seq_num \in Nat
  BY FifoArrives, NextArrives
<1> HIDE DEF p
<1>3. highest \in Int
  BY DEF BaseInv, TypeOK
<1>4. ASSUME NEW s \in highest' + 1 .. sent' - 1
      PROVE  \E i \in 1 .. Len(net') : IsData(net'[i]) /\ net'[i].seq_num = s
  <2>1. s \in highest + 1 .. sent - 1 /\ (IsData(p) => s # p.seq_num)
    BY <1>1, <1>2, <1>3
  <2>2. PICK i \in 1 .. Len(net) : IsData(net[i]) /\ net[i].seq_num = s
    BY <2>1 DEF IntactInv
  <2>3. i # 1
    BY <1>1, <2>1, <2>2
  <2>4. i - 1 \in 1 .. Len(net') /\ (i - 1) + 1 = i
    BY <1>1, <2>3
  <2>5. net'[i - 1] = net[i]
    BY <1>1, <2>4
  <2> QED BY <2>2, <2>4, <2>5
<1>5. CASE ~IsData(p)
  BY <1>2, <1>4, <1>5 DEF IntactInv
<1>6. CASE IsData(p)
  <2> DEFINE q == p.seq_num
  <2>1. q \in Nat /\ seq = q /\ seq' = q + 1 /\ highest' = q
    BY <1>2, <1>6
  <2>2. numAtCurRate' <= seq'
    BY <1>2, <1>6 DEF CountRate, NumAtRate, IntactInv, BaseInv, TypeOK
  <2>3. /\ received' = [i \in Slots |-> IF i = q % BURST_SIZE THEN 1 ELSE IF i \in Skipped(p) THEN 0 ELSE received[i]]
        /\ arrivals' = [arrivals EXCEPT ![q % BURST_SIZE] = Arrival(p)]
        /\ Arrival(p).seq = q
    BY <1>2, <1>6, ArrivalOf DEF MarkArrival
  <2>4. Skipped(p) = {}
    BY <2>1 DEF Skipped
  <2> HIDE DEF q
  <2>5. ASSUME NEW s \in seq' - BURST_SIZE .. seq' - 1, s >= 0
        PROVE  received'[s % BURST_SIZE] = 1 /\ arrivals'[s % BURST_SIZE].seq = s
    <3> DEFINE slot == s % BURST_SIZE  own == q % BURST_SIZE
    <3>1. s \in Int /\ BURST_SIZE \in Nat \ {0} /\ s <= q /\ q - s < BURST_SIZE /\ q \in Int
      BY <2>1
    <3>2. slot \in Slots /\ own \in Slots
      <4>1. slot \in 0 .. BURST_SIZE - 1 /\ own \in 0 .. BURST_SIZE - 1
        BY <3>1, ModRange
      <4> QED BY <4>1 DEF Slots
    <3>3. slot = own => s = q
      <4>1. s - q < BURST_SIZE
        BY <3>1
      <4> QED BY <3>1, <4>1, ModEq
    <3> HIDE DEF slot, own
    <3>4. arrivals \in [Slots -> ArrivalRecord]
      BY DEF BaseInv, TypeOK
    <3>5. /\ received' = [i \in Slots |-> IF i = own THEN 1 ELSE received[i]]
          /\ arrivals' = [arrivals EXCEPT ![own] = Arrival(p)]
      BY <2>3, <2>4 DEF own
    <3>6. CASE slot = own
      <4>1. received'[slot] = 1 /\ arrivals'[slot].seq = s
        BY <2>3, <3>2, <3>3, <3>4, <3>5, <3>6
      <4> QED BY <4>1 DEF slot
    <3>7. CASE slot # own
      <4>1. s # q
        BY <3>7 DEF slot, own
      <4>2. s \in seq - BURST_SIZE .. seq - 1
        BY <2>1, <3>1, <4>1
      <4>3. received[slot] = 1 /\ arrivals[slot].seq = s
        BY <2>5, <4>2 DEF IntactInv, slot
      <4>4. received'[slot] = 1 /\ arrivals'[slot].seq = s
        BY <3>2, <3>4, <3>5, <3>7, <4>3
      <4> QED BY <4>4 DEF slot
    <3> QED BY <3>6, <3>7
  <2> QED BY <1>4, <2>1, <2>2, <2>5 DEF IntactInv
<1> QED BY <1>5, <1>6

LEMMA IntactHolds ==
  ASSUME Fifo
  PROVE  Spec => []IntactInv
<1>1. Init => IntactInv
  BY DEF Init, ReceiverInit, Sender!Init, IntactInv
<1>2. BaseInv /\ AheadInv /\ OrderInv /\ IntactInv /\ [Next]_vars => IntactInv'
  <2> SUFFICES ASSUME BaseInv, AheadInv, OrderInv, IntactInv, [Next]_vars PROVE IntactInv'
    OBVIOUS
  <2>1. CASE SenderStep
    BY <2>1, SenderKeepsIntact
  <2>2. CASE NetworkStep
    BY <2>2, NetworkKeepsIntact
  <2>3. CASE TakePacket
    BY <2>3, ReceiveKeepsIntact
  <2>4. CASE OtherReceiverStep \/ UNCHANGED vars
    <3>1. UNCHANGED <<net, highest, intact, sent, seq, window, rate_state>>
      BY <2>4 DEF OtherReceiverStep, RecvTimeout, ReceiverStops, stop_receiving_thread, vars, receiver_vars
    <3> QED BY <3>1 DEF IntactInv
  <2> QED BY <2>1, <2>2, <2>3, <2>4 DEF Next, NetworkStep
<1> QED BY <1>1, <1>2, BaseHolds, AheadHolds, OrderHolds, PTL DEF Spec

\* "whether we have received a packet in window": where the network keeps the order, and
\* until it loses the first packet, a packet of the window is marked as received exactly
\* when its arrival was recorded.
THEOREM ReceivedStaysTrue ==
  ASSUME Fifo
  PROVE  Spec => []ReceivedIsTrue
<1>1. IntactInv => ReceivedIsTrue
  BY DEF IntactInv, ReceivedIsTrue
<1> QED BY <1>1, IntactHolds, PTL

\* The packet that came last, and the packets of its burst that came with it.
Latest == arrivals[highest % BURST_SIZE]

BurstIntact ==
  intact =>
    /\ highest = -1 => ~burst
    /\ highest >= 0 => burst = (Latest.type = "BURST")
    /\ highest >= 0 /\ burst =>
         /\ bStart = 0 /\ bEnd >= highest - Latest.start
         /\ \A i \in 0 .. highest - Latest.start :
              barrivals[i].start = Latest.start /\ barrivals[i].seq = Latest.start + i

AllInv == BaseInv /\ SeenInv /\ AheadInv /\ OrderInv /\ IntactInv

\* The ring knows the packet that came last.
LEMMA LatestKnown ==
  ASSUME AllInv, intact, highest >= 0
  PROVE  /\ Latest \in Seen /\ Latest.seq = highest /\ Latest.type \in {"DATA", "BURST"}
         /\ highest % BURST_SIZE \in Slots
<1>1. highest \in Int /\ seq = highest + 1 /\ BURST_SIZE \in Nat \ {0}
  BY DEF AllInv, BaseInv, TypeOK, IntactInv
<1>2. highest % BURST_SIZE \in Slots
  <2>1. highest % BURST_SIZE \in 0 .. BURST_SIZE - 1
    BY <1>1, ModRange
  <2> QED BY <2>1 DEF Slots
<1>3. highest \in seq - BURST_SIZE .. seq - 1
  BY <1>1
<1>4. received[highest % BURST_SIZE] = 1 /\ arrivals[highest % BURST_SIZE].seq = highest
  BY <1>3 DEF AllInv, IntactInv
<1>5. arrivals[highest % BURST_SIZE].type \in {"DATA", "BURST"}
  BY <1>2, <1>4 DEF AllInv, OrderInv, RingOrder
<1> QED BY <1>2, <1>4, <1>5 DEF Latest, Seen

\* A burst that plain data follows is whole in its array.
LEMMA WholeBurst ==
  ASSUME AllInv, BurstIntact, intact, burst, NEW a \in Seen, a.type = "DATA", a.seq = highest + 1
  PROVE  /\ a.seq = Latest.start + BURST_SIZE /\ Latest.start \in Nat /\ bStart = 0 /\ bEnd = BURST_SIZE - 1
         /\ barrivals[0].start = Latest.start /\ barrivals[0].seq = Latest.start
         /\ barrivals[BURST_SIZE - 1].start = Latest.start
         /\ barrivals[BURST_SIZE - 1].seq = Latest.start + BURST_SIZE - 1
<1>1. highest \in Int /\ highest >= 0
  BY DEF AllInv, BaseInv, TypeOK, OrderInv, RingOrder, SenderInv, BurstIntact
<1>2. Latest.type = "BURST" /\ Latest \in Seen /\ Latest.seq = highest
  BY <1>1, LatestKnown DEF BurstIntact
<1>3. Latest.start \in Nat /\ highest \in Latest.start .. Latest.start + BURST_SIZE - 1
  BY <1>2 DEF AllInv, SeenInv, Placed
<1>4. a.seq < Latest.start \/ a.seq >= Latest.start + BURST_SIZE
  BY <1>2 DEF AllInv, SeenInv, Apart
<1>5. highest = Latest.start + BURST_SIZE - 1
  BY <1>1, <1>3, <1>4
<1>6. bStart = 0 /\ bEnd >= BURST_SIZE - 1 /\ bEnd <= BURST_SIZE - 1 /\ bEnd \in Int
  <2>1. bStart = 0 /\ bEnd >= highest - Latest.start
    BY <1>1 DEF BurstIntact
  <2>2. bEnd \in 0 .. BURST_SIZE - 1
    BY <2>1 DEF AllInv, BaseInv, IndicesSafe
  <2> QED BY <1>3, <1>5, <2>1, <2>2
<1>7. \A i \in 0 .. BURST_SIZE - 1 :
        barrivals[i].start = Latest.start /\ barrivals[i].seq = Latest.start + i
  <2>1. highest - Latest.start = BURST_SIZE - 1
    BY <1>3, <1>5
  <2> QED BY <1>1, <2>1 DEF BurstIntact
<1>8. 0 \in 0 .. BURST_SIZE - 1 /\ BURST_SIZE - 1 \in 0 .. BURST_SIZE - 1
  OBVIOUS
<1> QED BY <1>1, <1>3, <1>5, <1>6, <1>7, <1>8

LEMMA ReceiveKeepsBurst ==
  ASSUME Fifo, AllInv, BurstIntact, TakePacket
  PROVE  BurstIntact'
<1> SUFFICES ASSUME intact PROVE BurstIntact'
  BY DEF TakePacket, BurstIntact
<1> DEFINE p == Head(net)
<1>1. /\ ~IsData(p) => UNCHANGED <<highest, rate_state, seq, window, burst_state>>
      /\ IsData(p) =>
           /\ p \in Headers /\ HeadData(p) /\ highest' = p.seq_num /\ MarkArrival(p) /\ ~OutOfOrder(p)
           /\ (p.type = "BURST" /\ RecvBurst(p)) \/ (p.type = "DATA" /\ RecvPlain(p))
           /\ p.seq_num = highest + 1 /\ p.seq_num \in Nat
  BY FifoArrives, NextArrives DEF AllInv
<1>2. IsData(p) => Arrival(p) \in Seen
  <2>1. 1 \in 1 .. Len(net) /\ p = net[1]
    BY PacketArrives DEF AllInv, TakePacket, Receive
  <2> QED BY <2>1 DEF Seen
<1> HIDE DEF p
<1>3. CASE ~IsData(p)
  BY <1>1, <1>3 DEF BurstIntact, Latest
<1>4. CASE IsData(p)
  <2>1. Latest' = Arrival(p)
    BY <1>1, <1>4, RingMarked DEF AllInv, Latest
  <2>2. /\ Arrival(p).seq = p.seq_num /\ Arrival(p).type = p.type /\ Arrival(p).start = p.burst_start
        /\ highest' \in Nat /\ highest \in Int /\ highest >= -1 /\ p.burst_start \in Nat
    BY <1>1, <1>4, ArrivalOf DEF AllInv, BaseInv, TypeOK, OrderInv, RingOrder
  <2>3. CASE p.type = "DATA" /\ RecvPlain(p)
    <3>1. burst' = FALSE
      <4>1. EndBurst
        BY <2>3 DEF RecvPlain
      <4>2. CASE burst
        <5>1. bStart = 0 /\ bEnd = BURST_SIZE - 1
          BY <1>1, <1>2, <1>4, <2>2, <2>3, <4>2, WholeBurst
        <5>2. BurstMeasured
          BY <4>2, <5>1 DEF BurstMeasured
        <5> QED BY <4>1, <5>2 DEF EndBurst, ResetBurst
      <4>3. CASE ~burst
        BY <4>1, <4>3 DEF EndBurst, ResetBurst, BurstMeasured, AllInv, BaseInv, TypeOK
      <4> QED BY <4>2, <4>3
    <3> QED BY <2>1, <2>2, <2>3, <3>1 DEF BurstIntact
  <2>4. CASE p.type = "BURST" /\ RecvBurst(p)
    <3> DEFINE index == p.seq_num - p.burst_start
    <3>1. /\ burst' = TRUE /\ index \in Slots /\ barrivals' = [barrivals EXCEPT ![index] = Arrival(p)]
          /\ Widen(index)
      BY <1>1, <1>4, <2>4, BurstKeepsArrays DEF AllInv
    <3>2. barrivals \in [Slots -> ArrivalRecord] /\ IndicesSafe
      BY DEF AllInv, BaseInv, TypeOK
    <3>3. highest' - Latest'.start = index /\ index \in Nat
      BY <1>1, <1>4, <2>1, <2>2, <3>1 DEF Slots
    <3>4. index > 0 =>
            /\ burst /\ highest >= 0 /\ Latest.start = p.burst_start /\ highest - Latest.start = index - 1
      <4> SUFFICES ASSUME index > 0
                   PROVE  /\ burst /\ highest >= 0 /\ Latest.start = p.burst_start
                          /\ highest - Latest.start = index - 1
        OBVIOUS
      <4>1. highest >= 0 /\ p.burst_start <= highest /\ highest < p.burst_start + BURST_SIZE
        BY <1>1, <1>4, <2>2, <3>1 DEF Slots
      <4>2. Latest \in Seen /\ Latest.seq = highest /\ Latest.type \in {"DATA", "BURST"}
        BY <4>1, LatestKnown
      <4>3. Latest.type = "BURST"
        BY <1>2, <1>4, <2>2, <2>4, <4>1, <4>2 DEF AllInv, SeenInv, Apart
      <4>4. Latest.start \in Nat /\ highest \in Latest.start .. Latest.start + BURST_SIZE - 1
        BY <4>2, <4>3 DEF AllInv, SeenInv, Placed
      <4>5. \/ p.burst_start = Latest.start
            \/ p.burst_start + BURST_SIZE <= Latest.start
            \/ Latest.start + BURST_SIZE <= p.burst_start
        BY <1>2, <1>4, <2>2, <2>4, <4>2, <4>3 DEF AllInv, SeenInv, Apart
      <4>6. Latest.start = p.burst_start
        BY <2>2, <4>1, <4>4, <4>5
      <4>7. burst
        BY <4>1, <4>3 DEF BurstIntact
      <4> QED BY <1>1, <1>4, <2>2, <4>1, <4>6, <4>7
    <3> HIDE DEF index
    <3>5. bStart' = (IF index < bStart THEN index ELSE bStart) /\ bEnd' = (IF index > bEnd THEN index ELSE bEnd)
      BY <3>1 DEF Widen
    <3>6. bStart \in Nat /\ bEnd \in Int
      BY <3>2 DEF IndicesSafe, Slots
    <3>7. index > 0 => bStart = 0
      BY <3>4 DEF BurstIntact
    <3>8. bStart' = 0 /\ bEnd' >= index
      BY <3>3, <3>5, <3>6, <3>7
    <3>9. ASSUME NEW i \in 0 .. index
          PROVE  barrivals'[i].start = p.burst_start /\ barrivals'[i].seq = p.burst_start + i
      <4>1. CASE i = index
        <5>1. barrivals'[i] = Arrival(p)
          BY <3>1, <3>2, <4>1
        <5>2. p.burst_start + index = p.seq_num
          BY <1>1, <1>4, <2>2 DEF index
        <5> QED BY <2>2, <4>1, <5>1, <5>2
      <4>2. CASE i # index
        <5>1. index > 0 /\ i \in 0 .. index - 1 /\ i \in Slots
          BY <3>1, <3>3, <4>2 DEF Slots
        <5>2. barrivals'[i] = barrivals[i]
          BY <3>1, <3>2, <4>2, <5>1
        <5>3. i \in 0 .. highest - Latest.start /\ highest >= 0 /\ burst /\ Latest.start = p.burst_start
          BY <3>4, <5>1
        <5>4. barrivals[i].start = Latest.start /\ barrivals[i].seq = Latest.start + i
          BY <5>3 DEF BurstIntact
        <5> QED BY <5>2, <5>3, <5>4
      <4> QED BY <4>1, <4>2
    <3>10. Latest'.start = p.burst_start /\ Latest'.type = "BURST"
      BY <2>1, <2>2, <2>4
    <3>11. burst' = (Latest'.type = "BURST")
      BY <3>1, <3>10
    <3>12. \A i \in 0 .. highest' - Latest'.start :
             barrivals'[i].start = Latest'.start /\ barrivals'[i].seq = Latest'.start + i
      BY <3>3, <3>9, <3>10
    <3>13. bStart' = 0 /\ bEnd' >= highest' - Latest'.start /\ highest' # -1
      BY <2>2, <3>3, <3>8
    <3> QED BY <3>11, <3>12, <3>13, Zenon DEF BurstIntact
  <2> QED BY <1>1, <1>4, <2>3, <2>4
<1> QED BY <1>3, <1>4

LEMMA AllHolds ==
  ASSUME Fifo
  PROVE  Spec => []AllInv
BY BaseHolds, SeenHolds, AheadHolds, OrderHolds, IntactHolds, PTL DEF AllInv

LEMMA BurstHolds ==
  ASSUME Fifo
  PROVE  Spec => []BurstIntact
<1>1. Init => BurstIntact
  BY DEF Init, ReceiverInit, BurstIntact
<1>2. AllInv /\ BurstIntact /\ [Next]_vars => BurstIntact'
  <2> SUFFICES ASSUME AllInv, BurstIntact, [Next]_vars PROVE BurstIntact'
    OBVIOUS
  <2>1. CASE TakePacket
    BY <2>1, ReceiveKeepsBurst
  <2>2. CASE ~TakePacket
    <3>1. UNCHANGED <<highest, window, burst_state>> /\ (intact' => intact)
      <4>1. CASE SenderStep
        BY <4>1 DEF SenderStep, receiver_vars
      <4>2. CASE NetworkStep
        <5>1. UNCHANGED receiver_vars /\ UNCHANGED highest
          BY <4>2, FifoNetwork DEF AllInv
        <5>2. intact' = intact \/ intact' = FALSE
          BY <4>2, FifoNetwork, Zenon DEF AllInv
        <5>3. intact' => intact
          BY <5>2, Zenon
        <5> QED BY <5>1, <5>3 DEF receiver_vars
      <4>3. CASE OtherReceiverStep \/ UNCHANGED vars
        BY <4>3 DEF OtherReceiverStep, RecvTimeout, ReceiverStops, stop_receiving_thread, vars, receiver_vars
      <4> QED BY <2>2, <4>1, <4>2, <4>3 DEF Next, NetworkStep
    <3> QED BY <3>1 DEF BurstIntact, Latest
  <2> QED BY <2>1, <2>2
<1> QED BY <1>1, <1>2, AllHolds, PTL DEF Spec

\* "First and last sequence numbers we receive": where the network keeps the order, and
\* as long as it loses nothing, both ends of every measured burst belong to the same
\* burst, also where the next one follows at once, and the report comes on the packet
\* that follows it.
THEOREM BurstsAreWhole ==
  ASSUME Fifo
  PROVE  Spec => []MeasuresOneBurst
<1>1. Init => MeasuresOneBurst
  BY DEF Init, MeasuresOneBurst, Reports, ToSet
<1>2. AllInv /\ BurstIntact /\ Next => MeasuresOneBurst'
  <2> SUFFICES ASSUME AllInv, BurstIntact, Next, NEW r \in ToSet(replies'), r.type = "BURST_REPORT", intact'
               PROVE  /\ r.from.start = r.to.start
                      /\ r.to.seq - r.from.seq = r.span
                      /\ r.seq_num = r.to.start + BURST_SIZE
    BY DEF MeasuresOneBurst, Reports
  <2> DEFINE p == Head(net)
  <2>1. TakePacket /\ RecvPlain(p) /\ p \in Headers /\ r = BurstReport(p) /\ BurstMeasured
    BY ReportsOf DEF AllInv
  <2>2. intact /\ IsData(p)
    BY <2>1 DEF TakePacket, RecvPlain, IsData
  <2>3. p.type = "DATA" /\ p.seq_num = highest + 1
    BY <2>1, <2>2, FifoArrives, NextArrives DEF AllInv, RecvPlain
  <2>4. Arrival(p) \in Seen
    <3>1. 1 \in 1 .. Len(net) /\ p = net[1]
      BY <2>1, PacketArrives DEF AllInv, TakePacket, Receive
    <3> QED BY <2>2, <3>1 DEF Seen
  <2> HIDE DEF p
  <2>5. Arrival(p).type = "DATA" /\ Arrival(p).seq = highest + 1
    BY <2>1, <2>3, ArrivalOf
  <2>6. /\ highest + 1 = Latest.start + BURST_SIZE /\ Latest.start \in Nat /\ bStart = 0 /\ bEnd = BURST_SIZE - 1
        /\ barrivals[0].start = Latest.start /\ barrivals[0].seq = Latest.start
        /\ barrivals[BURST_SIZE - 1].start = Latest.start
        /\ barrivals[BURST_SIZE - 1].seq = Latest.start + BURST_SIZE - 1
    BY <2>1, <2>2, <2>4, <2>5, WholeBurst DEF BurstMeasured
  <2>7. /\ r.seq_num = p.seq_num /\ r.from = barrivals[bStart] /\ r.to = barrivals[bEnd]
        /\ r.span = bEnd - bStart
    BY <2>1 DEF BurstReport, Report
  <2> QED BY <2>3, <2>6, <2>7
<1>3. UNCHANGED vars /\ MeasuresOneBurst => MeasuresOneBurst'
  BY DEF vars, history, MeasuresOneBurst, Reports
<1> QED BY <1>1, <1>2, <1>3, AllHolds, BurstHolds, PTL DEF Spec
================================================================================
