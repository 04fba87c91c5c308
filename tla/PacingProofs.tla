----------------------------- MODULE PacingProofs -------------------------------
(***************************************************************************)
(* diffTime() and gtTime() do what Pacing takes them for, and the          *)
(* generator keeps its schedule, for every set of intervals.               *)
(***************************************************************************)
EXTENDS Pacing, TLAPS

\* A later second outweighs any microseconds.
LEMMA LaterSecond ==
  ASSUME NEW l \in TimeVals, NEW r \in TimeVals, l.tv_sec > r.tv_sec
  PROVE  /\ Usec(l) > Usec(r)
         /\ Usec(l) - Usec(r) = (l.tv_sec - r.tv_sec) * SECOND + l.tv_usec - r.tv_usec
<1> DEFINE d == l.tv_sec - r.tv_sec - 1
<1>1. /\ SECOND \in Nat \ {0} /\ d \in Nat
      /\ l.tv_sec \in Nat /\ r.tv_sec \in Nat
      /\ l.tv_usec \in 0 .. SECOND - 1 /\ r.tv_usec \in 0 .. SECOND - 1
  BY SecondAssumption DEF TimeVals
<1>2. l.tv_sec = r.tv_sec + d + 1
  BY <1>1
<1>3. d * SECOND \in Nat /\ r.tv_sec * SECOND \in Nat
  BY <1>1
<1>4. l.tv_sec * SECOND = r.tv_sec * SECOND + d * SECOND + SECOND
  BY <1>1, <1>2, SMT
<1>5. (l.tv_sec - r.tv_sec) * SECOND = d * SECOND + SECOND
  BY <1>1, <1>2, SMT
<1> HIDE DEF d
<1> QED
  BY <1>1, <1>3, <1>4, <1>5 DEF Usec

\* gtTime() compares the times: which one is later, in microseconds.
THEOREM GtTimeCompares ==
  ASSUME NEW l \in TimeVals, NEW r \in TimeVals
  PROVE  gtTime(l, r) <=> Usec(l) > Usec(r)
<1>1. /\ SECOND \in Nat \ {0} /\ l.tv_sec \in Nat /\ r.tv_sec \in Nat
      /\ l.tv_usec \in 0 .. SECOND - 1 /\ r.tv_usec \in 0 .. SECOND - 1
      /\ l.tv_sec * SECOND \in Nat /\ r.tv_sec * SECOND \in Nat
  BY SecondAssumption DEF TimeVals
<1>2. CASE l.tv_sec > r.tv_sec
  BY <1>1, <1>2, LaterSecond DEF gtTime
<1>3. CASE r.tv_sec > l.tv_sec
  <2>1. Usec(r) > Usec(l)
    BY <1>3, LaterSecond
  <2> QED
    BY <1>1, <1>3, <2>1 DEF gtTime, Usec
<1>4. CASE l.tv_sec = r.tv_sec
  BY <1>1, <1>4 DEF gtTime, Usec
<1> QED
  BY <1>1, <1>2, <1>3, <1>4

\* diffTime() is subtraction that stops at zero, on normal timevals.
THEOREM DiffTimeSubtracts ==
  ASSUME NEW l \in TimeVals, NEW r \in TimeVals
  PROVE  /\ diffTime(l, r) \in TimeVals
         /\ Usec(diffTime(l, r)) = Minus(Usec(l), Usec(r))
<1>1. /\ SECOND \in Nat \ {0} /\ l.tv_sec \in Nat /\ r.tv_sec \in Nat
      /\ l.tv_usec \in 0 .. SECOND - 1 /\ r.tv_usec \in 0 .. SECOND - 1
      /\ l.tv_sec * SECOND \in Nat /\ r.tv_sec * SECOND \in Nat
  BY SecondAssumption DEF TimeVals
<1>2. CASE r.tv_sec > l.tv_sec
  <2>1. Usec(r) > Usec(l)
    BY <1>2, LaterSecond
  <2>2. diffTime(l, r) = [tv_sec |-> 0, tv_usec |-> 0]
    BY <1>1, <1>2 DEF diffTime
  <2> QED
    BY <1>1, <2>1, <2>2 DEF TimeVals, Usec, Minus
<1>3. CASE l.tv_sec = r.tv_sec
  <2>1. CASE l.tv_usec < r.tv_usec
    <3>1. diffTime(l, r) = [tv_sec |-> 0, tv_usec |-> 0]
      BY <1>1, <1>3, <2>1 DEF diffTime
    <3> QED
      BY <1>1, <1>3, <2>1, <3>1 DEF TimeVals, Usec, Minus
  <2>2. CASE ~(l.tv_usec < r.tv_usec)
    <3>1. diffTime(l, r) = [tv_sec |-> 0, tv_usec |-> l.tv_usec - r.tv_usec]
      BY <1>1, <1>3, <2>2 DEF diffTime
    <3> QED
      BY <1>1, <1>3, <2>2, <3>1 DEF TimeVals, Usec, Minus
  <2> QED
    BY <2>1, <2>2
<1>4. CASE l.tv_sec > r.tv_sec
  <2> DEFINE d == l.tv_sec - r.tv_sec
  <2>1. /\ Usec(l) > Usec(r)
        /\ Usec(l) - Usec(r) = d * SECOND + l.tv_usec - r.tv_usec
        /\ Usec(l) \in Nat /\ Usec(r) \in Nat
    BY <1>1, <1>4, LaterSecond DEF Usec
  <2>2. d \in Nat /\ d >= 1 /\ d - 1 \in Nat /\ d * SECOND \in Nat
    BY <1>1, <1>4
  <2>3. (d - 1) * SECOND = d * SECOND - SECOND
    BY <1>1, <2>2, SMT
  <2>4. CASE l.tv_usec < r.tv_usec
    <3>1. diffTime(l, r) = [tv_sec |-> d - 1, tv_usec |-> l.tv_usec - r.tv_usec + SECOND]
      BY <1>1, <1>4, <2>4 DEF diffTime
    <3> HIDE DEF d
    <3> QED
      BY <1>1, <2>1, <2>2, <2>3, <2>4, <3>1 DEF TimeVals, Usec, Minus
  <2>5. CASE ~(l.tv_usec < r.tv_usec)
    <3>1. diffTime(l, r) = [tv_sec |-> d, tv_usec |-> l.tv_usec - r.tv_usec]
      BY <1>1, <1>4, <2>5 DEF diffTime
    <3> HIDE DEF d
    <3> QED
      BY <1>1, <2>1, <2>2, <2>5, <3>1 DEF TimeVals, Usec, Minus
  <2> QED
    BY <2>4, <2>5
<1> QED
  BY <1>1, <1>2, <1>3, <1>4

\* A number of microseconds is that of its timeval.
LEMMA UsecOfTimeval ==
  ASSUME NEW n \in Nat
  PROVE  FromUsec(n) \in TimeVals /\ Usec(FromUsec(n)) = n
<1> DEFINE q == n \div SECOND  r == n % SECOND
<1>1. q \in Nat /\ r \in 0 .. SECOND - 1 /\ n = q * SECOND + r
  BY SecondAssumption, SMT
<1>2. FromUsec(n) = [tv_sec |-> q, tv_usec |-> r]
  BY DEF FromUsec
<1> HIDE DEF q, r
<1> QED
  BY <1>1, <1>2 DEF TimeVals, Usec

--------------------------------------------------------------------------------

\* The schedule, through the loop that catches up: what is left of the lateness
\* is exactly how long the next packet has been due.
Schedule ==
  /\ tmPrev <= asleep /\ asleep <= tmNow
  /\ seq > 0 /\ pc = "wait" => tmPrev + expectedTimeout = due /\ tmPrev + held = asleep
  /\ pc = "late" => seq > 0 /\ tmNow = due + tmExtra /\ tmExtra + expectedTimeout + tmPrev <= tmNow

IndInv == TypeOK /\ Schedule

\* However late select() returns and whenever the speed changes, what is overdue is
\* accounted for.
THEOREM Invariance == Spec => []IndInv
<1>1. Init => IndInv
  BY PacingAssumption DEF Init, IndInv, TypeOK, Schedule
<1>2. IndInv /\ [Next]_vars => IndInv'
  <2> SUFFICES ASSUME IndInv, [Next]_vars PROVE IndInv'
    OBVIOUS
  <2> USE PacingAssumption DEF IndInv, TypeOK, Schedule, timers
  <2>1. CASE Tick
    BY <2>1 DEF Tick
  <2>2. CASE Control
    BY <2>2 DEF Control, WaitEnds
  <2>3. CASE FirstPacket
    BY <2>3 DEF FirstPacket, TimeIsUp, WaitEnds
  <2>4. CASE NextPacket
    BY <2>4 DEF NextPacket, TimeIsUp, WaitEnds, Minus
  <2>5. CASE LatePacket
    BY <2>5 DEF LatePacket, CatchesUp, Minus
  <2>6. CASE Resume
    BY <2>6 DEF Resume, CatchesUp, NextTimeout, Minus
  <2>7. CASE UNCHANGED vars
    BY <2>7 DEF vars
  <2> QED
    BY <2>1, <2>2, <2>3, <2>4, <2>5, <2>6, <2>7 DEF Next
<1> QED
  BY <1>1, <1>2, PTL DEF Spec

\* The schedule is kept: the wait ends when the next packet is due, or later by
\* what LOCAL_CONTROLs made it wait again, and then no packet stays overdue.
THEOREM StaysOnSchedule == Spec => []OnSchedule
<1>1. IndInv => OnSchedule
  BY DEF IndInv, TypeOK, Schedule, OnSchedule, WaitEnds
<1> QED
  BY <1>1, Invariance, PTL

\* diffTime() is never asked for a negative time while the clock runs forward.
THEOREM NeverNegative == Spec => []NoNegativeTime
<1>1. IndInv => NoNegativeTime
  BY PacingAssumption DEF IndInv, TypeOK, Schedule, NoNegativeTime, TimeIsUp, WaitEnds, CatchesUp
<1> QED
  BY <1>1, Invariance, PTL

\* The timevals that the generator computes with are the times of the model.
THEOREM TimevalsAlwaysAgree == Spec => []TimevalsAgree
<1>1. ASSUME TypeOK PROVE TimevalsAgree
  <2> SUFFICES ASSUME NEW a \in Nat, NEW b \in Nat
               PROVE  /\ diffTime(FromUsec(a), FromUsec(b)) \in TimeVals
                      /\ Usec(diffTime(FromUsec(a), FromUsec(b))) = Minus(a, b)
                      /\ gtTime(FromUsec(a), FromUsec(b)) <=> a > b
    BY <1>1, PacingAssumption DEF TypeOK, TimevalsAgree
  <2>1. /\ FromUsec(a) \in TimeVals /\ Usec(FromUsec(a)) = a
        /\ FromUsec(b) \in TimeVals /\ Usec(FromUsec(b)) = b
    BY UsecOfTimeval
  <2> QED
    BY <2>1, DiffTimeSubtracts, GtTimeCompares
<1> QED
  BY <1>1, Invariance, PTL DEF IndInv

\* A packet is never counted before it is due.
THEOREM CountsInTime == Spec => NeverEarly
<1>1. IndInv /\ [Next]_vars => [seq > 0 /\ seq' # seq => due <= tmNow]_vars
  <2> SUFFICES ASSUME IndInv, Next, seq > 0, seq' # seq PROVE due <= tmNow
    OBVIOUS
  <2> QED
    BY PacingAssumption DEF IndInv, TypeOK, Schedule, Next, Tick, Control, FirstPacket,
       NextPacket, LatePacket, Resume, timers
<1> QED
  BY <1>1, Invariance, PTL DEF Spec, NeverEarly
================================================================================
