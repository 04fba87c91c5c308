-------------------------------- MODULE Pacing ----------------------------------
(***************************************************************************)
(* The data generator's clock: start_generator() of data_generator.c once  *)
(* it was told to start.                                                   *)
(*                                                                         *)
(* It counts one packet per interval of the current speed.  select() may   *)
(* return late, and a LOCAL_CONTROL makes it wait all over; the generator  *)
(* then counts the packets that are late at once, and shortens the next    *)
(* wait by what is left.  Times are in ticks, for microseconds, and        *)
(* diffTime() and gtTime() are Minus and >: TimevalsAgree says that they   *)
(* are on the timevals of these times.                                     *)
(*                                                                         *)
(* Clock readings and the sending itself take no time of their own.        *)
(***************************************************************************)
EXTENDS TimeVal

CONSTANTS
  Intervals,   \* speed_to_interval(speed), of the speeds that may be set
  MaxLate,     \* bound: how late select() may return
  MaxTime      \* bound: how long the run lasts

ASSUME PacingAssumption ==
  /\ Intervals \subseteq Nat \ {0}
  /\ MaxLate \in Nat
  /\ MaxTime \in Nat

VARIABLES
  pc,                \* "wait", or "late" in the loop that catches up
  tmNow,             \* the clock
  asleep,            \* when select() was called
  tmPrev,            \* when the last packet was sent
  expectedTimeout,
  baseTimeout,       \* speed_to_interval(speed)
  tmExtra,
  seq,               \* packets counted
  due,               \* history: when the next packet is due
  held               \* history: the waiting since the last packet that LOCAL_CONTROLs undid

timers == <<asleep, tmPrev, expectedTimeout, tmExtra>>
vars == <<pc, tmNow, timers, baseTimeout, seq, due, held>>

\* LOCAL_START has just come.
Init ==
  /\ pc = "wait"
  /\ tmNow = 0 /\ asleep = 0 /\ tmPrev = 0 /\ tmExtra = 0
  /\ baseTimeout \in Intervals
  /\ expectedTimeout = baseTimeout
  /\ seq = 0
  /\ due = 0
  /\ held = 0

\* When select() times out, unless a LOCAL_CONTROL comes before.
WaitEnds == asleep + expectedTimeout

Tick ==
  /\ pc = "wait"
  /\ tmNow < MaxTime
  /\ tmNow < WaitEnds + MaxLate
  /\ tmNow' = tmNow + 1
  /\ UNCHANGED <<pc, timers, baseTimeout, seq, due, held>>

\* LOCAL_CONTROL sets the speed; the wait starts again with the same timeout, and
\* what was waited so far is undone.
Control ==
  /\ pc = "wait"
  /\ baseTimeout' \in Intervals
  /\ asleep' = tmNow
  /\ held' = held + (tmNow - asleep)
  /\ UNCHANGED <<pc, tmNow, tmPrev, expectedTimeout, tmExtra, seq, due>>

\* The wait is over.
TimeIsUp == pc = "wait" /\ tmNow >= WaitEnds

\* Nothing to catch up with before the first packet.
FirstPacket ==
  /\ TimeIsUp
  /\ seq = 0
  /\ seq' = 1
  /\ tmPrev' = tmNow
  /\ asleep' = tmNow
  /\ due' = tmNow + expectedTimeout
  /\ held' = 0
  /\ UNCHANGED <<pc, tmNow, expectedTimeout, tmExtra, baseTimeout>>

\* "Account for kernel returning from select loop late"
NextPacket ==
  /\ TimeIsUp
  /\ seq > 0
  /\ pc' = "late"
  /\ tmExtra' = Minus(Minus(tmNow, tmPrev), expectedTimeout)
  /\ UNCHANGED <<tmNow, asleep, tmPrev, expectedTimeout, baseTimeout, seq, due, held>>

\* Mutants of CatchesUp: one packet is made up at most; whatever time is left
\* makes one up.
CatchesUpMore == tmExtra > 0
CatchesUpOnce == tmExtra > baseTimeout /\ tmExtra = Minus(Minus(tmNow, tmPrev), expectedTimeout)

\* The condition of the while loop.
CatchesUp == tmExtra > baseTimeout

\* A packet that is late counts, and its interval has passed.
LatePacket ==
  /\ pc = "late"
  /\ CatchesUp
  /\ seq' = seq + 1
  /\ tmExtra' = Minus(tmExtra, baseTimeout)
  /\ due' = due + baseTimeout
  /\ UNCHANGED <<pc, tmNow, asleep, tmPrev, expectedTimeout, baseTimeout, held>>

\* Mutant of NextTimeout: what is left is not taken off.
NextTimeoutFull == baseTimeout

NextTimeout == Minus(baseTimeout, tmExtra)

\* Back to select(), for what is left of the interval.
Resume ==
  /\ pc = "late"
  /\ ~CatchesUp
  /\ pc' = "wait"
  /\ expectedTimeout' = NextTimeout
  /\ seq' = seq + 1
  /\ tmPrev' = tmNow
  /\ asleep' = tmNow
  /\ due' = due + baseTimeout
  /\ held' = 0
  /\ UNCHANGED <<tmNow, tmExtra, baseTimeout>>

Next == Tick \/ Control \/ FirstPacket \/ NextPacket \/ LatePacket \/ Resume

Spec == Init /\ [][Next]_vars

--------------------------------------------------------------------------------
(* Properties. *)

TypeOK ==
  /\ pc \in {"wait", "late"}
  /\ tmNow \in Nat /\ asleep \in Nat /\ tmPrev \in Nat
  /\ expectedTimeout \in Nat /\ tmExtra \in Nat
  /\ baseTimeout \in Intervals
  /\ seq \in Nat /\ due \in Nat /\ held \in Nat

\* However late select() returns, and whatever the speeds were, nothing is lost of
\* the schedule: when a wait begins after a packet no other is overdue, and it ends
\* when the next is due, the sum of the intervals of all packets before it, or
\* later by exactly what LOCAL_CONTROLs made it wait again.  These can hold up a
\* packet for as long as they keep coming.
OnSchedule ==
  pc = "wait" /\ seq > 0 => WaitEnds = due + held /\ tmPrev <= due

\* "WARNING: diffTime has negative result!": no subtraction is cut off at 0.
NoNegativeTime ==
  /\ pc = "late" => tmExtra + expectedTimeout + tmPrev <= tmNow
  /\ TimeIsUp => tmPrev + expectedTimeout <= tmNow
  /\ pc = "late" /\ ~CatchesUp => tmExtra <= baseTimeout

\* The code computes with seconds and microseconds: borrow and carry make no
\* difference to any time it subtracts or compares.
TimevalsAgree ==
  \A a, b \in {tmNow, tmPrev, expectedTimeout, baseTimeout, tmExtra} :
    LET left == FromUsec(a)  right == FromUsec(b)
    IN  /\ diffTime(left, right) \in TimeVals
        /\ Usec(diffTime(left, right)) = Minus(a, b)
        /\ gtTime(left, right) <=> a > b

\* No packet is counted before it is due, however many are made up.
NeverEarly == [][seq > 0 /\ seq' # seq => due <= tmNow]_vars
================================================================================
