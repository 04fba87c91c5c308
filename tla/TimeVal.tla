-------------------------------- MODULE TimeVal ---------------------------------
(***************************************************************************)
(* Arithmetic on struct timeval, from bandwidth_utils.c.                   *)
(***************************************************************************)
EXTENDS Integers

CONSTANT SECOND     \* microseconds in a second: 1000000

ASSUME SecondAssumption == SECOND \in Nat \ {0}

\* What gettimeofday() and select() use: less than a second of microseconds.
TimeVals == [tv_sec : Nat, tv_usec : 0 .. SECOND - 1]

\* The microseconds of a timeval, as interval_to_speed() counts them.
Usec(t) == t.tv_sec * SECOND + t.tv_usec

\* The timeval of so many microseconds, as speed_to_interval() returns it.
FromUsec(usec) == [tv_sec |-> usec \div SECOND, tv_usec |-> usec % SECOND]

\* Mutant of diffTime: the borrowed second is not taken from the seconds.
diffTimeNoCarry(left, right) ==
  LET usec == left.tv_usec - right.tv_usec
      sec == left.tv_sec - right.tv_sec
  IN  IF sec < 0 THEN FromUsec(0)
      ELSE [tv_sec |-> sec, tv_usec |-> IF usec < 0 THEN usec + SECOND ELSE usec]

\* left - right, or nothing when that is negative.
diffTime(left, right) ==
  LET borrow == IF left.tv_usec < right.tv_usec THEN 1 ELSE 0
      sec == left.tv_sec - right.tv_sec - borrow
  IN  IF sec < 0
      THEN [tv_sec |-> 0, tv_usec |-> 0]
      ELSE [tv_sec |-> sec, tv_usec |-> left.tv_usec - right.tv_usec + borrow * SECOND]

gtTime(left, right) ==
  \/ left.tv_sec > right.tv_sec
  \/ left.tv_sec = right.tv_sec /\ left.tv_usec > right.tv_usec

\* Subtraction of natural numbers, which is what diffTime implements.
Minus(a, b) == IF a > b THEN a - b ELSE 0
================================================================================
