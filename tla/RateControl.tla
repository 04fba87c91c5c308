------------------------------ MODULE RateControl ------------------------------
(***************************************************************************)
(* The rate arithmetic of the sender: adjustRate() of controller.c.        *)
(*                                                                         *)
(* The program's rates are doubles in Mbps.  Here a rate is an integer     *)
(* number of units, OneMbps of them to one Mbps; 0.9 * r is rounded down   *)
(* to a whole unit.  An infinite reported rate (interval_to_speed divides  *)
(* by a zero interval) acts like any reported rate above the largest       *)
(* 10 * (current + OneMbps) \div 9, so it needs no value of its own.       *)
(***************************************************************************)
EXTENDS Integers

CONSTANTS
  MIN_SPEED,   \* params.min_speed
  MAX_SPEED,   \* params.max_speed
  OneMbps      \* how many rate units make 1 Mbps

ASSUME SpeedAssumption ==
  /\ MIN_SPEED \in Nat \ {0}
  /\ MAX_SPEED \in Nat
  /\ MIN_SPEED <= MAX_SPEED
  /\ OneMbps \in Nat \ {0}

Rates == MIN_SPEED .. MAX_SPEED

\* #define BURST_FACTOR 2: bursts are sent at twice the current rate.
BURST_FACTOR == 2

\* The last two assignments of adjustRate(): first the maximum, then the minimum.
ClampRate(r) ==
  LET capped == IF r >= MAX_SPEED THEN MAX_SPEED ELSE r
  IN  IF capped <= MIN_SPEED THEN MIN_SPEED ELSE capped

\* A burst report is trusted up to 90% of what it measured.
Discounted(reported) == (9 * reported) \div 10

\* The rate the sender moves to when the receiver reports a measured rate.
adjustRate(current, reported, burst) ==
  ClampRate(
    IF burst
    THEN IF Discounted(reported) >= current + OneMbps
         THEN current + OneMbps
         ELSE Discounted(reported)
    ELSE IF reported < current THEN reported ELSE current)
================================================================================
