------------------------------ MODULE SwapMath ------------------------------
(***************************************************************************)
(* The arithmetic of a trade.  The adapter and the executor compute the    *)
(* minimum output of a swap, the estimate of its price impact and random   *)
(* amounts on bigints, whose division truncates; every operand here is a   *)
(* natural number, for which that is \div.  The cap on what a swap spends  *)
(* goes through doubles.                                                   *)
(***************************************************************************)
EXTENDS Integers

CONSTANT
  Precision  \* the doubles of the cap are right to one part in this many: 2^51

ASSUME PrecisionOK == Precision \in Nat \ {0}

BPS == 10000

\* What the swap must pay at least: the quote less the slippage tolerated.
MinOut(out, slippage) == (out * (BPS - slippage)) \div BPS

\* Amounts up to this many wei get no impact estimate.
Negligible == 100
SmallIn(in) == in \div Negligible

Distance(a, b) == IF a > b THEN a - b ELSE b - a
Least(a, b) == IF a < b THEN a ELSE b

\* How far the full quote is from the quote for a hundredth of it, scaled up.
Marginal(in, outSmall) == (outSmall * in) \div SmallIn(in)
ImpactBps(in, out, outSmall) ==
  IF in <= Negligible \/ Marginal(in, outSmall) = 0
  THEN 0
  ELSE Least(BPS, (Distance(Marginal(in, outSmall), out) * BPS) \div Marginal(in, outSmall))

\* The spend of a purchase in WBNB is cut to the trader's limit.  The amount is
\* compared as Number(in) / 1e18 and cut to Math.floor(limitBNB * 1e18), limit
\* being limitBNB in whole wei: next to the limit either may happen, and the
\* cut amount is off by what the double cannot tell, or short of a wei.
Slack(x) == x \div Precision
Capped(in, limit) ==
  {x \in {in} : in - Slack(in) <= limit}
    \union {x \in limit - Slack(limit) - 1 .. limit + Slack(limit) :
              x >= 0 /\ in + Slack(in) >= limit}

\* The values randomBigIntInclusive may return.
AmountRange(min, max) == IF max <= min THEN {min} ELSE min..max
=============================================================================
