------------------------------- MODULE Money -------------------------------
(***************************************************************************)
(* The Decimal helpers of api/src/engine/money.py, in whole grains.        *)
(*                                                                         *)
(* An amount of money is an integer number of money grains (the code's     *)
(* 0.0001), a share quantity an integer number of quantity grains, SHARE   *)
(* of them to the share (the code's 0.00000001, so SHARE is 10^8 there).   *)
(* A price is in money grains per share.  A Decimal that is not yet        *)
(* rounded is a fraction, given as numerator and denominator.              *)
(***************************************************************************)
EXTENDS Integers

CONSTANTS SHARE      \* quantity grains in one share

ASSUME ShareAssumption == SHARE \in Nat \ {0}

BPS == 10000

Smaller(a, b) == IF a <= b THEN a ELSE b

Abs(a) == IF a < 0 THEN -a ELSE a

(* Decimal.quantize(MONEY, ROUND_HALF_UP) of the fraction n/d, n >= 0.     *)
money(n, d) == (2 * n + d) \div (2 * d)

(* What `qty` quantity grains are worth at `price`, as stored money.       *)
value_of(qty, price) == money(qty * price, SHARE)

(* `cash` money buys this many quantity grains at `price`, rounded down.   *)
quantity(cash, price) == (cash * SHARE) \div price

(* The same, truncated to whole shares.                                    *)
whole_shares_half_up(cash, price) == money(cash, price) * SHARE
whole_shares(cash, price) == (cash \div price) * SHARE

(* `bps` basis points of `amount`, rounded to money.                       *)
apply_bps(amount, bps) == money(amount * bps, BPS)

(* `part` in basis points of `whole`; 0 when `whole` is 0.                 *)
bps_of(part, whole) == IF whole <= 0 THEN 0 ELSE money(part * BPS, whole)
=============================================================================
