------------------------------ MODULE FixedPoint ------------------------------
(***************************************************************************)
(* The integer arithmetic of programs/poyz/src/math.rs.                    *)
(*                                                                         *)
(* Every operator is total on its stated domain and returns the exact      *)
(* mathematical value the Rust function returns; a result that would not   *)
(* fit the return type makes the Rust function fail and the instruction    *)
(* abort, which callers express with Fits.                                 *)
(*                                                                         *)
(* The decimal shift of a conversion, expo + synthetic_decimals -          *)
(* collateral_decimals, is fixed by the feed and the two mints.  It is     *)
(* given here by ScaleUp = 10^shift, ScaleDown = 1 when the shift is not   *)
(* negative and ScaleUp = 1, ScaleDown = 10^(-shift) when it is.           *)
(***************************************************************************)
EXTENDS Integers

CONSTANTS ScaleUp,      \* what a non-negative decimal shift multiplies by
          ScaleDown,    \* what a negative decimal shift divides by
          U64Max        \* largest value of a token amount

ASSUME ScaleAssumption ==
    /\ ScaleUp \in Nat \ {0}
    /\ ScaleDown \in Nat \ {0}
    /\ ScaleUp = 1 \/ ScaleDown = 1
    /\ U64Max \in Nat

BPS == 10000

Fits(x) == x <= U64Max

Abs(x) == IF x < 0 THEN -x ELSE x

Lower(a, b) == IF a <= b THEN a ELSE b

\* A faulty variant: the unwound hedge subtracted without saturating.
MonusUnchecked(a, b) == a - b

MonusSaturating(a, b) == IF a >= b THEN a - b ELSE 0

-----------------------------------------------------------------------------

CollateralToNotional(amount, price) == (amount * price * ScaleUp) \div ScaleDown

\* A faulty variant: the price forgotten.
NotionalToCollateralUnpriced(notional, price) == (notional * ScaleDown) \div ScaleUp

NotionalToCollateral(notional, price) == (notional * ScaleDown) \div (price * ScaleUp)

MulBpsFloor(amount, bps) == (amount * bps) \div BPS

MulBpsCeil(amount, bps) == (amount * bps + (BPS - 1)) \div BPS

DivBpsFloor(amount, ratio) == (amount * BPS) \div ratio

\* The width of the oracle's confidence interval.
ConfidenceBps(conf, price) == (conf * BPS + (price - 1)) \div price

\* Rust integer division truncates toward zero while \div floors.
DeltaBps(collateral, hedged) ==
    IF collateral >= hedged
    THEN ((collateral - hedged) * BPS) \div collateral
    ELSE -(((hedged - collateral) * BPS) \div collateral)

=============================================================================
