----------------------------- MODULE FixedPoint -----------------------------
(***************************************************************************)
(* Integer arithmetic of programs/deliverable/src/fixed.rs and the Rust    *)
(* integer methods the handlers use: every division in the program states  *)
(* its own rounding direction.  The checked u128 operations are modelled   *)
(* over the mathematical integers: a u128 overflow aborts the transaction, *)
(* which is a step that does not happen.                                   *)
(***************************************************************************)
EXTENDS Integers

\* fixed.rs mul_div_floor: a * b / d, rounding down.
MulDivFloor(a, b, d) == (a * b) \div d

\* fixed.rs mul_div_ceil: a * b / d, rounding up (u128::div_ceil).
MulDivCeil(a, b, d) == (a * b + d - 1) \div d

\* u64::saturating_sub and u128::saturating_sub.
SaturatingSub(a, b) == IF a > b THEN a - b ELSE 0

\* Ord::min.
Least(a, b) == IF a <= b THEN a ELSE b

\* Ord::max.
Greatest(a, b) == IF a >= b THEN a ELSE b
=============================================================================
