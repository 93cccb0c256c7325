----------------------------- MODULE StrikeMath -----------------------------
(***************************************************************************)
(* The price of one series, as programs/deliverable/src/state/series.rs    *)
(* derives it.  Nothing here is stored: the strike and the size of a       *)
(* contract are functions of the immutable terms of the series and of the  *)
(* multiplier m the mint carries in the transaction that asks.             *)
(***************************************************************************)
EXTENDS FixedPoint

CONSTANTS
    Strike0,          \* strike0: quote units per UI unit at listing
    MultiplierAtMint, \* multiplier_at_mint: the mint's multiplier at listing
    ContractRawSize,  \* contract_raw_size: raw units one contract covers
    Adjusts,          \* adjust_on_corporate_action
    Scale,            \* SCALE, the denominator of multipliers and accumulators
    Grid,             \* 10 ^ underlying_decimals
    MaxMultiplierBand \* MAX_MULTIPLIER_BAND

\* The terms create_series accepts: a positive strike and size, a multiplier
\* f64_bits_to_fixed lets through, and either style of series.
ASSUME TermsAssumption ==
    /\ Strike0 \in Nat \ {0}
    /\ MultiplierAtMint \in Nat \ {0}
    /\ ContractRawSize \in Nat \ {0}
    /\ Adjusts \in BOOLEAN
    /\ Scale \in Nat \ {0}
    /\ Grid \in Nat \ {0}
    /\ MaxMultiplierBand \in Nat \ {0}

\* current_strike: the strike re-cuts inversely with the multiplier, rounds
\* down and never reaches zero.
CurrentStrike(m) ==
    IF Adjusts
    THEN Greatest(MulDivFloor(Strike0, MultiplierAtMint, m), 1)
    ELSE Strike0

\* current_ui_size: what a human calls the number of shares, never zero.
CurrentUiSize(m) == Greatest(MulDivFloor(ContractRawSize, m, Scale), 1)

\* require_multiplier_in_band: an adjusted series refuses a multiplier more
\* than MaxMultiplierBand times away from the one it was listed at.
InBand(m) ==
    Adjusts => /\ m <= MultiplierAtMint * MaxMultiplierBand
               /\ m * MaxMultiplierBand >= MultiplierAtMint

\* exercise_cost: rounds up per contract, then multiplies.
ExerciseCost(m, k) == MulDivCeil(CurrentStrike(m), CurrentUiSize(m), Grid) * k

\* delivery_raw: raw units delivered, or returned, for k contracts.
DeliveryRaw(k) == k * ContractRawSize
=============================================================================
