SPECIFICATION Spec
CONSTANTS
    Writers = {w1, w2}
    Multipliers = {2}
    MaxContracts = 3
    Deposits = {1, 6}
    MaxPremium = 7
    MaxSeized = 0
    Reopens = TRUE
    Strike0 = 7
    MultiplierAtMint = 2
    ContractRawSize = 1
    Adjusts = TRUE
    Scale = 10
    Grid = 2
    MaxMultiplierBand = 2
SYMMETRY Symmetry
INVARIANTS
    PremiumOverhangBounded
    PremiumNotStranded
    NoRetroactivePremium
PROPERTIES
    EarnedNeverFalls
CHECK_DEADLOCK FALSE
