SPECIFICATION Spec
CONSTANTS
    Writers = {w1, w2, w3, w4}
    Multipliers = {2, 4, 5}
    MaxContracts = 7
    Deposits = {}
    MaxPremium = 0
    MaxSeized = 3
    Reopens = FALSE
    Strike0 = 7
    MultiplierAtMint = 2
    ContractRawSize = 2
    Adjusts = TRUE
    Scale = 8
    Grid = 2
    MaxMultiplierBand = 2
SYMMETRY Symmetry
INVARIANTS
    TypeOK
    BookInv
    ClosedOut
    QuoteMatchesDelivery
PROPERTIES
    ImplementsLottery
CHECK_DEADLOCK FALSE
