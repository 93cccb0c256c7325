-------------------------- MODULE SeriesBookProofs --------------------------
(***************************************************************************)
(* Theorems about SeriesBook, for any number of writers and any terms.     *)
(***************************************************************************)
EXTENDS SeriesBook, FiniteSetTheorems, WellFoundedInduction, TLAPS

-----------------------------------------------------------------------------
(* The two rounding divisions.                                             *)

\* A product of naturals is a natural: checked_mul stays in the unsigned
\* range from below.
LEMMA ProductNat ==
    ASSUME NEW a \in Nat, NEW b \in Nat
    PROVE  a * b \in Nat
    OBVIOUS

\* Multiplication by a natural preserves the order.
LEMMA ProductMonotone ==
    ASSUME NEW a \in Nat, NEW b \in Nat, NEW c \in Nat, a <= b
    PROVE  a * c <= b * c
    OBVIOUS

\* A positive factor can be cancelled from an inequality.
LEMMA ProductCancel ==
    ASSUME NEW a \in Int, NEW b \in Int, NEW c \in Nat \ {0}, a * c <= b * c
    PROVE  a <= b
    OBVIOUS

\* A strict inequality between multiples is one between their factors.
LEMMA ProductCancelStrict ==
    ASSUME NEW a \in Int, NEW b \in Int, NEW c \in Nat \ {0}, a * c < b * c
    PROVE  a < b
<1>1. SUFFICES ASSUME b <= a
               PROVE  FALSE
    OBVIOUS
<1>2. b * c <= a * c
    BY <1>1
<1>3. a * c \in Int /\ b * c \in Int
    OBVIOUS
<1>4. QED
    BY <1>2, <1>3

\* Integer division of a natural by a positive natural.
LEMMA DivisionBounds ==
    ASSUME NEW a \in Nat, NEW d \in Nat \ {0}
    PROVE  /\ a \div d \in Nat
           /\ (a \div d) * d <= a
           /\ a < (a \div d) * d + d
    OBVIOUS

\* mul_div_floor never exceeds the quotient and misses it by less than one.
LEMMA FloorBounds ==
    ASSUME NEW a \in Nat, NEW b \in Nat, NEW d \in Nat \ {0}
    PROVE  /\ MulDivFloor(a, b, d) \in Nat
           /\ MulDivFloor(a, b, d) * d <= a * b
           /\ a * b < MulDivFloor(a, b, d) * d + d
    BY ProductNat, DivisionBounds DEF MulDivFloor

\* mul_div_ceil never falls short of the quotient and exceeds it by less
\* than one.
LEMMA CeilBounds ==
    ASSUME NEW a \in Nat, NEW b \in Nat, NEW d \in Nat \ {0}
    PROVE  /\ MulDivCeil(a, b, d) \in Nat
           /\ a * b <= MulDivCeil(a, b, d) * d
           /\ MulDivCeil(a, b, d) * d < a * b + d
<1>1. a * b \in Nat
    BY ProductNat
<1>2. a * b + d - 1 \in Nat
    BY <1>1
<1>3. QED
    BY <1>1, <1>2, DivisionBounds DEF MulDivCeil

\* The clamps of the handlers stay inside the range of what they clamp.
LEMMA ClampNat ==
    ASSUME NEW a \in Nat, NEW b \in Nat
    PROVE  /\ SaturatingSub(a, b) \in Nat
           /\ SaturatingSub(a, b) <= a
           /\ Least(a, b) \in Nat
           /\ Least(a, b) <= a
           /\ Least(a, b) <= b
           /\ Greatest(a, b) \in Nat
    BY DEF SaturatingSub, Least, Greatest

\* Rounding down keeps the order of the second factor.
LEMMA FloorMonotone ==
    ASSUME NEW q \in Nat, NEW a \in Nat, NEW b \in Nat, NEW d \in Nat \ {0},
           a <= b
    PROVE  MulDivFloor(q, a, d) <= MulDivFloor(q, b, d)
<1> DEFINE fa == MulDivFloor(q, a, d)
           fb == MulDivFloor(q, b, d)
<1>1. fa \in Nat /\ fb \in Nat /\ fa * d <= q * a /\ q * b < fb * d + d
    BY FloorBounds
<1>2. q * a <= q * b
    BY ProductMonotone
<1> HIDE DEF fa, fb
<1>3. fa * d <= (fb + 1) * d
    BY <1>1, <1>2
<1>4. fa * d # (fb + 1) * d
    BY <1>1, <1>2
<1>5. fa <= fb + 1
    BY <1>1, <1>3, ProductCancel
<1>6. QED
    BY <1>1, <1>4, <1>5 DEF fa, fb

\* A part of an amount never exceeds it.
LEMMA FloorOfPart ==
    ASSUME NEW q \in Nat, NEW a \in Nat, NEW d \in Nat \ {0}, a <= d
    PROVE  MulDivFloor(q, a, d) <= q
<1> DEFINE fa == MulDivFloor(q, a, d)
<1>1. fa \in Nat /\ fa * d <= q * a
    BY FloorBounds
<1>2. q * a <= q * d
    BY ProductMonotone
<1> HIDE DEF fa
<1>3. fa * d <= q * d
    BY <1>1, <1>2
<1>4. QED
    BY <1>1, <1>3, ProductCancel DEF fa

\* Nothing out of an amount is nothing.
LEMMA FloorOfNothing ==
    ASSUME NEW q \in Nat, NEW d \in Nat \ {0}
    PROVE  MulDivFloor(q, 0, d) = 0
<1>1. q * 0 = 0
    OBVIOUS
<1>2. 0 \div d = 0
    OBVIOUS
<1>3. QED
    BY <1>1, <1>2 DEF MulDivFloor

\* Rounding down keeps the order of the first factor too.
LEMMA FloorMonotoneFirst ==
    ASSUME NEW q \in Nat, NEW p \in Nat, NEW a \in Nat, NEW d \in Nat \ {0},
           q <= p
    PROVE  MulDivFloor(q, a, d) <= MulDivFloor(p, a, d)
<1>1. MulDivFloor(a, q, d) <= MulDivFloor(a, p, d)
    BY FloorMonotone
<1>2. a * q = q * a /\ a * p = p * a
    OBVIOUS
<1>3. QED
    BY <1>1, <1>2 DEF MulDivFloor

\* Two parts rounded down come to no more than their sum rounded down.
LEMMA FloorSuperadditive ==
    ASSUME NEW q \in Nat, NEW a \in Nat, NEW b \in Nat, NEW d \in Nat \ {0}
    PROVE  MulDivFloor(q, a, d) + MulDivFloor(q, b, d)
               <= MulDivFloor(q, a + b, d)
<1> DEFINE fa == MulDivFloor(q, a, d)
           fb == MulDivFloor(q, b, d)
           fc == MulDivFloor(q, a + b, d)
           x == q * a
           y == q * b
<1>1. /\ fa \in Nat /\ fa * d <= x
      /\ fb \in Nat /\ fb * d <= y
    BY FloorBounds
<1>2. fc \in Nat /\ q * (a + b) < fc * d + d
    <2>1. a + b \in Nat
        OBVIOUS
    <2>2. QED
        BY <2>1, FloorBounds
<1>3. q * (a + b) = x + y /\ x \in Nat /\ y \in Nat
    OBVIOUS
<1> HIDE DEF fa, fb, fc, x, y
<1>4. (fa + fb) * d = fa * d + fb * d /\ (fc + 1) * d = fc * d + d
    BY <1>1, <1>2
<1>5. fa * d \in Nat /\ fb * d \in Nat /\ fc * d \in Nat
    BY <1>1, <1>2, ProductNat
<1>6. (fa + fb) * d < (fc + 1) * d
    BY <1>1, <1>2, <1>3, <1>4, <1>5
<1>7. fa + fb < fc + 1
    BY <1>1, <1>2, <1>6, ProductCancelStrict
<1>8. fa + fb <= fc
    BY <1>1, <1>2, <1>7
<1>9. QED
    BY <1>8 DEF fa, fb, fc

USE TermsAssumption, BookAssumption

-----------------------------------------------------------------------------
(* What the derived quantities of a well-typed state are.                  *)

\* Collateral amounts are naturals.
LEMMA DeliveryRawNat ==
    ASSUME NEW k \in Nat
    PROVE  DeliveryRaw(k) \in Nat
    BY ProductNat DEF DeliveryRaw

\* The price of an exercise is a natural.
LEMMA ExerciseCostNat ==
    ASSUME NEW m \in Multipliers, NEW k \in Nat
    PROVE  ExerciseCost(m, k) \in Nat
<1>1. CurrentStrike(m) \in Nat
    <2>1. MulDivFloor(Strike0, MultiplierAtMint, m) \in Nat
        BY FloorBounds
    <2>2. QED
        BY <2>1, ClampNat DEF CurrentStrike
<1>2. CurrentUiSize(m) \in Nat
    <2>1. MulDivFloor(ContractRawSize, m, Scale) \in Nat
        BY FloorBounds
    <2>2. QED
        BY <2>1, ClampNat DEF CurrentUiSize
<1>3. MulDivCeil(CurrentStrike(m), CurrentUiSize(m), Grid) \in Nat
    BY <1>1, <1>2, CeilBounds
<1>4. QED
    BY <1>3, ProductNat DEF ExerciseCost

\* An accrual moves both counters forward.
LEMMA AccrualNat ==
    ASSUME TypeOK
    PROVE  /\ AccruedPerContract \in Nat
           /\ AccruedAcc \in Nat
           /\ AccruedCredit \in Nat
           /\ AccrualRounds \in 0 .. 1
<1>1. AccruedPerContract \in Nat
    <2> DEFINE delta == SaturatingSub(premium_vault + premium_claimed_total,
                                      premium_credited_total)
    <2>1. delta \in Nat
        <3>1. /\ premium_vault + premium_claimed_total \in Nat
              /\ premium_credited_total \in Nat
            BY DEF TypeOK
        <3>2. QED
            BY <3>1, ClampNat
    <2>2. contracts_written # 0
              => MulDivFloor(delta, Scale, contracts_written) \in Nat
        BY <2>1, FloorBounds DEF TypeOK
    <2>3. QED
        BY <2>2 DEF AccruedPerContract, TypeOK
<1>2. MulDivFloor(AccruedPerContract, contracts_written, Scale) \in Nat
    BY <1>1, FloorBounds DEF TypeOK
<1>3. QED
    BY <1>1, <1>2 DEF AccruedAcc, AccruedCredit, AccrualRounds, TypeOK

\* Debts at entry and premium owed are naturals.
LEMMA EntitlementNat ==
    ASSUME TypeOK, NEW w \in Writers, NEW k \in Nat
    PROVE  /\ EntryDebt(k) \in Nat
           /\ PremiumOwed(w, AccruedAcc) \in Nat
<1>1. EntryDebt(k) \in Nat
    BY AccrualNat, FloorBounds DEF EntryDebt
<1>2. contracts[w] \in Nat /\ premium_debt[w] \in Nat
    BY DEF TypeOK
<1>3. MulDivFloor(AccruedAcc, contracts[w], Scale) \in Nat
    BY <1>2, AccrualNat, FloorBounds
<1>4. QED
    BY <1>1, <1>2, <1>3, ClampNat DEF PremiumOwed

\* conserving_assignment: bounded by what the writer wrote.
LEMMA AssignmentNat ==
    ASSUME TypeOK, NEW w \in Writers
    PROVE  /\ ConservingAssignment(w) \in Nat
           /\ ConservingAssignment(w) <= contracts[w]
<1>1. contracts[w] \in Nat
    BY DEF TypeOK
<1>2. CASE contracts_written = 0 \/ contracts_exercised = 0
    BY <1>1, <1>2 DEF ConservingAssignment
<1>3. CASE contracts_written # 0 /\ contracts_exercised # 0
    <2> DEFINE share == MulDivCeil(contracts[w], contracts_exercised,
                                   contracts_written)
               remaining == SaturatingSub(contracts_exercised,
                                          contracts_assigned_total)
    <2>1. share \in Nat
        BY <1>1, <1>3, CeilBounds DEF TypeOK
    <2>2. remaining \in Nat
        BY ClampNat DEF TypeOK
    <2>3. ConservingAssignment(w) = Least(Least(share, remaining), contracts[w])
        BY <1>3 DEF ConservingAssignment
    <2>4. Least(share, remaining) \in Nat
        BY <2>1, <2>2, ClampNat
    <2> HIDE DEF share, remaining
    <2>5. QED
        BY <1>1, <2>3, <2>4, ClampNat
<1>4. QED
    BY <1>2, <1>3

\* settle_expired: the quote due is a natural.
LEMMA QuoteDueNat ==
    ASSUME TypeOK, NEW a \in Nat
    PROVE  QuoteDue(a) \in Nat
<1>1. CASE contracts_exercised = 0
    BY <1>1 DEF QuoteDue
<1>2. CASE contracts_exercised # 0
    <2>1. /\ MulDivFloor(quote_collected, contracts_assigned_total + a,
                         contracts_exercised) \in Nat
          /\ MulDivFloor(quote_collected, contracts_assigned_total,
                         contracts_exercised) \in Nat
        <3>1. /\ quote_collected \in Nat
              /\ contracts_assigned_total \in Nat
              /\ contracts_assigned_total + a \in Nat
              /\ contracts_exercised \in Nat \ {0}
            BY <1>2 DEF TypeOK
        <3>2. QED
            BY <3>1, FloorBounds
    <2>2. QED
        BY <1>2, <2>1, ClampNat DEF QuoteDue
<1>3. QED
    BY <1>1, <1>2

-----------------------------------------------------------------------------
(* Type correctness.                                                       *)

LEMMA InitType == Init => TypeOK
    BY DEF Init, TypeOK, NoneYet, Phases

LEMMA WriteType ==
    ASSUME TypeOK, NEW w \in Writers, NEW k \in 1 .. MaxContracts,
           NEW m \in Multipliers, Write(w, k, m)
    PROVE  TypeOK'
<1>1. k \in Nat /\ DeliveryRaw(k) \in Nat
    BY DeliveryRawNat
<1>2. /\ EntryDebt(k) \in Nat
      /\ AccruedAcc \in Nat
      /\ AccruedCredit \in Nat
      /\ AccrualRounds \in Nat
    BY <1>1, AccrualNat, EntitlementNat
<1>3. QED
    BY <1>1, <1>2 DEF TypeOK, Write, AccruePremium, eventVars

LEMMA ClaimType ==
    ASSUME TypeOK, NEW w \in Writers, ClaimPremium(w)
    PROVE  TypeOK'
<1> DEFINE payout == Least(PremiumOwed(w, AccruedAcc), premium_vault)
<1>1. payout \in Nat /\ payout <= premium_vault
    BY EntitlementNat, ClampNat DEF TypeOK
<1>2. /\ AccruedAcc \in Nat
      /\ AccruedCredit \in Nat
      /\ AccrualRounds \in Nat
    BY AccrualNat
<1>3. /\ premium_vault' = premium_vault - payout
      /\ premium_claimed_total' = premium_claimed_total + payout
      /\ premium_debt' = [premium_debt EXCEPT ![w] = @ + payout]
      /\ premium_claimed' = [premium_claimed EXCEPT ![w] = @ + payout]
    BY DEF ClaimPremium, Payable
<1> HIDE DEF payout
<1>4. QED
    BY <1>1, <1>2, <1>3
    DEF TypeOK, ClaimPremium, AccruePremium, positionVars, bookVars, vaultVars,
        eventVars

LEMMA ExerciseType ==
    ASSUME TypeOK, NEW k \in 1 .. MaxContracts, NEW m \in Multipliers,
           Exercise(k, m)
    PROVE  TypeOK'
<1>1. k \in Nat /\ DeliveryRaw(k) \in Nat /\ ExerciseCost(m, k) \in Nat
    BY DeliveryRawNat, ExerciseCostNat
<1>2. QED
    BY <1>1 DEF TypeOK, Exercise, Phases, positionVars, premiumVars, eventVars

LEMMA SettleType ==
    ASSUME TypeOK, NEW w \in Writers, SettleExpired(w)
    PROVE  TypeOK'
<1> DEFINE a == ConservingAssignment(w)
           owed == DeliveryRaw(SaturatingSub(contracts[w], a))
           raw_back == Least(owed, collateral_vault)
           quote_due == Least(QuoteDue(a), quote_vault)
<1>1. a \in Nat
    BY AssignmentNat
<1>2. contracts[w] \in Nat /\ raw_collateral[w] \in Nat
    BY DEF TypeOK
<1>3. owed \in Nat
    BY <1>1, <1>2, ClampNat, DeliveryRawNat
<1>4. raw_back \in Nat /\ raw_back <= collateral_vault
    BY <1>3, ClampNat DEF TypeOK
<1>5. quote_due \in Nat /\ quote_due <= quote_vault
    BY <1>1, QuoteDueNat, ClampNat DEF TypeOK
<1>6. /\ SaturatingSub(owed, collateral_vault) \in Nat
      /\ SaturatingSub(raw_collateral[w], raw_back) \in Nat
    BY <1>2, <1>3, <1>4, ClampNat DEF TypeOK
<1>7. /\ collateral_vault' = collateral_vault - raw_back
      /\ quote_vault' = quote_vault - quote_due
      /\ contracts_assigned_total' = contracts_assigned_total + a
      /\ settled' = settled \cup {w}
      /\ raw_collateral' =
             [raw_collateral EXCEPT ![w] = SaturatingSub(@, raw_back)]
      /\ assigned' = [assigned EXCEPT ![w] = a]
      /\ quote_paid' = [quote_paid EXCEPT ![w] = quote_due]
      /\ raw_shortfall' =
             raw_shortfall + SaturatingSub(owed, collateral_vault)
      /\ UNCHANGED <<phase, opened, contracts, premiumVars,
                     contracts_written, contracts_exercised,
                     quote_collected, option_supply, seized>>
    BY DEF SettleExpired, Payable
<1> HIDE DEF a, owed, raw_back, quote_due
<1>8. QED
    BY <1>1, <1>3, <1>4, <1>5, <1>6, <1>7 DEF TypeOK, premiumVars

LEMMA NextType == TypeOK /\ [Next]_vars => TypeOK'
<1> SUFFICES ASSUME TypeOK, [Next]_vars
             PROVE  TypeOK'
    OBVIOUS
<1>1. ASSUME NEW n \in Deposits, DepositPremium(n)
      PROVE  TypeOK'
    BY <1>1 DEF TypeOK, DepositPremium, positionVars, bookVars, vaultVars,
                eventVars
<1>2. ASSUME NEW n \in 1 .. MaxSeized, Seize(n)
      PROVE  TypeOK'
    BY <1>2 DEF TypeOK, Seize, positionVars, premiumVars, bookVars, eventVars
<1>3. ASSUME NEW w \in Writers, OpenPosition(w)
      PROVE  TypeOK'
    BY <1>3 DEF TypeOK, OpenPosition, premiumVars, bookVars, vaultVars,
                eventVars
<1>4. CASE Expire \/ CloseWindow \/ ReopenWindow
    BY <1>4 DEF TypeOK, Expire, CloseWindow, ReopenWindow, Phases,
                positionVars, premiumVars, bookVars, vaultVars, eventVars
<1>5. CASE UNCHANGED vars
    BY <1>5 DEF TypeOK, vars, positionVars, premiumVars, bookVars, vaultVars,
                eventVars
<1>6. QED
    BY <1>1, <1>2, <1>3, <1>4, <1>5, WriteType, ClaimType, ExerciseType,
       SettleType
    DEF Next

\* Every counter, balance and position field keeps its unsigned type in every
\* reachable state: no vault is overdrawn and no subtraction wraps.
THEOREM TypeCorrect == Spec => []TypeOK
<1>1. QED
    BY InitType, NextType, PTL DEF Spec

-----------------------------------------------------------------------------
(* Counting contracts.                                                     *)

\* The pairs one writer contributes.
LEMMA UnitsOfOne ==
    ASSUME NEW w, NEW n \in Nat
    PROVE  /\ IsFiniteSet({w} \X (1 .. n))
           /\ Cardinality({w} \X (1 .. n)) = n
<1>1. IsFiniteSet({w}) /\ Cardinality({w}) = 1
    BY FS_Singleton
<1>2. IsFiniteSet(1 .. n) /\ Cardinality(1 .. n) = n
    BY FS_Interval
<1> DEFINE own == {w} \X (1 .. n)
<1>3. IsFiniteSet(own) /\ Cardinality(own)
                             = Cardinality({w}) * Cardinality(1 .. n)
    BY <1>1, <1>2, FS_Product
<1> HIDE DEF own
<1>4. Cardinality(own) = n
    BY <1>1, <1>2, <1>3
<1>5. QED
    BY <1>3, <1>4 DEF own

\* Finitely many writers hold finitely many contracts.
LEMMA UnitsFinite ==
    ASSUME NEW f \in [Writers -> Nat], NEW S \in SUBSET Writers
    PROVE  /\ IsFiniteSet(UnitsOf(f, S))
           /\ Cardinality(UnitsOf(f, S)) \in Nat
<1> DEFINE T == {{w} \X (1 .. f[w]) : w \in S}
           g == [w \in S |-> {w} \X (1 .. f[w])]
<1>1. IsFiniteSet(S)
    BY FS_Subset
<1>2. g \in Surjection(S, T)
    BY DEF Surjection
<1>3. IsFiniteSet(T)
    BY <1>1, <1>2, FS_Surjection
<1>4. \A U \in T : IsFiniteSet(U)
    <2> SUFFICES ASSUME NEW w \in S
                 PROVE  IsFiniteSet({w} \X (1 .. f[w]))
        OBVIOUS
    <2>1. f[w] \in Nat
        OBVIOUS
    <2>2. QED
        BY <2>1, UnitsOfOne
<1>5. IsFiniteSet(UnitsOf(f, S))
    BY <1>3, <1>4, FS_UNION DEF UnitsOf
<1>6. QED
    BY <1>5, FS_CardinalityType

\* One more writer adds that writer's contracts.
LEMMA UnitsAdd ==
    ASSUME NEW f \in [Writers -> Nat], NEW S \in SUBSET Writers,
           NEW w \in Writers \ S
    PROVE  Cardinality(UnitsOf(f, S \cup {w}))
               = Cardinality(UnitsOf(f, S)) + f[w]
<1> DEFINE own == {w} \X (1 .. f[w])
<1>1. UnitsOf(f, S \cup {w}) = UnitsOf(f, S) \cup own
    BY DEF UnitsOf
<1>2. UnitsOf(f, S) \cap own = {}
    BY DEF UnitsOf
<1>3. f[w] \in Nat
    OBVIOUS
<1>4. IsFiniteSet(own) /\ Cardinality(own) = f[w]
    BY <1>3, UnitsOfOne
<1>5. IsFiniteSet(UnitsOf(f, S)) /\ Cardinality(UnitsOf(f, S)) \in Nat
    BY UnitsFinite
<1>6. Cardinality(UnitsOf(f, S) \cap own) = 0
    BY <1>2, FS_EmptySet
<1> HIDE DEF own
<1> DEFINE U == UnitsOf(f, S)
<1>7. Cardinality(U \cup own)
          = Cardinality(U) + Cardinality(own) - Cardinality(U \cap own)
    <2> HIDE DEF U
    <2>1. IsFiniteSet(U) /\ IsFiniteSet(own)
        BY <1>4, <1>5 DEF U
    <2>2. QED
        BY <2>1, FS_Union
<1>8. Cardinality(UnitsOf(f, S \cup {w})) = Cardinality(U \cup own)
    BY <1>1
<1>9. Cardinality(U) \in Nat /\ Cardinality(U \cap own) = 0
    BY <1>5, <1>6
<1> HIDE DEF U
<1>10. Cardinality(U \cup own) = Cardinality(U) + f[w]
    BY <1>3, <1>4, <1>7, <1>9
<1>11. QED
    BY <1>8, <1>10 DEF U

\* Taking one writer out of a set takes that writer's contracts out.
LEMMA UnitsRemove ==
    ASSUME NEW f \in [Writers -> Nat], NEW S \in SUBSET Writers,
           NEW w \in S
    PROVE  Cardinality(UnitsOf(f, S \ {w}))
               = Cardinality(UnitsOf(f, S)) - f[w]
<1>1. S = (S \ {w}) \cup {w}
    OBVIOUS
<1>2. Cardinality(UnitsOf(f, S)) = Cardinality(UnitsOf(f, S \ {w})) + f[w]
    BY <1>1, UnitsAdd, S \ {w} \in SUBSET Writers, w \in Writers \ (S \ {w})
<1>3. QED
    BY <1>2, UnitsFinite

\* A write changes one writer's contracts, and every count by as much.
LEMMA UnitsWrite ==
    ASSUME NEW f \in [Writers -> Nat], NEW g \in [Writers -> Nat],
           NEW S \in SUBSET Writers, NEW w \in S,
           \A v \in S \ {w} : g[v] = f[v]
    PROVE  Cardinality(UnitsOf(g, S))
               = Cardinality(UnitsOf(f, S)) + g[w] - f[w]
<1>1. UnitsOf(g, S \ {w}) = UnitsOf(f, S \ {w})
    BY DEF UnitsOf
<1>2. Cardinality(UnitsOf(g, S \ {w})) = Cardinality(UnitsOf(g, S)) - g[w]
    BY UnitsRemove
<1>3. Cardinality(UnitsOf(f, S \ {w})) = Cardinality(UnitsOf(f, S)) - f[w]
    BY UnitsRemove
<1>4. Cardinality(UnitsOf(g, S)) \in Nat /\ Cardinality(UnitsOf(f, S)) \in Nat
    BY UnitsFinite
<1>5. g[w] \in Nat /\ f[w] \in Nat
    OBVIOUS
<1>6. QED
    BY <1>1, <1>2, <1>3, <1>4, <1>5

\* No writer holds more contracts than the series counts.
LEMMA OwnContracts ==
    ASSUME TypeOK, NEW w \in Writers,
           contracts_written = Cardinality(UnitsOf(contracts, Writers))
    PROVE  /\ contracts[w] \in Nat
           /\ contracts[w] <= contracts_written
<1>1. contracts \in [Writers -> Nat]
    BY DEF TypeOK
<1>2. Cardinality(UnitsOf(contracts, Writers \ {w})) \in Nat
    BY <1>1, UnitsFinite
<1>3. Cardinality(UnitsOf(contracts, Writers \ {w}))
          = Cardinality(UnitsOf(contracts, Writers)) - contracts[w]
    BY <1>1, UnitsRemove
<1>4. contracts[w] \in Nat /\ contracts_written \in Nat
    BY DEF TypeOK
<1>5. QED
    BY <1>2, <1>3, <1>4

-----------------------------------------------------------------------------
(* The arithmetic of a settlement, over numbers: e contracts exercised of  *)
(* W written, A of them assigned, U contracts outstanding, and a writer of *)
(* c of those settling.                                                    *)

\* delivery_raw distributes over what is left.
LEMMA DeliveryRawMinus ==
    ASSUME NEW a \in Int, NEW b \in Int
    PROVE  /\ DeliveryRaw(a - b) = DeliveryRaw(a) - DeliveryRaw(b)
           /\ DeliveryRaw(a + b) = DeliveryRaw(a) + DeliveryRaw(b)
           /\ DeliveryRaw(a) \in Int
    BY DEF DeliveryRaw

\* If the outstanding contracts cover a pro-rata part of what is unassigned,
\* there are at least as many of them as of those.
LEMMA RestCovered ==
    ASSUME NEW n \in Nat, NEW U \in Nat, NEW e \in Nat, NEW W \in Nat \ {0},
           n * W <= U * e, e <= W
    PROVE  n <= U
<1>1. U * e <= U * W
    BY ProductMonotone
<1>2. n * W <= U * W
    BY <1>1, ProductNat
<1>3. QED
    BY <1>2, ProductCancel

\* conserving_assignment: rounding up, the writer takes at least a pro-rata
\* part unless nothing more is left, so the rest stays covered.
LEMMA ShareKeepsRestFair ==
    ASSUME NEW c \in Nat, NEW U \in Nat, NEW e \in Nat, NEW A \in Nat,
           NEW W \in Nat \ {0}, NEW a,
           c <= U, e <= W, A <= e, (e - A) * W <= U * e,
           a = Least(Least(MulDivCeil(c, e, W), e - A), c)
    PROVE  /\ a \in Nat
           /\ a <= e - A
           /\ (e - (A + a)) * W <= (U - c) * e
<1> DEFINE share == MulDivCeil(c, e, W)
<1>1. share \in Nat /\ c * e <= share * W
    BY CeilBounds
<1> HIDE DEF share
<1>2. /\ a \in Nat
      /\ a <= e - A
      /\ a = share \/ a = e - A \/ a = c
    BY <1>1 DEF Least, share
<1>3. CASE a = e - A
    <2>1. (e - (A + a)) * W = 0
        BY <1>3
    <2>2. (U - c) * e \in Nat
        <3>1. U - c \in Nat
            OBVIOUS
        <3>2. QED
            BY <3>1, ProductNat
    <2> DEFINE lhs == (e - (A + a)) * W
               rhs == (U - c) * e
    <2>3. lhs = 0 /\ rhs \in Nat
        BY <2>1, <2>2
    <2> HIDE DEF lhs, rhs
    <2>4. lhs <= rhs
        BY <2>3
    <2>5. QED
        BY <1>2, <2>4 DEF lhs, rhs
<1>4. CASE a = share \/ a = c
    <2>1. c * e <= a * W
        <3>1. c * e <= c * W
            BY ProductMonotone
        <3>2. QED
            BY <1>1, <1>4, <3>1
    <2>2. /\ (e - (A + a)) * W = (e - A) * W - a * W
          /\ (U - c) * e = U * e - c * e
        BY <1>2
    <2>3. /\ (e - A) * W \in Int /\ U * e \in Int
          /\ a * W \in Int /\ c * e \in Int
        BY <1>2
    <2>4. QED
        BY <1>2, <2>1, <2>2, <2>3
<1>5. QED
    BY <1>2, <1>3, <1>4

\* settle_expired: the part of the quote due for the next a contracts is the
\* difference of two running floors, and the vault holds it.
LEMMA QuoteTelescopes ==
    ASSUME NEW q \in Nat, NEW A \in Nat, NEW a \in Nat, NEW e \in Nat \ {0},
           A + a <= e
    PROVE  LET before == MulDivFloor(q, A, e)
               after  == MulDivFloor(q, A + a, e)
           IN  /\ before \in Nat /\ after \in Nat
               /\ before <= after
               /\ after <= q
               /\ Least(SaturatingSub(after, before), q - before)
                      = after - before
<1> DEFINE before == MulDivFloor(q, A, e)
           after  == MulDivFloor(q, A + a, e)
<1>0. A + a \in Nat
    OBVIOUS
<1>1. before \in Nat /\ after \in Nat
    BY <1>0, FloorBounds
<1>2. before <= after
    BY FloorMonotone
<1>3. after <= q
    BY FloorOfPart
<1> HIDE DEF before, after
<1>4. Least(SaturatingSub(after, before), q - before) = after - before
    BY <1>1, <1>2, <1>3 DEF Least, SaturatingSub
<1>5. /\ before \in Nat /\ after \in Nat
      /\ before <= after
      /\ after <= q
      /\ Least(SaturatingSub(after, before), q - before) = after - before
    BY <1>1, <1>2, <1>3, <1>4
<1>6. QED
    BY <1>5 DEF before, after

\* settle_expired: what the vault cannot return is reported, and it can fall
\* short only by what was seized.
LEMMA ReturnConserves ==
    ASSUME NEW vault \in Nat, NEW owed \in Nat, NEW rest \in Nat,
           NEW short \in Nat, NEW taken \in Nat,
           vault + taken = owed + rest + short, short <= taken
    PROVE  LET paid == Least(owed, vault)
               miss == SaturatingSub(owed, vault)
           IN  /\ (vault - paid) + taken = rest + (short + miss)
               /\ short + miss <= taken
    BY DEF Least, SaturatingSub

-----------------------------------------------------------------------------
(* The book conserves.                                                     *)

\* What the book invariant reads, besides premium and positions' records.
bookInvVars == <<phase, settled, contracts, contracts_written,
                 contracts_exercised, contracts_assigned_total,
                 quote_collected, collateral_vault, quote_vault,
                 raw_shortfall, seized>>

\* Steps that touch none of it keep it.
LEMMA BookUntouched ==
    ASSUME BookInv, UNCHANGED bookInvVars
    PROVE  BookInv'
    BY DEF BookInv, BookCounts, BookOrder, RestIsFair, VaultBacksTheRest,
           QuoteBacksTheRest, PaidSoFar, Outstanding, Unassigned, UnitsOf,
           bookInvVars

\* The quantities of the invariant are numbers.
LEMMA BookNat ==
    ASSUME TypeOK
    PROVE  /\ Outstanding \in Nat
           /\ Cardinality(UnitsOf(contracts, Writers)) \in Nat
           /\ contracts_written \in Nat
           /\ contracts_exercised \in Nat
           /\ contracts_assigned_total \in Nat
           /\ quote_collected \in Nat
           /\ collateral_vault \in Nat
           /\ quote_vault \in Nat
           /\ raw_shortfall \in Nat
           /\ seized \in Nat
<1>1. contracts \in [Writers -> Nat] /\ Writers \ settled \in SUBSET Writers
    BY DEF TypeOK
<1>2. QED
    BY <1>1, UnitsFinite DEF TypeOK, Outstanding

\* Nobody has written anything and nothing is backed.
LEMMA InitBook == Init => BookInv
<1> SUFFICES ASSUME Init
             PROVE  BookInv
    OBVIOUS
<1>1. \A S \in SUBSET Writers : UnitsOf(NoneYet, S) = {}
    BY DEF UnitsOf, NoneYet
<1>2. Cardinality({}) = 0
    BY FS_EmptySet
<1>3. /\ Cardinality(UnitsOf(contracts, Writers)) = 0
      /\ Outstanding = 0
    BY <1>1, <1>2 DEF Init, Outstanding
<1>4. DeliveryRaw(0) = 0
    BY DEF DeliveryRaw
<1>5. QED
    BY <1>3, <1>4
    DEF Init, BookInv, BookCounts, BookOrder, RestIsFair, VaultBacksTheRest,
        QuoteBacksTheRest, PaidSoFar, Unassigned

\* write: the position, the counter and the vault grow together, before
\* anything is exercised.
LEMMA WriteBook ==
    ASSUME TypeOK, BookInv, NEW w \in Writers, NEW k \in 1 .. MaxContracts,
           NEW m \in Multipliers, Write(w, k, m)
    PROVE  BookInv'
<1>1. /\ phase = "Active" /\ phase' = phase
      /\ settled = {} /\ settled' = settled
      /\ contracts_exercised = 0 /\ contracts_exercised' = 0
      /\ contracts_assigned_total = 0 /\ contracts_assigned_total' = 0
      /\ contracts' = [contracts EXCEPT ![w] = @ + k]
      /\ contracts_written' = contracts_written + k
      /\ collateral_vault' = collateral_vault + DeliveryRaw(k)
      /\ quote_collected' = quote_collected
      /\ quote_vault' = quote_vault
      /\ raw_shortfall' = raw_shortfall /\ seized' = seized
    BY BookNat DEF Write, BookInv, BookOrder, BookCounts, eventVars
<1>2. k \in Nat /\ contracts \in [Writers -> Nat]
    BY DEF TypeOK
<1>3. Cardinality(UnitsOf(contracts', Writers))
          = Cardinality(UnitsOf(contracts, Writers)) + k
    <2> DEFINE g == contracts'
    <2>1. /\ g \in [Writers -> Nat]
          /\ g[w] = contracts[w] + k
          /\ \A v \in Writers \ {w} : g[v] = contracts[v]
        BY <1>1, <1>2
    <2> HIDE DEF g
    <2>2. Cardinality(UnitsOf(g, Writers))
              = Cardinality(UnitsOf(contracts, Writers)) + g[w] - contracts[w]
        BY <1>2, <2>1, UnitsWrite, Writers \in SUBSET Writers
    <2>3. contracts[w] \in Nat /\ Cardinality(UnitsOf(contracts, Writers)) \in Nat
        BY <1>2, BookNat
    <2>4. QED
        BY <1>2, <2>1, <2>2, <2>3 DEF g
<1>4. Outstanding = contracts_written /\ Outstanding' = contracts_written'
    <2>1. Writers \ settled = Writers /\ Writers \ settled' = Writers
        BY <1>1
    <2>2. /\ Outstanding = Cardinality(UnitsOf(contracts, Writers))
          /\ Outstanding' = Cardinality(UnitsOf(contracts', Writers))
        BY <2>1 DEF Outstanding
    <2>3. QED
        BY <1>1, <1>3, <2>2 DEF BookInv, BookCounts
<1>5. /\ DeliveryRaw(contracts_written + k)
             = DeliveryRaw(contracts_written) + DeliveryRaw(k)
      /\ DeliveryRaw(contracts_written) \in Int
      /\ DeliveryRaw(k) \in Int
    <2>1. contracts_written \in Int /\ k \in Int
        BY <1>2, BookNat
    <2>2. QED
        BY <2>1, DeliveryRawMinus
<1>6. BookCounts'
    BY <1>1, <1>2, <1>3, BookNat DEF BookInv, BookCounts
<1>7. BookOrder'
    BY <1>1 DEF BookOrder
<1>8. RestIsFair'
    BY <1>1, <1>2, <1>4, BookNat DEF RestIsFair, Unassigned
<1>9. VaultBacksTheRest'
    <2>1. collateral_vault + seized
              = DeliveryRaw(contracts_written) + raw_shortfall
          /\ raw_shortfall <= seized
        BY <1>1, <1>4, BookNat DEF BookInv, VaultBacksTheRest, Unassigned
    <2>2. Outstanding' - Unassigned' = contracts_written + k
        BY <1>1, <1>2, <1>4, BookNat DEF Unassigned
    <2>3. QED
        BY <1>1, <1>5, <2>1, <2>2, BookNat DEF VaultBacksTheRest
<1>10. QuoteBacksTheRest'
    BY <1>1 DEF BookInv, QuoteBacksTheRest, PaidSoFar
<1>11. QED
    BY <1>6, <1>7, <1>8, <1>9, <1>10 DEF BookInv

\* exercise: nobody has settled yet, so what leaves the vault is what one
\* fewer contract has to be returned for.
LEMMA ExerciseBook ==
    ASSUME TypeOK, TypeOK', BookInv, NEW k \in 1 .. MaxContracts,
           NEW m \in Multipliers, Exercise(k, m)
    PROVE  BookInv'
<1> DEFINE cost == ExerciseCost(m, k)
<1>1. /\ phase = "Settling" /\ phase' \in {phase, "Settled"}
      /\ settled = {} /\ settled' = settled
      /\ contracts_assigned_total = 0 /\ contracts_assigned_total' = 0
      /\ contracts' = contracts /\ contracts_written' = contracts_written
      /\ contracts_exercised' = contracts_exercised + k
      /\ contracts_exercised + k <= contracts_written
      /\ collateral_vault' = collateral_vault - DeliveryRaw(k)
      /\ quote_collected' = quote_collected + cost
      /\ quote_vault' = quote_vault + cost
      /\ raw_shortfall' = raw_shortfall /\ seized' = seized
    BY DEF Exercise, BookInv, BookOrder, positionVars, eventVars
<1>2. k \in Nat /\ k > 0 /\ cost \in Nat
    BY ExerciseCostNat
<1> HIDE DEF cost
<1>3. /\ contracts_written \in Nat /\ contracts_exercised \in Nat
      /\ collateral_vault \in Nat /\ quote_vault \in Nat
      /\ quote_collected \in Nat /\ raw_shortfall \in Nat /\ seized \in Nat
    BY BookNat
<1>4. Outstanding = contracts_written /\ Outstanding' = contracts_written
    <2>1. Writers \ settled = Writers /\ Writers \ settled' = Writers
        BY <1>1
    <2>2. /\ Outstanding = Cardinality(UnitsOf(contracts, Writers))
          /\ Outstanding' = Cardinality(UnitsOf(contracts', Writers))
        BY <2>1 DEF Outstanding
    <2>3. QED
        BY <1>1, <2>2 DEF BookInv, BookCounts
<1>5. /\ Unassigned = contracts_exercised
      /\ Unassigned' = contracts_exercised + k
    BY <1>1, <1>2, <1>3 DEF Unassigned
<1>6. BookCounts'
    BY <1>1, <1>2, <1>3 DEF BookInv, BookCounts
<1>7. BookOrder'
    BY <1>1 DEF BookOrder
<1>8. RestIsFair'
    <2> DEFINE e == contracts_exercised + k
    <2>1. e \in Nat
        BY <1>2, <1>3
    <2>2. /\ Unassigned' = e /\ contracts_exercised' = e
          /\ Outstanding' = contracts_written
          /\ contracts_written' = contracts_written
        BY <1>1, <1>4, <1>5
    <2> HIDE DEF e
    <2>3. e * contracts_written <= contracts_written * e
        BY <1>3, <2>1
    <2>4. QED
        BY <2>2, <2>3 DEF RestIsFair
<1>9. VaultBacksTheRest'
    <2> DEFINE rest == contracts_written - contracts_exercised
    <2>1. rest \in Int /\ k \in Int
        BY <1>2, <1>3
    <2>2. /\ collateral_vault + seized = DeliveryRaw(rest) + raw_shortfall
          /\ raw_shortfall <= seized
        BY <1>4, <1>5 DEF BookInv, VaultBacksTheRest
    <2>3. (Outstanding - Unassigned)' = rest - k
        BY <1>2, <1>3, <1>4, <1>5
    <2> HIDE DEF rest
    <2>4. /\ DeliveryRaw(rest - k) = DeliveryRaw(rest) - DeliveryRaw(k)
          /\ DeliveryRaw(rest) \in Int
          /\ DeliveryRaw(k) \in Int
        BY <2>1, DeliveryRawMinus
    <2>5. QED
        BY <1>1, <1>3, <2>2, <2>3, <2>4 DEF VaultBacksTheRest
<1>10. QuoteBacksTheRest'
    <2>1. quote_vault = quote_collected
        <3>1. CASE contracts_exercised = 0
            BY <1>3, <3>1 DEF BookInv, QuoteBacksTheRest, PaidSoFar
        <3>2. CASE contracts_exercised # 0
            <4>1. MulDivFloor(quote_collected, 0, contracts_exercised) = 0
                BY <1>3, <3>2, FloorOfNothing
            <4>2. QED
                BY <1>1, <1>3, <3>2, <4>1
                DEF BookInv, QuoteBacksTheRest, PaidSoFar
        <3>3. QED
            BY <3>1, <3>2
    <2>2. quote_collected' \in Nat /\ contracts_exercised' \in Nat \ {0}
        BY <1>1, <1>2, <1>3
    <2>3. MulDivFloor(quote_collected', 0, contracts_exercised') = 0
        BY <2>2, FloorOfNothing
    <2>4. PaidSoFar' = 0
        BY <1>1, <2>2, <2>3 DEF PaidSoFar
    <2>5. QED
        BY <1>1, <1>2, <1>3, <2>1, <2>2, <2>4 DEF QuoteBacksTheRest
<1>11. QED
    BY <1>6, <1>7, <1>8, <1>9, <1>10 DEF BookInv

\* The permanent delegate: what is taken is on record as taken.
LEMMA SeizeBook ==
    ASSUME TypeOK, BookInv, NEW n \in 1 .. MaxSeized, Seize(n)
    PROVE  BookInv'
<1>1. /\ collateral_vault' = collateral_vault - n
      /\ seized' = seized + n
      /\ UNCHANGED <<phase, settled, contracts, contracts_written,
                     contracts_exercised, contracts_assigned_total,
                     quote_collected, quote_vault, raw_shortfall>>
    BY DEF Seize, positionVars, bookVars, eventVars
<1>2. /\ Outstanding' = Outstanding /\ Unassigned' = Unassigned
      /\ PaidSoFar' = PaidSoFar
    BY <1>1 DEF Outstanding, Unassigned, PaidSoFar
<1>3. BookCounts' /\ BookOrder' /\ RestIsFair' /\ QuoteBacksTheRest'
    BY <1>1, <1>2
    DEF BookInv, BookCounts, BookOrder, RestIsFair, QuoteBacksTheRest
<1>4. VaultBacksTheRest'
    <2>1. Outstanding - Unassigned \in Int
        BY BookNat DEF Unassigned
    <2>2. DeliveryRaw(Outstanding - Unassigned) \in Int
        BY <2>1, DeliveryRawMinus
    <2>3. QED
        BY <1>1, <1>2, <2>2, BookNat DEF BookInv, VaultBacksTheRest
<1>5. QED
    BY <1>3, <1>4 DEF BookInv

\* settle_expired, as an update: once the shares are what they are, one
\* writer leaves the queue, and neither clamp nor saturation bites but for
\* what was seized.
LEMMA SettleBook ==
    ASSUME TypeOK, BookInv, NEW w \in Writers, SettleExpired(w)
    PROVE  BookInv'
<1> DEFINE a == ConservingAssignment(w)
           c == contracts[w]
           W == contracts_written
           e == contracts_exercised
           A == contracts_assigned_total
           q == quote_collected
           U == Outstanding
           owed == DeliveryRaw(SaturatingSub(c, a))
           back == Least(owed, collateral_vault)
           miss == SaturatingSub(owed, collateral_vault)
           due == Least(QuoteDue(a), quote_vault)
<1>1. /\ c \in Nat /\ c > 0 /\ W \in Nat /\ e \in Nat /\ A \in Nat
      /\ q \in Nat /\ U \in Nat /\ a \in Nat /\ a <= c
      /\ collateral_vault \in Nat /\ quote_vault \in Nat
      /\ raw_shortfall \in Nat /\ seized \in Nat
    BY BookNat, AssignmentNat DEF TypeOK, SettleExpired
<1>2. e <= W /\ A <= e /\ (e - A) * W <= U * e
    BY DEF BookInv, BookCounts, RestIsFair, Unassigned
<1>3. /\ phase = "Settled" /\ phase' = phase /\ w \notin settled
      /\ settled' = settled \cup {w}
      /\ contracts_assigned_total' = A + a
      /\ collateral_vault' = collateral_vault - back
      /\ quote_vault' = quote_vault - due
      /\ raw_shortfall' = raw_shortfall + miss
      /\ contracts' = contracts /\ contracts_written' = W
      /\ contracts_exercised' = e /\ quote_collected' = q
      /\ seized' = seized
    BY DEF SettleExpired, Payable
<1>4. c <= U /\ Outstanding' = U - c
    <2> DEFINE S == Writers \ settled
    <2>1. /\ contracts \in [Writers -> Nat] /\ S \in SUBSET Writers /\ w \in S
          /\ S \ {w} \in SUBSET Writers
        BY <1>3 DEF TypeOK
    <2>2. Writers \ settled' = S \ {w}
        BY <1>3
    <2> HIDE DEF S
    <2>3. Cardinality(UnitsOf(contracts, S \ {w}))
              = Cardinality(UnitsOf(contracts, S)) - contracts[w]
        BY <2>1, UnitsRemove
    <2>4. /\ Cardinality(UnitsOf(contracts, S \ {w})) \in Nat
          /\ Cardinality(UnitsOf(contracts, S)) \in Nat
        BY <2>1, UnitsFinite
    <2>5. U = Cardinality(UnitsOf(contracts, S))
        BY DEF Outstanding, S
    <2>6. Outstanding' = Cardinality(UnitsOf(contracts, S \ {w}))
        BY <1>3, <2>2 DEF Outstanding
    <2>7. QED
        BY <1>1, <2>3, <2>4, <2>5, <2>6
<1>5. W \in Nat \ {0}
    <2>1. CASE W # 0
        BY <1>1, <2>1
    <2>2. CASE W = 0
        <3>1. Writers \ settled \in SUBSET Writers
            OBVIOUS
        <3>2. UnitsOf(contracts, Writers \ settled)
                  \in SUBSET UnitsOf(contracts, Writers)
            BY <3>1 DEF UnitsOf
        <3>3. IsFiniteSet(UnitsOf(contracts, Writers))
            BY UnitsFinite, Writers \in SUBSET Writers DEF TypeOK
        <3>4. U <= Cardinality(UnitsOf(contracts, Writers))
            BY <3>2, <3>3, FS_Subset DEF Outstanding
        <3>5. QED
            BY <1>1, <1>4, <2>2, <3>4 DEF BookInv, BookCounts
    <2>3. QED
        BY <2>1, <2>2
<1>6. a <= e - A /\ (e - (A + a)) * W <= (U - c) * e
    <2>1. CASE e = 0
        <3>1. a = 0 /\ A = 0
            BY <1>1, <1>2, <2>1 DEF ConservingAssignment
        <3>2. (e - (A + a)) * W = 0 /\ (U - c) * e = 0
            BY <1>1, <1>4, <2>1, <3>1
        <3>3. QED
            BY <1>1, <1>2, <2>1, <3>1, <3>2
    <2>2. CASE e # 0
        <3>1. SaturatingSub(e, A) = e - A
            BY <1>1, <1>2 DEF SaturatingSub
        <3>2. a = Least(Least(MulDivCeil(c, e, W), e - A), c)
            BY <1>5, <2>2, <3>1 DEF ConservingAssignment
        <3> HIDE DEF a, c, W, e, A, U
        <3>3. /\ c \in Nat /\ U \in Nat /\ e \in Nat /\ A \in Nat
              /\ c <= U /\ e <= W /\ A <= e /\ (e - A) * W <= U * e
            BY <1>1, <1>2, <1>4
        <3>4. QED
            BY <1>5, <3>2, <3>3, ShareKeepsRestFair
    <2>3. QED
        BY <2>1, <2>2
<1> HIDE DEF a, c, W, e, A, q, U, owed, back, miss, due
<1>7. e - (A + a) <= U - c
    <2>1. e - (A + a) \in Nat /\ U - c \in Nat
        BY <1>1, <1>2, <1>4, <1>6
    <2>2. QED
        BY <1>1, <1>2, <1>5, <1>6, <2>1, RestCovered
<1>8. (Outstanding - Unassigned)' = (U - c) - (e - (A + a))
    BY <1>3, <1>4 DEF Unassigned
<1>9. BookCounts'
    <2>1. contracts_written = Cardinality(UnitsOf(contracts, Writers))
        BY DEF BookInv, BookCounts
    <2>2. A + a <= e
        BY <1>1, <1>2, <1>6
    <2>3. QED
        BY <1>2, <1>3, <2>1, <2>2 DEF BookCounts, W
<1>10. BookOrder'
    BY <1>3 DEF BookOrder
<1>11. RestIsFair'
    BY <1>3, <1>4, <1>6 DEF RestIsFair, Unassigned
<1>12. VaultBacksTheRest'
    <2> DEFINE rest == DeliveryRaw((U - c) - (e - (A + a)))
    <2>1. collateral_vault + seized = DeliveryRaw(U - (e - A)) + raw_shortfall
          /\ raw_shortfall <= seized
        BY DEF BookInv, VaultBacksTheRest, Unassigned, U, e, A
    <2>2. owed = DeliveryRaw(c - a)
        <3>1. SaturatingSub(c, a) = c - a
            BY <1>1 DEF SaturatingSub
        <3>2. QED
            BY <3>1 DEF owed
    <2>3. DeliveryRaw(U - (e - A)) = owed + rest
        <3>1. /\ c - a \in Int
              /\ (U - c) - (e - (A + a)) \in Int
              /\ U - (e - A) = (c - a) + ((U - c) - (e - (A + a)))
            BY <1>1
        <3>2. QED
            BY <2>2, <3>1, DeliveryRawMinus
    <2>4. owed \in Nat /\ rest \in Nat
        <3>1. c - a \in Nat /\ (U - c) - (e - (A + a)) \in Nat
            BY <1>1, <1>2, <1>4, <1>6, <1>7
        <3>2. QED
            BY <2>2, <3>1, DeliveryRawNat
    <2> HIDE DEF rest
    <2>5. collateral_vault + seized = owed + rest + raw_shortfall
          /\ raw_shortfall <= seized
        BY <2>1, <2>3
    <2>6. /\ (collateral_vault - back) + seized
                = rest + (raw_shortfall + miss)
          /\ raw_shortfall + miss <= seized
        BY <1>1, <2>4, <2>5, ReturnConserves DEF back, miss
    <2>7. QED
        BY <1>3, <1>8, <2>6 DEF VaultBacksTheRest, rest
<1>13. QuoteBacksTheRest'
    <2>1. CASE e = 0
        <3>1. q = 0 /\ quote_vault = q
            BY <1>1, <2>1
            DEF BookInv, QuoteBacksTheRest, PaidSoFar, e, q
        <3>2. due = 0
            BY <1>1, <2>1, <3>1 DEF due, QuoteDue, Least, e
        <3>3. QED
            BY <1>1, <1>3, <2>1, <3>1, <3>2 DEF QuoteBacksTheRest, PaidSoFar
    <2>2. CASE e # 0
        <3> DEFINE before == MulDivFloor(q, A, e)
                   after  == MulDivFloor(q, A + a, e)
        <3>1. quote_vault = q - before
            BY <2>2 DEF BookInv, QuoteBacksTheRest, PaidSoFar, e, q, A
        <3>2. QuoteDue(a) = SaturatingSub(after, before)
            BY <2>2 DEF QuoteDue, e, q, A
        <3>3. /\ before \in Nat /\ after \in Nat
              /\ Least(SaturatingSub(after, before), q - before)
                     = after - before
            <4>1. /\ q \in Nat /\ A \in Nat /\ a \in Nat
                  /\ e \in Nat \ {0} /\ A + a <= e
                BY <1>1, <1>2, <1>6, <2>2
            <4>2. QED
                BY <4>1, QuoteTelescopes
        <3>4. PaidSoFar' = after
            BY <1>3, <2>2 DEF PaidSoFar
        <3> HIDE DEF before, after
        <3>5. due = after - before
            BY <3>1, <3>2, <3>3 DEF due
        <3>6. QED
            BY <1>1, <1>3, <2>2, <3>1, <3>3, <3>4, <3>5
            DEF QuoteBacksTheRest
    <2>3. QED
        BY <2>1, <2>2
<1>14. QED
    BY <1>9, <1>10, <1>11, <1>12, <1>13 DEF BookInv

\* A window that opens again opens for writers none of whom has settled.
LEMMA ReopenBook ==
    ASSUME BookInv, ReopenWindow, settled # {} => phase' = phase
    PROVE  BookInv'
<1>1. /\ settled = {} /\ phase' = "Settling"
      /\ UNCHANGED <<settled, contracts, contracts_written,
                     contracts_exercised, contracts_assigned_total,
                     quote_collected, collateral_vault, quote_vault,
                     raw_shortfall, seized>>
    BY DEF ReopenWindow, positionVars, bookVars, vaultVars, eventVars
<1>2. BookOrder'
    BY <1>1 DEF BookInv, BookOrder
<1>3. /\ Outstanding' = Outstanding /\ Unassigned' = Unassigned
      /\ PaidSoFar' = PaidSoFar
    BY <1>1 DEF Outstanding, Unassigned, PaidSoFar
<1>4. BookCounts' /\ RestIsFair' /\ VaultBacksTheRest' /\ QuoteBacksTheRest'
    BY <1>1, <1>3
    DEF BookInv, BookCounts, RestIsFair, VaultBacksTheRest, QuoteBacksTheRest
<1>5. QED
    BY <1>2, <1>4 DEF BookInv

LEMMA NextBook ==
    TypeOK /\ TypeOK' /\ BookInv /\ [Next]_vars
           /\ [settled # {} => phase' = phase]_vars => BookInv'
<1> SUFFICES ASSUME TypeOK, TypeOK', BookInv, [Next]_vars,
                    [settled # {} => phase' = phase]_vars
             PROVE  BookInv'
    OBVIOUS
<1>1. ASSUME NEW n \in Deposits, DepositPremium(n)
      PROVE  BookInv'
    BY <1>1, BookUntouched
    DEF DepositPremium, bookInvVars, positionVars, bookVars, vaultVars,
        eventVars
<1>2. ASSUME NEW w \in Writers, OpenPosition(w)
      PROVE  BookInv'
    BY <1>2, BookUntouched
    DEF OpenPosition, bookInvVars, bookVars, vaultVars, eventVars
<1>3. ASSUME NEW w \in Writers, ClaimPremium(w)
      PROVE  BookInv'
    BY <1>3, BookUntouched
    DEF ClaimPremium, bookInvVars, positionVars, bookVars, vaultVars, eventVars
<1>4. CASE Expire \/ CloseWindow
    <2>1. /\ phase # "Settled" /\ phase' \in {"Settling", "Settled"}
          /\ UNCHANGED <<settled, contracts, contracts_written,
                         contracts_exercised, contracts_assigned_total,
                         quote_collected, collateral_vault, quote_vault,
                         raw_shortfall, seized>>
        BY <1>4 DEF Expire, CloseWindow, positionVars, bookVars, vaultVars,
                    eventVars
    <2>2. BookOrder'
        BY <2>1 DEF BookInv, BookOrder
    <2>3. /\ Outstanding' = Outstanding /\ Unassigned' = Unassigned
          /\ PaidSoFar' = PaidSoFar
        BY <2>1 DEF Outstanding, Unassigned, PaidSoFar
    <2>4. BookCounts' /\ RestIsFair' /\ VaultBacksTheRest'
                      /\ QuoteBacksTheRest'
        BY <2>1, <2>3
        DEF BookInv, BookCounts, RestIsFair, VaultBacksTheRest,
            QuoteBacksTheRest
    <2>5. QED
        BY <2>2, <2>4 DEF BookInv
<1>5. CASE UNCHANGED vars
    BY <1>5, BookUntouched
    DEF vars, bookInvVars, positionVars, bookVars, vaultVars, eventVars
<1>6. CASE ReopenWindow
    BY <1>5, <1>6, ReopenBook
<1>7. QED
    BY <1>1, <1>2, <1>3, <1>4, <1>5, <1>6, WriteBook, ExerciseBook, SeizeBook,
       SettleBook
    DEF Next

\* Settlement conserves: as long as no window is postponed again after a
\* settlement, the vaults hold exactly what the writers still to settle are
\* due, whoever settles first, however often it was exercised, and however
\* often the window was postponed before.
THEOREM BookConserves == Spec /\ StaysClosed => []BookInv
<1>1. QED
    BY InitType, NextType, InitBook, NextBook, PTL DEF Spec, StaysClosed

\* Without a window that is postponed again after a settlement, a settlement
\* reports a shortfall only of raw units the permanent delegate has taken: no
\* order of the queue produces one by itself.
THEOREM NoShortfallWithoutSeizure ==
    Spec /\ StaysClosed => []ShortfallOnlyFromSeizure
<1>1. BookInv => ShortfallOnlyFromSeizure
    BY DEF BookInv, VaultBacksTheRest, ShortfallOnlyFromSeizure
<1>2. QED
    BY <1>1, BookConserves, PTL

\* Everyone has settled: nobody's contracts are outstanding.
LEMMA NothingOutstanding ==
    ASSUME TypeOK, \A w \in Writers : contracts[w] > 0 => w \in settled
    PROVE  Outstanding = 0
<1>1. \A w \in Writers \ settled : contracts[w] = 0
    BY DEF TypeOK
<1>2. UnitsOf(contracts, Writers \ settled) = {}
    BY <1>1 DEF UnitsOf
<1>3. QED
    BY <1>2, FS_EmptySet DEF Outstanding

LEMMA ClosedOutFromBook == TypeOK /\ BookInv => ClosedOut
<1> SUFFICES ASSUME TypeOK, BookInv,
                    \A w \in Writers : contracts[w] > 0 => w \in settled
             PROVE  /\ contracts_assigned_total = contracts_exercised
                    /\ collateral_vault = 0
                    /\ quote_vault = 0
                    /\ raw_shortfall = seized
    BY DEF ClosedOut
<1> DEFINE W == contracts_written
           e == contracts_exercised
           A == contracts_assigned_total
<1>1. /\ W \in Nat /\ e \in Nat /\ A \in Nat /\ quote_collected \in Nat
      /\ collateral_vault \in Nat /\ quote_vault \in Nat
      /\ raw_shortfall \in Nat /\ seized \in Nat
    BY BookNat
<1>2. e <= W /\ A <= e
    BY DEF BookInv, BookCounts
<1>3. Outstanding = 0
    BY NothingOutstanding
<1>4. A = e
    <2>1. CASE e = 0
        BY <1>1, <1>2, <2>1
    <2>2. CASE e # 0
        <3> DEFINE n == e - A
        <3>1. n \in Nat /\ 0 \in Nat /\ W \in Nat \ {0} /\ n * W <= 0 * e
            BY <1>1, <1>2, <1>3, <2>2 DEF BookInv, RestIsFair, Unassigned
        <3> HIDE DEF n, W, e, A
        <3>2. n <= 0
            BY <1>1, <1>2, <3>1, RestCovered
        <3>3. QED
            BY <1>1, <3>1, <3>2 DEF n
    <2>3. QED
        BY <2>1, <2>2
<1>5. collateral_vault = 0 /\ raw_shortfall = seized
    <2>1. Outstanding - Unassigned = 0
        BY <1>1, <1>3, <1>4 DEF Unassigned
    <2>2. DeliveryRaw(0) = 0
        BY DEF DeliveryRaw
    <2>3. QED
        BY <1>1, <2>1, <2>2 DEF BookInv, VaultBacksTheRest
<1>6. quote_vault = 0
    <2>1. CASE e = 0
        BY <1>1, <2>1 DEF BookInv, QuoteBacksTheRest, PaidSoFar
    <2>2. CASE e # 0
        <3>1. MulDivFloor(quote_collected, e, e) = quote_collected
            <4>1. quote_collected * e = e * quote_collected
                BY <1>1
            <4>2. (e * quote_collected) \div e = quote_collected
                BY <1>1, <2>2
            <4>3. QED
                BY <4>1, <4>2 DEF MulDivFloor
        <3>2. QED
            BY <1>1, <1>4, <2>2, <3>1
            DEF BookInv, QuoteBacksTheRest, PaidSoFar
    <2>3. QED
        BY <2>1, <2>2
<1>7. QED
    BY <1>4, <1>5, <1>6

\* Without a window that is postponed again after a settlement, the last
\* writer out leaves nothing behind: every exercised contract was assigned to
\* somebody, both vaults are paid out to the last unit, and the events have
\* reported exactly what was seized.
THEOREM BookClosesOut == Spec /\ StaysClosed => []ClosedOut
<1>1. QED
    BY TypeCorrect, BookConserves, ClosedOutFromBook, PTL

-----------------------------------------------------------------------------
(* What each writer is assigned and paid.                                  *)

\* settle_expired: the events of one settlement are the steps of the two
\* running totals.
LEMMA SettleEvents ==
    ASSUME TypeOK, BookInv, BookInv', NEW w \in Writers, SettleExpired(w)
    PROVE  LET a == ConservingAssignment(w)
           IN  /\ a \in Nat
               /\ a <= contracts[w]
               /\ assigned' = [assigned EXCEPT ![w] = a]
               /\ contracts_assigned_total' = contracts_assigned_total + a
               /\ contracts_assigned_total + a <= contracts_exercised
               /\ quote_paid' =
                      [quote_paid EXCEPT ![w] = PaidSoFar' - PaidSoFar]
<1> DEFINE a == ConservingAssignment(w)
           due == Payable(QuoteDue(a), quote_vault)
<1>1. a \in Nat /\ a <= contracts[w]
    BY AssignmentNat
<1>2. /\ assigned' = [assigned EXCEPT ![w] = a]
      /\ contracts_assigned_total' = contracts_assigned_total + a
      /\ quote_paid' = [quote_paid EXCEPT ![w] = due]
      /\ quote_vault' = quote_vault - due
      /\ quote_collected' = quote_collected
      /\ contracts_exercised' = contracts_exercised
    BY DEF SettleExpired
<1>3. contracts_assigned_total + a <= contracts_exercised
    BY <1>2 DEF BookInv, BookCounts
<1>4. /\ quote_vault = quote_collected - PaidSoFar
      /\ quote_vault - due = quote_collected - PaidSoFar'
    BY <1>2 DEF BookInv, QuoteBacksTheRest
<1>5. /\ quote_vault \in Nat /\ due \in Nat /\ quote_collected \in Nat
    BY <1>1, QuoteDueNat, ClampNat DEF TypeOK, Payable
<1>6. PaidSoFar \in Int /\ PaidSoFar' \in Int
    <2>1. PaidSoFar \in Nat
        <3>1. contracts_exercised # 0 =>
                  MulDivFloor(quote_collected, contracts_assigned_total,
                              contracts_exercised) \in Nat
            BY FloorBounds DEF TypeOK
        <3>2. QED
            BY <3>1 DEF PaidSoFar
    <2>2. PaidSoFar' \in Nat
        <3>1. contracts_exercised # 0 =>
                  MulDivFloor(quote_collected, contracts_assigned_total + a,
                              contracts_exercised) \in Nat
            <4>1. contracts_assigned_total + a \in Nat
                BY <1>1 DEF TypeOK
            <4>2. QED
                BY <4>1, FloorBounds DEF TypeOK
        <3>2. QED
            BY <1>2, <3>1 DEF PaidSoFar
    <2>3. QED
        BY <2>1, <2>2
<1> DEFINE before == PaidSoFar
           after == PaidSoFar'
<1> HIDE DEF due
<1>7. due = after - before
    <2>1. /\ quote_vault = quote_collected - before
          /\ quote_vault - due = quote_collected - after
          /\ before \in Int /\ after \in Int
        BY <1>4, <1>6
    <2> HIDE DEF before, after
    <2>2. QED
        BY <1>5, <2>1
<1>8. QED
    BY <1>1, <1>2, <1>3, <1>7

\* The difference of two running floors is within one unit of the pro-rata
\* part of the a contracts between them.
LEMMA StepIsFair ==
    ASSUME NEW q \in Nat, NEW A \in Nat, NEW a \in Nat, NEW e \in Nat \ {0}
    PROVE  LET paid == MulDivFloor(q, A + a, e) - MulDivFloor(q, A, e)
           IN  /\ paid * e <= q * a + e
               /\ q * a <= paid * e + e
<1> DEFINE x == MulDivFloor(q, A + a, e)
           y == MulDivFloor(q, A, e)
           qA == q * A
           qa == q * a
           xe == x * e
           ye == y * e
<1>1. /\ y \in Nat /\ ye <= qA /\ qA < ye + e
    BY FloorBounds
<1>2. /\ x \in Nat /\ xe <= q * (A + a) /\ q * (A + a) < xe + e
    <2>1. A + a \in Nat
        OBVIOUS
    <2>2. QED
        BY <2>1, FloorBounds
<1> HIDE DEF x, y
<1>3. q * (A + a) = qA + qa /\ (x - y) * e = xe - ye
    BY <1>1, <1>2
<1>4. qA \in Nat /\ qa \in Nat /\ xe \in Nat /\ ye \in Nat
    BY <1>1, <1>2, ProductNat
<1>5. xe - ye <= qa + e /\ qa <= xe - ye + e
    <2>1. xe <= qA + qa /\ qA + qa < xe + e
        BY <1>2, <1>3
    <2> HIDE DEF qA, qa, xe, ye
    <2>2. QED
        BY <1>1, <1>4, <2>1
<1>6. QED
    BY <1>3, <1>5 DEF x, y

\* The payment of one settlement, whichever place it has in the queue.
LEMMA SettleFair ==
    ASSUME TypeOK, BookInv, BookInv', NEW w \in Writers, SettleExpired(w)
    PROVE  LET due == quote_collected * assigned'[w]
               got == quote_paid'[w] * contracts_exercised
           IN  /\ got <= due + contracts_exercised
               /\ due <= got + contracts_exercised
<1> DEFINE a == ConservingAssignment(w)
           q == quote_collected
           e == contracts_exercised
           A == contracts_assigned_total
<1>1. /\ a \in Nat /\ q \in Nat /\ e \in Nat /\ A \in Nat
      /\ assigned \in [Writers -> Nat] /\ quote_paid \in [Writers -> Nat]
    BY AssignmentNat DEF TypeOK
<1>2. /\ assigned'[w] = a
      /\ quote_paid'[w] = PaidSoFar' - PaidSoFar
    BY <1>1, SettleEvents
<1>3. /\ contracts_assigned_total' = A + a
      /\ contracts_exercised' = e
      /\ quote_collected' = q
    BY DEF SettleExpired
<1>4. CASE e = 0
    <2>1. q = 0
        BY <1>4 DEF BookInv, QuoteBacksTheRest
    <2>2. PaidSoFar = 0 /\ PaidSoFar' = 0
        BY <1>3, <1>4 DEF PaidSoFar
    <2> HIDE DEF a
    <2>3. QED
        BY <1>1, <1>2, <1>4, <2>1, <2>2
<1>5. CASE e # 0
    <2>1. /\ PaidSoFar = MulDivFloor(q, A, e)
          /\ PaidSoFar' = MulDivFloor(q, A + a, e)
        BY <1>3, <1>5 DEF PaidSoFar
    <2> HIDE DEF a, q, e, A
    <2>2. LET paid == PaidSoFar' - PaidSoFar
          IN  paid * e <= q * a + e /\ q * a <= paid * e + e
        BY <1>1, <1>5, <2>1, StepIsFair
    <2>3. QED
        BY <1>2, <2>2 DEF q, e
<1>6. QED
    BY <1>4, <1>5

\* Nothing moves under a writer who has settled.
LEMMA SettledIsFinal ==
    ASSUME TypeOK, TypeOK', BookInv, [Next]_vars,
           \A w \in Writers : ~SettleExpired(w)
    PROVE  /\ settled' = settled
           /\ assigned' = assigned
           /\ quote_paid' = quote_paid
           /\ contracts_assigned_total' = contracts_assigned_total
           /\ settled # {} => /\ quote_collected' = quote_collected
                              /\ contracts_exercised' = contracts_exercised
<1>1. ASSUME NEW n \in Deposits, DepositPremium(n)
      PROVE  UNCHANGED <<settled, bookVars, eventVars>>
    BY <1>1 DEF DepositPremium, positionVars, bookVars, eventVars
<1>2. ASSUME NEW n \in 1 .. MaxSeized, Seize(n)
      PROVE  UNCHANGED <<settled, bookVars, eventVars>>
    BY <1>2 DEF Seize, positionVars, bookVars, eventVars
<1>3. ASSUME NEW w \in Writers, OpenPosition(w) \/ ClaimPremium(w)
      PROVE  UNCHANGED <<settled, bookVars, eventVars>>
    BY <1>3 DEF OpenPosition, ClaimPremium, positionVars, bookVars, eventVars
<1>4. CASE Expire \/ CloseWindow \/ ReopenWindow \/ UNCHANGED vars
    BY <1>4
    DEF Expire, CloseWindow, ReopenWindow, vars, positionVars, bookVars,
        eventVars
<1>5. ASSUME NEW w \in Writers, NEW k \in 1 .. MaxContracts,
             NEW m \in Multipliers, Write(w, k, m)
      PROVE  UNCHANGED <<settled, contracts_assigned_total, eventVars,
                         quote_collected, contracts_exercised>>
    BY <1>5 DEF Write, eventVars
<1>6. ASSUME NEW k \in 1 .. MaxContracts, NEW m \in Multipliers,
             Exercise(k, m)
      PROVE  /\ settled = {}
             /\ UNCHANGED <<settled, contracts_assigned_total, eventVars>>
    <2>1. phase # "Settled"
        BY <1>6 DEF Exercise
    <2>2. QED
        BY <1>6, <2>1 DEF Exercise, BookInv, BookOrder, positionVars, eventVars
<1>7. QED
    BY <1>1, <1>2, <1>3, <1>4, <1>5, <1>6 DEF Next, bookVars, eventVars

LEMMA NextQuote ==
    TypeOK /\ TypeOK' /\ BookInv /\ BookInv' /\ QuoteMatchesDelivery
        /\ [Next]_vars => QuoteMatchesDelivery'
<1> SUFFICES ASSUME TypeOK, TypeOK', BookInv, BookInv', QuoteMatchesDelivery,
                    [Next]_vars
             PROVE  QuoteMatchesDelivery'
    OBVIOUS
<1>1. CASE \A w \in Writers : ~SettleExpired(w)
    BY <1>1, SettledIsFinal DEF QuoteMatchesDelivery
<1>2. ASSUME NEW w \in Writers, SettleExpired(w)
      PROVE  QuoteMatchesDelivery'
    <2>1. /\ settled' = settled \cup {w}
          /\ quote_collected' = quote_collected
          /\ contracts_exercised' = contracts_exercised
        BY <1>2 DEF SettleExpired
    <2>2. \A v \in settled \ {w} : /\ assigned'[v] = assigned[v]
                                   /\ quote_paid'[v] = quote_paid[v]
        BY <1>2 DEF SettleExpired, TypeOK
    <2>3. LET due == quote_collected * assigned'[w]
              got == quote_paid'[w] * contracts_exercised
          IN  /\ got <= due + contracts_exercised
              /\ due <= got + contracts_exercised
        BY <1>2, SettleFair
    <2>4. QED
        BY <2>1, <2>2, <2>3 DEF QuoteMatchesDelivery
<1>3. QED
    BY <1>1, <1>2

\* Without a window that is postponed again after a settlement, each writer is
\* paid the average price of the contracts they were assigned, to one quote
\* unit, wherever they come in the queue and whoever exercised at which
\* strike.
THEOREM QuoteIsFair == Spec /\ StaysClosed => []QuoteMatchesDelivery
<1>1. Init => QuoteMatchesDelivery
    BY DEF Init, QuoteMatchesDelivery
<1>2. QED
    BY <1>1, InitType, NextType, InitBook, NextBook, NextQuote, PTL
    DEF Spec, StaysClosed

-----------------------------------------------------------------------------
(* Settlement is a lottery over what was exercised.                        *)

\* The totals of the lottery are the counts of the book.
LEMMA LotteryTotal ==
    ASSUME NEW f, NEW S
    PROVE  Lottery!Total(f, S) = Cardinality(UnitsOf(f, S))
    BY DEF Lottery!Total, Lottery!UnitsOf, UnitsOf, Cardinality,
           Lottery!Cardinality

\* The events of the settlements add up to the running total, those who have
\* not settled have no event, and the series keeps its limit.
EventsAddUp ==
    /\ contracts_assigned_total = Cardinality(UnitsOf(assigned, Writers))
    /\ \A w \in Writers \ settled : assigned[w] = 0
    /\ contracts_written <= MaxContracts

LEMMA InitEvents == Init => EventsAddUp
<1> SUFFICES ASSUME Init
             PROVE  EventsAddUp
    OBVIOUS
<1>1. UnitsOf(assigned, Writers) = {}
    BY DEF Init, UnitsOf, NoneYet
<1>2. QED
    BY <1>1, FS_EmptySet DEF Init, EventsAddUp, NoneYet

LEMMA SettleEventsAddUp ==
    ASSUME TypeOK, TypeOK', BookInv, BookInv', EventsAddUp, NEW w \in Writers,
           SettleExpired(w)
    PROVE  EventsAddUp'
<1> DEFINE a == ConservingAssignment(w)
           f == assigned
           g == assigned'
<1>1. /\ a \in Nat
      /\ g = [f EXCEPT ![w] = a]
      /\ contracts_assigned_total' = contracts_assigned_total + a
    BY SettleEvents
<1>2. /\ w \notin settled /\ settled' = settled \cup {w}
      /\ contracts_written' = contracts_written
    BY DEF SettleExpired
<1>3. f \in [Writers -> Nat] /\ g \in [Writers -> Nat]
    BY DEF TypeOK
<1>4. f[w] = 0 /\ g[w] = a /\ \A v \in Writers \ {w} : g[v] = f[v]
    BY <1>1, <1>2, <1>3 DEF EventsAddUp
<1>5. contracts_assigned_total = Cardinality(UnitsOf(f, Writers))
    BY DEF EventsAddUp
<1> HIDE DEF a, f, g
<1>6. Cardinality(UnitsOf(g, Writers))
          = Cardinality(UnitsOf(f, Writers)) + g[w] - f[w]
    BY <1>3, <1>4, UnitsWrite
<1>7. Cardinality(UnitsOf(f, Writers)) \in Nat
    BY <1>3, UnitsFinite
<1>8. contracts_assigned_total' = Cardinality(UnitsOf(g, Writers))
    BY <1>1, <1>4, <1>5, <1>6, <1>7
<1>9. \A v \in Writers \ settled' : assigned'[v] = 0
    BY <1>2, <1>4 DEF EventsAddUp, f, g
<1>10. (contracts_written <= MaxContracts)'
    BY <1>2 DEF EventsAddUp
<1>11. QED
    BY <1>8, <1>9, <1>10 DEF EventsAddUp, UnitsOf, g

LEMMA NextEvents ==
    TypeOK /\ TypeOK' /\ BookInv /\ BookInv' /\ EventsAddUp /\ [Next]_vars
        => EventsAddUp'
<1> SUFFICES ASSUME TypeOK, TypeOK', BookInv, BookInv', EventsAddUp,
                    [Next]_vars
             PROVE  EventsAddUp'
    OBVIOUS
<1>1. CASE \A w \in Writers : ~SettleExpired(w)
    <2>1. /\ settled' = settled
          /\ assigned' = assigned
          /\ contracts_assigned_total' = contracts_assigned_total
        BY <1>1, SettledIsFinal
    <2>2. (contracts_written <= MaxContracts)'
        <3>1. ASSUME NEW w \in Writers, NEW k \in 1 .. MaxContracts,
                     NEW m \in Multipliers, Write(w, k, m)
              PROVE  contracts_written' <= MaxContracts
            BY <3>1 DEF Write
        <3>2. ASSUME contracts_written' = contracts_written
              PROVE  contracts_written' <= MaxContracts
            BY <3>2 DEF EventsAddUp
        <3>3. ASSUME NEW n \in Deposits, DepositPremium(n)
              PROVE  contracts_written' = contracts_written
            BY <3>3 DEF DepositPremium, bookVars
        <3>4. ASSUME NEW n \in 1 .. MaxSeized, Seize(n)
              PROVE  contracts_written' = contracts_written
            BY <3>4 DEF Seize, bookVars
        <3>5. ASSUME NEW w \in Writers, OpenPosition(w) \/ ClaimPremium(w)
              PROVE  contracts_written' = contracts_written
            BY <3>5 DEF OpenPosition, ClaimPremium, bookVars
        <3>6. CASE Expire \/ CloseWindow \/ ReopenWindow \/ UNCHANGED vars
            BY <3>2, <3>6
            DEF Expire, CloseWindow, ReopenWindow, vars, bookVars
        <3>7. ASSUME NEW k \in 1 .. MaxContracts, NEW m \in Multipliers,
                     Exercise(k, m)
              PROVE  contracts_written' = contracts_written
            BY <3>7 DEF Exercise
        <3>8. QED
            BY <1>1, <3>1, <3>2, <3>3, <3>4, <3>5, <3>6, <3>7 DEF Next
    <2>3. QED
        BY <2>1, <2>2 DEF EventsAddUp, UnitsOf
<1>2. QED
    BY <1>1, SettleEventsAddUp

\* A write is a write of the lottery: nothing is exercised yet and nobody has
\* settled.
LEMMA WriteIsLottery ==
    ASSUME TypeOK, BookInv, EventsAddUp, NEW w \in Writers,
           NEW k \in 1 .. MaxContracts, NEW m \in Multipliers, Write(w, k, m)
    PROVE  Lottery!Write(w)
<1>1. /\ phase = "Active"
      /\ contracts_written + k <= MaxContracts
      /\ contracts' = [contracts EXCEPT ![w] = @ + k]
      /\ UNCHANGED <<contracts_exercised, assigned, settled>>
    BY DEF Write, eventVars
<1>2. settled = {} /\ contracts_exercised = 0
    BY <1>1 DEF BookInv, BookOrder
<1>3. Lottery!Total(contracts, Writers) = contracts_written
    BY LotteryTotal DEF BookInv, BookCounts
<1>4. k \in 1 .. MaxContracts - contracts_written
    BY <1>1 DEF TypeOK
<1>5. QED
    BY <1>1, <1>2, <1>3, <1>4 DEF Lottery!Write

\* An exercise is one of the lottery: nobody has settled.
LEMMA ExerciseIsLottery ==
    ASSUME TypeOK, BookInv, NEW k \in 1 .. MaxContracts,
           NEW m \in Multipliers, Exercise(k, m)
    PROVE  Lottery!Exercise
<1>1. /\ phase = "Settling"
      /\ contracts_exercised + k <= contracts_written
      /\ contracts_exercised' = contracts_exercised + k
      /\ UNCHANGED <<contracts, assigned, settled>>
    BY DEF Exercise, positionVars, eventVars
<1>2. settled = {}
    BY <1>1 DEF BookInv, BookOrder
<1>3. Lottery!Total(contracts, Writers) = contracts_written
    BY LotteryTotal DEF BookInv, BookCounts
<1>4. k \in 1 .. contracts_written - contracts_exercised
    BY <1>1 DEF TypeOK
<1>5. QED
    BY <1>1, <1>2, <1>3, <1>4 DEF Lottery!Exercise

\* A settlement draws a lot: never more than was written, and never so little
\* that the writers to come could not carry the rest.
LEMMA SettleIsLottery ==
    ASSUME TypeOK, TypeOK', BookInv, BookInv', EventsAddUp, NEW w \in Writers,
           SettleExpired(w)
    PROVE  Lottery!Assign(w)
<1> DEFINE a == ConservingAssignment(w)
           rest == Writers \ (settled \cup {w})
           U == Lottery!Total(contracts, rest)
           e == contracts_exercised
           A == contracts_assigned_total
           W == contracts_written
<1>1. /\ a \in Nat /\ a <= contracts[w]
      /\ assigned' = [assigned EXCEPT ![w] = a]
      /\ A + a <= e
      /\ contracts_assigned_total' = A + a
    BY SettleEvents
<1>2. /\ w \notin settled /\ contracts[w] > 0
      /\ settled' = settled \cup {w}
      /\ UNCHANGED <<contracts, contracts_exercised, contracts_written>>
    BY DEF SettleExpired
<1>3. /\ e \in Nat /\ A \in Nat /\ W \in Nat /\ contracts[w] \in Nat
    BY DEF TypeOK
<1>4. U = Outstanding'
    BY <1>2, LotteryTotal DEF Outstanding, UnitsOf
<1>5. U \in Nat
    <2>1. contracts \in [Writers -> Nat] /\ rest \in SUBSET Writers
        BY DEF TypeOK
    <2> HIDE DEF rest
    <2>2. Cardinality(UnitsOf(contracts, rest)) \in Nat
        BY <2>1, UnitsFinite
    <2>3. QED
        BY <2>2, LotteryTotal
<1>6. e <= W /\ (e - (A + a)) * W <= U * e
    <2>1. /\ RestIsFair' /\ BookCounts'
        BY DEF BookInv
    <2>2. /\ Unassigned' = e - (A + a)
          /\ contracts_written' = W /\ contracts_exercised' = e
        BY <1>1, <1>2 DEF Unassigned
    <2>3. QED
        BY <1>4, <2>1, <2>2 DEF RestIsFair, BookCounts
<1>7. W \in Nat \ {0}
    BY <1>2, <1>3, OwnContracts DEF BookInv, BookCounts
<1> HIDE DEF a, U, e, A, W
<1>8. e - (A + a) <= U
    <2>1. e - (A + a) \in Nat
        BY <1>1, <1>3
    <2>2. QED
        BY <1>3, <1>5, <1>6, <1>7, <2>1, RestCovered
<1>9. Lottery!Unassigned = e - A
    BY LotteryTotal DEF Lottery!Unassigned, EventsAddUp, e, A
<1>10. a \in 0 .. contracts[w]
    BY <1>1, <1>3
<1>11. Lottery!Unassigned - a \in 0 .. U
    BY <1>1, <1>3, <1>5, <1>8, <1>9
<1>12. QED
    BY <1>1, <1>2, <1>10, <1>11 DEF Lottery!Assign, U

LEMMA StepIsLottery ==
    TypeOK /\ TypeOK' /\ BookInv /\ BookInv' /\ EventsAddUp /\ [Next]_vars
        => [Lottery!Next]_(Lottery!vars)
<1> SUFFICES ASSUME TypeOK, TypeOK', BookInv, BookInv', EventsAddUp,
                    [Next]_vars
             PROVE  [Lottery!Next]_(Lottery!vars)
    OBVIOUS
<1>1. ASSUME UNCHANGED <<contracts, contracts_exercised, assigned, settled>>
      PROVE  UNCHANGED Lottery!vars
    BY <1>1 DEF Lottery!vars
<1>2. ASSUME NEW n \in Deposits, DepositPremium(n)
      PROVE  UNCHANGED Lottery!vars
    BY <1>1, <1>2 DEF DepositPremium, positionVars, bookVars, eventVars
<1>3. ASSUME NEW n \in 1 .. MaxSeized, Seize(n)
      PROVE  UNCHANGED Lottery!vars
    BY <1>1, <1>3 DEF Seize, positionVars, bookVars, eventVars
<1>4. ASSUME NEW w \in Writers, OpenPosition(w) \/ ClaimPremium(w)
      PROVE  UNCHANGED Lottery!vars
    BY <1>1, <1>4
    DEF OpenPosition, ClaimPremium, positionVars, bookVars, eventVars
<1>5. CASE Expire \/ CloseWindow \/ ReopenWindow \/ UNCHANGED vars
    BY <1>1, <1>5
    DEF Expire, CloseWindow, ReopenWindow, vars, positionVars, bookVars,
        eventVars
<1>6. QED
    BY <1>2, <1>3, <1>4, <1>5, WriteIsLottery, ExerciseIsLottery,
       SettleIsLottery
    DEF Next, Lottery!Next

\* Assignment is a lottery: whatever the rounding, every behaviour of the book
\* in which no window is postponed again after a settlement is one in which
\* each writer who settles is assigned a part of what they wrote, and those
\* who come later can carry exactly the rest.
THEOREM BookImplementsLottery == Spec /\ StaysClosed => ImplementsLottery
<1>1. Init => Lottery!Init
    BY DEF Init, Lottery!Init, NoneYet
<1>2. QED
    BY <1>1, InitType, NextType, InitBook, NextBook, InitEvents, NextEvents,
       StepIsLottery, PTL
    DEF Spec, StaysClosed, ImplementsLottery, Lottery!Spec

-----------------------------------------------------------------------------
(* The premium accumulator: what a series promises its writers, against    *)
(* what its premium vault holds, for any number of writers and any         *)
(* deposits.  First, sums over the writers.                                *)

\* A family of sets of writers that has the empty one, and every set that is
\* one writer larger than one of its own, has the set of all writers.
LEMMA WritersInduction ==
    ASSUME NEW Good, {} \in Good,
           \A T \in SUBSET Writers : \A w \in Writers \ T :
               T \in Good => T \cup {w} \in Good
    PROVE  Writers \in Good
<1> SUFFICES ASSUME Writers \notin Good
             PROVE  FALSE
    OBVIOUS
<1> DEFINE Bad == (SUBSET Writers) \ Good
           Sizes == {Cardinality(T) : T \in Bad}
<1>1. \A T \in SUBSET Writers : IsFiniteSet(T) /\ Cardinality(T) \in Nat
    BY FS_Subset, FS_CardinalityType
<1>2. Sizes \subseteq Nat
    BY <1>1
<1>3. Cardinality(Writers) \in Sizes
    <2>1. Writers \in Bad
        OBVIOUS
    <2> HIDE DEF Bad
    <2>2. QED
        BY <2>1
<1>4. PICK n \in Sizes : \A i \in Sizes : ~(<<i, n>> \in OpToRel(<, Nat))
    <2> HIDE DEF Sizes
    <2>1. QED
        BY <1>2, <1>3, WFMin, NatLessThanWellFounded
<1>5. \A i \in Sizes : ~(i < n)
    BY <1>2, <1>4 DEF OpToRel
<1>6. PICK T \in Bad : Cardinality(T) = n
    <2> HIDE DEF Bad
    <2>1. QED
        BY <1>4
<1>7. PICK w \in T : TRUE
    <2>1. T # {}
        BY <1>6
    <2> HIDE DEF Bad
    <2>2. QED
        BY <2>1
<1>8. /\ IsFiniteSet(T)
      /\ Cardinality(T) \in Nat
      /\ Cardinality(T \ {w}) = Cardinality(T) - 1
    <2>1. IsFiniteSet(T) /\ Cardinality(T) \in Nat
        BY <1>1
    <2>2. Cardinality(T \ {w}) = Cardinality(T) - 1
        BY <1>7, <2>1, FS_RemoveElement
    <2>3. QED
        BY <2>1, <2>2
<1>9. T \ {w} \notin Bad
    <2>1. Cardinality(T \ {w}) < n
        BY <1>6, <1>8
    <2>2. QED
        BY <1>5, <2>1
<1>10. /\ T \ {w} \in SUBSET Writers
       /\ w \in Writers \ (T \ {w})
       /\ T \ {w} \in Good
    BY <1>7, <1>9
<1>11. (T \ {w}) \cup {w} \in Good
    BY <1>10
<1>12. (T \ {w}) \cup {w} = T
    BY <1>7
<1>13. T \notin Good
    BY <1>6
<1>14. QED
    BY <1>11, <1>12, <1>13

\* No writers, no contracts.
LEMMA UnitsOfNobody ==
    ASSUME NEW f \in [Writers -> Nat]
    PROVE  Cardinality(UnitsOf(f, {})) = 0
<1>1. UnitsOf(f, {}) = {}
    BY DEF UnitsOf
<1>2. QED
    BY <1>1, FS_EmptySet

\* The sum of two families is the sum of their sums.
LEMMA UnitsPlus ==
    ASSUME NEW f \in [Writers -> Nat], NEW g \in [Writers -> Nat],
           NEW h \in [Writers -> Nat], \A w \in Writers : h[w] = f[w] + g[w]
    PROVE  Cardinality(UnitsOf(h, Writers))
               = Cardinality(UnitsOf(f, Writers))
                     + Cardinality(UnitsOf(g, Writers))
<1> DEFINE Sum(u, T) == Cardinality(UnitsOf(u, T))
           Good == {T \in SUBSET Writers : Sum(h, T) = Sum(f, T) + Sum(g, T)}
<1>1. {} \in Good
    <2>1. Sum(h, {}) = 0 /\ Sum(f, {}) = 0 /\ Sum(g, {}) = 0
        BY UnitsOfNobody
    <2>2. QED
        BY <2>1
<1>2. ASSUME NEW T \in SUBSET Writers, NEW w \in Writers \ T, T \in Good
      PROVE  T \cup {w} \in Good
    <2>1. /\ Sum(h, T \cup {w}) = Sum(h, T) + h[w]
          /\ Sum(f, T \cup {w}) = Sum(f, T) + f[w]
          /\ Sum(g, T \cup {w}) = Sum(g, T) + g[w]
        BY UnitsAdd
    <2>2. Sum(h, T) \in Nat /\ Sum(f, T) \in Nat /\ Sum(g, T) \in Nat
        BY UnitsFinite
    <2>3. /\ Sum(h, T) = Sum(f, T) + Sum(g, T)
          /\ f[w] \in Nat /\ g[w] \in Nat
          /\ h[w] = f[w] + g[w]
        BY <1>2
    <2>4. T \cup {w} \in SUBSET Writers
        OBVIOUS
    <2> HIDE DEF Sum
    <2>5. Sum(h, T \cup {w}) = Sum(f, T \cup {w}) + Sum(g, T \cup {w})
        BY <2>1, <2>2, <2>3
    <2>6. QED
        BY <2>4, <2>5
<1> HIDE DEF Good
<1>3. Writers \in Good
    BY <1>1, <1>2, WritersInduction
<1>4. QED
    BY <1>3 DEF Good

\* What is at most a multiple of another for every writer, is in the sum.
LEMMA UnitsAtMost ==
    ASSUME NEW f \in [Writers -> Nat], NEW g \in [Writers -> Nat],
           NEW a \in Nat, NEW x \in Nat,
           \A w \in Writers : a * f[w] <= x * g[w]
    PROVE  a * Cardinality(UnitsOf(f, Writers))
               <= x * Cardinality(UnitsOf(g, Writers))
<1> DEFINE Sum(u, T) == Cardinality(UnitsOf(u, T))
           Good == {T \in SUBSET Writers : a * Sum(f, T) <= x * Sum(g, T)}
<1>1. {} \in Good
    <2>1. Sum(f, {}) = 0 /\ Sum(g, {}) = 0
        BY UnitsOfNobody
    <2> HIDE DEF Sum
    <2>2. QED
        BY <2>1
<1>2. ASSUME NEW T \in SUBSET Writers, NEW w \in Writers \ T, T \in Good
      PROVE  T \cup {w} \in Good
    <2>1. /\ Sum(f, T \cup {w}) = Sum(f, T) + f[w]
          /\ Sum(g, T \cup {w}) = Sum(g, T) + g[w]
        BY UnitsAdd
    <2>2. Sum(f, T) \in Nat /\ Sum(g, T) \in Nat
        BY UnitsFinite
    <2>3. /\ a * Sum(f, T) <= x * Sum(g, T)
          /\ f[w] \in Nat /\ g[w] \in Nat
          /\ a * f[w] <= x * g[w]
        BY <1>2
    <2>4. T \cup {w} \in SUBSET Writers
        OBVIOUS
    <2> HIDE DEF Sum
    <2>5. /\ a * (Sum(f, T) + f[w]) = a * Sum(f, T) + a * f[w]
          /\ x * (Sum(g, T) + g[w]) = x * Sum(g, T) + x * g[w]
        BY <2>2, <2>3
    <2>6. /\ a * Sum(f, T) \in Nat /\ a * f[w] \in Nat
          /\ x * Sum(g, T) \in Nat /\ x * g[w] \in Nat
        BY <2>2, <2>3, ProductNat
    <2>7. a * Sum(f, T \cup {w}) <= x * Sum(g, T \cup {w})
        BY <2>1, <2>3, <2>5, <2>6
    <2>8. QED
        BY <2>4, <2>7
<1> HIDE DEF Good
<1>3. Writers \in Good
    BY <1>1, <1>2, WritersInduction
<1>4. QED
    BY <1>3 DEF Good

\* What falls short of a multiple of another by at most b for the writers in
\* R, and by nothing for the others, falls short by b for each of R in all.
LEMMA UnitsFallShort ==
    ASSUME NEW f \in [Writers -> Nat], NEW g \in [Writers -> Nat],
           NEW a \in Nat, NEW x \in Nat, NEW b \in Nat,
           NEW R \in SUBSET Writers,
           \A w \in R : x * g[w] <= a * f[w] + b,
           \A w \in Writers \ R : x * g[w] <= a * f[w]
    PROVE  x * Cardinality(UnitsOf(g, Writers))
               <= a * Cardinality(UnitsOf(f, Writers)) + b * Cardinality(R)
<1> DEFINE Sum(u, T) == Cardinality(UnitsOf(u, T))
           In(T) == Cardinality(T \cap R)
           Good == {T \in SUBSET Writers :
                       x * Sum(g, T) <= a * Sum(f, T) + b * In(T)}
<1>0. ASSUME NEW T \in SUBSET Writers
      PROVE  IsFiniteSet(T \cap R) /\ In(T) \in Nat
    <2>1. T \cap R \in SUBSET Writers
        OBVIOUS
    <2>2. IsFiniteSet(T \cap R)
        BY <2>1, FS_Subset
    <2>3. QED
        BY <2>2, FS_CardinalityType
<1>1. {} \in Good
    <2>1. Sum(f, {}) = 0 /\ Sum(g, {}) = 0
        BY UnitsOfNobody
    <2>2. In({}) = 0
        <3>1. {} \cap R = {}
            OBVIOUS
        <3>2. QED
            BY <3>1, FS_EmptySet
    <2> HIDE DEF Sum, In
    <2>3. QED
        BY <2>1, <2>2
<1>2. ASSUME NEW T \in SUBSET Writers, NEW w \in Writers \ T, T \in Good
      PROVE  T \cup {w} \in Good
    <2>1. /\ Sum(f, T \cup {w}) = Sum(f, T) + f[w]
          /\ Sum(g, T \cup {w}) = Sum(g, T) + g[w]
        BY UnitsAdd
    <2>2. Sum(f, T) \in Nat /\ Sum(g, T) \in Nat
        BY UnitsFinite
    <2>3. x * Sum(g, T) <= a * Sum(f, T) + b * In(T)
        BY <1>2
    <2>4. f[w] \in Nat /\ g[w] \in Nat
        OBVIOUS
    <2>5. T \cup {w} \in SUBSET Writers
        OBVIOUS
    <2>6. In(T) \in Nat
        BY <1>0
    <2>7. /\ w \in R => In(T \cup {w}) = In(T) + 1
          /\ w \notin R => In(T \cup {w}) = In(T)
        <3>1. CASE w \in R
            <4>1. (T \cup {w}) \cap R = (T \cap R) \cup {w}
                BY <3>1
            <4>2. w \notin T \cap R /\ IsFiniteSet(T \cap R)
                BY <1>0
            <4>3. Cardinality((T \cap R) \cup {w}) = Cardinality(T \cap R) + 1
                BY <4>2, FS_AddElement
            <4>4. QED
                BY <3>1, <4>1, <4>3
        <3>2. CASE w \notin R
            <4>1. (T \cup {w}) \cap R = T \cap R
                BY <3>2
            <4>2. QED
                BY <3>2, <4>1
        <3>3. QED
            BY <3>1, <3>2
    <2> HIDE DEF Sum, In
    <2>8. /\ a * (Sum(f, T) + f[w]) = a * Sum(f, T) + a * f[w]
          /\ x * (Sum(g, T) + g[w]) = x * Sum(g, T) + x * g[w]
          /\ b * (In(T) + 1) = b * In(T) + b
        BY <2>2, <2>4, <2>6
    <2>9. /\ a * Sum(f, T) \in Nat /\ a * f[w] \in Nat
          /\ x * Sum(g, T) \in Nat /\ x * g[w] \in Nat
          /\ b * In(T) \in Nat
        BY <2>2, <2>4, <2>6, ProductNat
    <2>10. CASE w \in R
        <3>1. x * g[w] <= a * f[w] + b
            BY <2>10
        <3>2. x * Sum(g, T \cup {w})
                  <= a * Sum(f, T \cup {w}) + b * In(T \cup {w})
            BY <2>1, <2>3, <2>7, <2>8, <2>9, <2>10, <3>1
        <3>3. QED
            BY <2>5, <3>2
    <2>11. CASE w \notin R
        <3>1. x * g[w] <= a * f[w]
            BY <2>11
        <3>2. x * Sum(g, T \cup {w})
                  <= a * Sum(f, T \cup {w}) + b * In(T \cup {w})
            BY <2>1, <2>3, <2>7, <2>8, <2>9, <2>11, <3>1
        <3>3. QED
            BY <2>5, <3>2
    <2>12. QED
        BY <2>10, <2>11
<1> HIDE DEF Good
<1>3. Writers \in Good
    BY <1>1, <1>2, WritersInduction
<1>4. Writers \cap R = R
    OBVIOUS
<1>5. QED
    BY <1>3, <1>4 DEF Good

-----------------------------------------------------------------------------
(* The arithmetic of an accrual.                                           *)

\* accrue_premium: the accumulator takes in what the contracts of the book
\* can share evenly, the credit marks what that comes to, rounded down, and
\* what neither can express waits in the pool.
LEMMA AccrualSplits ==
    ASSUME TypeOK,
           premium_credited_total <= premium_vault + premium_claimed_total
    PROVE  LET pool  == premium_vault + premium_claimed_total
               share == AccruedPerContract * contracts_written
               step  == AccruedCredit - premium_credited_total
           IN  /\ AccruedAcc = premium_per_contract_acc + AccruedPerContract
               /\ share \in Nat
               /\ step \in Nat
               /\ AccruedCredit = premium_credited_total + step
               /\ AccruedCredit <= pool
               /\ step * Scale <= share
               /\ share <= (step + AccrualRounds) * Scale
               /\ share <= (pool - premium_credited_total) * Scale
               /\ contracts_written > 0 =>
                      (pool - premium_credited_total) * Scale
                          < share + contracts_written
<1> DEFINE S == Scale
           W == contracts_written
           pc == AccruedPerContract
           cred == premium_credited_total
           pool == premium_vault + premium_claimed_total
           delta == pool - cred
           step == MulDivFloor(pc, W, S)
<1>1. /\ S \in Nat \ {0} /\ W \in Nat /\ pc \in Nat /\ cred \in Nat
      /\ pool \in Nat /\ delta \in Nat /\ AccrualRounds \in 0 .. 1
    BY AccrualNat DEF TypeOK
<1>2. step \in Nat /\ step * S <= pc * W /\ pc * W < step * S + S
    BY <1>1, FloorBounds
<1>3. SaturatingSub(pool, cred) = delta
    BY <1>1 DEF SaturatingSub
<1>4. pc = IF W = 0 THEN 0 ELSE MulDivFloor(delta, S, W)
    BY <1>3 DEF AccruedPerContract
<1>5. pc * W <= delta * S /\ (W > 0 => delta * S < pc * W + W)
    <2>1. CASE W = 0
        <3>1. delta * S \in Nat /\ pc * W = 0
            BY <1>1, <1>4, <2>1
        <3>2. QED
            BY <2>1, <3>1
    <2>2. CASE W # 0
        <3>1. pc = MulDivFloor(delta, S, W)
            BY <1>4, <2>2
        <3>2. W \in Nat \ {0}
            BY <1>1, <2>2
        <3> HIDE DEF delta, pc, W, S
        <3>3. QED
            BY <1>1, <3>1, <3>2, FloorBounds
    <2>3. QED
        BY <2>1, <2>2
<1>6. step <= delta
    <2> HIDE DEF step, delta, pc, W, S
    <2>1. pc * W \in Nat /\ delta * S \in Nat /\ step * S \in Nat
        BY <1>1, <1>2, ProductNat
    <2>2. step * S <= delta * S
        BY <1>2, <1>5, <2>1
    <2>3. QED
        BY <1>1, <1>2, <2>2, ProductCancel
<1>7. pc * W <= (step + AccrualRounds) * S
    <2>1. CASE pc > 0
        <3>1. AccrualRounds = 1
            BY <2>1 DEF AccrualRounds
        <3> HIDE DEF step, pc, W, S
        <3>2. (step + 1) * S = step * S + S
            BY <1>1, <1>2
        <3>3. pc * W \in Nat /\ step * S \in Nat
            BY <1>1, <1>2, ProductNat
        <3>4. QED
            BY <1>1, <1>2, <3>1, <3>2, <3>3
    <2>2. CASE pc = 0
        <3> HIDE DEF step, pc, W, S
        <3>1. pc * W = 0
            BY <1>1, <2>2
        <3>2. (step + AccrualRounds) * S \in Nat
            BY <1>1, <1>2, ProductNat
        <3>3. QED
            BY <3>1, <3>2
    <2>3. QED
        BY <1>1, <2>1, <2>2
<1>8. /\ AccruedCredit = cred + step
      /\ AccruedAcc = premium_per_contract_acc + pc
    BY DEF AccruedCredit, AccruedAcc
<1>9. /\ AccruedCredit - cred = step
      /\ AccruedCredit <= pool
    <2> HIDE DEF step
    <2>1. QED
        BY <1>1, <1>2, <1>6, <1>8
<1>10. pc * W \in Nat
    BY <1>1, ProductNat
<1> HIDE DEF step
<1>11. QED
    BY <1>2, <1>5, <1>7, <1>8, <1>9, <1>10

\* The books after a write, over numbers: with pc more per contract credited
\* to W contracts as step, k more contracts enter at e, which is what pc and
\* acc come to for them, rounded down.
LEMMA EntryKeepsPromise ==
    ASSUME NEW S \in Nat \ {0}, NEW acc \in Nat, NEW pc \in Nat,
           NEW W \in Nat, NEW k \in Nat, NEW cred \in Nat, NEW step \in Nat,
           NEW D \in Nat, NEW e \in Nat, NEW C \in Nat, NEW r \in Nat,
           NEW ar \in Nat,
           (cred + D) * S <= acc * W + C * S,
           acc * W + C * S <= (cred + D + r) * S,
           step * S <= pc * W, pc * W <= (step + ar) * S,
           e * S <= (acc + pc) * k, (acc + pc) * k < e * S + S
    PROVE  /\ (cred + step + (D + e)) * S <= (acc + pc) * (W + k) + C * S
           /\ (acc + pc) * (W + k) + C * S
                  <= (cred + step + (D + e) + (r + ar + 1)) * S
<1> DEFINE in == (acc + pc) * k
           old == acc * W
           new == pc * W
           c1 == (cred + D) * S
           c2 == step * S
           c3 == e * S
           c4 == r * S
           c5 == ar * S
           c6 == C * S
<1>1. /\ (acc + pc) * (W + k) = old + new + in
      /\ (cred + step + (D + e)) * S = c1 + c2 + c3
      /\ (cred + D + r) * S = c1 + c4
      /\ (step + ar) * S = c2 + c5
      /\ (cred + step + (D + e) + (r + ar + 1)) * S
             = c1 + c2 + c3 + c4 + c5 + S
    OBVIOUS
<1>2. /\ in \in Nat /\ old \in Nat /\ new \in Nat /\ c1 \in Nat /\ c2 \in Nat
      /\ c3 \in Nat /\ c4 \in Nat /\ c5 \in Nat /\ c6 \in Nat
    BY ProductNat
<1>3. /\ c1 <= old + c6 /\ old + c6 <= c1 + c4
      /\ c2 <= new /\ new <= c2 + c5
      /\ c3 <= in /\ in < c3 + S
    BY <1>1
<1>4. /\ c1 + c2 + c3 <= old + new + in + c6
      /\ old + new + in + c6 <= c1 + c2 + c3 + c4 + c5 + S
    <2> HIDE DEF in, old, new, c1, c2, c3, c4, c5, c6
    <2>1. QED
        BY <1>2, <1>3
<1>5. QED
    BY <1>1, <1>4

\* The books after a claim, over numbers: a payout p raises a debt and the
\* claimed total by as much.
LEMMA PayoutKeepsPromise ==
    ASSUME NEW S \in Nat \ {0}, NEW acc \in Nat, NEW pc \in Nat,
           NEW W \in Nat, NEW cred \in Nat, NEW step \in Nat, NEW D \in Nat,
           NEW C \in Nat, NEW p \in Nat, NEW r \in Nat, NEW ar \in Nat,
           (cred + D) * S <= acc * W + C * S,
           acc * W + C * S <= (cred + D + r) * S,
           step * S <= pc * W, pc * W <= (step + ar) * S
    PROVE  /\ (cred + step + (D + p)) * S <= (acc + pc) * W + (C + p) * S
           /\ (acc + pc) * W + (C + p) * S
                  <= (cred + step + (D + p) + (r + ar)) * S
<1> DEFINE old == acc * W
           new == pc * W
           c1 == (cred + D) * S
           c2 == step * S
           c3 == p * S
           c4 == r * S
           c5 == ar * S
           c6 == C * S
<1>1. /\ (acc + pc) * W = old + new
      /\ (C + p) * S = c6 + c3
      /\ (cred + step + (D + p)) * S = c1 + c2 + c3
      /\ (cred + D + r) * S = c1 + c4
      /\ (step + ar) * S = c2 + c5
      /\ (cred + step + (D + p) + (r + ar)) * S = c1 + c2 + c3 + c4 + c5
    OBVIOUS
<1>2. /\ old \in Nat /\ new \in Nat /\ c1 \in Nat /\ c2 \in Nat
      /\ c3 \in Nat /\ c4 \in Nat /\ c5 \in Nat /\ c6 \in Nat
    BY ProductNat
<1>3. /\ c1 <= old + c6 /\ old + c6 <= c1 + c4
      /\ c2 <= new /\ new <= c2 + c5
    BY <1>1
<1>4. /\ c1 + c2 + c3 <= old + new + (c6 + c3)
      /\ old + new + (c6 + c3) <= c1 + c2 + c3 + c4 + c5
    <2> HIDE DEF old, new, c1, c2, c3, c4, c5, c6
    <2>1. QED
        BY <1>2, <1>3
<1>5. QED
    BY <1>1, <1>4

\* A writer of c contracts after an accrual, over numbers: what the contracts
\* earned is still covered by what was credited since the writer joined at j.
LEMMA AccrualCoversLater ==
    ASSUME NEW S \in Nat \ {0}, NEW acc \in Nat, NEW pc \in Nat,
           NEW W \in Nat, NEW c \in Nat, NEW cred \in Nat, NEW step \in Nat,
           NEW d \in Nat, NEW got \in Nat, NEW r \in Nat, NEW ar \in Nat,
           acc * c + got * S <= (d + cred + r) * S,
           c <= W, pc * W <= (step + ar) * S
    PROVE  (acc + pc) * c + got * S <= (d + (cred + step) + (r + ar)) * S
<1> DEFINE own == acc * c
           new == pc * c
           c1 == (d + cred + r) * S
           c2 == (step + ar) * S
           c3 == got * S
<1>1. /\ (acc + pc) * c = own + new
      /\ (d + (cred + step) + (r + ar)) * S = c1 + c2
    OBVIOUS
<1>2. /\ own \in Nat /\ new \in Nat /\ c1 \in Nat /\ c2 \in Nat /\ c3 \in Nat
    BY ProductNat
<1>3. new <= c2
    <2>1. c * pc <= W * pc
        BY ProductMonotone
    <2>2. /\ c * pc = new
          /\ W * pc = pc * W
          /\ pc * W \in Nat
        OBVIOUS
    <2> HIDE DEF new, c2
    <2>3. pc * W <= c2
        BY DEF c2
    <2>4. QED
        BY <1>2, <2>1, <2>2, <2>3
<1>4. own + c3 <= c1
    OBVIOUS
<1>5. own + new + c3 <= c1 + c2
    <2> HIDE DEF own, new, c1, c2, c3
    <2>1. QED
        BY <1>2, <1>3, <1>4
<1>6. QED
    BY <1>1, <1>5

-----------------------------------------------------------------------------
(* What the premium counters keep to.                                      *)

\* The debts of all writers: their entries, and what they were paid.
Debts == Cardinality(UnitsOf(premium_debt, Writers))

\* The series counts the contracts its writers hold, and keeps its limit.
WrittenIsHeld ==
    /\ contracts_written = Cardinality(UnitsOf(contracts, Writers))
    /\ contracts_written <= MaxContracts

\* Premium in the vault and premium paid out are all that ever arrived, and
\* nothing is credited that did not.
PoolIsWhatArrived ==
    /\ premium_vault + premium_claimed_total = premium_in
    /\ premium_credited_total <= premium_in

\* A writer without contracts has no part in the premium.
NothingForNothing ==
    \A w \in Writers :
        /\ contracts[w] = 0 => /\ premium_debt[w] = 0
                               /\ premium_claimed[w] = 0
                               /\ joined[w] = 0
        /\ w \notin opened => contracts[w] = 0

\* A debt is never more than the contracts earned since the series opened.
DebtIsEarned ==
    \A w \in Writers :
        premium_debt[w] * Scale <= premium_per_contract_acc * contracts[w]

\* The accumulator has promised the whole book what was credited and what the
\* writers entered at, and one unit more for each rounding at most.
CreditIsPromised ==
    LET promised == premium_per_contract_acc * contracts_written
                        + premium_claimed_total * Scale
    IN  /\ (premium_credited_total + Debts) * Scale <= promised
        /\ promised <= (premium_credited_total + Debts + roundings) * Scale

\* What one writer's contracts earned, on top of their debt, was credited
\* after the writer joined.
EarnedAfterJoining ==
    \A w \in Writers :
        contracts[w] > 0 =>
            premium_per_contract_acc * contracts[w]
                + (premium_claimed[w] + joined[w]) * Scale
                <= (premium_debt[w] + premium_credited_total + roundings)
                       * Scale

PremiumInv ==
    /\ WrittenIsHeld
    /\ PoolIsWhatArrived
    /\ NothingForNothing
    /\ DebtIsEarned
    /\ CreditIsPromised
    /\ EarnedAfterJoining

\* The state of the accumulator, as the numbers the lemmas are about.
LEMMA PremiumNumbers ==
    ASSUME TypeOK, PremiumInv
    PROVE  LET step == AccruedCredit - premium_credited_total
           IN  /\ premium_per_contract_acc \in Nat
               /\ AccruedPerContract \in Nat
               /\ contracts_written \in Nat
               /\ contracts_written <= Scale
               /\ premium_credited_total \in Nat
               /\ step \in Nat
               /\ Debts \in Nat
               /\ premium_claimed_total \in Nat
               /\ roundings \in Nat
               /\ AccrualRounds \in Nat
               /\ AccruedAcc = premium_per_contract_acc + AccruedPerContract
               /\ AccruedCredit = premium_credited_total + step
               /\ AccruedCredit <= premium_in
               /\ step * Scale <= AccruedPerContract * contracts_written
               /\ AccruedPerContract * contracts_written
                      <= (step + AccrualRounds) * Scale
               /\ AccruedPerContract * contracts_written
                      <= (premium_in - premium_credited_total) * Scale
               /\ contracts_written > 0 =>
                      (premium_in - premium_credited_total) * Scale
                          < AccruedPerContract * contracts_written
                                + contracts_written
<1>1. /\ premium_vault + premium_claimed_total = premium_in
      /\ premium_credited_total <= premium_vault + premium_claimed_total
    BY DEF PremiumInv, PoolIsWhatArrived
<1>2. premium_debt \in [Writers -> Nat]
    BY DEF TypeOK
<1>3. Debts \in Nat
    BY <1>2, UnitsFinite DEF Debts
<1>4. contracts_written <= Scale
    BY DEF PremiumInv, WrittenIsHeld, TypeOK
<1>5. /\ premium_per_contract_acc \in Nat /\ contracts_written \in Nat
      /\ premium_credited_total \in Nat /\ premium_claimed_total \in Nat
      /\ roundings \in Nat /\ AccruedPerContract \in Nat
      /\ AccrualRounds \in Nat
    BY AccrualNat DEF TypeOK
<1>6. QED
    BY <1>1, <1>3, <1>4, <1>5, AccrualSplits

LEMMA InitPremium == Init => PremiumInv
<1> SUFFICES ASSUME Init
             PROVE  PremiumInv
    OBVIOUS
<1>1. TypeOK
    BY InitType
<1>2. /\ contracts = NoneYet /\ premium_debt = NoneYet
      /\ premium_claimed = NoneYet /\ joined = NoneYet
      /\ contracts_written = 0 /\ premium_per_contract_acc = 0
      /\ premium_credited_total = 0 /\ premium_claimed_total = 0
      /\ premium_vault = 0 /\ premium_in = 0 /\ roundings = 0
    BY DEF Init
<1>3. UnitsOf(premium_debt, Writers) = {}
    BY <1>2 DEF UnitsOf, NoneYet
<1>4. Debts = 0
    BY <1>3, FS_EmptySet DEF Debts
<1>5. \A w \in Writers : /\ contracts[w] = 0 /\ premium_debt[w] = 0
                          /\ premium_claimed[w] = 0 /\ joined[w] = 0
    BY <1>2 DEF NoneYet
<1>6. WrittenIsHeld /\ PoolIsWhatArrived
    <2>1. UnitsOf(contracts, Writers) = {}
        BY <1>5 DEF UnitsOf
    <2>2. Cardinality(UnitsOf(contracts, Writers)) = 0
        BY <2>1, FS_EmptySet
    <2>3. QED
        BY <1>2, <2>2 DEF WrittenIsHeld, PoolIsWhatArrived
<1>7. NothingForNothing /\ DebtIsEarned /\ EarnedAfterJoining
    BY <1>2, <1>5 DEF NothingForNothing, DebtIsEarned, EarnedAfterJoining
<1>8. CreditIsPromised
    BY <1>2, <1>4 DEF CreditIsPromised
<1>9. QED
    BY <1>6, <1>7, <1>8 DEF PremiumInv

\* A step that leaves the premium and the contracts alone.
LEMMA PremiumUntouched ==
    ASSUME PremiumInv, opened \subseteq opened',
           UNCHANGED <<contracts, contracts_written, premiumVars>>
    PROVE  PremiumInv'
<1>1. /\ contracts' = contracts
      /\ contracts_written' = contracts_written
      /\ premium_debt' = premium_debt
      /\ premium_claimed' = premium_claimed
      /\ premium_per_contract_acc' = premium_per_contract_acc
      /\ premium_credited_total' = premium_credited_total
      /\ premium_claimed_total' = premium_claimed_total
      /\ premium_vault' = premium_vault
      /\ premium_in' = premium_in
      /\ roundings' = roundings
      /\ joined' = joined
    BY DEF premiumVars
<1>2. Debts' = Debts
    BY <1>1 DEF Debts, UnitsOf
<1>3. NothingForNothing'
    BY <1>1 DEF PremiumInv, NothingForNothing
<1>4. WrittenIsHeld' /\ PoolIsWhatArrived'
    BY <1>1 DEF PremiumInv, WrittenIsHeld, PoolIsWhatArrived, UnitsOf
<1>5. DebtIsEarned' /\ EarnedAfterJoining'
    BY <1>1 DEF PremiumInv, DebtIsEarned, EarnedAfterJoining
<1>6. CreditIsPromised'
    BY <1>1, <1>2 DEF PremiumInv, CreditIsPromised
<1>7. QED
    BY <1>3, <1>4, <1>5, <1>6 DEF PremiumInv

\* Premium that arrives waits in the pool for the next accrual.
LEMMA DepositPremiumInv ==
    ASSUME TypeOK, PremiumInv, NEW n \in Deposits, DepositPremium(n)
    PROVE  PremiumInv'
<1>1. /\ contracts' = contracts
      /\ opened' = opened
      /\ contracts_written' = contracts_written
      /\ premium_debt' = premium_debt
      /\ premium_claimed' = premium_claimed
      /\ premium_per_contract_acc' = premium_per_contract_acc
      /\ premium_credited_total' = premium_credited_total
      /\ premium_claimed_total' = premium_claimed_total
      /\ premium_vault' = premium_vault + n
      /\ premium_in' = premium_in + n
      /\ roundings' = roundings
      /\ joined' = joined
    BY DEF DepositPremium, positionVars, bookVars
<1>2. Debts' = Debts
    BY <1>1 DEF Debts, UnitsOf
<1>3. NothingForNothing'
    BY <1>1 DEF PremiumInv, NothingForNothing
<1>4. WrittenIsHeld'
    BY <1>1 DEF PremiumInv, WrittenIsHeld, UnitsOf
<1>5. PoolIsWhatArrived'
    <2>1. /\ n \in Nat /\ premium_vault \in Nat /\ premium_in \in Nat
          /\ premium_claimed_total \in Nat /\ premium_credited_total \in Nat
        BY DEF TypeOK
    <2>2. QED
        BY <1>1, <2>1 DEF PremiumInv, PoolIsWhatArrived
<1>6. DebtIsEarned' /\ EarnedAfterJoining'
    BY <1>1 DEF PremiumInv, DebtIsEarned, EarnedAfterJoining
<1>7. CreditIsPromised'
    BY <1>1, <1>2 DEF PremiumInv, CreditIsPromised
<1>8. QED
    BY <1>3, <1>4, <1>5, <1>6, <1>7 DEF PremiumInv

\* claim_premium: what is paid out becomes debt, so nothing is promised twice.
LEMMA ClaimPremiumInv ==
    ASSUME TypeOK, PremiumInv, NEW w \in Writers, ClaimPremium(w)
    PROVE  PremiumInv'
<1> DEFINE S == Scale
           acc == premium_per_contract_acc
           pc == AccruedPerContract
           W == contracts_written
           cred == premium_credited_total
           step == AccruedCredit - premium_credited_total
           C == premium_claimed_total
           r == roundings
           ar == AccrualRounds
           p == Payable(PremiumOwed(w, AccruedAcc), premium_vault)
<1>1. /\ acc \in Nat /\ pc \in Nat /\ W \in Nat /\ cred \in Nat
      /\ step \in Nat /\ Debts \in Nat /\ C \in Nat /\ r \in Nat
      /\ ar \in Nat /\ S \in Nat \ {0}
    BY PremiumNumbers
<1>2. /\ AccruedAcc = acc + pc
      /\ AccruedCredit = cred + step
      /\ AccruedCredit <= premium_in
      /\ step * S <= pc * W
      /\ pc * W <= (step + ar) * S
    BY PremiumNumbers
<1>3. /\ p \in Nat /\ p <= premium_vault
      /\ p <= PremiumOwed(w, AccruedAcc)
      /\ PremiumOwed(w, AccruedAcc) \in Nat
    BY EntitlementNat, ClampNat DEF TypeOK, Payable
<1>4. /\ p > 0
      /\ premium_per_contract_acc' = acc + pc
      /\ premium_credited_total' = cred + step
      /\ premium_vault' = premium_vault - p
      /\ premium_claimed_total' = C + p
      /\ premium_debt' = [premium_debt EXCEPT ![w] = @ + p]
      /\ premium_claimed' = [premium_claimed EXCEPT ![w] = @ + p]
      /\ roundings' = r + ar
      /\ opened' = opened
      /\ contracts' = contracts
      /\ contracts_written' = W
      /\ premium_in' = premium_in
      /\ joined' = joined
    BY <1>2 DEF ClaimPremium, AccruePremium, positionVars, bookVars
<1> HIDE DEF p
<1>5. /\ contracts \in [Writers -> Nat] /\ premium_debt \in [Writers -> Nat]
      /\ premium_claimed \in [Writers -> Nat] /\ joined \in [Writers -> Nat]
    BY DEF TypeOK
<1>6. /\ premium_debt' \in [Writers -> Nat]
      /\ premium_debt'[w] = premium_debt[w] + p
      /\ premium_claimed'[w] = premium_claimed[w] + p
      /\ \A v \in Writers \ {w} : /\ premium_debt'[v] = premium_debt[v]
                                   /\ premium_claimed'[v] = premium_claimed[v]
    BY <1>3, <1>4, <1>5
<1>7. Debts' = Debts + p
    <2>1. Cardinality(UnitsOf(premium_debt', Writers))
              = Cardinality(UnitsOf(premium_debt, Writers))
                    + premium_debt'[w] - premium_debt[w]
        <3> DEFINE f == premium_debt
                   g == premium_debt'
        <3>1. /\ f \in [Writers -> Nat] /\ g \in [Writers -> Nat]
              /\ \A v \in Writers \ {w} : g[v] = f[v]
            BY <1>5, <1>6
        <3> HIDE DEF f, g
        <3>2. Cardinality(UnitsOf(g, Writers))
                  = Cardinality(UnitsOf(f, Writers)) + g[w] - f[w]
            BY <3>1, UnitsWrite
        <3>3. QED
            BY <3>2 DEF f, g
    <2>2. premium_debt[w] \in Nat
        BY <1>5
    <2>3. Debts' = Debts + premium_debt'[w] - premium_debt[w]
        BY <2>1 DEF Debts, UnitsOf
    <2>4. QED
        BY <1>1, <1>3, <1>6, <2>2, <2>3
<1>8. NothingForNothing'
    <2>1. contracts[w] # 0
        <3>1. SUFFICES ASSUME contracts[w] = 0
                       PROVE  FALSE
            OBVIOUS
        <3>2. premium_debt[w] = 0
            BY <3>1 DEF PremiumInv, NothingForNothing
        <3>3. MulDivFloor(AccruedAcc, contracts[w], Scale) = 0
            BY <3>1, AccrualNat, FloorOfNothing
        <3>4. PremiumOwed(w, AccruedAcc) = 0
            BY <3>2, <3>3 DEF PremiumOwed, SaturatingSub
        <3>5. QED
            BY <1>3, <1>4, <3>4
    <2>2. QED
        BY <1>4, <1>6, <2>1 DEF PremiumInv, NothingForNothing
<1>9. WrittenIsHeld'
    BY <1>4 DEF PremiumInv, WrittenIsHeld, UnitsOf
<1>10. PoolIsWhatArrived'
    <2>1. premium_vault \in Nat /\ premium_in \in Nat
        BY DEF TypeOK
    <2>2. QED
        BY <1>1, <1>2, <1>3, <1>4, <2>1 DEF PremiumInv, PoolIsWhatArrived
<1>11. DebtIsEarned'
    <2> SUFFICES ASSUME NEW v \in Writers
                 PROVE  premium_debt'[v] * S <= (acc + pc) * contracts[v]
        BY <1>4 DEF DebtIsEarned
    <2>1. premium_debt[v] * S <= acc * contracts[v]
        BY DEF PremiumInv, DebtIsEarned
    <2>2. contracts[v] \in Nat /\ premium_debt[v] \in Nat
        BY <1>5
    <2>3. /\ (acc + pc) * contracts[v] = acc * contracts[v] + pc * contracts[v]
          /\ acc * contracts[v] \in Nat /\ pc * contracts[v] \in Nat
          /\ premium_debt[v] * S \in Nat
        BY <1>1, <2>2
    <2>4. premium_debt[v] * S <= (acc + pc) * contracts[v]
        BY <2>1, <2>3
    <2>5. CASE v # w
        BY <1>6, <2>4, <2>5
    <2>6. CASE v = w
        <3> DEFINE F == MulDivFloor(AccruedAcc, contracts[w], Scale)
        <3>1. /\ F \in Nat
              /\ F * S <= (acc + pc) * contracts[w]
            BY <1>2, <2>2, <2>6, AccrualNat, FloorBounds
        <3>2. PremiumOwed(w, AccruedAcc) = SaturatingSub(F, premium_debt[w])
            BY DEF PremiumOwed
        <3> HIDE DEF F
        <3>3. premium_debt[w] + p <= F
            BY <1>3, <1>4, <2>2, <2>6, <3>1, <3>2 DEF SaturatingSub
        <3>4. (premium_debt[w] + p) * S <= F * S
            BY <1>1, <1>3, <2>2, <2>6, <3>1, <3>3, ProductMonotone
        <3>5. /\ (premium_debt[w] + p) * S \in Nat /\ F * S \in Nat
              /\ (acc + pc) * contracts[w] \in Nat
            BY <1>1, <1>3, <2>2, <2>6, <3>1
        <3>6. (premium_debt[w] + p) * S <= (acc + pc) * contracts[w]
            BY <3>1, <3>4, <3>5
        <3>7. QED
            BY <1>6, <2>6, <3>6
    <2>7. QED
        BY <2>5, <2>6
<1>12. CreditIsPromised'
    <2>1. /\ (cred + Debts) * S <= acc * W + C * S
          /\ acc * W + C * S <= (cred + Debts + r) * S
        BY DEF PremiumInv, CreditIsPromised
    <2> DEFINE D == Debts
    <2>2. D \in Nat
        BY <1>1
    <2> HIDE DEF S, acc, pc, W, cred, step, C, r, ar, D
    <2>3. /\ (cred + step + (D + p)) * S <= (acc + pc) * W + (C + p) * S
          /\ (acc + pc) * W + (C + p) * S
                 <= (cred + step + (D + p) + (r + ar)) * S
        BY <1>1, <1>2, <1>3, <2>1, <2>2, PayoutKeepsPromise DEF D
    <2>4. QED
        BY <1>4, <1>7, <2>3
        DEF CreditIsPromised, S, acc, pc, W, cred, step, C, r, ar, D
<1>13. EarnedAfterJoining'
    <2> SUFFICES ASSUME NEW v \in Writers, contracts[v] > 0
                 PROVE  (acc + pc) * contracts[v]
                            + (premium_claimed'[v] + joined[v]) * S
                            <= (premium_debt'[v] + (cred + step) + (r + ar)) * S
        BY <1>4 DEF EarnedAfterJoining
    <2> DEFINE c == contracts[v]
               d == premium_debt[v]
               got == premium_claimed[v] + joined[v]
    <2>1. /\ c \in Nat /\ d \in Nat /\ got \in Nat
          /\ premium_claimed[v] \in Nat /\ joined[v] \in Nat
        BY <1>5
    <2>2. acc * c + got * S <= (d + cred + r) * S
        BY DEF PremiumInv, EarnedAfterJoining
    <2>3. c <= W
        BY OwnContracts DEF PremiumInv, WrittenIsHeld
    <2>4. (acc + pc) * c + got * S <= (d + (cred + step) + (r + ar)) * S
        <3> HIDE DEF S, acc, pc, W, cred, step, r, ar, c, d, got
        <3>1. QED
            BY <1>1, <1>2, <2>1, <2>2, <2>3, AccrualCoversLater
    <2>5. CASE v # w
        <3>1. /\ premium_claimed'[v] = premium_claimed[v]
              /\ premium_debt'[v] = premium_debt[v]
            BY <1>6, <2>5
        <3>2. QED
            BY <2>4, <3>1
    <2>6. CASE v = w
        <3>1. /\ premium_claimed'[v] + joined[v] = got + p
              /\ premium_debt'[v] = d + p
            BY <1>3, <1>6, <2>1, <2>6
        <3> DEFINE lhs == (acc + pc) * c
                   x == got * S
                   y == (d + (cred + step) + (r + ar)) * S
                   z == p * S
        <3>2. /\ (got + p) * S = x + z
              /\ (d + p + (cred + step) + (r + ar)) * S = y + z
            <4> HIDE DEF S, acc, pc, W, cred, step, r, ar, c, d, got
            <4>1. QED
                BY <1>1, <1>3, <2>1
        <3>3. lhs \in Nat /\ x \in Nat /\ y \in Nat /\ z \in Nat
            <4> HIDE DEF S, acc, pc, W, cred, step, r, ar, c, d, got
            <4>1. d + (cred + step) + (r + ar) \in Nat /\ acc + pc \in Nat
                BY <1>1, <2>1
            <4>2. QED
                BY <1>1, <1>3, <2>1, <4>1, ProductNat
        <3>4. lhs + x <= y
            BY <2>4
        <3>5. lhs + (x + z) <= y + z
            <4> HIDE DEF lhs, x, y, z
            <4>1. QED
                BY <3>3, <3>4
        <3>6. lhs + (got + p) * S <= (d + p + (cred + step) + (r + ar)) * S
            BY <3>2, <3>5
        <3>7. QED
            BY <3>1, <3>6
    <2>7. QED
        BY <2>5, <2>6
<1>14. QED
    BY <1>8, <1>9, <1>10, <1>11, <1>12, <1>13 DEF PremiumInv

\* write: the book is credited before it grows, and the new contracts enter
\* at what a contract has earned so far.
LEMMA WritePremiumInv ==
    ASSUME TypeOK, PremiumInv, NEW w \in Writers,
           NEW k \in 1 .. MaxContracts, NEW m \in Multipliers, Write(w, k, m)
    PROVE  PremiumInv'
<1> DEFINE S == Scale
           acc == premium_per_contract_acc
           pc == AccruedPerContract
           W == contracts_written
           cred == premium_credited_total
           step == AccruedCredit - premium_credited_total
           C == premium_claimed_total
           r == roundings
           ar == AccrualRounds
           e == EntryDebt(k)
<1>1. /\ acc \in Nat /\ pc \in Nat /\ W \in Nat /\ cred \in Nat
      /\ step \in Nat /\ Debts \in Nat /\ C \in Nat /\ r \in Nat
      /\ ar \in Nat /\ S \in Nat \ {0} /\ k \in Nat /\ k > 0 /\ W <= S
    BY PremiumNumbers
<1>2. /\ AccruedAcc = acc + pc
      /\ AccruedCredit = cred + step
      /\ AccruedCredit <= premium_in
      /\ step * S <= pc * W
      /\ pc * W <= (step + ar) * S
      /\ W > 0 => (premium_in - cred) * S < pc * W + W
    BY PremiumNumbers
<1>3. /\ e \in Nat
      /\ e * S <= (acc + pc) * k
      /\ (acc + pc) * k < e * S + S
    BY <1>1, <1>2, AccrualNat, FloorBounds DEF EntryDebt
<1>4. /\ premium_per_contract_acc' = acc + pc
      /\ premium_credited_total' = cred + step
      /\ premium_vault' = premium_vault
      /\ premium_claimed_total' = C
      /\ premium_debt' = [premium_debt EXCEPT ![w] = @ + e]
      /\ premium_claimed' = premium_claimed
      /\ roundings' = r + ar + 1
      /\ opened' = opened
      /\ w \in opened
      /\ contracts' = [contracts EXCEPT ![w] = @ + k]
      /\ contracts_written' = W + k
      /\ W + k <= MaxContracts
      /\ premium_in' = premium_in
      /\ joined' = IF contracts[w] = 0 /\ W > 0
                   THEN [joined EXCEPT ![w] = premium_in]
                   ELSE joined
    BY <1>2 DEF Write, AccruePremium
<1>5. /\ contracts \in [Writers -> Nat] /\ premium_debt \in [Writers -> Nat]
      /\ premium_claimed \in [Writers -> Nat] /\ joined \in [Writers -> Nat]
      /\ premium_in \in Nat /\ premium_vault \in Nat
    BY DEF TypeOK
<1> HIDE DEF e
<1>6. /\ premium_debt' \in [Writers -> Nat]
      /\ premium_debt'[w] = premium_debt[w] + e
      /\ contracts'[w] = contracts[w] + k
      /\ \A v \in Writers \ {w} : /\ premium_debt'[v] = premium_debt[v]
                                   /\ contracts'[v] = contracts[v]
                                   /\ joined'[v] = joined[v]
    BY <1>1, <1>3, <1>4, <1>5
<1>7. Debts' = Debts + e
    <2>1. Cardinality(UnitsOf(premium_debt', Writers))
              = Cardinality(UnitsOf(premium_debt, Writers))
                    + premium_debt'[w] - premium_debt[w]
        <3> DEFINE f == premium_debt
                   g == premium_debt'
        <3>1. /\ f \in [Writers -> Nat] /\ g \in [Writers -> Nat]
              /\ \A v \in Writers \ {w} : g[v] = f[v]
            BY <1>5, <1>6
        <3> HIDE DEF f, g
        <3>2. Cardinality(UnitsOf(g, Writers))
                  = Cardinality(UnitsOf(f, Writers)) + g[w] - f[w]
            BY <3>1, UnitsWrite
        <3>3. QED
            BY <3>2 DEF f, g
    <2>2. premium_debt[w] \in Nat
        BY <1>5
    <2>3. Debts' = Debts + premium_debt'[w] - premium_debt[w]
        BY <2>1 DEF Debts, UnitsOf
    <2>4. QED
        BY <1>1, <1>3, <1>6, <2>2, <2>3
<1>8. NothingForNothing'
    <2>1. contracts'[w] # 0
        BY <1>1, <1>5, <1>6
    <2>2. QED
        BY <1>4, <1>6, <2>1 DEF PremiumInv, NothingForNothing
<1>9. WrittenIsHeld'
    <2> DEFINE f == contracts
               g == contracts'
    <2>1. /\ f \in [Writers -> Nat] /\ g \in [Writers -> Nat]
          /\ \A v \in Writers \ {w} : g[v] = f[v]
          /\ g[w] = f[w] + k
          /\ f[w] \in Nat
        BY <1>1, <1>4, <1>5, <1>6
    <2>2. W = Cardinality(UnitsOf(f, Writers))
        BY DEF PremiumInv, WrittenIsHeld
    <2> HIDE DEF f, g
    <2>3. Cardinality(UnitsOf(g, Writers)) = W + k
        BY <1>1, <2>1, <2>2, UnitsWrite
    <2>4. contracts_written' = Cardinality(UnitsOf(contracts', Writers))
        BY <1>4, <2>3 DEF g
    <2>5. QED
        BY <1>4, <2>4 DEF WrittenIsHeld, UnitsOf
<1>10. PoolIsWhatArrived'
    BY <1>1, <1>2, <1>4 DEF PremiumInv, PoolIsWhatArrived
<1>11. DebtIsEarned'
    <2> SUFFICES ASSUME NEW v \in Writers
                 PROVE  premium_debt'[v] * S <= (acc + pc) * contracts'[v]
        BY <1>4 DEF DebtIsEarned
    <2>1. premium_debt[v] * S <= acc * contracts[v]
        BY DEF PremiumInv, DebtIsEarned
    <2>2. contracts[v] \in Nat /\ premium_debt[v] \in Nat
        BY <1>5
    <2>3. /\ (acc + pc) * contracts[v] = acc * contracts[v] + pc * contracts[v]
          /\ acc * contracts[v] \in Nat /\ pc * contracts[v] \in Nat
          /\ premium_debt[v] * S \in Nat
        BY <1>1, <2>2
    <2>4. premium_debt[v] * S <= (acc + pc) * contracts[v]
        BY <2>1, <2>3
    <2>5. CASE v # w
        BY <1>6, <2>4, <2>5
    <2>6. CASE v = w
        <3> DEFINE x == (acc + pc) * contracts[w]
                   y == (acc + pc) * k
                   d == premium_debt[w] * S
                   z == e * S
        <3>1. /\ (acc + pc) * (contracts[w] + k) = x + y
              /\ (premium_debt[w] + e) * S = d + z
            BY <1>1, <1>3, <2>2, <2>6
        <3>2. x \in Nat /\ y \in Nat /\ d \in Nat /\ z \in Nat
            BY <1>1, <1>3, <2>2, <2>6
        <3>3. d <= x /\ z <= y
            BY <1>3, <2>4, <2>6
        <3> HIDE DEF x, y, d, z
        <3>4. d + z <= x + y
            BY <3>2, <3>3
        <3>5. QED
            BY <1>6, <2>6, <3>1, <3>4
    <2>7. QED
        BY <2>5, <2>6
<1>12. CreditIsPromised'
    <2>1. /\ (cred + Debts) * S <= acc * W + C * S
          /\ acc * W + C * S <= (cred + Debts + r) * S
        BY DEF PremiumInv, CreditIsPromised
    <2> DEFINE D == Debts
    <2>2. D \in Nat
        BY <1>1
    <2> HIDE DEF S, acc, pc, W, cred, step, C, r, ar, D
    <2>3. /\ (cred + step + (D + e)) * S <= (acc + pc) * (W + k) + C * S
          /\ (acc + pc) * (W + k) + C * S
                 <= (cred + step + (D + e) + (r + ar + 1)) * S
        BY <1>1, <1>2, <1>3, <2>1, <2>2, EntryKeepsPromise DEF D
    <2>4. QED
        BY <1>4, <1>7, <2>3
        DEF CreditIsPromised, S, acc, pc, W, cred, step, C, r, ar, D
<1>13. EarnedAfterJoining'
    <2> SUFFICES ASSUME NEW v \in Writers, contracts'[v] > 0
                 PROVE  (acc + pc) * contracts'[v]
                            + (premium_claimed[v] + joined'[v]) * S
                            <= (premium_debt'[v] + (cred + step)
                                    + (r + ar + 1)) * S
        BY <1>4 DEF EarnedAfterJoining
    <2> DEFINE c == contracts[v]
               d == premium_debt[v]
               got == premium_claimed[v] + joined[v]
    <2>1. /\ c \in Nat /\ d \in Nat /\ got \in Nat
          /\ premium_claimed[v] \in Nat /\ joined[v] \in Nat
        BY <1>5
    <2>2. ASSUME c > 0
          PROVE  (acc + pc) * c + got * S <= (d + (cred + step) + (r + ar)) * S
        <3>1. acc * c + got * S <= (d + cred + r) * S
            BY <2>2 DEF PremiumInv, EarnedAfterJoining
        <3>2. c <= W
            BY OwnContracts DEF PremiumInv, WrittenIsHeld
        <3> HIDE DEF S, acc, pc, W, cred, step, r, ar, c, d, got
        <3>3. QED
            BY <1>1, <1>2, <2>1, <3>1, <3>2, AccrualCoversLater
    <2> DEFINE lhs == (acc + pc) * c
               x == got * S
               y == (d + (cred + step) + (r + ar)) * S
               in == (acc + pc) * k
               z == e * S
    <2>3. /\ (acc + pc) * (c + k) = lhs + in
          /\ (d + (cred + step) + (r + ar + 1)) * S = y + S
          /\ (d + e + (cred + step) + (r + ar + 1)) * S = y + z + S
        <3> HIDE DEF S, acc, pc, W, cred, step, r, ar, c, d, got
        <3>1. QED
            BY <1>1, <1>3, <2>1
    <2>4. lhs \in Nat /\ x \in Nat /\ y \in Nat /\ z \in Nat /\ in \in Nat
        <3> HIDE DEF S, acc, pc, W, cred, step, r, ar, c, d, got
        <3>1. d + (cred + step) + (r + ar) \in Nat /\ acc + pc \in Nat
            BY <1>1, <2>1
        <3>2. QED
            BY <1>1, <1>3, <2>1, <3>1, ProductNat
    <2>5. CASE v # w
        <3>1. /\ contracts'[v] = c
              /\ joined'[v] = joined[v]
              /\ premium_debt'[v] = d
            BY <1>6, <2>5
        <3>2. lhs + x <= y
            BY <2>2, <3>1
        <3>3. lhs + x <= y + S
            <4> HIDE DEF lhs, x, y
            <4>1. QED
                BY <1>1, <2>4, <3>2
        <3>4. QED
            BY <2>3, <3>1, <3>3
    <2>6. CASE v = w /\ c > 0
        <3>1. /\ contracts'[v] = c + k
              /\ joined'[v] = joined[v]
              /\ premium_debt'[v] = d + e
            BY <1>4, <1>6, <2>6
        <3>2. lhs + x <= y
            BY <2>2, <2>6
        <3>3. in < z + S
            BY <1>3
        <3>4. lhs + in + x <= y + z + S
            <4> HIDE DEF lhs, x, y, in, z
            <4>1. QED
                BY <1>1, <2>4, <3>2, <3>3
        <3>5. QED
            BY <2>3, <3>1, <3>4
    <2>7. CASE v = w /\ c = 0
        <3>1. d = 0 /\ premium_claimed[v] = 0 /\ joined[v] = 0
            BY <2>7 DEF PremiumInv, NothingForNothing
        <3>2. /\ contracts'[v] = k
              /\ premium_debt'[v] = e
              /\ joined'[v] = IF W > 0 THEN premium_in ELSE 0
            BY <1>1, <1>3, <1>4, <1>5, <1>6, <2>7, <3>1
        <3>3. joined'[v] \in Nat /\ joined'[v] <= cred + step + (r + ar)
            <4>1. CASE W = 0
                BY <1>1, <3>2, <4>1
            <4>2. CASE W > 0
                <5>1. (premium_in - cred) * S < (step + ar) * S + S
                    <6> DEFINE q == (premium_in - cred) * S
                               n == pc * W
                               t == (step + ar) * S
                    <6>1. q \in Nat /\ n \in Nat /\ t \in Nat
                        <7>1. premium_in - cred \in Nat /\ step + ar \in Nat
                            BY <1>1, <1>2, <1>5
                        <7>2. QED
                            BY <1>1, <7>1, ProductNat
                    <6>2. q < n + W /\ n <= t /\ W <= S
                        BY <1>1, <1>2, <4>2
                    <6> HIDE DEF q, n, t
                    <6>3. q < t + S
                        BY <1>1, <6>1, <6>2
                    <6>4. QED
                        BY <6>3 DEF q, t
                <5>2. premium_in - cred <= step + ar
                    <6> DEFINE q == premium_in - cred
                               t == step + ar
                    <6>1. q \in Int /\ t \in Int /\ S \in Nat \ {0}
                        BY <1>1, <1>5
                    <6>2. q * S < t * S + S
                        BY <5>1
                    <6> HIDE DEF q, t, S
                    <6>3. t * S + S = (t + 1) * S
                        BY <6>1
                    <6>4. ~(t + 1 <= q)
                        <7>1. SUFFICES ASSUME t + 1 <= q
                                       PROVE  FALSE
                            OBVIOUS
                        <7>2. (t + 1) * S <= q * S
                            BY <6>1, <7>1
                        <7>3. q * S \in Int /\ (t + 1) * S \in Int
                            BY <6>1
                        <7>4. QED
                            BY <6>2, <6>3, <7>2, <7>3
                    <6>5. q <= t
                        BY <6>1, <6>4
                    <6>6. QED
                        BY <6>5 DEF q, t
                <5>3. QED
                    BY <1>1, <1>5, <3>2, <4>2, <5>2
            <4>3. QED
                BY <1>1, <4>1, <4>2
        <3> DEFINE j == joined'[v]
                   h == cred + step + (r + ar)
        <3>4. /\ j * S <= h * S
              /\ j * S \in Nat /\ h * S \in Nat
            <4>1. j \in Nat /\ h \in Nat /\ j <= h
                BY <1>1, <3>3
            <4> HIDE DEF j, h, S
            <4>2. QED
                BY <1>1, <4>1, ProductMonotone, ProductNat
        <3>5. (e + (cred + step) + (r + ar + 1)) * S = z + h * S + S
            <4> HIDE DEF S, acc, pc, W, cred, step, r, ar
            <4>1. QED
                BY <1>1, <1>3
        <3>6. in < z + S
            BY <1>3
        <3>7. in + j * S <= z + h * S + S
            <4> DEFINE js == j * S
                       hs == h * S
            <4>1. js <= hs /\ js \in Nat /\ hs \in Nat
                BY <3>4
            <4> HIDE DEF js, hs, in, z
            <4>2. in + js <= z + hs + S
                BY <1>1, <2>4, <3>6, <4>1
            <4>3. QED
                BY <4>2 DEF js, hs
        <3>8. premium_claimed[v] + joined'[v] = j
            BY <3>1, <3>3
        <3>9. QED
            BY <3>2, <3>5, <3>7, <3>8
    <2>8. QED
        BY <2>1, <2>5, <2>6, <2>7
<1>14. QED
    BY <1>8, <1>9, <1>10, <1>11, <1>12, <1>13 DEF PremiumInv

LEMMA NextPremium == TypeOK /\ PremiumInv /\ [Next]_vars => PremiumInv'
<1> SUFFICES ASSUME TypeOK, PremiumInv, [Next]_vars
             PROVE  PremiumInv'
    OBVIOUS
<1>1. ASSUME NEW w \in Writers, OpenPosition(w)
      PROVE  PremiumInv'
    BY <1>1, PremiumUntouched DEF OpenPosition, bookVars
<1>2. ASSUME NEW w \in Writers, SettleExpired(w)
      PROVE  PremiumInv'
    BY <1>2, PremiumUntouched DEF SettleExpired
<1>3. ASSUME NEW k \in 1 .. MaxContracts, NEW m \in Multipliers,
             Exercise(k, m)
      PROVE  PremiumInv'
    BY <1>3, PremiumUntouched DEF Exercise, positionVars
<1>4. ASSUME NEW n \in 1 .. MaxSeized, Seize(n)
      PROVE  PremiumInv'
    BY <1>4, PremiumUntouched DEF Seize, positionVars, bookVars
<1>5. CASE Expire \/ CloseWindow \/ ReopenWindow
    BY <1>5, PremiumUntouched
    DEF Expire, CloseWindow, ReopenWindow, positionVars, bookVars
<1>6. CASE UNCHANGED vars
    BY <1>6, PremiumUntouched DEF vars, positionVars, bookVars
<1>7. QED
    BY <1>1, <1>2, <1>3, <1>4, <1>5, <1>6, DepositPremiumInv, ClaimPremiumInv,
       WritePremiumInv
    DEF Next

\* The counters keep to each other in every reachable state, whether or not a
\* window may reopen: the accumulator, the credit, the debts and what was paid
\* differ by no more than one unit for each rounding.
THEOREM PremiumAddsUp == Spec => []PremiumInv
<1>1. QED
    BY InitType, NextType, InitPremium, NextPremium, PTL DEF Spec

-----------------------------------------------------------------------------
(* What the counters mean for the writers and the vault.                   *)

\* What the contracts of each writer have earned since the series opened, by
\* the level an accrual would bring the accumulator to.
Level == [w \in Writers |-> MulDivFloor(AccruedAcc, contracts[w], Scale)]

\* The level of a writer covers the debt, and the rest is what is owed.
LEMMA LevelCoversDebt ==
    ASSUME TypeOK, PremiumInv, NEW w \in Writers
    PROVE  /\ Level[w] \in Nat
           /\ Level[w] * Scale <= AccruedAcc * contracts[w]
           /\ AccruedAcc * contracts[w] < Level[w] * Scale + Scale
           /\ premium_debt[w] <= Level[w]
           /\ Owed(w) = Level[w] - premium_debt[w]
<1> DEFINE c == contracts[w]
           d == premium_debt[w]
           acc == premium_per_contract_acc
           pc == AccruedPerContract
           F == Level[w]
           S == Scale
<1>1. /\ c \in Nat /\ d \in Nat /\ acc \in Nat /\ pc \in Nat
      /\ S \in Nat \ {0} /\ AccruedAcc = acc + pc
    BY AccrualNat DEF TypeOK, AccruedAcc
<1>2. Level[w] = MulDivFloor(AccruedAcc, contracts[w], Scale)
    BY DEF Level
<1>3. /\ F \in Nat /\ F * S <= AccruedAcc * c
      /\ AccruedAcc * c < F * S + S
    BY <1>1, <1>2, AccrualNat, FloorBounds
<1>4. d * S <= acc * c
    BY DEF PremiumInv, DebtIsEarned
<1>5. d <= F
    <2> HIDE DEF c, d, acc, pc, F, S
    <2>1. (acc + pc) * c = acc * c + pc * c
        BY <1>1
    <2>2. acc * c \in Nat /\ pc * c \in Nat /\ d * S \in Nat /\ F * S \in Nat
        BY <1>1, <1>3, ProductNat
    <2>3. d * S < F * S + S
        BY <1>1, <1>3, <1>4, <2>1, <2>2
    <2>4. ~(F + 1 <= d)
        <3>1. SUFFICES ASSUME F + 1 <= d
                       PROVE  FALSE
            OBVIOUS
        <3>2. (F + 1) * S <= d * S
            BY <1>1, <1>3, <3>1, ProductMonotone
        <3>3. (F + 1) * S = F * S + S
            BY <1>1, <1>3
        <3>4. QED
            BY <1>1, <2>2, <2>3, <3>2, <3>3
    <2>5. QED
        BY <1>1, <1>3, <2>4
<1>6. Owed(w) = F - d
    <2>1. Owed(w) = SaturatingSub(F, d)
        BY <1>2 DEF Owed, PremiumOwed
    <2> HIDE DEF F, d
    <2>2. QED
        BY <1>1, <1>3, <1>5, <2>1 DEF SaturatingSub
<1>7. QED
    BY <1>3, <1>5, <1>6

\* The levels of all writers are the debts and what is owed, added up.
LEMMA LevelsAddUp ==
    ASSUME TypeOK, PremiumInv
    PROVE  /\ Level \in [Writers -> Nat]
           /\ TotalOwed \in Nat
           /\ Cardinality(UnitsOf(Level, Writers)) = Debts + TotalOwed
<1>1. Level \in [Writers -> Nat]
    <2>1. \A w \in Writers : Level[w] \in Nat
        BY LevelCoversDebt
    <2>2. QED
        BY <2>1 DEF Level
<1>2. premium_debt \in [Writers -> Nat]
    BY DEF TypeOK
<1>3. /\ OwedBy \in [Writers -> Nat]
      /\ \A w \in Writers : Level[w] = premium_debt[w] + OwedBy[w]
    <2>1. ASSUME NEW w \in Writers
          PROVE  /\ OwedBy[w] \in Nat
                 /\ Level[w] = premium_debt[w] + OwedBy[w]
        <3>1. OwedBy[w] = Level[w] - premium_debt[w]
            BY LevelCoversDebt DEF OwedBy
        <3>2. Level[w] \in Nat /\ premium_debt[w] <= Level[w]
            BY LevelCoversDebt
        <3>3. premium_debt[w] \in Nat
            BY <1>2
        <3>4. QED
            BY <3>1, <3>2, <3>3
    <2>2. OwedBy \in [Writers -> Nat]
        BY <2>1 DEF OwedBy
    <2>3. QED
        BY <2>1, <2>2
<1> DEFINE f == premium_debt
           g == OwedBy
           h == Level
<1>4. TotalOwed = Cardinality(UnitsOf(g, Writers))
    BY DEF TotalOwed
<1>5. Debts = Cardinality(UnitsOf(f, Writers))
    BY DEF Debts
<1> HIDE DEF f, g, h
<1>6. /\ f \in [Writers -> Nat] /\ g \in [Writers -> Nat]
      /\ h \in [Writers -> Nat] /\ \A w \in Writers : h[w] = f[w] + g[w]
    BY <1>1, <1>2, <1>3 DEF f, g, h
<1>7. /\ Cardinality(UnitsOf(h, Writers))
             = Cardinality(UnitsOf(f, Writers))
                   + Cardinality(UnitsOf(g, Writers))
      /\ Cardinality(UnitsOf(g, Writers)) \in Nat
    BY <1>6, UnitsPlus, UnitsFinite
<1>8. QED
    BY <1>1, <1>4, <1>5, <1>7 DEF h

\* The levels of all writers, against the accumulator and the whole book.
LEMMA LevelsFitBook ==
    ASSUME TypeOK, PremiumInv
    PROVE  /\ (Debts + TotalOwed) * Scale <= AccruedAcc * contracts_written
           /\ AccruedAcc * contracts_written
                  <= (Debts + TotalOwed) * Scale
                         + (Scale - 1) * Cardinality(opened)
<1> DEFINE f == Level
           g == contracts
           x == AccruedAcc
           S == Scale
           b == Scale - 1
<1>1. /\ f \in [Writers -> Nat] /\ g \in [Writers -> Nat]
      /\ x \in Nat /\ S \in Nat /\ b \in Nat
      /\ opened \in SUBSET Writers
    BY LevelsAddUp, AccrualNat DEF TypeOK
<1>2. \A w \in Writers : S * f[w] <= x * g[w]
    <2> SUFFICES ASSUME NEW w \in Writers
                 PROVE  S * f[w] <= x * g[w]
        OBVIOUS
    <2>1. f[w] * S <= x * g[w] /\ f[w] \in Nat
        BY LevelCoversDebt
    <2> HIDE DEF f, g, x, S
    <2>2. S * f[w] = f[w] * S
        BY <1>1, <2>1
    <2>3. QED
        BY <2>1, <2>2
<1>3. \A w \in opened : x * g[w] <= S * f[w] + b
    <2> SUFFICES ASSUME NEW w \in opened
                 PROVE  x * g[w] <= S * f[w] + b
        OBVIOUS
    <2>1. w \in Writers
        BY <1>1
    <2>2. x * g[w] < f[w] * S + S /\ f[w] \in Nat
        BY <2>1, LevelCoversDebt
    <2>3. g[w] \in Nat /\ b = S - 1
        BY <1>1, <2>1
    <2> HIDE DEF f, g, x, S, b
    <2>4. S * f[w] = f[w] * S /\ f[w] * S \in Nat /\ x * g[w] \in Nat
        BY <1>1, <2>2, <2>3
    <2>5. QED
        BY <1>1, <2>2, <2>3, <2>4
<1>4. \A w \in Writers \ opened : x * g[w] <= S * f[w]
    <2> SUFFICES ASSUME NEW w \in Writers \ opened
                 PROVE  x * g[w] <= S * f[w]
        OBVIOUS
    <2>1. g[w] = 0
        BY DEF PremiumInv, NothingForNothing
    <2>2. f[w] \in Nat
        BY <1>1
    <2> HIDE DEF f, g, x, S
    <2>3. x * g[w] = 0 /\ S * f[w] \in Nat
        BY <1>1, <2>1, <2>2, ProductNat
    <2>4. QED
        BY <2>3
<1>5. /\ Cardinality(UnitsOf(f, Writers)) = Debts + TotalOwed
      /\ Cardinality(UnitsOf(g, Writers)) = contracts_written
    BY LevelsAddUp DEF PremiumInv, WrittenIsHeld
<1> DEFINE R == opened
           p == Debts + TotalOwed
           W == contracts_written
<1>6. p \in Nat /\ Cardinality(R) \in Nat
    BY <1>5, <1>1, UnitsFinite, FS_Subset, FS_CardinalityType
<1>7. S * p <= x * W
    <2> HIDE DEF f, g, x, S, p, W
    <2>1. S * Cardinality(UnitsOf(f, Writers))
              <= x * Cardinality(UnitsOf(g, Writers))
        BY <1>1, <1>2, UnitsAtMost
    <2>2. QED
        BY <1>5, <2>1 DEF p, W
<1>8. x * W <= S * p + b * Cardinality(R)
    <2> HIDE DEF f, g, x, S, b, R, p, W
    <2>1. /\ R \in SUBSET Writers
          /\ \A w \in R : x * g[w] <= S * f[w] + b
          /\ \A w \in Writers \ R : x * g[w] <= S * f[w]
        BY <1>1, <1>3, <1>4 DEF R
    <2>2. x * Cardinality(UnitsOf(g, Writers))
              <= S * Cardinality(UnitsOf(f, Writers)) + b * Cardinality(R)
        BY <1>1, <2>1, UnitsFallShort
    <2>3. QED
        BY <1>5, <2>2 DEF p, W
<1>9. S * p = p * S
    <2> HIDE DEF p, S
    <2>1. QED
        BY <1>1, <1>6
<1>10. QED
    BY <1>7, <1>8, <1>9

\* What an accrual makes of the whole book, against the pool.
LEMMA BookAgainstPool ==
    ASSUME TypeOK, PremiumInv
    PROVE  LET book == AccruedAcc * contracts_written
           IN  /\ book \in Nat
               /\ book <= (Debts + premium_vault + roundings) * Scale
               /\ contracts_written > 0 =>
                      (Debts + premium_vault) * Scale < book + contracts_written
<1> DEFINE S == Scale
           acc == premium_per_contract_acc
           pc == AccruedPerContract
           W == contracts_written
           cred == premium_credited_total
           C == premium_claimed_total
           r == roundings
           D == Debts
           V == premium_vault
           in == premium_in
           old == acc * W
           new == pc * W
           kept == (in - cred) * S
           due == (cred + D) * S
           paid == C * S
           more == r * S
           left == (D + V) * S
<1>1. /\ acc \in Nat /\ pc \in Nat /\ W \in Nat /\ cred \in Nat
      /\ D \in Nat /\ C \in Nat /\ r \in Nat /\ S \in Nat \ {0}
      /\ V \in Nat /\ in \in Nat
    BY PremiumNumbers DEF TypeOK
<1>2. in = V + C /\ cred <= in /\ in - cred \in Nat
    BY <1>1 DEF PremiumInv, PoolIsWhatArrived
<1>3. /\ new <= kept
      /\ W > 0 => kept < new + W
    BY PremiumNumbers
<1>4. /\ due <= old + paid
      /\ old + paid <= (cred + D + r) * S
    BY DEF PremiumInv, CreditIsPromised
<1>5. /\ AccruedAcc * W = old + new
      /\ (cred + D + r) * S = due + more
      /\ (D + V + r) * S = left + more
      /\ left + paid = due + kept
    <2>1. AccruedAcc = acc + pc
        BY DEF AccruedAcc
    <2> DEFINE A == AccruedAcc
    <2> HIDE DEF S, acc, pc, W, cred, C, r, D, V, in, A
    <2>2. /\ (acc + pc) * W = old + new
          /\ (cred + D + r) * S = due + more
          /\ (D + V + r) * S = left + more
        BY <1>1
    <2>3. left + paid = (D + in) * S /\ due + kept = (D + in) * S
        BY <1>1, <1>2
    <2>4. QED
        BY <2>1, <2>2, <2>3 DEF A
<1>6. /\ old \in Nat /\ new \in Nat /\ kept \in Nat /\ due \in Nat
      /\ paid \in Nat /\ more \in Nat /\ left \in Nat
    <2> HIDE DEF S, acc, pc, W, cred, C, r, D, V, in
    <2>1. cred + D \in Nat /\ D + V \in Nat
        BY <1>1
    <2>2. QED
        BY <1>1, <1>2, <2>1, ProductNat
<1>7. /\ old + new \in Nat
      /\ old + new <= left + more
      /\ W > 0 => left < old + new + W
    <2>1. old + paid <= due + more
        BY <1>4, <1>5
    <2>2. left + paid = due + kept
        BY <1>5
    <2>3. /\ due <= old + paid /\ new <= kept
          /\ W > 0 => kept < new + W
        BY <1>3, <1>4
    <2> HIDE DEF old, new, kept, due, paid, more, left, W
    <2>4. QED
        BY <1>1, <1>6, <2>1, <2>2, <2>3
<1>8. QED
    BY <1>5, <1>7

\* The claims of all writers together exceed the vault by one unit at most for
\* each division that has lost a part, for any number of writers, contracts
\* and deposits.
THEOREM PremiumOverhang == Spec => []PremiumOverhangBounded
<1>1. TypeOK /\ PremiumInv => PremiumOverhangBounded
    <2> SUFFICES ASSUME TypeOK, PremiumInv
                 PROVE  TotalOwed <= premium_vault + roundings
        BY DEF PremiumOverhangBounded
    <2> DEFINE T == TotalOwed
               D == Debts
               V == premium_vault
               r == roundings
               S == Scale
               book == AccruedAcc * contracts_written
    <2>1. /\ T \in Nat /\ D \in Nat /\ V \in Nat /\ r \in Nat
          /\ S \in Nat \ {0} /\ book \in Nat
        BY LevelsAddUp, PremiumNumbers, BookAgainstPool DEF TypeOK
    <2>2. (D + T) * S <= book /\ book <= (D + V + r) * S
        BY LevelsFitBook, BookAgainstPool
    <2> HIDE DEF T, D, V, r, S, book
    <2>3. (D + T) * S \in Nat /\ (D + V + r) * S \in Nat
        <3>1. D + T \in Nat /\ D + V + r \in Nat /\ S \in Nat
            BY <2>1
        <3>2. QED
            BY <3>1, ProductNat
    <2>4. (D + T) * S <= (D + V + r) * S
        BY <2>1, <2>2, <2>3
    <2>5. D + T <= D + V + r
        BY <2>1, <2>4, ProductCancel
    <2>6. T <= V + r
        BY <2>1, <2>5
    <2>7. QED
        BY <2>6 DEF T, V, r
<1>2. QED
    BY <1>1, TypeCorrect, PremiumAddsUp, PTL

\* Once a contract is written, what nobody can claim of the premium vault is
\* one unit per writer at most: rounding strands nothing else, and nothing
\* piles up from one accrual to the next.
THEOREM NothingStranded == Spec => []PremiumNotStranded
<1>1. TypeOK /\ PremiumInv => PremiumNotStranded
    <2> SUFFICES ASSUME TypeOK, PremiumInv, contracts_written > 0
                 PROVE  premium_vault <= TotalOwed + Cardinality(opened)
        BY DEF PremiumNotStranded
    <2> DEFINE T == TotalOwed
               D == Debts
               V == premium_vault
               S == Scale
               W == contracts_written
               n == Cardinality(opened)
               book == AccruedAcc * W
               rest == (S - 1) * n
    <2>1. /\ T \in Nat /\ D \in Nat /\ V \in Nat /\ W \in Nat
          /\ S \in Nat \ {0} /\ book \in Nat /\ n \in Nat /\ W <= S
        BY LevelsAddUp, PremiumNumbers, BookAgainstPool, FS_Subset,
           FS_CardinalityType
        DEF TypeOK
    <2>2. (D + V) * S < book + W /\ book <= (D + T) * S + rest
        BY LevelsFitBook, BookAgainstPool
    <2> HIDE DEF T, D, V, S, W, n, book
    <2>3. /\ (D + T) * S \in Nat /\ (D + V) * S \in Nat /\ rest \in Nat
        <3>1. D + T \in Nat /\ D + V \in Nat /\ S \in Nat /\ S - 1 \in Nat
            BY <2>1
        <3>2. QED
            BY <2>1, <3>1, ProductNat
    <2>4. /\ (D + T + n + 1) * S = (D + T) * S + n * S + S
          /\ rest = n * S - n
          /\ n * S \in Nat
        BY <2>1
    <2> HIDE DEF rest
    <2>5. (D + V) * S < (D + T + n + 1) * S
        <3> DEFINE x == (D + V) * S
                   y == (D + T) * S
                   z == n * S
        <3>1. /\ x \in Nat /\ y \in Nat /\ z \in Nat
              /\ x < book + W /\ book <= y + rest /\ rest = z - n
            BY <2>2, <2>3, <2>4
        <3> HIDE DEF x, y, z
        <3>2. x < y + z + S
            BY <2>1, <3>1
        <3>3. QED
            BY <2>4, <3>2 DEF x, y, z
    <2>6. D + V < D + T + n + 1
        BY <2>1, <2>5, ProductCancelStrict
    <2>7. V <= T + n
        BY <2>1, <2>6
    <2>8. QED
        BY <2>7 DEF V, T, n
<1>2. QED
    BY <1>1, TypeCorrect, PremiumAddsUp, PTL

\* A writer who joins a book that exists earns from what arrives later and
\* from nothing before, plus one unit for each rounding: a write a second
\* before expiry buys no part of the premium that was already there.
THEOREM LateWriterEarnsLater == Spec => []NoRetroactivePremium
<1>1. TypeOK /\ PremiumInv => NoRetroactivePremium
    <2> SUFFICES ASSUME TypeOK, PremiumInv, NEW w \in Writers, contracts[w] > 0
                 PROVE  Earned(w) <= premium_in - joined[w] + roundings
        BY DEF NoRetroactivePremium
    <2> DEFINE S == Scale
               acc == premium_per_contract_acc
               pc == AccruedPerContract
               W == contracts_written
               cred == premium_credited_total
               in == premium_in
               rest == premium_in - premium_credited_total
               r == roundings
               c == contracts[w]
               d == premium_debt[w]
               cl == premium_claimed[w]
               j == joined[w]
               F == Level[w]
    <2>1. /\ acc \in Nat /\ pc \in Nat /\ W \in Nat /\ cred \in Nat
          /\ in \in Nat /\ r \in Nat /\ S \in Nat \ {0}
          /\ c \in Nat /\ d \in Nat /\ cl \in Nat /\ j \in Nat
          /\ AccruedAcc = acc + pc
        BY PremiumNumbers DEF TypeOK
    <2>2. rest \in Nat /\ cred + rest = in
        BY <2>1 DEF PremiumInv, PoolIsWhatArrived
    <2>3. acc * c + (cl + j) * S <= (d + cred + r) * S
        BY DEF PremiumInv, EarnedAfterJoining
    <2>4. c <= W
        BY OwnContracts DEF PremiumInv, WrittenIsHeld
    <2>5. pc * W <= (rest + 0) * S
        BY <2>2, PremiumNumbers
    <2>6. /\ F \in Nat /\ F * S <= (acc + pc) * c
          /\ d <= F /\ Earned(w) = cl + (F - d)
        BY <2>1, LevelCoversDebt DEF Earned
    <2> DEFINE got == cl + j
    <2>7. got \in Nat
        BY <2>1
    <2> HIDE DEF S, acc, pc, W, cred, in, rest, r, c, d, cl, j, F
    <2>8. (acc + pc) * c + got * S <= (d + (cred + rest) + (r + 0)) * S
        <3> HIDE DEF got
        <3>1. acc * c + got * S <= (d + cred + r) * S
            BY <2>3 DEF got
        <3>2. QED
            BY <2>1, <2>2, <2>4, <2>5, <2>7, <3>1, AccrualCoversLater
    <2>9. (F + got) * S <= (d + in + r) * S
        <3>1. (F + got) * S = F * S + got * S
            BY <2>1, <2>6, <2>7
        <3>2. /\ F * S \in Nat /\ got * S \in Nat
              /\ (acc + pc) * c \in Nat
            BY <2>1, <2>6, <2>7, ProductNat, acc + pc \in Nat
        <3>3. d + (cred + rest) + (r + 0) = d + in + r
            BY <2>1, <2>2
        <3>4. (acc + pc) * c + got * S <= (d + in + r) * S
            BY <2>8, <3>3
        <3>5. (d + in + r) * S \in Nat
            BY <2>1, ProductNat, d + in + r \in Nat
        <3> HIDE DEF got
        <3>6. QED
            BY <2>6, <3>1, <3>2, <3>4, <3>5
    <2>10. F + got <= d + in + r
        BY <2>1, <2>6, <2>7, <2>9, ProductCancel
    <2>11. cl + (F - d) <= in - j + r
        BY <2>1, <2>6, <2>10
    <2>12. QED
        BY <2>6, <2>11 DEF in, j, r
<1>2. QED
    BY <1>1, TypeCorrect, PremiumAddsUp, PTL

-----------------------------------------------------------------------------
(* Nobody's step takes away what a writer has earned.                      *)

\* What a writer has earned, by the level of the accumulator.
EarnedByLevel ==
    /\ AccruedAcc \in Nat
    /\ premium_per_contract_acc <= AccruedAcc
    /\ \A w \in Writers :
           /\ contracts[w] \in Nat
           /\ premium_debt[w] \in Nat
           /\ premium_claimed[w] \in Nat
           /\ Level[w] \in Nat
           /\ Level[w] = MulDivFloor(AccruedAcc, contracts[w], Scale)
           /\ Earned(w) = premium_claimed[w] + (Level[w] - premium_debt[w])

LEMMA EarnedIsByLevel == TypeOK /\ PremiumInv => EarnedByLevel
<1> SUFFICES ASSUME TypeOK, PremiumInv
             PROVE  EarnedByLevel
    OBVIOUS
<1>1. AccruedAcc \in Nat /\ premium_per_contract_acc <= AccruedAcc
    BY AccrualNat DEF AccruedAcc, TypeOK
<1>2. ASSUME NEW w \in Writers
      PROVE  /\ contracts[w] \in Nat
             /\ premium_debt[w] \in Nat
             /\ premium_claimed[w] \in Nat
             /\ Level[w] \in Nat
             /\ Level[w] = MulDivFloor(AccruedAcc, contracts[w], Scale)
             /\ Earned(w) = premium_claimed[w] + (Level[w] - premium_debt[w])
    <2>1. /\ contracts[w] \in Nat /\ premium_debt[w] \in Nat
          /\ premium_claimed[w] \in Nat
        BY DEF TypeOK
    <2>2. Level[w] = MulDivFloor(AccruedAcc, contracts[w], Scale)
        BY DEF Level
    <2>3. Level[w] \in Nat /\ Owed(w) = Level[w] - premium_debt[w]
        BY LevelCoversDebt
    <2>4. QED
        BY <2>1, <2>2, <2>3 DEF Earned
<1>3. QED
    BY <1>1, <1>2 DEF EarnedByLevel

LEMMA EarnedIsByLevelNext ==
    ASSUME TypeOK', PremiumInv'
    PROVE  EarnedByLevel'
<1>1. (TypeOK /\ PremiumInv => EarnedByLevel)'
    BY EarnedIsByLevel, PTL
<1>2. QED
    BY <1>1

\* The level an accrual would bring the accumulator to never falls: what is
\* not accrued yet can only grow until it is.
LEMMA AccruedNeverFalls ==
    ASSUME TypeOK, TypeOK', PremiumInv, EarnedByLevel', [Next]_vars
    PROVE  AccruedAcc <= AccruedAcc'
<1>1. ASSUME NEW w \in Writers, NEW k \in 1 .. MaxContracts,
             NEW m \in Multipliers, Write(w, k, m)
      PROVE  AccruedAcc <= AccruedAcc'
    BY <1>1 DEF Write, AccruePremium, EarnedByLevel
<1>2. ASSUME NEW w \in Writers, ClaimPremium(w)
      PROVE  AccruedAcc <= AccruedAcc'
    BY <1>2 DEF ClaimPremium, AccruePremium, EarnedByLevel
<1>3. ASSUME NEW n \in Deposits, DepositPremium(n)
      PROVE  AccruedAcc <= AccruedAcc'
    <2> DEFINE cred == premium_credited_total
               W == contracts_written
               delta == premium_vault + premium_claimed_total - cred
    <2>1. /\ premium_vault' = premium_vault + n
          /\ premium_claimed_total' = premium_claimed_total
          /\ premium_credited_total' = cred
          /\ contracts_written' = W
          /\ premium_per_contract_acc' = premium_per_contract_acc
        BY <1>3 DEF DepositPremium, bookVars
    <2>2. /\ premium_vault \in Nat /\ premium_claimed_total \in Nat
          /\ cred \in Nat /\ W \in Nat /\ n \in Nat
          /\ premium_per_contract_acc \in Nat
        BY DEF TypeOK
    <2>3. delta \in Nat
        BY <2>2 DEF PremiumInv, PoolIsWhatArrived
    <2>4. /\ SaturatingSub(premium_vault + premium_claimed_total, cred) = delta
          /\ SaturatingSub(premium_vault' + premium_claimed_total', cred)
                 = delta + n
        BY <2>1, <2>2, <2>3 DEF SaturatingSub
    <2>5. /\ AccruedPerContract
                 = IF W = 0 THEN 0 ELSE MulDivFloor(delta, Scale, W)
          /\ AccruedPerContract'
                 = IF W = 0 THEN 0 ELSE MulDivFloor(delta + n, Scale, W)
        BY <2>1, <2>4 DEF AccruedPerContract
    <2> HIDE DEF delta
    <2>6. W # 0 => MulDivFloor(delta, Scale, W) <= MulDivFloor(delta + n, Scale, W)
        <3>1. delta + n \in Nat /\ delta <= delta + n
            BY <2>2, <2>3
        <3>2. QED
            BY <2>2, <2>3, <3>1, FloorMonotoneFirst
    <2>7. AccruedPerContract <= AccruedPerContract'
        BY <2>5, <2>6
    <2>8. AccruedPerContract \in Nat /\ AccruedPerContract' \in Nat
        <3>1. AccruedPerContract \in Nat
            BY AccrualNat
        <3>2. W # 0 => MulDivFloor(delta + n, Scale, W) \in Nat
            <4>1. delta + n \in Nat
                BY <2>2, <2>3
            <4>2. QED
                BY <2>2, <4>1, FloorBounds
        <3>3. QED
            BY <2>5, <3>1, <3>2
    <2>9. /\ AccruedAcc = premium_per_contract_acc + AccruedPerContract
          /\ AccruedAcc' = premium_per_contract_acc + AccruedPerContract'
        BY <2>1 DEF AccruedAcc
    <2> DEFINE acc == premium_per_contract_acc
               old == AccruedPerContract
               new == AccruedPerContract'
    <2>10. /\ acc \in Nat /\ old \in Nat /\ new \in Nat /\ old <= new
           /\ AccruedAcc = acc + old /\ AccruedAcc' = acc + new
        BY <2>2, <2>7, <2>8, <2>9
    <2> HIDE DEF acc, old, new
    <2>11. QED
        BY <2>10
<1>4. ASSUME UNCHANGED <<contracts_written, premiumVars>>
      PROVE  AccruedAcc <= AccruedAcc'
    <2>1. AccruedAcc' = AccruedAcc
        BY <1>4 DEF AccruedAcc, AccruedPerContract, premiumVars
    <2>2. AccruedAcc \in Nat
        BY AccrualNat
    <2>3. QED
        BY <2>1, <2>2
<1>5. CASE UNCHANGED vars
    BY <1>4, <1>5 DEF vars, bookVars
<1>6. CASE Expire \/ CloseWindow \/ ReopenWindow
    BY <1>4, <1>6 DEF Expire, CloseWindow, ReopenWindow, bookVars
<1>7. ASSUME NEW n \in 1 .. MaxSeized, Seize(n)
      PROVE  AccruedAcc <= AccruedAcc'
    BY <1>4, <1>7 DEF Seize, bookVars
<1>8. ASSUME NEW k \in 1 .. MaxContracts, NEW m \in Multipliers,
             Exercise(k, m)
      PROVE  AccruedAcc <= AccruedAcc'
    BY <1>4, <1>8 DEF Exercise
<1>9. ASSUME NEW w \in Writers, OpenPosition(w) \/ SettleExpired(w)
      PROVE  AccruedAcc <= AccruedAcc'
    BY <1>4, <1>9 DEF OpenPosition, SettleExpired, bookVars
<1>10. QED
    BY <1>1, <1>2, <1>3, <1>5, <1>6, <1>7, <1>8, <1>9 DEF Next

\* With the same contracts, and a debt that grew by no more than was paid, a
\* writer has earned at least as much as before.
LEMMA EarnedKept ==
    ASSUME EarnedByLevel, EarnedByLevel', AccruedAcc <= AccruedAcc',
           NEW w \in Writers, contracts'[w] = contracts[w],
           premium_debt'[w] - premium_debt[w]
               = premium_claimed'[w] - premium_claimed[w]
    PROVE  Earned(w)' >= Earned(w)
<1>1. /\ contracts[w] \in Nat /\ AccruedAcc \in Nat /\ AccruedAcc' \in Nat
      /\ premium_debt[w] \in Nat /\ premium_claimed[w] \in Nat
      /\ premium_debt'[w] \in Nat /\ premium_claimed'[w] \in Nat
      /\ Level[w] \in Nat /\ Level'[w] \in Nat
    BY DEF EarnedByLevel
<1>2. /\ Level[w] = MulDivFloor(AccruedAcc, contracts[w], Scale)
      /\ Level'[w] = MulDivFloor(AccruedAcc', contracts[w], Scale)
    BY DEF EarnedByLevel
<1>3. Level[w] <= Level'[w]
    BY <1>1, <1>2, FloorMonotoneFirst
<1>4. /\ Earned(w) = premium_claimed[w] + (Level[w] - premium_debt[w])
      /\ Earned(w)' = premium_claimed'[w] + (Level'[w] - premium_debt'[w])
    BY DEF EarnedByLevel
<1>5. QED
    BY <1>1, <1>3, <1>4

\* New contracts enter at what they have earned, so they add nothing to what
\* their writer had and take nothing from it.
LEMMA EarnedKeptByWrite ==
    ASSUME TypeOK, EarnedByLevel, EarnedByLevel', AccruedAcc <= AccruedAcc',
           NEW w \in Writers, NEW v \in Writers, NEW k \in 1 .. MaxContracts,
           NEW m \in Multipliers, Write(w, k, m)
    PROVE  Earned(v)' >= Earned(v)
<1>1. /\ premium_debt' = [premium_debt EXCEPT ![w] = @ + EntryDebt(k)]
      /\ contracts' = [contracts EXCEPT ![w] = @ + k]
      /\ premium_claimed' = premium_claimed
    BY DEF Write
<1>2. /\ contracts \in [Writers -> Nat] /\ premium_debt \in [Writers -> Nat]
      /\ premium_claimed \in [Writers -> Nat] /\ k \in Nat
    BY DEF TypeOK
<1>3. CASE v # w
    <2>1. /\ contracts'[v] = contracts[v]
          /\ premium_debt'[v] = premium_debt[v]
          /\ premium_claimed'[v] = premium_claimed[v]
          /\ premium_debt[v] \in Nat /\ premium_claimed[v] \in Nat
        BY <1>1, <1>2, <1>3
    <2>2. premium_debt'[v] - premium_debt[v]
              = premium_claimed'[v] - premium_claimed[v]
        BY <2>1
    <2>3. QED
        BY <2>1, <2>2, EarnedKept
<1>4. CASE v = w
    <2> DEFINE A == AccruedAcc
               B == AccruedAcc'
               c == contracts[w]
               d == premium_debt[w]
               e == EntryDebt(k)
               cl == premium_claimed[w]
               F == Level[w]
               G == Level'[w]
    <2>1. /\ A \in Nat /\ B \in Nat /\ A <= B /\ c \in Nat /\ d \in Nat
          /\ cl \in Nat /\ F \in Nat /\ G \in Nat
          /\ c + k \in Nat /\ Scale \in Nat \ {0}
        BY <1>2 DEF EarnedByLevel
    <2>2. contracts'[w] = c + k /\ premium_debt'[w] = d + e
        BY <1>1, <1>2
    <2>3. /\ F = MulDivFloor(A, c, Scale)
          /\ G = MulDivFloor(B, c + k, Scale)
          /\ e = MulDivFloor(A, k, Scale)
        BY <2>2 DEF EarnedByLevel, EntryDebt
    <2>4. /\ Earned(w) = cl + (F - d)
          /\ Earned(w)' = cl + (G - (d + e))
        BY <1>1, <2>2 DEF EarnedByLevel
    <2> HIDE DEF A, B, c, d, e, cl, F, G
    <2>5. MulDivFloor(A, c, Scale) + MulDivFloor(A, k, Scale)
              <= MulDivFloor(A, c + k, Scale)
        BY <1>2, <2>1, FloorSuperadditive
    <2>6. MulDivFloor(A, c + k, Scale) <= MulDivFloor(B, c + k, Scale)
        BY <2>1, FloorMonotoneFirst
    <2>7. /\ MulDivFloor(A, c + k, Scale) \in Nat
          /\ e \in Nat
        BY <1>2, <2>1, <2>3, FloorBounds
    <2>8. F + e <= G
        BY <2>1, <2>3, <2>5, <2>6, <2>7
    <2>9. cl + (G - (d + e)) >= cl + (F - d)
        BY <2>1, <2>7, <2>8
    <2>10. QED
        BY <1>4, <2>4, <2>9
<1>5. QED
    BY <1>3, <1>4

\* A claim pays its writer what it adds to the debt, and nobody else.
LEMMA EarnedKeptByClaim ==
    ASSUME TypeOK, EarnedByLevel, EarnedByLevel', AccruedAcc <= AccruedAcc',
           NEW w \in Writers, NEW v \in Writers, ClaimPremium(w)
    PROVE  Earned(v)' >= Earned(v)
<1> DEFINE p == Payable(PremiumOwed(w, AccruedAcc), premium_vault)
<1>1. /\ premium_debt' = [premium_debt EXCEPT ![w] = @ + p]
      /\ premium_claimed' = [premium_claimed EXCEPT ![w] = @ + p]
      /\ contracts' = contracts
    BY DEF ClaimPremium, positionVars
<1>2. p \in Nat
    BY EntitlementNat, ClampNat DEF TypeOK, Payable
<1> HIDE DEF p
<1>3. /\ premium_debt \in [Writers -> Nat]
      /\ premium_claimed \in [Writers -> Nat]
    BY DEF TypeOK
<1>4. premium_debt'[v] - premium_debt[v]
          = premium_claimed'[v] - premium_claimed[v]
    BY <1>1, <1>2, <1>3
<1>5. contracts'[v] = contracts[v]
    BY <1>1
<1>6. QED
    BY <1>4, <1>5, EarnedKept

\* No write, claim, exercise or settlement by anybody, and no deposit, lowers
\* what a writer has earned, paid out or not.
THEOREM EarnedOnlyGrows == Spec => EarnedNeverFalls
<1>1. ASSUME TypeOK, TypeOK', PremiumInv, PremiumInv', [Next]_vars,
             NEW v \in Writers
      PROVE  Earned(v)' >= Earned(v)
    <2>1. EarnedByLevel
        BY <1>1, EarnedIsByLevel
    <2>2. EarnedByLevel'
        BY <1>1, EarnedIsByLevelNext
    <2>3. AccruedAcc <= AccruedAcc'
        BY <1>1, <2>2, AccruedNeverFalls
    <2>4. ASSUME UNCHANGED <<contracts, premium_debt, premium_claimed>>
          PROVE  Earned(v)' >= Earned(v)
        <3>1. premium_debt[v] \in Nat /\ premium_claimed[v] \in Nat
            BY <2>1 DEF EarnedByLevel
        <3>2. /\ contracts'[v] = contracts[v]
              /\ premium_debt'[v] - premium_debt[v]
                     = premium_claimed'[v] - premium_claimed[v]
            BY <2>4, <3>1
        <3>3. QED
            BY <2>1, <2>2, <2>3, <3>2, EarnedKept
    <2>5. ASSUME NEW n \in Deposits, DepositPremium(n)
          PROVE  Earned(v)' >= Earned(v)
        BY <2>4, <2>5 DEF DepositPremium, positionVars
    <2>6. ASSUME NEW n \in 1 .. MaxSeized, Seize(n)
          PROVE  Earned(v)' >= Earned(v)
        BY <2>4, <2>6 DEF Seize, positionVars, premiumVars
    <2>7. ASSUME NEW k \in 1 .. MaxContracts, NEW m \in Multipliers,
                 Exercise(k, m)
          PROVE  Earned(v)' >= Earned(v)
        BY <2>4, <2>7 DEF Exercise, positionVars, premiumVars
    <2>8. ASSUME NEW w \in Writers, OpenPosition(w) \/ SettleExpired(w)
          PROVE  Earned(v)' >= Earned(v)
        BY <2>4, <2>8 DEF OpenPosition, SettleExpired, premiumVars
    <2>9. CASE Expire \/ CloseWindow \/ ReopenWindow
        BY <2>4, <2>9
        DEF Expire, CloseWindow, ReopenWindow, positionVars, premiumVars
    <2>10. CASE UNCHANGED vars
        BY <2>4, <2>10 DEF vars, positionVars, premiumVars
    <2>11. ASSUME NEW w \in Writers, NEW k \in 1 .. MaxContracts,
                  NEW m \in Multipliers, Write(w, k, m)
           PROVE  Earned(v)' >= Earned(v)
        BY <1>1, <2>1, <2>2, <2>3, <2>11, EarnedKeptByWrite
    <2>12. ASSUME NEW w \in Writers, ClaimPremium(w)
           PROVE  Earned(v)' >= Earned(v)
        BY <1>1, <2>1, <2>2, <2>3, <2>12, EarnedKeptByClaim
    <2>13. QED
        BY <1>1, <2>5, <2>6, <2>7, <2>8, <2>9, <2>10, <2>11, <2>12 DEF Next
<1> DEFINE kept == \A w \in Writers : Earned(w)' >= Earned(w)
<1>2. /\ TypeOK /\ TypeOK' /\ PremiumInv /\ PremiumInv' /\ [Next]_vars
      => [kept]_vars
    BY <1>1
<1>3. QED
    BY <1>2, InitType, NextType, InitPremium, NextPremium, PTL
    DEF Spec, EarnedNeverFalls

=============================================================================
