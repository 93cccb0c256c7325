----------------------------- MODULE SeriesBook -----------------------------
(***************************************************************************)
(* The book of one option series: what programs/deliverable/src/           *)
(* instructions/{write,settle}.rs and state/series.rs do to the            *)
(* OptionSeries account, the WriterPosition accounts, the three vaults and *)
(* the option mint.  One action per instruction, plus the environment      *)
(* those instructions live with: the clock (which the program reads as a   *)
(* phase), premium arriving as a plain transfer, and the permanent         *)
(* delegate of the mint.                                                   *)
(*                                                                         *)
(* The refusal gate, the registry's pause and the mint's transfer hook can *)
(* only stop an instruction, never change what it does, so here they are   *)
(* the environment's choice not to take the step.                          *)
(***************************************************************************)
EXTENDS StrikeMath, FiniteSets

CONSTANTS
    Writers,      \* the accounts that may open a position
    Multipliers,  \* the multipliers the issuer may put on the mint
    MaxContracts, \* MAX_CONTRACTS_PER_SERIES
    Deposits,     \* sizes of the transfers that bring premium in
    MaxPremium,   \* bound: premium that ever arrives
    MaxSeized,    \* bound: raw underlying the permanent delegate ever takes
    Reopens       \* may a window be postponed again after a settlement?

\* MAX_CONTRACTS_PER_SERIES is below SCALE, so one raw unit of premium is
\* always enough to move the accumulator.
ASSUME BookAssumption ==
    /\ IsFiniteSet(Writers)
    /\ Multipliers \subseteq Nat \ {0}
    /\ MaxContracts \in Nat
    /\ MaxContracts <= Scale
    /\ Deposits \subseteq Nat \ {0}
    /\ MaxPremium \in Nat
    /\ MaxSeized \in Nat
    /\ Reopens \in BOOLEAN

Phases == {"Active", "Settling", "Settled"}

VARIABLES
    phase,          \* SeriesPhase, derived from the clock by the program
    \* WriterPosition
    opened,         \* the writers whose position account exists
    settled,        \* the writers whose position.settled is true
    contracts,
    raw_collateral,
    premium_debt,
    premium_claimed,
    \* OptionSeries
    contracts_written,
    contracts_exercised,
    contracts_assigned_total,
    quote_collected,
    premium_per_contract_acc,
    premium_credited_total,
    premium_claimed_total,
    \* token accounts and the option mint
    collateral_vault,
    quote_vault,
    premium_vault,
    option_supply,
    \* history: the events of PositionSettled and the environment's totals
    assigned,       \* contracts_assigned of each writer's event
    quote_paid,     \* quote_paid of each writer's event
    raw_shortfall,  \* raw_shortfall summed over the events
    seized,         \* raw underlying the permanent delegate has taken
    premium_in,     \* premium that has arrived
    roundings,      \* divisions that lost a part so far, at most
    joined          \* premium_in before a writer's first write

positionVars == <<opened, settled, contracts, raw_collateral>>
premiumVars  == <<premium_debt, premium_claimed, premium_per_contract_acc,
                  premium_credited_total, premium_claimed_total,
                  premium_vault, premium_in, roundings, joined>>
bookVars     == <<contracts_written, contracts_exercised,
                  contracts_assigned_total, quote_collected>>
vaultVars    == <<collateral_vault, quote_vault, option_supply>>
eventVars    == <<assigned, quote_paid, raw_shortfall>>

vars == <<phase, positionVars, premiumVars, bookVars, vaultVars, eventVars,
          seized>>

NoneYet == [w \in Writers |-> 0]

Init ==
    /\ phase = "Active"
    /\ opened = {}
    /\ settled = {}
    /\ contracts = NoneYet
    /\ raw_collateral = NoneYet
    /\ premium_debt = NoneYet
    /\ premium_claimed = NoneYet
    /\ contracts_written = 0
    /\ contracts_exercised = 0
    /\ contracts_assigned_total = 0
    /\ quote_collected = 0
    /\ premium_per_contract_acc = 0
    /\ premium_credited_total = 0
    /\ premium_claimed_total = 0
    /\ collateral_vault = 0
    /\ quote_vault = 0
    /\ premium_vault = 0
    /\ option_supply = 0
    /\ assigned = NoneYet
    /\ quote_paid = NoneYet
    /\ raw_shortfall = 0
    /\ seized = 0
    /\ premium_in = 0
    /\ roundings = 0
    /\ joined = NoneYet

-----------------------------------------------------------------------------
(* The accumulator.                                                        *)

\* accrue_premium: what arrived since the last accrual, per contract.
AccruedPerContract ==
    LET pool  == premium_vault + premium_claimed_total
        delta == SaturatingSub(pool, premium_credited_total)
    IN  IF contracts_written = 0
        THEN 0
        ELSE MulDivFloor(delta, Scale, contracts_written)

\* The two counters after accrue_premium: unchanged when nothing accrues.
AccruedAcc == premium_per_contract_acc + AccruedPerContract

\* Mutated credit: nothing is ever marked as credited.
AccruedCreditForgotten == premium_credited_total

\* Mutated credit: the whole pool is marked, whatever the book could take.
AccruedCreditWholePool == premium_vault + premium_claimed_total

AccruedCredit ==
    premium_credited_total
        + MulDivFloor(AccruedPerContract, contracts_written, Scale)

AccruePremium ==
    /\ premium_per_contract_acc' = AccruedAcc
    /\ premium_credited_total' = AccruedCredit

\* An accrual that credits something rounds once.
AccrualRounds == IF AccruedPerContract > 0 THEN 1 ELSE 0

\* Mutated entry: new contracts share in everything that ever arrived.
EntryDebtNone(k) == 0

\* Mutated entry: the level is rounded against the writer.
EntryDebtCeil(k) == MulDivCeil(AccruedAcc, k, Scale)

\* write: the level at which k new contracts are checked in.
EntryDebt(k) == MulDivFloor(AccruedAcc, k, Scale)

\* premium_owed of a position at accumulator level acc.
PremiumOwed(w, acc) ==
    SaturatingSub(MulDivFloor(acc, contracts[w], Scale), premium_debt[w])

-----------------------------------------------------------------------------
(* Instructions.                                                           *)

\* Mutated payment: the vault's balance is not looked at.
PayableUnclamped(due, vault) == due

\* What a vault pays of what is due: never more than it holds.
Payable(due, vault) == Least(due, vault)

\* open_position: an empty position, once per writer.
OpenPosition(w) ==
    /\ w \notin opened
    /\ opened' = opened \cup {w}
    /\ UNCHANGED <<phase, settled, contracts, raw_collateral, premiumVars,
                   bookVars, vaultVars, eventVars, seized>>

\* write: collateral in, option tokens out, and the accumulator credited
\* before the book it is divided by grows.
Write(w, k, m) ==
    /\ w \in opened
    /\ InBand(m)
    /\ phase = "Active"
    /\ contracts_written + k <= MaxContracts
    /\ collateral_vault' = collateral_vault + DeliveryRaw(k)
    /\ option_supply' = option_supply + k
    /\ AccruePremium
    /\ contracts_written' = contracts_written + k
    /\ contracts' = [contracts EXCEPT ![w] = @ + k]
    /\ premium_debt' = [premium_debt EXCEPT ![w] = @ + EntryDebt(k)]
    /\ raw_collateral' = [raw_collateral EXCEPT ![w] = @ + DeliveryRaw(k)]
    /\ roundings' = roundings + AccrualRounds + 1
    /\ joined' = IF contracts[w] = 0 /\ contracts_written > 0
                 THEN [joined EXCEPT ![w] = premium_in]
                 ELSE joined
    /\ UNCHANGED <<phase, opened, settled, premium_claimed,
                   premium_claimed_total, premium_vault, premium_in,
                   contracts_exercised, contracts_assigned_total,
                   quote_collected, quote_vault, eventVars, seized>>

\* claim_premium: accrue, then pay what is owed as far as the vault reaches;
\* what the vault cannot pay stays owed.
ClaimPremium(w) ==
    LET payout == Payable(PremiumOwed(w, AccruedAcc), premium_vault)
    IN  /\ w \in opened
        /\ contracts_written > 0
        /\ payout > 0
        /\ AccruePremium
        /\ premium_vault' = premium_vault - payout
        /\ premium_claimed_total' = premium_claimed_total + payout
        /\ premium_debt' = [premium_debt EXCEPT ![w] = @ + payout]
        /\ premium_claimed' = [premium_claimed EXCEPT ![w] = @ + payout]
        /\ roundings' = roundings + AccrualRounds
        /\ UNCHANGED <<phase, positionVars, bookVars, vaultVars, eventVars,
                       premium_in, joined, seized>>

\* exercise: a holder burns k option tokens, pays the strike the mint implies
\* and takes the shares.  Option tokens trade freely, so any k of the supply
\* may be in one holder's hands.  The stamp of the first exercise may take back
\* the minutes that kept the window open, and so close it behind the holder.
Exercise(k, m) ==
    LET cost == ExerciseCost(m, k)
    IN  /\ phase = "Settling"
        /\ InBand(m)
        /\ collateral_vault >= DeliveryRaw(k)
        /\ k <= option_supply
        /\ contracts_exercised + k <= contracts_written
        /\ option_supply' = option_supply - k
        /\ quote_vault' = quote_vault + cost
        /\ collateral_vault' = collateral_vault - DeliveryRaw(k)
        /\ contracts_exercised' = contracts_exercised + k
        /\ quote_collected' = quote_collected + cost
        /\ phase' \in {phase, "Settled"}
        /\ UNCHANGED <<positionVars, premiumVars, contracts_written,
                       contracts_assigned_total, eventVars, seized>>

\* Mutated assignment: the fair share alone, rounded down.
AssignmentFloored(w) ==
    IF contracts_written = 0
    THEN 0
    ELSE MulDivFloor(contracts[w], contracts_exercised, contracts_written)

\* Mutated assignment: rounded up and never capped by what is left.
AssignmentUncapped(w) ==
    IF contracts_written = 0
    THEN 0
    ELSE MulDivCeil(contracts[w], contracts_exercised, contracts_written)

\* conserving_assignment: the pro-rata share rounded up, capped by what is
\* left to assign and by what the writer wrote.
ConservingAssignment(w) ==
    IF contracts_written = 0 \/ contracts_exercised = 0
    THEN 0
    ELSE LET share     == MulDivCeil(contracts[w], contracts_exercised,
                                     contracts_written)
             remaining == SaturatingSub(contracts_exercised,
                                        contracts_assigned_total)
         IN  Least(Least(share, remaining), contracts[w])

\* Mutated payment: each writer's part is rounded on its own.
QuoteDueAlone(a) ==
    IF contracts_exercised = 0
    THEN 0
    ELSE MulDivFloor(quote_collected, a, contracts_exercised)

\* Mutated payment: the part of the earlier settlers is not taken off.
QuoteDueCumulative(a) ==
    IF contracts_exercised = 0
    THEN 0
    ELSE MulDivFloor(quote_collected, contracts_assigned_total + a,
                     contracts_exercised)

\* settle_expired: the quote due for the next a contracts in the order of
\* assignment.
QuoteDue(a) ==
    IF contracts_exercised = 0
    THEN 0
    ELSE SaturatingSub(
             MulDivFloor(quote_collected, contracts_assigned_total + a,
                         contracts_exercised),
             MulDivFloor(quote_collected, contracts_assigned_total,
                         contracts_exercised))

\* settle_expired: one writer is assigned, takes the unassigned collateral
\* back and is paid for the rest.  Both payments are clamped to the vaults.
SettleExpired(w) ==
    LET a         == ConservingAssignment(w)
        owed      == DeliveryRaw(SaturatingSub(contracts[w], a))
        raw_back  == Payable(owed, collateral_vault)
        quote_due == Payable(QuoteDue(a), quote_vault)
    IN  /\ phase = "Settled"
        /\ w \notin settled
        /\ contracts[w] > 0
        /\ collateral_vault' = collateral_vault - raw_back
        /\ quote_vault' = quote_vault - quote_due
        /\ contracts_assigned_total' = contracts_assigned_total + a
        /\ settled' = settled \cup {w}
        /\ raw_collateral' =
               [raw_collateral EXCEPT ![w] = SaturatingSub(@, raw_back)]
        /\ assigned' = [assigned EXCEPT ![w] = a]
        /\ quote_paid' = [quote_paid EXCEPT ![w] = quote_due]
        /\ raw_shortfall' =
               raw_shortfall + SaturatingSub(owed, collateral_vault)
        /\ UNCHANGED <<phase, opened, contracts, premiumVars,
                       contracts_written, contracts_exercised,
                       quote_collected, option_supply, seized>>

-----------------------------------------------------------------------------
(* The environment.                                                        *)

\* Premium is whatever lands in the vault: there is no deposit instruction.
DepositPremium(n) ==
    /\ premium_in + n <= MaxPremium
    /\ premium_vault' = premium_vault + n
    /\ premium_in' = premium_in + n
    /\ UNCHANGED <<phase, positionVars, bookVars, vaultVars, eventVars, seized,
                   premium_debt, premium_claimed, premium_per_contract_acc,
                   premium_credited_total, premium_claimed_total, roundings,
                   joined>>

\* The mint's permanent delegate takes raw underlying out of the vault.
Seize(n) ==
    /\ n <= collateral_vault
    /\ seized + n <= MaxSeized
    /\ collateral_vault' = collateral_vault - n
    /\ seized' = seized + n
    /\ UNCHANGED <<phase, positionVars, premiumVars, bookVars, quote_vault,
                   option_supply, eventVars>>

\* phase_with_refusals as the handlers see it: the clock passes expiry, then
\* the window runs out.
Expire ==
    /\ phase = "Active"
    /\ phase' = "Settling"
    /\ UNCHANGED <<positionVars, premiumVars, bookVars, vaultVars, eventVars,
                   seized>>

CloseWindow ==
    /\ phase = "Settling"
    /\ phase' = "Settled"
    /\ UNCHANGED <<positionVars, premiumVars, bookVars, vaultVars, eventVars,
                   seized>>

\* A refusal recorded late gives minutes back to a window that was over.
ReopenWindow ==
    /\ phase = "Settled"
    /\ Reopens \/ settled = {}
    /\ phase' = "Settling"
    /\ UNCHANGED <<positionVars, premiumVars, bookVars, vaultVars, eventVars,
                   seized>>

Next ==
    \/ Expire
    \/ CloseWindow
    \/ ReopenWindow
    \/ \E n \in Deposits : DepositPremium(n)
    \/ \E n \in 1 .. MaxSeized : Seize(n)
    \/ \E k \in 1 .. MaxContracts, m \in Multipliers : Exercise(k, m)
    \/ \E w \in Writers :
          \/ OpenPosition(w)
          \/ ClaimPremium(w)
          \/ SettleExpired(w)
          \/ \E k \in 1 .. MaxContracts, m \in Multipliers : Write(w, k, m)

Spec == Init /\ [][Next]_vars

\* No window is postponed again once a writer has been settled.  The program
\* does not see to it (Venue): it is up to the attestor and the issuer.
StaysClosed == [][settled # {} => phase' = phase]_vars

-----------------------------------------------------------------------------
(* Properties.                                                             *)

\* Every variable keeps its Rust type: the unsigned counters and balances
\* never go below zero, so no checked or saturating subtraction is needed
\* that the handlers do not already have.
TypeOK ==
    /\ phase \in Phases
    /\ opened \subseteq Writers
    /\ settled \subseteq Writers
    /\ contracts \in [Writers -> Nat]
    /\ raw_collateral \in [Writers -> Nat]
    /\ premium_debt \in [Writers -> Nat]
    /\ premium_claimed \in [Writers -> Nat]
    /\ contracts_written \in Nat
    /\ contracts_exercised \in Nat
    /\ contracts_assigned_total \in Nat
    /\ quote_collected \in Nat
    /\ premium_per_contract_acc \in Nat
    /\ premium_credited_total \in Nat
    /\ premium_claimed_total \in Nat
    /\ collateral_vault \in Nat
    /\ quote_vault \in Nat
    /\ premium_vault \in Nat
    /\ option_supply \in Nat
    /\ assigned \in [Writers -> Nat]
    /\ quote_paid \in [Writers -> Nat]
    /\ raw_shortfall \in Nat
    /\ seized \in Nat
    /\ premium_in \in Nat
    /\ roundings \in Nat
    /\ joined \in [Writers -> Nat]

\* One pair per contract: the contracts f gives the writers in S, as a set, so
\* that its cardinality is the sum of their position.contracts.
UnitsOf(f, S) == UNION {{w} \X (1 .. f[w]) : w \in S}

\* Contracts of the writers who have not settled.
Outstanding == Cardinality(UnitsOf(contracts, Writers \ settled))

\* Contracts exercised and not yet assigned to a writer.
Unassigned == contracts_exercised - contracts_assigned_total

\* The series counter is the sum of the positions.
BookCounts ==
    /\ contracts_written = Cardinality(UnitsOf(contracts, Writers))
    /\ contracts_exercised <= contracts_written
    /\ contracts_assigned_total <= contracts_exercised

\* Nothing is exercised before expiry, nobody settles before the window has
\* closed, and only settlements assign.
BookOrder ==
    /\ phase = "Active" => contracts_exercised = 0
    /\ phase # "Settled" => settled = {}
    /\ settled = {} => contracts_assigned_total = 0

\* The writers still to settle carry no more of what is unassigned than
\* their pro-rata part: rounding up never leaves the late ones a bill.
RestIsFair ==
    Unassigned * contracts_written <= Outstanding * contracts_exercised

\* The vault holds one contract's collateral for each outstanding contract
\* that will not be assigned, but for what was seized and not yet reported.
VaultBacksTheRest ==
    /\ collateral_vault + seized
           = DeliveryRaw(Outstanding - Unassigned) + raw_shortfall
    /\ raw_shortfall <= seized

\* Quote paid out for the contracts assigned so far: the running floor that
\* makes the single payments add up.
PaidSoFar ==
    IF contracts_exercised = 0
    THEN 0
    ELSE MulDivFloor(quote_collected, contracts_assigned_total,
                     contracts_exercised)

\* The quote vault holds exactly what the writers to come will be paid.
QuoteBacksTheRest ==
    /\ contracts_exercised = 0 => quote_collected = 0
    /\ quote_vault = quote_collected - PaidSoFar

\* What makes settlement conserve, whatever the order of the queue
\* (conserving_assignment and settle_expired): the inductive invariant of
\* the theorem in SeriesBookProofs.
BookInv ==
    /\ BookCounts
    /\ BookOrder
    /\ RestIsFair
    /\ VaultBacksTheRest
    /\ QuoteBacksTheRest

\* The comment on PositionSettled.raw_shortfall: a writer is paid short only
\* of what the permanent delegate took, never because others settled first.
ShortfallOnlyFromSeizure == raw_shortfall <= seized

\* When the last writer has settled the book is empty: everything exercised
\* was assigned, both vaults are paid out to the last unit, and the events
\* have reported exactly what was seized.
ClosedOut ==
    (\A w \in Writers : contracts[w] > 0 => w \in settled) =>
        /\ contracts_assigned_total = contracts_exercised
        /\ collateral_vault = 0
        /\ quote_vault = 0
        /\ raw_shortfall = seized

\* settle_expired: a writer is "paid for what this writer actually
\* delivered": within one quote unit of the average price of the assigned
\* contracts, wherever they come in the queue.
QuoteMatchesDelivery ==
    \A w \in settled :
        LET due == quote_collected * assigned[w]
            got == quote_paid[w] * contracts_exercised
        IN  /\ got <= due + contracts_exercised
            /\ due <= got + contracts_exercised

\* Settlement is one of the lotteries a series may hold.
Lottery == INSTANCE AssignmentLottery
    WITH written <- contracts, exercised <- contracts_exercised,
         done <- settled

ImplementsLottery == Lottery!Spec

\* What a writer could have taken out of the premium vault by now, had the
\* vault been deep enough.
Owed(w) == PremiumOwed(w, AccruedAcc)
Earned(w) == premium_claimed[w] + Owed(w)
OwedBy == [w \in Writers |-> Owed(w)]
TotalOwed == Cardinality(UnitsOf(OwedBy, Writers))

\* The uncredited remainder is "picked up by the next accrual", so it can be
\* promised twice, and a writer's entry is rounded too; the excess is at most
\* one raw unit per rounding.
PremiumOverhangBounded == TotalOwed <= premium_vault + roundings

\* "so nothing is stranded by rounding": once there is a book, all but one
\* unit per writer can be claimed.
PremiumNotStranded ==
    contracts_written > 0 =>
        premium_vault <= TotalOwed + Cardinality(opened)

\* "writing one contract a second before expiry" buys nothing: who joins a
\* book that exists earns only from what arrives later, plus roundings.
NoRetroactivePremium ==
    \A w \in Writers :
        contracts[w] > 0 => Earned(w) <= premium_in - joined[w] + roundings

\* No write, claim or settlement by anybody lowers what a writer has earned.
EarnedNeverFalls == [][\A w \in Writers : Earned(w)' >= Earned(w)]_vars
=============================================================================
