------------------------------- MODULE Venue -------------------------------
(***************************************************************************)
(* One option series as its accounts see it: the book of SeriesBook under  *)
(* the clock of SettlementWindow.  No account stores the phase.  Each      *)
(* instruction derives it from the calendar, the halt and the mint         *)
(* (state/series.rs phase_with_refusals), so phase is here what Phase says *)
(* after every step, the gate the book leaves to the environment is        *)
(* Actionable, and the multiplier is the one the mint has in force.        *)
(*                                                                         *)
(* Each instruction is the conjunction of what it does to the two.  What   *)
(* neither reads the clock nor changes what an exercise or a settlement    *)
(* reads stays with SeriesBook: the premium.  So do seizures, whose effect *)
(* does not depend on when they happen.                                    *)
(***************************************************************************)
EXTENDS SettlementWindow

CONSTANTS
    \* the terms of the series
    Strike0, MultiplierAtMint, ContractRawSize, Adjusts, Scale, Grid,
    MaxMultiplierBand,
    \* the book
    Writers, MaxContracts,
    \* the multiplier a scheduled change brings
    NewMultiplier

VARIABLES
    phase,          \* what an instruction that came now would derive
    barred,         \* does the mint keep every instruction from moving it?
    opened, settled, contracts, raw_collateral, premium_debt,
    premium_claimed, contracts_written, contracts_exercised,
    contracts_assigned_total, quote_collected, premium_per_contract_acc,
    premium_credited_total, premium_claimed_total, collateral_vault,
    quote_vault, premium_vault, option_supply, assigned, quote_paid,
    raw_shortfall, seized, premium_in, roundings, joined

\* A window that was over may be postponed again: the clock says when.
Book == INSTANCE SeriesBook
    WITH Reopens <- TRUE, Multipliers <- {MultiplierAtMint, NewMultiplier},
         Deposits <- {}, MaxPremium <- 0, MaxSeized <- 0

\* Every variable of the book but its phase.
ledgerVars ==
    <<opened, settled, contracts, raw_collateral,
      premium_debt, premium_claimed, premium_per_contract_acc,
      premium_credited_total, premium_claimed_total, premium_vault,
      premium_in, roundings, joined,
      contracts_written, contracts_exercised, contracts_assigned_total,
      quote_collected, collateral_vault, quote_vault, option_supply,
      assigned, quote_paid, raw_shortfall, seized>>

venueVars == <<vars, phase, barred, ledgerVars>>

VenueInit == Init /\ phase = Phase /\ barred = FALSE /\ Book!Init

\* phase_with_refusals: derived from the accounts as the step leaves them.
DerivePhase == phase' = Phase'

\* effective_from_cfg: the multiplier changes in the second the timestamp
\* names, and not before.
EffectiveMultiplier ==
    IF change_ts # 0 /\ now >= change_ts THEN NewMultiplier ELSE MultiplierAtMint

-----------------------------------------------------------------------------
(* Instructions.                                                           *)

\* What an instruction of the book does when it leaves the clock alone.
ClockStays == UNCHANGED <<vars, phase, barred>>

\* open_position: not gated.
OpenPosition(w) == ClockStays /\ Book!OpenPosition(w)

\* write: only while the security is actionable.
Write(w, k) ==
    /\ ~barred
    /\ Actionable
    /\ ClockStays
    /\ Book!Write(w, k, EffectiveMultiplier)

\* exercise: the gate and the stamp of the window, then the delivery.
ExerciseContracts(k) ==
    /\ ~barred
    /\ Exercise
    /\ DerivePhase
    /\ Book!Exercise(k, EffectiveMultiplier)
    /\ UNCHANGED barred

\* Mutated settlement: behind the gate, like the instructions before it.
SettleWriterGated(w) ==
    /\ ~barred
    /\ Actionable
    /\ Book!SettleExpired(w)
    /\ SettleExpired
    /\ DerivePhase
    /\ UNCHANGED barred

\* settle_expired, signed by the writer: the phase is derived once more, and
\* of the gate only the transfer hook is left.
SettleWriter(w) ==
    /\ ~barred
    /\ Book!SettleExpired(w)
    /\ SettleExpired
    /\ DerivePhase
    /\ UNCHANGED barred

\* attest_halt changes nothing of a series but what its phase is derived from.
HaltSecurity(since) ==
    /\ AttestHalt(since)
    /\ DerivePhase
    /\ UNCHANGED <<barred, ledgerVars>>

ResumeSecurity ==
    /\ ClearHalt
    /\ DerivePhase
    /\ UNCHANGED <<barred, ledgerVars>>

-----------------------------------------------------------------------------
(* The environment.                                                        *)

AnnounceChange(ts) ==
    /\ ScheduleChange(ts)
    /\ DerivePhase
    /\ UNCHANGED <<barred, ledgerVars>>

\* The issuer attaches a transfer hook to the mint or takes it off.  A pause
\* of the mint, and a multiplier that cannot be decoded, have the same effect:
\* they fail write and exercise in the gate, and a settlement in the token
\* program or in read_multiplier.
BarMint ==
    /\ barred' = ~barred
    /\ UNCHANGED <<vars, phase, ledgerVars>>

PassMinute ==
    /\ Tick
    /\ DerivePhase
    /\ UNCHANGED <<barred, ledgerVars>>

VenueNext ==
    \/ PassMinute
    \/ BarMint
    \/ ResumeSecurity
    \/ \E t \in Times : HaltSecurity(t) \/ AnnounceChange(t)
    \/ \E k \in 1 .. MaxContracts : ExerciseContracts(k)
    \/ \E w \in Writers :
          \/ OpenPosition(w)
          \/ SettleWriter(w)
          \/ \E k \in 1 .. MaxContracts : Write(w, k)

\* Time passes, and every writer who may be settled for long enough sends the
\* settlement: it has to be signed by that writer, and nobody else can.
VenueSpec ==
    /\ VenueInit /\ [][VenueNext]_venueVars
    /\ WF_vars(Tick)
    /\ \A w \in Writers : WF_venueVars(SettleWriter(w))

-----------------------------------------------------------------------------
(* Properties.                                                             *)

\* Whatever the attestor, the issuer and the calendar do, the phase they
\* imply is one the book was specified for: it passes from Active through
\* Settling to Settled, skips nothing, and never returns to Active; and no
\* instruction moves it by what it does to the book.
ImplementsBook == Book!Spec

\* "a halt must not be able to strand a writer's collateral": every writer
\* with a contract who asks for it is settled, through halts refreshed for
\* ever, changes and closed markets.  What can strand it is the mint: the
\* promise stands only if the issuer does not bar it time and again.
EverybodySettles ==
    <>[]~barred => <>[](\A w \in Writers : contracts[w] > 0 => w \in settled)

\* The comment on PositionSettled.raw_shortfall: it "can only be non-zero if
\* the underlying left the vault by a route this program does not control".
\* It is not so: a halt cleared late turns a settled series back into a
\* settling one between two writers, and what is exercised then was promised
\* to the next of them.
ShortfallOnlyFromSeizure == Book!ShortfallOnlyFromSeizure
=============================================================================
