-------------------------- MODULE SettlementWindow --------------------------
(***************************************************************************)
(* The clock of one option series: when it may be exercised and when its   *)
(* writers may be settled, as programs/deliverable/src/state/series.rs     *)
(* derives it from the calendar, the halt attested for the security        *)
(* (gate.rs, instructions/security.rs) and the multiplier change the mint  *)
(* carries (scaled_ui.rs).  Nobody opens or closes the window: its phase   *)
(* is a function of those accounts and of the time of the transaction.     *)
(*                                                                         *)
(* One unit of time is one minute.  Only the refusals that leave a record  *)
(* to be subtracted are here: a halt and a scheduled multiplier change.    *)
(* The gate's other refusals only keep a holder from exercising.           *)
(***************************************************************************)
EXTENDS FixedPoint, FiniteSets

CONSTANTS
    OpenTimes,   \* the minutes of regular session, by the calendar
    DayLength,   \* minutes in a day
    MaxScanDays, \* MAX_SESSION_SCAN_DAYS
    Expiry,      \* expiry_ts
    Window,      \* settlement_window_minutes
    HaltMaxAge,  \* HALT_ATTESTATION_MAX_AGE_SECS
    QuietPeriod, \* MULTIPLIER_QUIET_PERIOD_SECS
    Forever,     \* u32::MAX, by which the accumulator says it gave up
    MaxNow,      \* bound: the clock stops here
    MaxDelay,    \* bound: how late the attestor reports that a halt began
    MaxHalts,    \* bound: separate halts the attestor reports
    MaxChanges   \* bound: multiplier changes the issuer schedules

\* The scan of the calendar gives up this many days out.
Saturates(from, to) ==
    (to \div DayLength) - (from \div DayLength) > MaxScanDays

\* What create_series requires of a series, and a bound on the clock that lets
\* the scan of the calendar saturate.
ASSUME WindowAssumption ==
    /\ OpenTimes \subseteq Nat
    /\ DayLength \in Nat \ {0}
    /\ MaxScanDays \in Nat
    /\ Expiry \in OpenTimes \ {0}
    /\ Window \in Nat \ {0}
    /\ HaltMaxAge \in Nat
    /\ QuietPeriod \in Nat
    /\ MaxNow \in Nat
    /\ Forever \in Nat
    /\ Forever > 2 * MaxNow
    /\ Saturates(Expiry, MaxNow)
    /\ MaxDelay \in Nat
    /\ MaxHalts \in Nat
    /\ MaxChanges \in Nat

VARIABLES
    now,              \* Clock::unix_timestamp
    halt,             \* SecurityState.halt
    change_ts,        \* the mint's new_multiplier_effective_timestamp
    window_opened_ts, \* when the first exercise went through
    \* history
    settled_once,     \* has any writer been settled?
    served,           \* open minutes since expiry the gate could act in
    refused,          \* open minutes since expiry the gate refused, until
                      \* the first exercise
    halts,            \* separate halts reported so far
    changes           \* multiplier changes scheduled so far

clockVars == <<now, served, refused>>
haltVars  == <<halt, halts>>
mintVars  == <<change_ts, changes>>
bookVars  == <<window_opened_ts, settled_once>>

vars == <<clockVars, haltVars, mintVars, bookVars>>

Times == 0 .. MaxNow

\* HaltState::default.
NoHalt == [halted |-> FALSE, since_ts |-> 0, attested_ts |-> 0, lifted_ts |-> 0]

Init ==
    /\ now = 1
    /\ halt = NoHalt
    /\ change_ts = 0
    /\ window_opened_ts = 0
    /\ settled_once = FALSE
    /\ served = 0
    /\ refused = 0
    /\ halts = 0
    /\ changes = 0

-----------------------------------------------------------------------------
(* The clock.                                                              *)

\* open_minutes_between: regular-session minutes in [from, to).
OpenMinutesBetween(from, to) ==
    IF to <= from THEN 0
    ELSE IF Saturates(from, to) THEN Forever
    ELSE Cardinality(OpenTimes \cap (from .. to - 1))

\* HaltState::is_fresh and is_in_force.
IsFresh == now - halt.attested_ts <= HaltMaxAge

IsInForce == halt.halted /\ IsFresh

\* An interval that is not there.
NoInterval == <<0, 0>>

\* Mutated interval: a halt that was cleared leaves nothing behind.
RefusedIntervalErased ==
    IF halt.halted
    THEN <<halt.since_ts,
           IF IsFresh THEN now ELSE halt.attested_ts + HaltMaxAge>>
    ELSE NoInterval

\* HaltState::refused_interval: from when the halt began until now, until its
\* attestation went stale, or until it was cleared.
RefusedInterval ==
    CASE halt.halted /\ IsFresh    -> <<halt.since_ts, now>>
      [] halt.halted /\ ~IsFresh   -> <<halt.since_ts,
                                        halt.attested_ts + HaltMaxAge>>
      [] ~halt.halted /\ halt.lifted_ts > 0
                                   -> <<halt.since_ts, halt.lifted_ts>>
      [] OTHER                     -> NoInterval

\* MintMultiplier::quiet_interval: the period before the latest change, which
\* the mint remembers after it has landed.
QuietInterval ==
    IF change_ts = 0
    THEN NoInterval
    ELSE <<change_ts - QuietPeriod, change_ts>>

\* The gate's MultiplierPending, through the instant the change lands.
IsQuiet ==
    /\ change_ts # 0
    /\ now <= change_ts
    /\ change_ts - now <= QuietPeriod

\* The part of an interval that is given back: inside the window, and after
\* the first exercise.
GivenBack(interval) ==
    OpenMinutesBetween(
        Greatest(Greatest(interval[1], Expiry), window_opened_ts),
        Least(interval[2], now))

\* refused_window_minutes: the two credits are added, even where they overlap.
RefusedWindowMinutes ==
    Least(GivenBack(RefusedInterval) + GivenBack(QuietInterval), Forever)

\* Mutated phase: a clock that has given up is compared like any other.
PhaseUnbounded ==
    CASE now < Expiry -> "Active"
      [] OTHER ->
            IF SaturatingSub(OpenMinutesBetween(Expiry, now),
                             RefusedWindowMinutes) < Window
            THEN "Settling"
            ELSE "Settled"

\* Mutated phase: the minutes given back postpone the expiry itself.
PhasePostponed ==
    CASE now < Expiry + RefusedWindowMinutes -> "Active"
      [] OTHER ->
            IF OpenMinutesBetween(Expiry, now) < Window
            THEN "Settling"
            ELSE "Settled"

\* phase_with_refusals.
Phase ==
    LET elapsed == OpenMinutesBetween(Expiry, now)
    IN  CASE now < Expiry -> "Active"
          [] now >= Expiry /\ elapsed = Forever -> "Settled"
          [] OTHER ->
                IF SaturatingSub(elapsed, RefusedWindowMinutes) < Window
                THEN "Settling"
                ELSE "Settled"

-----------------------------------------------------------------------------
(* Instructions.                                                           *)

\* The gate, as far as this module knows it.
Actionable == now \in OpenTimes /\ ~IsInForce /\ ~IsQuiet

\* exercise: the first one stamps the window.
Exercise ==
    /\ Actionable
    /\ Phase = "Settling"
    /\ window_opened_ts' = IF window_opened_ts = 0 THEN now ELSE window_opened_ts
    /\ UNCHANGED <<clockVars, haltVars, mintVars, settled_once>>

\* settle_expired, ungated: a closed market or a halt does not stop it.
SettleExpired ==
    /\ Phase = "Settled"
    /\ settled_once' = TRUE
    /\ UNCHANGED <<clockVars, haltVars, mintVars, window_opened_ts>>

\* attest_halt(true).  The program takes any since_ts; this attestor is
\* honest: a new halt began at most MaxDelay ago, and refreshing the
\* attestation of a halt that goes on repeats when it began.
AttestHalt(since) ==
    /\ IF halt.halted
       THEN since = halt.since_ts /\ halts' = halts
       ELSE /\ since <= now /\ now <= since + MaxDelay
            /\ halts < MaxHalts /\ halts' = halts + 1
    /\ halt' = [halted |-> TRUE, since_ts |-> since, attested_ts |-> now,
                lifted_ts |-> 0]
    /\ UNCHANGED <<clockVars, mintVars, bookVars>>

\* Mutated clear: the halt is taken to end when its attestation would have.
ClearHaltAtMaxAge ==
    /\ halt' = [halt EXCEPT !.halted = FALSE, !.attested_ts = now,
                            !.lifted_ts = IF halt.halted
                                          THEN halt.attested_ts + HaltMaxAge
                                          ELSE @]
    /\ UNCHANGED <<clockVars, halts, mintVars, bookVars>>

\* attest_halt(false): keeps when the halt began, records when it ended.
ClearHalt ==
    /\ halt' = [halt EXCEPT !.halted = FALSE, !.attested_ts = now,
                            !.lifted_ts = IF halt.halted THEN now ELSE @]
    /\ UNCHANGED <<clockVars, halts, mintVars, bookVars>>

-----------------------------------------------------------------------------
(* The environment.                                                        *)

\* The issuer schedules a multiplier change on the mint.
ScheduleChange(ts) ==
    /\ changes < MaxChanges
    /\ ts >= now
    /\ change_ts' = ts
    /\ changes' = changes + 1
    /\ UNCHANGED <<clockVars, haltVars, bookVars>>

\* Is the gate refusing all through the coming minute?
RefusesThisMinute ==
    \/ halt.halted /\ now - halt.attested_ts < HaltMaxAge
    \/ change_ts # 0 /\ now < change_ts /\ change_ts - now <= QuietPeriod

\* A minute passes.
Tick ==
    LET counts == now >= Expiry /\ now \in OpenTimes
    IN  /\ now < MaxNow
        /\ now' = now + 1
        /\ served' = served + (IF counts /\ ~RefusesThisMinute THEN 1 ELSE 0)
        /\ refused' = refused + (IF counts /\ RefusesThisMinute
                                           /\ window_opened_ts = 0
                                 THEN 1 ELSE 0)
        /\ UNCHANGED <<haltVars, mintVars, bookVars>>

Next ==
    \/ Tick
    \/ Exercise
    \/ SettleExpired
    \/ ClearHalt
    \/ \E t \in Times : AttestHalt(t) \/ ScheduleChange(t)

\* The time passes whatever anybody does.
Spec == Init /\ [][Next]_vars /\ WF_vars(Tick)

-----------------------------------------------------------------------------
(* Properties.                                                             *)

\* The accounts hold times that have passed: a halt ends after it was
\* attested and not in the future, and the window opens inside itself.
TypeOK ==
    /\ now \in Times
    /\ halt \in [halted : BOOLEAN, since_ts : Times, attested_ts : Times,
                 lifted_ts : Times]
    /\ halt.since_ts <= halt.attested_ts
    /\ halt.attested_ts <= now
    /\ halt.lifted_ts <= halt.attested_ts
    /\ halt.halted => halt.lifted_ts = 0
    /\ change_ts \in Times
    /\ window_opened_ts \in {0} \cup Expiry .. now
    /\ settled_once \in BOOLEAN
    /\ served \in Nat
    /\ refused \in Nat
    /\ halts \in 0 .. MaxHalts
    /\ changes \in 0 .. MaxChanges

\* Refused minutes that are not given back: once somebody has exercised, the
\* credit starts there, and what was refused before it is gone.
Forgone == IF window_opened_ts = 0 THEN 0 ELSE refused

\* refused_window_minutes: a refusal that spans the window is a delay and not
\* a loss.  When the window is over, and the clock has not given up, the
\* holders had a full window of minutes the venue could act in; only if
\* somebody did exercise may it be short, by what was refused before that.
WindowNeverShort ==
    Phase = "Settled" /\ ~Saturates(Expiry, now) =>
        served + Forgone >= Window

\* A refusal postpones settlement "but not indefinitely": whatever the
\* attestor and the issuer do, the writers can be settled in the end and
\* from then on.
CollateralNotFrozen == <>[](Phase = "Settled")
=============================================================================
