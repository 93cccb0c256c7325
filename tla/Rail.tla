-------------------------------- MODULE Rail --------------------------------
(***************************************************************************)
(* The refusal gate of one security, asked by three parties that have to   *)
(* agree.  An instruction asks it and reverts (gate.rs and                 *)
(* assert_security_actionable in instructions/mod.rs); probe_security asks *)
(* it and writes the answer down (instructions/security.rs); and the SDK   *)
(* answers for the program from accounts it fetched (sdk/src/gate.ts,      *)
(* mint.ts, oracle.ts and isActionable in client.ts).  The issuer, the     *)
(* attestor, the publishers and the clock move in between.                 *)
(*                                                                         *)
(* One unit of time is ten minutes.  A price is a small number at one      *)
(* exponent.  A multiplier that cannot be decoded is the value Undecodable.*)
(***************************************************************************)
EXTENDS Integers, FiniteSets, Sequences

CONSTANTS
    OpenTimes,     \* when the calendar account has a session
    SdkOpenTimes,  \* when the SDK takes the same account to have one
    QuietPeriod,   \* MULTIPLIER_QUIET_PERIOD_SECS
    HaltMaxAge,    \* HALT_ATTESTATION_MAX_AGE_SECS
    MaxAge,        \* max_price_age of the security
    PythMaxAge,    \* the outer bound of a Pyth source
    MaxConf,       \* max_conf_bps
    MaxDivergence, \* max_divergence_bps
    Bindings,      \* the pairs of sources a security may be registered with
    Prints,        \* what a publisher may print: [price, conf, full]
    Multipliers,   \* what the issuer may set
    Undecodable,   \* a multiplier f64_bits_to_fixed rejects
    Leads,         \* how far ahead the issuer schedules
    MaxTime,       \* bound on the clock
    MaxMoves       \* bound on what the environment does

ASSUME RailAssumption ==
    /\ OpenTimes \subseteq SdkOpenTimes /\ SdkOpenTimes \subseteq Nat
    /\ {QuietPeriod, HaltMaxAge, MaxAge, PythMaxAge, MaxConf, MaxDivergence,
        MaxTime, MaxMoves} \subseteq Nat
    /\ Bindings \subseteq [primary : {"Scope", "Pyth"},
                           secondary : {"Scope", "Pyth", "none"}]
    /\ Prints \subseteq [price : Nat, conf : Nat, full : BOOLEAN]
    /\ Undecodable \in Multipliers /\ Multipliers \subseteq Nat
    /\ 1 \in Multipliers \ {Undecodable} /\ MaxTime > 0
    /\ Leads \subseteq Nat

VARIABLES
    now,      \* the Clock sysvar
    paused,   \* Registry.paused
    binding,  \* SecurityState.sources
    halt,     \* SecurityState.halt: [halted, attested]
    ledger,   \* refusals, last_refusal_code and last_refusal_ts
    synced,   \* the multiplier fields of SecurityState
    mint,     \* the underlying mint: [multiplier, new, effective, paused, hook]
    oracle,   \* the two oracle accounts: [price, conf, full, ts]
    ask,      \* what isActionable has fetched
    answer,   \* what it returned
    turns,    \* history: how often the multiplier in force has changed
    moves     \* how much has happened

accountVars == <<binding, halt, ledger, synced>>
worldVars   == <<mint, turns, oracle, paused>>
clientVars  == <<ask, answer>>
vars == <<now, moves, accountVars, worldVars, clientVars>>

Codes == {"MarketClosed", "Halted", "OracleStale", "ConfidenceBlown",
          "MultiplierPending", "IssuerPaused", "HookAttached",
          "SourcesDisagree", "SingleSource"}
ReadCodes == {"OracleUnreadable", "MultiplierUnreadable"}

\* How a read or a question ends.
Yes       == [kind |-> "ok", code |-> "none"]
Refuse(c) == [kind |-> "refused", code |-> c]
Fail(c)   == [kind |-> "error", code |-> c]
Outcomes  == [kind : {"ok", "refused", "error"},
              code : Codes \cup ReadCodes \cup
                     {"none", "OracleSourceMismatch", "InvalidMultiplier",
                      "RegistryPaused"}]

Slots == {"primary", "secondary"}

-----------------------------------------------------------------------------
(* The readings.                                                           *)

\* effective_from_cfg decodes both fields, whichever is in force.
Decodes(cfg) == Undecodable \notin {cfg.multiplier, cfg.new}

EffectiveOf(cfg, t) == IF t >= cfg.effective THEN cfg.new ELSE cfg.multiplier

\* The program still calls a change pending in the second it lands; the SDK's
\* mintMultiplierAt does not.
PendingOnChain(cfg, t) == t <= cfg.effective
PendingInSdk(cfg, t)   == t < cfg.effective

\* observe: Scope rejects a slot nobody wrote, Pyth an update that is only
\* partly verified or past its own outer bound.
ReadError(source, o, t) ==
    CASE source = "Scope" /\ o.price = 0 -> "OracleSourceMismatch"
      [] source = "Pyth" /\ (~o.full \/ o.ts + PythMaxAge < t) -> "OracleStale"
      [] OTHER -> "none"

\* What failed first among the accounts the binding names, in the order read.
FirstReadError(b, o, t) ==
    LET first == ReadError(b.primary, o.primary, t)
    IN  CASE first # "none" -> first
          [] first = "none" /\ b.secondary # "none"
                            -> ReadError(b.secondary, o.secondary, t)
          [] OTHER          -> "none"

ConfBps(o) == (o.conf * 10000) \div o.price

DivergenceBps(a, b) ==
    LET diff == IF a.price > b.price THEN a.price - b.price ELSE b.price - a.price
    IN  (diff * 10000) \div a.price

-----------------------------------------------------------------------------
(* The gate.                                                               *)

\* The checks in the order check_actionable makes them.  A check holds, is
\* refused with its code, or raises: a price of zero has no confidence and no
\* divergence.
Band(source, o) ==
    CASE source # "Pyth" -> "holds"
      [] source = "Pyth" /\ o.price = 0 -> "raises"
      [] OTHER -> IF ConfBps(o) > MaxConf THEN "refused" ELSE "holds"

Agreement(b, o) ==
    CASE b.secondary = "none" -> "holds"
      [] b.secondary # "none" /\ 0 \in {o.primary.price, o.secondary.price} -> "raises"
      [] OTHER -> IF DivergenceBps(o.primary, o.secondary) > MaxDivergence
                  THEN "refused" ELSE "holds"

When(condition) == IF condition THEN "refused" ELSE "holds"

GateChecks(sessions, t, halted, pending, m, b, o) == <<
    [code |-> "MarketClosed",      is |-> When(t \notin sessions)],
    [code |-> "Halted",            is |-> When(halted)],
    [code |-> "IssuerPaused",      is |-> When(m.paused)],
    [code |-> "HookAttached",      is |-> When(m.hook)],
    [code |-> "MultiplierPending", is |-> When(pending /\ m.effective - t <= QuietPeriod)],
    [code |-> "OracleStale",       is |-> When(t - o.primary.ts > MaxAge)],
    [code |-> "OracleStale",       is |-> When(b.secondary # "none"
                                               /\ t - o.secondary.ts > MaxAge)],
    [code |-> "ConfidenceBlown",   is |-> Band(b.primary, o.primary)],
    [code |-> "ConfidenceBlown",   is |-> Band(b.secondary, o.secondary)],
    [code |-> "SingleSource",      is |-> When(b.secondary = "none")],
    [code |-> "SourcesDisagree",   is |-> Agreement(b, o)] >>

FirstFailing(checks) ==
    LET failing == {i \in DOMAIN checks : checks[i].is # "holds"}
        first == CHOOSE i \in failing : \A j \in failing : i <= j
    IN  CASE failing = {} -> Yes
          [] failing # {} /\ checks[first].is = "refused" -> Refuse(checks[first].code)
          [] OTHER -> Fail("ConfidenceBlown")

\* HaltState::is_in_force.
InForce(h, t) == h.halted /\ t - h.attested <= HaltMaxAge

CheckActionable ==
    FirstFailing(GateChecks(OpenTimes, now, InForce(halt, now),
                            PendingOnChain(mint, now), mint, binding, oracle))

\* write and exercise: the registry, the calendar before any oracle, the
\* mint, both oracles, the gate.  A refusal and an error both revert.
AssertSecurityActionable ==
    LET read == FirstReadError(binding, oracle, now)
    IN  IF paused THEN Fail("RegistryPaused")
        ELSE IF now \notin OpenTimes THEN Refuse("MarketClosed")
        ELSE IF ~Decodes(mint) THEN Fail("InvalidMultiplier")
        ELSE IF read # "none" THEN Fail(read)
        ELSE CheckActionable

\* Mutated probe: the readings come before the calendar.
ProbeSecurityReadsFirst ==
    LET read == FirstReadError(binding, oracle, now)
    IN  IF ~Decodes(mint) THEN Refuse("MultiplierUnreadable")
        ELSE IF read # "none" THEN Refuse("OracleUnreadable")
        ELSE CheckActionable

\* probe_security: the same questions, with a code for each reading that
\* fails, and an error where the gate itself raises.
ProbeSecurity ==
    LET read == FirstReadError(binding, oracle, now)
    IN  IF now \notin OpenTimes THEN Refuse("MarketClosed")
        ELSE IF ~Decodes(mint) THEN Refuse("MultiplierUnreadable")
        ELSE IF read # "none" THEN Refuse("OracleUnreadable")
        ELSE CheckActionable

-----------------------------------------------------------------------------
(* The program's handlers.                                                 *)

\* isActionable between two calls.
Nothing == [stage |-> "idle"]

Init ==
    /\ now = 1
    /\ paused = FALSE
    /\ binding \in Bindings
    /\ halt = [halted |-> FALSE, attested |-> 0]
    /\ ledger = [refusals |-> 0, code |-> "none", at |-> 0]
    /\ mint = [multiplier |-> 1, new |-> 1, effective |-> 0, paused |-> FALSE,
               hook |-> FALSE]
    /\ synced = [observed |-> 1, epoch |-> 1]
    /\ oracle = [slot \in Slots |-> [price |-> 100, conf |-> 0, full |-> TRUE, ts |-> 1]]
    /\ turns = 0
    /\ ask = Nothing
    /\ answer = [of |-> "nobody"]
    /\ moves = 0

Move == moves < MaxMoves /\ moves' = moves + 1

\* probe_security and record_refusal; an error reverts.
Probe ==
    /\ ProbeSecurity.kind = "refused"
    /\ Move
    /\ ledger' = [refusals |-> ledger.refusals + 1, code |-> ProbeSecurity.code,
                  at |-> now]
    /\ UNCHANGED <<now, binding, halt, synced, worldVars, clientVars>>

\* Mutated sync: the epoch follows the change the mint schedules.
SyncOnSchedule ==
    /\ Decodes(mint) /\ FirstReadError(binding, oracle, now) = "none"
    /\ Move
    /\ synced' = [observed |-> EffectiveOf(mint, now),
                  epoch |-> synced.epoch +
                              (IF mint.new # synced.observed THEN 1 ELSE 0)]
    /\ UNCHANGED <<now, binding, halt, ledger, worldVars, clientVars>>

\* Mutated sync: the multiplier is copied without being decoded.
SyncUndecoded ==
    /\ FirstReadError(binding, oracle, now) = "none"
    /\ Move
    /\ synced' = [observed |-> EffectiveOf(mint, now), epoch |-> synced.epoch]
    /\ UNCHANGED <<now, binding, halt, ledger, worldVars, clientVars>>

\* sync_security: nothing is written unless everything can be read.
Sync ==
    /\ Decodes(mint) /\ FirstReadError(binding, oracle, now) = "none"
    /\ Move
    /\ synced' = [observed |-> EffectiveOf(mint, now),
                  epoch |-> synced.epoch +
                              (IF EffectiveOf(mint, now) # synced.observed THEN 1 ELSE 0)]
    /\ UNCHANGED <<now, binding, halt, ledger, worldVars, clientVars>>

\* attest_halt and set_registry_paused.
AttestHalt(h) ==
    /\ Move
    /\ halt' = [halted |-> h, attested |-> now]
    /\ UNCHANGED <<now, binding, ledger, synced, worldVars, clientVars>>

SetRegistryPaused(p) ==
    /\ Move
    /\ paused' = p
    /\ UNCHANGED <<now, accountVars, mint, turns, oracle, clientVars>>

-----------------------------------------------------------------------------
(* The world: the issuer, the publishers, the clock.                       *)

PauseMint(p) ==
    /\ Move
    /\ mint' = [mint EXCEPT !.paused = p]
    /\ UNCHANGED <<now, accountVars, turns, oracle, paused, clientVars>>

FillHook ==
    /\ ~mint.hook
    /\ Move
    /\ mint' = [mint EXCEPT !.hook = TRUE]
    /\ UNCHANGED <<now, accountVars, turns, oracle, paused, clientVars>>

\* The multiplier in force turns when time or the issuer makes it another.
Turn == turns' = turns + (IF EffectiveOf(mint', now') # EffectiveOf(mint, now)
                          THEN 1 ELSE 0)

\* Token-2022 keeps the value the change replaces.
UpdateMultiplier(m, lead) ==
    /\ Move
    /\ now' = now
    /\ mint' = [mint EXCEPT !.multiplier = EffectiveOf(mint, now), !.new = m,
                            !.effective = now + lead]
    /\ Turn
    /\ UNCHANGED <<accountVars, oracle, paused, clientVars>>

Publish(slot, p) ==
    /\ Move
    /\ oracle' = [oracle EXCEPT ![slot] =
                    [price |-> p.price, conf |-> p.conf, full |-> p.full, ts |-> now]]
    /\ UNCHANGED <<now, accountVars, mint, turns, paused, clientVars>>

Tick ==
    /\ now < MaxTime
    /\ now' = now + 1
    /\ mint' = mint
    /\ Turn
    /\ UNCHANGED <<moves, accountVars, oracle, paused, clientVars>>

-----------------------------------------------------------------------------
(* The SDK.                                                                *)

\* checkActionable in gate.ts: the same order, the account's exceptions looked
\* up by a key it does not use, the halt flag without its age, the change not
\* pending once it is due, and a raise told as a refusal.
PortVerdict(s, o) ==
    LET v == FirstFailing(GateChecks(SdkOpenTimes, s.now, s.halted,
                                     PendingInSdk(s.mint, s.now), s.mint, binding, o))
    IN  IF v.kind = "error" THEN Refuse(v.code) ELSE v

\* Mutated client: a slot of Scope nobody wrote is taken for a stale price.
IsActionableUnwritten(s, o) ==
    LET read == FirstReadError(binding, o, s.now)
    IN  IF ~Decodes(s.mint) THEN Fail("InvalidMultiplier")
        ELSE IF read # "none" THEN Refuse("OracleStale")
        ELSE PortVerdict(s, o)

\* isActionable once everything is fetched: both oracles are read before the
\* calendar is asked, a stale Pyth update is told as a refusal, and every
\* other reading that fails is thrown.
IsActionable(s, o) ==
    LET read == FirstReadError(binding, o, s.now)
    IN  IF ~Decodes(s.mint) THEN Fail("InvalidMultiplier")
        ELSE IF read = "OracleStale" THEN Refuse("OracleStale")
        ELSE IF read # "none" THEN Fail(read)
        ELSE PortVerdict(s, o)

Snapshot == [stage |-> "fetching", now |-> now, halted |-> halt.halted,
             mint |-> mint, oracle |-> oracle]

UsesPyth == "Pyth" \in {binding.primary, binding.secondary}

\* One getMultipleAccounts answers for Scope.
Ask ==
    /\ ask = Nothing /\ ~UsesPyth
    /\ Move
    /\ answer' = [of |-> "snapshot", verdict |-> IsActionable(Snapshot, oracle)]
    /\ UNCHANGED <<now, ask, accountVars, worldVars>>

\* A Pyth account is fetched by a request of its own, after the others.
AskPyth ==
    /\ ask = Nothing /\ UsesPyth
    /\ Move
    /\ ask' = Snapshot
    /\ UNCHANGED <<now, answer, accountVars, worldVars>>

\* Scope keeps the account of the first request.
Fetched ==
    LET later(slot) == IF binding[slot] = "Scope" THEN ask.oracle[slot] ELSE oracle[slot]
    IN  [slot \in Slots |-> later(slot)]

FetchPyth ==
    /\ ask # Nothing
    /\ answer' = [of |-> "later", verdict |-> IsActionable(ask, Fetched)]
    /\ ask' = Nothing
    /\ UNCHANGED <<now, moves, accountVars, worldVars>>

Next ==
    \/ Tick \/ Probe \/ Sync \/ FillHook \/ Ask \/ AskPyth \/ FetchPyth
    \/ \E b \in BOOLEAN : AttestHalt(b) \/ SetRegistryPaused(b) \/ PauseMint(b)
    \/ \E m \in Multipliers, lead \in Leads : UpdateMultiplier(m, lead)
    \/ \E slot \in Slots, p \in Prints : Publish(slot, p)

Spec == Init /\ [][Next]_vars

-----------------------------------------------------------------------------
(* Properties.                                                             *)

TypeOK ==
    /\ now \in 1 .. MaxTime
    /\ moves \in 0 .. MaxMoves
    /\ paused \in BOOLEAN
    /\ binding \in Bindings
    /\ halt \in [halted : BOOLEAN, attested : 0 .. now]
    /\ ledger \in [refusals : 0 .. moves,
                   code : Codes \cup ReadCodes \cup {"none"}, at : 0 .. now]
    /\ synced \in [observed : Multipliers \ {Undecodable}, epoch : 1 .. moves + 1]
    /\ mint \in [multiplier : Multipliers, new : Multipliers, effective : Nat,
                 paused : BOOLEAN, hook : BOOLEAN]
    /\ oracle \in [Slots -> [price : Nat, conf : Nat, full : BOOLEAN, ts : 0 .. now]]
    /\ turns \in Nat
    /\ answer.of # "nobody" => answer.verdict \in Outcomes

\* "The refusal event goes out identically in both paths": whatever the
\* accounts hold, the ledger counts what an instruction is refused for, and
\* a failed reading is counted where the instruction fails without a code.
ProbeAgreesWithInstruction ==
    LET asked == AssertSecurityActionable
        told  == ProbeSecurity
    IN  ~paused =>
          /\ asked.kind # "error" => told = asked
          /\ asked.kind = "error" /\ asked.code # "ConfidenceBlown" =>
                told.kind = "refused" /\ told.code \in ReadCodes

\* multiplier_epoch is there "so an indexer can count corporate actions": it
\* may miss some between two syncs, and it never counts one that has not
\* come into force.
EpochCountsWhatHappened == synced.epoch - 1 <= turns

\* Where the two gates are known to differ: a halt nobody refreshed, the second
\* a change lands, and a session the calendar account takes an exception to.
AgedHalt    == halt.halted /\ ~InForce(halt, now)
LandsNow    == now = mint.effective
Excepted    == now \in SdkOpenTimes \ OpenTimes
KnownToDiffer == AgedHalt \/ LandsNow \/ Excepted

\* isActionable on Scope reads everything in one slot: apart from those
\* differences and the registry's pause, it answers what the instruction sent
\* in that slot would, and throws only where the instruction fails to read.
ScopeVerdictIsThePrograms ==
    [][answer' # answer /\ answer'.of = "snapshot" /\ ~KnownToDiffer /\ ~paused =>
          \/ answer'.verdict = AssertSecurityActionable
          \/ /\ AssertSecurityActionable = Refuse("MarketClosed")
             /\ answer'.verdict.kind = "error"]_vars
=============================================================================
