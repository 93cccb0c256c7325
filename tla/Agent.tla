-------------------------------- MODULE Agent --------------------------------
(***************************************************************************)
(* The writing agent (agent/src): one pass reads the rail, the mint, the   *)
(* series that exist and the writer's balance, each with its own request,  *)
(* decides, and prints unsigned transactions. A human signs them later, or *)
(* some of them, or in another order, while the clock, the gate, the       *)
(* multiplier and the wallet move on. What becomes of them is up to module *)
(* Program.                                                                *)
(*                                                                         *)
(* Prices are not modelled: which rungs of the ladder clear the hurdle, and*)
(* which open series have faded, is any choice. One unit of time is the    *)
(* quarter hour by which an expiry is walked into a session.               *)
(***************************************************************************)
EXTENDS Instructions, Integers, FiniteSets

CONSTANTS
    MaxTime,        \* last instant of the clock
    SdkSessions,    \* instants inside a session by the SDK's own calendar
    ChainSessions,  \* instants inside a session by the calendar on chain
    RegularHours,   \* instants inside a session on a day without an exception
    AskedTimes,     \* what --at may be
    Tenors,         \* tenors, in units of time
    Strikes,        \* strikes of the ladder, in quote units
    RollWithin,     \* an open series is rolled this close to its expiry
    Quiet,          \* MULTIPLIER_QUIET_PERIOD_SECS
    SCALE,          \* the fixed-point one of a multiplier
    Multipliers,    \* multipliers the issuer may set
    ContractSize,   \* raw units of a contract at a multiplier of one
    MaxContracts,   \* --contracts
    Artifacts,      \* expiries of the recorded market artifacts
    CalendarId,     \* --calendar: the one the security is bound to
    Held, HeldAside,\* raw units in the associated account and in another
    MaxRuns,        \* bound on passes of the agent
    MaxEvents       \* bound on what the gate, the issuer and the wallet do

ASSUME AgentAssumption ==
    /\ {MaxTime, RollWithin, Quiet, CalendarId, Held, HeldAside, MaxRuns,
         MaxEvents} \subseteq Nat
    /\ SdkSessions \cup ChainSessions \subseteq RegularHours
    /\ RegularHours \cup AskedTimes \subseteq Nat
    /\ {SCALE, ContractSize, MaxContracts} \cup Multipliers \cup Tenors
         \subseteq Nat \ {0}

VARIABLES
    chain,   \* address -> account
    scaled,  \* the mint's ScaledUiAmount extension
    gate,    \* what the gate would find in an open session: 0, or a code
    now,     \* the chain's clock
    run,     \* the pass under way, and what it has read so far
    desk,    \* what the passes have proposed, and what became of it
    spent    \* how much of each bound has been used

vars == << chain, scaled, gate, now, run, desk, spent >>

P == INSTANCE Program

-----------------------------------------------------------------------------
(* Addresses *)

UNDERLYING == Key("AAPLx")

DEFAULT_QUOTE_MINT == Key("USDC")

TOKEN_PROGRAM_ADDRESS == <<"Tokenkeg">>

TOKEN_2022_PROGRAM_ADDRESS == <<"TokenzQd">>

WRITER == Key("writer")

SCOPE_PRICES_ADDRESS == Key("scope-prices")

SettlementWindow == 390

findAssociatedTokenPda(owner, mint) == << "ata", owner, mint >>

\* A pair of Scope sources reads one account twice (sdk/src/instructions.ts).
oracleAccountsFor ==
    [primaryOracle |-> SCOPE_PRICES_ADDRESS,
     secondaryOracle |-> SCOPE_PRICES_ADDRESS]

seriesAccounts(series, underlyingMint) ==
    [security |-> findSecurityPda(underlyingMint),
     optionMint |-> findOptionMintPda(series),
     collateralVault |-> findCollateralVaultPda(series),
     premiumVault |-> findPremiumVaultPda(series),
     quoteVault |-> findQuoteVaultPda(series)]

-----------------------------------------------------------------------------
(* What the SDK reads *)

mintMultiplierAt(t) ==
    IF t >= scaled.effectiveTs
    THEN [effective |-> scaled.newMultiplier, pending |-> FALSE]
    ELSE [effective |-> scaled.multiplier, pending |-> TRUE]

Registered == findSecurityPda(UNDERLYING) \in DOMAIN chain

\* The gate's answer, given whether there is a session and a change pending.
VerdictIf(session, pending, t) ==
    IF ~session THEN 1
    ELSE IF gate # 0 THEN gate
    ELSE IF pending /\ scaled.effectiveTs - t <= Quiet THEN 5
    ELSE 0

\* Without a SecurityState the calendar is the SDK's own and no halt exists;
\* with one it is the account's, whose exceptions the SDK looks up by a key
\* they do not have.
Verdict(t) ==
    VerdictIf(t \in (IF Registered THEN RegularHours ELSE SdkSessions),
              mintMultiplierAt(t).pending, t)

\* The program's, to which a change is still pending in the instant it lands.
ProgramVerdict ==
    VerdictIf(now \in ChainSessions, now <= scaled.effectiveTs, now)

\* A stale source is reported as an observation of zero: no price.
OracleStale == 3

TokenAccountsOf(owner, mint) ==
    {a \in DOMAIN chain : /\ chain[a].type = "TokenAccount"
                          /\ chain[a].owner = owner /\ chain[a].mint = mint}

\* getAdjustedBalance adds up every account of the owner; raw times multiplier
\* is the balance in adjusted shares.
BalanceOf(owner) ==
    LET accounts == TokenAccountsOf(owner, UNDERLYING)
        aside == accounts \ {findAssociatedTokenPda(owner, UNDERLYING)}
    IN chain[findAssociatedTokenPda(owner, UNDERLYING)].amount
         + (IF aside = {} THEN 0 ELSE chain[CHOOSE a \in aside : TRUE].amount)

uiAmount(raw) == raw * mintMultiplierAt(now).effective

\* The two places a series can be. A market artifact is struck in dollars per
\* share; a series of the program in quote units, which the wheel cannot price.
readMarketArtifacts == {[source |-> "market-artifact", expiryTs |-> t] : t \in Artifacts}

readProgramSeries ==
    {[source |-> "program", expiryTs |-> chain[a].expiry_ts] :
        a \in {b \in DOMAIN chain : chain[b].type = "OptionSeries"}}

-----------------------------------------------------------------------------
(* yield.ts: the ladder *)

None == <<>>

\* Mutated expiry: the target itself, in a session or not.
snapToSessionUnsnapped(target) == {target}

\* The first instant of a session from the target on, if there is one.
snapToSession(target) ==
    {t \in SdkSessions : t >= target /\ \A u \in target..(t - 1) : u \notin SdkSessions}

buildLadder(at) ==
    {[strikeUsd |-> strike, expiryTs |-> t] :
        strike \in Strikes, t \in UNION {snapToSession(at + days) : days \in Tenors}}

-----------------------------------------------------------------------------
(* wheel.ts: the decision *)

assessSeries(series, read, chosen, faded) ==
    IF series.expiryTs <= read.at THEN "settle"
    ELSE IF ~read.priced \/ series.source = "program" THEN "unpriceable"
    ELSE IF /\ chosen # None
            /\ series.expiryTs - read.at <= RollWithin \/ series \in faded
         THEN "roll"
    ELSE "hold"

Lesser(a, b) == IF a <= b THEN a ELSE b

\* A refusal proposes nothing. A roll opens the new series in any case and
\* writes only what is free now; a plain write needs a contract's worth.
planWheel(read, chosen, faded) ==
    LET size == Lesser(MaxContracts, read.free)
        create == [kind |-> "create_series", rung |-> chosen, contracts |-> 0]
        write == [kind |-> "write", rung |-> chosen, contracts |-> size]
        rolling == \E s \in read.open : assessSeries(s, read, chosen, faded) = "roll"
    IN IF read.verdict # 0 \/ chosen = None THEN <<>>
       ELSE IF size >= 1 THEN << create, write >>
       ELSE IF rolling THEN << create >>
       ELSE <<>>

-----------------------------------------------------------------------------
(* propose.ts: the transactions *)

\* Mutated size: rounded up to a whole raw unit.
contractRawSizeCeil(multiplier) ==
    (ContractSize * SCALE + multiplier - 1) \div multiplier

contractRawSize(multiplier) == (ContractSize * SCALE) \div multiplier

\* All eight are arguments of create_series too.
SeedsOf(rung, multiplier) ==
    [underlyingMint |-> UNDERLYING, quoteMint |-> DEFAULT_QUOTE_MINT,
     expiryTs |-> rung.expiryTs, strike0 |-> rung.strikeUsd,
     contractRawSize |-> contractRawSize(multiplier),
     settlementWindowMinutes |-> SettlementWindow, kind |-> 0,
     adjustOnCorporateAction |-> TRUE]

\* Without a writer create_series shows the all-zero address, and a write is
\* not built at all.
Built(request, read) ==
    LET seeds == SeedsOf(request.rung, read.multiplier)
        series == findSeriesPda(seeds)
        writer == IF read.writer THEN WRITER ELSE SYSTEM_PROGRAM
        shared == [calendar |-> findCalendarPda(CalendarId), series |-> series,
                   underlyingTokenProgram |-> TOKEN_2022_PROGRAM_ADDRESS]
    IN CASE request.kind = "create_series" ->
              getCreateSeriesInstructionAsync(seeds @@ shared @@
                [creator |-> writer, quoteTokenProgram |-> TOKEN_PROGRAM_ADDRESS])
         [] request.kind = "write" /\ read.writer ->
              getWriteInstructionAsync(shared @@ oracleAccountsFor @@
                [writer |-> writer, underlyingMint |-> UNDERLYING,
                 optionMint |-> findOptionMintPda(series),
                 collateralVault |-> findCollateralVaultPda(series),
                 writerUnderlying |-> findAssociatedTokenPda(writer, UNDERLYING),
                 writerOption |->
                    findAssociatedTokenPda(writer, findOptionMintPda(series)),
                 contracts |-> request.contracts])
         [] OTHER -> None

Proposal(request, read) ==
    [kind |-> request.kind, rung |-> request.rung,
     ix |-> Built(request, read), at |-> read.at,
     need |-> request.contracts * contractRawSize(read.multiplier),
     seen |-> read.seen, compiled |-> read.writer, status |-> "open", why |-> {}]

buildProposals(requests, read) ==
    [i \in DOMAIN requests |-> Proposal(requests[i], read)]

-----------------------------------------------------------------------------
(* cli.ts: one pass *)

Idle == [pc |-> "idle"]

Bounds == [run |-> MaxRuns, event |-> MaxEvents]

Spend(what) ==
    /\ spent[what] < Bounds[what]
    /\ spent' = [spent EXCEPT ![what] = @ + 1]

\* readRail asks for the verdict first. --at moves the instant it is for, and
\* --assume-collateral is about the wallet --writer names.
ReadRail(at, writer, assume) ==
    /\ run = Idle
    /\ assume => writer
    /\ run' = [pc |-> "mint", at |-> at, verdict |-> Verdict(at),
               priced |-> gate # OracleStale, writer |-> writer,
               assume |-> assume, multiplier |-> 0, open |-> {},
               free |-> MaxContracts, seen |-> None]
    /\ Spend("run")
    /\ UNCHANGED << chain, scaled, gate, now, desk >>

\* Then the mint, in a request of its own: the multiplier at the instant of the
\* verdict, by the extension as it is now.
ReadMint ==
    /\ run.pc = "mint"
    /\ run' = [run EXCEPT !.pc = "series",
                          !.multiplier = mintMultiplierAt(run.at).effective]
    /\ UNCHANGED << chain, scaled, gate, now, desk, spent >>

\* A public endpoint may refuse to list accounts: the artifacts are left.
ReadSeries ==
    /\ run.pc = "series"
    /\ \E listed \in {{}, readProgramSeries} :
        run' = [run EXCEPT !.pc = "balance", !.open = readMarketArtifacts \cup listed]
    /\ UNCHANGED << chain, scaled, gate, now, desk, spent >>

\* The size is --contracts unless a wallet is given to be read; a read that
\* fails leaves nothing to write against.
ReadBalance ==
    /\ run.pc = "balance"
    /\ \/ /\ ~run.writer \/ run.assume
          /\ run' = [run EXCEPT !.pc = "plan"]
       \/ /\ run.writer /\ ~run.assume
          /\ LET raw == BalanceOf(WRITER) IN
             run' = [run EXCEPT !.pc = "plan",
                !.free = uiAmount(raw) \div (ContractSize * SCALE),
                !.seen = << raw, mintMultiplierAt(now).effective = run.multiplier >>]
       \/ /\ run.writer /\ ~run.assume
          /\ run' = [run EXCEPT !.pc = "plan", !.free = 0]
    /\ UNCHANGED << chain, scaled, gate, now, desk, spent >>

Plan ==
    /\ run.pc = "plan"
    /\ \E chosen \in {None} \cup (IF run.priced THEN buildLadder(run.at) ELSE {}),
          faded \in SUBSET readMarketArtifacts :
        desk' = desk \o buildProposals(planWheel(run, chosen, faded), run)
    /\ run' = Idle
    /\ UNCHANGED << chain, scaled, gate, now, spent >>

-----------------------------------------------------------------------------
(* The human, and the rest of the world *)

World == [now |-> now, sessions |-> ChainSessions,
          verdict |-> ProgramVerdict, readable |-> TRUE]

\* A compiled proposal is signed and sent, any time and in any order.
Sign(i) ==
    /\ desk[i].status = "open" /\ desk[i].compiled
    /\ \E why \in {P!Complaints(chain, World, desk[i].ix)} :
        /\ desk' = [desk EXCEPT ![i].status = IF why = {} THEN "landed" ELSE "refused",
                                ![i].why = why]
        /\ chain' = IF why = {} THEN P!Effect(chain, World, desk[i].ix) ELSE chain
    /\ UNCHANGED << scaled, gate, now, run, spent >>

\* The blockhash a proposal was compiled with goes out of date.
Lapse(i) ==
    /\ desk[i].status = "open" /\ desk[i].compiled
    /\ desk' = [desk EXCEPT ![i].status = "lapsed"]
    /\ Spend("event")
    /\ UNCHANGED << chain, scaled, gate, now, run >>

SeriesOnChain == {a \in DOMAIN chain : chain[a].type = "OptionSeries"}

\* What the writer has to do besides, with the SDK and with a wallet: a position
\* in the series and an account for its option token.
OpenPosition(series) ==
    LET ix == deliverableProgram("openPosition", [writer |-> WRITER, series |-> series]) IN
    /\ P!Accepts(chain, World, ix)
    /\ chain' = P!Effect(chain, World, ix)
    /\ UNCHANGED << scaled, gate, now, run, desk, spent >>

OpenTokenAccount(series) ==
    LET mint == findOptionMintPda(series)
        account == findAssociatedTokenPda(WRITER, mint)
    IN /\ account \notin DOMAIN chain
       /\ chain' = (account :> P!TokenAccount(mint, WRITER, 0)) @@ chain
       /\ UNCHANGED << scaled, gate, now, run, desk, spent >>

Tick ==
    /\ now < MaxTime
    /\ now' = now + 1
    /\ UNCHANGED << chain, scaled, gate, run, desk, spent >>

\* An attestation or an outage, and its end.
GateMoves ==
    /\ gate' \in {0, 2, OracleStale} \ {gate}
    /\ Spend("event")
    /\ UNCHANGED << chain, scaled, now, run, desk >>

\* The issuer announces a multiplier, for now or for later.
Announce ==
    /\ \E m \in Multipliers, t \in now..(now + Quiet + 1) :
        scaled' = [multiplier |-> mintMultiplierAt(now).effective,
                   newMultiplier |-> m, effectiveTs |-> t]
    /\ scaled' # scaled
    /\ Spend("event")
    /\ UNCHANGED << chain, gate, now, run, desk >>

Withdraw ==
    LET account == findAssociatedTokenPda(WRITER, UNDERLYING) IN
    /\ chain[account].amount > 0
    /\ chain' = [chain EXCEPT ![account].amount = 0]
    /\ Spend("event")
    /\ UNCHANGED << scaled, gate, now, run, desk >>

Pause ==
    /\ chain' = [chain EXCEPT ![findRegistryPda].paused = ~@]
    /\ Spend("event")
    /\ UNCHANGED << scaled, gate, now, run, desk >>

Genesis(registered) ==
    LET programs == {SYSTEM_PROGRAM, TOKEN_PROGRAM_ADDRESS, TOKEN_2022_PROGRAM_ADDRESS}
        mints == {UNDERLYING, DEFAULT_QUOTE_MINT}
    IN [a \in programs |-> [type |-> "Program"]]
       @@ [a \in mints |-> [type |-> "Mint"]]
       @@ (findRegistryPda :> [type |-> "Registry", paused |-> FALSE])
       @@ (findCalendarPda(CalendarId) :>
             [type |-> "MarketCalendar", id |-> CalendarId])
       @@ (findAssociatedTokenPda(WRITER, UNDERLYING) :>
             P!TokenAccount(UNDERLYING, WRITER, Held))
       @@ (Key("aside") :> P!TokenAccount(UNDERLYING, WRITER, HeldAside))
       @@ (findAssociatedTokenPda(WRITER, DEFAULT_QUOTE_MINT) :>
             P!TokenAccount(DEFAULT_QUOTE_MINT, WRITER, 0))
       @@ (IF registered
           THEN findSecurityPda(UNDERLYING) :>
                  [type |-> "SecurityState", underlying_mint |-> UNDERLYING,
                   calendar_id |-> CalendarId]
           ELSE << >>)

Init ==
    /\ \E registered \in BOOLEAN : chain = Genesis(registered)
    /\ scaled = [multiplier |-> SCALE, newMultiplier |-> SCALE, effectiveTs |-> -1]
    /\ gate = 0
    /\ now = 0
    /\ run = Idle
    /\ desk = << >>
    /\ spent = [what \in DOMAIN Bounds |-> 0]

Pass ==
    \/ \E at \in {now} \cup AskedTimes, writer, assume \in BOOLEAN :
            ReadRail(at, writer, assume)
    \/ ReadMint \/ ReadSeries \/ ReadBalance \/ Plan

Human ==
    \/ \E i \in DOMAIN desk : Sign(i) \/ Lapse(i)
    \/ \E series \in SeriesOnChain : OpenPosition(series) \/ OpenTokenAccount(series)

Outside == Tick \/ GateMoves \/ Announce \/ Withdraw \/ Pause

Next == Pass \/ Human \/ Outside

Spec == Init /\ [][Next]_vars

-----------------------------------------------------------------------------
(* Properties *)

\* yield.ts snapToSession: every expiry proposed is after the instant it was
\* priced for and inside a session of the SDK's calendar, and what has landed
\* stands where its terms put it.
TypeOK ==
    /\ \A i \in DOMAIN desk :
          /\ desk[i].rung.expiryTs \in SdkSessions
          /\ desk[i].rung.expiryTs > desk[i].at
          /\ desk[i].status \in {"open", "landed", "refused", "lapsed"}
    /\ \A a \in SeriesOnChain : a = P!SeriesSeeds(chain[a])
    /\ run = Idle \/ run.pc \in {"mint", "series", "balance", "plan"}

\* wheel.ts, "the wheel will not size a write against collateral it cannot
\* see": a write sized on a balance never asks for more raw units than the
\* balance had. The size is worked out in adjusted shares from one read and
\* turned back into raw units with the multiplier of another, so this holds
\* unless the multiplier changed between the two.
SizedOnWhatIsSeen ==
    \A i \in DOMAIN desk :
        (desk[i].kind = "write" /\ desk[i].seen # None /\ desk[i].seen[2])
            => desk[i].need <= desk[i].seen[1]

SeriesOperations ==
    {"openPosition", "write", "claimPremium", "exercise", "settleExpired",
     "acknowledgeAdjustment"}

\* Every input a client of the SDK can give for a series it has found.
ClientInput(series) ==
    LET view == chain[series]
        option == findAssociatedTokenPda(WRITER, findOptionMintPda(series))
        underlying == findAssociatedTokenPda(WRITER, view.underlying_mint)
        quote == findAssociatedTokenPda(WRITER, view.quote_mint)
    IN [writer |-> WRITER, holder |-> WRITER, series |-> series,
        calendar |-> findCalendarPda(CalendarId),
        underlyingMint |-> view.underlying_mint, quoteMint |-> view.quote_mint,
        writerUnderlying |-> underlying, holderUnderlying |-> underlying,
        writerOption |-> option, holderOption |-> option,
        writerQuote |-> quote, holderQuote |-> quote,
        underlyingTokenProgram |-> TOKEN_2022_PROGRAM_ADDRESS,
        quoteTokenProgram |-> TOKEN_PROGRAM_ADDRESS, contracts |-> 1]
       @@ seriesAccounts(series, view.underlying_mint) @@ oracleAccountsFor

FitsTheProgram(op, series) ==
    LET ix == deliverableProgram(op, ClientInput(series))
        parsed == parseDeliverableInstruction(ix)
        complaints == P!Complaints(chain, World, ix)
    IN /\ P!Handler(ix) = op
       /\ complaints \cap {"not enough keys", "unsigned", "frozen", "absent",
                           "seeds", "authority", "mismatch"} = {}
       /\ [n \in DOMAIN parsed.accounts |-> parsed.accounts[n].address]
            = P!Bound(op, ix)

\* sdk/src/generated with instructions.ts and pda.ts against the contexts of
\* the program: on a series with a position and an account for its option, no
\* instruction a client builds is refused for its accounts, and the accounts
\* it reads back are the ones the program binds.
ClientsFitTheProgram ==
    \A series \in SeriesOnChain :
        ({findPositionPda(series, WRITER),
          findAssociatedTokenPda(WRITER, findOptionMintPda(series))} \subseteq DOMAIN chain)
            => \A op \in SeriesOperations : FitsTheProgram(op, series)
=============================================================================
