# Deliverable: TLA+ specifications and proofs

Deliverable is a Solana program for physically settled covered calls on
tokenized equities, with TypeScript around it. A *series* is one option: its
writers lock raw underlying, holders of the option token may exercise during a
settlement window measured in open-market minutes, and afterwards every writer
is settled once. Nothing is scheduled. The strike, the phase and the premium a
writer has earned are all recomputed, by each instruction, from accounts that
other people change in between; and everything outside the program (the SDK, the
keeper, the agent, the deployment scripts) works from copies of those accounts
that may be out of date before it has finished reading. That is what these
specifications are about.

Paths below are relative to `programs/deliverable/src/` for Rust files, and to
the repository for everything else.

## 1. Inventory

| Component | State | Operations | What must hold |
|---|---|---|---|
| Series book: `state/series.rs`, `instructions/{series,write,settle}.rs` | `OptionSeries` counters, a `WriterPosition` per writer, three vaults, the option mint | `create_series`, `open_position`, `write`, `claim_premium`, `exercise`, `settle_expired`, `acknowledge_adjustment`; plain transfers into the premium vault; the mint's permanent delegate | assignments add up to what was exercised; the vaults pay everybody in any order and end empty; premium goes to who was in the book |
| Settlement clock: `state/series.rs:201-278`, `gate.rs:29-84`, `scaled_ui.rs:46-113` | `window_opened_ts`, `HaltState`, the change timestamp on the mint | `exercise` (stamps), `settle_expired` (reads), `attest_halt` | holders get their window in minutes they could act in; writers are settled in the end |
| Exchange calendar: `calendar.rs`, `state/registry.rs`, `instructions/admin.rs` | regular hours, up to 64 dated exceptions | `init_calendar`, `append_calendar_entries`; `resolve_session`, `open_minutes_between` | the minutes counted are the minutes in which the session resolves to open, through clock changes, holidays and leap days |
| Refusal gate and oracles: `gate.rs`, `oracle/*`, `mint_guards.rs` | none of its own | `check_actionable`: ten checks in a fixed order | an instruction, the probe and the SDK are told the same refusal |
| Security rail: `instructions/security.rs`, `state/security.rs` | `SecurityState`: last sync, halt, refusal ledger | `register_security`, `sync_security`, `attest_halt`, `probe_security` | the probe records every refusal; the epoch counts nothing that did not come into force |
| Registry: `instructions/admin.rs` | authority, attestor, `paused` | `init_registry`, `set_registry_paused` | made once, by its seeds, before what depends on it |
| SDK: `sdk/src` | none | ports of gate, calendar and oracle readers; account reads; instruction builders and parsers, account and event codecs (generated) | each port answers as the program would; what a client builds is what the program binds |
| Keeper: `keeper/src` | token bucket, in-flight batches; `corporate-actions.json` | rate-limited, batched, retried RPC; recovery of corporate actions from chain history | answers stay with their questions; the rate is kept; retries end; no action in reach is lost |
| Agent: `agent/src` | none | one pass: verdict, mint, series, balance, plan, unsigned transactions | a write is sized by the collateral that was seen; the transactions are ones the program takes |
| Deployment: `scripts/devnet` | `deployment.json`, `keys/` | `init`, `create-standin-mint`, `register`, `probe` | run again after a crash between two awaits, they converge; the record says what happened |
| Market: `market/src` | none | Black-Scholes curve to a pool configuration | numeric, outside a model checker's reach |
| MCP server, web app, `verify-onchain.ts`: `mcp/src`, `app/src`, `scripts` | none | read and show | pure I/O |

How they meet. `write`, `claim_premium` and `exercise` call the gate, which reads
the calendar, the halt in `SecurityState`, the mint and two oracles;
`exercise` and `settle_expired` then ask the clock for the phase, which reads the
calendar, the same halt and the same mint again; only then do they touch the
book. `settle_expired` is deliberately outside the gate and the pause. The SDK
evaluates the same functions off chain, on a snapshot; the agent asks the SDK and
proposes instructions built with its generated client; the deployment scripts
build and read the same bytes by hand; the keeper reads the mints, Scope's price
table and the history of the chain, over its own RPC client.

What is hard. One transaction is atomic, so the concurrency is between
transactions, and between the requests of a client: any writer, holder, attestor,
issuer, publisher, operator or bystander may act between two steps of anyone else,
in any order and after any delay. The hazards, each at its line, are in
`PROJECT.json`; the main groups are rounding over a long sequence of payments by
different people, accumulators credited before and after the book changes, a vault
that can lose funds from outside, a phase recomputed from records that are
overwritten or arrive late, one rule implemented twice (program and port, hand and
generator), reads that mix two moments, and processes that die between two awaits.

## 2. Modules

| Module | Models |
|---|---|
| `FixedPoint` | `fixed.rs` rounding divisions, Rust's saturating subtraction, `min` and `max` |
| `StrikeMath` | the strike, size and cost of a contract at a multiplier (`state/series.rs:115-199`) |
| `SeriesBook` | the book: one action per instruction, with every account it changes |
| `AssignmentLottery` | what a series promises its writers about assignment, free of rounding |
| `SettlementWindow` | the clock of one series: halts, multiplier changes, credits, phase |
| `Venue` | the composition of the two: the book under the clock, the phase derived after every step |
| `Rail` | the gate of one security as an instruction, the probe and the SDK ask it; sync, epoch, pause |
| `Calendar` | sessions, civil dates, the Eastern offset, the minute count, the table's administration, the SDK's port |
| `Program` | the account contexts of all sixteen instructions: what is refused, which accounts are left behind |
| `Instructions` | the generated builders and parsers of the SDK, and its derived addresses |
| `Layouts` | the bytes of accounts and events, and every reader of bytes: generated, by hand, of other programs' accounts |
| `Agent` | one pass of the writing agent and what becomes of its proposals |
| `Deployment` | the devnet scripts, their record, the network between them and the chain, crashes |
| `RpcClient` | the keeper's client: bucket, workers, retries, answers by id |
| `ActionSurvey` | the keeper's survey of corporate actions: windows, seeks, pages, the file |
| `MC*` | the instances TLC checks |
| `SeriesBookProofs` | the theorems about the book: assignment and settlement, then premium |
| `VenueProofs` | the theorems about the clock, alone and with the book under it |
| `RailProofs`, `RpcClientProofs`, `ActionSurveyProofs` | the theorems about the gate and the rail, the keeper's client, the keeper's survey |
| `AgentProofs` | the theorems about the agent, the generated builders and the contexts they meet |
| `DeploymentProofs` | the theorems about the scripts, their record and the instructions they encode by hand |
| `CalendarProofs` | the theorems about civil dates, the Eastern offset, the two tables and the search for the next opening |
| `Overlay` | one function laid over another, which the chain and the contexts are built with |

`SettlementWindow` extends `FixedPoint`; `Venue` extends `SettlementWindow` and
instantiates `SeriesBook`, which instantiates `AssignmentLottery`; `Agent` and
`Deployment` extend `Instructions` and instantiate `Program`; `MCDeployment`
instantiates `Layouts`, which has no behaviours of its own. `Layouts` declares
recursive operators and is therefore kept away from every module with a theorem.

### SeriesBook

Variables carry the names of the Rust fields. The vault and supply variables are
the token accounts' balances. History variables collect what the events report
(`assigned`, `quote_paid`, `raw_shortfall`), what the environment did (`seized`,
`premium_in`), when a writer joined (`joined`) and how many roundings the premium
arithmetic has made (`roundings`: one for every credit of the accumulator and one
for every entry or claim, so a write makes two); no guard reads the last four but for their
bounds. `Init` is the series `create_series` leaves behind; its checks on
the terms are the assumptions of `StrikeMath`.

| Action | Code | Kept | Abstracted |
|---|---|---|---|
| `OpenPosition` | `write.rs:161` | once per writer (the PDA) | account rent |
| `Write` | `write.rs:180` | band, phase, the cap, the order accrue, grow, check in | the gate |
| `ClaimPremium` | `write.rs:360` | accrual, clipping by the vault, nothing to claim | the gate |
| `Exercise` | `settle.rs:123` | phase, band, cost at the multiplier, vault and book guards | which holder: option tokens trade freely, so any part of the supply may be in one hand |
| `SettleExpired` | `settle.rs:325` | assignment, telescoping payment, both clamps, shortfall | the hook check, which can only refuse, for ever if the issuer likes: `Venue` has it |
| `Expire`, `CloseWindow`, `ReopenWindow` | `state/series.rs:247` | the phases as the clock delivers them | when: that is `Venue` |
| `DepositPremium`, `Seize` | external | plain transfers in, the permanent delegate | seizures from the premium vault |

The gate, the pause and the hook can only stop an instruction. In the book they
are the environment's choice not to take the step, so the safety properties hold
whatever they do. Checked `u128` arithmetic is modelled over the integers: an
overflow aborts the transaction, which is again a step not taken. The constant
`Reopens` says whether a closed window may be postponed again once a writer has
been settled; before that it always may. The run about assignment says it may not,
and the theorems about assignment are about the behaviours in which it is not
(`StaysClosed`). Section 4 shows that the clock has others.

### SettlementWindow

Time is in minutes. The calendar is the constant set `OpenTimes`, so
`OpenMinutesBetween` is the *count* that `calendar.rs` computes by walking days
(`Calendar` is where the walk is shown to be a count); the saturation after
`MAX_SESSION_SCAN_DAYS` is kept. `halt` is the `HaltState` record; `change_ts` is
the timestamp Token-2022 keeps on the mint. `Tick` is the Clock sysvar. `served`
and `refused` count, minute by minute and apart from the program's own arithmetic,
the open minutes in which the gate could act and those it refused until the first
exercise. While nobody has exercised, the window is judged by the minutes served
alone; the first exercise makes what was refused before it `Forgone`. The attestor is trusted by the program
and here honest: a new halt is reported at most `MaxDelay` after it began, and a
refresh repeats the same beginning.

### Venue

Each instruction is the conjunction of what it does to the clock and to the book:
`exercise` stamps the window and delivers, `settle_expired`, which the writer has to
sign, reads the phase and pays. `BarMint` attaches a transfer hook to the mint or
takes it off, whenever the issuer likes: while it is there nothing of the three
instructions that move the underlying goes through, settlements included
(`settle.rs:352`). A pause of the mint, or a multiplier that cannot be decoded, does
the same by other ways, and stands behind the same action. `phase` is not a variable of the program; it holds what `Phase` says after
every step, so that `Book!Spec` can be a property of the composition. The gate
that the book leaves to the environment is `Actionable`, and the multiplier is the
one in force by `change_ts`. Premium and seizures stay with the book's own runs:
neither reads the clock.

### Rail

One security. `CheckActionable` is the list of checks in the order of `gate.rs`,
`AssertSecurityActionable` what an instruction does around it (pause, readings that
fail), `ProbeSecurity` what the probe turns the same failures into, and
`IsActionable` what `client.ts` does with accounts it fetched. Scope is fetched with
the mint, the halt and the calendar in one request (`Ask`); a Pyth account is
fetched by a second one (`AskPyth`, `FetchPyth`), with anything in between. Prices
are small numbers at one exponent; a multiplier that `f64_bits_to_fixed` rejects is
the value `Undecodable`; the unit of time is ten minutes. `OpenTimes` are the sessions
of the calendar account, `SdkOpenTimes` those the SDK finds in the same account, whose
exceptions it looks up by a key without a year.

### Calendar

Time is in real minutes, dates are real dates. `date` is a calendar turned day by
day, independent of the conversions under test. `OpenMinutesBetween` walks days as
the code does; `MinutesAreSessions` compares its growth with `IsOpen` every half
hour, the granularity of every opening and closing time. The two tables are the
ones in the repository: the entries `scripts/devnet` puts on the chain, and the
one committed in `sdk/src/calendar.ts`, which is keyed without a year. `KeyOf` says who
looks for which key, so the SDK's logic can be asked over either table. `AppendCalendarEntries`
counts a call's entries before it merges them and checks each one, so a call may be
refused that would have fitted, or for its last entry alone.

### Program, Instructions, Layouts

An instruction is a discriminator, a sequence of account metas and a sequence of
arguments. `Program` binds by position, as Anchor does, and collects every
complaint a context makes (absent, unsigned, frozen, seeds, authority, mismatch,
taken); `Effect` says which accounts a step leaves behind. The accounts' money is
`SeriesBook`'s subject and the verdict an input. `Instructions` has one row per
generated builder, with its defaults and derived addresses. A derived address is
the tuple of its seeds: two are equal exactly when every seed is, which is what the
hash gives but for collisions.

`Layouts` gives byte *k* of a field a name of its own, so a reader is right exactly
when every field gets the bytes written for it. `Accounts` and `Events` are the
generated codecs; `AccountsAgree`, `ListsAgree`, `EventsAgree`, `PricesAgree` and
`MintsAgree` compare them with the decoders of `scripts/devnet/lib.ts`, the filters
of `client.ts`, and the readers of Pyth's, Scope's and Token-2022's accounts in the
SDK and the keeper.

### Agent

`ReadRail`, `ReadMint`, `ReadSeries`, `ReadBalance` and `Plan` are the awaits of
`cli.ts` in order, each on the chain as it is then. `Sign` and `Lapse` are the human
and the blockhash; `OpenPosition` and `OpenTokenAccount` what the writer has to do
besides, since no proposal does it. Which rungs clear the hurdle and which open
series have faded is any choice. `Verdict` is the SDK's, over its own table or, for a
registered security, the account's regular hours; `ProgramVerdict` is what the signed
instruction meets.

### Deployment

A script is a program counter between awaits. `Executed` and `Expired` are the
network deciding about a transaction whether or not the script that sent it is
still alive; `Dies` ends a script between two awaits, `DiesWriting` inside
`writeFileSync`, of `deployment.json` or of a key; `Call` is anybody else's call of the
program; `Bell` opens or closes the session. What a look before a send finds
decides what is sent, as in the code. `torn` names the files a crash left half written:
whoever has to read one throws (`Readable`), at the start of a script, or in
`ConfirmThrows` after a transaction has landed. The variables `record` and `keys` keep
what a torn file last held; nobody reads it.

### RpcClient and ActionSurvey

A step of a worker runs from one await to the next. Time is relative (ticks since
the bucket was refilled, ticks left of a penalty), so that no clock has to be
bounded. Back-off, jitter and `Retry-After` only say how long a worker sleeps, and
here it sleeps for any time. The endpoint may answer with any subset of a batch, in
any order, with per-call errors, one error object, 429, 5xx, 4xx or nothing.

In `ActionSurvey` a signature, a slot and a block time are one number. Merged windows
are the hulls of what overlaps link together, which is what the sort and the sweep of
`mergeWindows` arrive at. The issuer
announces changes ahead, at once or late (`Leads`), by themselves or in a pair with the
value in force, and other transactions land while a survey is between two calls. A pair
is sorted by effective times as `recoverActions` sorts it (`InOrder`), so `Target` and
`Carry` are the survey's reading and not the truth, which the block keeps in `before`.
What the mint keeps of a change in force as it lands, nothing in the source says: either
value.
`Tear` is the process dying inside `writeFileSync`; a torn file reads as empty, as
`loadExisting` does.

## 3. Runs

Every run but the two that show a divergence finishes its whole state space.

| Run | Instance | Distinct states | Question |
|---|---|---|---|
| `book_assignment` | four writers, seven contracts, multipliers 2, 4, 5 against a listing at 2, three raw units seized | 194,320 | does the book close out in every order? |
| `book_premium` | two writers, three contracts, deposits of one and six up to seven | 1,079,120 | who earns which premium? |
| `window` | days of three minutes, one closed day, one halt, one change | 1,335,010 | do holders get their window, and writers their collateral? |
| `venue` | two writers, two contracts, one halt, one change, days of two minutes, a mint that may be barred at any time | 641,834 | is the clock's phase one the book was specified for, and is every writer settled? |
| `rail` | three bindings, five prints, three multipliers, three moves | 457,554 | do program, probe and SDK agree? |
| `calendar` | seven stretches of seventeen real days, two of five calls that amend the table | 51,471 | is the walk a count, and are the two tables one? |
| `rpc` | two workers, five accounts in three calls in two requests, three attempts | 74,434 | do answers stay with their questions, and does everybody stop? |
| `survey` | two mints, four blocks, changes at once or two blocks ahead, pages of one, two surveys | 6,227,241 | is everything in reach recovered and told truly? |
| `deploy` | four scripts, two entries, two calendars, one crash, torn file, call or option, one probe | 47,896 | do the scripts converge, whatever dies? |
| `agent` | two passes, one event, two expiries, two multipliers | 170,600 | what becomes of a proposal signed later? |
| `venue_reopened` | as `venue`, four contracts, no change | until violated | a divergence, section 4 |
| `sdk_calendar` | as `calendar` | until violated | a divergence, section 4 |

`book_assignment`. Four writers and seven contracts give all the splits in
which several writers round up and the later ones are cut off by the cap; the
conflict needs at least three writers. One of the multipliers is outside the band.

- `TypeOK`: no counter or balance goes below zero, although the clamps are the
  only guard of two payments.
- `BookInv`: the counters are the sums of the positions (`BookCounts`), nothing is
  exercised before expiry or settled before the close (`BookOrder`), the writers
  still to settle carry at most their pro-rata part of what is unassigned
  (`RestIsFair`), and the two vaults hold exactly what is due to them
  (`VaultBacksTheRest`, `QuoteBacksTheRest`).
- `ClosedOut`, `QuoteMatchesDelivery`: what is left when all are settled and what the
  events have reported, and that each writer is paid the average price of what they
  were assigned, within one unit. (`ShortfallOnlyFromSeizure`, which says why a writer
  is paid short, is part of `VaultBacksTheRest` here; `venue_reopened` checks it on its
  own.)
- `ImplementsLottery`: the book refines `AssignmentLottery`, in which a settling
  writer may be assigned any part of their contracts as long as the rest can
  carry the remainder, and nothing is written or exercised after the first
  settlement.

`book_premium`. A scale of ten leaves remainders on both divisions; the window may
reopen, which premium must not notice. `PremiumOverhangBounded`: the promises exceed
the vault by at most one raw unit per rounding. `PremiumNotStranded`: once the premium
is accrued, all but one unit per writer of what the vault holds is promised to
somebody. `NoRetroactivePremium`: who joins late earns nothing from before but for the
roundings; `EarnedNeverFalls` (an action property): no step of anybody
takes back what a writer has earned. `Deposits = {}` in `book_assignment` and
`MaxSeized = 0` here keep the two halves of the book apart: they share only the
book's counters, which premium never changes and seizures do not touch.

`window`. A three-minute window that a closed day can interrupt; the halt may be
refreshed and cleared at any time and reported one minute late, the change may take
effect at any later minute; the clock runs until the scan saturates.
`WindowNeverShort`: when the window is over, holders had the whole of it in minutes
they could act in; if somebody has exercised, up to what was refused before that, which
the stamp of the exercise takes from the others (section 4). So a halt that spans the
window and keeps everybody out must be given back in full. `CollateralNotFrozen`: in
the end the series is settled and stays so, as far as the phase goes; the hook is
`venue`'s. One halt and one change are what the records can hold, and the run has no
more: a second halt overwrites the first and the property fails (section 4).

`venue`. `ImplementsBook`: the composition implements `SeriesBook!Spec` with
reopening allowed, so the phase that the accounts imply never skips, never returns
to *Active*, and is moved by no instruction through what it does to the book.
`EverybodySettles`: if the issuer does not bar the mint again and again or for ever,
every writer with a contract is settled in the end. The days have two minutes, both open, since what a closed day does to the clock is `window`'s
question; two writers, because a settlement must be able to come between another's
exercise and settlement.

`rail`. `ProbeAgreesWithInstruction`: the ledger counts what an instruction is
refused for, and a reading that fails is counted where the instruction fails without
a code. `EpochCountsWhatHappened`: against the turns the multiplier in force really
took. `ScopeVerdictIsThePrograms` (an action property): an answer from one request is
the program's in that slot, apart from the pause and the three differences named in
`KnownToDiffer`; so it does not catch the SDK's reading of a halt nobody refreshed,
which is one of them. The prints are a good price, one with a wide band, one that
diverges, a zero and one without full verification; the unit of ten minutes has the
halt's age, the quiet period and the oracle's age at one or two units, so each
expires inside a run. Three moves let two of them disturb a third.

`calendar`. The stretches are a clock change in autumn and one in spring,
Thanksgiving with its half day, the turn of the year, a leap day, a century without
one, and the beginning of September. Seventeen days exceed the sixteen of the scan.
`EasternTimeIsRight` states the rule of the offset from date, weekday and hour
alone; `MinutesAreSessions` compares the walk with the session; `NextOpenIsTheNext`
is about the SDK's search; `TablesAgreeInTheCapture` holds the SDK's table against
the chain's in the twelve months it was made for, on the five of its twelve exceptions
that the stretches reach (the theorem covers the rest). `CalendarOK`: the table keeps
one entry a day, legal ones, and no more than fit. `MaxEntries` is two more than
the table starts with, and two of five calls come: a correction, one new day said
twice, two new days, and two whose last entry closes before the open or is in no month.
So some sequences fill the table to its limit, and some are refused at it.

`rpc`. Every number is the smallest with a short last group, a short last request
and a retry after a retry. `ResolvedInOrder`: a batch that resolves has every answer
in its place. `NeverOverTheRate`: the requests sent never exceed what an endpoint of
the that rate and burst takes, by a meter of the endpoint's own: the configured rate, or
`MIN_RATE` where that is the greater (section 4). That cuts do not compound is not
checked: they lower the rate, which neither property minds.
`EveryWorkerStops`: also against an endpoint that only refuses, also the workers a
rejected batch leaves behind.

`survey`. Pages of one signature put every change at the end of a page.
`WindowsRecovered`: a survey that reads all it set out to holds every change in reach
when it writes. Reads a survey gives up (a transaction that is not returned, a limit of
pages) excuse it, those the code does not report included. `PreviousIsTrue`: of a
change announced ahead, the new value on file and the one it replaced are true where
the survey has the means to know: of every pair, whichever way its halves sort; from
the prior action, if the change that was in force is on file; from the mint, if no
later change has landed. What the code writes elsewhere is in section 4. Changes at once
(`Leads` has 0) are there for the grace of the windows, and because they disturb the
order of effective times.

`deploy`. `Converges`: after a crash between any two awaits, running the first script
whose work is not done ends with a complete deployment and stays there. Not after one
inside `writeFileSync`: `readDeployment` and `localKeypair` throw on a torn file, every
later script with them, until the operator deletes it. The property says nothing of
such a behaviour; the others, which the torn file could falsify, still hold of it. `RefusedOnlyForARace`: a
transaction of the scripts is refused only because its copy landed first or the probe
was pointed at another calendar. `RecordIsTrue`: what the record names has landed and
says what the program answered, with a refusal counter that moved: not by exactly
one, short of which the script only warns (`scripts/devnet/README.md:220`), since others
may probe in between. `HandEncodedIsGenerated`: every instruction encoded by
hand is what the generated builder makes, and is read back as the program binds it.
`HandDecodedIsGenerated` (once, in the initial state, since no step changes a layout):
every hand-written reader of bytes finds the fields the writer put there: five accounts, ten events, the filters,
Pyth's update, Scope's table (three of its 512 entries, and the first index past
them), and a Token-2022 mint with its extensions in any order. Accounts of an older
build are refused by `lib.ts`.

`agent`. A session at 0 that an exception ends at 1, which only the SDK's own table
shows the SDK, and two later instants that it takes for a session, of which the chain
has one. `SizedOnWhatIsSeen`: a write never asks for
more raw units than the balance it was sized on, unless the multiplier changed between
two reads, so it does not catch what becomes of the size then. `ClientsFitTheProgram`:
on a series with a position and an option account, so not a write signed too early, no
instruction a client builds is refused for its accounts, and what it parses is what
the program binds.

### Fairness and deadlock

- `window`: `WF_vars(Tick)` and nothing else. Time passes whatever anybody does; no
  writer, holder or attestor is assumed ever to act.
- `venue`: the same, and weak fairness of each writer's settlement. The writer has to
  sign `settle_expired` (`settle.rs:248`), and the position is found by that signature,
  so nobody can do it for another; a writer who wants the collateral back sends it when
  it has stayed possible. The hook check of `settle.rs:352` can make it impossible for
  ever, so `EverybodySettles` supposes that the issuer bars the mint finitely often and
  leaves it free in the end.
- `rpc`: weak fairness of the clock and of each worker's step: a timer fires, a
  runnable continuation runs, and `fetch` settles, with an error if with nothing else.
- `deploy`: a script that runs keeps running (weak), the network decides about every
  transaction in the end (weak), and an operator who has no deployment starts the next
  script again and again (strong, since a crash disables and enables it).
- The other runs check safety only.

The clock's and the RPC client's runs check deadlock: the attestor may always act,
and time always passes. Elsewhere the system may really stop: everybody is settled,
every bound of the environment is used up, or nobody runs another script.

## 4. Where the code departs from its documentation

Two departures are runs that TLC violates:

| Run | The text | What happens |
|---|---|---|
| `venue_reopened` | a shortfall "can only be non-zero if the underlying left the vault by a route this program does not control" (`state/series.rs:462`); "by this point the security's state cannot change the outcome" (`settle.rs:319`) | a halt expires unrefreshed, the window closes, a writer settles; the attestor then clears the halt, which moves its end to now and reopens the window; holders exercise, and the next writer is short although nothing was seized |
| `sdk_calendar` | of the fields the port's session logic reads, "The decoded account satisfies it" (`sdk/src/calendar.ts:30`) | the account's entries are keyed with the year and the port looks them up without it; for a registered security, where `isActionable` hands it the account, every holiday and half day is a regular session |

Others were met while modelling. The models have them, and the properties are stated
around them:

- The credit for refused minutes is clipped by `window_opened_ts`, so the first
  exercise takes from the next holder minutes given back for a halt before it; the
  comment at `settle.rs:141` says the part is given back. `WindowNeverShort` has no
  exception while nobody has exercised, and allows for those minutes (`Forgone`) after.
- `penalise` cuts the rate to no less than `MIN_RATE`, which is 3, and the constructor
  takes any positive `SOLANA_RPC_RATE` (`rpc.ts:172`). At a configured 1 or 2 the first
  429 raises the rate to 3 (`rpc.ts:90`), and `reward` never lowers it, although the
  variable is to be set to what "your plan allows" (`keeper/README.md:35`).
  `NeverOverTheRate` holds for the greater of the two.
- `resolvePreviousMultipliers` takes the action before it on file for the one whose value
  a change replaced, without asking whether that one had come into force
  (`action-history.ts:124`). With two changes announced one after the other, or a change
  between them missed, it files a value that was not in force, and so does
  the mint's stored value when a later change was missed; the comment at
  `action-history.ts:106` says that without the means "the field stays null rather than
  being guessed". A change that takes effect at once or late may be sorted, in a pair,
  in front of the value it replaced. `PreviousIsTrue` names the histories it is about.
- A script that dies inside `writeFileSync` leaves a `deployment.json` or a key that is
  no JSON, and every later script that reads it throws (`lib.ts:688`, `lib.ts:180`),
  though `init.ts:6` calls itself idempotent. `Converges` is about no torn file. The keeper
  reads its own torn file as empty (`action-history.ts:97`) and starts over.
- A second halt replaces the record of the first, minutes owed included (`gate.rs:68`
  promises that clearing cannot erase them; re-attesting can). A halt and a quiet
  period that overlap are credited twice.
- `accrue_premium` credits the floor of what it has just added and the remainder again
  later: a late writer may draw a unit that arrived before (`state/series.rs:103` says
  "nothing else"). `PremiumOverhangBounded` is the bound that does hold.
- The cap of `conserving_assignment` can leave the last writers below their floor share
  (`state/series.rs:370` says "at least"). The total is exact.
- A verified price of zero makes `conf_bps` raise inside `check_actionable`, so
  `probe_security` fails and records nothing; `instructions/security.rs:312` says "The
  probe has to be total, so each read becomes a refusal code rather than an error".
  `ProbeAgreesWithInstruction` leaves that error out.
- `sdk/src/gate.ts` tests the halt without the age of its attestation and does not
  call a change pending in the second it lands; `client.ts` reads the oracles before it
  asks the calendar and throws where the program would say the market is closed. The
  verdict of a Pyth-bound security, or of a calendar other than 0, mixes two requests,
  although the comment at `client.ts:357` speaks of one slot.
- The SDK's own table is keyed by month and day without a year; outside the twelve months
  it was captured for it differs from the program's (Labor Day 2027 is the first).
- `decodeScopeEntry` checks less of the account than the program does, and the generated
  decoders read an account of an older build at wrong offsets without an error;
  `lib.ts` refuses it.
- `create-standin-mint.ts` that dies after making the mint records a mint without its
  label when it is run again; a new mint leaves the record's `security` naming the old
  one until `register` runs; `register.ts` records the binding it would have sent even if
  the account was registered with another.
- An agent's proposals never contain `open_position`, nor the account for the option
  token, without which its `write` is refused (`agent/README.md:61` says "every account
  resolved"); the names it prints for a `write` leave one account out; the balance adds
  up all of a wallet's accounts, and the write draws on one; `--calendar` defaults to 0,
  and the deployment uses 1.

## 5. Proofs

Each theorem holds for every value of the constants that the named assumptions allow.
The last column is the inductive invariant it rests on.

| Module | Theorem | Statement | Rests on |
|---|---|---|---|
| `SeriesBookProofs` | `TypeCorrect` | `Spec => []TypeOK` | itself |
| | `BookConserves` | `Spec /\ StaysClosed => []BookInv` | itself |
| | `NoShortfallWithoutSeizure`, `BookClosesOut`, `QuoteIsFair` | `Spec /\ StaysClosed =>` `[]ShortfallOnlyFromSeizure`, `[]ClosedOut`, `[]QuoteMatchesDelivery` | `BookInv` |
| | `BookImplementsLottery` | `Spec /\ StaysClosed => ImplementsLottery` | `BookInv`, `EventsAddUp` |
| | `PremiumAddsUp` | `Spec => []PremiumInv` | itself |
| | `PremiumOverhang`, `NothingStranded`, `LateWriterEarnsLater` | `[]PremiumOverhangBounded`, `[]PremiumNotStranded`, `[]NoRetroactivePremium` | `PremiumInv` |
| | `EarnedOnlyGrows` | `Spec => EarnedNeverFalls` | `PremiumInv` |
| `VenueProofs` | `ClockTypeCorrect` | `Spec => []TypeOK` | itself |
| | `HoldersGetTheirWindow` | `MaxHalts, MaxChanges <= 1` imply `Spec => []WindowNeverShort` | `WindowInv` |
| | `VenueImplementsBook` | `VenueSpec => ImplementsBook` | `VenueInv` |
| `RailProofs` | `RailTypeCorrect` | `Spec => []TypeOK` | itself |
| | `LedgerTellsTheRefusal` | `Spec => []ProbeAgreesWithInstruction` | the two procedures alone, in any state |
| | `ScopeVerdictAgrees` | `Spec => ScopeVerdictIsThePrograms` | `TypeOK` |
| | `EpochCounts` | `Spec => []EpochCountsWhatHappened` | `EpochInv` |
| `RpcClientProofs` | `RpcKeepsCount` | `Spec => []RpcInv` | itself |
| | `RpcTypeCorrect`, `RateIsKept`, `AnswersInPlace` | `[]TypeOK`, `[]NeverOverTheRate`, `[]ResolvedInOrder` | `RpcInv` |
| `ActionSurveyProofs` | `SurveyKeepsReach` | `Spec => []SurveyInv` | itself |
| | `SurveyTypeCorrect`, `WindowsAreRecovered` | `[]TypeOK`, `[]WindowsRecovered` | `SurveyInv` |
| | `PreviousStaysTrue` | `Spec => PreviousIsTrue` | `SurveyInv` |
| `AgentProofs` | `AgentInvariant` | `Spec => []IInv` | itself |
| | `AgentTypeCorrect`, `AgentSizedOnWhatIsSeen`, `AgentClientsFitTheProgram` | `[]TypeOK`, `[]SizedOnWhatIsSeen`, `[]ClientsFitTheProgram` | `IInv` |
| `DeploymentProofs` | `DeploymentInvariant` | `Spec => []IInv` | itself |
| | `DeploymentTypeCorrect`, `RefusalsAreRaces` | `[]TypeOK`, `[]RefusedOnlyForARace` | `IInv` |
| | `TheRecordIsTrue`, `HandEncodingIsGenerated` | `[]RecordIsTrue`, `[]HandEncodedIsGenerated` | `IInv` |
| `CalendarProofs` | `WalkInvariant` | `Spec => []Walk` | itself |
| | `CivilTimeIsRight`, `TablesAgree`, `NextOpenIsNext` | `[]EasternTimeIsRight`, `[]TablesAgreeInTheCapture`, `[]NextOpenIsTheNext` | `Walk` |

Assumptions: those each module names (positive terms, finitely many writers or mints, a
cap no larger than the scale, natural bounds, starts of the clock that are dates, a scan
of at least five days where the code has sixteen), and the hypotheses in the table. The
lemmas about the two rounding divisions stand in the modules that cite them.
`StaysClosed`, that no window is postponed again after a settlement, is a condition on
the behaviour and not on a constant: it is needed, and the clock does not give it, as
`venue_reopened` shows. One halt and one change are what `HaltState` and the mint can remember;
with two, `WindowNeverShort` is false (section 4). The amounts seized, the deposits, the
number of writers, the answers of an endpoint and the traffic on the chain are not
limited.

**Assignment.** `ClosedOut` alone is not inductive: it speaks only of the last
state. `BookInv` carries it through the queue. Let `Outstanding` be the contracts
of unsettled writers and `Unassigned` what was exercised and not assigned.

1. `VaultBacksTheRest`: the vault holds the collateral of
   `Outstanding - Unassigned` contracts, up to what was seized and not reported.
   A settlement returns `contracts - a` and lowers `Outstanding` by `contracts`
   and `Unassigned` by `a`; the equation moves with it (`ReturnConserves`).
2. That needs `Unassigned <= Outstanding` to survive, which a capped share does
   not give by itself. `RestIsFair` does: `Unassigned * contracts_written <=
   Outstanding * contracts_exercised`. Rounding *up* keeps it
   (`ShareKeepsRestFair`), rounding down would not, and `RestCovered` turns it
   into the inequality.
3. `QuoteBacksTheRest`: the quote paid out is one running floor of the total,
   because single payments are differences of it (`QuoteTelescopes`). So the clamp
   on the quote vault never bites, and at the end the floor is exact. A difference of
   two floors is within one unit of the product, which is `QuoteMatchesDelivery`.
4. With nobody outstanding, `Unassigned` is zero, both vaults are empty and the
   reported shortfall is what was seized (`ClosedOutFromBook`).

The lottery's step asks only that the rest can carry the remainder, so its simulation
is `RestIsFair` again, with `EventsAddUp` relating the history to the counters. Sums
over writers are cardinalities of sets of pairs (`UnitsOf`), not recursive sums; the
lemmas `UnitsOfOne` to `UnitsWrite` say how they change.

**Premium.** The accumulator keeps what a contract has earned, scaled and floored.
`PremiumInv` holds the exact sums next to it: what arrived is what is in the vault and
what was paid (`PoolIsWhatArrived`), the contracts written are the contracts held
(`WrittenIsHeld`), nobody is credited without a contract (`NothingForNothing`), no
debt exceeds what its contracts have earned (`DebtIsEarned`), and what is promised is
what was credited and entered at, within one unit per rounding (`CreditIsPromised`).
`EarnedAfterJoining` says for one writer that what the contracts earned on top of the
debt was credited after the writer joined.

**Clock.** `WindowInv` relates the program's arithmetic on two overwritten records to the
ghosts `served` and `refused`, case by case: no halt yet, a halt running, refreshed,
lifted, expired unattended; no change, one pending, one in force. While nobody has
exercised, every open minute since expiry that was not served lies in the part of the
halt or of the quiet period that the program gives back; after the first exercise, every
one since the stamp does, and those before it are `Forgone`.

**Composition.** `VenueInv` says that the phase on record is the derived one. The phase
never falls but from closed to window, since the clock never goes back; so every step of
the composition is a step of the book, or none.

**Rail.** The eleven checks are a list, and the answer is its first failure
(`FirstFailingEnds`); an instruction, the probe and the port are three readings of it.
`EpochInv` bounds the epoch by the turns of the multiplier in force, counting the one a
sync has not seen yet.

**Client.** `WorkersHold` and `CursorCounts`: every request of a batch is held by one
worker, waits behind the cursor, or is answered; `AnswersKept`: what is answered stays
at its place, whatever the chunk it came in. For the rate, the endpoint's meter and the
level of the bucket together never exceed the capacity: a take moves a unit from one to
the other, a refill and a drain keep the sum. The meter drains by the greater of the
configured rate and `MIN_RATE`, which no cut and no reward passes (`RateNumbers`).

**Survey.** What a survey looks for and has not found lies in a window still on the list,
by an address whose history touches it, and in front of the cursor while that window is
read (`StillInReach`). It starts true because the plan covers every window
(`MergedWindowsCover`, `AnchoredPlanCovers`); a close enough seek keeps it by the slack; a
page keeps it because a full page holds the latest of what is before the cursor
(`PageIsLatest`), so whatever of the window it lacks is older than all of it. That the
previous value is true rests on the chain: what is in force never lies ahead
(`InForceIsPast` in `ChainInv`), so a change that does is sorted behind what it replaces
(`PairSorts`), and a change that was announced ahead and has come into force is what the
next one replaces.

**Agent.** `ClientsFitTheProgram` quantifies over every series on the chain, so it needs
to know what a series that exists was made with. `ChainOK` says that: what is at an
address is of the kind the address names, a token account is of the mint and the owner in
its seeds, and a series stands where its terms put it, with its five accounts and its
security. `CreateKeeps`, `OpenKeeps` and `WriteKeeps` carry it over the three handlers a
client sends, from what an accepted instruction was checked for. Then, operation by
operation, the builder's row has the context's fields in the context's order with its
flags (`...Agrees`), every field gets the account of its name (`...Fits`), and no
constraint has anything to complain of (`PinsFit`, `WalletsFit`, `ConstraintsFit`); the
parser inverts the builder (`ParsedOfBuilt`). For the size, `SeenOK` keeps the exact
inequality between what is free and what was seen, in products; `SizeFits` takes it
through the rounded division of `contractRawSize`, which the write then asks for.

**Deployment.** A script reads the chain, sends, and reads again; between any two of
these it may die and others may act. What makes that safe is that the chain only grows:
an account stays, with the seeds and the binding it was made with, and its counter of
refusals never falls (`Grows`; `MutationKeeps` and `CallKeeps` for what others may call).
So whatever a transaction stood on when it was sent is there when it runs (`Founded`,
`SentGrows`), and what a script has reached it has still reached (`Reached`, `Awaits`,
`AwaitsGrows`). A send leaves a promise that is redeemed when it lands
(`LandsWhereAwaited`): what the script's next place needs is then there, which is why a
probe's counter has moved when `RecordProbe` reads it. `RefusedOnlyForARace` is a fact
about each of the six instructions (`InitRegistryFits` to `ProbeFits`): the list encoded
by hand fills the program's context in its order (`...Hand`), every account it needs is
there and is what its seeds say, and of the constraints only one can complain: `taken`,
or the binding of a probe. That last one needs to know which calendar was asked for. The
scripts know two, and a calendar other than the default is the one in the record
(`CalendarsOK`), so a probe of a security bound elsewhere can only be on
`OtherCalendarId` (`ProbeFinds`). `HandEncodedIsGenerated` needs of the invariant only
that nothing else is on the wire; then every account carries the flags of the generated
role at its place (`Flagged`), the two readers go by the same order (`ReadAlike`), and
the defaults of the builder never replace what it was given (`BuiltAgain`).

**Calendar.** `Walk` says that the date turned by hand has the number of the instant's
day. It is inductive because the day after a date has the next number
(`NextDateCounts`): within a month by one, from month to month by the table of days
before it (`MonthTurns`), from year to year because a year from March to March has the
length the leap rule gives it (`YearGrows`, `YearTurns`). That the conversion back
returns the date is not a consequence of that; `CivilInverse` proves it from the two
approximations Hinnant's algorithm divides by, of the year within the era
(`YearOfEraIs`) and of the month within the year (`MonthOfDay`). The two days the clocks
change lie in a known week after the first of March (`ChangeDays`), so the offset is a
function of the day and the hour (`OffsetByDay`) and `OffsetRight` compares it with the
rule stated from the weekday. The tables agree because each entry of one answers for the
same date as the entry of the other (`SameEntries`) and a captured instant has a local
date in the year of the capture (`LocalDate`). For the search, half an hour of New York
time is half an hour later on the same day, the next midnight, or the hour of a change,
which is over before the market opens (`LocalSteps`); the days scanned are then the same
but at half past nine, when the instant is the opening (`OpeningIs`: the guessed offset
is right because no Sunday trades), and at midnight, when the scan reaches a day further.
There a day in reach of both is needed, and of any five days one trades: two of them are
weekdays in a row, and the table never closes two such days (`PairTrades`,
`TradesSoon`).

Only model-checked:

- `CollateralNotFrozen`, `EverybodySettles`, `EveryWorkerStops`, `Converges`: liveness
  under fairness is out of the prover's reach.
- `HandDecodedIsGenerated`: `Layouts` reads bytes with recursive operators.
- `MinutesAreSessions`, `CalendarOK`: the minutes are summed over a set of days and the
  entries merged along a sequence, by folds; what a fold computes is an induction over
  data.

## 6. Not modelled

- Seizures from the premium vault, which holds the same mint; the book's claims
  are clipped by the vault, so they are refused or short, but no property says so.
- `acknowledge_adjustment` beyond its accounts: it copies the multiplier for indexers.
- In `Program`, what the handlers check of their arguments and not of their accounts:
  `create_series`' kind, strike, window and overflow (`series.rs:153-164`, `179-184`),
  `write`'s zero amount, band and cap (`write.rs:182`, `192-209`). `Program` accepts more
  than the code does there; `SeriesBook` has the band and the cap.
- `f64_bits_to_fixed`: multipliers are taken after conversion. `strike.ts` and the
  decimal arithmetic of `fixed.ts`.
- Prices and yields in the agent, and all of `market/src`: floating-point analysis
  without control state; which rung is chosen is any choice.
- `classify.ts` and the map of Scope's slots to symbols: tables and thresholds.
- The MCP server, the web application, `verify-onchain.ts`, `read.ts`, argument parsing
  and reports: they read and show.
- Whether the longest window a series may be listed with always fits before the scan
  saturates: `constants.rs:95` counts weekdays and ignores holidays. `WindowNeverShort`
  leaves the saturated clock out.
- Refusals that leave no record (a pause, a stale price) cost the holders minutes; the
  source says so, and the window is judged without them.
