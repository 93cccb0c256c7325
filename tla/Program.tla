-------------------------------- MODULE Program --------------------------------
(***************************************************************************)
(* The program as its clients meet it: the account context of each         *)
(* instruction (programs/deliverable/src/instructions), what makes one be  *)
(* refused, and which accounts it leaves behind. A context is positional:  *)
(* Anchor binds the n-th account of the transaction to the n-th field. The *)
(* money inside the accounts is SeriesBook's subject and the gate's        *)
(* verdict Rail's: here an amount is raw units moved in and out, and the   *)
(* gate an input.                                                          *)
(*                                                                         *)
(* The chain is a function from the addresses that exist to their account; *)
(* world holds what an instruction reads besides: the clock (now), the     *)
(* instants inside a session, the gate's verdict (0, or the code it refuses*)
(* with) and whether the oracle accounts passed can be read.               *)
(***************************************************************************)
EXTENDS Naturals, Sequences, FiniteSets, Overlay

-----------------------------------------------------------------------------
(* Contexts *)

Field(name, type, signer, mut, init) ==
    [name |-> name, type |-> type, signer |-> signer, mut |-> mut,
     init |-> init]

Signer(name) == Field(name, "Any", TRUE, FALSE, FALSE)

MutSigner(name) == Field(name, "Any", TRUE, TRUE, FALSE)

Account(name, type) == Field(name, type, FALSE, FALSE, FALSE)

MutAccount(name, type) == Field(name, type, FALSE, TRUE, FALSE)

InitAccount(name, type) == Field(name, type, FALSE, TRUE, TRUE)

Unchecked(name) == Field(name, "Any", FALSE, FALSE, FALSE)

AdminContexts ==
    [ initRegistry |->
        << MutSigner("authority"), InitAccount("registry", "Registry"),
           Account("systemProgram", "Program") >>,
      setRegistryPaused |->
        << Signer("authority"), MutAccount("registry", "Registry") >>,
      initCalendar |->
        << MutSigner("authority"), Account("registry", "Registry"),
           InitAccount("calendar", "MarketCalendar"),
           Account("systemProgram", "Program") >>,
      appendCalendarEntries |->
        << Signer("authority"), MutAccount("calendar", "MarketCalendar") >>,
      probeSession |-> << Account("calendar", "MarketCalendar") >> ]

SecurityContexts ==
    [ registerSecurity |->
        << MutSigner("authority"), Account("registry", "Registry"),
           Account("underlyingMint", "Mint"),
           Account("calendar", "MarketCalendar"),
           InitAccount("security", "SecurityState"),
           Account("systemProgram", "Program") >>,
      syncSecurity |->
        << MutAccount("security", "SecurityState"),
           Account("underlyingMint", "Mint"), Unchecked("primaryOracle"),
           Unchecked("secondaryOracle") >>,
      attestHalt |->
        << Signer("attestor"), Account("registry", "Registry"),
           MutAccount("security", "SecurityState") >>,
      probeSecurity |->
        << MutAccount("security", "SecurityState"),
           Account("calendar", "MarketCalendar"),
           Account("underlyingMint", "Mint"), Unchecked("primaryOracle"),
           Unchecked("secondaryOracle") >> ]

SeriesContexts ==
    [ createSeries |->
        << MutSigner("creator"), Account("registry", "Registry"),
           Account("security", "SecurityState"),
           Account("calendar", "MarketCalendar"),
           Account("underlyingMint", "Mint"), Account("quoteMint", "Mint"),
           InitAccount("series", "OptionSeries"),
           InitAccount("optionMint", "Mint"),
           InitAccount("collateralVault", "TokenAccount"),
           InitAccount("premiumVault", "TokenAccount"),
           InitAccount("quoteVault", "TokenAccount"),
           Account("underlyingTokenProgram", "Program"),
           Account("quoteTokenProgram", "Program"),
           Account("systemProgram", "Program") >>,
      acknowledgeAdjustment |->
        << MutAccount("series", "OptionSeries"),
           Account("underlyingMint", "Mint") >> ]

WriteContexts ==
    [ write |->
        << MutSigner("writer"), Account("registry", "Registry"),
           Account("security", "SecurityState"),
           Account("calendar", "MarketCalendar"),
           MutAccount("series", "OptionSeries"),
           Account("underlyingMint", "Mint"),
           Account("premiumVault", "TokenAccount"),
           MutAccount("optionMint", "Mint"),
           MutAccount("collateralVault", "TokenAccount"),
           MutAccount("writerUnderlying", "TokenAccount"),
           MutAccount("writerOption", "TokenAccount"),
           MutAccount("position", "WriterPosition"),
           Unchecked("primaryOracle"), Unchecked("secondaryOracle"),
           Account("underlyingTokenProgram", "Program") >>,
      openPosition |->
        << MutSigner("writer"), Account("series", "OptionSeries"),
           InitAccount("position", "WriterPosition"),
           Account("systemProgram", "Program") >>,
      claimPremium |->
        << Signer("writer"), Account("registry", "Registry"),
           Account("security", "SecurityState"),
           Account("calendar", "MarketCalendar"),
           MutAccount("series", "OptionSeries"),
           MutAccount("position", "WriterPosition"),
           Account("underlyingMint", "Mint"),
           MutAccount("premiumVault", "TokenAccount"),
           MutAccount("writerUnderlying", "TokenAccount"),
           Unchecked("primaryOracle"), Unchecked("secondaryOracle"),
           Account("underlyingTokenProgram", "Program") >> ]

SettleContexts ==
    [ exercise |->
        << MutSigner("holder"), Account("registry", "Registry"),
           Account("security", "SecurityState"),
           Account("calendar", "MarketCalendar"),
           MutAccount("series", "OptionSeries"),
           Account("underlyingMint", "Mint"), Account("quoteMint", "Mint"),
           MutAccount("optionMint", "Mint"),
           MutAccount("collateralVault", "TokenAccount"),
           MutAccount("quoteVault", "TokenAccount"),
           MutAccount("holderOption", "TokenAccount"),
           MutAccount("holderQuote", "TokenAccount"),
           MutAccount("holderUnderlying", "TokenAccount"),
           Unchecked("primaryOracle"), Unchecked("secondaryOracle"),
           Account("underlyingTokenProgram", "Program"),
           Account("quoteTokenProgram", "Program") >>,
      settleExpired |->
        << Signer("writer"), Account("security", "SecurityState"),
           Account("calendar", "MarketCalendar"),
           MutAccount("series", "OptionSeries"),
           MutAccount("position", "WriterPosition"),
           Account("underlyingMint", "Mint"), Account("quoteMint", "Mint"),
           MutAccount("collateralVault", "TokenAccount"),
           MutAccount("quoteVault", "TokenAccount"),
           MutAccount("writerUnderlying", "TokenAccount"),
           MutAccount("writerQuote", "TokenAccount"),
           Account("underlyingTokenProgram", "Program"),
           Account("quoteTokenProgram", "Program") >> ]

Contexts ==
    AdminContexts @@ SecurityContexts @@ SeriesContexts @@ WriteContexts
        @@ SettleContexts

\* The first byte of sha256("global:<handler>"), as lib.rs dispatches.
Dispatch ==
    [ acknowledgeAdjustment |-> 226, appendCalendarEntries |-> 245,
      attestHalt |-> 254, claimPremium |-> 225, createSeries |-> 181,
      exercise |-> 144, initCalendar |-> 178, initRegistry |-> 131,
      openPosition |-> 135, probeSecurity |-> 161, probeSession |-> 31,
      registerSecurity |-> 202, setRegistryPaused |-> 209,
      settleExpired |-> 187, syncSecurity |-> 45, write |-> 235 ]

Handles(ix) == {op \in DOMAIN Dispatch : Dispatch[op] = ix.discriminator}

Handler(ix) == CHOOSE op \in Handles(ix) : TRUE

\* What the program finds under each field's name.
Bound(op, ix) ==
    [n \in {Contexts[op][i].name : i \in DOMAIN Contexts[op]} |->
        ix.accounts[CHOOSE i \in DOMAIN Contexts[op] :
                        Contexts[op][i].name = n].address]

-----------------------------------------------------------------------------
(* What makes the program refuse an instruction *)

Exists(chain, address, type) ==
    /\ address \in DOMAIN chain
    /\ type \in {"Any", chain[address].type}

\* The account list itself: its length, its flags, what must and must not
\* be there.
AccountComplaints(chain, op, ix) ==
    LET fields == Contexts[op]
        some(test(_, _)) == \E i \in DOMAIN fields : test(fields[i], ix.accounts[i])
        unsigned(f, m) == f.signer /\ ~m.isSigner
        frozen(f, m) == f.mut /\ ~m.isWritable
        taken(f, m) == f.init /\ m.address \in DOMAIN chain
        absent(f, m) == ~f.init /\ f.type # "Any" /\ ~Exists(chain, m.address, f.type)
    IN IF Len(ix.accounts) < Len(fields) THEN {"not enough keys"}
       ELSE {c \in {"unsigned", "frozen", "taken", "absent"} :
               \/ c = "unsigned" /\ some(unsigned)
               \/ c = "frozen" /\ some(frozen)
               \/ c = "taken" /\ some(taken)
               \/ c = "absent" /\ some(absent)}

SeriesSeeds(s) ==
    << "series", s.underlying_mint, s.quote_mint, s.expiry_ts, s.strike0,
       s.contract_raw_size, s.settlement_window_minutes, s.kind, s.adjust >>

\* The series an instruction is about: stored, or about to be.
SeriesOf(chain, op, a, ix) ==
    IF op = "createSeries"
    THEN [underlying_mint |-> a.underlyingMint, quote_mint |-> a.quoteMint,
          expiry_ts |-> ix.data[1], strike0 |-> ix.data[2],
          kind |-> ix.data[3], contract_raw_size |-> ix.data[4],
          settlement_window_minutes |-> ix.data[5], adjust |-> ix.data[6]]
    ELSE chain[a.series]

\* The address the constraints of a field pin it to.
Pinned(chain, op, a, ix, n) ==
    CASE n = "registry" -> <<"registry">>
      [] n = "calendar" -> << "calendar", IF op = "initCalendar" THEN ix.data[1]
                                          ELSE chain[a.calendar].id >>
      [] n = "security" -> << "security",
                              IF op = "attestHalt"
                              THEN chain[a.security].underlying_mint
                              ELSE IF op = "settleExpired"
                              THEN chain[a.series].underlying_mint
                              ELSE a.underlyingMint >>
      [] n = "series" -> SeriesSeeds(SeriesOf(chain, op, a, ix))
      [] n = "optionMint" -> << "option", a.series >>
      [] n = "collateralVault" -> << "vault", a.series >>
      [] n = "premiumVault" -> << "premium", a.series >>
      [] n = "quoteVault" -> << "quote", a.series >>
      [] n = "position" -> << "writer", a.series, a.writer >>
      [] OTHER -> a[n]

\* The mint a token account of the signer has to be of.
MintOf(chain, a, n) ==
    CASE n \in {"writerUnderlying", "holderUnderlying"} ->
            chain[a.series].underlying_mint
      [] n \in {"writerQuote", "holderQuote"} -> chain[a.series].quote_mint
      [] n \in {"writerOption", "holderOption"} -> << "option", a.series >>

Wallets ==
    { "writerUnderlying", "holderUnderlying", "writerQuote", "holderQuote",
      "writerOption", "holderOption" }

WrongAuthority(chain, op, a) ==
    \/ /\ op \in {"setRegistryPaused", "initCalendar", "registerSecurity"}
       /\ chain[a.registry].authority # a.authority
    \/ /\ op = "appendCalendarEntries"
       /\ chain[a.calendar].authority # a.authority
    \/ op = "attestHalt" /\ chain[a.registry].attestor # a.attestor

\* A wallet of another mint or of another owner.
Foreign(chain, a, n) ==
    \/ chain[a[n]].mint # MintOf(chain, a, n)
    \/ chain[a[n]].owner # (IF "writer" \in DOMAIN a THEN a.writer ELSE a.holder)

Mismatched(chain, op, a) ==
    LET named == DOMAIN a IN
    \/ /\ {"calendar", "security"} \subseteq named /\ op # "registerSecurity"
       /\ chain[a.calendar].id # chain[a.security].calendar_id
    \/ /\ op # "createSeries" /\ "series" \in named
       /\ \/ "security" \in named /\ chain[a.series].security # a.security
          \/ /\ "underlyingMint" \in named
             /\ chain[a.series].underlying_mint # a.underlyingMint
          \/ "quoteMint" \in named /\ chain[a.series].quote_mint # a.quoteMint
    \/ \E n \in named \cap Wallets : Foreign(chain, a, n)

ConstraintComplaints(chain, op, ix) ==
    {c \in {"seeds", "authority", "paused", "mismatch"} :
        \E a \in {Bound(op, ix)} :
            \/ /\ c = "seeds"
               /\ \E n \in DOMAIN a : a[n] # Pinned(chain, op, a, ix, n)
            \/ c = "authority" /\ WrongAuthority(chain, op, a)
            \/ /\ c = "paused"
               /\ op \in {"createSeries", "write", "claimPremium", "exercise"}
               /\ chain[a.registry].paused
            \/ c = "mismatch" /\ Mismatched(chain, op, a)}

-----------------------------------------------------------------------------
(* The handlers that make accounts or that a client of this project sends. *)
(* Premium, exercise and settlement are SeriesBook's.                      *)

HandlerComplaints(chain, world, op, ix) ==
    LET a == Bound(op, ix)
        series == SeriesOf(chain, op, a, ix)
        gate == op \in {"write", "claimPremium", "exercise"} /\ world.verdict # 0
        oracle == op = "syncSecurity" /\ ~world.readable
        terms ==
            /\ op = "createSeries"
            /\ \/ series.expiry_ts <= world.now
               \/ series.expiry_ts \notin world.sessions
               \/ series.quote_mint = series.underlying_mint
               \/ series.contract_raw_size = 0
        phase == op = "write" /\ world.now >= series.expiry_ts
        balance ==
            /\ op = "write"
            /\ chain[a.writerUnderlying].amount
                 < ix.data[1] * series.contract_raw_size
    IN {c \in {"gate", "oracle", "terms", "phase", "balance"} :
          \/ c = "gate" /\ gate
          \/ c = "oracle" /\ oracle
          \/ c = "terms" /\ terms
          \/ c = "phase" /\ phase
          \/ c = "balance" /\ balance}

\* The account list is checked before the constraints, and the handler runs
\* last.
Complaints(chain, world, ix) ==
    IF Handles(ix) = {} THEN {"unknown instruction"}
    ELSE LET op == Handler(ix)
             accounts == AccountComplaints(chain, op, ix)
         IN IF accounts # {} THEN accounts
            ELSE LET constraints == ConstraintComplaints(chain, op, ix)
                 IN IF constraints # {} THEN constraints
                    ELSE HandlerComplaints(chain, world, op, ix)

Accepts(chain, world, ix) == Complaints(chain, world, ix) = {}

-----------------------------------------------------------------------------
(* What an accepted instruction leaves behind *)

TokenAccount(mint, owner, amount) ==
    [type |-> "TokenAccount", mint |-> mint, owner |-> owner, amount |-> amount]

init_registry(chain, a, ix) ==
    (a.registry :> [type |-> "Registry", authority |-> a.authority,
                    attestor |-> ix.data[1], paused |-> FALSE]) @@ chain

set_registry_paused(chain, a, ix) ==
    [chain EXCEPT ![a.registry].paused = ix.data[1]]

init_calendar(chain, a, ix) ==
    (a.calendar :> [type |-> "MarketCalendar", authority |-> a.authority,
                    id |-> ix.data[1], open |-> ix.data[2],
                    close |-> ix.data[3], entries |-> {}]) @@ chain

\* An entry of a day that has one replaces it.
append_calendar_entries(chain, a, ix) ==
    LET days == {e.dateKey : e \in ix.data[1]} IN
    [chain EXCEPT ![a.calendar].entries =
        {e \in @ : e.dateKey \notin days} \cup ix.data[1]]

register_security(chain, a, ix) ==
    (a.security :> [type |-> "SecurityState",
                    underlying_mint |-> a.underlyingMint,
                    calendar_id |-> chain[a.calendar].id,
                    sources |-> ix.data[2], synced |-> FALSE, halted |-> FALSE,
                    refusals |-> 0, last_refusal_code |-> 0]) @@ chain

sync_security(chain, a) == [chain EXCEPT ![a.security].synced = TRUE]

attest_halt(chain, a, ix) == [chain EXCEPT ![a.security].halted = ix.data[1]]

\* probe_security writes a refusal down and succeeds either way.
probe_security(chain, world, a) ==
    IF world.verdict = 0 THEN chain
    ELSE [chain EXCEPT ![a.security].refusals = @ + 1,
                       ![a.security].last_refusal_code = world.verdict]

create_series(chain, a, ix) ==
    LET terms == SeriesOf(chain, "createSeries", a, ix) IN
    (a.series :> (terms @@ [type |-> "OptionSeries", security |-> a.security,
                            contracts_written |-> 0]))
    @@ (a.optionMint :> [type |-> "Mint"])
    @@ (a.collateralVault :> TokenAccount(a.underlyingMint, a.series, 0))
    @@ (a.premiumVault :> TokenAccount(a.underlyingMint, a.series, 0))
    @@ (a.quoteVault :> TokenAccount(a.quoteMint, a.series, 0))
    @@ chain

open_position(chain, a) ==
    (a.position :> [type |-> "WriterPosition", owner |-> a.writer,
                    series |-> a.series, contracts |-> 0]) @@ chain

write(chain, a, ix) ==
    LET contracts == ix.data[1]
        raw == contracts * chain[a.series].contract_raw_size
        paid == [chain EXCEPT ![a.writerUnderlying].amount = @ - raw]
        locked == [paid EXCEPT ![a.collateralVault].amount = @ + raw]
        minted == [locked EXCEPT ![a.writerOption].amount = @ + contracts]
        written == [minted EXCEPT ![a.series].contracts_written = @ + contracts]
    IN [written EXCEPT ![a.position].contracts = @ + contracts]

Effect(chain, world, ix) ==
    LET op == Handler(ix)
        a == Bound(op, ix)
    IN CASE op = "initRegistry" -> init_registry(chain, a, ix)
         [] op = "setRegistryPaused" -> set_registry_paused(chain, a, ix)
         [] op = "initCalendar" -> init_calendar(chain, a, ix)
         [] op = "appendCalendarEntries" -> append_calendar_entries(chain, a, ix)
         [] op = "registerSecurity" -> register_security(chain, a, ix)
         [] op = "syncSecurity" -> sync_security(chain, a)
         [] op = "attestHalt" -> attest_halt(chain, a, ix)
         [] op = "probeSecurity" -> probe_security(chain, world, a)
         [] op = "createSeries" -> create_series(chain, a, ix)
         [] op = "openPosition" -> open_position(chain, a)
         [] op = "write" -> write(chain, a, ix)

=============================================================================
