---------------------------- MODULE Instructions ----------------------------
(***************************************************************************)
(* The instruction client of the SDK: for each instruction of the program, *)
(* the accounts and the arguments it takes, the builder that assembles it  *)
(* (with and without resolved defaults) and the parser that reads one back.*)
(*                                                                         *)
(* An address is the tuple of the seeds it is derived from, each of which  *)
(* has a fixed width, or <<"key", name>> for a key pair. An instruction is *)
(* the discriminator, a sequence of account metas and the sequence of its  *)
(* encoded arguments; a reader finds an account or an argument by its      *)
(* position alone, which is why order is kept and widths are not. The      *)
(* encoders and the decoders of one instruction list the same arguments,   *)
(* so one sequence stands for both.                                        *)
(***************************************************************************)
EXTENDS Naturals, Sequences, Overlay

Key(name) == <<"key", name>>

SYSTEM_PROGRAM == <<"11111111111111111111111111111111">>

DELIVERABLE_PROGRAM_ADDRESS == <<"DnLxRcayAcjUFFuLjobQmJ7K75EgDRGFkUj5tfWcMCaa">>

-----------------------------------------------------------------------------
(* Derived addresses *)

findRegistryPda == <<"registry">>

findCalendarPda(id) == <<"calendar", id>>

findSecurityPda(underlyingMint) == << "security", underlyingMint >>

findOptionMintPda(series) == << "option", series >>

findCollateralVaultPda(series) == << "vault", series >>

findPremiumVaultPda(series) == << "premium", series >>

findQuoteVaultPda(series) == << "quote", series >>

findPositionPda(series, writer) == << "writer", series, writer >>

findSeriesPda(seeds) ==
    << "series", seeds.underlyingMint, seeds.quoteMint, seeds.expiryTs,
       seeds.strike0, seeds.contractRawSize, seeds.settlementWindowMinutes,
       seeds.kind, seeds.adjustOnCorporateAction >>

-----------------------------------------------------------------------------
(* Assembly and parsing, which every instruction does alike *)

Role(name, isSigner, isWritable) ==
    [name |-> name, isSigner |-> isSigner, isWritable |-> isWritable]

WS(name) == Role(name, TRUE, TRUE)

RS(name) == Role(name, TRUE, FALSE)

W(name) == Role(name, FALSE, TRUE)

R(name) == Role(name, FALSE, FALSE)

\* An account nobody supplies goes out as the program's own address, readonly.
getAccountMeta(role, input) ==
    IF role.name \in DOMAIN input
    THEN [address |-> input[role.name], isSigner |-> role.isSigner,
          isWritable |-> role.isWritable]
    ELSE [address |-> DELIVERABLE_PROGRAM_ADDRESS, isSigner |-> FALSE,
          isWritable |-> FALSE]

Assembled(discriminator, roles, args, input) ==
    [discriminator |-> discriminator,
     accounts |-> [i \in DOMAIN roles |-> getAccountMeta(roles[i], input)],
     data |-> [i \in DOMAIN args |-> input[args[i]]]]

NamesOf(seq) == {seq[i] : i \in DOMAIN seq}

RoleNames(roles) == [i \in DOMAIN roles |-> roles[i].name]

\* Fewer accounts than the instruction has make the parser throw.
Throws == [thrown |-> "insufficient account metas"]

Parsed(roles, args, ix) ==
    IF Len(ix.accounts) < Len(roles) THEN Throws
    ELSE [accounts |-> [n \in NamesOf(RoleNames(roles)) |->
                          ix.accounts[CHOOSE i \in DOMAIN roles :
                                        roles[i].name = n]],
          data |-> [a \in NamesOf(args) |->
                      ix.data[CHOOSE i \in DOMAIN args : args[i] = a]]]

\* A parsed instruction as the input of its own builder.
InputsOf(parsed) ==
    [n \in DOMAIN parsed.accounts |-> parsed.accounts[n].address] @@ parsed.data

-----------------------------------------------------------------------------
(* One group per instruction: accounts, arguments, builders, parser. The   *)
(* async builder is the plain one after its defaults have been resolved,   *)
(* and its input type names what it cannot resolve by itself.              *)

AcknowledgeAdjustmentInstruction ==
    << W("series"), R("underlyingMint") >>

AcknowledgeAdjustmentInstructionData == <<>>

getAcknowledgeAdjustmentInstruction(input) ==
    Assembled(226, AcknowledgeAdjustmentInstruction, AcknowledgeAdjustmentInstructionData,
              input)

parseAcknowledgeAdjustmentInstruction(ix) ==
    Parsed(AcknowledgeAdjustmentInstruction, AcknowledgeAdjustmentInstructionData, ix)

AppendCalendarEntriesInstruction ==
    << RS("authority"), W("calendar") >>

AppendCalendarEntriesInstructionData == << "entries" >>

getAppendCalendarEntriesInstruction(input) ==
    Assembled(245, AppendCalendarEntriesInstruction, AppendCalendarEntriesInstructionData,
              input)

parseAppendCalendarEntriesInstruction(ix) ==
    Parsed(AppendCalendarEntriesInstruction, AppendCalendarEntriesInstructionData, ix)

AttestHaltInstruction ==
    << RS("attestor"), R("registry"), W("security") >>

AttestHaltInstructionData == << "halted", "sinceTs", "source" >>

getAttestHaltInstruction(input) ==
    Assembled(254, AttestHaltInstruction, AttestHaltInstructionData,
              input)

AttestHaltAsyncInput ==
    { "attestor", "security", "halted", "sinceTs", "source" }

getAttestHaltInstructionAsync(input) ==
    getAttestHaltInstruction(input @@
        [registry |-> findRegistryPda])

parseAttestHaltInstruction(ix) ==
    Parsed(AttestHaltInstruction, AttestHaltInstructionData, ix)

ClaimPremiumInstruction ==
    << RS("writer"), R("registry"), R("security"), R("calendar"), W("series"),
       W("position"), R("underlyingMint"), W("premiumVault"),
       W("writerUnderlying"), R("primaryOracle"), R("secondaryOracle"),
       R("underlyingTokenProgram") >>

ClaimPremiumInstructionData == <<>>

getClaimPremiumInstruction(input) ==
    Assembled(225, ClaimPremiumInstruction, ClaimPremiumInstructionData,
              input)

ClaimPremiumAsyncInput ==
    { "writer", "calendar", "series", "underlyingMint", "writerUnderlying",
      "primaryOracle", "secondaryOracle", "underlyingTokenProgram" }

getClaimPremiumInstructionAsync(input) ==
    getClaimPremiumInstruction(input @@
        [registry |-> findRegistryPda,
         security |-> findSecurityPda(input.underlyingMint),
         position |-> findPositionPda(input.series, input.writer),
         premiumVault |-> findPremiumVaultPda(input.series)])

parseClaimPremiumInstruction(ix) ==
    Parsed(ClaimPremiumInstruction, ClaimPremiumInstructionData, ix)

CreateSeriesInstruction ==
    << WS("creator"), R("registry"), R("security"), R("calendar"),
       R("underlyingMint"), R("quoteMint"), W("series"), W("optionMint"),
       W("collateralVault"), W("premiumVault"), W("quoteVault"),
       R("underlyingTokenProgram"), R("quoteTokenProgram"), R("systemProgram") >>

CreateSeriesInstructionData ==
    << "expiryTs", "strike0", "kind", "contractRawSize",
       "settlementWindowMinutes", "adjustOnCorporateAction" >>

getCreateSeriesInstruction(input) ==
    Assembled(181, CreateSeriesInstruction, CreateSeriesInstructionData,
              input @@ [systemProgram |-> SYSTEM_PROGRAM])

CreateSeriesAsyncInput ==
    { "creator", "calendar", "underlyingMint", "quoteMint", "series",
      "underlyingTokenProgram", "quoteTokenProgram", "expiryTs", "strike0",
      "kind", "contractRawSize", "settlementWindowMinutes",
      "adjustOnCorporateAction" }

getCreateSeriesInstructionAsync(input) ==
    getCreateSeriesInstruction(input @@
        [registry |-> findRegistryPda,
         security |-> findSecurityPda(input.underlyingMint),
         optionMint |-> findOptionMintPda(input.series),
         collateralVault |-> findCollateralVaultPda(input.series),
         premiumVault |-> findPremiumVaultPda(input.series),
         quoteVault |-> findQuoteVaultPda(input.series)])

parseCreateSeriesInstruction(ix) ==
    Parsed(CreateSeriesInstruction, CreateSeriesInstructionData, ix)

ExerciseInstruction ==
    << WS("holder"), R("registry"), R("security"), R("calendar"), W("series"),
       R("underlyingMint"), R("quoteMint"), W("optionMint"),
       W("collateralVault"), W("quoteVault"), W("holderOption"),
       W("holderQuote"), W("holderUnderlying"), R("primaryOracle"),
       R("secondaryOracle"), R("underlyingTokenProgram"),
       R("quoteTokenProgram") >>

ExerciseInstructionData == << "contracts" >>

getExerciseInstruction(input) ==
    Assembled(144, ExerciseInstruction, ExerciseInstructionData,
              input)

ExerciseAsyncInput ==
    { "holder", "calendar", "series", "underlyingMint", "quoteMint",
      "optionMint", "holderOption", "holderQuote", "holderUnderlying",
      "primaryOracle", "secondaryOracle", "underlyingTokenProgram",
      "quoteTokenProgram", "contracts" }

getExerciseInstructionAsync(input) ==
    getExerciseInstruction(input @@
        [registry |-> findRegistryPda,
         security |-> findSecurityPda(input.underlyingMint),
         collateralVault |-> findCollateralVaultPda(input.series),
         quoteVault |-> findQuoteVaultPda(input.series)])

parseExerciseInstruction(ix) ==
    Parsed(ExerciseInstruction, ExerciseInstructionData, ix)

InitCalendarInstruction ==
    << WS("authority"), R("registry"), W("calendar"), R("systemProgram") >>

InitCalendarInstructionData == << "id", "regularOpenMinute", "regularCloseMinute" >>

getInitCalendarInstruction(input) ==
    Assembled(178, InitCalendarInstruction, InitCalendarInstructionData,
              input @@ [systemProgram |-> SYSTEM_PROGRAM])

InitCalendarAsyncInput ==
    { "authority", "id", "regularOpenMinute", "regularCloseMinute" }

getInitCalendarInstructionAsync(input) ==
    getInitCalendarInstruction(input @@
        [registry |-> findRegistryPda,
         calendar |-> findCalendarPda(input.id)])

parseInitCalendarInstruction(ix) ==
    Parsed(InitCalendarInstruction, InitCalendarInstructionData, ix)

InitRegistryInstruction ==
    << WS("authority"), W("registry"), R("systemProgram") >>

InitRegistryInstructionData == << "attestor" >>

getInitRegistryInstruction(input) ==
    Assembled(131, InitRegistryInstruction, InitRegistryInstructionData,
              input @@ [systemProgram |-> SYSTEM_PROGRAM])

InitRegistryAsyncInput ==
    { "authority", "attestor" }

getInitRegistryInstructionAsync(input) ==
    getInitRegistryInstruction(input @@
        [registry |-> findRegistryPda])

parseInitRegistryInstruction(ix) ==
    Parsed(InitRegistryInstruction, InitRegistryInstructionData, ix)

OpenPositionInstruction ==
    << WS("writer"), R("series"), W("position"), R("systemProgram") >>

OpenPositionInstructionData == <<>>

getOpenPositionInstruction(input) ==
    Assembled(135, OpenPositionInstruction, OpenPositionInstructionData,
              input @@ [systemProgram |-> SYSTEM_PROGRAM])

OpenPositionAsyncInput ==
    { "writer", "series" }

getOpenPositionInstructionAsync(input) ==
    getOpenPositionInstruction(input @@
        [position |-> findPositionPda(input.series, input.writer)])

parseOpenPositionInstruction(ix) ==
    Parsed(OpenPositionInstruction, OpenPositionInstructionData, ix)

ProbeSecurityInstruction ==
    << W("security"), R("calendar"), R("underlyingMint"), R("primaryOracle"),
       R("secondaryOracle") >>

ProbeSecurityInstructionData == <<>>

getProbeSecurityInstruction(input) ==
    Assembled(161, ProbeSecurityInstruction, ProbeSecurityInstructionData,
              input)

ProbeSecurityAsyncInput ==
    { "calendar", "underlyingMint", "primaryOracle", "secondaryOracle" }

getProbeSecurityInstructionAsync(input) ==
    getProbeSecurityInstruction(input @@
        [security |-> findSecurityPda(input.underlyingMint)])

parseProbeSecurityInstruction(ix) ==
    Parsed(ProbeSecurityInstruction, ProbeSecurityInstructionData, ix)

ProbeSessionInstruction ==
    << R("calendar") >>

ProbeSessionInstructionData == <<>>

getProbeSessionInstruction(input) ==
    Assembled(31, ProbeSessionInstruction, ProbeSessionInstructionData,
              input)

parseProbeSessionInstruction(ix) ==
    Parsed(ProbeSessionInstruction, ProbeSessionInstructionData, ix)

RegisterSecurityInstruction ==
    << WS("authority"), R("registry"), R("underlyingMint"), R("calendar"),
       W("security"), R("systemProgram") >>

RegisterSecurityInstructionData ==
    << "symbol", "sources", "maxPriceAge", "maxConfBps", "maxDivergenceBps" >>

getRegisterSecurityInstruction(input) ==
    Assembled(202, RegisterSecurityInstruction, RegisterSecurityInstructionData,
              input @@ [systemProgram |-> SYSTEM_PROGRAM])

RegisterSecurityAsyncInput ==
    { "authority", "underlyingMint", "calendar", "symbol", "sources",
      "maxPriceAge", "maxConfBps", "maxDivergenceBps" }

getRegisterSecurityInstructionAsync(input) ==
    getRegisterSecurityInstruction(input @@
        [registry |-> findRegistryPda,
         security |-> findSecurityPda(input.underlyingMint)])

parseRegisterSecurityInstruction(ix) ==
    Parsed(RegisterSecurityInstruction, RegisterSecurityInstructionData, ix)

SetRegistryPausedInstruction ==
    << RS("authority"), W("registry") >>

SetRegistryPausedInstructionData == << "paused" >>

getSetRegistryPausedInstruction(input) ==
    Assembled(209, SetRegistryPausedInstruction, SetRegistryPausedInstructionData,
              input)

SetRegistryPausedAsyncInput ==
    { "authority", "paused" }

getSetRegistryPausedInstructionAsync(input) ==
    getSetRegistryPausedInstruction(input @@
        [registry |-> findRegistryPda])

parseSetRegistryPausedInstruction(ix) ==
    Parsed(SetRegistryPausedInstruction, SetRegistryPausedInstructionData, ix)

SettleExpiredInstruction ==
    << RS("writer"), R("security"), R("calendar"), W("series"), W("position"),
       R("underlyingMint"), R("quoteMint"), W("collateralVault"),
       W("quoteVault"), W("writerUnderlying"), W("writerQuote"),
       R("underlyingTokenProgram"), R("quoteTokenProgram") >>

SettleExpiredInstructionData == <<>>

getSettleExpiredInstruction(input) ==
    Assembled(187, SettleExpiredInstruction, SettleExpiredInstructionData,
              input)

SettleExpiredAsyncInput ==
    { "writer", "security", "calendar", "series", "underlyingMint",
      "quoteMint", "collateralVault", "quoteVault", "writerUnderlying",
      "writerQuote", "underlyingTokenProgram", "quoteTokenProgram" }

getSettleExpiredInstructionAsync(input) ==
    getSettleExpiredInstruction(input @@
        [position |-> findPositionPda(input.series, input.writer)])

parseSettleExpiredInstruction(ix) ==
    Parsed(SettleExpiredInstruction, SettleExpiredInstructionData, ix)

SyncSecurityInstruction ==
    << W("security"), R("underlyingMint"), R("primaryOracle"),
       R("secondaryOracle") >>

SyncSecurityInstructionData == <<>>

getSyncSecurityInstruction(input) ==
    Assembled(45, SyncSecurityInstruction, SyncSecurityInstructionData,
              input)

SyncSecurityAsyncInput ==
    { "underlyingMint", "primaryOracle", "secondaryOracle" }

getSyncSecurityInstructionAsync(input) ==
    getSyncSecurityInstruction(input @@
        [security |-> findSecurityPda(input.underlyingMint)])

parseSyncSecurityInstruction(ix) ==
    Parsed(SyncSecurityInstruction, SyncSecurityInstructionData, ix)

\* Mutated accounts: as they were before the premium vault was passed.
WriteInstructionStale ==
    << WS("writer"), R("registry"), R("security"), R("calendar"), W("series"),
       R("underlyingMint"), W("optionMint"), W("collateralVault"),
       W("writerUnderlying"), W("writerOption"), W("position"),
       R("primaryOracle"), R("secondaryOracle"), R("underlyingTokenProgram") >>

WriteInstruction ==
    << WS("writer"), R("registry"), R("security"), R("calendar"), W("series"),
       R("underlyingMint"), R("premiumVault"), W("optionMint"),
       W("collateralVault"), W("writerUnderlying"), W("writerOption"),
       W("position"), R("primaryOracle"), R("secondaryOracle"),
       R("underlyingTokenProgram") >>

WriteInstructionData == << "contracts" >>

getWriteInstruction(input) ==
    Assembled(235, WriteInstruction, WriteInstructionData,
              input)

WriteAsyncInput ==
    { "writer", "calendar", "series", "underlyingMint", "optionMint",
      "collateralVault", "writerUnderlying", "writerOption", "primaryOracle",
      "secondaryOracle", "underlyingTokenProgram", "contracts" }

getWriteInstructionAsync(input) ==
    getWriteInstruction(input @@
        [registry |-> findRegistryPda,
         security |-> findSecurityPda(input.underlyingMint),
         premiumVault |-> findPremiumVaultPda(input.series),
         position |-> findPositionPda(input.series, input.writer)])

parseWriteInstruction(ix) ==
    Parsed(WriteInstruction, WriteInstructionData, ix)

-----------------------------------------------------------------------------
(* The client as a whole: programs/deliverable.ts repeats every            *)
(* discriminator, and dispatches on it.                                    *)

InstructionBytes ==
    [ acknowledgeAdjustment |-> 226, appendCalendarEntries |-> 245, attestHalt |-> 254,
      claimPremium |-> 225, createSeries |-> 181, exercise |-> 144,
      initCalendar |-> 178, initRegistry |-> 131, openPosition |-> 135,
      probeSecurity |-> 161, probeSession |-> 31, registerSecurity |-> 202,
      setRegistryPaused |-> 209, settleExpired |-> 187, syncSecurity |-> 45,
      write |-> 235 ]

identifyDeliverableInstruction(ix) ==
    LET matches == {n \in DOMAIN InstructionBytes :
                        InstructionBytes[n] = ix.discriminator}
    IN IF matches = {} THEN "unrecognised" ELSE CHOOSE n \in matches : TRUE

parseDeliverableInstruction(ix) ==
    LET name == identifyDeliverableInstruction(ix) IN
    CASE name = "acknowledgeAdjustment" -> parseAcknowledgeAdjustmentInstruction(ix)
      [] name = "appendCalendarEntries" -> parseAppendCalendarEntriesInstruction(ix)
      [] name = "attestHalt" -> parseAttestHaltInstruction(ix)
      [] name = "claimPremium" -> parseClaimPremiumInstruction(ix)
      [] name = "createSeries" -> parseCreateSeriesInstruction(ix)
      [] name = "exercise" -> parseExerciseInstruction(ix)
      [] name = "initCalendar" -> parseInitCalendarInstruction(ix)
      [] name = "initRegistry" -> parseInitRegistryInstruction(ix)
      [] name = "openPosition" -> parseOpenPositionInstruction(ix)
      [] name = "probeSecurity" -> parseProbeSecurityInstruction(ix)
      [] name = "probeSession" -> parseProbeSessionInstruction(ix)
      [] name = "registerSecurity" -> parseRegisterSecurityInstruction(ix)
      [] name = "setRegistryPaused" -> parseSetRegistryPausedInstruction(ix)
      [] name = "settleExpired" -> parseSettleExpiredInstruction(ix)
      [] name = "syncSecurity" -> parseSyncSecurityInstruction(ix)
      [] name = "write" -> parseWriteInstruction(ix)

\* client.deliverable.instructions.<name>(input)
deliverableProgram(name, input) ==
    CASE name = "acknowledgeAdjustment" -> getAcknowledgeAdjustmentInstruction(input)
      [] name = "appendCalendarEntries" -> getAppendCalendarEntriesInstruction(input)
      [] name = "attestHalt" -> getAttestHaltInstructionAsync(input)
      [] name = "claimPremium" -> getClaimPremiumInstructionAsync(input)
      [] name = "createSeries" -> getCreateSeriesInstructionAsync(input)
      [] name = "exercise" -> getExerciseInstructionAsync(input)
      [] name = "initCalendar" -> getInitCalendarInstructionAsync(input)
      [] name = "initRegistry" -> getInitRegistryInstructionAsync(input)
      [] name = "openPosition" -> getOpenPositionInstructionAsync(input)
      [] name = "probeSecurity" -> getProbeSecurityInstructionAsync(input)
      [] name = "probeSession" -> getProbeSessionInstruction(input)
      [] name = "registerSecurity" -> getRegisterSecurityInstructionAsync(input)
      [] name = "setRegistryPaused" -> getSetRegistryPausedInstructionAsync(input)
      [] name = "settleExpired" -> getSettleExpiredInstructionAsync(input)
      [] name = "syncSecurity" -> getSyncSecurityInstructionAsync(input)
      [] name = "write" -> getWriteInstructionAsync(input)
=============================================================================
