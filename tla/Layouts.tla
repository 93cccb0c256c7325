------------------------------ MODULE Layouts ------------------------------
(***************************************************************************)
(* The bytes of the program's accounts and events, and everybody who reads *)
(* them: the generated decoders of the SDK, the hand-written ones of the   *)
(* devnet scripts, the offsets the client filters on, and the four readers *)
(* of what other programs write (Pyth's price update, Scope's price table, *)
(* the extensions of a Token-2022 mint).                                   *)
(*                                                                         *)
(* A layout is a sequence of items: a run of bytes, a one-of whose first   *)
(* byte says which layout follows, or a counted run of one layout. What a  *)
(* field holds is abstract: byte k of a field is <<name, k>>, its own and  *)
(* no other's, so that a reader is right exactly when every field gets the *)
(* bytes written for it. Tags, counts and padding are numbers: << <<>>, n>>*)
(*                                                                         *)
(* The definitions are checked as they stand, without behaviours:          *)
(* Deployment makes them part of what its runs check.                      *)
(***************************************************************************)
EXTENDS Naturals, Sequences, TLC

LOCAL INSTANCE SequencesExt

Bytes(name, width) == [name |-> <<name>>, is |-> "bytes", width |-> width]

OneOf(name, cases) == [name |-> <<name>>, is |-> "one of", cases |-> cases]

Each(name, layout) == [name |-> <<name>>, is |-> "each", of |-> layout]

\* A layout inside a field: no bytes of its own, and the field's name before
\* the names of its items.
Within(name, layout) == [name |-> <<name>>, is |-> "struct", of |-> layout]

Under(name, layout) ==
    [i \in DOMAIN layout |-> [layout[i] EXCEPT !.name = name \o @]]

U8(name) == Bytes(name, 1)

Bool(name) == Bytes(name, 1)

U16(name) == Bytes(name, 2)

U32(name) == Bytes(name, 4)

I32(name) == Bytes(name, 4)

U64(name) == Bytes(name, 8)

I64(name) == Bytes(name, 8)

U128(name) == Bytes(name, 16)

Pubkey(name) == Bytes(name, 32)

-----------------------------------------------------------------------------
(* Writing and reading *)

Number(n) == << <<>>, n >>

Little(n, width) ==
    [k \in 1 .. width |-> Number(IF k = 1 THEN n % 256
                                 ELSE IF k = 2 THEN n \div 256 ELSE 0)]

NumberIn(bytes) == bytes[1][2] + 256 * bytes[2][2]

IsNumber(bytes) == \A k \in DOMAIN bytes : bytes[k][1] = <<>>

Cells(name, width) == [k \in 1 .. width |-> <<name, k>>]

\* n copies of a counted layout, each under its own number.
Copies(item, n) ==
    FlattenSeq([i \in 1 .. n |-> Under(item.name \o <<ToString(i)>>, item.of)])

\* Everything the program may write for a layout: each tag, each count.
RECURSIVE Writings(_, _)
Writings(todo, counts) ==
    IF todo = <<>> THEN {<<>>}
    ELSE LET item == Head(todo)
             Then(head, rest) ==
                {head \o w : w \in Writings(rest \o Tail(todo), counts)}
         IN CASE item.is = "bytes" -> Then(Cells(item.name, item.width), <<>>)
              [] item.is = "struct" -> Then(<<>>, Under(item.name, item.of))
              [] item.is = "one of" ->
                   UNION {Then(<<Number(t - 1)>>, Under(item.name, item.cases[t])) :
                            t \in DOMAIN item.cases}
              [] item.is = "each" ->
                   UNION {Then(Little(n, 4), Copies(item, n)) : n \in counts}

Thrown(why) == << << <<"thrown">>, why>> >>

\* What a sequential reader gets: the fields in order, each with the bytes read
\* for it, ending with "thrown" where the bytes end or a tag says nothing.
RECURSIVE Reading(_, _)
Reading(todo, bytes) ==
    IF todo = <<>> THEN <<>>
    ELSE LET item == Head(todo)
             From(k) == SubSeq(bytes, k + 1, Len(bytes))
         IN CASE item.is = "struct" ->
                   Reading(Under(item.name, item.of) \o Tail(todo), bytes)
              [] item.is = "bytes" ->
                   IF Len(bytes) < item.width THEN Thrown("out of bytes")
                   ELSE << <<item.name, SubSeq(bytes, 1, item.width)>> >>
                          \o Reading(Tail(todo), From(item.width))
              [] item.is = "one of" ->
                   IF bytes = <<>> \/ ~IsNumber(SubSeq(bytes, 1, 1))
                        \/ bytes[1][2] + 1 \notin DOMAIN item.cases
                   THEN Thrown("unknown tag")
                   ELSE Reading(Under(item.name, item.cases[bytes[1][2] + 1])
                                  \o Tail(todo), From(1))
              [] item.is = "each" ->
                   IF Len(bytes) < 4 \/ ~IsNumber(SubSeq(bytes, 1, 4))
                   THEN Thrown("unknown count")
                   ELSE Reading(Copies(item, NumberIn(bytes)) \o Tail(todo),
                                From(4))

Fails(reading) == reading # <<>> /\ reading[Len(reading)][1] = <<"thrown">>

\* What a reader with a table of offsets gets.
At(offset, item) == [name |-> item.name, from |-> offset, width |-> item.width]

Picked(table, bytes) ==
    [i \in DOMAIN table |->
        <<table[i].name,
          SubSeq(bytes, table[i].from + 1, table[i].from + table[i].width)>>]

SetOf(seq) == {seq[i] : i \in DOMAIN seq}

-----------------------------------------------------------------------------
(* The types, accounts and events of the program *)

CalendarEntry == << U32("dateKey"), U8("kind"), U16("closeMinute") >>

HaltState ==
    << Bool("halted"), I64("sinceTs"), I64("attestedTs"), U8("source"),
       I64("liftedTs") >>

Observation ==
    << I64("price"), U64("conf"), I32("expo"), I64("publishTs") >>

OptionKind == << <<>>, <<>> >>

OracleSource == << <<U16("index")>>, <<Bytes("feedId", 32), U32("maxAge")>> >>

OracleBinding ==
    << <<OneOf("primary", OracleSource), OneOf("secondary", OracleSource)>>,
       <<OneOf("primary", OracleSource)>> >>

Registry ==
    << Pubkey("authority"), Pubkey("attestor"), Bool("paused"),
       U8("bump") >>

MarketCalendar ==
    << Pubkey("authority"), U16("id"), U16("version"),
       U16("regularOpenMinute"), U16("regularCloseMinute"), U8("bump"),
       Each("entries", CalendarEntry) >>

SecurityState ==
    << Pubkey("underlyingMint"), Bytes("symbol", 12), U16("calendarId"),
       U8("decimals"), U8("bump"), OneOf("sources", OracleBinding),
       U128("observedMultiplier"), U128("pendingMultiplier"),
       I64("pendingEffectiveTs"), U64("multiplierEpoch"),
       Bool("mintPaused"),
       OneOf("transferHook", << <<>>, <<Pubkey("some")>> >>),
       Within("primary", Observation),
       OneOf("secondary", << <<>>, Observation >>), I64("syncedTs"),
       Within("halt", HaltState), U32("maxPriceAge"), U32("maxConfBps"),
       U32("maxDivergenceBps"), U32("refusals"), U8("lastRefusalCode"),
       I64("lastRefusalTs") >>

OptionSeries ==
    << Pubkey("security"), Pubkey("underlyingMint"),
       Pubkey("quoteMint"), Pubkey("optionMint"),
       Pubkey("collateralVault"), Pubkey("premiumVault"),
       Pubkey("quoteVault"), Pubkey("creator"),
       OneOf("kind", OptionKind), I64("expiryTs"), U64("strike0"),
       U128("multiplierAtMint"), U64("contractRawSize"),
       U16("settlementWindowMinutes"), Bool("adjustOnCorporateAction"),
       U8("underlyingDecimals"), U8("quoteDecimals"), U8("bump"),
       U64("contractsWritten"), U64("contractsExercised"),
       U64("quoteCollected"), U64("premiumClaimedTotal"),
       I64("windowOpenedTs"), U128("acknowledgedMultiplier"),
       U64("contractsAssignedTotal"), U128("premiumPerContractAcc"),
       U64("premiumCreditedTotal") >>

WriterPosition ==
    << Pubkey("owner"), Pubkey("series"), U64("contracts"),
       U64("rawCollateral"), U64("premiumClaimed"), Bool("settled"),
       U8("bump"), U128("premiumDebt") >>

ContractsWrittenEvent ==
    << Pubkey("series"), Pubkey("writer"), U64("contracts"),
       U64("rawCollateral") >>

ExercisedEvent ==
    << Pubkey("series"), Pubkey("holder"), U64("contracts"),
       U64("strike"), U64("quotePaid"), U64("rawDelivered"), I64("at") >>

HaltAttestedEvent ==
    << Pubkey("security"), Bool("halted"), I64("sinceTs"), I64("at") >>

PositionSettledEvent ==
    << Pubkey("series"), Pubkey("writer"), U64("contractsAssigned"),
       U64("rawReturned"), U64("quotePaid"), U64("rawShortfall") >>

PremiumClaimedEvent ==
    << Pubkey("series"), Pubkey("writer"), U64("amount") >>

RefusedEvent == << Pubkey("security"), U8("code"), I64("at") >>

SecurityRegisteredEvent ==
    << Pubkey("security"), Pubkey("underlyingMint"),
       Bytes("symbol", 12), U16("calendarId"), U128("multiplier") >>

SecuritySyncedEvent ==
    << Pubkey("security"), U128("multiplier"), U64("multiplierEpoch"),
       I64("price"), I32("expo"), I64("publishTs"), I64("at") >>

SeriesCreatedEvent ==
    << Pubkey("series"), Pubkey("security"), Pubkey("underlyingMint"),
       I64("expiryTs"), U64("strike0"), U64("contractRawSize"),
       U128("multiplierAtMint"), Bool("adjustOnCorporateAction") >>

StrikeAdjustedEvent ==
    << Pubkey("series"), U64("oldStrike"), U64("newStrike"),
       U128("oldMultiplier"), U128("newMultiplier"), I64("at") >>

Accounts ==
    [Registry |-> Registry, MarketCalendar |-> MarketCalendar,
     SecurityState |-> SecurityState, OptionSeries |-> OptionSeries,
     WriterPosition |-> WriterPosition]

Events ==
    [ContractsWritten |-> ContractsWrittenEvent, Exercised |-> ExercisedEvent,
     HaltAttested |-> HaltAttestedEvent, PositionSettled |-> PositionSettledEvent,
     PremiumClaimed |-> PremiumClaimedEvent, Refused |-> RefusedEvent,
     SecurityRegistered |-> SecurityRegisteredEvent,
     SecuritySynced |-> SecuritySyncedEvent, SeriesCreated |-> SeriesCreatedEvent,
     StrikeAdjusted |-> StrikeAdjustedEvent]

-----------------------------------------------------------------------------
(* What is on chain: a discriminator, the fields, and zeroes up to the     *)
(* length the account was created with                                     *)

MAX_CALENDAR_ENTRIES == 64

Discriminator(kind) == Cells(<<"discriminator", kind>>, 8)

Zeroes(n) == [k \in 1 .. n |-> Number(0)]

Largest(sizes) == CHOOSE n \in sizes : \A m \in sizes : n >= m

\* Anchor's INIT_SPACE: the largest case of every one-of, the longest run.
RECURSIVE InitSpace(_)
InitSpace(layout) ==
    IF layout = <<>> THEN 0
    ELSE LET item == Head(layout)
         IN InitSpace(Tail(layout))
              + CASE item.is = "bytes" -> item.width
                  [] item.is = "struct" -> InitSpace(item.of)
                  [] item.is = "one of" ->
                       1 + Largest({InitSpace(item.cases[t]) : t \in DOMAIN item.cases})
                  [] item.is = "each" -> 4 + MAX_CALENDAR_ENTRIES * InitSpace(item.of)

AccountData(kind, layout) ==
    {Discriminator(kind) \o w \o Zeroes(InitSpace(layout) - Len(w)) :
       w \in Writings(layout, 0 .. 2)}

EventData(kind) == {Discriminator(kind) \o w : w \in Writings(Events[kind], {})}

\* The build before the audit: a halt without lifted_ts in the middle of a
\* security, and a calendar entry keyed by two bytes.
OldSecurityState ==
    [i \in DOMAIN SecurityState |->
        IF SecurityState[i].name = <<"halt">>
        THEN Within("halt", SubSeq(HaltState, 1, 4)) ELSE SecurityState[i]]

OldMarketCalendar ==
    [i \in DOMAIN MarketCalendar |->
        IF MarketCalendar[i].name = <<"entries">>
        THEN Each("entries", <<U16("dateKey"), U8("kind"), U16("closeMinute")>>)
        ELSE MarketCalendar[i]]

-----------------------------------------------------------------------------
(* sdk/src/generated/programs/deliverable.ts and sdk/src/client.ts *)

HasDiscriminator(data, kind) == SubSeq(data, 1, 8) = Discriminator(kind)

Body(data) == SubSeq(data, 9, Len(data))

identifyDeliverableAccount(data) ==
    IF \E kind \in DOMAIN Accounts : HasDiscriminator(data, kind)
    THEN CHOOSE kind \in DOMAIN Accounts : HasDiscriminator(data, kind)
    ELSE "not an account of the program"

identifyDeliverableEvent(data) ==
    IF \E kind \in DOMAIN Events : HasDiscriminator(data, kind)
    THEN CHOOSE kind \in DOMAIN Events : HasDiscriminator(data, kind)
    ELSE "not an event of the program"

getOptionSeriesSize == 399

getWriterPositionSize == 114

\* A filter of getProgramAccounts: a size, a discriminator and 32 bytes.
Filtered(data, size, kind, offset, key) ==
    /\ Len(data) = size
    /\ HasDiscriminator(data, kind)
    /\ SubSeq(data, offset + 1, offset + 32) = key

listSeries(chain, underlying) ==
    {data \in chain :
       Filtered(data, getOptionSeriesSize, "OptionSeries", 40, underlying)}

listWriterPositions(chain, owner) ==
    {data \in chain :
       Filtered(data, getWriterPositionSize, "WriterPosition", 8, owner)}

-----------------------------------------------------------------------------
(* scripts/devnet/lib.ts *)

ACCOUNT_LEN ==
    [Registry |-> 8 + 32 + 32 + 1 + 1,
     MarketCalendar |-> 8 + 32 + 2 + 2 + 2 + 2 + 1 + 4 + 64 * 7,
     SecurityState |-> 329]

\* Mutated check: the discriminator alone says that it is such an account.
expectDiscAnyLength(data, kind, layout) ==
    IF ~HasDiscriminator(data, kind) THEN Thrown("not such an account")
    ELSE Reading(layout, Body(data))

expectDisc(data, kind, layout) ==
    IF ~HasDiscriminator(data, kind) THEN Thrown("not such an account")
    ELSE IF Len(data) < ACCOUNT_LEN[kind] THEN Thrown("an older build")
    ELSE Reading(layout, Body(data))

decodeRegistry(data) ==
    expectDisc(data, "Registry",
        <<Pubkey("authority"), Pubkey("attestor"), Bool("paused"), U8("bump")>>)

decodeCalendar(data) ==
    expectDisc(data, "MarketCalendar",
        << Pubkey("authority"), U16("id"), U16("version"),
           U16("regularOpenMinute"), U16("regularCloseMinute"), U8("bump"),
           Each("entries", <<U32("dateKey"), U8("kind"), U16("closeMinute")>>) >>)

readSource(name) ==
    OneOf(name, << <<U16("index")>>, <<Bytes("feedId", 32), U32("maxAge")>> >>)

readObservation == <<I64("price"), U64("conf"), I32("expo"), I64("publishTs")>>

readHalt ==
    <<Bool("halted"), I64("sinceTs"), I64("attestedTs"), U8("source"), I64("liftedTs")>>

decodeSecurityState(data) ==
    expectDisc(data, "SecurityState",
        << Pubkey("underlyingMint"), Bytes("symbol", 12), U16("calendarId"),
           U8("decimals"), U8("bump"),
           OneOf("sources", << <<readSource("primary"), readSource("secondary")>>,
                               <<readSource("primary")>> >>),
           U128("observedMultiplier"), U128("pendingMultiplier"),
           I64("pendingEffectiveTs"), U64("multiplierEpoch"), Bool("mintPaused"),
           OneOf("transferHook", << <<>>, <<Pubkey("some")>> >>),
           Within("primary", readObservation),
           OneOf("secondary", << <<>>, readObservation >>), I64("syncedTs"),
           Within("halt", readHalt), U32("maxPriceAge"), U32("maxConfBps"),
           U32("maxDivergenceBps"), U32("refusals"), U8("lastRefusalCode"),
           I64("lastRefusalTs") >>)

HandDecoded(kind, data) ==
    CASE kind = "Registry" -> decodeRegistry(data)
      [] kind = "MarketCalendar" -> decodeCalendar(data)
      [] kind = "SecurityState" -> decodeSecurityState(data)

parseEvents(data) ==
    IF HasDiscriminator(data, "Refused")
    THEN Reading(<<Pubkey("security"), U8("code"), I64("at")>>, Body(data))
    ELSE IF HasDiscriminator(data, "SecuritySynced")
    THEN Reading(<< Pubkey("security"), U128("multiplier"), U64("multiplierEpoch"),
                    I64("price"), I32("expo"), I64("publishTs"), I64("at") >>,
                 Body(data))
    ELSE <<>>

-----------------------------------------------------------------------------
(* What other programs write, and the readers of it *)

PriceUpdateV2 ==
    << Pubkey("writeAuthority"),
       OneOf("verificationLevel", << <<U8("numSignatures")>>, <<>> >>),
       Bytes("feedId", 32), I64("price"), U64("conf"), I32("exponent"),
       I64("publishTime"), I64("prevPublishTime"), I64("emaPrice"),
       U64("emaConf"), U64("postedSlot") >>

\* scripts/devnet/lib.ts: any level but 1 has a byte of its own.
decodePriceUpdateV2Script(data) ==
    Reading(<< Pubkey("writeAuthority"),
               OneOf("verificationLevel", << <<U8("numSignatures")>>, <<>> >>),
               Bytes("feedId", 32), I64("price"), U64("conf"), I32("exponent"),
               I64("publishTime"), I64("prevPublishTime"), I64("emaPrice"),
               U64("emaConf"), U64("postedSlot") >>, Body(data))

\* sdk/src/oracle.ts: offsets from the end of the verification level.
decodePriceUpdateV2(data) ==
    LET o == IF data[41] = Number(0) THEN 42 ELSE 41
    IN IF ~HasDiscriminator(data, "PriceUpdateV2") THEN Thrown("not a PriceUpdateV2")
       ELSE IF data[41] \notin {Number(0), Number(1)} THEN Thrown("unknown level")
       ELSE Picked(<< At(8, Pubkey("writeAuthority")), At(o, Bytes("feedId", 32)),
                     At(o + 32, I64("price")), At(o + 32 + 8, U64("conf")),
                     At(o + 32 + 16, I32("exponent")),
                     At(o + 32 + 20, I64("publishTime")),
                     At(o + 32 + 28, I64("prevPublishTime")),
                     At(o + 32 + 36, I64("emaPrice")), At(o + 32 + 44, U64("emaConf")),
                     At(o + 32 + 52, U64("postedSlot")) >>, data)

\* Scope's table of prices, with three entries for its 512.
SCOPE_MAX_ENTRIES == 3

DatedPrice ==
    << U64("value"), U64("exp"), U64("last_updated_slot"), U64("unix_timestamp"),
       Bytes("reserved", 24) >>

PriceEntries == [name |-> <<"prices">>, of |-> DatedPrice]

OraclePrices == <<Pubkey("oracle_mappings")>> \o Copies(PriceEntries, SCOPE_MAX_ENTRIES)

OraclePricesData ==
    Discriminator("OraclePrices") \o (CHOOSE w \in Writings(OraclePrices, {}) : TRUE)

\* oracle/scope.rs and sdk/src/oracle.ts, then keeper/src/scope-oracle.ts.
decodeScopeEntry(data, index) ==
    LET start == 40 + index * 56
    IN IF index >= SCOPE_MAX_ENTRIES \/ Len(data) < start + 32
       THEN Thrown("index out of range")
       ELSE Picked(<< At(start, U64("value")), At(start + 8, U64("exp")),
                     At(start + 24, U64("unix_timestamp")) >>, data)

decodeDatedPrice(data, index) ==
    LET offset == (8 + 32) + index * 56
    IN IF index >= SCOPE_MAX_ENTRIES \/ offset + 56 > Len(data) THEN <<>>
       ELSE Picked(<< At(offset, U64("value")), At(offset + 8, U64("exp")),
                     At(offset + 16, U64("last_updated_slot")),
                     At(offset + 24, U64("unix_timestamp")) >>, data)

-----------------------------------------------------------------------------
(* A Token-2022 mint: the mint itself, padded to the length of a token     *)
(* account, a byte for the kind of account, and its extensions in any      *)
(* order, each a type, a length and a value                                *)

ScaledUiAmountConfig ==
    << Pubkey("authority"), U64("multiplier"),
       I64("newMultiplierEffectiveTimestamp"), U64("newMultiplier") >>

Text(name, length) == Little(length, 4) \o Cells(<<name>>, length)

Flat(layout) == CHOOSE w \in Writings(layout, {}) : TRUE

ExtensionBytes ==
    [ScaledUiAmount |-> Flat(ScaledUiAmountConfig),
     TokenMetadata |-> Flat(<<Pubkey("updateAuthority"), Pubkey("mint")>>)
                         \o Text("name", 5) \o Text("symbol", 0) \o Text("uri", 3)
                         \o Little(0, 4),
     TransferHook |-> Flat(<<Pubkey("hookAuthority"), Pubkey("programId")>>),
     PausableConfig |-> Flat(<<Pubkey("pauseAuthority"), Bool("paused")>>)]

ExtensionType ==
    [TransferHook |-> 14, TokenMetadata |-> 19, ScaledUiAmount |-> 25,
     PausableConfig |-> 26]

Tlv(extension) ==
    Little(ExtensionType[extension], 2)
      \o Little(Len(ExtensionBytes[extension]), 2) \o ExtensionBytes[extension]

BaseMint ==
    Flat(<< U32("mintAuthorityTag"), Pubkey("mintAuthority"), U64("supply"),
            U8("decimals"), Bool("isInitialized"), Bytes("freezeAuthority", 36) >>)

\* A mint with these extensions, and with room at its end or without.
MintData(extensions, room) ==
    BaseMint \o Zeroes(165 - 82) \o <<Number(1)>>
      \o FlattenSeq([i \in DOMAIN extensions |-> Tlv(extensions[i])]) \o Zeroes(room)

\* keeper/src/token2022.ts
RECURSIVE TlvFrom(_, _)
TlvFrom(data, offset) ==
    IF offset + 4 > Len(data) THEN <<>>
    ELSE LET type == NumberIn(SubSeq(data, offset + 1, offset + 2))
             length == NumberIn(SubSeq(data, offset + 3, offset + 4))
             end == offset + 4 + length
         IN IF (type = 0 /\ length = 0) \/ end > Len(data) THEN <<>>
            ELSE << <<type, SubSeq(data, offset + 5, end)>> >> \o TlvFrom(data, end)

readTlvEntries(data) ==
    IF Len(data) <= 166 \/ data[166] # Number(1) THEN <<>> ELSE TlvFrom(data, 166)

decodeScaledUiAmountConfig(value) ==
    IF Len(value) < 56 THEN <<>>
    ELSE Picked(<< At(0, Pubkey("authority")), At(32, U64("multiplier")),
                   At(40, I64("newMultiplierEffectiveTimestamp")),
                   At(48, U64("newMultiplier")) >>, value)

RECURSIVE StringsFrom(_, _, _)
StringsFrom(value, offset, names) ==
    IF names = <<>> THEN <<>>
    ELSE IF offset + 4 > Len(value) THEN Thrown("null")
    ELSE LET length == NumberIn(SubSeq(value, offset + 1, offset + 4))
         IN IF length > Len(value) - (offset + 4) THEN Thrown("null")
            ELSE << << <<Head(names)>>,
                       SubSeq(value, offset + 5, offset + 4 + length) >> >>
                   \o StringsFrom(value, offset + 4 + length, Tail(names))

decodeTokenMetadata(value) == StringsFrom(value, 64, <<"name", "symbol", "uri">>)

\* The last entry of a type is the one that counts.
Extension(data, type) ==
    LET of == SelectSeq(readTlvEntries(data), LAMBDA entry : entry[1] = type)
    IN IF of = <<>> THEN <<>> ELSE of[Len(of)][2]

decodeMint(data) ==
    [base |-> Picked(<< At(4, Pubkey("mintAuthority")), At(36, U64("supply")),
                        At(44, U8("decimals")) >>, data),
     scaledUiAmount |-> decodeScaledUiAmountConfig(Extension(data, 25)),
     metadata |-> LET value == Extension(data, 19)
                  IN IF value = <<>> THEN <<>> ELSE decodeTokenMetadata(value)]

\* The instruction that changes the multiplier: two discriminants, the
\* multiplier and then the time, which the extension keeps the other way round.
UpdateMultiplierData ==
    <<Number(43), Number(1)>> \o Flat(<<U64("multiplier"), I64("effectiveTimestamp")>>)

decodeScaledUiAmountInstruction(data) ==
    IF Len(data) < 2 \/ data[1] # Number(43) THEN <<>>
    ELSE LET body == SubSeq(data, 3, Len(data))
         IN IF data[2] = Number(1) /\ Len(body) >= 16
            THEN Picked(<< At(0, U64("multiplier")),
                           At(8, I64("effectiveTimestamp")) >>, body)
            ELSE IF data[2] = Number(0) /\ Len(body) >= 40
            THEN Picked(<<At(0, Pubkey("authority")), At(32, U64("multiplier"))>>, body)
            ELSE <<>>

-----------------------------------------------------------------------------
(* Agreement *)

\* A reader that names some of the fields gives each the bytes written for it.
Own(fields) ==
    \A i \in DOMAIN fields :
        fields[i][2] = Cells(fields[i][1], Len(fields[i][2]))

\* lib.ts against sdk/src/generated: every account the program writes, whichever
\* sources and options it holds, is read by hand as it is by the generated
\* decoder, and an account created by the build before the audit is refused.
AccountsAgree ==
    /\ \A kind \in DOMAIN ACCOUNT_LEN :
          /\ ACCOUNT_LEN[kind] = 8 + InitSpace(Accounts[kind])
          /\ \A data \in AccountData(kind, Accounts[kind]) :
                HandDecoded(kind, data) = Reading(Accounts[kind], Body(data))
    /\ \A data \in AccountData("SecurityState", OldSecurityState) :
          Fails(decodeSecurityState(data))
    /\ \A data \in AccountData("MarketCalendar", OldMarketCalendar) :
          Fails(decodeCalendar(data))

\* client.ts:240 and 275: the filters find every series of an underlying and
\* every position of an owner among all accounts of the program, and no other.
ListsAgree ==
    LET chain == UNION {AccountData(kind, Accounts[kind]) : kind \in DOMAIN Accounts}
        OfKind(kind) == {data \in chain : identifyDeliverableAccount(data) = kind}
    IN /\ listSeries(chain, Cells(<<"underlyingMint">>, 32)) = OfKind("OptionSeries")
       /\ listWriterPositions(chain, Cells(<<"owner">>, 32)) = OfKind("WriterPosition")

\* lib.ts:623 against sdk/src/generated/events.
EventsAgree ==
    \A kind \in DOMAIN Events : \A data \in EventData(kind) :
        /\ identifyDeliverableEvent(data) = kind
        /\ parseEvents(data) = IF kind \in {"Refused", "SecuritySynced"}
                               THEN Reading(Events[kind], Body(data)) ELSE <<>>

\* The readers of prices: lib.ts and sdk/src/oracle.ts of one update, the SDK
\* and the keeper of one entry of Scope's table.
PricesAgree ==
    /\ \A w \in Writings(PriceUpdateV2, {}) :
          LET data == Discriminator("PriceUpdateV2") \o w
          IN /\ Own(decodePriceUpdateV2Script(data))
             /\ SetOf(decodePriceUpdateV2(data))
                  = {f \in SetOf(decodePriceUpdateV2Script(data)) :
                       f[1] # <<"verificationLevel", "numSignatures">>}
    /\ \A index \in 0 .. SCOPE_MAX_ENTRIES - 1 :
          LET entry == <<"prices", ToString(index + 1)>>
              Written(fields) ==
                  \A i \in DOMAIN fields :
                      fields[i][2] = Cells(entry \o fields[i][1], Len(fields[i][2]))
          IN /\ Written(decodeScopeEntry(OraclePricesData, index))
             /\ Written(decodeDatedPrice(OraclePricesData, index))
    /\ Fails(decodeScopeEntry(OraclePricesData, SCOPE_MAX_ENTRIES))
    /\ decodeDatedPrice(OraclePricesData, SCOPE_MAX_ENTRIES) = <<>>

\* token2022.ts: whatever the extensions of a mint and their order, the keeper
\* finds the multiplier and the name in them, and in an instruction.
MintsAgree ==
    /\ \A extensions \in SetToAllKPermutations(DOMAIN ExtensionBytes), room \in {0, 3, 9} :
          LET mint == decodeMint(MintData(extensions, room)) IN
          /\ Own(mint.base)
          /\ Own(mint.scaledUiAmount)
          /\ Own(mint.metadata)
          /\ (mint.scaledUiAmount # <<>>) = ("ScaledUiAmount" \in SetOf(extensions))
          /\ Len(mint.metadata) = IF "TokenMetadata" \in SetOf(extensions) THEN 3 ELSE 0
    /\ Own(decodeScaledUiAmountInstruction(UpdateMultiplierData))

HandDecodedIsGenerated ==
    AccountsAgree /\ ListsAgree /\ EventsAgree /\ PricesAgree /\ MintsAgree
=============================================================================
