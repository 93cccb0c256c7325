----------------------------- MODULE AgentProofs -----------------------------
(***************************************************************************)
(* Proofs about the writing agent, the SDK's instruction client and the    *)
(* account contexts of the program. The inductive invariant says what an   *)
(* address tells of the account at it, what a series that exists was made  *)
(* with, and that a size which is free fits what was seen; from it follow  *)
(* Agent's three properties, for every clock, calendar, ladder, multiplier *)
(* and number of passes.                                                   *)
(***************************************************************************)
EXTENDS Agent, SequenceTheorems, TLAPS

-----------------------------------------------------------------------------
(* Functions laid over one another *)

\* An overlay is defined where either of the two is.
LEMMA OverlayDomain == \A f, g : DOMAIN (f @@ g) = (DOMAIN f) \cup (DOMAIN g)
BY DEF @@

-----------------------------------------------------------------------------
(* Contexts and builders *)

\* The builder lists the accounts the context does, with its flags.
Agrees(op, roles) ==
    /\ DOMAIN roles = DOMAIN P!Contexts[op]
    /\ Len(roles) = Len(P!Contexts[op])
    /\ \A i \in DOMAIN roles :
          /\ roles[i].name = P!Contexts[op][i].name
          /\ roles[i].isSigner <=> P!Contexts[op][i].signer
          /\ roles[i].isWritable <=> P!Contexts[op][i].mut

\* Contexts is an overlay of five groups, none of which has a handler of another.
LEMMA ContextsAre ==
    /\ P!Contexts["createSeries"] = P!SeriesContexts.createSeries
    /\ P!Contexts["acknowledgeAdjustment"] = P!SeriesContexts.acknowledgeAdjustment
    /\ P!Contexts["write"] = P!WriteContexts.write
    /\ P!Contexts["openPosition"] = P!WriteContexts.openPosition
    /\ P!Contexts["claimPremium"] = P!WriteContexts.claimPremium
    /\ P!Contexts["exercise"] = P!SettleContexts.exercise
    /\ P!Contexts["settleExpired"] = P!SettleContexts.settleExpired
<1>1. /\ DOMAIN P!AdminContexts =
            {"initRegistry", "setRegistryPaused", "initCalendar",
             "appendCalendarEntries", "probeSession"}
      /\ DOMAIN P!SecurityContexts =
            {"registerSecurity", "syncSecurity", "attestHalt", "probeSecurity"}
      /\ DOMAIN P!SeriesContexts = {"createSeries", "acknowledgeAdjustment"}
      /\ DOMAIN P!WriteContexts = {"write", "openPosition", "claimPremium"}
      /\ DOMAIN P!SettleContexts = {"exercise", "settleExpired"}
  BY DEF P!AdminContexts, P!SecurityContexts, P!SeriesContexts, P!WriteContexts,
         P!SettleContexts
<1> QED BY <1>1 DEF P!Contexts, P!@@

\* instructions/createSeries.ts lists the accounts of create_series in order, with its flags.
LEMMA CreateSeriesAgrees ==
    /\ Agrees("createSeries", CreateSeriesInstruction)
    /\ DOMAIN CreateSeriesInstruction = 1..14
<1> DEFINE fields == P!SeriesContexts.createSeries
<1>1. DOMAIN CreateSeriesInstruction = 1..14 /\ Len(CreateSeriesInstruction) = 14
  BY DEF CreateSeriesInstruction
<1>2. DOMAIN fields = 1..14 /\ Len(fields) = 14
  BY DEF P!SeriesContexts
<1>3. \A i \in 1..14 : CreateSeriesInstruction[i].name = fields[i].name
  BY DEF CreateSeriesInstruction, P!SeriesContexts, P!MutSigner, P!Signer, P!Account,
         P!MutAccount, P!InitAccount, P!Unchecked, P!Field, WS, RS, W, R, Role
<1>4. \A i \in 1..14 : CreateSeriesInstruction[i].isSigner <=> fields[i].signer
  BY DEF CreateSeriesInstruction, P!SeriesContexts, P!MutSigner, P!Signer, P!Account,
         P!MutAccount, P!InitAccount, P!Unchecked, P!Field, WS, RS, W, R, Role
<1>6. \A i \in 1..14 : CreateSeriesInstruction[i].isWritable <=> fields[i].mut
  BY DEF CreateSeriesInstruction, P!SeriesContexts, P!MutSigner, P!Signer, P!Account,
         P!MutAccount, P!InitAccount, P!Unchecked, P!Field, WS, RS, W, R, Role
<1>5. P!Contexts["createSeries"] = fields
  BY ContextsAre
<1> HIDE DEF fields
<1> QED BY <1>1, <1>2, <1>3, <1>4, <1>5, <1>6 DEF Agrees

\* instructions/acknowledgeAdjustment.ts lists the accounts of acknowledge_adjustment in order, with its flags.
LEMMA AcknowledgeAdjustmentAgrees ==
    /\ Agrees("acknowledgeAdjustment", AcknowledgeAdjustmentInstruction)
    /\ DOMAIN AcknowledgeAdjustmentInstruction = 1..2
<1> DEFINE fields == P!SeriesContexts.acknowledgeAdjustment
<1>1. DOMAIN AcknowledgeAdjustmentInstruction = 1..2 /\ Len(AcknowledgeAdjustmentInstruction) = 2
  BY DEF AcknowledgeAdjustmentInstruction
<1>2. DOMAIN fields = 1..2 /\ Len(fields) = 2
  BY DEF P!SeriesContexts
<1>3. \A i \in 1..2 : AcknowledgeAdjustmentInstruction[i].name = fields[i].name
  BY DEF AcknowledgeAdjustmentInstruction, P!SeriesContexts, P!MutSigner, P!Signer, P!Account,
         P!MutAccount, P!InitAccount, P!Unchecked, P!Field, WS, RS, W, R, Role
<1>4. \A i \in 1..2 : AcknowledgeAdjustmentInstruction[i].isSigner <=> fields[i].signer
  BY DEF AcknowledgeAdjustmentInstruction, P!SeriesContexts, P!MutSigner, P!Signer, P!Account,
         P!MutAccount, P!InitAccount, P!Unchecked, P!Field, WS, RS, W, R, Role
<1>6. \A i \in 1..2 : AcknowledgeAdjustmentInstruction[i].isWritable <=> fields[i].mut
  BY DEF AcknowledgeAdjustmentInstruction, P!SeriesContexts, P!MutSigner, P!Signer, P!Account,
         P!MutAccount, P!InitAccount, P!Unchecked, P!Field, WS, RS, W, R, Role
<1>5. P!Contexts["acknowledgeAdjustment"] = fields
  BY ContextsAre
<1> HIDE DEF fields
<1> QED BY <1>1, <1>2, <1>3, <1>4, <1>5, <1>6 DEF Agrees

\* instructions/write.ts lists the accounts of write in order, with its flags.
LEMMA WriteAgrees ==
    /\ Agrees("write", WriteInstruction)
    /\ DOMAIN WriteInstruction = 1..15
<1> DEFINE fields == P!WriteContexts.write
<1>1. DOMAIN WriteInstruction = 1..15 /\ Len(WriteInstruction) = 15
  BY DEF WriteInstruction
<1>2. DOMAIN fields = 1..15 /\ Len(fields) = 15
  BY DEF P!WriteContexts
<1>3. \A i \in 1..15 : WriteInstruction[i].name = fields[i].name
  BY DEF WriteInstruction, P!WriteContexts, P!MutSigner, P!Signer, P!Account,
         P!MutAccount, P!InitAccount, P!Unchecked, P!Field, WS, RS, W, R, Role
<1>4. \A i \in 1..15 : WriteInstruction[i].isSigner <=> fields[i].signer
  BY DEF WriteInstruction, P!WriteContexts, P!MutSigner, P!Signer, P!Account,
         P!MutAccount, P!InitAccount, P!Unchecked, P!Field, WS, RS, W, R, Role
<1>6. \A i \in 1..15 : WriteInstruction[i].isWritable <=> fields[i].mut
  BY DEF WriteInstruction, P!WriteContexts, P!MutSigner, P!Signer, P!Account,
         P!MutAccount, P!InitAccount, P!Unchecked, P!Field, WS, RS, W, R, Role
<1>5. P!Contexts["write"] = fields
  BY ContextsAre
<1> HIDE DEF fields
<1> QED BY <1>1, <1>2, <1>3, <1>4, <1>5, <1>6 DEF Agrees

\* instructions/openPosition.ts lists the accounts of open_position in order, with its flags.
LEMMA OpenPositionAgrees ==
    /\ Agrees("openPosition", OpenPositionInstruction)
    /\ DOMAIN OpenPositionInstruction = 1..4
<1> DEFINE fields == P!WriteContexts.openPosition
<1>1. DOMAIN OpenPositionInstruction = 1..4 /\ Len(OpenPositionInstruction) = 4
  BY DEF OpenPositionInstruction
<1>2. DOMAIN fields = 1..4 /\ Len(fields) = 4
  BY DEF P!WriteContexts
<1>3. \A i \in 1..4 : OpenPositionInstruction[i].name = fields[i].name
  BY DEF OpenPositionInstruction, P!WriteContexts, P!MutSigner, P!Signer, P!Account,
         P!MutAccount, P!InitAccount, P!Unchecked, P!Field, WS, RS, W, R, Role
<1>4. \A i \in 1..4 : OpenPositionInstruction[i].isSigner <=> fields[i].signer
  BY DEF OpenPositionInstruction, P!WriteContexts, P!MutSigner, P!Signer, P!Account,
         P!MutAccount, P!InitAccount, P!Unchecked, P!Field, WS, RS, W, R, Role
<1>6. \A i \in 1..4 : OpenPositionInstruction[i].isWritable <=> fields[i].mut
  BY DEF OpenPositionInstruction, P!WriteContexts, P!MutSigner, P!Signer, P!Account,
         P!MutAccount, P!InitAccount, P!Unchecked, P!Field, WS, RS, W, R, Role
<1>5. P!Contexts["openPosition"] = fields
  BY ContextsAre
<1> HIDE DEF fields
<1> QED BY <1>1, <1>2, <1>3, <1>4, <1>5, <1>6 DEF Agrees

\* instructions/claimPremium.ts lists the accounts of claim_premium in order, with its flags.
LEMMA ClaimPremiumAgrees ==
    /\ Agrees("claimPremium", ClaimPremiumInstruction)
    /\ DOMAIN ClaimPremiumInstruction = 1..12
<1> DEFINE fields == P!WriteContexts.claimPremium
<1>1. DOMAIN ClaimPremiumInstruction = 1..12 /\ Len(ClaimPremiumInstruction) = 12
  BY DEF ClaimPremiumInstruction
<1>2. DOMAIN fields = 1..12 /\ Len(fields) = 12
  BY DEF P!WriteContexts
<1>3. \A i \in 1..12 : ClaimPremiumInstruction[i].name = fields[i].name
  BY DEF ClaimPremiumInstruction, P!WriteContexts, P!MutSigner, P!Signer, P!Account,
         P!MutAccount, P!InitAccount, P!Unchecked, P!Field, WS, RS, W, R, Role
<1>4. \A i \in 1..12 : ClaimPremiumInstruction[i].isSigner <=> fields[i].signer
  BY DEF ClaimPremiumInstruction, P!WriteContexts, P!MutSigner, P!Signer, P!Account,
         P!MutAccount, P!InitAccount, P!Unchecked, P!Field, WS, RS, W, R, Role
<1>6. \A i \in 1..12 : ClaimPremiumInstruction[i].isWritable <=> fields[i].mut
  BY DEF ClaimPremiumInstruction, P!WriteContexts, P!MutSigner, P!Signer, P!Account,
         P!MutAccount, P!InitAccount, P!Unchecked, P!Field, WS, RS, W, R, Role
<1>5. P!Contexts["claimPremium"] = fields
  BY ContextsAre
<1> HIDE DEF fields
<1> QED BY <1>1, <1>2, <1>3, <1>4, <1>5, <1>6 DEF Agrees

\* instructions/exercise.ts lists the accounts of exercise in order, with its flags.
LEMMA ExerciseAgrees ==
    /\ Agrees("exercise", ExerciseInstruction)
    /\ DOMAIN ExerciseInstruction = 1..17
<1> DEFINE fields == P!SettleContexts.exercise
<1>1. DOMAIN ExerciseInstruction = 1..17 /\ Len(ExerciseInstruction) = 17
  BY DEF ExerciseInstruction
<1>2. DOMAIN fields = 1..17 /\ Len(fields) = 17
  BY DEF P!SettleContexts
<1>3. \A i \in 1..17 : ExerciseInstruction[i].name = fields[i].name
  BY DEF ExerciseInstruction, P!SettleContexts, P!MutSigner, P!Signer, P!Account,
         P!MutAccount, P!InitAccount, P!Unchecked, P!Field, WS, RS, W, R, Role
<1>4. \A i \in 1..17 : ExerciseInstruction[i].isSigner <=> fields[i].signer
  BY DEF ExerciseInstruction, P!SettleContexts, P!MutSigner, P!Signer, P!Account,
         P!MutAccount, P!InitAccount, P!Unchecked, P!Field, WS, RS, W, R, Role
<1>6. \A i \in 1..17 : ExerciseInstruction[i].isWritable <=> fields[i].mut
  BY DEF ExerciseInstruction, P!SettleContexts, P!MutSigner, P!Signer, P!Account,
         P!MutAccount, P!InitAccount, P!Unchecked, P!Field, WS, RS, W, R, Role
<1>5. P!Contexts["exercise"] = fields
  BY ContextsAre
<1> HIDE DEF fields
<1> QED BY <1>1, <1>2, <1>3, <1>4, <1>5, <1>6 DEF Agrees

\* instructions/settleExpired.ts lists the accounts of settle_expired in order, with its flags.
LEMMA SettleExpiredAgrees ==
    /\ Agrees("settleExpired", SettleExpiredInstruction)
    /\ DOMAIN SettleExpiredInstruction = 1..13
<1> DEFINE fields == P!SettleContexts.settleExpired
<1>1. DOMAIN SettleExpiredInstruction = 1..13 /\ Len(SettleExpiredInstruction) = 13
  BY DEF SettleExpiredInstruction
<1>2. DOMAIN fields = 1..13 /\ Len(fields) = 13
  BY DEF P!SettleContexts
<1>3. \A i \in 1..13 : SettleExpiredInstruction[i].name = fields[i].name
  BY DEF SettleExpiredInstruction, P!SettleContexts, P!MutSigner, P!Signer, P!Account,
         P!MutAccount, P!InitAccount, P!Unchecked, P!Field, WS, RS, W, R, Role
<1>4. \A i \in 1..13 : SettleExpiredInstruction[i].isSigner <=> fields[i].signer
  BY DEF SettleExpiredInstruction, P!SettleContexts, P!MutSigner, P!Signer, P!Account,
         P!MutAccount, P!InitAccount, P!Unchecked, P!Field, WS, RS, W, R, Role
<1>6. \A i \in 1..13 : SettleExpiredInstruction[i].isWritable <=> fields[i].mut
  BY DEF SettleExpiredInstruction, P!SettleContexts, P!MutSigner, P!Signer, P!Account,
         P!MutAccount, P!InitAccount, P!Unchecked, P!Field, WS, RS, W, R, Role
<1>5. P!Contexts["settleExpired"] = fields
  BY ContextsAre
<1> HIDE DEF fields
<1> QED BY <1>1, <1>2, <1>3, <1>4, <1>5, <1>6 DEF Agrees

\* The part of an input that is about accounts.
NamedBy(roles, input) == [n \in {roles[i].name : i \in DOMAIN roles} |-> input[n]]

\* Every account the instruction has is among the given names.
Covers(given, roles) == \A i \in DOMAIN roles : roles[i].name \in DOMAIN given

\* The program finds under each name the account the client put in for it.
LEMMA BoundOfBuilt ==
    ASSUME NEW op, NEW roles, NEW discriminator, NEW args, NEW input,
           Agrees(op, roles), Covers(input, roles)
    PROVE  P!Bound(op, Assembled(discriminator, roles, args, input)) = NamedBy(roles, input)
<1> DEFINE ix == Assembled(discriminator, roles, args, input)
           fields == P!Contexts[op]
           at(n) == CHOOSE i \in DOMAIN fields : fields[i].name = n
<1>1. {fields[i].name : i \in DOMAIN fields} = {roles[i].name : i \in DOMAIN roles}
  BY DEF Agrees
<1>2. ASSUME NEW n \in {fields[i].name : i \in DOMAIN fields}
      PROVE  ix.accounts[at(n)].address = input[n]
  <2>1. \E i \in DOMAIN fields : fields[i].name = n
    OBVIOUS
  <2>2. at(n) \in DOMAIN fields /\ fields[at(n)].name = n
    BY <2>1
  <2>3. at(n) \in DOMAIN roles /\ roles[at(n)].name = n
    BY <2>2 DEF Agrees
  <2>4. \A i \in DOMAIN roles : ix.accounts[i].address = input[roles[i].name]
    BY DEF Assembled, getAccountMeta, Covers
  <2> HIDE DEF at, ix
  <2> QED BY <2>3, <2>4
<1>3. P!Bound(op, ix) = [n \in {fields[i].name : i \in DOMAIN fields} |->
                           ix.accounts[at(n)].address]
  BY DEF P!Bound
<1> HIDE DEF at, ix, fields
<1>4. P!Bound(op, ix) = [n \in {fields[i].name : i \in DOMAIN fields} |-> input[n]]
  BY <1>2, <1>3
<1> QED BY <1>1, <1>4 DEF ix, NamedBy
-----------------------------------------------------------------------------
(* The inductive invariant *)

SeriesFields ==
    {"type", "underlying_mint", "quote_mint", "expiry_ts", "strike0",
     "contract_raw_size", "settlement_window_minutes", "kind", "adjust",
     "security", "contracts_written"}

SECURITY == findSecurityPda(UNDERLYING)

\* The accounts that are there from the first state on.
Grounds(c) ==
    /\ P!Exists(c, SYSTEM_PROGRAM, "Program")
    /\ P!Exists(c, TOKEN_PROGRAM_ADDRESS, "Program")
    /\ P!Exists(c, TOKEN_2022_PROGRAM_ADDRESS, "Program")
    /\ P!Exists(c, UNDERLYING, "Mint") /\ P!Exists(c, DEFAULT_QUOTE_MINT, "Mint")
    /\ P!Exists(c, findRegistryPda, "Registry")
    /\ P!Exists(c, findCalendarPda(CalendarId), "MarketCalendar")
    /\ "id" \in DOMAIN c[findCalendarPda(CalendarId)]
    /\ c[findCalendarPda(CalendarId)].id = CalendarId
    /\ {findAssociatedTokenPda(WRITER, UNDERLYING),
        findAssociatedTokenPda(WRITER, DEFAULT_QUOTE_MINT)} \subseteq DOMAIN c

\* A token account holds a number of raw units.
TokenAccountOK(account) ==
    account.type = "TokenAccount" =>
        /\ {"mint", "owner", "amount"} \subseteq DOMAIN account
        /\ account.amount \in Nat

\* A series stands where its terms put it, and what was made with it is there.
SeriesOK(c, a) ==
    c[a].type = "OptionSeries" =>
        /\ SeriesFields \subseteq DOMAIN c[a]
        /\ a = P!SeriesSeeds(c[a])
        /\ c[a].contract_raw_size \in Nat
        /\ c[a].underlying_mint = UNDERLYING
        /\ c[a].quote_mint = DEFAULT_QUOTE_MINT
        /\ c[a].security = SECURITY
        /\ SECURITY \in DOMAIN c
        /\ P!Exists(c, findOptionMintPda(a), "Mint")
        /\ P!Exists(c, findCollateralVaultPda(a), "TokenAccount")
        /\ P!Exists(c, findPremiumVaultPda(a), "TokenAccount")
        /\ P!Exists(c, findQuoteVaultPda(a), "TokenAccount")

\* What an address says of the account at it.
PlaceOK(a, account) ==
    /\ a[1] = "ata" =>
          /\ account.type = "TokenAccount"
          /\ account.owner = a[2] /\ account.mint = a[3]
    /\ a[1] = "writer" => account.type = "WriterPosition"
    /\ a[1] = "security" =>
          /\ account.type = "SecurityState"
          /\ "calendar_id" \in DOMAIN account
          /\ account.calendar_id = CalendarId

ChainOK(c) ==
    /\ Grounds(c)
    /\ \A a \in DOMAIN c :
          /\ "type" \in DOMAIN c[a]
          /\ TokenAccountOK(c[a])
          /\ SeriesOK(c, a)
          /\ PlaceOK(a, c[a])

ScaledOK ==
    /\ scaled.multiplier \in Nat \ {0}
    /\ scaled.newMultiplier \in Nat \ {0}

RunFields ==
    {"pc", "at", "verdict", "priced", "writer", "assume", "multiplier", "open",
     "free", "seen"}

\* A size that is free was worked out of what was seen.
SeenOK(free, multiplier, seen) ==
    \/ seen = None
    \/ /\ seen[1] \in Nat /\ seen[2] \in BOOLEAN
       /\ seen[2] => free * (ContractSize * SCALE) <= seen[1] * multiplier

RunOK ==
    \/ run = Idle
    \/ /\ DOMAIN run = RunFields
       /\ run.pc \in {"mint", "series", "balance", "plan"}
       /\ run.at \in Nat /\ run.writer \in BOOLEAN /\ run.free \in Nat
       /\ run.pc # "mint" => run.multiplier \in Nat \ {0}
       /\ run.pc # "plan" => run.seen = None
       /\ SeenOK(run.free, run.multiplier, run.seen)

\* What a compiled proposal may ask of the program.
InstructionOK(ix) ==
    \/ /\ ix.discriminator = 181
       /\ P!Bound("createSeries", ix).underlyingMint = UNDERLYING
       /\ P!Bound("createSeries", ix).quoteMint = DEFAULT_QUOTE_MINT
       /\ ix.data[4] \in Nat
    \/ /\ ix.discriminator = 235
       /\ ix.data[1] \in Nat

ProposalFields ==
    {"kind", "rung", "ix", "at", "need", "seen", "compiled", "status", "why"}

ProposalOK(p) ==
    /\ DOMAIN p = ProposalFields
    /\ p.rung.expiryTs \in SdkSessions /\ p.rung.expiryTs > p.at
    /\ p.status \in {"open", "landed", "refused", "lapsed"}
    /\ (p.kind = "write" /\ p.seen # None /\ p.seen[2]) => p.need <= p.seen[1]
    /\ p.compiled => InstructionOK(p.ix)

DeskOK ==
    /\ \E S : desk \in Seq(S)
    /\ \A i \in DOMAIN desk : ProposalOK(desk[i])

IInv ==
    /\ ChainOK(chain) /\ ScaledOK /\ RunOK /\ DeskOK
    /\ now \in Nat

-----------------------------------------------------------------------------
(* The chain *)

\* What a handler changes in an account that is there.
Mutable == {"amount", "contracts", "contracts_written", "paused"}

Kept(c, d) ==
    /\ DOMAIN c \subseteq DOMAIN d
    /\ \A a \in DOMAIN c :
          /\ DOMAIN d[a] = DOMAIN c[a]
          /\ \A f \in DOMAIN c[a] : f \notin Mutable => d[a][f] = c[a][f]
          /\ c[a].type = "TokenAccount" => d[a].amount \in Nat

\* An account that is kept keeps its type.
LEMMA KeptType ==
    ASSUME NEW c, NEW d, ChainOK(c), Kept(c, d), NEW a \in DOMAIN c
    PROVE  a \in DOMAIN d /\ "type" \in DOMAIN d[a] /\ d[a].type = c[a].type
BY DEF ChainOK, Kept, Mutable

\* What an instruction could count on, it can count on afterwards.
LEMMA KeptExists ==
    ASSUME NEW c, NEW d, ChainOK(c), Kept(c, d), NEW a, NEW t, P!Exists(c, a, t)
    PROVE  P!Exists(d, a, t)
BY KeptType DEF P!Exists

\* The accounts of the first state stay.
LEMMA KeptGrounds ==
    ASSUME NEW c, NEW d, ChainOK(c), Kept(c, d)
    PROVE  Grounds(d)
<1> DEFINE cal == findCalendarPda(CalendarId)
<1>1. cal \in DOMAIN c /\ "id" \in DOMAIN c[cal] /\ c[cal].id = CalendarId
  BY DEF ChainOK, Grounds, P!Exists
<1>2. "id" \in DOMAIN d[cal] /\ d[cal].id = CalendarId
  BY <1>1 DEF Kept, Mutable
<1>3. DOMAIN c \subseteq DOMAIN d
  BY DEF Kept
<1> QED BY <1>2, <1>3, KeptExists DEF ChainOK, Grounds

\* A kept account says of itself and of its address what it said.
LEMMA KeptAccount ==
    ASSUME NEW c, NEW d, ChainOK(c), Kept(c, d), NEW a \in DOMAIN c
    PROVE  TokenAccountOK(d[a]) /\ SeriesOK(d, a) /\ PlaceOK(a, d[a])
<1>1. d[a].type = c[a].type
  BY KeptType
<1>2. /\ DOMAIN d[a] = DOMAIN c[a]
      /\ \A f \in DOMAIN c[a] : f \notin Mutable => d[a][f] = c[a][f]
      /\ c[a].type = "TokenAccount" => d[a].amount \in Nat
  BY DEF Kept
<1>3. TokenAccountOK(c[a]) /\ SeriesOK(c, a) /\ PlaceOK(a, c[a])
  BY DEF ChainOK
<1>4. TokenAccountOK(d[a])
  BY <1>1, <1>2, <1>3 DEF TokenAccountOK
<1>5. SeriesOK(d, a)
  <2> SUFFICES ASSUME c[a].type = "OptionSeries"
               PROVE  SeriesOK(d, a)
    BY <1>1 DEF SeriesOK
  <2>1. \A f \in SeriesFields \ {"contracts_written"} : d[a][f] = c[a][f]
    BY <1>2, <1>3 DEF SeriesOK, SeriesFields, Mutable
  <2>2. P!SeriesSeeds(d[a]) = P!SeriesSeeds(c[a])
    BY <2>1 DEF P!SeriesSeeds, SeriesFields
  <2>3. /\ d[a].contract_raw_size = c[a].contract_raw_size
        /\ d[a].underlying_mint = c[a].underlying_mint
        /\ d[a].quote_mint = c[a].quote_mint
        /\ d[a].security = c[a].security
    BY <2>1 DEF SeriesFields
  <2>4. DOMAIN c \subseteq DOMAIN d
    BY DEF Kept
  <2> QED BY <1>1, <1>2, <1>3, <2>2, <2>3, <2>4, KeptExists DEF SeriesOK
<1>6. PlaceOK(a, d[a])
  <2>1. a[1] = "ata" => d[a].owner = c[a].owner /\ d[a].mint = c[a].mint
    BY <1>2, <1>3 DEF PlaceOK, TokenAccountOK, Mutable
  <2>2. a[1] = "security" => "calendar_id" \in DOMAIN d[a] /\ d[a].calendar_id = c[a].calendar_id
    BY <1>2, <1>3 DEF PlaceOK, Mutable
  <2> QED BY <1>1, <1>3, <2>1, <2>2 DEF PlaceOK
<1> QED BY <1>4, <1>5, <1>6

\* One field of one account is written.
Written(c, k, f, x) == [c EXCEPT ![k] = [c[k] EXCEPT ![f] = x]]

\* Writing an amount, a count or a flag leaves the chain sound.
LEMMA FieldWritten ==
    ASSUME NEW c, ChainOK(c), NEW k \in DOMAIN c, NEW f \in Mutable, NEW x,
           f = "amount" => x \in Nat,
           NEW d, d = Written(c, k, f, x)
    PROVE  ChainOK(d) /\ Kept(c, d) /\ DOMAIN d = DOMAIN c
<1>1. DOMAIN d = DOMAIN c
  BY DEF Written
<1>2. \A a \in DOMAIN c : a # k => d[a] = c[a]
  BY DEF Written
<1>3. /\ DOMAIN d[k] = DOMAIN c[k]
      /\ \A g \in DOMAIN c[k] : d[k][g] = IF g = f THEN x ELSE c[k][g]
  BY DEF Written
<1>4. \A a \in DOMAIN c : c[a].type = "TokenAccount" =>
         "amount" \in DOMAIN c[a] /\ c[a].amount \in Nat
  BY DEF ChainOK, TokenAccountOK
<1>5. c[k].type = "TokenAccount" => d[k].amount \in Nat
  BY <1>3, <1>4
<1>6. Kept(c, d)
  <2> SUFFICES ASSUME NEW a \in DOMAIN c
               PROVE  /\ DOMAIN d[a] = DOMAIN c[a]
                      /\ \A g \in DOMAIN c[a] : g \notin Mutable => d[a][g] = c[a][g]
                      /\ c[a].type = "TokenAccount" => d[a].amount \in Nat
    BY <1>1 DEF Kept
  <2>1. CASE a # k
    BY <2>1, <1>2, <1>4
  <2>2. CASE a = k
    BY <2>2, <1>3, <1>5
  <2> QED BY <2>1, <2>2
<1>7. ChainOK(d)
  BY <1>1, <1>6, KeptType, KeptGrounds, KeptAccount DEF ChainOK
<1> QED BY <1>1, <1>6, <1>7

\* An account is made where there was none.
Made(c, k, account, d) ==
    /\ DOMAIN d = {k} \cup DOMAIN c
    /\ d[k] = account
    /\ \A a \in DOMAIN c : d[a] = c[a]

\* Making an account at a free address leaves the chain sound, if the
\* address and the account agree.
LEMMA AccountMade ==
    ASSUME NEW c, ChainOK(c), NEW k, k \notin DOMAIN c, NEW account, NEW d,
           Made(c, k, account, d), "type" \in DOMAIN account,
           TokenAccountOK(account), account.type # "OptionSeries", PlaceOK(k, account)
    PROVE  ChainOK(d)
<1>1. \A a \in DOMAIN c : c[a].type = "TokenAccount" => c[a].amount \in Nat
  BY DEF ChainOK, TokenAccountOK
<1>2. Kept(c, d)
  BY <1>1 DEF Kept, Made
<1>3. \A a \in DOMAIN c : "type" \in DOMAIN d[a] /\ TokenAccountOK(d[a])
                              /\ SeriesOK(d, a) /\ PlaceOK(a, d[a])
  BY <1>2, KeptType, KeptAccount
<1>4. "type" \in DOMAIN d[k] /\ TokenAccountOK(d[k]) /\ SeriesOK(d, k) /\ PlaceOK(k, d[k])
  BY DEF SeriesOK, Made
<1>5. Grounds(d)
  BY <1>2, KeptGrounds
<1> QED BY <1>3, <1>4, <1>5 DEF ChainOK, Made

-----------------------------------------------------------------------------
(* What the program takes, and what it leaves *)

\* Three discriminators the agent and the writer send are dispatched to their
\* handlers.
LEMMA HandlerOf ==
    ASSUME NEW ix
    PROVE  /\ ix.discriminator = 181 => P!Handles(ix) # {} /\ P!Handler(ix) = "createSeries"
           /\ ix.discriminator = 235 => P!Handles(ix) # {} /\ P!Handler(ix) = "write"
           /\ ix.discriminator = 135 => P!Handles(ix) # {} /\ P!Handler(ix) = "openPosition"
<1>1. ix.discriminator = 181 => P!Handles(ix) = {"createSeries"}
  BY DEF P!Handles, P!Dispatch
<1>2. ix.discriminator = 235 => P!Handles(ix) = {"write"}
  BY DEF P!Handles, P!Dispatch
<1>3. ix.discriminator = 135 => P!Handles(ix) = {"openPosition"}
  BY DEF P!Handles, P!Dispatch
<1> QED BY <1>1, <1>2, <1>3 DEF P!Handler

\* An instruction nobody complains of passed the three stages of checks.
LEMMA Accepted ==
    ASSUME NEW c, NEW world, NEW ix, P!Handles(ix) # {}, P!Complaints(c, world, ix) = {}
    PROVE  /\ P!AccountComplaints(c, P!Handler(ix), ix) = {}
           /\ P!ConstraintComplaints(c, P!Handler(ix), ix) = {}
           /\ P!HandlerComplaints(c, world, P!Handler(ix), ix) = {}
BY DEF P!Complaints

\* A field of an accepted instruction is free if it is to be made, and an
\* account of its type otherwise.
LEMMA AcceptedAccounts ==
    ASSUME NEW c, NEW op, NEW ix, P!AccountComplaints(c, op, ix) = {},
           NEW i \in DOMAIN P!Contexts[op]
    PROVE  LET field == P!Contexts[op][i]
               address == ix.accounts[i].address
           IN  /\ field.init => address \notin DOMAIN c
               /\ ~field.init /\ field.type # "Any" => P!Exists(c, address, field.type)
BY DEF P!AccountComplaints

\* Anchor binds a field by its position in the context.
LEMMA BoundField ==
    ASSUME NEW op, NEW ix, NEW n \in {P!Contexts[op][i].name : i \in DOMAIN P!Contexts[op]}
    PROVE  /\ n \in DOMAIN P!Bound(op, ix)
           /\ \E i \in DOMAIN P!Contexts[op] :
                 /\ P!Contexts[op][i].name = n
                 /\ P!Bound(op, ix)[n] = ix.accounts[i].address
<1> DEFINE at == CHOOSE i \in DOMAIN P!Contexts[op] : P!Contexts[op][i].name = n
<1>1. at \in DOMAIN P!Contexts[op] /\ P!Contexts[op][at].name = n
  OBVIOUS
<1>2. P!Bound(op, ix)[n] = ix.accounts[at].address /\ n \in DOMAIN P!Bound(op, ix)
  BY DEF P!Bound
<1> QED BY <1>1, <1>2

\* A field of an accepted instruction is at the address its seeds derive.
LEMMA AcceptedPins ==
    ASSUME NEW c, NEW op, NEW ix, P!ConstraintComplaints(c, op, ix) = {},
           NEW n \in DOMAIN P!Bound(op, ix)
    PROVE  P!Bound(op, ix)[n] = P!Pinned(c, op, P!Bound(op, ix), ix, n)
<1>1. "seeds" \notin P!ConstraintComplaints(c, op, ix)
  OBVIOUS
<1> QED BY <1>1 DEF P!ConstraintComplaints

\* The accounts of a write, and the type the context gives each.
LEMMA WriteContext ==
    LET fields == P!Contexts["write"]
        types == [series |-> "OptionSeries", position |-> "WriterPosition",
                  writerUnderlying |-> "TokenAccount", collateralVault |-> "TokenAccount",
                  writerOption |-> "TokenAccount"]
    IN  /\ DOMAIN types \subseteq {fields[i].name : i \in DOMAIN fields}
        /\ \A n \in DOMAIN types, i \in DOMAIN fields :
              fields[i].name = n => ~fields[i].init /\ fields[i].type = types[n]
<1> DEFINE fields == P!WriteContexts.write
           types == [series |-> "OptionSeries", position |-> "WriterPosition",
                  writerUnderlying |-> "TokenAccount", collateralVault |-> "TokenAccount",
                  writerOption |-> "TokenAccount"]
<1> USE DEF P!WriteContexts, P!MutSigner, P!Signer, P!Account,
         P!MutAccount, P!InitAccount, P!Unchecked, P!Field
<1>1. DOMAIN fields = 1..15
  OBVIOUS
<1>2. /\ fields[5].name = "series" /\ fields[9].name = "collateralVault"
      /\ fields[10].name = "writerUnderlying" /\ fields[11].name = "writerOption"
      /\ fields[12].name = "position"
  OBVIOUS
<1>3. \A i \in 1..15 : fields[i].name \in DOMAIN types => ~fields[i].init
  OBVIOUS
<1>4. \A i \in 1..15 : fields[i].name \in DOMAIN types => fields[i].type = types[fields[i].name]
  OBVIOUS
<1>5. DOMAIN types \subseteq {fields[i].name : i \in DOMAIN fields}
  <2> HIDE DEF fields
  <2> QED BY <1>1, <1>2
<1> HIDE DEF fields, types
<1>6. P!Contexts["write"] = fields
  BY ContextsAre DEF fields
<1> QED BY <1>1, <1>3, <1>4, <1>5, <1>6 DEF types

\* The five accounts a write changes are there.
LEMMA WriteAccounts ==
    ASSUME NEW c, NEW ix, P!AccountComplaints(c, "write", ix) = {}
    PROVE  LET a == P!Bound("write", ix)
           IN  /\ P!Exists(c, a.series, "OptionSeries")
               /\ P!Exists(c, a.position, "WriterPosition")
               /\ P!Exists(c, a.writerUnderlying, "TokenAccount")
               /\ P!Exists(c, a.collateralVault, "TokenAccount")
               /\ P!Exists(c, a.writerOption, "TokenAccount")
<1> DEFINE types == [series |-> "OptionSeries", position |-> "WriterPosition",
                  writerUnderlying |-> "TokenAccount", collateralVault |-> "TokenAccount",
                  writerOption |-> "TokenAccount"]
           a == P!Bound("write", ix)
<1>1. \A n \in DOMAIN types : P!Exists(c, a[n], types[n])
  <2> TAKE n \in DOMAIN types
  <2>1. PICK i \in DOMAIN P!Contexts["write"] :
              P!Contexts["write"][i].name = n /\ a[n] = ix.accounts[i].address
    BY WriteContext, BoundField
  <2>2. ~P!Contexts["write"][i].init /\ P!Contexts["write"][i].type = types[n]
    BY <2>1, WriteContext
  <2>3. types[n] # "Any"
    OBVIOUS
  <2> QED BY <2>1, <2>2, <2>3, AcceptedAccounts
<1> QED BY <1>1

\* A write moves what the writer has, and leaves every account one.
LEMMA WriteKeeps ==
    ASSUME NEW c, NEW world, NEW ix, ChainOK(c), ix.discriminator = 235,
           ix.data[1] \in Nat, P!Complaints(c, world, ix) = {}
    PROVE  ChainOK(P!Effect(c, world, ix))
<1> DEFINE a == P!Bound("write", ix)
           contracts == ix.data[1]
           raw == contracts * c[a.series].contract_raw_size
           c1 == [c EXCEPT ![a.writerUnderlying].amount = @ - raw]
           c2 == [c1 EXCEPT ![a.collateralVault].amount = @ + raw]
           c3 == [c2 EXCEPT ![a.writerOption].amount = @ + contracts]
           c4 == [c3 EXCEPT ![a.series].contracts_written = @ + contracts]
           c5 == [c4 EXCEPT ![a.position].contracts = @ + contracts]
<1>1. P!Handler(ix) = "write" /\ P!Handles(ix) # {}
  BY HandlerOf
<1>2. /\ P!AccountComplaints(c, "write", ix) = {}
      /\ P!HandlerComplaints(c, world, "write", ix) = {}
  BY <1>1, Accepted
<1>3. P!Effect(c, world, ix) = P!write(c, a, ix)
  BY <1>1 DEF P!Effect
<1>4. P!write(c, a, ix) = c5
  BY DEF P!write
<1>5. /\ P!Exists(c, a.series, "OptionSeries")
      /\ P!Exists(c, a.position, "WriterPosition")
      /\ P!Exists(c, a.writerUnderlying, "TokenAccount")
      /\ P!Exists(c, a.collateralVault, "TokenAccount")
      /\ P!Exists(c, a.writerOption, "TokenAccount")
  BY <1>2, WriteAccounts
<1>6. ~(c[a.writerUnderlying].amount < raw)
  <2>1. "balance" \notin P!HandlerComplaints(c, world, "write", ix)
    BY <1>2
  <2> QED BY <2>1 DEF P!HandlerComplaints, P!SeriesOf
<1>7. c[a.series].contract_raw_size \in Nat /\ c[a.writerUnderlying].amount \in Nat
  BY <1>5 DEF ChainOK, SeriesOK, TokenAccountOK, P!Exists
<1> HIDE DEF a
<1>8. raw \in Nat /\ contracts \in Nat
  BY <1>7
<1>9. c[a.writerUnderlying].amount - raw \in Nat
  BY <1>6, <1>7, <1>8
<1> HIDE DEF raw, contracts, c1, c2, c3, c4, c5
<1>10. ChainOK(c1) /\ Kept(c, c1) /\ DOMAIN c1 = DOMAIN c
  <2>1. a.writerUnderlying \in DOMAIN c /\ "amount" \in Mutable
    BY <1>5 DEF P!Exists, Mutable
  <2>2. PICK x : x = c[a.writerUnderlying].amount - raw
    OBVIOUS
  <2>3. c1 = Written(c, a.writerUnderlying, "amount", x)
    BY <2>2 DEF c1, Written
  <2>4. x \in Nat
    BY <1>9, <2>2
  <2> QED BY <2>1, <2>3, <2>4, FieldWritten
<1>11. /\ P!Exists(c1, a.collateralVault, "TokenAccount")
       /\ P!Exists(c1, a.writerOption, "TokenAccount")
  BY <1>5, <1>10, KeptExists
<1>12. c1[a.collateralVault].amount + raw \in Nat
  BY <1>8, <1>10, <1>11 DEF ChainOK, TokenAccountOK, P!Exists
<1>13. ChainOK(c2) /\ Kept(c1, c2) /\ DOMAIN c2 = DOMAIN c
  <2>1. a.collateralVault \in DOMAIN c1 /\ "amount" \in Mutable
    BY <1>11 DEF P!Exists, Mutable
  <2>2. PICK x : x = c1[a.collateralVault].amount + raw
    OBVIOUS
  <2>3. c2 = Written(c1, a.collateralVault, "amount", x)
    BY <2>2 DEF c2, Written
  <2>4. x \in Nat
    BY <1>12, <2>2
  <2> QED BY <1>10, <2>1, <2>3, <2>4, FieldWritten
<1>14. P!Exists(c2, a.writerOption, "TokenAccount")
  BY <1>10, <1>11, <1>13, KeptExists
<1>15. c2[a.writerOption].amount + contracts \in Nat
  BY <1>8, <1>13, <1>14 DEF ChainOK, TokenAccountOK, P!Exists
<1>16. ChainOK(c3) /\ DOMAIN c3 = DOMAIN c
  <2>1. a.writerOption \in DOMAIN c2 /\ "amount" \in Mutable
    BY <1>14 DEF P!Exists, Mutable
  <2>2. PICK x : x = c2[a.writerOption].amount + contracts
    OBVIOUS
  <2>3. c3 = Written(c2, a.writerOption, "amount", x)
    BY <2>2 DEF c3, Written
  <2>4. x \in Nat
    BY <1>15, <2>2
  <2> QED BY <1>13, <2>1, <2>3, <2>4, FieldWritten
<1>17. ChainOK(c4) /\ DOMAIN c4 = DOMAIN c
  <2>1. a.series \in DOMAIN c3 /\ "contracts_written" \in Mutable
    BY <1>5, <1>16 DEF P!Exists, Mutable
  <2>2. PICK x : x = c3[a.series].contracts_written + contracts
    OBVIOUS
  <2>3. c4 = Written(c3, a.series, "contracts_written", x)
    BY <2>2 DEF c4, Written
  <2> QED BY <1>16, <2>1, <2>3, FieldWritten
<1>18. ChainOK(c5)
  <2>1. a.position \in DOMAIN c4 /\ "contracts" \in Mutable
    BY <1>5, <1>17 DEF P!Exists, Mutable
  <2>2. PICK x : x = c4[a.position].contracts + contracts
    OBVIOUS
  <2>3. c5 = Written(c4, a.position, "contracts", x)
    BY <2>2 DEF c5, Written
  <2> QED BY <1>17, <2>1, <2>3, FieldWritten
<1> QED BY <1>3, <1>4, <1>18

\* create_series makes five accounts and reads the security.
LEMMA CreateContext ==
    LET fields == P!Contexts["createSeries"]
        made == {"series", "optionMint", "collateralVault", "premiumVault", "quoteVault"}
    IN  /\ made \cup {"security"} \subseteq {fields[i].name : i \in DOMAIN fields}
        /\ \A i \in DOMAIN fields : fields[i].name \in made => fields[i].init
        /\ \A i \in DOMAIN fields : fields[i].name = "security" =>
              ~fields[i].init /\ fields[i].type = "SecurityState"
<1> DEFINE fields == P!SeriesContexts.createSeries
           made == {"series", "optionMint", "collateralVault", "premiumVault", "quoteVault"}
<1> USE DEF P!SeriesContexts, P!MutSigner, P!Signer, P!Account,
         P!MutAccount, P!InitAccount, P!Unchecked, P!Field
<1>1. DOMAIN fields = 1..14
  OBVIOUS
<1>2. /\ fields[3].name = "security" /\ fields[7].name = "series"
      /\ fields[8].name = "optionMint" /\ fields[9].name = "collateralVault"
      /\ fields[10].name = "premiumVault" /\ fields[11].name = "quoteVault"
  OBVIOUS
<1>3. \A i \in 1..14 : fields[i].name \in made => fields[i].init
  OBVIOUS
<1>4. \A i \in 1..14 : fields[i].name = "security" => ~fields[i].init
  OBVIOUS
<1>5. \A i \in 1..14 : fields[i].name = "security" => fields[i].type = "SecurityState"
  OBVIOUS
<1>6. made \cup {"security"} \subseteq {fields[i].name : i \in DOMAIN fields}
  <2> HIDE DEF fields
  <2> QED BY <1>1, <1>2
<1> HIDE DEF fields, made
<1>7. P!Contexts["createSeries"] = fields
  BY ContextsAre DEF fields
<1> QED BY <1>1, <1>3, <1>4, <1>5, <1>6, <1>7 DEF made

\* A series is made with its mint and its vaults, where there was nothing.
LEMMA CreateKeeps ==
    ASSUME NEW c, NEW world, NEW ix, ChainOK(c), ix.discriminator = 181,
           P!Bound("createSeries", ix).underlyingMint = UNDERLYING,
           P!Bound("createSeries", ix).quoteMint = DEFAULT_QUOTE_MINT,
           ix.data[4] \in Nat, P!Complaints(c, world, ix) = {}
    PROVE  ChainOK(P!Effect(c, world, ix))
<1> DEFINE a == P!Bound("createSeries", ix)
           made == {a.series, a.optionMint, a.collateralVault, a.premiumVault, a.quoteVault}
           terms == P!SeriesOf(c, "createSeries", a, ix)
           d == P!create_series(c, a, ix)
<1>1. P!Handler(ix) = "createSeries" /\ P!Handles(ix) # {}
  BY HandlerOf
<1>2. /\ P!AccountComplaints(c, "createSeries", ix) = {}
      /\ P!ConstraintComplaints(c, "createSeries", ix) = {}
  BY <1>1, Accepted
<1>3. P!Effect(c, world, ix) = d
  BY <1>1 DEF P!Effect
<1>4. {"series", "optionMint", "collateralVault", "premiumVault", "quoteVault",
       "security"} \subseteq DOMAIN a
  BY CreateContext, BoundField
<1>5. \A n \in {"series", "optionMint", "collateralVault", "premiumVault", "quoteVault"} :
          a[n] \notin DOMAIN c
  <2> TAKE n \in {"series", "optionMint", "collateralVault", "premiumVault", "quoteVault"}
  <2>1. PICK i \in DOMAIN P!Contexts["createSeries"] :
              P!Contexts["createSeries"][i].name = n /\ a[n] = ix.accounts[i].address
    BY CreateContext, BoundField
  <2> QED BY <1>2, <2>1, CreateContext, AcceptedAccounts
<1>6. P!Exists(c, a.security, "SecurityState")
  <2>1. PICK i \in DOMAIN P!Contexts["createSeries"] :
              /\ P!Contexts["createSeries"][i].name = "security"
              /\ a["security"] = ix.accounts[i].address
    BY CreateContext, BoundField
  <2> QED BY <1>2, <2>1, CreateContext, AcceptedAccounts
<1>7. \A n \in DOMAIN a : a[n] = P!Pinned(c, "createSeries", a, ix, n)
  BY <1>2, AcceptedPins
<1> HIDE DEF a
<1>8. /\ a.security = SECURITY
      /\ a.series = P!SeriesSeeds(terms)
      /\ a.optionMint = << "option", a.series >>
      /\ a.collateralVault = << "vault", a.series >>
      /\ a.premiumVault = << "premium", a.series >>
      /\ a.quoteVault = << "quote", a.series >>
  <2>1. P!Pinned(c, "createSeries", a, ix, "security") = << "security", a.underlyingMint >>
    BY DEF P!Pinned
  <2>2. P!Pinned(c, "createSeries", a, ix, "series") = P!SeriesSeeds(terms)
    BY DEF P!Pinned
  <2>3. /\ P!Pinned(c, "createSeries", a, ix, "optionMint") = << "option", a.series >>
        /\ P!Pinned(c, "createSeries", a, ix, "collateralVault") = << "vault", a.series >>
        /\ P!Pinned(c, "createSeries", a, ix, "premiumVault") = << "premium", a.series >>
        /\ P!Pinned(c, "createSeries", a, ix, "quoteVault") = << "quote", a.series >>
    BY DEF P!Pinned
  <2>4. SECURITY = << "security", a.underlyingMint >>
    BY DEF SECURITY, findSecurityPda, a
  <2> QED BY <1>4, <1>7, <2>1, <2>2, <2>3, <2>4
<1>9. a.series[1] = "series"
  BY <1>8 DEF P!SeriesSeeds
<1>10. /\ DOMAIN terms = {"underlying_mint", "quote_mint", "expiry_ts", "strike0", "kind",
                          "contract_raw_size", "settlement_window_minutes", "adjust"}
       /\ terms.underlying_mint = UNDERLYING /\ terms.quote_mint = DEFAULT_QUOTE_MINT
       /\ terms.contract_raw_size \in Nat
  BY DEF P!SeriesOf, a
<1> HIDE DEF terms
<1> DEFINE series == P!@@(terms, [type |-> "OptionSeries", security |-> a.security,
                                  contracts_written |-> 0])
<1>11. /\ DOMAIN series = SeriesFields
       /\ series.type = "OptionSeries" /\ series.security = a.security
       /\ \A f \in DOMAIN terms : series[f] = terms[f]
  BY <1>10 DEF P!@@, SeriesFields
<1> HIDE DEF series
<1>12. P!SeriesSeeds(series) = P!SeriesSeeds(terms)
  BY <1>10, <1>11 DEF P!SeriesSeeds
<1>13. /\ DOMAIN d = made \cup DOMAIN c
       /\ d[a.series] = series
       /\ d[a.optionMint] = [type |-> "Mint"]
       /\ d[a.collateralVault] = P!TokenAccount(a.underlyingMint, a.series, 0)
       /\ d[a.premiumVault] = P!TokenAccount(a.underlyingMint, a.series, 0)
       /\ d[a.quoteVault] = P!TokenAccount(a.quoteMint, a.series, 0)
       /\ \A k \in DOMAIN c : d[k] = c[k]
  <2>1. /\ a.series # a.optionMint /\ a.series # a.collateralVault
        /\ a.series # a.premiumVault /\ a.series # a.quoteVault
        /\ a.optionMint # a.collateralVault /\ a.optionMint # a.premiumVault
        /\ a.optionMint # a.quoteVault /\ a.collateralVault # a.premiumVault
        /\ a.collateralVault # a.quoteVault /\ a.premiumVault # a.quoteVault
    BY <1>8, <1>9
  <2>2. made \cap DOMAIN c = {}
    BY <1>5
  <2> DEFINE e1 == P!:>(a.series, series)
             e2 == P!@@(e1, P!:>(a.optionMint, [type |-> "Mint"]))
             e3 == P!@@(e2, P!:>(a.collateralVault, P!TokenAccount(a.underlyingMint, a.series, 0)))
             e4 == P!@@(e3, P!:>(a.premiumVault, P!TokenAccount(a.underlyingMint, a.series, 0)))
             e5 == P!@@(e4, P!:>(a.quoteVault, P!TokenAccount(a.quoteMint, a.series, 0)))
  <2>3. d = P!@@(e5, c)
    BY DEF P!create_series, terms, series
  <2>4. DOMAIN e1 = {a.series} /\ e1[a.series] = series
    BY DEF P!:>
  <2>5. /\ DOMAIN e2 = {a.series, a.optionMint}
        /\ e2[a.series] = series /\ e2[a.optionMint] = [type |-> "Mint"]
    <3> HIDE DEF e1
    <3> QED BY <2>1, <2>4 DEF P!@@, P!:>
  <2>6. /\ DOMAIN e3 = {a.series, a.optionMint, a.collateralVault}
        /\ e3[a.series] = series /\ e3[a.optionMint] = [type |-> "Mint"]
        /\ e3[a.collateralVault] = P!TokenAccount(a.underlyingMint, a.series, 0)
    <3> HIDE DEF e2
    <3> QED BY <2>1, <2>5 DEF P!@@, P!:>
  <2>7. /\ DOMAIN e4 = {a.series, a.optionMint, a.collateralVault, a.premiumVault}
        /\ e4[a.series] = series /\ e4[a.optionMint] = [type |-> "Mint"]
        /\ e4[a.collateralVault] = P!TokenAccount(a.underlyingMint, a.series, 0)
        /\ e4[a.premiumVault] = P!TokenAccount(a.underlyingMint, a.series, 0)
    <3> HIDE DEF e3
    <3> QED BY <2>1, <2>6 DEF P!@@, P!:>
  <2>8. /\ DOMAIN e5 = made
        /\ e5[a.series] = series /\ e5[a.optionMint] = [type |-> "Mint"]
        /\ e5[a.collateralVault] = P!TokenAccount(a.underlyingMint, a.series, 0)
        /\ e5[a.premiumVault] = P!TokenAccount(a.underlyingMint, a.series, 0)
        /\ e5[a.quoteVault] = P!TokenAccount(a.quoteMint, a.series, 0)
    <3> HIDE DEF e4
    <3> QED BY <2>1, <2>7 DEF P!@@, P!:>
  <2> HIDE DEF e5, d
  <2> QED BY <2>2, <2>3, <2>8 DEF P!@@
<1> HIDE DEF d
<1>14. Kept(c, d)
  BY <1>13 DEF Kept, ChainOK, TokenAccountOK
<1>15. \A k \in DOMAIN c : "type" \in DOMAIN d[k] /\ TokenAccountOK(d[k])
                              /\ SeriesOK(d, k) /\ PlaceOK(k, d[k])
  BY <1>14, KeptType, KeptAccount
<1>16. Grounds(d)
  BY <1>14, KeptGrounds
<1>17. \A k \in made \ {a.series} : "type" \in DOMAIN d[k] /\ TokenAccountOK(d[k])
                              /\ SeriesOK(d, k) /\ PlaceOK(k, d[k])
  <2> TAKE k \in made \ {a.series}
  <2>1. k[1] \notin {"ata", "writer", "security"}
    BY <1>8
  <2>2. \/ d[k] = [type |-> "Mint"]
        \/ d[k] = P!TokenAccount(a.underlyingMint, a.series, 0)
        \/ d[k] = P!TokenAccount(a.quoteMint, a.series, 0)
    BY <1>13
  <2>3. CASE d[k] = [type |-> "Mint"]
    BY <2>1, <2>3 DEF TokenAccountOK, SeriesOK, PlaceOK
  <2>4. ASSUME NEW m, d[k] = P!TokenAccount(m, a.series, 0)
        PROVE  "type" \in DOMAIN d[k] /\ TokenAccountOK(d[k])
                  /\ SeriesOK(d, k) /\ PlaceOK(k, d[k])
    <3>1. /\ DOMAIN d[k] = {"type", "mint", "owner", "amount"}
          /\ d[k].type = "TokenAccount" /\ d[k].amount = 0
      BY <2>4 DEF P!TokenAccount
    <3> QED BY <2>1, <3>1 DEF TokenAccountOK, SeriesOK, PlaceOK
  <2> QED BY <2>2, <2>3, <2>4
<1>18. "type" \in DOMAIN d[a.series] /\ TokenAccountOK(d[a.series])
          /\ SeriesOK(d, a.series) /\ PlaceOK(a.series, d[a.series])
  <2>1. P!Exists(d, findOptionMintPda(a.series), "Mint")
    BY <1>8, <1>13 DEF P!Exists, findOptionMintPda
  <2>2. /\ P!Exists(d, findCollateralVaultPda(a.series), "TokenAccount")
        /\ P!Exists(d, findPremiumVaultPda(a.series), "TokenAccount")
        /\ P!Exists(d, findQuoteVaultPda(a.series), "TokenAccount")
    BY <1>8, <1>13 DEF P!Exists, findCollateralVaultPda, findPremiumVaultPda,
                       findQuoteVaultPda, P!TokenAccount
  <2>3. SECURITY \in DOMAIN d
    BY <1>6, <1>8, <1>13 DEF P!Exists
  <2>4. SeriesOK(d, a.series)
    BY <1>8, <1>10, <1>11, <1>12, <1>13, <2>1, <2>2, <2>3 DEF SeriesOK, SeriesFields
  <2>5. "type" \in DOMAIN d[a.series] /\ d[a.series].type = "OptionSeries"
    BY <1>11, <1>13 DEF SeriesFields
  <2> QED BY <1>9, <2>4, <2>5 DEF TokenAccountOK, PlaceOK
<1>19. ChainOK(d)
  BY <1>13, <1>15, <1>16, <1>17, <1>18 DEF ChainOK
<1> QED BY <1>3, <1>19

\* open_position makes the position and names its writer and its series.
LEMMA OpenContext ==
    LET fields == P!Contexts["openPosition"]
    IN  /\ {"writer", "series", "position"} \subseteq {fields[i].name : i \in DOMAIN fields}
        /\ \A i \in DOMAIN fields : fields[i].name = "position" => fields[i].init
<1> DEFINE fields == P!WriteContexts.openPosition
<1> USE DEF P!WriteContexts, P!MutSigner, P!Signer, P!Account,
         P!MutAccount, P!InitAccount, P!Unchecked, P!Field
<1>1. DOMAIN fields = 1..4
  OBVIOUS
<1>2. /\ fields[1].name = "writer" /\ fields[2].name = "series"
      /\ fields[3].name = "position"
  OBVIOUS
<1>3. \A i \in 1..4 : fields[i].name = "position" => fields[i].init
  OBVIOUS
<1> HIDE DEF fields
<1>4. P!Contexts["openPosition"] = fields
  BY ContextsAre DEF fields
<1> QED BY <1>1, <1>2, <1>3, <1>4

\* A position is opened at an address of its own.
LEMMA OpenKeeps ==
    ASSUME NEW c, NEW world, NEW ix, ChainOK(c), ix.discriminator = 135,
           P!Complaints(c, world, ix) = {}
    PROVE  ChainOK(P!Effect(c, world, ix))
<1> DEFINE a == P!Bound("openPosition", ix)
           account == [type |-> "WriterPosition", owner |-> a.writer,
                       series |-> a.series, contracts |-> 0]
           d == P!@@(P!:>(a.position, account), c)
<1>1. P!Handler(ix) = "openPosition" /\ P!Handles(ix) # {}
  BY HandlerOf
<1>2. /\ P!AccountComplaints(c, "openPosition", ix) = {}
      /\ P!ConstraintComplaints(c, "openPosition", ix) = {}
  BY <1>1, Accepted
<1>3. P!Effect(c, world, ix) = d
  BY <1>1 DEF P!Effect, P!open_position
<1>4. {"writer", "series", "position"} \subseteq DOMAIN a
  BY OpenContext, BoundField
<1>5. a.position \notin DOMAIN c
  <2>1. PICK i \in DOMAIN P!Contexts["openPosition"] :
              /\ P!Contexts["openPosition"][i].name = "position"
              /\ a["position"] = ix.accounts[i].address
    BY OpenContext, BoundField
  <2> QED BY <1>2, <2>1, OpenContext, AcceptedAccounts
<1>6. a.position = << "writer", a.series, a.writer >>
  <2>1. a["position"] = P!Pinned(c, "openPosition", a, ix, "position")
    BY <1>2, <1>4, AcceptedPins
  <2> QED BY <2>1 DEF P!Pinned
<1> HIDE DEF a
<1>7. "type" \in DOMAIN account /\ account.type = "WriterPosition"
  OBVIOUS
<1> HIDE DEF account
<1>8. Made(c, a.position, account, d)
  BY <1>5 DEF Made, P!@@, P!:>
<1> HIDE DEF d
<1>9. TokenAccountOK(account) /\ account.type # "OptionSeries" /\ PlaceOK(a.position, account)
  BY <1>6, <1>7 DEF TokenAccountOK, PlaceOK
<1> QED BY <1>3, <1>5, <1>7, <1>8, <1>9, AccountMade

-----------------------------------------------------------------------------
(* The first state *)

\* The accounts of the first state, one laid over another.
LEMMA GenesisAt ==
    ASSUME NEW registered \in BOOLEAN
    PROVE  LET c == Genesis(registered)
               programs == {SYSTEM_PROGRAM, TOKEN_PROGRAM_ADDRESS, TOKEN_2022_PROGRAM_ADDRESS}
               mints == {UNDERLYING, DEFAULT_QUOTE_MINT}
               ata(mint) == findAssociatedTokenPda(WRITER, mint)
           IN  /\ DOMAIN c = programs \cup mints \cup
                    {findRegistryPda, findCalendarPda(CalendarId), ata(UNDERLYING),
                     Key("aside"), ata(DEFAULT_QUOTE_MINT)}
                    \cup (IF registered THEN {SECURITY} ELSE {})
               /\ \A a \in programs : c[a] = [type |-> "Program"]
               /\ \A a \in mints : c[a] = [type |-> "Mint"]
               /\ c[findRegistryPda] = [type |-> "Registry", paused |-> FALSE]
               /\ c[findCalendarPda(CalendarId)] = [type |-> "MarketCalendar", id |-> CalendarId]
               /\ c[ata(UNDERLYING)] = P!TokenAccount(UNDERLYING, WRITER, Held)
               /\ c[Key("aside")] = P!TokenAccount(UNDERLYING, WRITER, HeldAside)
               /\ c[ata(DEFAULT_QUOTE_MINT)] = P!TokenAccount(DEFAULT_QUOTE_MINT, WRITER, 0)
               /\ registered =>
                    c[SECURITY] = [type |-> "SecurityState", underlying_mint |-> UNDERLYING,
                                   calendar_id |-> CalendarId]
<1> DEFINE programs == {SYSTEM_PROGRAM, TOKEN_PROGRAM_ADDRESS, TOKEN_2022_PROGRAM_ADDRESS}
           mints == {UNDERLYING, DEFAULT_QUOTE_MINT}
           reg == findRegistryPda
           cal == findCalendarPda(CalendarId)
           ata == findAssociatedTokenPda(WRITER, UNDERLYING)
           aside == Key("aside")
           quote == findAssociatedTokenPda(WRITER, DEFAULT_QUOTE_MINT)
           program == [type |-> "Program"]
           mint == [type |-> "Mint"]
           registry == [type |-> "Registry", paused |-> FALSE]
           calendar == [type |-> "MarketCalendar", id |-> CalendarId]
           held == P!TokenAccount(UNDERLYING, WRITER, Held)
           heldAside == P!TokenAccount(UNDERLYING, WRITER, HeldAside)
           none == P!TokenAccount(DEFAULT_QUOTE_MINT, WRITER, 0)
           security == [type |-> "SecurityState", underlying_mint |-> UNDERLYING,
                        calendar_id |-> CalendarId]
           f1 == [a \in programs |-> program] @@ [a \in mints |-> mint]
           f2 == f1 @@ (reg :> registry)
           f3 == f2 @@ (cal :> calendar)
           f4 == f3 @@ (ata :> held)
           f5 == f4 @@ (aside :> heldAside)
           f6 == f5 @@ (quote :> none)
           f7 == f6 @@ (IF registered THEN SECURITY :> security ELSE << >>)
<1>1. Genesis(registered) = f7
  BY DEF Genesis, SECURITY
<1>2. /\ programs \cap mints = {}
      /\ {reg, cal, ata, aside, quote, SECURITY} \cap (programs \cup mints) = {}
  BY DEF SYSTEM_PROGRAM, TOKEN_PROGRAM_ADDRESS, TOKEN_2022_PROGRAM_ADDRESS, UNDERLYING,
         DEFAULT_QUOTE_MINT, findRegistryPda, findCalendarPda, findAssociatedTokenPda, Key,
         SECURITY, findSecurityPda
<1>3. /\ reg \notin {cal, ata, aside, quote, SECURITY}
      /\ cal \notin {ata, aside, quote, SECURITY}
      /\ ata \notin {aside, quote, SECURITY} /\ aside \notin {quote, SECURITY}
      /\ quote # SECURITY
  BY DEF UNDERLYING, DEFAULT_QUOTE_MINT, findRegistryPda, findCalendarPda,
         findAssociatedTokenPda, Key, SECURITY, findSecurityPda
<1> HIDE DEF programs, mints, reg, cal, ata, aside, quote, program, mint, registry, calendar,
             held, heldAside, none, security
<1>4. /\ DOMAIN f1 = programs \cup mints
      /\ \A a \in programs : f1[a] = program
      /\ \A a \in mints : f1[a] = mint
  BY <1>2 DEF @@
<1> HIDE DEF f1
<1>5. /\ DOMAIN f2 = programs \cup mints \cup {reg}
      /\ \A a \in programs : f2[a] = program
      /\ \A a \in mints : f2[a] = mint
      /\ f2[reg] = registry
  BY <1>2, <1>4 DEF @@, :>
<1> HIDE DEF f2
<1>6. /\ DOMAIN f3 = programs \cup mints \cup {reg, cal}
      /\ \A a \in programs : f3[a] = program
      /\ \A a \in mints : f3[a] = mint
      /\ f3[reg] = registry /\ f3[cal] = calendar
  BY <1>2, <1>3, <1>5 DEF @@, :>
<1> HIDE DEF f3
<1>7. /\ DOMAIN f4 = programs \cup mints \cup {reg, cal, ata}
      /\ \A a \in programs : f4[a] = program
      /\ \A a \in mints : f4[a] = mint
      /\ f4[reg] = registry /\ f4[cal] = calendar /\ f4[ata] = held
  BY <1>2, <1>3, <1>6 DEF @@, :>
<1> HIDE DEF f4
<1>8. /\ DOMAIN f5 = programs \cup mints \cup {reg, cal, ata, aside}
      /\ \A a \in programs : f5[a] = program
      /\ \A a \in mints : f5[a] = mint
      /\ f5[reg] = registry /\ f5[cal] = calendar /\ f5[ata] = held
      /\ f5[aside] = heldAside
  BY <1>2, <1>3, <1>7 DEF @@, :>
<1> HIDE DEF f5
<1>9. /\ DOMAIN f6 = programs \cup mints \cup {reg, cal, ata, aside, quote}
      /\ \A a \in programs : f6[a] = program
      /\ \A a \in mints : f6[a] = mint
      /\ f6[reg] = registry /\ f6[cal] = calendar /\ f6[ata] = held
      /\ f6[aside] = heldAside /\ f6[quote] = none
  BY <1>2, <1>3, <1>8 DEF @@, :>
<1> HIDE DEF f6
<1>10. /\ DOMAIN f7 = programs \cup mints \cup {reg, cal, ata, aside, quote}
                        \cup (IF registered THEN {SECURITY} ELSE {})
       /\ \A a \in DOMAIN f6 : f7[a] = f6[a]
       /\ registered => f7[SECURITY] = security
  <2>1. CASE registered
    BY <1>2, <1>3, <1>9, <2>1 DEF @@, :>
  <2>2. CASE ~registered
    <3>1. f7 = f6 @@ << >>
      BY <2>2
    <3>2. DOMAIN << >> = {}
      OBVIOUS
    <3> QED BY <1>9, <2>2, <3>1, <3>2 DEF @@
  <2> QED BY <2>1, <2>2
<1> HIDE DEF f7
<1> QED BY <1>1, <1>9, <1>10 DEF programs, mints, reg, cal, ata, aside, quote, program, mint,
             registry, calendar, held, heldAside, none, security

\* The first chain is sound.
LEMMA GenesisOK ==
    ASSUME NEW registered \in BOOLEAN
    PROVE  ChainOK(Genesis(registered))
<1> DEFINE c == Genesis(registered)
           programs == {SYSTEM_PROGRAM, TOKEN_PROGRAM_ADDRESS, TOKEN_2022_PROGRAM_ADDRESS}
           mints == {UNDERLYING, DEFAULT_QUOTE_MINT}
           ata(mint) == findAssociatedTokenPda(WRITER, mint)
           OK(a) == /\ "type" \in DOMAIN c[a] /\ TokenAccountOK(c[a])
                    /\ SeriesOK(c, a) /\ PlaceOK(a, c[a])
<1>1. /\ DOMAIN c = programs \cup mints \cup
              {findRegistryPda, findCalendarPda(CalendarId), ata(UNDERLYING),
               Key("aside"), ata(DEFAULT_QUOTE_MINT)}
              \cup (IF registered THEN {SECURITY} ELSE {})
      /\ \A a \in programs : c[a] = [type |-> "Program"]
      /\ \A a \in mints : c[a] = [type |-> "Mint"]
      /\ c[findRegistryPda] = [type |-> "Registry", paused |-> FALSE]
      /\ c[findCalendarPda(CalendarId)] = [type |-> "MarketCalendar", id |-> CalendarId]
      /\ c[ata(UNDERLYING)] = P!TokenAccount(UNDERLYING, WRITER, Held)
      /\ c[Key("aside")] = P!TokenAccount(UNDERLYING, WRITER, HeldAside)
      /\ c[ata(DEFAULT_QUOTE_MINT)] = P!TokenAccount(DEFAULT_QUOTE_MINT, WRITER, 0)
      /\ registered =>
           c[SECURITY] = [type |-> "SecurityState", underlying_mint |-> UNDERLYING,
                          calendar_id |-> CalendarId]
  BY GenesisAt
<1> HIDE DEF c
<1>2. Grounds(c)
  BY <1>1 DEF Grounds, P!Exists
<1>3. ASSUME NEW a \in programs \cup mints \cup
                {findRegistryPda, findCalendarPda(CalendarId)}
      PROVE  OK(a)
  <2>1. "type" \in DOMAIN c[a] /\ c[a].type \in {"Program", "Mint", "Registry", "MarketCalendar"}
    BY <1>1, <1>3
  <2>2. a[1] \notin {"ata", "writer", "security"}
    BY <1>3 DEF SYSTEM_PROGRAM, TOKEN_PROGRAM_ADDRESS, TOKEN_2022_PROGRAM_ADDRESS, UNDERLYING,
         DEFAULT_QUOTE_MINT, findRegistryPda, findCalendarPda, Key
  <2> QED BY <2>1, <2>2 DEF TokenAccountOK, SeriesOK, PlaceOK
<1>4. ASSUME NEW a \in {ata(UNDERLYING), Key("aside"), ata(DEFAULT_QUOTE_MINT)}
      PROVE  OK(a)
  <2>1. PICK mint, amount :
              /\ amount \in Nat
              /\ c[a] = P!TokenAccount(mint, WRITER, amount)
              /\ a[1] \notin {"writer", "security"}
              /\ a[1] = "ata" => a[2] = WRITER /\ a[3] = mint
    <3>1. Held \in Nat /\ HeldAside \in Nat
      BY AgentAssumption
    <3>2. CASE a = ata(UNDERLYING)
      BY <1>1, <3>1, <3>2 DEF findAssociatedTokenPda
    <3>3. CASE a = Key("aside")
      BY <1>1, <3>1, <3>3 DEF Key
    <3>4. CASE a = ata(DEFAULT_QUOTE_MINT)
      BY <1>1, <3>1, <3>4 DEF findAssociatedTokenPda
    <3> QED BY <1>4, <3>2, <3>3, <3>4
  <2>2. /\ DOMAIN c[a] = {"type", "mint", "owner", "amount"}
        /\ c[a].type = "TokenAccount" /\ c[a].owner = WRITER
        /\ c[a].mint = mint /\ c[a].amount = amount
    BY <2>1 DEF P!TokenAccount
  <2> QED BY <2>1, <2>2 DEF TokenAccountOK, SeriesOK, PlaceOK
<1>5. ASSUME registered PROVE OK(SECURITY)
  <2>1. /\ DOMAIN c[SECURITY] = {"type", "underlying_mint", "calendar_id"}
        /\ c[SECURITY].type = "SecurityState" /\ c[SECURITY].calendar_id = CalendarId
    BY <1>1, <1>5
  <2>2. SECURITY[1] = "security"
    BY DEF SECURITY, findSecurityPda
  <2> QED BY <2>1, <2>2 DEF TokenAccountOK, SeriesOK, PlaceOK
<1>6. \A a \in DOMAIN c : OK(a)
  <2> HIDE DEF OK, programs, mints, ata
  <2> TAKE a \in DOMAIN c
  <2>1. \/ a \in programs \cup mints \cup {findRegistryPda, findCalendarPda(CalendarId)}
        \/ a \in {ata(UNDERLYING), Key("aside"), ata(DEFAULT_QUOTE_MINT)}
        \/ registered /\ a = SECURITY
    BY <1>1
  <2> QED BY <1>3, <1>4, <1>5, <2>1
<1> QED BY <1>2, <1>6 DEF ChainOK, c

-----------------------------------------------------------------------------
(* Arithmetic *)

\* A product of naturals is a natural.
LEMMA ProductNat ==
    ASSUME NEW a \in Nat, NEW b \in Nat
    PROVE  a * b \in Nat
OBVIOUS

\* A product of positive naturals is positive.
LEMMA ProductPositive ==
    ASSUME NEW a \in Nat \ {0}, NEW b \in Nat \ {0}
    PROVE  a * b \in Nat \ {0}
OBVIOUS

\* Multiplication by a natural preserves the order.
LEMMA ProductMonotone ==
    ASSUME NEW a \in Nat, NEW b \in Nat, NEW c \in Nat, a <= b
    PROVE  a * c <= b * c
OBVIOUS

\* A positive factor can be cancelled from an inequality.
LEMMA ProductCancel ==
    ASSUME NEW a \in Int, NEW b \in Int, NEW c \in Nat \ {0}, a * c <= b * c
    PROVE  a <= b
OBVIOUS

\* A quotient times its divisor is no more than what was divided.
LEMMA QuotientFits ==
    ASSUME NEW a \in Nat, NEW d \in Nat \ {0}
    PROVE  a \div d \in Nat /\ (a \div d) * d <= a
OBVIOUS

\* Products can be regrouped and swapped.
LEMMA ProductSwap ==
    ASSUME NEW a \in Nat, NEW b \in Nat, NEW c \in Nat
    PROVE  (a * b) * c = a * (b * c) /\ a * b = b * a
OBVIOUS

\* propose.ts contractRawSize rounds down: at the multiplier it was worked out
\* with, a contract's raw units are never worth more than a contract.
LEMMA contractRawSizeNat ==
    ASSUME NEW m \in Nat \ {0}
    PROVE  contractRawSize(m) \in Nat /\ contractRawSize(m) * m <= ContractSize * SCALE
<1>1. ContractSize * SCALE \in Nat
  BY ProductNat, AgentAssumption
<1> QED BY <1>1, QuotientFits DEF contractRawSize

\* What a size worked out of a balance needs, in raw units, the balance has.
LEMMA SizeFits ==
    ASSUME NEW free \in Nat, NEW size \in Nat, size <= free, NEW m \in Nat \ {0},
           NEW raw \in Nat, free * (ContractSize * SCALE) <= raw * m
    PROVE  size * contractRawSize(m) <= raw
<1>1. PICK one \in Nat : one = ContractSize * SCALE
  BY ProductNat, AgentAssumption
<1>2. PICK unit \in Nat : unit = contractRawSize(m) /\ unit * m <= one
  BY <1>1, contractRawSizeNat
<1>3. m \in Nat
  OBVIOUS
<1>4. unit * m \in Nat /\ size * unit \in Nat /\ free * one \in Nat /\ size * one \in Nat
        /\ raw * m \in Nat
  BY <1>1, <1>2, <1>3, ProductNat
<1>5. (size * unit) * m = size * (unit * m)
  BY <1>2, <1>3, ProductSwap
<1>6. size * (unit * m) <= size * one
  <2>1. (unit * m) * size <= one * size
    BY <1>1, <1>2, <1>4, ProductMonotone
  <2> QED BY <2>1, <1>1, <1>4, ProductSwap
<1>7. size * one <= free * one
  BY <1>1, ProductMonotone
<1>8. size * (unit * m) \in Nat
  BY <1>4, ProductNat
<1>9. (size * unit) * m <= raw * m
  BY <1>1, <1>4, <1>5, <1>6, <1>7, <1>8
<1>10. size * unit <= raw
  BY <1>4, <1>9, ProductCancel
<1> QED BY <1>2, <1>10

-----------------------------------------------------------------------------
(* Sequences *)

\* A desk to which sound proposals are added is a sound desk.
LEMMA DeskGrows ==
    ASSUME NEW s, \E S : s \in Seq(S), NEW r, NEW n \in Nat, DOMAIN r = 1..n,
           \E T : r \in [1..n -> T],
           \A i \in DOMAIN s : ProposalOK(s[i]), \A i \in DOMAIN r : ProposalOK(r[i])
    PROVE  (\E S : s \o r \in Seq(S)) /\ \A i \in DOMAIN (s \o r) : ProposalOK((s \o r)[i])
<1>1. PICK S : s \in Seq(S)
  OBVIOUS
<1>2. PICK T : r \in Seq(T)
  BY SeqDef
<1>3. s \in Seq(S \cup T) /\ r \in Seq(S \cup T)
  BY <1>1, <1>2, SeqMonotonic
<1>4. /\ s \o r \in Seq(S \cup T)
      /\ Len(s \o r) = Len(s) + Len(r)
      /\ \A i \in 1 .. Len(s) + Len(r) : (s \o r)[i] =
                     IF i <= Len(s) THEN s[i] ELSE r[i - Len(s)]
  BY <1>3, ConcatProperties
<1>5. /\ DOMAIN s = 1..Len(s) /\ DOMAIN r = 1..Len(r) /\ Len(s) \in Nat /\ Len(r) \in Nat
      /\ DOMAIN (s \o r) = 1..(Len(s) + Len(r))
  BY <1>3, <1>4, LenProperties
<1>6. ASSUME NEW i \in DOMAIN (s \o r) PROVE ProposalOK((s \o r)[i])
  <2>1. CASE i <= Len(s)
    BY <1>4, <1>5, <2>1
  <2>2. CASE ~(i <= Len(s))
    <3>1. i - Len(s) \in DOMAIN r
      BY <1>5, <2>2
    <3> QED BY <1>4, <1>5, <2>2, <3>1
  <2> QED BY <2>1, <2>2
<1> QED BY <1>4, <1>6

-----------------------------------------------------------------------------
(* What the agent builds *)

\* An instruction carries its input at the place of each name.
LEMMA BoundAt ==
    ASSUME NEW op, NEW roles, NEW discriminator, NEW args, NEW input, Agrees(op, roles),
           NEW n \in {roles[i].name : i \in DOMAIN roles}, n \in DOMAIN input
    PROVE  /\ n \in DOMAIN P!Bound(op, Assembled(discriminator, roles, args, input))
           /\ P!Bound(op, Assembled(discriminator, roles, args, input))[n] = input[n]
<1> DEFINE ix == Assembled(discriminator, roles, args, input)
<1>1. n \in {P!Contexts[op][i].name : i \in DOMAIN P!Contexts[op]}
  BY DEF Agrees
<1>2. PICK i \in DOMAIN P!Contexts[op] :
            P!Contexts[op][i].name = n /\ P!Bound(op, ix)[n] = ix.accounts[i].address
  BY <1>1, BoundField
<1>3. i \in DOMAIN roles /\ roles[i].name = n
  BY <1>2 DEF Agrees
<1>4. ix.accounts[i].address = input[n]
  BY <1>3 DEF Assembled, getAccountMeta
<1> HIDE DEF ix
<1>5. n \in DOMAIN P!Bound(op, ix)
  BY <1>1, BoundField
<1> QED BY <1>2, <1>4, <1>5 DEF ix

\* The upper function wins where it is defined.
LEMMA OverlayFirst ==
    ASSUME NEW f, NEW g, NEW x \in DOMAIN f
    PROVE  x \in DOMAIN (f @@ g) /\ (f @@ g)[x] = f[x]
BY DEF @@

\* The lower function shows through where the upper is not defined.
LEMMA OverlaySecond ==
    ASSUME NEW f, NEW g, NEW x \in DOMAIN g, x \notin DOMAIN f
    PROVE  x \in DOMAIN (f @@ g) /\ (f @@ g)[x] = g[x]
BY DEF @@

\* A create_series the agent builds is for its own pair of mints.
LEMMA CreateIsOK ==
    ASSUME NEW request, request.kind = "create_series", NEW read,
           read.multiplier \in Nat \ {0}
    PROVE  InstructionOK(Built(request, read))
<1> DEFINE seeds == SeedsOf(request.rung, read.multiplier)
           series == findSeriesPda(seeds)
           writer == IF read.writer THEN WRITER ELSE SYSTEM_PROGRAM
           shared == [calendar |-> findCalendarPda(CalendarId), series |-> series,
                      underlyingTokenProgram |-> TOKEN_2022_PROGRAM_ADDRESS]
           given == seeds @@ shared @@
                      [creator |-> writer, quoteTokenProgram |-> TOKEN_PROGRAM_ADDRESS]
           input == given @@
               [registry |-> findRegistryPda,
                security |-> findSecurityPda(given.underlyingMint),
                optionMint |-> findOptionMintPda(given.series),
                collateralVault |-> findCollateralVaultPda(given.series),
                premiumVault |-> findPremiumVaultPda(given.series),
                quoteVault |-> findQuoteVaultPda(given.series)]
              @@ [systemProgram |-> SYSTEM_PROGRAM]
           ix == Assembled(181, CreateSeriesInstruction, CreateSeriesInstructionData, input)
<1>1. Built(request, read) = ix
  BY DEF Built, getCreateSeriesInstructionAsync, getCreateSeriesInstruction
<1>2. /\ {"underlyingMint", "quoteMint", "contractRawSize"} \subseteq DOMAIN seeds
      /\ seeds.underlyingMint = UNDERLYING /\ seeds.quoteMint = DEFAULT_QUOTE_MINT
      /\ seeds.contractRawSize = contractRawSize(read.multiplier)
  BY DEF SeedsOf
<1> HIDE DEF seeds
<1>3. \A n \in DOMAIN seeds : n \in DOMAIN given /\ given[n] = seeds[n]
  BY OverlayFirst
<1> HIDE DEF given
<1>4. \A n \in DOMAIN given : n \in DOMAIN input /\ input[n] = given[n]
  BY OverlayFirst
<1> HIDE DEF input
<1>5. /\ {"underlyingMint", "quoteMint", "contractRawSize"} \subseteq DOMAIN input
      /\ input.underlyingMint = UNDERLYING /\ input.quoteMint = DEFAULT_QUOTE_MINT
      /\ input.contractRawSize \in Nat
  BY <1>2, <1>3, <1>4, contractRawSizeNat
<1>6. {"underlyingMint", "quoteMint"} \subseteq
         {CreateSeriesInstruction[i].name : i \in DOMAIN CreateSeriesInstruction}
  <2>1. CreateSeriesInstruction[5].name = "underlyingMint"
    BY DEF CreateSeriesInstruction, WS, RS, W, R, Role
  <2>2. CreateSeriesInstruction[6].name = "quoteMint"
    BY DEF CreateSeriesInstruction, WS, RS, W, R, Role
  <2> QED BY <2>1, <2>2, CreateSeriesAgrees
<1>7. /\ P!Bound("createSeries", ix)["underlyingMint"] = UNDERLYING
      /\ P!Bound("createSeries", ix)["quoteMint"] = DEFAULT_QUOTE_MINT
  BY <1>5, <1>6, BoundAt, CreateSeriesAgrees
<1>8. ix.discriminator = 181 /\ ix.data[4] \in Nat
  BY <1>5 DEF Assembled, CreateSeriesInstructionData
<1> HIDE DEF ix
<1> QED BY <1>1, <1>7, <1>8 DEF InstructionOK

\* A write the agent builds is for a number of contracts.
LEMMA WriteIsOK ==
    ASSUME NEW request, request.kind = "write", request.contracts \in Nat, NEW read,
           read.writer
    PROVE  InstructionOK(Built(request, read))
<1> DEFINE seeds == SeedsOf(request.rung, read.multiplier)
           series == findSeriesPda(seeds)
           writer == IF read.writer THEN WRITER ELSE SYSTEM_PROGRAM
           shared == [calendar |-> findCalendarPda(CalendarId), series |-> series,
                      underlyingTokenProgram |-> TOKEN_2022_PROGRAM_ADDRESS]
           own == [writer |-> writer, underlyingMint |-> UNDERLYING,
                 optionMint |-> findOptionMintPda(series),
                 collateralVault |-> findCollateralVaultPda(series),
                 writerUnderlying |-> findAssociatedTokenPda(writer, UNDERLYING),
                 writerOption |->
                    findAssociatedTokenPda(writer, findOptionMintPda(series)),
                 contracts |-> request.contracts]
           known == shared @@ oracleAccountsFor
           given == known @@ own
           input == given @@
               [registry |-> findRegistryPda,
                security |-> findSecurityPda(given.underlyingMint),
                premiumVault |-> findPremiumVaultPda(given.series),
                position |-> findPositionPda(given.series, given.writer)]
           ix == Assembled(235, WriteInstruction, WriteInstructionData, input)
<1>1. Built(request, read) = ix
  BY DEF Built, getWriteInstructionAsync, getWriteInstruction
<1>2. "contracts" \in DOMAIN own /\ own["contracts"] = request.contracts
  OBVIOUS
<1>3. "contracts" \notin DOMAIN known
  BY DEF oracleAccountsFor, @@
<1> HIDE DEF own, known
<1>4. "contracts" \in DOMAIN given /\ given["contracts"] = request.contracts
  BY <1>2, <1>3, OverlaySecond
<1> HIDE DEF given
<1>5. "contracts" \in DOMAIN input /\ input["contracts"] = request.contracts
  BY <1>4, OverlayFirst
<1> HIDE DEF input
<1>6. ix.discriminator = 235 /\ ix.data[1] \in Nat
  BY <1>5 DEF Assembled, WriteInstructionData
<1> HIDE DEF ix
<1> QED BY <1>1, <1>6 DEF InstructionOK

\* An instant of the ladder is a session after the instant it is for.
LEMMA LadderIsAhead ==
    ASSUME NEW at \in Nat, NEW rung \in buildLadder(at)
    PROVE  rung.expiryTs \in SdkSessions /\ rung.expiryTs > at
<1>1. PICK days \in Tenors, strike \in Strikes, t \in UNION {snapToSession(at + d) : d \in Tenors} :
            rung = [strikeUsd |-> strike, expiryTs |-> t]
  BY DEF buildLadder
<1>2. PICK d \in Tenors : t \in snapToSession(at + d)
  BY <1>1
<1>3. t \in SdkSessions /\ t >= at + d
  BY <1>2 DEF snapToSession
<1>4. d \in Nat \ {0} /\ t \in Nat
  BY <1>3, AgentAssumption
<1>5. t > at
  BY <1>3, <1>4
<1> QED BY <1>1, <1>3, <1>5

\* A request for a rung ahead, within what is free, becomes a sound proposal.
LEMMA ProposalIsOK ==
    ASSUME NEW read, DOMAIN read = RunFields, read.at \in Nat, read.writer \in BOOLEAN,
           read.free \in Nat, read.multiplier \in Nat \ {0},
           SeenOK(read.free, read.multiplier, read.seen),
           NEW request, request.rung \in buildLadder(read.at),
           request.kind \in {"create_series", "write"},
           request.contracts \in Nat, request.contracts <= read.free
    PROVE  ProposalOK(Proposal(request, read))
<1> DEFINE p == Proposal(request, read)
<1>1. /\ DOMAIN p = ProposalFields
      /\ p.kind = request.kind /\ p.rung = request.rung /\ p.at = read.at
      /\ p.ix = Built(request, read)
      /\ p.need = request.contracts * contractRawSize(read.multiplier)
      /\ p.seen = read.seen /\ p.status = "open"
  BY DEF Proposal, ProposalFields
<1>2. p.compiled <=> read.writer
  BY DEF Proposal
<1> HIDE DEF p
<1>3. p.rung.expiryTs \in SdkSessions /\ p.rung.expiryTs > p.at
  BY <1>1, LadderIsAhead
<1>4. p.compiled => InstructionOK(p.ix)
  BY <1>1, <1>2, CreateIsOK, WriteIsOK
<1>5. (p.kind = "write" /\ p.seen # None /\ p.seen[2]) => p.need <= p.seen[1]
  <2> SUFFICES ASSUME p.seen # None, p.seen[2]
               PROVE  p.need <= p.seen[1]
    OBVIOUS
  <2>1. /\ read.seen[1] \in Nat
        /\ read.free * (ContractSize * SCALE) <= read.seen[1] * read.multiplier
    BY <1>1 DEF SeenOK
  <2> QED BY <1>1, <2>1, SizeFits
<1> QED BY <1>1, <1>3, <1>4, <1>5 DEF ProposalOK, p

\* The requests of a plan are for its rung and within what is free.
LEMMA RequestsOK ==
    ASSUME NEW read, read.free \in Nat, NEW chosen, NEW faded
    PROVE  LET requests == planWheel(read, chosen, faded)
           IN  /\ \E n \in 0..2 : DOMAIN requests = 1..n
               /\ \A i \in DOMAIN requests :
                     /\ chosen # None /\ requests[i].rung = chosen
                     /\ requests[i].kind \in {"create_series", "write"}
                     /\ requests[i].contracts \in Nat /\ requests[i].contracts <= read.free
<1> DEFINE size == Lesser(MaxContracts, read.free)
           create == [kind |-> "create_series", rung |-> chosen, contracts |-> 0]
           write == [kind |-> "write", rung |-> chosen, contracts |-> size]
           requests == planWheel(read, chosen, faded)
           OK(r) == /\ r.rung = chosen
                    /\ r.kind \in {"create_series", "write"}
                    /\ r.contracts \in Nat /\ r.contracts <= read.free
<1>1. \/ requests = << >>
      \/ chosen # None /\ requests = << create, write >>
      \/ chosen # None /\ requests = << create >>
  BY DEF planWheel
<1>2. size \in Nat /\ size <= read.free
  BY AgentAssumption DEF Lesser
<1> HIDE DEF size, requests
<1>3. OK(create) /\ OK(write)
  BY <1>2
<1> HIDE DEF create, write, OK
<1>4. CASE requests = << >>
  <2>1. DOMAIN requests = 1..0
    BY <1>4
  <2>2. \A i \in DOMAIN requests : FALSE
    BY <2>1
  <2> QED BY <2>1, <2>2 DEF requests
<1>5. CASE chosen # None /\ requests = << create, write >>
  <2>1. DOMAIN requests = 1..2 /\ \A i \in 1..2 : OK(requests[i])
    BY <1>3, <1>5
  <2> QED BY <1>5, <2>1 DEF requests, OK
<1>6. CASE chosen # None /\ requests = << create >>
  <2>1. DOMAIN requests = 1..1 /\ \A i \in 1..1 : OK(requests[i])
    BY <1>3, <1>6
  <2> QED BY <1>6, <2>1 DEF requests, OK
<1> QED BY <1>1, <1>4, <1>5, <1>6

-----------------------------------------------------------------------------
(* The steps *)

\* The multiplier in force is a positive number at every instant.
LEMMA EffectiveNat ==
    ASSUME ScaledOK, NEW t
    PROVE  mintMultiplierAt(t).effective \in Nat \ {0}
BY DEF ScaledOK, mintMultiplierAt

\* A balance is a number of raw units: the associated account is always there.
LEMMA BalanceNat ==
    ASSUME ChainOK(chain)
    PROVE  BalanceOf(WRITER) \in Nat
<1> DEFINE home == findAssociatedTokenPda(WRITER, UNDERLYING)
           aside == TokenAccountsOf(WRITER, UNDERLYING) \ {home}
           other == CHOOSE a \in aside : TRUE
<1>1. home \in DOMAIN chain /\ home[1] = "ata"
  BY DEF ChainOK, Grounds, findAssociatedTokenPda
<1>2. chain[home].amount \in Nat
  BY <1>1 DEF ChainOK, PlaceOK, TokenAccountOK
<1>3. aside # {} => chain[other].amount \in Nat
  <2> SUFFICES ASSUME aside # {} PROVE chain[other].amount \in Nat
    OBVIOUS
  <2>1. other \in aside
    OBVIOUS
  <2>2. other \in DOMAIN chain /\ chain[other].type = "TokenAccount"
    BY <2>1 DEF TokenAccountsOf
  <2> QED BY <2>2 DEF ChainOK, TokenAccountOK
<1>4. BalanceOf(WRITER) = chain[home].amount + (IF aside = {} THEN 0 ELSE chain[other].amount)
  BY DEF BalanceOf
<1> HIDE DEF home, other
<1> QED BY <1>2, <1>3, <1>4

\* The first state is sound.
LEMMA InitOK == Init => IInv
<1> SUFFICES ASSUME Init PROVE IInv
  OBVIOUS
<1>1. ChainOK(chain)
  BY GenesisOK DEF Init
<1>2. ScaledOK
  BY AgentAssumption DEF Init, ScaledOK
<1>3. RunOK
  BY DEF Init, RunOK
<1>4. DeskOK
  <2>1. desk = << >>
    BY DEF Init
  <2>2. desk \in Seq({})
    BY <2>1, EmptySeq
  <2>3. \A i \in DOMAIN desk : FALSE
    BY <2>1
  <2> QED BY <2>2, <2>3 DEF DeskOK
<1> QED BY <1>1, <1>2, <1>3, <1>4 DEF IInv, Init

\* A pass starts with a size nobody has seen a balance for.
LEMMA ReadRailKeeps ==
    ASSUME IInv, NEW at \in {now} \cup AskedTimes, NEW writer \in BOOLEAN,
           NEW assume \in BOOLEAN, ReadRail(at, writer, assume)
    PROVE  RunOK'
<1>1. at \in Nat /\ MaxContracts \in Nat
  BY AgentAssumption DEF IInv
<1> QED BY <1>1 DEF ReadRail, RunOK, RunFields, SeenOK

\* The multiplier a pass reads is a positive one.
LEMMA ReadMintKeeps ==
    ASSUME IInv, ReadMint
    PROVE  RunOK'
<1>1. DOMAIN run = RunFields /\ run.at \in Nat /\ run.writer \in BOOLEAN
        /\ run.free \in Nat /\ run.seen = None
  BY DEF IInv, RunOK, ReadMint, Idle
<1>2. PICK m : m = mintMultiplierAt(run.at).effective /\ m \in Nat \ {0}
  BY EffectiveNat DEF IInv
<1>3. run' = [run EXCEPT !.pc = "series", !.multiplier = m]
  BY <1>2 DEF ReadMint
<1> QED BY <1>1, <1>2, <1>3 DEF RunOK, RunFields, SeenOK

\* Listing the series changes nothing a size depends on.
LEMMA ReadSeriesKeeps ==
    ASSUME IInv, ReadSeries
    PROVE  RunOK'
<1>1. /\ DOMAIN run = RunFields /\ run.at \in Nat /\ run.writer \in BOOLEAN
      /\ run.free \in Nat /\ run.seen = None /\ run.multiplier \in Nat \ {0}
  BY DEF IInv, RunOK, ReadSeries, Idle
<1>2. PICK o : run' = [run EXCEPT !.pc = "balance", !.open = o]
  BY DEF ReadSeries
<1> QED BY <1>1, <1>2 DEF RunOK, RunFields, SeenOK

\* The size worked out of a balance, taken back at the multiplier of the earlier
\* read, is within the balance if the two multipliers are one.
LEMMA ReadBalanceKeeps ==
    ASSUME IInv, ReadBalance
    PROVE  RunOK'
<1>1. /\ DOMAIN run = RunFields /\ run.at \in Nat /\ run.writer \in BOOLEAN
      /\ run.free \in Nat /\ run.seen = None /\ run.multiplier \in Nat \ {0}
  BY DEF IInv, RunOK, ReadBalance, Idle
<1>2. CASE run' = [run EXCEPT !.pc = "plan"]
  BY <1>1, <1>2 DEF RunOK, RunFields, SeenOK
<1>3. CASE run' = [run EXCEPT !.pc = "plan", !.free = 0]
  BY <1>1, <1>3 DEF RunOK, RunFields, SeenOK
<1> DEFINE raw == BalanceOf(WRITER)
           m == mintMultiplierAt(now).effective
           one == ContractSize * SCALE
<1>4. CASE run' = [run EXCEPT !.pc = "plan", !.free = uiAmount(raw) \div one,
                              !.seen = << raw, m = run.multiplier >>]
  <2>1. raw \in Nat /\ m \in Nat \ {0}
    BY BalanceNat, EffectiveNat DEF IInv
  <2>2. one \in Nat \ {0}
    <3>1. ContractSize \in Nat \ {0} /\ SCALE \in Nat \ {0}
      BY AgentAssumption
    <3> QED BY <3>1, ProductPositive
  <2> HIDE DEF raw, m, one
  <2>3. uiAmount(raw) = raw * m
    BY DEF uiAmount, m
  <2>4. PICK ui \in Nat : ui = raw * m
    BY <2>1, ProductNat
  <2>5. PICK free \in Nat : free = ui \div one /\ free * one <= ui
    BY <2>2, QuotientFits
  <2>6. PICK seen : seen = << raw, m = run.multiplier >>
    OBVIOUS
  <2>7. seen[1] \in Nat /\ seen[2] \in BOOLEAN
    BY <2>1, <2>6
  <2>8. seen[2] => free * one <= seen[1] * run.multiplier
    BY <2>4, <2>5, <2>6
  <2>9. SeenOK(free, run.multiplier, seen)
    BY <2>7, <2>8 DEF SeenOK, one
  <2>10. run' = [run EXCEPT !.pc = "plan", !.free = free, !.seen = seen]
    BY <1>4, <2>3, <2>4, <2>5, <2>6
  <2> QED BY <1>1, <2>9, <2>10 DEF RunOK, RunFields
<1> QED BY <1>2, <1>3, <1>4 DEF ReadBalance

\* What a pass proposes is ahead of its instant and within what it saw.
LEMMA PlanKeeps ==
    ASSUME IInv, Plan
    PROVE  RunOK' /\ DeskOK'
<1>1. RunOK'
  BY DEF Plan, RunOK
<1>2. /\ DOMAIN run = RunFields /\ run.at \in Nat /\ run.writer \in BOOLEAN
      /\ run.free \in Nat /\ run.multiplier \in Nat \ {0}
      /\ SeenOK(run.free, run.multiplier, run.seen)
  BY DEF IInv, RunOK, Plan, Idle
<1>3. PICK chosen \in {None} \cup (IF run.priced THEN buildLadder(run.at) ELSE {}),
           faded \in SUBSET readMarketArtifacts :
        desk' = desk \o buildProposals(planWheel(run, chosen, faded), run)
  BY DEF Plan
<1> DEFINE requests == planWheel(run, chosen, faded)
           new == buildProposals(requests, run)
<1>4. PICK n \in 0..2 : DOMAIN requests = 1..n
  BY <1>2, RequestsOK
<1>5. \A i \in DOMAIN requests :
          /\ requests[i].rung \in buildLadder(run.at)
          /\ requests[i].kind \in {"create_series", "write"}
          /\ requests[i].contracts \in Nat /\ requests[i].contracts <= run.free
  <2>1. \A i \in DOMAIN requests :
          /\ chosen # None /\ requests[i].rung = chosen
          /\ requests[i].kind \in {"create_series", "write"}
          /\ requests[i].contracts \in Nat /\ requests[i].contracts <= run.free
    BY <1>2, RequestsOK
  <2>2. chosen # None => chosen \in buildLadder(run.at)
    BY <1>3
  <2> HIDE DEF requests
  <2> QED BY <2>1, <2>2
<1> HIDE DEF requests
<1>6. DOMAIN new = 1..n /\ \A i \in DOMAIN new : new[i] = Proposal(requests[i], run)
  BY <1>4 DEF buildProposals
<1>7. new \in [1..n -> {Proposal(requests[i], run) : i \in 1..n}]
  BY <1>4 DEF buildProposals
<1> HIDE DEF new
<1>8. \A i \in DOMAIN new : ProposalOK(new[i])
  BY <1>2, <1>4, <1>5, <1>6, ProposalIsOK
<1>9. (\E S : desk \in Seq(S)) /\ \A i \in DOMAIN desk : ProposalOK(desk[i])
  BY DEF IInv, DeskOK
<1>10. n \in Nat
  OBVIOUS
<1>11. (\E S : desk \o new \in Seq(S)) /\ \A i \in DOMAIN (desk \o new) : ProposalOK((desk \o new)[i])
  BY <1>6, <1>7, <1>8, <1>9, <1>10, DeskGrows
<1>12. desk' = desk \o new
  BY <1>3 DEF new, requests
<1>13. DeskOK'
  BY <1>11, <1>12 DEF DeskOK
<1> QED BY <1>1, <1>13

\* A proposal of which only the outcome is written stays a sound one.
LEMMA DeskMarked ==
    ASSUME DeskOK, NEW i \in DOMAIN desk, NEW p, DOMAIN p = ProposalFields,
           p.status \in {"open", "landed", "refused", "lapsed"},
           \A f \in ProposalFields \ {"status", "why"} : p[f] = desk[i][f],
           desk' = [desk EXCEPT ![i] = p]
    PROVE  DeskOK'
<1>1. ProposalOK(desk[i])
  BY DEF DeskOK
<1>2. /\ p.kind = desk[i].kind /\ p.rung = desk[i].rung /\ p.ix = desk[i].ix
      /\ p.at = desk[i].at /\ p.need = desk[i].need /\ p.seen = desk[i].seen
      /\ p.compiled = desk[i].compiled
  BY DEF ProposalFields
<1>3. ProposalOK(p)
  BY <1>1, <1>2 DEF ProposalOK
<1>4. PICK S : desk \in Seq(S)
  BY DEF DeskOK
<1>5. desk \in Seq(S \cup {p}) /\ DOMAIN desk = 1..Len(desk)
  BY <1>4, SeqMonotonic, LenProperties
<1>6. desk' \in Seq(S \cup {p})
  BY <1>5, ExceptSeq
<1>7. \A j \in DOMAIN desk' : ProposalOK(desk'[j])
  BY <1>3 DEF DeskOK
<1> QED BY <1>6, <1>7 DEF DeskOK

\* A signed proposal, accepted or refused, leaves chain and desk sound.
LEMMA SignKeeps ==
    ASSUME IInv, NEW i \in DOMAIN desk, Sign(i)
    PROVE  ChainOK(chain') /\ DeskOK'
<1>1. PICK why : /\ why = P!Complaints(chain, World, desk[i].ix)
                 /\ desk' = [desk EXCEPT ![i].status = IF why = {} THEN "landed" ELSE "refused",
                                         ![i].why = why]
                 /\ chain' = IF why = {} THEN P!Effect(chain, World, desk[i].ix) ELSE chain
  BY DEF Sign
<1>2. ProposalOK(desk[i]) /\ ChainOK(chain) /\ DeskOK
  BY DEF IInv, DeskOK
<1>3. InstructionOK(desk[i].ix)
  BY <1>2 DEF Sign, ProposalOK
<1>4. ChainOK(chain')
  <2>1. CASE why # {}
    BY <1>1, <1>2, <2>1
  <2>2. CASE why = {}
    <3>1. P!Complaints(chain, World, desk[i].ix) = {} /\ chain' = P!Effect(chain, World, desk[i].ix)
      BY <1>1, <2>2
    <3> QED BY <1>2, <1>3, <3>1, CreateKeeps, WriteKeeps DEF InstructionOK
  <2> QED BY <2>1, <2>2
<1>5. DeskOK'
  <2> DEFINE p == [desk[i] EXCEPT !.status = IF why = {} THEN "landed" ELSE "refused",
                                  !.why = why]
  <2>1. desk' = [desk EXCEPT ![i] = p]
    BY <1>1
  <2>2. /\ DOMAIN p = ProposalFields /\ p.status \in {"open", "landed", "refused", "lapsed"}
        /\ \A f \in ProposalFields \ {"status", "why"} : p[f] = desk[i][f]
    BY <1>2 DEF ProposalOK, ProposalFields
  <2> HIDE DEF p
  <2> QED BY <1>2, <2>1, <2>2, DeskMarked
<1> QED BY <1>4, <1>5

\* A proposal that goes out of date stays sound.
LEMMA LapseKeeps ==
    ASSUME IInv, NEW i \in DOMAIN desk, Lapse(i)
    PROVE  DeskOK'
<1>1. ProposalOK(desk[i]) /\ DeskOK
  BY DEF IInv, DeskOK
<1> DEFINE p == [desk[i] EXCEPT !.status = "lapsed"]
<1>2. desk' = [desk EXCEPT ![i] = p]
  BY DEF Lapse
<1>3. /\ DOMAIN p = ProposalFields /\ p.status \in {"open", "landed", "refused", "lapsed"}
      /\ \A f \in ProposalFields \ {"status", "why"} : p[f] = desk[i][f]
  BY <1>1 DEF ProposalOK, ProposalFields
<1> HIDE DEF p
<1> QED BY <1>1, <1>2, <1>3, DeskMarked

\* The writer's position in a series leaves the chain sound.
LEMMA OpenPositionKeeps ==
    ASSUME IInv, NEW series, OpenPosition(series)
    PROVE  ChainOK(chain')
<1> DEFINE ix == deliverableProgram("openPosition", [writer |-> WRITER, series |-> series])
<1>1. P!Accepts(chain, World, ix) /\ chain' = P!Effect(chain, World, ix)
  BY DEF OpenPosition
<1>2. ix.discriminator = 135
  BY DEF deliverableProgram, getOpenPositionInstructionAsync, getOpenPositionInstruction, Assembled
<1> HIDE DEF ix
<1> QED BY <1>1, <1>2, OpenKeeps DEF IInv, P!Accepts

\* So does an account for the option token.
LEMMA OpenTokenAccountKeeps ==
    ASSUME IInv, NEW series, OpenTokenAccount(series)
    PROVE  ChainOK(chain')
<1> DEFINE mint == findOptionMintPda(series)
           at == findAssociatedTokenPda(WRITER, mint)
           account == P!TokenAccount(mint, WRITER, 0)
<1>1. at \notin DOMAIN chain /\ chain' = (at :> account) @@ chain
  BY DEF OpenTokenAccount
<1>2. /\ DOMAIN account = {"type", "mint", "owner", "amount"}
      /\ account.type = "TokenAccount" /\ account.owner = WRITER
      /\ account.mint = mint /\ account.amount = 0
  BY DEF P!TokenAccount
<1>3. at[1] = "ata" /\ at[2] = WRITER /\ at[3] = mint
  BY DEF findAssociatedTokenPda
<1> HIDE DEF at, account, mint
<1>4. Made(chain, at, account, chain')
  BY <1>1 DEF Made, @@, :>
<1>5. TokenAccountOK(account) /\ account.type # "OptionSeries" /\ PlaceOK(at, account)
  BY <1>2, <1>3 DEF TokenAccountOK, PlaceOK
<1>6. "type" \in DOMAIN account
  BY <1>2
<1> QED BY <1>1, <1>4, <1>5, <1>6, AccountMade DEF IInv

\* A wallet may be emptied under a pass.
LEMMA WithdrawKeeps ==
    ASSUME IInv, Withdraw
    PROVE  ChainOK(chain')
<1> DEFINE at == findAssociatedTokenPda(WRITER, UNDERLYING)
<1>1. chain' = Written(chain, at, "amount", 0)
  BY DEF Withdraw, Written
<1>2. at \in DOMAIN chain /\ ChainOK(chain) /\ "amount" \in Mutable
  BY DEF IInv, ChainOK, Grounds, Mutable
<1> HIDE DEF at
<1> QED BY <1>1, <1>2, FieldWritten

\* The registry may be paused and unpaused.
LEMMA PauseKeeps ==
    ASSUME IInv, Pause
    PROVE  ChainOK(chain')
<1> DEFINE at == findRegistryPda
<1>1. PICK x : x = ~chain[at].paused
  OBVIOUS
<1>2. chain' = Written(chain, at, "paused", x)
  BY <1>1 DEF Pause, Written
<1>3. at \in DOMAIN chain /\ ChainOK(chain) /\ "paused" \in Mutable
  BY DEF IInv, ChainOK, Grounds, Mutable, P!Exists
<1> HIDE DEF at
<1> QED BY <1>2, <1>3, FieldWritten

\* An announcement fixes the multiplier in force and a positive one to come.
LEMMA AnnounceKeeps ==
    ASSUME IInv, Announce
    PROVE  ScaledOK'
<1>1. PICK m \in Multipliers, t \in now..(now + Quiet + 1) :
        scaled' = [multiplier |-> mintMultiplierAt(now).effective,
                   newMultiplier |-> m, effectiveTs |-> t]
  BY DEF Announce
<1>2. mintMultiplierAt(now).effective \in Nat \ {0} /\ m \in Nat \ {0}
  BY EffectiveNat, AgentAssumption DEF IInv
<1> QED BY <1>1, <1>2 DEF ScaledOK

\* Every step preserves the invariant.
LEMMA StepKeeps == IInv /\ [Next]_vars => IInv'
<1> SUFFICES ASSUME IInv, [Next]_vars PROVE IInv'
  OBVIOUS
<1>1. ASSUME chain' = chain PROVE ChainOK(chain)'
  BY <1>1 DEF IInv
<1>2. ASSUME scaled' = scaled PROVE ScaledOK'
  BY <1>2 DEF IInv, ScaledOK
<1>3. ASSUME run' = run PROVE RunOK'
  BY <1>3 DEF IInv, RunOK
<1>4. ASSUME desk' = desk PROVE DeskOK'
  BY <1>4 DEF IInv, DeskOK
<1>5. now' \in Nat
  <2>1. now \in Nat
    BY DEF IInv
  <2>2. now' = now \/ now' = now + 1
    BY DEF Next, Pass, Human, Outside, ReadRail, ReadMint, ReadSeries, ReadBalance, Plan,
         Sign, Lapse, OpenPosition, OpenTokenAccount, Tick, GateMoves, Announce, Withdraw,
         Pause, vars
  <2> QED BY <2>1, <2>2
<1>6. CASE UNCHANGED vars
  BY <1>1, <1>2, <1>3, <1>4, <1>5, <1>6 DEF vars, IInv
<1>7. ASSUME NEW at \in {now} \cup AskedTimes, NEW writer \in BOOLEAN, NEW assume \in BOOLEAN,
             ReadRail(at, writer, assume)
      PROVE  IInv'
  BY <1>1, <1>2, <1>4, <1>5, <1>7, ReadRailKeeps DEF IInv, ReadRail
<1>8. CASE ReadMint
  BY <1>1, <1>2, <1>4, <1>5, <1>8, ReadMintKeeps DEF IInv, ReadMint
<1>9. CASE ReadSeries
  BY <1>1, <1>2, <1>4, <1>5, <1>9, ReadSeriesKeeps DEF IInv, ReadSeries
<1>10. CASE ReadBalance
  BY <1>1, <1>2, <1>4, <1>5, <1>10, ReadBalanceKeeps DEF IInv, ReadBalance
<1>11. CASE Plan
  BY <1>1, <1>2, <1>5, <1>11, PlanKeeps DEF IInv, Plan
<1>12. ASSUME NEW i \in DOMAIN desk, Sign(i) PROVE IInv'
  BY <1>2, <1>3, <1>5, <1>12, SignKeeps DEF IInv, Sign
<1>13. ASSUME NEW i \in DOMAIN desk, Lapse(i) PROVE IInv'
  BY <1>1, <1>2, <1>3, <1>5, <1>13, LapseKeeps DEF IInv, Lapse
<1>14. ASSUME NEW series, OpenPosition(series) PROVE IInv'
  BY <1>2, <1>3, <1>4, <1>5, <1>14, OpenPositionKeeps DEF IInv, OpenPosition
<1>15. ASSUME NEW series, OpenTokenAccount(series) PROVE IInv'
  BY <1>2, <1>3, <1>4, <1>5, <1>15, OpenTokenAccountKeeps DEF IInv, OpenTokenAccount
<1>16. CASE Tick
  BY <1>1, <1>2, <1>3, <1>4, <1>5, <1>16 DEF IInv, Tick
<1>17. CASE GateMoves
  BY <1>1, <1>2, <1>3, <1>4, <1>5, <1>17 DEF IInv, GateMoves
<1>18. CASE Announce
  BY <1>1, <1>3, <1>4, <1>5, <1>18, AnnounceKeeps DEF IInv, Announce
<1>19. CASE Withdraw
  BY <1>2, <1>3, <1>4, <1>5, <1>19, WithdrawKeeps DEF IInv, Withdraw
<1>20. CASE Pause
  BY <1>2, <1>3, <1>4, <1>5, <1>20, PauseKeeps DEF IInv, Pause
<1> QED BY <1>6, <1>7, <1>8, <1>9, <1>10, <1>11, <1>12, <1>13, <1>14, <1>15, <1>16, <1>17,
           <1>18, <1>19, <1>20 DEF Next, Pass, Human, Outside

-----------------------------------------------------------------------------
(* The theorems *)

\* What the chain, the pass and the desk always are, for every clock, ladder and
\* multiplier: no transaction of the agent or of the writer leaves an account
\* where its address does not say.
THEOREM AgentInvariant == Spec => []IInv
BY InitOK, StepKeeps, PTL DEF Spec

\* yield.ts snapToSession: every expiry proposed is a session of the SDK's
\* calendar after the instant it was priced for; and every series that landed
\* stands where its terms put it.
THEOREM AgentTypeCorrect == Spec => []TypeOK
<1>1. IInv => TypeOK
  <2> SUFFICES ASSUME IInv PROVE TypeOK
    OBVIOUS
  <2>1. \A i \in DOMAIN desk :
          /\ desk[i].rung.expiryTs \in SdkSessions
          /\ desk[i].rung.expiryTs > desk[i].at
          /\ desk[i].status \in {"open", "landed", "refused", "lapsed"}
    BY DEF IInv, DeskOK, ProposalOK
  <2>2. \A a \in SeriesOnChain : a = P!SeriesSeeds(chain[a])
    BY DEF IInv, ChainOK, SeriesOK, SeriesOnChain
  <2>3. run = Idle \/ run.pc \in {"mint", "series", "balance", "plan"}
    BY DEF IInv, RunOK
  <2> QED BY <2>1, <2>2, <2>3 DEF TypeOK
<1> QED BY <1>1, AgentInvariant, PTL

\* A write sized on a balance never asks for more raw units than the balance
\* had, when the multiplier did not change between the two reads.
THEOREM AgentSizedOnWhatIsSeen == Spec => []SizedOnWhatIsSeen
<1>1. IInv => SizedOnWhatIsSeen
  BY DEF IInv, DeskOK, ProposalOK, SizedOnWhatIsSeen
<1> QED BY <1>1, AgentInvariant, PTL

-----------------------------------------------------------------------------
(* What a client of the SDK builds for a series it has found *)

\* The account each field of a series operation means, whoever asks.
Full(series) ==
    [writer |-> WRITER, holder |-> WRITER, series |-> series,
     registry |-> findRegistryPda, security |-> findSecurityPda(UNDERLYING),
     calendar |-> findCalendarPda(CalendarId),
     underlyingMint |-> UNDERLYING, quoteMint |-> DEFAULT_QUOTE_MINT,
     writerUnderlying |-> findAssociatedTokenPda(WRITER, UNDERLYING),
     holderUnderlying |-> findAssociatedTokenPda(WRITER, UNDERLYING),
     writerOption |-> findAssociatedTokenPda(WRITER, findOptionMintPda(series)),
     holderOption |-> findAssociatedTokenPda(WRITER, findOptionMintPda(series)),
     writerQuote |-> findAssociatedTokenPda(WRITER, DEFAULT_QUOTE_MINT),
     holderQuote |-> findAssociatedTokenPda(WRITER, DEFAULT_QUOTE_MINT),
     optionMint |-> findOptionMintPda(series),
     collateralVault |-> findCollateralVaultPda(series),
     premiumVault |-> findPremiumVaultPda(series),
     quoteVault |-> findQuoteVaultPda(series),
     position |-> findPositionPda(series, WRITER),
     primaryOracle |-> SCOPE_PRICES_ADDRESS, secondaryOracle |-> SCOPE_PRICES_ADDRESS,
     underlyingTokenProgram |-> TOKEN_2022_PROGRAM_ADDRESS,
     quoteTokenProgram |-> TOKEN_PROGRAM_ADDRESS, systemProgram |-> SYSTEM_PROGRAM,
     contracts |-> 1]

\* The type the program's contexts give each of them.
Types ==
    [writer |-> "Any", holder |-> "Any", series |-> "OptionSeries",
     registry |-> "Registry", security |-> "SecurityState", calendar |-> "MarketCalendar",
     underlyingMint |-> "Mint", quoteMint |-> "Mint",
     writerUnderlying |-> "TokenAccount", holderUnderlying |-> "TokenAccount",
     writerOption |-> "TokenAccount", holderOption |-> "TokenAccount",
     writerQuote |-> "TokenAccount", holderQuote |-> "TokenAccount",
     optionMint |-> "Mint", collateralVault |-> "TokenAccount",
     premiumVault |-> "TokenAccount", quoteVault |-> "TokenAccount",
     position |-> "WriterPosition", primaryOracle |-> "Any", secondaryOracle |-> "Any",
     underlyingTokenProgram |-> "Program", quoteTokenProgram |-> "Program",
     systemProgram |-> "Program"]

ClientNames ==
    {"writer", "holder", "series", "calendar", "underlyingMint", "quoteMint",
     "writerUnderlying", "holderUnderlying", "writerOption", "holderOption",
     "writerQuote", "holderQuote", "underlyingTokenProgram", "quoteTokenProgram",
     "contracts", "security", "optionMint", "collateralVault", "premiumVault",
     "quoteVault", "primaryOracle", "secondaryOracle"}

\* f says nothing that h does not.
Within(f, h) == \A n \in DOMAIN f : n \in DOMAIN h /\ f[n] = h[n]

\* Two inputs that say nothing new say nothing new together.
LEMMA OverlayWithin ==
    ASSUME NEW f, NEW g, NEW h, Within(f, h), Within(g, h)
    PROVE  Within(f @@ g, h)
BY DEF Within, @@

\* The input a client forms from a series it has read means the series' own
\* accounts: they are UNDERLYING's and the quote mint's, whatever it reads.
LEMMA ClientInputIs ==
    ASSUME ChainOK(chain), NEW series \in SeriesOnChain
    PROVE  DOMAIN ClientInput(series) = ClientNames /\ Within(ClientInput(series), Full(series))
<1> DEFINE view == chain[series]
           option == findAssociatedTokenPda(WRITER, findOptionMintPda(series))
           underlying == findAssociatedTokenPda(WRITER, view.underlying_mint)
           quote == findAssociatedTokenPda(WRITER, view.quote_mint)
           own == [writer |-> WRITER, holder |-> WRITER, series |-> series,
                   calendar |-> findCalendarPda(CalendarId),
                   underlyingMint |-> view.underlying_mint, quoteMint |-> view.quote_mint,
                   writerUnderlying |-> underlying, holderUnderlying |-> underlying,
                   writerOption |-> option, holderOption |-> option,
                   writerQuote |-> quote, holderQuote |-> quote,
                   underlyingTokenProgram |-> TOKEN_2022_PROGRAM_ADDRESS,
                   quoteTokenProgram |-> TOKEN_PROGRAM_ADDRESS, contracts |-> 1]
           found == seriesAccounts(series, view.underlying_mint)
<1>1. view.underlying_mint = UNDERLYING /\ view.quote_mint = DEFAULT_QUOTE_MINT
  BY DEF ChainOK, SeriesOK, SeriesOnChain
<1>2. ClientInput(series) = (own @@ found) @@ oracleAccountsFor
  BY DEF ClientInput
<1>3. Within(own, Full(series))
  <2>1. DOMAIN own \subseteq DOMAIN Full(series)
    BY DEF Full
  <2>2. \A n \in DOMAIN own : own[n] = Full(series)[n]
    BY <1>1 DEF Full
  <2> QED BY <2>1, <2>2 DEF Within
<1>4. Within(found, Full(series))
  <2>1. DOMAIN found \subseteq DOMAIN Full(series)
    BY DEF Full, seriesAccounts
  <2>2. \A n \in DOMAIN found : found[n] = Full(series)[n]
    BY <1>1 DEF Full, seriesAccounts
  <2> QED BY <2>1, <2>2 DEF Within
<1>5. Within(oracleAccountsFor, Full(series))
  BY DEF Within, Full, oracleAccountsFor
<1>6. /\ DOMAIN own = {"writer", "holder", "series", "calendar", "underlyingMint", "quoteMint",
           "writerUnderlying", "holderUnderlying", "writerOption", "holderOption",
           "writerQuote", "holderQuote", "underlyingTokenProgram", "quoteTokenProgram",
           "contracts"}
      /\ DOMAIN found = {"security", "optionMint", "collateralVault", "premiumVault", "quoteVault"}
      /\ DOMAIN oracleAccountsFor = {"primaryOracle", "secondaryOracle"}
  BY DEF seriesAccounts, oracleAccountsFor
<1> HIDE DEF own, found
<1>7. DOMAIN ((own @@ found) @@ oracleAccountsFor) = ClientNames
  <2> DEFINE both == own @@ found
  <2>1. DOMAIN both = DOMAIN own \cup DOMAIN found
    BY DEF @@
  <2> HIDE DEF both
  <2>2. DOMAIN (both @@ oracleAccountsFor) = DOMAIN both \cup DOMAIN oracleAccountsFor
    BY DEF @@
  <2>3. DOMAIN (both @@ oracleAccountsFor) = ClientNames
    BY <1>6, <2>1, <2>2 DEF ClientNames
  <2> QED BY <2>3 DEF both
<1>8. Within((own @@ found) @@ oracleAccountsFor, Full(series))
  BY <1>3, <1>4, <1>5, OverlayWithin
<1> QED BY <1>2, <1>7, <1>8

\* What the context of a series operation asks for.
Shape(op) ==
    LET fields == P!Contexts[op]
        names == {fields[i].name : i \in DOMAIN fields}
    IN  /\ names \subseteq DOMAIN Types
        /\ \A i \in DOMAIN fields :
              ~fields[i].init => fields[i].type \in {"Any", Types[fields[i].name]}
        /\ "series" \in names
        /\ "position" \in names => "writer" \in names
        /\ "security" \in names => "underlyingMint" \in names
        /\ names \cap P!Wallets # {} => names \cap {"writer", "holder"} # {}


\* The context of write asks for nothing a client does not know.
LEMMA WriteShape == Shape("write")
<1> DEFINE fields == P!WriteContexts.write
           names == {fields[i].name : i \in DOMAIN fields}
<1> USE DEF P!WriteContexts, P!SeriesContexts, P!SettleContexts, P!MutSigner, P!Signer,
         P!Account, P!MutAccount, P!InitAccount, P!Unchecked, P!Field
<1>1. DOMAIN fields = 1..15
  OBVIOUS
<1>2. /\ fields[1].name = "writer"
      /\ fields[5].name = "series"
      /\ fields[6].name = "underlyingMint"
  OBVIOUS
<1>3. \A i \in 1..15 : fields[i].name \in DOMAIN Types
  BY DEF Types
<1>4. \A i \in 1..15 : ~fields[i].init => fields[i].type \in {"Any", Types[fields[i].name]}
  BY DEF Types
<1> HIDE DEF fields
<1>6. {"writer", "series", "underlyingMint"} \subseteq names
  BY <1>1, <1>2
<1>7. P!Contexts["write"] = fields
  BY ContextsAre DEF fields
<1>8. names \subseteq DOMAIN Types
  BY <1>1, <1>3
<1> HIDE DEF names
<1> QED BY <1>1, <1>4, <1>6, <1>7, <1>8 DEF Shape, names


\* The context of open_position asks for nothing a client does not know.
LEMMA OpenPositionShape == Shape("openPosition")
<1> DEFINE fields == P!WriteContexts.openPosition
           names == {fields[i].name : i \in DOMAIN fields}
<1> USE DEF P!WriteContexts, P!SeriesContexts, P!SettleContexts, P!MutSigner, P!Signer,
         P!Account, P!MutAccount, P!InitAccount, P!Unchecked, P!Field
<1>1. DOMAIN fields = 1..4
  OBVIOUS
<1>2. /\ fields[1].name = "writer"
      /\ fields[2].name = "series"
  OBVIOUS
<1>3. \A i \in 1..4 : fields[i].name \in DOMAIN Types
  BY DEF Types
<1>4. \A i \in 1..4 : ~fields[i].init => fields[i].type \in {"Any", Types[fields[i].name]}
  BY DEF Types
<1>5. \A i \in 1..4 : fields[i].name # "security"
  BY DEF P!Wallets
<1> HIDE DEF fields
<1>6. {"writer", "series"} \subseteq names
  BY <1>1, <1>2
<1>7. P!Contexts["openPosition"] = fields
  BY ContextsAre DEF fields
<1>8. names \subseteq DOMAIN Types
  BY <1>1, <1>3
<1>9. "security" \notin names
  BY <1>1, <1>5
<1> HIDE DEF names
<1> QED BY <1>1, <1>4, <1>6, <1>7, <1>8, <1>9 DEF Shape, names


\* The context of claim_premium asks for nothing a client does not know.
LEMMA ClaimPremiumShape == Shape("claimPremium")
<1> DEFINE fields == P!WriteContexts.claimPremium
           names == {fields[i].name : i \in DOMAIN fields}
<1> USE DEF P!WriteContexts, P!SeriesContexts, P!SettleContexts, P!MutSigner, P!Signer,
         P!Account, P!MutAccount, P!InitAccount, P!Unchecked, P!Field
<1>1. DOMAIN fields = 1..12
  OBVIOUS
<1>2. /\ fields[1].name = "writer"
      /\ fields[5].name = "series"
      /\ fields[7].name = "underlyingMint"
  OBVIOUS
<1>3. \A i \in 1..12 : fields[i].name \in DOMAIN Types
  BY DEF Types
<1>4. \A i \in 1..12 : ~fields[i].init => fields[i].type \in {"Any", Types[fields[i].name]}
  BY DEF Types
<1> HIDE DEF fields
<1>6. {"writer", "series", "underlyingMint"} \subseteq names
  BY <1>1, <1>2
<1>7. P!Contexts["claimPremium"] = fields
  BY ContextsAre DEF fields
<1>8. names \subseteq DOMAIN Types
  BY <1>1, <1>3
<1> HIDE DEF names
<1> QED BY <1>1, <1>4, <1>6, <1>7, <1>8 DEF Shape, names


\* The context of exercise asks for nothing a client does not know.
LEMMA ExerciseShape == Shape("exercise")
<1> DEFINE fields == P!SettleContexts.exercise
           names == {fields[i].name : i \in DOMAIN fields}
<1> USE DEF P!WriteContexts, P!SeriesContexts, P!SettleContexts, P!MutSigner, P!Signer,
         P!Account, P!MutAccount, P!InitAccount, P!Unchecked, P!Field
<1>1. DOMAIN fields = 1..17
  OBVIOUS
<1>2. /\ fields[1].name = "holder"
      /\ fields[5].name = "series"
      /\ fields[6].name = "underlyingMint"
  OBVIOUS
<1>3. \A i \in 1..17 : fields[i].name \in DOMAIN Types
  BY DEF Types
<1>4. \A i \in 1..17 : ~fields[i].init => fields[i].type \in {"Any", Types[fields[i].name]}
  BY DEF Types
<1>5. \A i \in 1..17 : fields[i].name # "position"
  BY DEF P!Wallets
<1> HIDE DEF fields
<1>6. {"holder", "series", "underlyingMint"} \subseteq names
  BY <1>1, <1>2
<1>7. P!Contexts["exercise"] = fields
  BY ContextsAre DEF fields
<1>8. names \subseteq DOMAIN Types
  BY <1>1, <1>3
<1>9. "position" \notin names
  BY <1>1, <1>5
<1> HIDE DEF names
<1> QED BY <1>1, <1>4, <1>6, <1>7, <1>8, <1>9 DEF Shape, names


\* The context of settle_expired asks for nothing a client does not know.
LEMMA SettleExpiredShape == Shape("settleExpired")
<1> DEFINE fields == P!SettleContexts.settleExpired
           names == {fields[i].name : i \in DOMAIN fields}
<1> USE DEF P!WriteContexts, P!SeriesContexts, P!SettleContexts, P!MutSigner, P!Signer,
         P!Account, P!MutAccount, P!InitAccount, P!Unchecked, P!Field
<1>1. DOMAIN fields = 1..13
  OBVIOUS
<1>2. /\ fields[1].name = "writer"
      /\ fields[4].name = "series"
      /\ fields[6].name = "underlyingMint"
  OBVIOUS
<1>3. \A i \in 1..13 : fields[i].name \in DOMAIN Types
  BY DEF Types
<1>4. \A i \in 1..13 : ~fields[i].init => fields[i].type \in {"Any", Types[fields[i].name]}
  BY DEF Types
<1> HIDE DEF fields
<1>6. {"writer", "series", "underlyingMint"} \subseteq names
  BY <1>1, <1>2
<1>7. P!Contexts["settleExpired"] = fields
  BY ContextsAre DEF fields
<1>8. names \subseteq DOMAIN Types
  BY <1>1, <1>3
<1> HIDE DEF names
<1> QED BY <1>1, <1>4, <1>6, <1>7, <1>8 DEF Shape, names


\* The context of acknowledge_adjustment asks for nothing a client does not know.
LEMMA AcknowledgeAdjustmentShape == Shape("acknowledgeAdjustment")
<1> DEFINE fields == P!SeriesContexts.acknowledgeAdjustment
           names == {fields[i].name : i \in DOMAIN fields}
<1> USE DEF P!WriteContexts, P!SeriesContexts, P!SettleContexts, P!MutSigner, P!Signer,
         P!Account, P!MutAccount, P!InitAccount, P!Unchecked, P!Field
<1>1. DOMAIN fields = 1..2
  OBVIOUS
<1>2. /\ fields[1].name = "series"
      /\ fields[2].name = "underlyingMint"
  OBVIOUS
<1>3. \A i \in 1..2 : fields[i].name \in DOMAIN Types
  BY DEF Types
<1>4. \A i \in 1..2 : ~fields[i].init => fields[i].type \in {"Any", Types[fields[i].name]}
  BY DEF Types
<1>5. \A i \in 1..2 : fields[i].name # "position" /\ fields[i].name \notin P!Wallets
  BY DEF P!Wallets
<1> HIDE DEF fields
<1>6. {"series", "underlyingMint"} \subseteq names
  BY <1>1, <1>2
<1>7. P!Contexts["acknowledgeAdjustment"] = fields
  BY ContextsAre DEF fields
<1>8. names \subseteq DOMAIN Types
  BY <1>1, <1>3
<1>9. "position" \notin names /\ names \cap P!Wallets = {}
  BY <1>1, <1>5
<1> HIDE DEF names
<1> QED BY <1>1, <1>4, <1>6, <1>7, <1>8, <1>9 DEF Shape, names


\* The builder of write has, or derives, every account it lists.
LEMMA WriteBuilt ==
    ASSUME NEW series, NEW input, DOMAIN input = ClientNames, Within(input, Full(series))
    PROVE  \E given :
              /\ deliverableProgram("write", input) =
                    Assembled(235, WriteInstruction, WriteInstructionData, given)
              /\ Within(given, Full(series))
              /\ Covers(given, WriteInstruction)
<1> DEFINE extra == [registry |-> findRegistryPda,
                     security |-> findSecurityPda(input.underlyingMint),
                     premiumVault |-> findPremiumVaultPda(input.series),
                     position |-> findPositionPda(input.series, input.writer)]
           given == input @@ extra
<1>1. deliverableProgram("write", input) =
         Assembled(235, WriteInstruction, WriteInstructionData, given)
  BY DEF deliverableProgram, getWriteInstructionAsync, getWriteInstruction
<1>2. \A i \in 1..15 : WriteInstruction[i].name \in ClientNames \cup {"registry", "security", "premiumVault", "position"}
  BY DEF WriteInstruction, WS, RS, W, R, Role, ClientNames
<1>3. /\ input.underlyingMint = UNDERLYING /\ input.series = series /\ input.writer = WRITER
  BY DEF Within, Full, ClientNames
<1>4. DOMAIN extra = {"registry", "security", "premiumVault", "position"}
  OBVIOUS
<1>5. Within(extra, Full(series))
  <2>1. DOMAIN extra \subseteq DOMAIN Full(series)
    BY DEF Full
  <2>2. \A n \in DOMAIN extra : extra[n] = Full(series)[n]
    BY <1>3 DEF Full
  <2> QED BY <2>1, <2>2 DEF Within
<1> HIDE DEF extra
<1>7. Within(given, Full(series))
  BY <1>5, OverlayWithin
<1>8. DOMAIN given = ClientNames \cup {"registry", "security", "premiumVault", "position"}
  BY <1>4, OverlayDomain
<1> HIDE DEF given
<1> QED BY <1>1, <1>2, <1>7, <1>8, WriteAgrees DEF Covers


\* The builder of open_position has, or derives, every account it lists.
LEMMA OpenPositionBuilt ==
    ASSUME NEW series, NEW input, DOMAIN input = ClientNames, Within(input, Full(series))
    PROVE  \E given :
              /\ deliverableProgram("openPosition", input) =
                    Assembled(135, OpenPositionInstruction, OpenPositionInstructionData, given)
              /\ Within(given, Full(series))
              /\ Covers(given, OpenPositionInstruction)
<1> DEFINE extra == [position |-> findPositionPda(input.series, input.writer)]
           system == [systemProgram |-> SYSTEM_PROGRAM]
           given == (input @@ extra) @@ system
<1>1. deliverableProgram("openPosition", input) =
         Assembled(135, OpenPositionInstruction, OpenPositionInstructionData, given)
  BY DEF deliverableProgram, getOpenPositionInstructionAsync, getOpenPositionInstruction
<1>2. \A i \in 1..4 : OpenPositionInstruction[i].name \in ClientNames \cup {"position", "systemProgram"}
  BY DEF OpenPositionInstruction, WS, RS, W, R, Role, ClientNames
<1>3. /\ input.underlyingMint = UNDERLYING /\ input.series = series /\ input.writer = WRITER
  BY DEF Within, Full, ClientNames
<1>4. DOMAIN extra = {"position"}
  OBVIOUS
<1>5. Within(extra, Full(series))
  <2>1. DOMAIN extra \subseteq DOMAIN Full(series)
    BY DEF Full
  <2>2. \A n \in DOMAIN extra : extra[n] = Full(series)[n]
    BY <1>3 DEF Full
  <2> QED BY <2>1, <2>2 DEF Within
<1>6. Within(system, Full(series)) /\ DOMAIN system = {"systemProgram"}
  BY DEF Within, Full
<1> HIDE DEF extra, system
<1>7. Within(given, Full(series))
  BY <1>5, <1>6, OverlayWithin
<1>8. DOMAIN given = ClientNames \cup {"position", "systemProgram"}
  <2> DEFINE both == input @@ extra
  <2>1. DOMAIN both = DOMAIN input \cup DOMAIN extra
    BY DEF @@
  <2> HIDE DEF both
  <2>2. DOMAIN (both @@ system) = DOMAIN both \cup DOMAIN system
    BY DEF @@
  <2>3. DOMAIN (both @@ system) = ClientNames \cup {"position", "systemProgram"}
    BY <1>4, <1>6, <2>1, <2>2
  <2> QED BY <2>3 DEF both
<1> HIDE DEF given
<1> QED BY <1>1, <1>2, <1>7, <1>8, OpenPositionAgrees DEF Covers


\* The builder of claim_premium has, or derives, every account it lists.
LEMMA ClaimPremiumBuilt ==
    ASSUME NEW series, NEW input, DOMAIN input = ClientNames, Within(input, Full(series))
    PROVE  \E given :
              /\ deliverableProgram("claimPremium", input) =
                    Assembled(225, ClaimPremiumInstruction, ClaimPremiumInstructionData, given)
              /\ Within(given, Full(series))
              /\ Covers(given, ClaimPremiumInstruction)
<1> DEFINE extra == [registry |-> findRegistryPda,
                     security |-> findSecurityPda(input.underlyingMint),
                     position |-> findPositionPda(input.series, input.writer),
                     premiumVault |-> findPremiumVaultPda(input.series)]
           given == input @@ extra
<1>1. deliverableProgram("claimPremium", input) =
         Assembled(225, ClaimPremiumInstruction, ClaimPremiumInstructionData, given)
  BY DEF deliverableProgram, getClaimPremiumInstructionAsync, getClaimPremiumInstruction
<1>2. \A i \in 1..12 : ClaimPremiumInstruction[i].name \in ClientNames \cup {"registry", "security", "position", "premiumVault"}
  BY DEF ClaimPremiumInstruction, WS, RS, W, R, Role, ClientNames
<1>3. /\ input.underlyingMint = UNDERLYING /\ input.series = series /\ input.writer = WRITER
  BY DEF Within, Full, ClientNames
<1>4. DOMAIN extra = {"registry", "security", "position", "premiumVault"}
  OBVIOUS
<1>5. Within(extra, Full(series))
  <2>1. DOMAIN extra \subseteq DOMAIN Full(series)
    BY DEF Full
  <2>2. \A n \in DOMAIN extra : extra[n] = Full(series)[n]
    BY <1>3 DEF Full
  <2> QED BY <2>1, <2>2 DEF Within
<1> HIDE DEF extra
<1>7. Within(given, Full(series))
  BY <1>5, OverlayWithin
<1>8. DOMAIN given = ClientNames \cup {"registry", "security", "position", "premiumVault"}
  BY <1>4, OverlayDomain
<1> HIDE DEF given
<1> QED BY <1>1, <1>2, <1>7, <1>8, ClaimPremiumAgrees DEF Covers


\* The builder of exercise has, or derives, every account it lists.
LEMMA ExerciseBuilt ==
    ASSUME NEW series, NEW input, DOMAIN input = ClientNames, Within(input, Full(series))
    PROVE  \E given :
              /\ deliverableProgram("exercise", input) =
                    Assembled(144, ExerciseInstruction, ExerciseInstructionData, given)
              /\ Within(given, Full(series))
              /\ Covers(given, ExerciseInstruction)
<1> DEFINE extra == [registry |-> findRegistryPda,
                     security |-> findSecurityPda(input.underlyingMint),
                     collateralVault |-> findCollateralVaultPda(input.series),
                     quoteVault |-> findQuoteVaultPda(input.series)]
           given == input @@ extra
<1>1. deliverableProgram("exercise", input) =
         Assembled(144, ExerciseInstruction, ExerciseInstructionData, given)
  BY DEF deliverableProgram, getExerciseInstructionAsync, getExerciseInstruction
<1>2. \A i \in 1..17 : ExerciseInstruction[i].name \in ClientNames \cup {"registry", "security", "collateralVault", "quoteVault"}
  BY DEF ExerciseInstruction, WS, RS, W, R, Role, ClientNames
<1>3. /\ input.underlyingMint = UNDERLYING /\ input.series = series /\ input.writer = WRITER
  BY DEF Within, Full, ClientNames
<1>4. DOMAIN extra = {"registry", "security", "collateralVault", "quoteVault"}
  OBVIOUS
<1>5. Within(extra, Full(series))
  <2>1. DOMAIN extra \subseteq DOMAIN Full(series)
    BY DEF Full
  <2>2. \A n \in DOMAIN extra : extra[n] = Full(series)[n]
    BY <1>3 DEF Full
  <2> QED BY <2>1, <2>2 DEF Within
<1> HIDE DEF extra
<1>7. Within(given, Full(series))
  BY <1>5, OverlayWithin
<1>8. DOMAIN given = ClientNames \cup {"registry", "security", "collateralVault", "quoteVault"}
  BY <1>4, OverlayDomain
<1> HIDE DEF given
<1> QED BY <1>1, <1>2, <1>7, <1>8, ExerciseAgrees DEF Covers


\* The builder of settle_expired has, or derives, every account it lists.
LEMMA SettleExpiredBuilt ==
    ASSUME NEW series, NEW input, DOMAIN input = ClientNames, Within(input, Full(series))
    PROVE  \E given :
              /\ deliverableProgram("settleExpired", input) =
                    Assembled(187, SettleExpiredInstruction, SettleExpiredInstructionData, given)
              /\ Within(given, Full(series))
              /\ Covers(given, SettleExpiredInstruction)
<1> DEFINE extra == [position |-> findPositionPda(input.series, input.writer)]
           given == input @@ extra
<1>1. deliverableProgram("settleExpired", input) =
         Assembled(187, SettleExpiredInstruction, SettleExpiredInstructionData, given)
  BY DEF deliverableProgram, getSettleExpiredInstructionAsync, getSettleExpiredInstruction
<1>2. \A i \in 1..13 : SettleExpiredInstruction[i].name \in ClientNames \cup {"position"}
  BY DEF SettleExpiredInstruction, WS, RS, W, R, Role, ClientNames
<1>3. /\ input.underlyingMint = UNDERLYING /\ input.series = series /\ input.writer = WRITER
  BY DEF Within, Full, ClientNames
<1>4. DOMAIN extra = {"position"}
  OBVIOUS
<1>5. Within(extra, Full(series))
  <2>1. DOMAIN extra \subseteq DOMAIN Full(series)
    BY DEF Full
  <2>2. \A n \in DOMAIN extra : extra[n] = Full(series)[n]
    BY <1>3 DEF Full
  <2> QED BY <2>1, <2>2 DEF Within
<1> HIDE DEF extra
<1>7. Within(given, Full(series))
  BY <1>5, OverlayWithin
<1>8. DOMAIN given = ClientNames \cup {"position"}
  BY <1>4, OverlayDomain
<1> HIDE DEF given
<1> QED BY <1>1, <1>2, <1>7, <1>8, SettleExpiredAgrees DEF Covers


\* The builder of acknowledge_adjustment has, or derives, every account it lists.
LEMMA AcknowledgeAdjustmentBuilt ==
    ASSUME NEW series, NEW input, DOMAIN input = ClientNames, Within(input, Full(series))
    PROVE  \E given :
              /\ deliverableProgram("acknowledgeAdjustment", input) =
                    Assembled(226, AcknowledgeAdjustmentInstruction, AcknowledgeAdjustmentInstructionData, given)
              /\ Within(given, Full(series))
              /\ Covers(given, AcknowledgeAdjustmentInstruction)
<1> DEFINE given == input
<1>1. deliverableProgram("acknowledgeAdjustment", input) =
         Assembled(226, AcknowledgeAdjustmentInstruction, AcknowledgeAdjustmentInstructionData, given)
  BY DEF deliverableProgram, getAcknowledgeAdjustmentInstruction
<1>2. \A i \in 1..2 : AcknowledgeAdjustmentInstruction[i].name \in ClientNames
  BY DEF AcknowledgeAdjustmentInstruction, WS, RS, W, R, Role, ClientNames
<1> QED BY <1>1, <1>2, AcknowledgeAdjustmentAgrees DEF Covers

\* The accounts a series operation names are there, and of their types.
LEMMA FullExists ==
    ASSUME ChainOK(chain), NEW series \in SeriesOnChain,
           findPositionPda(series, WRITER) \in DOMAIN chain,
           findAssociatedTokenPda(WRITER, findOptionMintPda(series)) \in DOMAIN chain,
           NEW n \in DOMAIN Types, Types[n] # "Any"
    PROVE  P!Exists(chain, Full(series)[n], Types[n])
<1>1. /\ P!Exists(chain, series, "OptionSeries")
      /\ SeriesOK(chain, series) /\ Grounds(chain)
  BY DEF SeriesOnChain, P!Exists, ChainOK
<1>2. /\ P!Exists(chain, findOptionMintPda(series), "Mint")
      /\ P!Exists(chain, findCollateralVaultPda(series), "TokenAccount")
      /\ P!Exists(chain, findPremiumVaultPda(series), "TokenAccount")
      /\ P!Exists(chain, findQuoteVaultPda(series), "TokenAccount")
      /\ SECURITY \in DOMAIN chain
  BY <1>1 DEF SeriesOK, SeriesOnChain
<1>3. P!Exists(chain, findSecurityPda(UNDERLYING), "SecurityState")
  <2>1. SECURITY[1] = "security"
    BY DEF SECURITY, findSecurityPda
  <2>2. chain[SECURITY].type = "SecurityState"
    BY <1>2, <2>1 DEF ChainOK, PlaceOK
  <2> QED BY <1>2, <2>2 DEF P!Exists, SECURITY
<1>4. P!Exists(chain, findPositionPda(series, WRITER), "WriterPosition")
  <2>1. findPositionPda(series, WRITER)[1] = "writer"
    BY DEF findPositionPda
  <2>2. chain[findPositionPda(series, WRITER)].type = "WriterPosition"
    BY <2>1 DEF ChainOK, PlaceOK
  <2> QED BY <2>2 DEF P!Exists
<1>5. \A mint : findAssociatedTokenPda(WRITER, mint) \in DOMAIN chain =>
         P!Exists(chain, findAssociatedTokenPda(WRITER, mint), "TokenAccount")
  <2> SUFFICES ASSUME NEW mint, findAssociatedTokenPda(WRITER, mint) \in DOMAIN chain
               PROVE  P!Exists(chain, findAssociatedTokenPda(WRITER, mint), "TokenAccount")
    OBVIOUS
  <2>1. findAssociatedTokenPda(WRITER, mint)[1] = "ata"
    BY DEF findAssociatedTokenPda
  <2>2. chain[findAssociatedTokenPda(WRITER, mint)].type = "TokenAccount"
    BY <2>1 DEF ChainOK, PlaceOK
  <2> QED BY <2>2 DEF P!Exists
<1>6. /\ P!Exists(chain, findAssociatedTokenPda(WRITER, UNDERLYING), "TokenAccount")
      /\ P!Exists(chain, findAssociatedTokenPda(WRITER, DEFAULT_QUOTE_MINT), "TokenAccount")
      /\ P!Exists(chain, findAssociatedTokenPda(WRITER, findOptionMintPda(series)), "TokenAccount")
  BY <1>1, <1>5 DEF Grounds
<1>7. /\ P!Exists(chain, SYSTEM_PROGRAM, "Program")
      /\ P!Exists(chain, TOKEN_PROGRAM_ADDRESS, "Program")
      /\ P!Exists(chain, TOKEN_2022_PROGRAM_ADDRESS, "Program")
      /\ P!Exists(chain, UNDERLYING, "Mint") /\ P!Exists(chain, DEFAULT_QUOTE_MINT, "Mint")
      /\ P!Exists(chain, findRegistryPda, "Registry")
      /\ P!Exists(chain, findCalendarPda(CalendarId), "MarketCalendar")
  BY <1>1 DEF Grounds
<1>8. CASE n \in {"series", "registry", "security", "calendar", "position"}
  BY <1>1, <1>3, <1>4, <1>7, <1>8 DEF Full, Types
<1>9. CASE n \in {"underlyingMint", "quoteMint", "optionMint"}
  BY <1>2, <1>7, <1>9 DEF Full, Types
<1>10. CASE n \in {"collateralVault", "premiumVault", "quoteVault"}
  BY <1>2, <1>10 DEF Full, Types
<1>11. CASE n \in {"writerUnderlying", "holderUnderlying", "writerOption", "holderOption",
                   "writerQuote", "holderQuote"}
  BY <1>6, <1>11 DEF Full, Types
<1>12. CASE n \in {"underlyingTokenProgram", "quoteTokenProgram", "systemProgram"}
  BY <1>7, <1>12 DEF Full, Types
<1>13. n \in {"series", "registry", "security", "calendar", "position",
              "underlyingMint", "quoteMint", "optionMint",
              "collateralVault", "premiumVault", "quoteVault",
              "writerUnderlying", "holderUnderlying", "writerOption", "holderOption",
              "writerQuote", "holderQuote",
              "underlyingTokenProgram", "quoteTokenProgram", "systemProgram"}
  BY DEF Types
<1> QED BY <1>8, <1>9, <1>10, <1>11, <1>12, <1>13

\* A built instruction has as many accounts as its list of roles.
LEMMA BuiltLength ==
    ASSUME NEW roles, NEW k \in Nat, DOMAIN roles = 1..k, NEW discriminator, NEW args, NEW given
    PROVE  Len(Assembled(discriminator, roles, args, given).accounts) = k
<1> DEFINE metas == [i \in 1..k |-> getAccountMeta(roles[i], given)]
           S == {getAccountMeta(roles[i], given) : i \in 1..k}
<1>1. metas \in [1..k -> S]
  OBVIOUS
<1>2. metas \in Seq(S) /\ DOMAIN metas = 1..k
  BY <1>1, SeqDef
<1>3. Assembled(discriminator, roles, args, given).accounts = metas
  BY DEF Assembled
<1> HIDE DEF metas, S
<1>4. Len(metas) \in Nat /\ DOMAIN metas = 1..Len(metas)
  BY <1>2, LenProperties
<1> QED BY <1>2, <1>3, <1>4

\* The account list is complete, signed where it must be, writable where it
\* must be, and names no account that is not there.
LEMMA AccountsFit ==
    ASSUME ChainOK(chain), NEW series \in SeriesOnChain,
           findPositionPda(series, WRITER) \in DOMAIN chain,
           findAssociatedTokenPda(WRITER, findOptionMintPda(series)) \in DOMAIN chain,
           NEW op, NEW roles, NEW k \in Nat, DOMAIN roles = 1..k, Agrees(op, roles), Shape(op),
           NEW discriminator, NEW args, NEW given, Within(given, Full(series)),
           Covers(given, roles)
    PROVE  P!AccountComplaints(chain, op, Assembled(discriminator, roles, args, given))
             \subseteq {"taken"}
<1> DEFINE ix == Assembled(discriminator, roles, args, given)
           fields == P!Contexts[op]
<1>1. Len(ix.accounts) = k
  BY BuiltLength
<1>2. Len(fields) = k /\ DOMAIN fields = 1..k
  <2>1. Len(roles) = k
    BY DEF Agrees
  <2> QED BY <2>1 DEF Agrees
<1>3. \A i \in 1..k : /\ ix.accounts[i].address = given[roles[i].name]
                      /\ roles[i].isSigner => ix.accounts[i].isSigner
                      /\ roles[i].isWritable => ix.accounts[i].isWritable
  BY DEF Assembled, getAccountMeta, Covers
<1> HIDE DEF ix
<1>4. ASSUME NEW i \in DOMAIN fields PROVE fields[i].signer => ix.accounts[i].isSigner
  BY <1>2, <1>3 DEF Agrees
<1>5. ASSUME NEW i \in DOMAIN fields PROVE fields[i].mut => ix.accounts[i].isWritable
  BY <1>2, <1>3 DEF Agrees
<1>6. ASSUME NEW i \in DOMAIN fields, ~fields[i].init, fields[i].type # "Any"
      PROVE  P!Exists(chain, ix.accounts[i].address, fields[i].type)
  <2>1. roles[i].name = fields[i].name /\ fields[i].name \in DOMAIN Types
    BY <1>2, <1>6 DEF Agrees, Shape
  <2>2. fields[i].type = Types[fields[i].name]
    BY <1>6 DEF Shape
  <2>3. ix.accounts[i].address = Full(series)[fields[i].name]
    BY <1>2, <1>3, <2>1 DEF Within, Covers
  <2> QED BY <1>6, <2>1, <2>2, <2>3, FullExists
<1> HIDE DEF fields
<1>7. ~(Len(ix.accounts) < Len(fields))
  BY <1>1, <1>2
<1>8. P!AccountComplaints(chain, op, ix) \subseteq {"unsigned", "frozen", "taken", "absent"}
  BY <1>7 DEF P!AccountComplaints, fields
<1>9. "unsigned" \notin P!AccountComplaints(chain, op, ix)
  BY <1>4, <1>7 DEF P!AccountComplaints, fields
<1>10. "frozen" \notin P!AccountComplaints(chain, op, ix)
  BY <1>5, <1>7 DEF P!AccountComplaints, fields
<1>11. "absent" \notin P!AccountComplaints(chain, op, ix)
  BY <1>6, <1>7 DEF P!AccountComplaints, fields
<1> QED BY <1>8, <1>9, <1>10, <1>11 DEF ix

\* The accounts that an operation names.
FullOn(op, series) ==
    [n \in {P!Contexts[op][i].name : i \in DOMAIN P!Contexts[op]} |-> Full(series)[n]]

\* What the program binds is what the client means.
LEMMA BoundIsFull ==
    ASSUME NEW series, NEW op, NEW roles, Agrees(op, roles),
           NEW discriminator, NEW args, NEW given, Within(given, Full(series)),
           Covers(given, roles)
    PROVE  P!Bound(op, Assembled(discriminator, roles, args, given)) = FullOn(op, series)
<1> DEFINE names == {P!Contexts[op][i].name : i \in DOMAIN P!Contexts[op]}
           mine == {roles[i].name : i \in DOMAIN roles}
<1>1. names = mine
  BY DEF Agrees
<1>2. \A n \in mine : given[n] = Full(series)[n]
  BY DEF Within, Covers
<1> HIDE DEF names, mine
<1>3. [n \in mine |-> given[n]] = [n \in names |-> Full(series)[n]]
  BY <1>1, <1>2
<1>4. NamedBy(roles, given) = FullOn(op, series)
  BY <1>3 DEF NamedBy, FullOn, names, mine
<1> QED BY <1>4, BoundOfBuilt

\* Every address is the one the seeds of its field derive.
LEMMA PinsFit ==
    ASSUME ChainOK(chain), NEW series \in SeriesOnChain, NEW op \in SeriesOperations, Shape(op),
           NEW ix, NEW a,
           a = FullOn(op, series),
           NEW n \in DOMAIN a
    PROVE  a[n] = P!Pinned(chain, op, a, ix, n)
<1> DEFINE names == {P!Contexts[op][i].name : i \in DOMAIN P!Contexts[op]}
<1>1. DOMAIN a = names /\ \A m \in names : a[m] = Full(series)[m]
  BY DEF FullOn
<1>2. /\ "series" \in names
      /\ "position" \in names => "writer" \in names
      /\ "security" \in names => "underlyingMint" \in names
  BY DEF Shape
<1> HIDE DEF names
<1>3. a.series = series
  BY <1>1, <1>2 DEF Full
<1>4. /\ op # "createSeries" /\ op # "initCalendar" /\ op # "attestHalt"
  BY DEF SeriesOperations
<1>5. /\ series = P!SeriesSeeds(chain[series])
      /\ chain[series].underlying_mint = UNDERLYING
      /\ Grounds(chain)
  BY DEF ChainOK, SeriesOK, SeriesOnChain
<1>6. CASE n = "registry"
  <2>1. a[n] = findRegistryPda
    BY <1>1, <1>6 DEF Full
  <2> QED BY <1>6, <2>1 DEF P!Pinned, findRegistryPda
<1>7. CASE n = "calendar"
  <2>1. a["calendar"] = findCalendarPda(CalendarId)
    BY <1>1, <1>7 DEF Full
  <2>2. chain[a.calendar].id = CalendarId
    BY <1>5, <2>1 DEF Grounds
  <2> QED BY <1>4, <1>7, <2>1, <2>2 DEF P!Pinned, findCalendarPda
<1>8. CASE n = "security"
  <2>1. a["security"] = findSecurityPda(UNDERLYING) /\ a["underlyingMint"] = UNDERLYING
    BY <1>1, <1>2, <1>8 DEF Full
  <2> QED BY <1>3, <1>4, <1>5, <1>8, <2>1 DEF P!Pinned, findSecurityPda
<1>9. CASE n = "series"
  <2>1. P!Pinned(chain, op, a, ix, "series") = P!SeriesSeeds(chain[a.series])
    BY <1>4 DEF P!Pinned, P!SeriesOf
  <2> QED BY <1>3, <1>5, <1>9, <2>1
<1>10. CASE n \in {"optionMint", "collateralVault", "premiumVault", "quoteVault"}
  <2>1. CASE n = "optionMint"
    <3>1. a[n] = findOptionMintPda(series)
      BY <1>1, <2>1 DEF Full
    <3> QED BY <1>3, <2>1, <3>1 DEF P!Pinned, findOptionMintPda
  <2>2. CASE n = "collateralVault"
    <3>1. a[n] = findCollateralVaultPda(series)
      BY <1>1, <2>2 DEF Full
    <3> QED BY <1>3, <2>2, <3>1 DEF P!Pinned, findCollateralVaultPda
  <2>3. CASE n = "premiumVault"
    <3>1. a[n] = findPremiumVaultPda(series)
      BY <1>1, <2>3 DEF Full
    <3> QED BY <1>3, <2>3, <3>1 DEF P!Pinned, findPremiumVaultPda
  <2>4. CASE n = "quoteVault"
    <3>1. a[n] = findQuoteVaultPda(series)
      BY <1>1, <2>4 DEF Full
    <3> QED BY <1>3, <2>4, <3>1 DEF P!Pinned, findQuoteVaultPda
  <2> QED BY <1>10, <2>1, <2>2, <2>3, <2>4
<1>11. CASE n = "position"
  <2>1. a["position"] = findPositionPda(series, WRITER) /\ a["writer"] = WRITER
    BY <1>1, <1>2, <1>11 DEF Full
  <2> QED BY <1>3, <1>11, <2>1 DEF P!Pinned, findPositionPda
<1>12. CASE n \notin {"registry", "calendar", "security", "series", "optionMint",
                      "collateralVault", "premiumVault", "quoteVault", "position"}
  BY <1>12 DEF P!Pinned
<1> QED BY <1>6, <1>7, <1>8, <1>9, <1>10, <1>11, <1>12

\* The wallets are of the mint and of the owner they have to be.
LEMMA WalletsFit ==
    ASSUME ChainOK(chain), NEW series \in SeriesOnChain,
           findAssociatedTokenPda(WRITER, findOptionMintPda(series)) \in DOMAIN chain,
           NEW op \in SeriesOperations, Shape(op), NEW a,
           a = FullOn(op, series),
           NEW n \in DOMAIN a, n \in P!Wallets
    PROVE  ~P!Foreign(chain, a, n)
<1> DEFINE names == {P!Contexts[op][i].name : i \in DOMAIN P!Contexts[op]}
<1>1. DOMAIN a = names /\ \A m \in names : a[m] = Full(series)[m]
  BY DEF FullOn
<1>2. "series" \in names /\ names \cap {"writer", "holder"} # {}
  BY <1>1 DEF Shape
<1> HIDE DEF names
<1>3. a.series = series
  BY <1>1, <1>2 DEF Full
<1>4. (IF "writer" \in DOMAIN a THEN a.writer ELSE a.holder) = WRITER
  BY <1>1, <1>2 DEF Full
<1>5. /\ chain[series].underlying_mint = UNDERLYING
      /\ chain[series].quote_mint = DEFAULT_QUOTE_MINT
      /\ Grounds(chain)
  BY DEF ChainOK, SeriesOK, SeriesOnChain
<1>6. a[n] = Full(series)[n]
  BY <1>1
<1>7. ASSUME NEW mint, findAssociatedTokenPda(WRITER, mint) \in DOMAIN chain,
             a[n] = findAssociatedTokenPda(WRITER, mint), P!MintOf(chain, a, n) = mint
      PROVE  ~P!Foreign(chain, a, n)
  <2> DEFINE w == findAssociatedTokenPda(WRITER, mint)
  <2>1. w[1] = "ata" /\ w[2] = WRITER /\ w[3] = mint
    BY DEF findAssociatedTokenPda
  <2> HIDE DEF w
  <2>2. chain[w].owner = WRITER /\ chain[w].mint = mint
    <3>1. w \in DOMAIN chain
      BY <1>7 DEF w
    <3> QED BY <2>1, <3>1 DEF ChainOK, PlaceOK
  <2>3. a[n] = w
    BY <1>7 DEF w
  <2> QED BY <1>4, <1>7, <2>2, <2>3 DEF P!Foreign
<1>8. CASE n \in {"writerUnderlying", "holderUnderlying"}
  <2>1. a[n] = findAssociatedTokenPda(WRITER, UNDERLYING)
    BY <1>6, <1>8 DEF Full
  <2>2. P!MintOf(chain, a, n) = UNDERLYING
    BY <1>3, <1>5, <1>8 DEF P!MintOf
  <2> QED BY <1>5, <1>7, <2>1, <2>2 DEF Grounds
<1>9. CASE n \in {"writerQuote", "holderQuote"}
  <2>1. a[n] = findAssociatedTokenPda(WRITER, DEFAULT_QUOTE_MINT)
    BY <1>6, <1>9 DEF Full
  <2>2. P!MintOf(chain, a, n) = DEFAULT_QUOTE_MINT
    BY <1>3, <1>5, <1>9 DEF P!MintOf
  <2> QED BY <1>5, <1>7, <2>1, <2>2 DEF Grounds
<1>10. CASE n \in {"writerOption", "holderOption"}
  <2>1. a[n] = findAssociatedTokenPda(WRITER, findOptionMintPda(series))
    BY <1>6, <1>10 DEF Full
  <2>2. P!MintOf(chain, a, n) = findOptionMintPda(series)
    BY <1>3, <1>10 DEF P!MintOf, findOptionMintPda
  <2> QED BY <1>7, <2>1, <2>2
<1> QED BY <1>8, <1>9, <1>10 DEF P!Wallets

\* No constraint of the program refuses the accounts, but a pause may.
LEMMA ConstraintsFit ==
    ASSUME ChainOK(chain), NEW series \in SeriesOnChain,
           findAssociatedTokenPda(WRITER, findOptionMintPda(series)) \in DOMAIN chain,
           NEW op \in SeriesOperations, Shape(op), NEW ix,
           P!Bound(op, ix) = FullOn(op, series)
    PROVE  P!ConstraintComplaints(chain, op, ix) \subseteq {"paused"}
<1> DEFINE names == {P!Contexts[op][i].name : i \in DOMAIN P!Contexts[op]}
           a == P!Bound(op, ix)
<1>1. \A n \in DOMAIN a : a[n] = P!Pinned(chain, op, a, ix, n)
  BY PinsFit
<1>2. \A n \in DOMAIN a \cap P!Wallets : ~P!Foreign(chain, a, n)
  BY WalletsFit
<1>3. DOMAIN a = names /\ \A n \in names : a[n] = Full(series)[n]
  BY DEF FullOn
<1>4. "series" \in names
  BY DEF Shape
<1> HIDE DEF names, a
<1>5. a.series = series
  BY <1>3, <1>4 DEF Full
<1>6. ~P!WrongAuthority(chain, op, a)
  BY DEF P!WrongAuthority, SeriesOperations
<1>7. /\ SECURITY \in DOMAIN chain /\ chain[series].security = SECURITY
      /\ chain[series].underlying_mint = UNDERLYING
      /\ chain[series].quote_mint = DEFAULT_QUOTE_MINT
      /\ chain[findCalendarPda(CalendarId)].id = CalendarId
  BY DEF ChainOK, SeriesOK, SeriesOnChain, Grounds
<1>8. chain[SECURITY].calendar_id = CalendarId
  <2>1. SECURITY[1] = "security"
    BY DEF SECURITY, findSecurityPda
  <2> QED BY <1>7, <2>1 DEF ChainOK, PlaceOK
<1>9. /\ "calendar" \in DOMAIN a => a.calendar = findCalendarPda(CalendarId)
      /\ "security" \in DOMAIN a => a.security = SECURITY
      /\ "underlyingMint" \in DOMAIN a => a.underlyingMint = UNDERLYING
      /\ "quoteMint" \in DOMAIN a => a.quoteMint = DEFAULT_QUOTE_MINT
  BY <1>3 DEF Full, SECURITY
<1>10. ~P!Mismatched(chain, op, a)
  BY <1>2, <1>5, <1>7, <1>8, <1>9 DEF P!Mismatched
<1>11. P!ConstraintComplaints(chain, op, ix) \subseteq {"seeds", "authority", "paused", "mismatch"}
  BY DEF P!ConstraintComplaints
<1>12. "seeds" \notin P!ConstraintComplaints(chain, op, ix)
  BY <1>1 DEF P!ConstraintComplaints, a
<1>13. "authority" \notin P!ConstraintComplaints(chain, op, ix)
  BY <1>6 DEF P!ConstraintComplaints, a
<1>14. "mismatch" \notin P!ConstraintComplaints(chain, op, ix)
  BY <1>10 DEF P!ConstraintComplaints, a
<1> QED BY <1>11, <1>12, <1>13, <1>14

\* A reader finds under each name what the program binds to it.
LEMMA ParsedOfBuilt ==
    ASSUME NEW op, NEW roles, NEW k \in Nat, DOMAIN roles = 1..k, Agrees(op, roles),
           NEW discriminator, NEW args, NEW given,
           Covers(given, roles)
    PROVE  LET ix == Assembled(discriminator, roles, args, given)
               parsed == Parsed(roles, args, ix)
           IN  [n \in DOMAIN parsed.accounts |-> parsed.accounts[n].address] = P!Bound(op, ix)
<1> DEFINE ix == Assembled(discriminator, roles, args, given)
           parsed == Parsed(roles, args, ix)
           mine == {roles[i].name : i \in DOMAIN roles}
           at(n) == CHOOSE i \in DOMAIN roles : roles[i].name = n
<1>1. ~(Len(ix.accounts) < Len(roles))
  <2>1. Len(ix.accounts) = k
    BY BuiltLength
  <2>2. Len(roles) = k
    BY DEF Agrees
  <2> QED BY <2>1, <2>2
<1>2. NamesOf(RoleNames(roles)) = mine
  BY DEF NamesOf, RoleNames
<1>3. parsed.accounts = [n \in mine |-> ix.accounts[at(n)]]
  BY <1>1, <1>2 DEF Parsed
<1>4. \A i \in DOMAIN roles : ix.accounts[i].address = given[roles[i].name]
  BY DEF Assembled, getAccountMeta, Covers
<1>5. ASSUME NEW n \in mine PROVE at(n) \in DOMAIN roles /\ roles[at(n)].name = n
  OBVIOUS
<1>6. P!Bound(op, ix) = [n \in mine |-> given[n]]
  <2>1. P!Bound(op, ix) = NamedBy(roles, given)
    BY BoundOfBuilt
  <2> QED BY <2>1 DEF NamedBy
<1> HIDE DEF ix, parsed, mine, at
<1>7. DOMAIN parsed.accounts = mine
  BY <1>3
<1>8. \A n \in mine : parsed.accounts[n].address = given[n]
  BY <1>3, <1>4, <1>5
<1>9. [n \in DOMAIN parsed.accounts |-> parsed.accounts[n].address] = [n \in mine |-> given[n]]
  BY <1>7, <1>8
<1> QED BY <1>6, <1>9 DEF ix, parsed

\* What the three stages of checks and the parser say of an operation, from the
\* shape of its context and the input of its builder.
LEMMA OperationFits ==
    ASSUME ChainOK(chain), NEW series \in SeriesOnChain,
           findPositionPda(series, WRITER) \in DOMAIN chain,
           findAssociatedTokenPda(WRITER, findOptionMintPda(series)) \in DOMAIN chain,
           NEW op \in SeriesOperations, NEW roles, NEW k \in Nat, DOMAIN roles = 1..k,
           Agrees(op, roles), Shape(op),
           NEW discriminator, P!Dispatch[op] = discriminator,
           \A o \in DOMAIN P!Dispatch : P!Dispatch[o] = discriminator => o = op,
           NEW args, NEW given, Within(given, Full(series)),
           Covers(given, roles),
           NEW ix, ix = Assembled(discriminator, roles, args, given),
           deliverableProgram(op, ClientInput(series)) = ix,
           parseDeliverableInstruction(ix) = Parsed(roles, args, ix)
    PROVE  FitsTheProgram(op, series)
<1>1. op \in DOMAIN P!Dispatch
  BY DEF SeriesOperations, P!Dispatch
<1>2. ix.discriminator = discriminator
  BY DEF Assembled
<1>3. P!Handles(ix) = {op}
  BY <1>1, <1>2 DEF P!Handles
<1>4. P!Handler(ix) = op
  BY <1>3 DEF P!Handler
<1>5. P!AccountComplaints(chain, op, ix) \subseteq {"taken"}
  <2>1. P!AccountComplaints(chain, op, Assembled(discriminator, roles, args, given))
          \subseteq {"taken"}
    BY AccountsFit
  <2> QED BY <2>1
<1>6. P!ConstraintComplaints(chain, op, ix) \subseteq {"paused"}
  <2>1. P!Bound(op, ix) = FullOn(op, series)
    BY BoundIsFull
  <2> QED BY <2>1, ConstraintsFit
<1>7. P!HandlerComplaints(chain, World, op, ix) \subseteq {"gate", "oracle", "terms", "phase", "balance"}
  BY DEF P!HandlerComplaints
<1>8. \/ P!Complaints(chain, World, ix) = P!AccountComplaints(chain, op, ix)
      \/ P!Complaints(chain, World, ix) = P!ConstraintComplaints(chain, op, ix)
      \/ P!Complaints(chain, World, ix) = P!HandlerComplaints(chain, World, op, ix)
  <2>1. P!Handles(ix) # {}
    BY <1>3
  <2> QED BY <1>4, <2>1 DEF P!Complaints
<1>9. P!Complaints(chain, World, ix) \cap {"not enough keys", "unsigned", "frozen", "absent",
                           "seeds", "authority", "mismatch"} = {}
  BY <1>5, <1>6, <1>7, <1>8
<1>10. [n \in DOMAIN Parsed(roles, args, ix).accounts |-> Parsed(roles, args, ix).accounts[n].address]
         = P!Bound(op, ix)
  BY ParsedOfBuilt
<1> QED BY <1>4, <1>9, <1>10 DEF FitsTheProgram

\* Write is built, bound and read back alike.
LEMMA WriteFits ==
    ASSUME ChainOK(chain), NEW series \in SeriesOnChain,
           findPositionPda(series, WRITER) \in DOMAIN chain,
           findAssociatedTokenPda(WRITER, findOptionMintPda(series)) \in DOMAIN chain
    PROVE  FitsTheProgram("write", series)
<1>1. PICK given : /\ deliverableProgram("write", ClientInput(series)) =
                        Assembled(235, WriteInstruction, WriteInstructionData, given)
                   /\ Within(given, Full(series))
                   /\ Covers(given, WriteInstruction)
  BY ClientInputIs, WriteBuilt
<1>2. PICK ix : ix = Assembled(235, WriteInstruction, WriteInstructionData, given)
  OBVIOUS
<1>3. "write" \in SeriesOperations /\ 15 \in Nat
  BY DEF SeriesOperations
<1>4. P!Dispatch["write"] = 235
  BY DEF P!Dispatch
<1>5. \A o \in DOMAIN P!Dispatch : P!Dispatch[o] = 235 => o = "write"
  BY DEF P!Dispatch
<1>6. parseDeliverableInstruction(ix) = Parsed(WriteInstruction, WriteInstructionData, ix)
  <2>1. ix.discriminator = 235
    BY <1>2 DEF Assembled
  <2>2. {n \in DOMAIN InstructionBytes : InstructionBytes[n] = ix.discriminator} = {"write"}
    BY <2>1 DEF InstructionBytes
  <2>3. identifyDeliverableInstruction(ix) = "write"
    BY <2>2 DEF identifyDeliverableInstruction
  <2> QED BY <2>3 DEF parseDeliverableInstruction, parseWriteInstruction
<1> QED BY <1>1, <1>2, <1>3, <1>4, <1>5, <1>6, WriteAgrees, WriteShape, OperationFits

\* Open_position is built, bound and read back alike.
LEMMA OpenPositionFits ==
    ASSUME ChainOK(chain), NEW series \in SeriesOnChain,
           findPositionPda(series, WRITER) \in DOMAIN chain,
           findAssociatedTokenPda(WRITER, findOptionMintPda(series)) \in DOMAIN chain
    PROVE  FitsTheProgram("openPosition", series)
<1>1. PICK given : /\ deliverableProgram("openPosition", ClientInput(series)) =
                        Assembled(135, OpenPositionInstruction, OpenPositionInstructionData, given)
                   /\ Within(given, Full(series))
                   /\ Covers(given, OpenPositionInstruction)
  BY ClientInputIs, OpenPositionBuilt
<1>2. PICK ix : ix = Assembled(135, OpenPositionInstruction, OpenPositionInstructionData, given)
  OBVIOUS
<1>3. "openPosition" \in SeriesOperations /\ 4 \in Nat
  BY DEF SeriesOperations
<1>4. P!Dispatch["openPosition"] = 135
  BY DEF P!Dispatch
<1>5. \A o \in DOMAIN P!Dispatch : P!Dispatch[o] = 135 => o = "openPosition"
  BY DEF P!Dispatch
<1>6. parseDeliverableInstruction(ix) = Parsed(OpenPositionInstruction, OpenPositionInstructionData, ix)
  <2>1. ix.discriminator = 135
    BY <1>2 DEF Assembled
  <2>2. {n \in DOMAIN InstructionBytes : InstructionBytes[n] = ix.discriminator} = {"openPosition"}
    BY <2>1 DEF InstructionBytes
  <2>3. identifyDeliverableInstruction(ix) = "openPosition"
    BY <2>2 DEF identifyDeliverableInstruction
  <2> QED BY <2>3 DEF parseDeliverableInstruction, parseOpenPositionInstruction
<1> QED BY <1>1, <1>2, <1>3, <1>4, <1>5, <1>6, OpenPositionAgrees, OpenPositionShape, OperationFits

\* Claim_premium is built, bound and read back alike.
LEMMA ClaimPremiumFits ==
    ASSUME ChainOK(chain), NEW series \in SeriesOnChain,
           findPositionPda(series, WRITER) \in DOMAIN chain,
           findAssociatedTokenPda(WRITER, findOptionMintPda(series)) \in DOMAIN chain
    PROVE  FitsTheProgram("claimPremium", series)
<1>1. PICK given : /\ deliverableProgram("claimPremium", ClientInput(series)) =
                        Assembled(225, ClaimPremiumInstruction, ClaimPremiumInstructionData, given)
                   /\ Within(given, Full(series))
                   /\ Covers(given, ClaimPremiumInstruction)
  BY ClientInputIs, ClaimPremiumBuilt
<1>2. PICK ix : ix = Assembled(225, ClaimPremiumInstruction, ClaimPremiumInstructionData, given)
  OBVIOUS
<1>3. "claimPremium" \in SeriesOperations /\ 12 \in Nat
  BY DEF SeriesOperations
<1>4. P!Dispatch["claimPremium"] = 225
  BY DEF P!Dispatch
<1>5. \A o \in DOMAIN P!Dispatch : P!Dispatch[o] = 225 => o = "claimPremium"
  BY DEF P!Dispatch
<1>6. parseDeliverableInstruction(ix) = Parsed(ClaimPremiumInstruction, ClaimPremiumInstructionData, ix)
  <2>1. ix.discriminator = 225
    BY <1>2 DEF Assembled
  <2>2. {n \in DOMAIN InstructionBytes : InstructionBytes[n] = ix.discriminator} = {"claimPremium"}
    BY <2>1 DEF InstructionBytes
  <2>3. identifyDeliverableInstruction(ix) = "claimPremium"
    BY <2>2 DEF identifyDeliverableInstruction
  <2> QED BY <2>3 DEF parseDeliverableInstruction, parseClaimPremiumInstruction
<1> QED BY <1>1, <1>2, <1>3, <1>4, <1>5, <1>6, ClaimPremiumAgrees, ClaimPremiumShape, OperationFits

\* Exercise is built, bound and read back alike.
LEMMA ExerciseFits ==
    ASSUME ChainOK(chain), NEW series \in SeriesOnChain,
           findPositionPda(series, WRITER) \in DOMAIN chain,
           findAssociatedTokenPda(WRITER, findOptionMintPda(series)) \in DOMAIN chain
    PROVE  FitsTheProgram("exercise", series)
<1>1. PICK given : /\ deliverableProgram("exercise", ClientInput(series)) =
                        Assembled(144, ExerciseInstruction, ExerciseInstructionData, given)
                   /\ Within(given, Full(series))
                   /\ Covers(given, ExerciseInstruction)
  BY ClientInputIs, ExerciseBuilt
<1>2. PICK ix : ix = Assembled(144, ExerciseInstruction, ExerciseInstructionData, given)
  OBVIOUS
<1>3. "exercise" \in SeriesOperations /\ 17 \in Nat
  BY DEF SeriesOperations
<1>4. P!Dispatch["exercise"] = 144
  BY DEF P!Dispatch
<1>5. \A o \in DOMAIN P!Dispatch : P!Dispatch[o] = 144 => o = "exercise"
  BY DEF P!Dispatch
<1>6. parseDeliverableInstruction(ix) = Parsed(ExerciseInstruction, ExerciseInstructionData, ix)
  <2>1. ix.discriminator = 144
    BY <1>2 DEF Assembled
  <2>2. {n \in DOMAIN InstructionBytes : InstructionBytes[n] = ix.discriminator} = {"exercise"}
    BY <2>1 DEF InstructionBytes
  <2>3. identifyDeliverableInstruction(ix) = "exercise"
    BY <2>2 DEF identifyDeliverableInstruction
  <2> QED BY <2>3 DEF parseDeliverableInstruction, parseExerciseInstruction
<1> QED BY <1>1, <1>2, <1>3, <1>4, <1>5, <1>6, ExerciseAgrees, ExerciseShape, OperationFits

\* Settle_expired is built, bound and read back alike.
LEMMA SettleExpiredFits ==
    ASSUME ChainOK(chain), NEW series \in SeriesOnChain,
           findPositionPda(series, WRITER) \in DOMAIN chain,
           findAssociatedTokenPda(WRITER, findOptionMintPda(series)) \in DOMAIN chain
    PROVE  FitsTheProgram("settleExpired", series)
<1>1. PICK given : /\ deliverableProgram("settleExpired", ClientInput(series)) =
                        Assembled(187, SettleExpiredInstruction, SettleExpiredInstructionData, given)
                   /\ Within(given, Full(series))
                   /\ Covers(given, SettleExpiredInstruction)
  BY ClientInputIs, SettleExpiredBuilt
<1>2. PICK ix : ix = Assembled(187, SettleExpiredInstruction, SettleExpiredInstructionData, given)
  OBVIOUS
<1>3. "settleExpired" \in SeriesOperations /\ 13 \in Nat
  BY DEF SeriesOperations
<1>4. P!Dispatch["settleExpired"] = 187
  BY DEF P!Dispatch
<1>5. \A o \in DOMAIN P!Dispatch : P!Dispatch[o] = 187 => o = "settleExpired"
  BY DEF P!Dispatch
<1>6. parseDeliverableInstruction(ix) = Parsed(SettleExpiredInstruction, SettleExpiredInstructionData, ix)
  <2>1. ix.discriminator = 187
    BY <1>2 DEF Assembled
  <2>2. {n \in DOMAIN InstructionBytes : InstructionBytes[n] = ix.discriminator} = {"settleExpired"}
    BY <2>1 DEF InstructionBytes
  <2>3. identifyDeliverableInstruction(ix) = "settleExpired"
    BY <2>2 DEF identifyDeliverableInstruction
  <2> QED BY <2>3 DEF parseDeliverableInstruction, parseSettleExpiredInstruction
<1> QED BY <1>1, <1>2, <1>3, <1>4, <1>5, <1>6, SettleExpiredAgrees, SettleExpiredShape, OperationFits

\* Acknowledge_adjustment is built, bound and read back alike.
LEMMA AcknowledgeAdjustmentFits ==
    ASSUME ChainOK(chain), NEW series \in SeriesOnChain,
           findPositionPda(series, WRITER) \in DOMAIN chain,
           findAssociatedTokenPda(WRITER, findOptionMintPda(series)) \in DOMAIN chain
    PROVE  FitsTheProgram("acknowledgeAdjustment", series)
<1>1. PICK given : /\ deliverableProgram("acknowledgeAdjustment", ClientInput(series)) =
                        Assembled(226, AcknowledgeAdjustmentInstruction, AcknowledgeAdjustmentInstructionData, given)
                   /\ Within(given, Full(series))
                   /\ Covers(given, AcknowledgeAdjustmentInstruction)
  BY ClientInputIs, AcknowledgeAdjustmentBuilt
<1>2. PICK ix : ix = Assembled(226, AcknowledgeAdjustmentInstruction, AcknowledgeAdjustmentInstructionData, given)
  OBVIOUS
<1>3. "acknowledgeAdjustment" \in SeriesOperations /\ 2 \in Nat
  BY DEF SeriesOperations
<1>4. P!Dispatch["acknowledgeAdjustment"] = 226
  BY DEF P!Dispatch
<1>5. \A o \in DOMAIN P!Dispatch : P!Dispatch[o] = 226 => o = "acknowledgeAdjustment"
  BY DEF P!Dispatch
<1>6. parseDeliverableInstruction(ix) = Parsed(AcknowledgeAdjustmentInstruction, AcknowledgeAdjustmentInstructionData, ix)
  <2>1. ix.discriminator = 226
    BY <1>2 DEF Assembled
  <2>2. {n \in DOMAIN InstructionBytes : InstructionBytes[n] = ix.discriminator} = {"acknowledgeAdjustment"}
    BY <2>1 DEF InstructionBytes
  <2>3. identifyDeliverableInstruction(ix) = "acknowledgeAdjustment"
    BY <2>2 DEF identifyDeliverableInstruction
  <2> QED BY <2>3 DEF parseDeliverableInstruction, parseAcknowledgeAdjustmentInstruction
<1> QED BY <1>1, <1>2, <1>3, <1>4, <1>5, <1>6, AcknowledgeAdjustmentAgrees, AcknowledgeAdjustmentShape, OperationFits

\* sdk/src/generated with instructions.ts and pda.ts against the contexts of the
\* program: in every reachable state, on a series with a position and an account
\* for its option, none of the six series operations a client builds is refused
\* for its accounts, whatever the gate, the clock and the multiplier do.
THEOREM AgentClientsFitTheProgram == Spec => []ClientsFitTheProgram
<1>1. IInv => ClientsFitTheProgram
  <2> SUFFICES ASSUME ChainOK(chain), NEW series \in SeriesOnChain,
                      findPositionPda(series, WRITER) \in DOMAIN chain,
                      findAssociatedTokenPda(WRITER, findOptionMintPda(series)) \in DOMAIN chain,
                      NEW op \in SeriesOperations
               PROVE  FitsTheProgram(op, series)
    BY DEF ClientsFitTheProgram, IInv
  <2> QED BY WriteFits, OpenPositionFits, ClaimPremiumFits, ExerciseFits, SettleExpiredFits,
             AcknowledgeAdjustmentFits DEF SeriesOperations
<1> QED BY <1>1, AgentInvariant, PTL

=============================================================================
