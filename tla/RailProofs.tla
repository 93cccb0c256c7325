---------------------------- MODULE RailProofs ----------------------------
(***************************************************************************)
(* What the gate of a security keeps, for every calendar, age, binding and *)
(* print: the ledger and the instruction agree, the epoch counts only what *)
(* happened, and the SDK's answer on Scope is the program's.               *)
(***************************************************************************)
EXTENDS Rail, TLAPS, WellFoundedInduction

USE RailAssumption

-----------------------------------------------------------------------------
(* How the gate ends.                                                      *)

\* What the gate may answer when nothing is left to read.
GateOutcomes == {Yes, Fail("ConfidenceBlown")} \cup {Refuse(c) : c \in Codes}

\* The first of some of the eleven checks.
LEMMA FirstExists ==
    ASSUME NEW S \in SUBSET (1 .. 11), S # {}
    PROVE  \E i \in S : \A j \in S : i <= j
<1>1. S \subseteq Nat
    OBVIOUS
<1>2. PICK i \in S : \A j \in S : ~(<<j, i>> \in OpToRel(<, Nat))
    BY <1>1, WFMin, NatLessThanWellFounded
<1>3. \A j \in S : ~(j < i)
    BY <1>1, <1>2 DEF OpToRel
<1>4. QED
    BY <1>1, <1>3

\* The first of the checks is well defined, so the gate answers with the code
\* of a check that failed, and raises only where that check does.
LEMMA FirstFailingEnds ==
    ASSUME NEW checks, DOMAIN checks = 1 .. 11,
           \A i \in 1 .. 11 : checks[i].code \in Codes
    PROVE  /\ FirstFailing(checks) \in GateOutcomes
           /\ (\A i \in 1 .. 11 : checks[i].is \in {"holds", "refused"})
                  => FirstFailing(checks).kind # "error"
           /\ checks[1].is = "refused"
                  => FirstFailing(checks) = Refuse(checks[1].code)
<1> DEFINE failing == {i \in DOMAIN checks : checks[i].is # "holds"}
           first == CHOOSE i \in failing : \A j \in failing : i <= j
<1>1. CASE failing = {}
    <2>1. FirstFailing(checks) = Yes
        BY <1>1 DEF FirstFailing
    <2>2. checks[1].is = "holds"
        BY <1>1
    <2>3. Yes \in GateOutcomes /\ Yes.kind # "error"
        BY DEF GateOutcomes, Yes
    <2>4. QED
        BY <2>1, <2>2, <2>3
<1>2. CASE failing # {}
    <2>1. \E i \in failing : \A j \in failing : i <= j
        BY <1>2, FirstExists
    <2>2. first \in failing /\ \A j \in failing : first <= j
        BY <2>1
    <2>3. FirstFailing(checks) =
              CASE failing = {} -> Yes
                [] failing # {} /\ checks[first].is = "refused" ->
                       Refuse(checks[first].code)
                [] OTHER -> Fail("ConfidenceBlown")
        BY DEF FirstFailing
    <2> HIDE DEF first
    <2>4. first \in 1 .. 11 /\ checks[first].is # "holds"
        BY <2>2
    <2>5. checks[1].is = "refused" => first = 1
        <3>1. checks[1].is = "refused" => 1 \in failing
            OBVIOUS
        <3>2. 1 \in failing => first <= 1
            BY <2>2
        <3>3. QED
            BY <2>4, <3>1, <3>2
    <2> HIDE DEF failing
    <2>6. CASE checks[first].is = "refused"
        <3>1. FirstFailing(checks) = Refuse(checks[first].code)
            BY <1>2, <2>3, <2>6
        <3>2. QED
            BY <2>4, <2>5, <3>1 DEF GateOutcomes, Refuse
    <2>7. CASE checks[first].is # "refused"
        <3>1. FirstFailing(checks) = Fail("ConfidenceBlown")
            BY <1>2, <2>3, <2>7
        <3>2. checks[first].is \notin {"holds", "refused"}
            BY <2>4, <2>7
        <3>3. checks[1].is # "refused"
            BY <2>5, <2>7
        <3>4. QED
            BY <2>4, <3>1, <3>2, <3>3 DEF GateOutcomes
    <2>8. QED
        BY <2>6, <2>7
<1>3. QED
    BY <1>1, <1>2

\* check_actionable, the program's and the port's, ends in one of these ways.
LEMMA GateEnds ==
    ASSUME NEW sessions, NEW t, NEW halted, NEW pending, NEW m, NEW b, NEW o
    PROVE  FirstFailing(GateChecks(sessions, t, halted, pending, m, b, o))
               \in GateOutcomes
<1> DEFINE checks == GateChecks(sessions, t, halted, pending, m, b, o)
<1>1. DOMAIN checks = 1 .. 11 /\ \A i \in 1 .. 11 : checks[i].code \in Codes
    BY DEF GateChecks, Codes
<1> HIDE DEF checks
<1>2. FirstFailing(checks) \in GateOutcomes
    BY <1>1, FirstFailingEnds
<1>3. QED
    BY <1>2 DEF checks

\* A reading is there, or fails in one of two ways.
LEMMA ReadEnds ==
    ASSUME NEW b, NEW o, NEW t
    PROVE  FirstReadError(b, o, t) \in {"none", "OracleSourceMismatch", "OracleStale"}
<1> DEFINE ends == {"none", "OracleSourceMismatch", "OracleStale"}
<1>1. ASSUME NEW source, NEW account
      PROVE  ReadError(source, account, t) \in ends
    <2>1. CASE source = "Scope" /\ account.price = 0
        BY <2>1 DEF ReadError
    <2>2. CASE ~(source = "Scope" /\ account.price = 0)
        BY <2>2 DEF ReadError
    <2>3. QED
        BY <2>1, <2>2
<1>2. CASE ReadError(b.primary, o.primary, t) # "none"
    BY <1>1, <1>2 DEF FirstReadError
<1>3. CASE ReadError(b.primary, o.primary, t) = "none"
    <2>1. FirstReadError(b, o, t) \in {ReadError(b.secondary, o.secondary, t), "none"}
        BY <1>3 DEF FirstReadError
    <2>2. QED
        BY <1>1, <2>1
<1>4. QED
    BY <1>2, <1>3

\* The SDK's answer is one of the declared outcomes.
LEMMA AnswerEnds ==
    ASSUME NEW s, NEW o
    PROVE  IsActionable(s, o) \in Outcomes
<1> DEFINE v == FirstFailing(GateChecks(SdkOpenTimes, s.now, s.halted,
                                        PendingInSdk(s.mint, s.now), s.mint,
                                        binding, o))
           read == FirstReadError(binding, o, s.now)
<1>1. v \in GateOutcomes
    BY GateEnds
<1>2. read \in {"none", "OracleSourceMismatch", "OracleStale"}
    BY ReadEnds
<1>3. PortVerdict(s, o) = IF v.kind = "error" THEN Refuse(v.code) ELSE v
    BY DEF PortVerdict
<1> HIDE DEF v
<1>4. PortVerdict(s, o) \in Outcomes
    BY <1>1, <1>3
    DEF GateOutcomes, Outcomes, Codes, ReadCodes, Yes, Refuse, Fail
<1>5. IsActionable(s, o) \in {Fail("InvalidMultiplier"), Refuse("OracleStale"),
                              Fail("OracleSourceMismatch"), PortVerdict(s, o)}
    BY <1>2 DEF IsActionable
<1>6. QED
    BY <1>4, <1>5 DEF Outcomes, Codes, ReadCodes, Refuse, Fail

-----------------------------------------------------------------------------
(* Types.                                                                  *)

\* probe_security tells one of the codes the ledger may hold.
LEMMA ProbeEnds ==
    /\ CheckActionable \in GateOutcomes
    /\ ProbeSecurity.kind = "refused" => ProbeSecurity.code \in Codes \cup ReadCodes
<1>1. CheckActionable \in GateOutcomes
    BY GateEnds DEF CheckActionable
<1>2. ProbeSecurity \in {Refuse("MarketClosed"), Refuse("MultiplierUnreadable"),
                         Refuse("OracleUnreadable"), CheckActionable}
    <2>1. CASE now \notin OpenTimes
        BY <2>1 DEF ProbeSecurity
    <2>2. CASE now \in OpenTimes
        BY <2>2 DEF ProbeSecurity
    <2>3. QED
        BY <2>1, <2>2
<1>3. QED
    BY <1>1, <1>2 DEF GateOutcomes, Codes, ReadCodes, Yes, Refuse, Fail

LEMMA InitType == Init => TypeOK
<1> SUFFICES ASSUME Init PROVE TypeOK
    OBVIOUS
<1>1. /\ now \in 1 .. MaxTime /\ moves \in 0 .. MaxMoves
      /\ turns \in Nat
    BY DEF Init
<1>2. paused \in BOOLEAN /\ binding \in Bindings
    BY DEF Init
<1>3. /\ halt \in [halted : BOOLEAN, attested : 0 .. now]
      /\ mint \in [multiplier : Multipliers, new : Multipliers,
                   effective : Nat, paused : BOOLEAN, hook : BOOLEAN]
      /\ oracle \in [Slots -> [price : Nat, conf : Nat, full : BOOLEAN,
                               ts : 0 .. now]]
    BY DEF Init
<1>4. /\ ledger \in [refusals : 0 .. moves,
                     code : Codes \cup ReadCodes \cup {"none"}, at : 0 .. now]
      /\ synced \in [observed : Multipliers \ {Undecodable},
                     epoch : 1 .. moves + 1]
    BY DEF Init
<1>5. answer.of = "nobody"
    BY DEF Init
<1>6. QED
    BY <1>1, <1>2, <1>3, <1>4, <1>5 DEF TypeOK

\* The ledger and the epoch count no faster than things happen, and no record
\* is later than the clock.
LEMMA CountersGrow ==
    ASSUME TypeOK, moves' \in {moves, moves + 1}, now' \in {now, now + 1}
    PROVE  /\ ledger \in [refusals : 0 .. moves',
                          code : Codes \cup ReadCodes \cup {"none"}, at : 0 .. now']
           /\ synced \in [observed : Multipliers \ {Undecodable},
                          epoch : 1 .. moves' + 1]
           /\ halt \in [halted : BOOLEAN, attested : 0 .. now']
           /\ oracle \in [Slots -> [price : Nat, conf : Nat, full : BOOLEAN,
                                    ts : 0 .. now']]
<1>1. moves \in Nat /\ now \in Nat
    BY DEF TypeOK
<1>2. \A a, b \in Nat : a <= b => 0 .. a \subseteq 0 .. b /\ 1 .. a + 1 \subseteq 1 .. b + 1
    OBVIOUS
<1>3. moves' \in Nat /\ moves <= moves' /\ now' \in Nat /\ now <= now'
    BY <1>1
<1>4. /\ 0 .. moves \subseteq 0 .. moves'
      /\ 1 .. moves + 1 \subseteq 1 .. moves' + 1
      /\ 0 .. now \subseteq 0 .. now'
    BY <1>1, <1>2, <1>3
<1>5. /\ ledger \in [refusals : 0 .. moves,
                     code : Codes \cup ReadCodes \cup {"none"}, at : 0 .. now]
      /\ synced \in [observed : Multipliers \ {Undecodable},
                     epoch : 1 .. moves + 1]
      /\ halt \in [halted : BOOLEAN, attested : 0 .. now]
      /\ oracle \in [Slots -> [price : Nat, conf : Nat, full : BOOLEAN,
                               ts : 0 .. now]]
    BY DEF TypeOK
<1>6. QED
    BY <1>4, <1>5

\* A decoded mint has a multiplier in force that decodes.
LEMMA EffectiveDecodes ==
    ASSUME TypeOK, NEW t
    PROVE  /\ EffectiveOf(mint, t) \in Multipliers
           /\ Decodes(mint) => EffectiveOf(mint, t) # Undecodable
    BY DEF TypeOK, EffectiveOf, Decodes

LEMMA NextType == TypeOK /\ [Next]_vars => TypeOK'
<1> SUFFICES ASSUME TypeOK, [Next]_vars PROVE TypeOK'
    OBVIOUS
<1> DEFINE mints == [multiplier : Multipliers, new : Multipliers,
                     effective : Nat, paused : BOOLEAN, hook : BOOLEAN]
<1>1. /\ now \in 1 .. MaxTime /\ moves \in 0 .. MaxMoves /\ turns \in Nat
      /\ paused \in BOOLEAN /\ binding \in Bindings /\ mint \in mints
      /\ answer.of # "nobody" => answer.verdict \in Outcomes
    BY DEF TypeOK
<1>2. ASSUME Move
      PROVE  moves' \in 0 .. MaxMoves /\ moves' = moves + 1
    BY <1>1, <1>2 DEF Move
<1>3. CASE Probe
    <2>1. ledger' \in [refusals : 0 .. moves',
                       code : Codes \cup ReadCodes \cup {"none"}, at : 0 .. now']
        <3>1. ledger.refusals \in 0 .. moves
            BY DEF TypeOK
        <3>2. ledger.refusals + 1 \in 0 .. moves' /\ now \in 0 .. now'
            BY <1>1, <1>2, <1>3, <3>1 DEF Probe
        <3>3. QED
            BY <1>3, <3>2, ProbeEnds DEF Probe
    <2>2. QED
        BY <1>1, <1>2, <1>3, <2>1, CountersGrow
        DEF Probe, TypeOK, worldVars, clientVars
<1>4. CASE Sync
    <2>1. synced' \in [observed : Multipliers \ {Undecodable},
                       epoch : 1 .. moves' + 1]
        <3>1. synced.epoch \in 1 .. moves + 1
            BY DEF TypeOK
        <3>2. synced.epoch + 1 \in 1 .. moves' + 1
              /\ synced.epoch + 0 \in 1 .. moves' + 1
            BY <1>1, <1>2, <1>4, <3>1 DEF Sync
        <3>3. EffectiveOf(mint, now) \in Multipliers \ {Undecodable}
            BY <1>4, EffectiveDecodes DEF Sync
        <3>4. QED
            BY <1>4, <3>2, <3>3 DEF Sync
    <2>2. QED
        BY <1>1, <1>2, <1>4, <2>1, CountersGrow
        DEF Sync, TypeOK, worldVars, clientVars
<1>5. ASSUME NEW h \in BOOLEAN, AttestHalt(h)
      PROVE  TypeOK'
    <2>1. halt' \in [halted : BOOLEAN, attested : 0 .. now']
        BY <1>1, <1>5 DEF AttestHalt
    <2>2. QED
        BY <1>1, <1>2, <1>5, <2>1, CountersGrow
        DEF AttestHalt, TypeOK, worldVars, clientVars
<1>6. ASSUME NEW p \in BOOLEAN, SetRegistryPaused(p)
      PROVE  TypeOK'
    BY <1>1, <1>2, <1>6, CountersGrow
    DEF SetRegistryPaused, TypeOK, accountVars, clientVars
<1>7. ASSUME NEW p \in BOOLEAN, PauseMint(p)
      PROVE  TypeOK'
    <2>1. mint' \in mints
        BY <1>1, <1>7 DEF PauseMint
    <2>2. QED
        BY <1>1, <1>2, <1>7, <2>1, CountersGrow
        DEF PauseMint, TypeOK, accountVars, clientVars
<1>8. CASE FillHook
    <2>1. mint' \in mints
        BY <1>1, <1>8 DEF FillHook
    <2>2. QED
        BY <1>1, <1>2, <1>8, <2>1, CountersGrow
        DEF FillHook, TypeOK, accountVars, clientVars
<1>9. ASSUME NEW m \in Multipliers, NEW lead \in Leads, UpdateMultiplier(m, lead)
      PROVE  TypeOK'
    <2>1. mint' \in mints
        <3>1. EffectiveOf(mint, now) \in Multipliers /\ now + lead \in Nat
            BY <1>1, EffectiveDecodes
        <3>2. QED
            BY <1>1, <1>9, <3>1 DEF UpdateMultiplier
    <2>2. turns' \in Nat
        BY <1>1, <1>9 DEF UpdateMultiplier, Turn
    <2>3. QED
        BY <1>1, <1>2, <1>9, <2>1, <2>2, CountersGrow
        DEF UpdateMultiplier, TypeOK, accountVars, clientVars
<1>10. ASSUME NEW slot \in Slots, NEW p \in Prints, Publish(slot, p)
       PROVE  TypeOK'
    <2>1. oracle' \in [Slots -> [price : Nat, conf : Nat, full : BOOLEAN,
                                 ts : 0 .. now']]
        <3>1. p \in [price : Nat, conf : Nat, full : BOOLEAN] /\ now \in 0 .. now'
            BY <1>1, <1>10 DEF Publish
        <3>2. [price |-> p.price, conf |-> p.conf, full |-> p.full, ts |-> now]
                  \in [price : Nat, conf : Nat, full : BOOLEAN, ts : 0 .. now']
            BY <3>1
        <3>3. now' = now /\ oracle \in [Slots -> [price : Nat, conf : Nat,
                                                  full : BOOLEAN, ts : 0 .. now']]
            BY <1>10 DEF Publish, TypeOK
        <3>4. QED
            BY <1>10, <3>2, <3>3 DEF Publish
    <2>2. QED
        BY <1>1, <1>2, <1>10, <2>1, CountersGrow
        DEF Publish, TypeOK, accountVars, clientVars
<1>11. CASE Tick
    <2>1. now' \in 1 .. MaxTime /\ now' = now + 1 /\ turns' \in Nat
        BY <1>1, <1>11 DEF Tick, Turn
    <2>2. QED
        BY <1>1, <1>11, <2>1, CountersGrow
        DEF Tick, TypeOK, accountVars, clientVars
<1>12. CASE Ask
    <2>1. answer'.verdict \in Outcomes
        BY <1>12, AnswerEnds DEF Ask
    <2>2. QED
        BY <1>1, <1>2, <1>12, <2>1, CountersGrow
        DEF Ask, TypeOK, accountVars, worldVars
<1>13. CASE AskPyth
    BY <1>1, <1>2, <1>13, CountersGrow
    DEF AskPyth, TypeOK, accountVars, worldVars
<1>14. CASE FetchPyth
    <2>1. answer'.verdict \in Outcomes
        BY <1>14, AnswerEnds DEF FetchPyth
    <2>2. QED
        BY <1>1, <1>14, <2>1, CountersGrow
        DEF FetchPyth, TypeOK, accountVars, worldVars
<1>15. CASE UNCHANGED vars
    BY <1>1, <1>15, CountersGrow
    DEF vars, TypeOK, accountVars, worldVars, clientVars
<1>16. QED
    BY <1>3, <1>4, <1>5, <1>6, <1>7, <1>8, <1>9, <1>10, <1>11, <1>12, <1>13,
       <1>14, <1>15
    DEF Next

\* The accounts of a security keep their types: the ledger and the epoch never
\* run ahead of what happened, no record is later than the clock, a multiplier
\* that cannot be decoded is never written down, and the SDK answers with an
\* outcome it declares.
THEOREM RailTypeCorrect == Spec => []TypeOK
<1>1. QED
    BY InitType, NextType, PTL DEF Spec

-----------------------------------------------------------------------------
(* The ledger and the instruction.                                         *)

\* probe_security and assert_security_actionable: in every state the ledger
\* counts what an instruction is refused for, and an instruction that fails to
\* read without a code is counted under one.
THEOREM LedgerTellsTheRefusal == Spec => []ProbeAgreesWithInstruction
<1>1. ProbeAgreesWithInstruction
    <2> DEFINE read == FirstReadError(binding, oracle, now)
    <2>1. CASE paused
        BY <2>1 DEF ProbeAgreesWithInstruction
    <2>2. CASE ~paused /\ now \notin OpenTimes
        BY <2>2
        DEF ProbeAgreesWithInstruction, AssertSecurityActionable, ProbeSecurity,
            Refuse
    <2>3. CASE ~paused /\ now \in OpenTimes /\ ~Decodes(mint)
        <3>1. /\ AssertSecurityActionable = Fail("InvalidMultiplier")
              /\ ProbeSecurity = Refuse("MultiplierUnreadable")
            BY <2>3 DEF AssertSecurityActionable, ProbeSecurity
        <3>2. QED
            BY <3>1 DEF ProbeAgreesWithInstruction, Refuse, Fail, ReadCodes
    <2>4. CASE ~paused /\ now \in OpenTimes /\ Decodes(mint) /\ read # "none"
        <3>1. /\ AssertSecurityActionable = Fail(read)
              /\ ProbeSecurity = Refuse("OracleUnreadable")
            BY <2>4 DEF AssertSecurityActionable, ProbeSecurity
        <3>2. QED
            BY <3>1 DEF ProbeAgreesWithInstruction, Refuse, Fail, ReadCodes
    <2>5. CASE ~paused /\ now \in OpenTimes /\ Decodes(mint) /\ read = "none"
        <3>1. /\ AssertSecurityActionable = CheckActionable
              /\ ProbeSecurity = CheckActionable
            BY <2>5 DEF AssertSecurityActionable, ProbeSecurity
        <3>2. CheckActionable.kind = "error"
                  => CheckActionable.code = "ConfidenceBlown"
            BY ProbeEnds DEF GateOutcomes, Yes, Refuse, Fail
        <3>3. QED
            BY <3>1, <3>2 DEF ProbeAgreesWithInstruction
    <2>6. QED
        BY <2>1, <2>2, <2>3, <2>4, <2>5
<1>2. QED
    BY <1>1, PTL

-----------------------------------------------------------------------------
(* The multiplier epoch.                                                   *)

\* A multiplier in force that no sync has seen is owed one count.
Unseen == IF EffectiveOf(mint, now) # synced.observed THEN 1 ELSE 0

\* What the epoch counted and what it still owes has happened.
EpochInv == synced.epoch - 1 + Unseen <= turns

LEMMA InitEpoch == Init => EpochInv
    BY DEF Init, EpochInv, Unseen, EffectiveOf

\* A step that turns the multiplier in force owes at most one count more.
LEMMA TurnEpoch ==
    ASSUME TypeOK, EpochInv, Turn, synced' = synced
    PROVE  EpochInv'
<1>1. synced.epoch \in Nat /\ turns \in Nat
    BY DEF TypeOK
<1>2. Unseen \in {0, 1} /\ Unseen' \in {0, 1}
    BY DEF Unseen
<1>3. CASE EffectiveOf(mint, now)' = EffectiveOf(mint, now)
    <2>1. turns' = turns /\ Unseen' = Unseen
        BY <1>1, <1>3 DEF Turn, Unseen, EffectiveOf
    <2>2. QED
        BY <1>1, <1>2, <2>1 DEF EpochInv
<1>4. CASE EffectiveOf(mint, now)' # EffectiveOf(mint, now)
    <2>1. turns' = turns + 1
        BY <1>4 DEF Turn, EffectiveOf
    <2>2. synced.epoch - 1 <= turns
        BY <1>1, <1>2 DEF EpochInv
    <2>3. synced'.epoch - 1 + Unseen' <= turns'
        BY <1>1, <1>2, <2>1, <2>2
    <2>4. QED
        BY <2>3 DEF EpochInv
<1>5. QED
    BY <1>3, <1>4

\* A step that changes neither what is in force nor what was seen owes nothing.
LEMMA QuietEpoch ==
    ASSUME EpochInv, synced' = synced, turns' = turns,
           EffectiveOf(mint', now') = EffectiveOf(mint, now)
    PROVE  EpochInv'
<1>1. Unseen' = Unseen
    BY DEF Unseen, EffectiveOf
<1>2. QED
    BY <1>1 DEF EpochInv

LEMMA NextEpoch == TypeOK /\ EpochInv /\ [Next]_vars => EpochInv'
<1> SUFFICES ASSUME TypeOK, EpochInv, [Next]_vars PROVE EpochInv'
    OBVIOUS
<1>1. CASE Sync
    <2>1. /\ synced'.observed = EffectiveOf(mint, now)
          /\ synced'.epoch = synced.epoch + Unseen
          /\ mint' = mint /\ now' = now /\ turns' = turns
        BY <1>1 DEF Sync, Unseen, worldVars
    <2>2. Unseen' = 0
        BY <2>1 DEF Unseen
    <2>3. synced.epoch \in Nat /\ turns \in Nat /\ Unseen \in {0, 1}
        BY DEF TypeOK, Unseen
    <2>4. synced'.epoch - 1 + Unseen' <= turns'
        BY <2>1, <2>2, <2>3 DEF EpochInv
    <2>5. QED
        BY <2>4 DEF EpochInv
<1>2. CASE Tick
    BY <1>2, TurnEpoch DEF Tick, accountVars
<1>3. ASSUME NEW m \in Multipliers, NEW lead \in Leads, UpdateMultiplier(m, lead)
      PROVE  EpochInv'
    BY <1>3, TurnEpoch DEF UpdateMultiplier, accountVars
<1>4. CASE FillHook \/ \E p \in BOOLEAN : PauseMint(p)
    <2>1. /\ synced' = synced /\ turns' = turns /\ now' = now
          /\ mint'.multiplier = mint.multiplier
          /\ mint'.new = mint.new
          /\ mint'.effective = mint.effective
        BY <1>4 DEF FillHook, PauseMint, accountVars, TypeOK
    <2>2. QED
        BY <2>1, QuietEpoch DEF EffectiveOf
<1>5. CASE UNCHANGED <<synced, turns, mint, now>>
    BY <1>5, QuietEpoch
<1>6. QED
    BY <1>1, <1>2, <1>3, <1>4, <1>5
    DEF Next, vars, accountVars, worldVars, Probe, AttestHalt,
        SetRegistryPaused, Publish, Ask, AskPyth, FetchPyth

\* sync_security: the epoch never counts a corporate action that has not come
\* into force, however the issuer reschedules and whenever anybody syncs.
THEOREM EpochCounts == Spec => []EpochCountsWhatHappened
<1>1. TypeOK /\ EpochInv => EpochCountsWhatHappened
    <2> SUFFICES ASSUME TypeOK, EpochInv PROVE EpochCountsWhatHappened
        OBVIOUS
    <2>1. synced.epoch \in Nat /\ turns \in Nat /\ Unseen \in {0, 1}
        BY DEF TypeOK, Unseen
    <2>2. QED
        BY <2>1 DEF EpochInv, EpochCountsWhatHappened
<1>2. QED
    BY <1>1, InitType, NextType, InitEpoch, NextEpoch, PTL DEF Spec

-----------------------------------------------------------------------------
(* The SDK's answer on Scope.                                              *)

\* Outside the known differences the port asks the gate's own questions.
LEMMA SameChecks ==
    ASSUME TypeOK, ~KnownToDiffer
    PROVE  GateChecks(SdkOpenTimes, now, halt.halted, PendingInSdk(mint, now),
                      mint, binding, oracle)
               = GateChecks(OpenTimes, now, InForce(halt, now),
                            PendingOnChain(mint, now), mint, binding, oracle)
<1>1. When(now \notin SdkOpenTimes) = When(now \notin OpenTimes)
    BY DEF KnownToDiffer, Excepted, When
<1>2. When(halt.halted) = When(InForce(halt, now))
    BY DEF KnownToDiffer, AgedHalt, InForce, When
<1>3. PendingInSdk(mint, now) <=> PendingOnChain(mint, now)
    <2>1. now \in Nat /\ mint.effective \in Nat
        BY DEF TypeOK
    <2>2. now # mint.effective
        BY DEF KnownToDiffer, LandsNow
    <2>3. QED
        BY <2>1, <2>2 DEF PendingInSdk, PendingOnChain
<1>4. When(PendingInSdk(mint, now) /\ mint.effective - now <= QuietPeriod)
          = When(PendingOnChain(mint, now) /\ mint.effective - now <= QuietPeriod)
    BY <1>3 DEF When
<1>5. QED
    BY <1>1, <1>2, <1>4 DEF GateChecks

\* Readings of Scope that are there raise nothing in the gate.
LEMMA ScopeNeverRaises ==
    ASSUME TypeOK, ~UsesPyth, FirstReadError(binding, oracle, now) = "none"
    PROVE  CheckActionable.kind # "error"
<1> DEFINE checks == GateChecks(OpenTimes, now, InForce(halt, now),
                                PendingOnChain(mint, now), mint, binding, oracle)
<1>1. binding.primary = "Scope" /\ binding.secondary \in {"Scope", "none"}
    BY DEF TypeOK, UsesPyth
<1>2. ReadError(binding.primary, oracle.primary, now) = "none"
    BY DEF FirstReadError
<1>3. binding.secondary # "none"
          => ReadError(binding.secondary, oracle.secondary, now) = "none"
    BY <1>2 DEF FirstReadError
<1>4. /\ oracle.primary.price # 0
      /\ binding.secondary # "none" => oracle.secondary.price # 0
    BY <1>1, <1>2, <1>3 DEF ReadError
<1>5. Band(binding.primary, oracle.primary) = "holds"
    BY <1>1 DEF Band
<1>6. Band(binding.secondary, oracle.secondary) = "holds"
    BY <1>1 DEF Band
<1>7. Agreement(binding, oracle) \in {"holds", "refused"}
    <2>1. CASE binding.secondary = "none"
        BY <2>1 DEF Agreement
    <2>2. CASE binding.secondary # "none"
        BY <1>4, <2>2 DEF Agreement
    <2>3. QED
        BY <2>1, <2>2
<1>8. \A condition : When(condition) \in {"holds", "refused"}
    BY DEF When
<1>9. \A i \in 1 .. 11 : checks[i].is \in {"holds", "refused"}
    BY <1>5, <1>6, <1>7, <1>8 DEF GateChecks
<1>10. DOMAIN checks = 1 .. 11 /\ \A i \in 1 .. 11 : checks[i].code \in Codes
    BY DEF GateChecks, Codes
<1> HIDE DEF checks
<1>11. FirstFailing(checks).kind # "error"
    BY <1>9, <1>10, FirstFailingEnds
<1>12. QED
    BY <1>11 DEF CheckActionable, checks

\* Outside a session the gate's first check is the one that fails.
LEMMA ClosedComesFirst ==
    ASSUME now \notin OpenTimes
    PROVE  CheckActionable = Refuse("MarketClosed")
<1> DEFINE checks == GateChecks(OpenTimes, now, InForce(halt, now),
                                PendingOnChain(mint, now), mint, binding, oracle)
<1>1. /\ DOMAIN checks = 1 .. 11
      /\ \A i \in 1 .. 11 : checks[i].code \in Codes
      /\ checks[1] = [code |-> "MarketClosed", is |-> When(now \notin OpenTimes)]
    BY DEF GateChecks, Codes
<1> HIDE DEF checks
<1>2. checks[1].is = "refused" /\ checks[1].code = "MarketClosed"
    BY <1>1 DEF When
<1>3. FirstFailing(checks) = Refuse("MarketClosed")
    BY <1>1, <1>2, FirstFailingEnds
<1>4. QED
    BY <1>3 DEF CheckActionable, checks

\* isActionable on Scope, in the state it is asked in.
LEMMA AskAgrees ==
    ASSUME TypeOK, ~UsesPyth, ~KnownToDiffer, ~paused
    PROVE  \/ IsActionable(Snapshot, oracle) = AssertSecurityActionable
           \/ /\ AssertSecurityActionable = Refuse("MarketClosed")
              /\ IsActionable(Snapshot, oracle).kind = "error"
<1> DEFINE read == FirstReadError(binding, oracle, now)
<1>1. /\ Snapshot.now = now /\ Snapshot.halted = halt.halted
      /\ Snapshot.mint = mint
    BY DEF Snapshot
<1>2. PortVerdict(Snapshot, oracle) =
          IF CheckActionable.kind = "error"
          THEN Refuse(CheckActionable.code)
          ELSE CheckActionable
    BY <1>1, SameChecks DEF PortVerdict, CheckActionable
<1>3. read \in {"none", "OracleSourceMismatch"}
    <2>1. binding.primary = "Scope" /\ binding.secondary \in {"Scope", "none"}
        BY DEF TypeOK, UsesPyth
    <2>2. \A account :
              ReadError("Scope", account, now) \in {"none", "OracleSourceMismatch"}
        <3> TAKE account
        <3>1. CASE account.price = 0
            BY <3>1 DEF ReadError
        <3>2. CASE account.price # 0
            BY <3>2 DEF ReadError
        <3>3. QED
            BY <3>1, <3>2
    <2>3. read \in {ReadError(binding.primary, oracle.primary, now), "none",
                    ReadError("Scope", oracle.secondary, now)}
        <3>1. CASE ReadError(binding.primary, oracle.primary, now) # "none"
            BY <3>1 DEF FirstReadError
        <3>2. CASE ReadError(binding.primary, oracle.primary, now) = "none"
            BY <2>1, <3>2 DEF FirstReadError
        <3>3. QED
            BY <3>1, <3>2
    <2>4. QED
        BY <2>1, <2>2, <2>3
<1>4. CASE now \notin OpenTimes
    <2>1. AssertSecurityActionable = Refuse("MarketClosed")
        BY <1>4 DEF AssertSecurityActionable
    <2>2. PortVerdict(Snapshot, oracle) = Refuse("MarketClosed")
        BY <1>2, <1>4, ClosedComesFirst DEF Refuse
    <2>3. IsActionable(Snapshot, oracle) \in
              {Fail("InvalidMultiplier"), Fail(read), PortVerdict(Snapshot, oracle)}
        BY <1>1, <1>3 DEF IsActionable
    <2>4. QED
        BY <2>1, <2>2, <2>3 DEF Fail
<1>5. CASE now \in OpenTimes /\ ~Decodes(mint)
    <2>1. AssertSecurityActionable = Fail("InvalidMultiplier")
        BY <1>5 DEF AssertSecurityActionable
    <2>2. IsActionable(Snapshot, oracle) = Fail("InvalidMultiplier")
        BY <1>1, <1>5 DEF IsActionable
    <2>3. QED
        BY <2>1, <2>2
<1>6. CASE now \in OpenTimes /\ Decodes(mint) /\ read = "OracleSourceMismatch"
    <2>1. AssertSecurityActionable = Fail(read)
        BY <1>6 DEF AssertSecurityActionable
    <2>2. IsActionable(Snapshot, oracle) = Fail(read)
        BY <1>1, <1>6 DEF IsActionable
    <2>3. QED
        BY <2>1, <2>2
<1>7. CASE now \in OpenTimes /\ Decodes(mint) /\ read = "none"
    <2>1. AssertSecurityActionable = CheckActionable
        BY <1>7 DEF AssertSecurityActionable
    <2>2. IsActionable(Snapshot, oracle) = PortVerdict(Snapshot, oracle)
        BY <1>1, <1>7 DEF IsActionable
    <2>3. QED
        BY <1>2, <1>7, <2>1, <2>2, ScopeNeverRaises
<1>8. QED
    BY <1>3, <1>4, <1>5, <1>6, <1>7

\* client.ts isActionable: on Scope, and outside the three known differences
\* and the registry's pause, the SDK answers what an instruction sent in that
\* slot would meet, for every calendar, age, print and binding.
THEOREM ScopeVerdictAgrees == Spec => ScopeVerdictIsThePrograms
<1> DEFINE agrees ==
        answer' # answer /\ answer'.of = "snapshot" /\ ~KnownToDiffer /\ ~paused =>
          \/ answer'.verdict = AssertSecurityActionable
          \/ /\ AssertSecurityActionable = Refuse("MarketClosed")
             /\ answer'.verdict.kind = "error"
<1>1. TypeOK /\ [Next]_vars => [agrees]_vars
    <2> SUFFICES ASSUME TypeOK, Next, answer' # answer, answer'.of = "snapshot",
                        ~KnownToDiffer, ~paused
                 PROVE  \/ answer'.verdict = AssertSecurityActionable
                        \/ /\ AssertSecurityActionable = Refuse("MarketClosed")
                           /\ answer'.verdict.kind = "error"
        OBVIOUS
    <2>1. Ask
        <3>1. ~FetchPyth
            BY DEF FetchPyth
        <3>2. \A b \in BOOLEAN : ~AttestHalt(b) /\ ~SetRegistryPaused(b) /\ ~PauseMint(b)
            BY DEF AttestHalt, SetRegistryPaused, PauseMint, clientVars
        <3>3. /\ \A m \in Multipliers, lead \in Leads : ~UpdateMultiplier(m, lead)
              /\ \A slot \in Slots, p \in Prints : ~Publish(slot, p)
            BY DEF UpdateMultiplier, Publish, clientVars
        <3>4. ~Tick /\ ~Probe /\ ~Sync /\ ~FillHook /\ ~AskPyth
            BY DEF Tick, Probe, Sync, FillHook, AskPyth, clientVars
        <3>5. QED
            BY <3>1, <3>2, <3>3, <3>4 DEF Next
    <2>2. ~UsesPyth /\ answer'.verdict = IsActionable(Snapshot, oracle)
        BY <2>1 DEF Ask
    <2>3. QED
        BY <2>2, AskAgrees
<1>2. QED
    BY <1>1, InitType, NextType, PTL DEF Spec, ScopeVerdictIsThePrograms
=============================================================================
