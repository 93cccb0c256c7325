------------------------------ MODULE Deployment ------------------------------
(***************************************************************************)
(* The devnet deployment: the scripts an operator runs in order            *)
(* (scripts/devnet/init.ts, create-standin-mint.ts, register.ts and        *)
(* probe.ts), the record they share (deployment.json) and the chain they   *)
(* build up, one transaction at a time.  A script may die at any await, or *)
(* in the middle of writing a file; the transaction it had submitted lands,*)
(* fails or expires on its own, and the operator runs the script again.    *)
(* Meanwhile anyone may call the program through the generated client.     *)
(*                                                                         *)
(* The scripts encode their instructions by hand (lib.ts), beside the      *)
(* builders of module Instructions and against the contexts of Program.    *)
(***************************************************************************)
EXTENDS Instructions, FiniteSets

CONSTANTS
    Entries,          \* US_EQUITY_2026_2027: [dateKey, kind, closeMinute]
    StrayEntry,       \* an entry somebody else puts on one of those days
    OtherCalendarId,  \* what an operator may pass as --calendar-id
    MaxEvents,        \* bound on crashes, expiries, options and calls of others
    MaxProbes         \* bound on probes the operator runs

ASSUME DeploymentAssumption ==
    /\ IsFiniteSet(Entries) /\ StrayEntry \notin Entries
    /\ {OtherCalendarId, MaxEvents, MaxProbes} \subseteq Nat

VARIABLES
    chain,    \* address -> account
    record,   \* deployment.json
    keys,     \* the names in keys/
    script,   \* the script that is running, and where it is
    wire,     \* every transaction submitted, and what became of it
    session,  \* what the exchange is doing: "Regular" or "Closed"
    spent,    \* how much of each bound has been used
    torn      \* the files a crash left half written

vars == << chain, record, keys, script, wire, session, spent, torn >>

P == INSTANCE Program

-----------------------------------------------------------------------------
(* lib.ts: addresses and hand-encoded instructions *)

DEFAULT_CALENDAR_ID == 1

wallet == Key("wallet")

registryPda == <<"registry">>

calendarPda(id) == << "calendar", id >>

securityPda(mint) == << "security", mint >>

\* Every entry but sync_security's is written out and compared with the IDL
\* when the script starts; that one is taken from it.
DISC ==
    [ init_registry |-> 131, init_calendar |-> 178,
      append_calendar_entries |-> 245, register_security |-> 202,
      sync_security |-> 45, probe_security |-> 161 ]

ix(name, metas, args) ==
    [discriminator |-> DISC[name], accounts |-> metas, data |-> args]

w(pubkey, isSigner) ==
    [address |-> pubkey, isSigner |-> isSigner, isWritable |-> TRUE]

r(pubkey, isSigner) ==
    [address |-> pubkey, isSigner |-> isSigner, isWritable |-> FALSE]

initRegistryIx(authority, attestor) ==
    ix("init_registry",
       << w(authority, TRUE), w(registryPda, FALSE), r(SYSTEM_PROGRAM, FALSE) >>,
       << attestor >>)

initCalendarIx(authority, id, openMinute, closeMinute) ==
    ix("init_calendar",
       << w(authority, TRUE), r(registryPda, FALSE), w(calendarPda(id), FALSE),
          r(SYSTEM_PROGRAM, FALSE) >>,
       << id, openMinute, closeMinute >>)

appendCalendarEntriesIx(authority, id, entries) ==
    ix("append_calendar_entries",
       << r(authority, TRUE), w(calendarPda(id), FALSE) >>, << entries >>)

\* Mutated instruction: the registry goes out writable, as it does in init_registry.
registerSecurityIxRegistryWritable(authority, mint, id, sources) ==
    ix("register_security",
       << w(authority, TRUE), w(registryPda, FALSE), r(mint, FALSE),
          r(calendarPda(id), FALSE), w(securityPda(mint), FALSE),
          r(SYSTEM_PROGRAM, FALSE) >>,
       << "AAPLd", sources, 60, 100, 150 >>)

registerSecurityIx(authority, mint, id, sources) ==
    ix("register_security",
       << w(authority, TRUE), r(registryPda, FALSE), r(mint, FALSE),
          r(calendarPda(id), FALSE), w(securityPda(mint), FALSE),
          r(SYSTEM_PROGRAM, FALSE) >>,
       << "AAPLd", sources, 60, 100, 150 >>)

syncSecurityIx(mint, oracle) ==
    ix("sync_security",
       << w(securityPda(mint), FALSE), r(mint, FALSE), r(oracle, FALSE),
          r(oracle, FALSE) >>, <<>>)

\* Mutated instruction: the mint comes before the calendar, as in sync_security.
probeSecurityIxMintFirst(mint, id, oracle) ==
    ix("probe_security",
       << w(securityPda(mint), FALSE), r(mint, FALSE), r(calendarPda(id), FALSE),
          r(oracle, FALSE), r(oracle, FALSE) >>, <<>>)

probeSecurityIx(mint, id, oracle) ==
    ix("probe_security",
       << w(securityPda(mint), FALSE), r(calendarPda(id), FALSE),
          r(mint, FALSE), r(oracle, FALSE), r(oracle, FALSE) >>, <<>>)

REGULAR_OPEN_MINUTE == 9 * 60 + 30

REGULAR_CLOSE_MINUTE == 16 * 60

BINDING == [kind |-> "SingleDeclared", primary |-> "Pyth"]

-----------------------------------------------------------------------------
(* The record and the command line *)

None == <<>>

EmptyRecord ==
    [calendarId |-> 0, standinMintKey |-> "", standinMint |-> None,
     security |-> None, binding |-> FALSE, transactions |-> {}, probes |-> {}]

\* What a crash left of the record is no JSON: whoever reads it throws.  The
\* variable keeps what the file last held whole.
DEPLOYMENT_FILE == "deployment.json"

Readable(file) == file \notin torn

\* --calendar-id, else what the record says, else the default.
calendarId(option) ==
    IF option # 0 THEN option
    ELSE IF record.calendarId # 0 THEN record.calendarId
    ELSE DEFAULT_CALENDAR_ID

NewSlots == << "standin-mint-2", "standin-mint-3", "standin-mint-4" >>

standinMintKeyName(newMint) ==
    IF newMint
    THEN NewSlots[CHOOSE n \in DOMAIN NewSlots :
                    /\ NewSlots[n] \notin keys
                    /\ \A k \in 1..(n - 1) : NewSlots[k] \in keys]
    ELSE IF record.standinMintKey # "" THEN record.standinMintKey
    ELSE "standin-mint"

\* Every price update a probe has posted; the last one is what a closed
\* probe passes, and the mint when there is none.
lastPriceUpdate(mint) ==
    IF \E p \in record.probes : p.mode # "closed" THEN Key("price") ELSE mint

-----------------------------------------------------------------------------
(* Sending: the network decides what becomes of a transaction *)

Transaction(kind, mint, ixs) == [kind |-> kind, mint |-> mint, ixs |-> ixs]

ProgramTx(ixs) == Transaction("program", None, ixs)

Idle == [pc |-> "idle"]

Bounds == [event |-> MaxEvents, probe |-> MaxProbes]

Spend(what) ==
    /\ spent[what] < Bounds[what]
    /\ spent' = [spent EXCEPT ![what] = @ + 1]

\* The gate's answer for the single declared source of the deployment: the
\* calendar first, then the read, then the missing corroboration.
Verdict(price) ==
    IF session = "Closed" THEN 1 ELSE IF price THEN 9 ELSE 10

World(price) ==
    [now |-> 0, sessions |-> {}, verdict |-> Verdict(price), readable |-> price]

Contains(t, name) ==
    \E i \in DOMAIN t.ixs : t.ixs[i].discriminator = DISC[name]

PricePosted(t) == Contains(t, "sync_security")

\* One more instruction of a transaction, on what those before it left: if
\* one is refused, all of them are undone.
After(before, world, instruction) ==
    LET why == P!Complaints(before.chain, world, instruction) IN
    IF before.why # {} THEN before
    ELSE IF why # {} THEN [chain |-> chain, why |-> why]
    ELSE [chain |-> P!Effect(before.chain, world, instruction), why |-> {}]

\* The instructions of a transaction run in order; the scripts send one at a
\* time, or a sync and a probe together.
Run(t) ==
    LET world == World(PricePosted(t))
        first == After([chain |-> chain, why |-> {}], world, t.ixs[1])
    IN CASE t.kind = "program" ->
              IF Len(t.ixs) = 1 THEN first ELSE After(first, world, t.ixs[2])
         [] t.kind = "create_standin_mint" ->
              IF t.mint \in DOMAIN chain
              THEN [chain |-> chain, why |-> {"taken"}]
              ELSE [chain |-> (t.mint :> [type |-> "Mint", labelled |-> FALSE])
                                @@ chain, why |-> {}]
         [] t.kind = "standin_mint_metadata" ->
              [chain |-> [chain EXCEPT ![t.mint].labelled = TRUE], why |-> {}]
         [] t.kind = "encoded_vaa" -> [chain |-> chain, why |-> {}]

\* Two ways to fail are told apart: the program said no, or the blockhash
\* expired first.
Executed(id) ==
    /\ wire[id].status = "pending"
    /\ \E outcome \in {Run(wire[id].tx)} :
       /\ chain' = outcome.chain
       /\ wire' = [wire EXCEPT
            ![id].status = IF outcome.why = {} THEN "landed" ELSE "failed",
            ![id].why = outcome.why,
            ![id].code =
                IF outcome.why = {} /\ Contains(wire[id].tx, "probe_security")
                THEN Verdict(PricePosted(wire[id].tx)) ELSE 0]
    /\ UNCHANGED << record, keys, script, session, spent, torn >>

Expired(id) ==
    /\ wire[id].status = "pending"
    /\ wire' = [wire EXCEPT ![id].status = "expired"]
    /\ Spend("event")
    /\ UNCHANGED << chain, record, keys, script, session, torn >>

\* send: hand the transaction over and wait; the script goes on at next.
Submit(tx, next) ==
    /\ wire' = Append(wire, [tx |-> tx, status |-> "pending", why |-> {},
                             code |-> 0])
    /\ script' = [script EXCEPT !.pc = "confirm", !.next = next,
                                !.tx = Len(wire) + 1]

\* Once it has landed the script looks the transaction up, for its slot and its
\* logs, and only then writes it into the record.  The look-up may come back
\* empty: the transaction is recorded all the same, without logs (only a probe
\* reads them).
Confirm ==
    /\ script.pc = "confirm" /\ wire[script.tx].status = "landed"
    /\ Readable(DEPLOYMENT_FILE)
    /\ \E logs \in {0} \cup (IF script.next = "record probe"
                            THEN {wire[script.tx].code} ELSE {}) :
        script' = [script EXCEPT !.pc = script.next, !.code = logs]
    /\ record' = [record EXCEPT !.transactions = @ \cup {script.tx}]
    /\ UNCHANGED << chain, keys, wire, session, spent, torn >>

\* Nothing can be added to a record that cannot be read: main throws.
ConfirmThrows ==
    /\ script.pc = "confirm" /\ wire[script.tx].status = "landed"
    /\ ~Readable(DEPLOYMENT_FILE)
    /\ script' = Idle
    /\ UNCHANGED << chain, record, keys, wire, session, spent, torn >>

\* sendAndConfirmTransaction throws, and main exits.
SendFails ==
    /\ script.pc = "confirm" /\ wire[script.tx].status \in {"failed", "expired"}
    /\ script' = Idle
    /\ UNCHANGED << chain, record, keys, wire, session, spent, torn >>

-----------------------------------------------------------------------------
(* init.ts *)

Exists(address) == address \in DOMAIN chain

Starts(pc, id, mint, key) ==
    /\ script = Idle
    /\ script' = [pc |-> pc, next |-> "", tx |-> 0, code |-> 0, id |-> id,
                  mint |-> mint, key |-> key, mode |-> "", before |-> 0]

\* What is about to be made is recorded before it is looked for.
StartInit(option) ==
    /\ Readable(DEPLOYMENT_FILE) /\ Readable("attestor")
    /\ Starts("init registry", calendarId(option), None, "")
    /\ keys' = keys \cup {"attestor"}
    /\ record' = [record EXCEPT !.calendarId = calendarId(option)]
    /\ IF option = 0 THEN UNCHANGED spent ELSE Spend("event")
    /\ UNCHANGED << chain, wire, session, torn >>

InitRegistry ==
    /\ script.pc = "init registry"
    /\ IF Exists(registryPda)
       THEN /\ script' = [script EXCEPT !.pc = "init calendar"]
            /\ UNCHANGED wire
       ELSE Submit(ProgramTx(<< initRegistryIx(wallet, Key("attestor")) >>),
                   "init calendar")
    /\ UNCHANGED << chain, record, keys, session, spent, torn >>

InitCalendar ==
    /\ script.pc = "init calendar"
    /\ IF Exists(calendarPda(script.id))
       THEN /\ script' = [script EXCEPT !.pc = "append entries"]
            /\ UNCHANGED wire
       ELSE Submit(ProgramTx(<< initCalendarIx(wallet, script.id,
                                     REGULAR_OPEN_MINUTE, REGULAR_CLOSE_MINUTE) >>),
                   "append entries")
    /\ UNCHANGED << chain, record, keys, session, spent, torn >>

\* Mutated look: any entry of the day counts as the entry of the table.
AppendEntriesByDay ==
    /\ script.pc = "append entries"
    /\ LET days == {e.dateKey : e \in chain[calendarPda(script.id)].entries}
           missing == {e \in Entries : e.dateKey \notin days} IN
       IF missing = {} THEN script' = Idle /\ UNCHANGED wire
       ELSE Submit(ProgramTx(<< appendCalendarEntriesIx(wallet, script.id, missing) >>),
                   "done")
    /\ UNCHANGED << chain, record, keys, session, spent, torn >>

\* An entry counts as present only if its day, its kind and its close agree.
AppendEntries ==
    /\ script.pc = "append entries"
    /\ LET missing == Entries \ chain[calendarPda(script.id)].entries IN
       IF missing = {} THEN script' = Idle /\ UNCHANGED wire
       ELSE Submit(ProgramTx(<< appendCalendarEntriesIx(wallet, script.id, missing) >>),
                   "done")
    /\ UNCHANGED << chain, record, keys, session, spent, torn >>

Done ==
    /\ script.pc = "done"
    /\ script' = Idle
    /\ UNCHANGED << chain, record, keys, wire, session, spent, torn >>

-----------------------------------------------------------------------------
(* create-standin-mint.ts *)

\* A new mint takes a name that no key has; the other is in the record.
NameIsKnown(newMint) ==
    IF newMint THEN \E n \in DOMAIN NewSlots : NewSlots[n] \notin keys
    ELSE Readable(DEPLOYMENT_FILE)

\* localKeypair writes the key file before anything is sent.  A new mint counts
\* as an event, except where the record is torn: then there is no other start.
StartMint(newMint) ==
    /\ NameIsKnown(newMint)
    /\ LET name == standinMintKeyName(newMint) IN
       /\ Readable(name)
       /\ Starts("create mint", 0, Key(name), name)
       /\ keys' = keys \cup {name}
    /\ IF newMint /\ Readable(DEPLOYMENT_FILE) THEN Spend("event") ELSE UNCHANGED spent
    /\ UNCHANGED << chain, record, wire, session, torn >>

NameMint == [record EXCEPT !.standinMintKey = script.key,
                           !.standinMint = script.mint]

\* Mutated order: the mint is recorded as soon as it is under way.
CreateMintRecordsFirst ==
    /\ script.pc = "create mint"
    /\ record' = NameMint
    /\ IF Exists(script.mint)
       THEN script' = Idle /\ UNCHANGED wire
       ELSE Submit(Transaction("create_standin_mint", script.mint, << >>),
                   "label mint")
    /\ UNCHANGED << chain, keys, session, spent, torn >>

CreateMint ==
    /\ script.pc = "create mint"
    /\ IF Exists(script.mint)
       THEN /\ record' = NameMint
            /\ script' = Idle
            /\ UNCHANGED wire
       ELSE /\ Submit(Transaction("create_standin_mint", script.mint, << >>),
                      "label mint")
            /\ UNCHANGED record
    /\ UNCHANGED << chain, keys, session, spent, torn >>

LabelMint ==
    /\ script.pc = "label mint"
    /\ Submit(Transaction("standin_mint_metadata", script.mint, << >>), "name mint")
    /\ UNCHANGED << chain, record, keys, session, spent, torn >>

RecordMint ==
    /\ script.pc = "name mint"
    /\ record' = NameMint
    /\ script' = Idle
    /\ UNCHANGED << chain, keys, wire, session, spent, torn >>

-----------------------------------------------------------------------------
(* register.ts *)

StartRegister(option) ==
    /\ Readable(DEPLOYMENT_FILE)
    /\ record.standinMint # None
    /\ Starts("register", calendarId(option), record.standinMint, "")
    /\ IF option = 0 THEN UNCHANGED spent ELSE Spend("event")
    /\ UNCHANGED << chain, record, keys, wire, session, torn >>

RegisterThrows ==
    /\ script.pc = "register" /\ ~Exists(calendarPda(script.id))
    /\ script' = Idle
    /\ UNCHANGED << chain, record, keys, wire, session, spent, torn >>

\* The security and its binding are recorded before anybody asks whether the
\* security is there already, and with which binding.
Register ==
    /\ script.pc = "register" /\ Exists(calendarPda(script.id))
    /\ record' = [record EXCEPT !.security = securityPda(script.mint),
                                !.binding = TRUE]
    /\ IF Exists(securityPda(script.mint))
       THEN script' = Idle /\ UNCHANGED wire
       ELSE Submit(ProgramTx(<< registerSecurityIx(wallet, script.mint, script.id,
                                                   BINDING) >>), "done")
    /\ UNCHANGED << chain, keys, session, spent, torn >>

-----------------------------------------------------------------------------
(* probe.ts *)

StartProbe ==
    /\ Readable(DEPLOYMENT_FILE)
    /\ record.standinMint # None
    /\ Starts("probe", calendarId(0), record.standinMint, "")
    /\ Spend("probe")
    /\ UNCHANGED << chain, record, keys, wire, session, torn >>

\* A calendar that is not there, or a security that is not: main throws.
ProbeThrows ==
    /\ script.pc = "probe"
    /\ ~(Exists(calendarPda(script.id)) /\ Exists(securityPda(script.mint)))
    /\ script' = Idle
    /\ UNCHANGED << chain, record, keys, wire, session, spent, torn >>

\* The flow is picked from the clock unless it is forced, and the refusals are
\* counted; the transaction runs later.
PickMode(forced) ==
    /\ script.pc = "probe"
    /\ Exists(calendarPda(script.id)) /\ Exists(securityPda(script.mint))
    /\ script' = [script EXCEPT
          !.mode = IF forced \/ session = "Regular"
                   THEN IF session = "Regular" THEN "open" ELSE "open-forced"
                   ELSE "closed",
          !.before = chain[securityPda(script.mint)].refusals,
          !.pc = IF forced \/ session = "Regular" THEN "post vaa"
                 ELSE "closed session"]
    /\ UNCHANGED << chain, record, keys, wire, session, spent, torn >>

ClosedSession ==
    /\ script.pc = "closed session"
    /\ Submit(ProgramTx(<< probeSecurityIx(script.mint, script.id,
                                lastPriceUpdate(script.mint)) >>), "record probe")
    /\ UNCHANGED << chain, record, keys, session, spent, torn >>

PostVaa ==
    /\ script.pc = "post vaa"
    /\ Submit(Transaction("encoded_vaa", None, << >>), "in session")
    /\ UNCHANGED << chain, record, keys, session, spent, torn >>

\* The update is posted, synced and probed in one transaction.
InSession ==
    /\ script.pc = "in session"
    /\ Submit(ProgramTx(<< syncSecurityIx(script.mint, Key("price")),
                            probeSecurityIx(script.mint, script.id, Key("price")) >>),
              "record probe")
    /\ UNCHANGED << chain, record, keys, session, spent, torn >>

\* Mutated record: the code is the last one the account holds.
ProbeRecordFromAccount ==
    LET account == chain[securityPda(script.mint)] IN
    [mode |-> script.mode, tx |-> script.tx, code |-> account.last_refusal_code,
     refusalsBefore |-> script.before, refusalsAfter |-> account.refusals,
     lastRefusalCode |-> account.last_refusal_code]

\* The code comes from the event in the logs, the counters from the account.
ProbeRecord ==
    LET account == chain[securityPda(script.mint)] IN
    [mode |-> script.mode, tx |-> script.tx, code |-> script.code,
     refusalsBefore |-> script.before, refusalsAfter |-> account.refusals,
     lastRefusalCode |-> account.last_refusal_code]

RecordProbe ==
    /\ script.pc = "record probe"
    /\ record' = [record EXCEPT !.probes = @ \cup {ProbeRecord}]
    /\ script' = Idle
    /\ UNCHANGED << chain, keys, wire, session, spent, torn >>

-----------------------------------------------------------------------------
(* A script dies at an await; what it had submitted stays on its way. *)
Dies ==
    /\ script # Idle
    /\ script' = Idle
    /\ Spend("event")
    /\ UNCHANGED << chain, record, keys, wire, session, torn >>

\* Where a script writes the record; init.ts has just written it five times.
WritesRecord ==
    \/ script.pc \in {"init registry", "name mint", "record probe"}
    \/ script.pc = "confirm" /\ wire[script.tx].status = "landed"
    \/ script.pc = "create mint" /\ Exists(script.mint)
    \/ script.pc = "register" /\ Exists(calendarPda(script.id))

\* A script dies inside writeFileSync, on the record.
TearsRecord ==
    /\ script # Idle /\ WritesRecord
    /\ script' = Idle
    /\ torn' = torn \cup {DEPLOYMENT_FILE}
    /\ Spend("event")
    /\ UNCHANGED << chain, record, keys, wire, session >>

\* Or on the key that it starts by making.
TearsKey(name) ==
    /\ script = Idle /\ name \notin keys
    /\ keys' = keys \cup {name}
    /\ torn' = torn \cup {name}
    /\ Spend("event")
    /\ UNCHANGED << chain, record, script, wire, session >>

DiesWriting ==
    \/ TearsRecord
    \/ TearsKey("attestor")
    \/ \E newMint \in BOOLEAN :
          NameIsKnown(newMint) /\ TearsKey(standinMintKeyName(newMint))

\* The exchange opens and closes.
Bell ==
    /\ session' = IF session = "Regular" THEN "Closed" ELSE "Regular"
    /\ UNCHANGED << chain, record, keys, script, wire, spent, torn >>

Mints == {address \in DOMAIN chain : chain[address].type = "Mint"}

\* What anyone with the generated client may ask of these accounts.
CallInputs ==
    { <<"setRegistryPaused", [authority |-> wallet, paused |-> b]>> : b \in BOOLEAN }
    \cup { <<"attestHalt", [attestor |-> Key("attestor"),
                            security |-> securityPda(m), halted |-> TRUE,
                            sinceTs |-> 0, source |-> 0]>> : m \in Mints }
    \cup { <<name, [underlyingMint |-> m, calendar |-> calendarPda(id),
                    primaryOracle |-> Key("price"), secondaryOracle |-> Key("price")]>> :
              name \in {"syncSecurity", "probeSecurity"}, m \in Mints,
              id \in {DEFAULT_CALENDAR_ID} }
    \cup { <<"appendCalendarEntries", [authority |-> wallet,
                                       calendar |-> calendarPda(id),
                                       entries |-> {StrayEntry}]>> :
              id \in {DEFAULT_CALENDAR_ID, OtherCalendarId} }

Call ==
    \E input \in CallInputs :
        LET sent == deliverableProgram(input[1], input[2])
            world == World(TRUE)
        IN /\ P!Accepts(chain, world, sent)
           /\ chain' = P!Effect(chain, world, sent)
           /\ Spend("event")
           /\ UNCHANGED << record, keys, script, wire, session, torn >>

Init ==
    /\ chain = (SYSTEM_PROGRAM :> [type |-> "Program"])
    /\ record = EmptyRecord
    /\ keys = {}
    /\ script = Idle
    /\ wire = << >>
    /\ session = "Closed"
    /\ spent = [what \in DOMAIN Bounds |-> 0]
    /\ torn = {}

InitScript ==
    \/ \E option \in {0, OtherCalendarId} : StartInit(option)
    \/ InitRegistry \/ InitCalendar \/ AppendEntries

MintScript ==
    \/ \E newMint \in BOOLEAN : StartMint(newMint)
    \/ CreateMint \/ LabelMint \/ RecordMint

RegisterScript ==
    \/ \E option \in {0, OtherCalendarId} : StartRegister(option)
    \/ RegisterThrows \/ Register

ProbeScript ==
    \/ StartProbe \/ ProbeThrows
    \/ \E forced \in BOOLEAN : PickMode(forced)
    \/ ClosedSession \/ PostVaa \/ InSession \/ RecordProbe

Network == \E id \in DOMAIN wire : Executed(id) \/ Expired(id)

Next ==
    \/ InitScript \/ MintScript \/ RegisterScript \/ ProbeScript
    \/ Confirm \/ ConfirmThrows \/ SendFails \/ Done
    \/ Network \/ Dies \/ DiesWriting \/ Bell \/ Call

\* What a running script does next, once it has been started.
Step ==
    \/ InitRegistry \/ InitCalendar \/ AppendEntries
    \/ CreateMint \/ LabelMint \/ RecordMint
    \/ RegisterThrows \/ Register
    \/ ProbeThrows \/ (\E forced \in BOOLEAN : PickMode(forced))
    \/ ClosedSession \/ PostVaa \/ InSession \/ RecordProbe
    \/ Confirm \/ ConfirmThrows \/ SendFails \/ Done

CalendarComplete(id) ==
    /\ Exists(registryPda)
    /\ id # 0 /\ Exists(calendarPda(id))
    /\ Entries \subseteq chain[calendarPda(id)].entries

MintRecorded == record.standinMint # None /\ Exists(record.standinMint)

SecurityRecorded ==
    /\ record.security = securityPda(record.standinMint)
    /\ Exists(record.security)

Deployed == CalendarComplete(record.calendarId) /\ MintRecorded /\ SecurityRecorded

\* The operator starts the first script of the README whose work is not done.
Resume ==
    \/ ~CalendarComplete(record.calendarId) /\ StartInit(0)
    \/ /\ CalendarComplete(record.calendarId) /\ ~MintRecorded
       /\ StartMint(FALSE)
    \/ /\ CalendarComplete(record.calendarId) /\ MintRecorded
       /\ ~SecurityRecorded /\ StartRegister(0)

\* A script that runs keeps running, the network decides about every
\* transaction, and an operator who has not got a deployment keeps at it.
Fairness ==
    /\ WF_vars(Step)
    /\ WF_vars(\E id \in DOMAIN wire : Executed(id))
    /\ SF_vars(Resume)

Spec == Init /\ [][Next]_vars /\ Fairness

-----------------------------------------------------------------------------
(* Properties *)

TransactionIds == DOMAIN wire

\* lib.ts and the contexts: whatever order the scripts run, die and are run
\* again in, an account that exists stands where its seeds put it and the
\* accounts it was made from exist before it.
TypeOK ==
    /\ \A address \in DOMAIN chain :
          LET account == chain[address] IN
          CASE account.type = "Registry" -> address = registryPda
            [] account.type = "MarketCalendar" ->
                 address = calendarPda(account.id) /\ Exists(registryPda)
            [] account.type = "SecurityState" ->
                 /\ address = securityPda(account.underlying_mint)
                 /\ Exists(account.underlying_mint)
                 /\ Exists(calendarPda(account.calendar_id))
            [] OTHER -> account.type \in {"Mint", "Program"}
    /\ record.transactions \subseteq TransactionIds
    /\ script = Idle \/ script.tx \in TransactionIds \cup {0}
    /\ record.standinMint # None =>
          Exists(record.standinMint) /\ record.standinMintKey \in keys

\* Every look before a send (init.ts, create-standin-mint.ts, register.ts): a
\* transaction of the scripts is refused only because another run's copy of it
\* landed first, or because the probe was pointed at a calendar the security
\* is not bound to; never for an account, a signer, a flag or a seed.
RefusedOnlyForARace ==
    \A id \in TransactionIds :
        \/ wire[id].why \subseteq {"taken"}
        \/ /\ wire[id].why = {"mismatch"}
           /\ \E i \in DOMAIN wire[id].tx.ixs :
                /\ wire[id].tx.ixs[i].discriminator = DISC.probe_security
                /\ wire[id].tx.ixs[i].accounts[2].address = calendarPda(OtherCalendarId)

SameReading(sent) ==
    LET name == identifyDeliverableInstruction(sent)
        parsed == parseDeliverableInstruction(sent)
    IN /\ [n \in DOMAIN parsed.accounts |-> parsed.accounts[n].address]
            = P!Bound(P!Handler(sent), sent)
       /\ P!Handler(sent) = name
       /\ deliverableProgram(name, InputsOf(parsed)) = sent

\* lib.ts:354 against sdk/src/generated: what the scripts have encoded by hand and put
\* on the wire is read back by the generated parser as the accounts the program binds,
\* and is what the generated builder would have made of them.
HandEncodedIsGenerated ==
    \A id \in TransactionIds :
        wire[id].status = "pending" =>
            \A i \in DOMAIN wire[id].tx.ixs : SameReading(wire[id].tx.ixs[i])

\* recordTx and probe.ts: the record never names a transaction that did not
\* land, and a probe in it carries the verdict the program gave in the
\* transaction it names (or none, when the logs were not there), with a
\* refusal counter that moved.
RecordIsTrue ==
    /\ \A id \in record.transactions : wire[id].status = "landed"
    /\ \A p \in record.probes :
          /\ p.tx \in record.transactions
          /\ p.code \in {0, wire[p.tx].code}
          /\ p.refusalsAfter > p.refusalsBefore

\* init.ts:6 "Idempotent: an account that already exists is reported and
\* skipped": wherever the runs died, running the scripts again ends with the
\* registry, the calendar of the record with every entry of the table, and the
\* security of the recorded mint; unless one of them died inside a write and
\* left a file that none of them can read.
Converges == [](torn = {}) => <>[]Deployed
=============================================================================
