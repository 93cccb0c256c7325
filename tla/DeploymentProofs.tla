-------------------------- MODULE DeploymentProofs --------------------------
(***************************************************************************)
(* Proofs about the deployment scripts: whatever order they are run, die   *)
(* and are run again in, and whatever becomes of their transactions, the   *)
(* program refuses them only for a race, and their record is true.         *)
(***************************************************************************)
EXTENDS Deployment, SequenceTheorems, TLAPS

-----------------------------------------------------------------------------
(* What the program binds *)

\* Contexts is an overlay of five groups, none of which has a handler of another.
LEMMA ContextsAre ==
    /\ P!Contexts["initRegistry"] = P!AdminContexts.initRegistry
    /\ P!Contexts["initCalendar"] = P!AdminContexts.initCalendar
    /\ P!Contexts["appendCalendarEntries"] = P!AdminContexts.appendCalendarEntries
    /\ P!Contexts["registerSecurity"] = P!SecurityContexts.registerSecurity
    /\ P!Contexts["syncSecurity"] = P!SecurityContexts.syncSecurity
    /\ P!Contexts["probeSecurity"] = P!SecurityContexts.probeSecurity
<1>1. /\ DOMAIN P!AdminContexts =
            {"initRegistry", "setRegistryPaused", "initCalendar",
             "appendCalendarEntries", "probeSession"}
      /\ DOMAIN P!SecurityContexts =
            {"registerSecurity", "syncSecurity", "attestHalt", "probeSecurity"}
  BY DEF P!AdminContexts, P!SecurityContexts
<1> QED BY <1>1 DEF P!Contexts, P!@@

\* Anchor binds a field by its position in the context.
LEMMA BoundHere ==
    ASSUME NEW op, NEW sent, NEW i \in DOMAIN P!Contexts[op],
           \A j \in DOMAIN P!Contexts[op] :
              P!Contexts[op][j].name = P!Contexts[op][i].name => j = i
    PROVE  P!Bound(op, sent)[P!Contexts[op][i].name] = sent.accounts[i].address
<1> DEFINE n == P!Contexts[op][i].name
           at == CHOOSE j \in DOMAIN P!Contexts[op] : P!Contexts[op][j].name = n
<1>1. at \in DOMAIN P!Contexts[op] /\ P!Contexts[op][at].name = n
  OBVIOUS
<1>2. at = i
  BY <1>1
<1>3. P!Bound(op, sent)[n] = sent.accounts[at].address
  BY DEF P!Bound
<1> QED BY <1>2, <1>3

\* The accounts of initRegistry, and what the script that encodes it by hand passes for
\* each: at its place, signed and writable where the context wants it.
LEMMA InitRegistryHand ==
    ASSUME NEW sent, sent = initRegistryIx(wallet, Key("attestor"))
    PROVE  LET fields == P!Contexts["initRegistry"]
               a == P!Bound("initRegistry", sent)
           IN  /\ DOMAIN fields = 1..3 /\ Len(fields) = 3 /\ Len(sent.accounts) = 3
               /\ \A i \in 1..3 : fields[i].signer => sent.accounts[i].isSigner
               /\ \A i \in 1..3 : fields[i].mut => sent.accounts[i].isWritable
               /\ fields[1].type = "Any" /\ ~fields[1].init
               /\ fields[2].type = "Registry" /\ fields[2].init
               /\ fields[3].type = "Program" /\ ~fields[3].init
               /\ sent.accounts[1].address = wallet /\ a.authority = wallet
               /\ sent.accounts[2].address = registryPda /\ a.registry = registryPda
               /\ sent.accounts[3].address = SYSTEM_PROGRAM /\ a.systemProgram = SYSTEM_PROGRAM
               /\ DOMAIN a = {"authority", "registry", "systemProgram"}
<1> DEFINE fields == P!AdminContexts.initRegistry
           metas == sent.accounts
<1>1. DOMAIN fields = 1..3 /\ Len(fields) = 3
  BY DEF P!AdminContexts
<1>2. Len(metas) = 3
  BY DEF initRegistryIx, ix, w, r
<1>3. fields[1].name = "authority" /\ fields[2].name = "registry" /\ fields[3].name = "systemProgram"
  BY DEF P!AdminContexts, P!MutSigner, P!Signer, P!Account, P!MutAccount, P!InitAccount, P!Unchecked, P!Field
<1>4. \A i \in 1..3 : fields[i].signer => metas[i].isSigner
  BY DEF P!AdminContexts, P!MutSigner, P!Signer, P!Account, P!MutAccount, P!InitAccount, P!Unchecked, P!Field, initRegistryIx, ix, w, r
<1>5. \A i \in 1..3 : fields[i].mut => metas[i].isWritable
  BY DEF P!AdminContexts, P!MutSigner, P!Signer, P!Account, P!MutAccount, P!InitAccount, P!Unchecked, P!Field, initRegistryIx, ix, w, r
<1>6. /\ fields[1].type = "Any"
      /\ fields[2].type = "Registry"
      /\ fields[3].type = "Program"
  BY DEF P!AdminContexts, P!MutSigner, P!Signer, P!Account, P!MutAccount, P!InitAccount, P!Unchecked, P!Field
<1>7. /\ ~fields[1].init
      /\ fields[2].init
      /\ ~fields[3].init
  BY DEF P!AdminContexts, P!MutSigner, P!Signer, P!Account, P!MutAccount, P!InitAccount, P!Unchecked, P!Field
<1>8. /\ metas[1].address = wallet
      /\ metas[2].address = registryPda
      /\ metas[3].address = SYSTEM_PROGRAM
  BY DEF initRegistryIx, ix, w, r
<1>9. P!Contexts["initRegistry"] = fields
  BY ContextsAre
<1> HIDE DEF fields
<1>10. \A i, j \in 1..3 : fields[i].name = fields[j].name => i = j
  BY <1>3
<1>11. \A i \in 1..3 : P!Bound("initRegistry", sent)[fields[i].name] = metas[i].address
  BY <1>1, <1>9, <1>10, BoundHere
<1>12. DOMAIN P!Bound("initRegistry", sent) = {fields[i].name : i \in 1..3}
  BY <1>1, <1>9 DEF P!Bound
<1>13. {fields[i].name : i \in 1..3} = {"authority", "registry", "systemProgram"}
  BY <1>3
<1> HIDE DEF metas
<1> QED BY <1>1, <1>2, <1>3, <1>4, <1>5, <1>6, <1>7, <1>8, <1>9, <1>11, <1>12, <1>13 DEF metas

\* The accounts of initCalendar, and what the script that encodes it by hand passes for
\* each: at its place, signed and writable where the context wants it.
LEMMA InitCalendarHand ==
    ASSUME NEW id, NEW sent, sent = initCalendarIx(wallet, id, REGULAR_OPEN_MINUTE, REGULAR_CLOSE_MINUTE)
    PROVE  LET fields == P!Contexts["initCalendar"]
               a == P!Bound("initCalendar", sent)
           IN  /\ DOMAIN fields = 1..4 /\ Len(fields) = 4 /\ Len(sent.accounts) = 4
               /\ \A i \in 1..4 : fields[i].signer => sent.accounts[i].isSigner
               /\ \A i \in 1..4 : fields[i].mut => sent.accounts[i].isWritable
               /\ fields[1].type = "Any" /\ ~fields[1].init
               /\ fields[2].type = "Registry" /\ ~fields[2].init
               /\ fields[3].type = "MarketCalendar" /\ fields[3].init
               /\ fields[4].type = "Program" /\ ~fields[4].init
               /\ sent.accounts[1].address = wallet /\ a.authority = wallet
               /\ sent.accounts[2].address = registryPda /\ a.registry = registryPda
               /\ sent.accounts[3].address = calendarPda(id) /\ a.calendar = calendarPda(id)
               /\ sent.accounts[4].address = SYSTEM_PROGRAM /\ a.systemProgram = SYSTEM_PROGRAM
               /\ DOMAIN a = {"authority", "registry", "calendar", "systemProgram"}
<1> DEFINE fields == P!AdminContexts.initCalendar
           metas == sent.accounts
<1>1. DOMAIN fields = 1..4 /\ Len(fields) = 4
  BY DEF P!AdminContexts
<1>2. Len(metas) = 4
  BY DEF initCalendarIx, ix, w, r
<1>3. /\ fields[1].name = "authority" /\ fields[2].name = "registry" /\ fields[3].name = "calendar"
      /\ fields[4].name = "systemProgram"
  BY DEF P!AdminContexts, P!MutSigner, P!Signer, P!Account, P!MutAccount, P!InitAccount, P!Unchecked, P!Field
<1>4. \A i \in 1..4 : fields[i].signer => metas[i].isSigner
  BY DEF P!AdminContexts, P!MutSigner, P!Signer, P!Account, P!MutAccount, P!InitAccount, P!Unchecked, P!Field, initCalendarIx, ix, w, r
<1>5. \A i \in 1..4 : fields[i].mut => metas[i].isWritable
  BY DEF P!AdminContexts, P!MutSigner, P!Signer, P!Account, P!MutAccount, P!InitAccount, P!Unchecked, P!Field, initCalendarIx, ix, w, r
<1>6. /\ fields[1].type = "Any"
      /\ fields[2].type = "Registry"
      /\ fields[3].type = "MarketCalendar"
      /\ fields[4].type = "Program"
  BY DEF P!AdminContexts, P!MutSigner, P!Signer, P!Account, P!MutAccount, P!InitAccount, P!Unchecked, P!Field
<1>7. /\ ~fields[1].init
      /\ ~fields[2].init
      /\ fields[3].init
      /\ ~fields[4].init
  BY DEF P!AdminContexts, P!MutSigner, P!Signer, P!Account, P!MutAccount, P!InitAccount, P!Unchecked, P!Field
<1>8. /\ metas[1].address = wallet
      /\ metas[2].address = registryPda
      /\ metas[3].address = calendarPda(id)
      /\ metas[4].address = SYSTEM_PROGRAM
  BY DEF initCalendarIx, ix, w, r
<1>9. P!Contexts["initCalendar"] = fields
  BY ContextsAre
<1> HIDE DEF fields
<1>10. \A i, j \in 1..4 : fields[i].name = fields[j].name => i = j
  BY <1>3
<1>11. \A i \in 1..4 : P!Bound("initCalendar", sent)[fields[i].name] = metas[i].address
  BY <1>1, <1>9, <1>10, BoundHere
<1>12. DOMAIN P!Bound("initCalendar", sent) = {fields[i].name : i \in 1..4}
  BY <1>1, <1>9 DEF P!Bound
<1>13. {fields[i].name : i \in 1..4} = {"authority", "registry", "calendar", "systemProgram"}
  BY <1>3
<1> HIDE DEF metas
<1> QED BY <1>1, <1>2, <1>3, <1>4, <1>5, <1>6, <1>7, <1>8, <1>9, <1>11, <1>12, <1>13 DEF metas

\* The accounts of appendCalendarEntries, and what the script that encodes it by hand passes for
\* each: at its place, signed and writable where the context wants it.
LEMMA AppendHand ==
    ASSUME NEW id, NEW missing, NEW sent, sent = appendCalendarEntriesIx(wallet, id, missing)
    PROVE  LET fields == P!Contexts["appendCalendarEntries"]
               a == P!Bound("appendCalendarEntries", sent)
           IN  /\ DOMAIN fields = 1..2 /\ Len(fields) = 2 /\ Len(sent.accounts) = 2
               /\ \A i \in 1..2 : fields[i].signer => sent.accounts[i].isSigner
               /\ \A i \in 1..2 : fields[i].mut => sent.accounts[i].isWritable
               /\ fields[1].type = "Any" /\ ~fields[1].init
               /\ fields[2].type = "MarketCalendar" /\ ~fields[2].init
               /\ sent.accounts[1].address = wallet /\ a.authority = wallet
               /\ sent.accounts[2].address = calendarPda(id) /\ a.calendar = calendarPda(id)
               /\ DOMAIN a = {"authority", "calendar"}
<1> DEFINE fields == P!AdminContexts.appendCalendarEntries
           metas == sent.accounts
<1>1. DOMAIN fields = 1..2 /\ Len(fields) = 2
  BY DEF P!AdminContexts
<1>2. Len(metas) = 2
  BY DEF appendCalendarEntriesIx, ix, w, r
<1>3. fields[1].name = "authority" /\ fields[2].name = "calendar"
  BY DEF P!AdminContexts, P!MutSigner, P!Signer, P!Account, P!MutAccount, P!InitAccount, P!Unchecked, P!Field
<1>4. \A i \in 1..2 : fields[i].signer => metas[i].isSigner
  BY DEF P!AdminContexts, P!MutSigner, P!Signer, P!Account, P!MutAccount, P!InitAccount, P!Unchecked, P!Field, appendCalendarEntriesIx, ix, w, r
<1>5. \A i \in 1..2 : fields[i].mut => metas[i].isWritable
  BY DEF P!AdminContexts, P!MutSigner, P!Signer, P!Account, P!MutAccount, P!InitAccount, P!Unchecked, P!Field, appendCalendarEntriesIx, ix, w, r
<1>6. /\ fields[1].type = "Any"
      /\ fields[2].type = "MarketCalendar"
  BY DEF P!AdminContexts, P!MutSigner, P!Signer, P!Account, P!MutAccount, P!InitAccount, P!Unchecked, P!Field
<1>7. /\ ~fields[1].init
      /\ ~fields[2].init
  BY DEF P!AdminContexts, P!MutSigner, P!Signer, P!Account, P!MutAccount, P!InitAccount, P!Unchecked, P!Field
<1>8. /\ metas[1].address = wallet
      /\ metas[2].address = calendarPda(id)
  BY DEF appendCalendarEntriesIx, ix, w, r
<1>9. P!Contexts["appendCalendarEntries"] = fields
  BY ContextsAre
<1> HIDE DEF fields
<1>10. \A i, j \in 1..2 : fields[i].name = fields[j].name => i = j
  BY <1>3
<1>11. \A i \in 1..2 : P!Bound("appendCalendarEntries", sent)[fields[i].name] = metas[i].address
  BY <1>1, <1>9, <1>10, BoundHere
<1>12. DOMAIN P!Bound("appendCalendarEntries", sent) = {fields[i].name : i \in 1..2}
  BY <1>1, <1>9 DEF P!Bound
<1>13. {fields[i].name : i \in 1..2} = {"authority", "calendar"}
  BY <1>3
<1> HIDE DEF metas
<1> QED BY <1>1, <1>2, <1>3, <1>4, <1>5, <1>6, <1>7, <1>8, <1>9, <1>11, <1>12, <1>13 DEF metas

\* The accounts of registerSecurity, and what the script that encodes it by hand passes for
\* each: at its place, signed and writable where the context wants it.
LEMMA RegisterHand ==
    ASSUME NEW mint, NEW id, NEW sent, sent = registerSecurityIx(wallet, mint, id, BINDING)
    PROVE  LET fields == P!Contexts["registerSecurity"]
               a == P!Bound("registerSecurity", sent)
           IN  /\ DOMAIN fields = 1..6 /\ Len(fields) = 6 /\ Len(sent.accounts) = 6
               /\ \A i \in 1..6 : fields[i].signer => sent.accounts[i].isSigner
               /\ \A i \in 1..6 : fields[i].mut => sent.accounts[i].isWritable
               /\ fields[1].type = "Any" /\ ~fields[1].init
               /\ fields[2].type = "Registry" /\ ~fields[2].init
               /\ fields[3].type = "Mint" /\ ~fields[3].init
               /\ fields[4].type = "MarketCalendar" /\ ~fields[4].init
               /\ fields[5].type = "SecurityState" /\ fields[5].init
               /\ fields[6].type = "Program" /\ ~fields[6].init
               /\ sent.accounts[1].address = wallet /\ a.authority = wallet
               /\ sent.accounts[2].address = registryPda /\ a.registry = registryPda
               /\ sent.accounts[3].address = mint /\ a.underlyingMint = mint
               /\ sent.accounts[4].address = calendarPda(id) /\ a.calendar = calendarPda(id)
               /\ sent.accounts[5].address = securityPda(mint) /\ a.security = securityPda(mint)
               /\ sent.accounts[6].address = SYSTEM_PROGRAM /\ a.systemProgram = SYSTEM_PROGRAM
               /\ DOMAIN a = {"authority", "registry", "underlyingMint", "calendar", "security", "systemProgram"}
<1> DEFINE fields == P!SecurityContexts.registerSecurity
           metas == sent.accounts
<1>1. DOMAIN fields = 1..6 /\ Len(fields) = 6
  BY DEF P!SecurityContexts
<1>2. Len(metas) = 6
  BY DEF registerSecurityIx, ix, w, r
<1>3. /\ fields[1].name = "authority" /\ fields[2].name = "registry" /\ fields[3].name = "underlyingMint"
      /\ fields[4].name = "calendar" /\ fields[5].name = "security" /\ fields[6].name = "systemProgram"
  BY DEF P!SecurityContexts, P!MutSigner, P!Signer, P!Account, P!MutAccount, P!InitAccount, P!Unchecked, P!Field
<1>4. \A i \in 1..6 : fields[i].signer => metas[i].isSigner
  BY DEF P!SecurityContexts, P!MutSigner, P!Signer, P!Account, P!MutAccount, P!InitAccount, P!Unchecked, P!Field, registerSecurityIx, ix, w, r
<1>5. \A i \in 1..6 : fields[i].mut => metas[i].isWritable
  BY DEF P!SecurityContexts, P!MutSigner, P!Signer, P!Account, P!MutAccount, P!InitAccount, P!Unchecked, P!Field, registerSecurityIx, ix, w, r
<1>6. /\ fields[1].type = "Any"
      /\ fields[2].type = "Registry"
      /\ fields[3].type = "Mint"
      /\ fields[4].type = "MarketCalendar"
      /\ fields[5].type = "SecurityState"
      /\ fields[6].type = "Program"
  BY DEF P!SecurityContexts, P!MutSigner, P!Signer, P!Account, P!MutAccount, P!InitAccount, P!Unchecked, P!Field
<1>7. /\ ~fields[1].init
      /\ ~fields[2].init
      /\ ~fields[3].init
      /\ ~fields[4].init
      /\ fields[5].init
      /\ ~fields[6].init
  BY DEF P!SecurityContexts, P!MutSigner, P!Signer, P!Account, P!MutAccount, P!InitAccount, P!Unchecked, P!Field
<1>8. /\ metas[1].address = wallet
      /\ metas[2].address = registryPda
      /\ metas[3].address = mint
      /\ metas[4].address = calendarPda(id)
      /\ metas[5].address = securityPda(mint)
      /\ metas[6].address = SYSTEM_PROGRAM
  BY DEF registerSecurityIx, ix, w, r
<1>9. P!Contexts["registerSecurity"] = fields
  BY ContextsAre
<1> HIDE DEF fields
<1>10. \A i, j \in 1..6 : fields[i].name = fields[j].name => i = j
  BY <1>3
<1>11. \A i \in 1..6 : P!Bound("registerSecurity", sent)[fields[i].name] = metas[i].address
  BY <1>1, <1>9, <1>10, BoundHere
<1>12. DOMAIN P!Bound("registerSecurity", sent) = {fields[i].name : i \in 1..6}
  BY <1>1, <1>9 DEF P!Bound
<1>13. {fields[i].name : i \in 1..6} = {"authority", "registry", "underlyingMint", "calendar", "security", "systemProgram"}
  BY <1>3
<1> HIDE DEF metas
<1> QED BY <1>1, <1>2, <1>3, <1>4, <1>5, <1>6, <1>7, <1>8, <1>9, <1>11, <1>12, <1>13 DEF metas

\* The accounts of syncSecurity, and what the script that encodes it by hand passes for
\* each: at its place, signed and writable where the context wants it.
LEMMA SyncHand ==
    ASSUME NEW mint, NEW oracle, NEW sent, sent = syncSecurityIx(mint, oracle)
    PROVE  LET fields == P!Contexts["syncSecurity"]
               a == P!Bound("syncSecurity", sent)
           IN  /\ DOMAIN fields = 1..4 /\ Len(fields) = 4 /\ Len(sent.accounts) = 4
               /\ \A i \in 1..4 : fields[i].signer => sent.accounts[i].isSigner
               /\ \A i \in 1..4 : fields[i].mut => sent.accounts[i].isWritable
               /\ fields[1].type = "SecurityState" /\ ~fields[1].init
               /\ fields[2].type = "Mint" /\ ~fields[2].init
               /\ fields[3].type = "Any" /\ ~fields[3].init
               /\ fields[4].type = "Any" /\ ~fields[4].init
               /\ sent.accounts[1].address = securityPda(mint) /\ a.security = securityPda(mint)
               /\ sent.accounts[2].address = mint /\ a.underlyingMint = mint
               /\ sent.accounts[3].address = oracle /\ a.primaryOracle = oracle
               /\ sent.accounts[4].address = oracle /\ a.secondaryOracle = oracle
               /\ DOMAIN a = {"security", "underlyingMint", "primaryOracle", "secondaryOracle"}
<1> DEFINE fields == P!SecurityContexts.syncSecurity
           metas == sent.accounts
<1>1. DOMAIN fields = 1..4 /\ Len(fields) = 4
  BY DEF P!SecurityContexts
<1>2. Len(metas) = 4
  BY DEF syncSecurityIx, ix, w, r
<1>3. /\ fields[1].name = "security" /\ fields[2].name = "underlyingMint" /\ fields[3].name = "primaryOracle"
      /\ fields[4].name = "secondaryOracle"
  BY DEF P!SecurityContexts, P!MutSigner, P!Signer, P!Account, P!MutAccount, P!InitAccount, P!Unchecked, P!Field
<1>4. \A i \in 1..4 : fields[i].signer => metas[i].isSigner
  BY DEF P!SecurityContexts, P!MutSigner, P!Signer, P!Account, P!MutAccount, P!InitAccount, P!Unchecked, P!Field, syncSecurityIx, ix, w, r
<1>5. \A i \in 1..4 : fields[i].mut => metas[i].isWritable
  BY DEF P!SecurityContexts, P!MutSigner, P!Signer, P!Account, P!MutAccount, P!InitAccount, P!Unchecked, P!Field, syncSecurityIx, ix, w, r
<1>6. /\ fields[1].type = "SecurityState"
      /\ fields[2].type = "Mint"
      /\ fields[3].type = "Any"
      /\ fields[4].type = "Any"
  BY DEF P!SecurityContexts, P!MutSigner, P!Signer, P!Account, P!MutAccount, P!InitAccount, P!Unchecked, P!Field
<1>7. /\ ~fields[1].init
      /\ ~fields[2].init
      /\ ~fields[3].init
      /\ ~fields[4].init
  BY DEF P!SecurityContexts, P!MutSigner, P!Signer, P!Account, P!MutAccount, P!InitAccount, P!Unchecked, P!Field
<1>8. /\ metas[1].address = securityPda(mint)
      /\ metas[2].address = mint
      /\ metas[3].address = oracle
      /\ metas[4].address = oracle
  BY DEF syncSecurityIx, ix, w, r
<1>9. P!Contexts["syncSecurity"] = fields
  BY ContextsAre
<1> HIDE DEF fields
<1>10. \A i, j \in 1..4 : fields[i].name = fields[j].name => i = j
  BY <1>3
<1>11. \A i \in 1..4 : P!Bound("syncSecurity", sent)[fields[i].name] = metas[i].address
  BY <1>1, <1>9, <1>10, BoundHere
<1>12. DOMAIN P!Bound("syncSecurity", sent) = {fields[i].name : i \in 1..4}
  BY <1>1, <1>9 DEF P!Bound
<1>13. {fields[i].name : i \in 1..4} = {"security", "underlyingMint", "primaryOracle", "secondaryOracle"}
  BY <1>3
<1> HIDE DEF metas
<1> QED BY <1>1, <1>2, <1>3, <1>4, <1>5, <1>6, <1>7, <1>8, <1>9, <1>11, <1>12, <1>13 DEF metas

\* The accounts of probeSecurity, and what the script that encodes it by hand passes for
\* each: at its place, signed and writable where the context wants it.
LEMMA ProbeHand ==
    ASSUME NEW mint, NEW id, NEW oracle, NEW sent, sent = probeSecurityIx(mint, id, oracle)
    PROVE  LET fields == P!Contexts["probeSecurity"]
               a == P!Bound("probeSecurity", sent)
           IN  /\ DOMAIN fields = 1..5 /\ Len(fields) = 5 /\ Len(sent.accounts) = 5
               /\ \A i \in 1..5 : fields[i].signer => sent.accounts[i].isSigner
               /\ \A i \in 1..5 : fields[i].mut => sent.accounts[i].isWritable
               /\ fields[1].type = "SecurityState" /\ ~fields[1].init
               /\ fields[2].type = "MarketCalendar" /\ ~fields[2].init
               /\ fields[3].type = "Mint" /\ ~fields[3].init
               /\ fields[4].type = "Any" /\ ~fields[4].init
               /\ fields[5].type = "Any" /\ ~fields[5].init
               /\ sent.accounts[1].address = securityPda(mint) /\ a.security = securityPda(mint)
               /\ sent.accounts[2].address = calendarPda(id) /\ a.calendar = calendarPda(id)
               /\ sent.accounts[3].address = mint /\ a.underlyingMint = mint
               /\ sent.accounts[4].address = oracle /\ a.primaryOracle = oracle
               /\ sent.accounts[5].address = oracle /\ a.secondaryOracle = oracle
               /\ DOMAIN a = {"security", "calendar", "underlyingMint", "primaryOracle", "secondaryOracle"}
<1> DEFINE fields == P!SecurityContexts.probeSecurity
           metas == sent.accounts
<1>1. DOMAIN fields = 1..5 /\ Len(fields) = 5
  BY DEF P!SecurityContexts
<1>2. Len(metas) = 5
  BY DEF probeSecurityIx, ix, w, r
<1>3. /\ fields[1].name = "security" /\ fields[2].name = "calendar" /\ fields[3].name = "underlyingMint"
      /\ fields[4].name = "primaryOracle" /\ fields[5].name = "secondaryOracle"
  BY DEF P!SecurityContexts, P!MutSigner, P!Signer, P!Account, P!MutAccount, P!InitAccount, P!Unchecked, P!Field
<1>4. \A i \in 1..5 : fields[i].signer => metas[i].isSigner
  BY DEF P!SecurityContexts, P!MutSigner, P!Signer, P!Account, P!MutAccount, P!InitAccount, P!Unchecked, P!Field, probeSecurityIx, ix, w, r
<1>5. \A i \in 1..5 : fields[i].mut => metas[i].isWritable
  BY DEF P!SecurityContexts, P!MutSigner, P!Signer, P!Account, P!MutAccount, P!InitAccount, P!Unchecked, P!Field, probeSecurityIx, ix, w, r
<1>6. /\ fields[1].type = "SecurityState"
      /\ fields[2].type = "MarketCalendar"
      /\ fields[3].type = "Mint"
      /\ fields[4].type = "Any"
      /\ fields[5].type = "Any"
  BY DEF P!SecurityContexts, P!MutSigner, P!Signer, P!Account, P!MutAccount, P!InitAccount, P!Unchecked, P!Field
<1>7. /\ ~fields[1].init
      /\ ~fields[2].init
      /\ ~fields[3].init
      /\ ~fields[4].init
      /\ ~fields[5].init
  BY DEF P!SecurityContexts, P!MutSigner, P!Signer, P!Account, P!MutAccount, P!InitAccount, P!Unchecked, P!Field
<1>8. /\ metas[1].address = securityPda(mint)
      /\ metas[2].address = calendarPda(id)
      /\ metas[3].address = mint
      /\ metas[4].address = oracle
      /\ metas[5].address = oracle
  BY DEF probeSecurityIx, ix, w, r
<1>9. P!Contexts["probeSecurity"] = fields
  BY ContextsAre
<1> HIDE DEF fields
<1>10. \A i, j \in 1..5 : fields[i].name = fields[j].name => i = j
  BY <1>3
<1>11. \A i \in 1..5 : P!Bound("probeSecurity", sent)[fields[i].name] = metas[i].address
  BY <1>1, <1>9, <1>10, BoundHere
<1>12. DOMAIN P!Bound("probeSecurity", sent) = {fields[i].name : i \in 1..5}
  BY <1>1, <1>9 DEF P!Bound
<1>13. {fields[i].name : i \in 1..5} = {"security", "calendar", "underlyingMint", "primaryOracle", "secondaryOracle"}
  BY <1>3
<1> HIDE DEF metas
<1> QED BY <1>1, <1>2, <1>3, <1>4, <1>5, <1>6, <1>7, <1>8, <1>9, <1>11, <1>12, <1>13 DEF metas
-----------------------------------------------------------------------------
(* The inductive invariant *)

\* The calendars there may be.
Ids == {DEFAULT_CALENDAR_ID, OtherCalendarId} \ {0}

\* A calendar other than the default one is the current one: the one the
\* record names.
IdOK(id, current) == id \in Ids /\ (id # DEFAULT_CALENDAR_ID => current = id)

IsKey(address) == \E name : address = Key(name)

\* An account is of the kind its address names, and says of itself what its
\* address says.
RegistryOK(c, a) ==
    /\ a = registryPda /\ c[a].type = "Registry"
    /\ "authority" \in DOMAIN c[a] /\ c[a].authority = wallet

CalendarAccountOK(c, a) ==
    /\ c[a].type = "MarketCalendar"
    /\ {"id", "authority"} \subseteq DOMAIN c[a]
    /\ a = calendarPda(c[a].id) /\ c[a].authority = wallet
    /\ registryPda \in DOMAIN c

SecurityAccountOK(c, a) ==
    /\ c[a].type = "SecurityState"
    /\ {"underlying_mint", "calendar_id", "refusals"} \subseteq DOMAIN c[a]
    /\ a = securityPda(c[a].underlying_mint) /\ c[a].underlying_mint \in DOMAIN c
    /\ calendarPda(c[a].calendar_id) \in DOMAIN c
    /\ c[a].refusals \in Nat

PlaceOK(c, a) ==
    \/ RegistryOK(c, a)
    \/ CalendarAccountOK(c, a)
    \/ SecurityAccountOK(c, a)
    \/ IsKey(a) /\ c[a].type = "Mint"
    \/ a = SYSTEM_PROGRAM /\ c[a].type = "Program"

ChainOK(c) ==
    /\ SYSTEM_PROGRAM \in DOMAIN c
    /\ \A a \in DOMAIN c : "type" \in DOMAIN c[a] /\ PlaceOK(c, a)

CalendarsOK(c, current) == \A id : calendarPda(id) \in DOMAIN c => IdOK(id, current)

\* What a probe of a mint on a calendar stands on.
Probable(c, mint, id) ==
    /\ IsKey(mint)
    /\ {mint, calendarPda(id), securityPda(mint)} \subseteq DOMAIN c
    /\ id = OtherCalendarId \/ c[securityPda(mint)].calendar_id = id

\* What the scripts send.
InitRegistryTx == ProgramTx(<< initRegistryIx(wallet, Key("attestor")) >>)

InitCalendarTx(id) ==
    ProgramTx(<< initCalendarIx(wallet, id, REGULAR_OPEN_MINUTE, REGULAR_CLOSE_MINUTE) >>)

AppendTx(id, missing) == ProgramTx(<< appendCalendarEntriesIx(wallet, id, missing) >>)

CreateMintTx(mint) == Transaction("create_standin_mint", mint, << >>)

LabelMintTx(mint) == Transaction("standin_mint_metadata", mint, << >>)

RegisterTx(mint, id) == ProgramTx(<< registerSecurityIx(wallet, mint, id, BINDING) >>)

VaaTx == Transaction("encoded_vaa", None, << >>)

ProbeTx(mint, id, oracle) == ProgramTx(<< probeSecurityIx(mint, id, oracle) >>)

SyncAndProbeTx(mint, id, oracle) ==
    ProgramTx(<< syncSecurityIx(mint, oracle), probeSecurityIx(mint, id, oracle) >>)

\* Whatever is on the wire, what it needs was there when it was sent, and
\* is there still.
Founded(tx, c, current) ==
    \/ tx = InitRegistryTx
    \/ \E id : tx = InitCalendarTx(id) /\ IdOK(id, current) /\ registryPda \in DOMAIN c
    \/ \E id, missing : tx = AppendTx(id, missing) /\ calendarPda(id) \in DOMAIN c
    \/ \E mint : tx = CreateMintTx(mint) /\ IsKey(mint)
    \/ \E mint : tx = LabelMintTx(mint)
    \/ \E mint, id : /\ tx = RegisterTx(mint, id)
                     /\ IsKey(mint) /\ {mint, calendarPda(id)} \subseteq DOMAIN c
    \/ tx = VaaTx
    \/ \E mint, id, oracle :
          /\ tx = ProbeTx(mint, id, oracle) \/ tx = SyncAndProbeTx(mint, id, oracle)
          /\ Probable(c, mint, id)

\* The two reasons the program may have to refuse a transaction of a script.
RefusalOK(tx, why) ==
    \/ why \subseteq {"taken"}
    \/ /\ why = {"mismatch"}
       /\ \E i \in DOMAIN tx.ixs :
            /\ tx.ixs[i].discriminator = DISC.probe_security
            /\ tx.ixs[i].accounts[2].address = calendarPda(OtherCalendarId)

SentOK(sent, c, current) ==
    /\ DOMAIN sent = {"tx", "status", "why", "code"}
    /\ Founded(sent.tx, c, current)
    /\ RefusalOK(sent.tx, sent.why)

WireOK ==
    /\ \E S : wire \in Seq(S)
    /\ \A i \in DOMAIN wire : SentOK(wire[i], chain, record.calendarId)

ScriptFields == {"pc", "next", "tx", "code", "id", "mint", "key", "mode", "before"}

\* The refusals of the security a script is about.
Refusals(s, c) == c[securityPda(s.mint)].refusals

\* What is there when a script s arrives at a place.
Reached(s, pc, c, current, names) ==
    /\ pc \in {"init registry", "init calendar"} => IdOK(s.id, current)
    /\ pc = "init calendar" => registryPda \in DOMAIN c
    /\ pc = "append entries" => calendarPda(s.id) \in DOMAIN c
    /\ pc \in {"create mint", "label mint", "name mint"} => s.key \in names /\ IsKey(s.mint)
    /\ pc \in {"label mint", "name mint", "register", "probe"} => s.mint \in DOMAIN c
    /\ pc \in {"register", "probe"} => IsKey(s.mint)
    /\ pc = "probe" => s.id = IF current # 0 THEN current ELSE DEFAULT_CALENDAR_ID
    /\ pc \in {"closed session", "post vaa", "in session", "record probe"} =>
          Probable(c, s.mint, s.id) /\ s.before \in Nat
    /\ pc \in {"closed session", "post vaa", "in session"} => s.before <= Refusals(s, c)
    /\ pc = "record probe" => s.before < Refusals(s, c)

\* What a script s has sent, and where it goes on when that has landed.
Awaits(s, tx, c, current, names) ==
    \/ s.next = "init calendar" /\ tx = InitRegistryTx /\ IdOK(s.id, current)
    \/ s.next = "append entries" /\ tx = InitCalendarTx(s.id) /\ IdOK(s.id, current)
                                 /\ registryPda \in DOMAIN c
    \/ s.next = "done"
    \/ s.next = "label mint" /\ tx = CreateMintTx(s.mint) /\ s.key \in names /\ IsKey(s.mint)
    \/ s.next = "name mint" /\ Reached(s, "label mint", c, current, names)
    \/ s.next = "in session" /\ Reached(s, "post vaa", c, current, names)
    \/ /\ s.next = "record probe" /\ Reached(s, "in session", c, current, names)
       /\ \E oracle : \/ tx = ProbeTx(s.mint, s.id, oracle)
                      \/ tx = SyncAndProbeTx(s.mint, s.id, oracle)

\* A script that waits has sent what it waits for; one that records a probe
\* has seen it land.
PlaceInScriptOK ==
    /\ script.pc # "idle" /\ script.tx \in {0} \cup DOMAIN wire
    /\ script.pc = "confirm" =>
          /\ script.tx \in DOMAIN wire
          /\ Awaits(script, wire[script.tx].tx, chain, record.calendarId, keys)
          /\ wire[script.tx].status = "landed" =>
                Reached(script, script.next, chain, record.calendarId, keys)
    /\ Reached(script, script.pc, chain, record.calendarId, keys)
    /\ script.pc = "record probe" =>
          /\ script.tx \in record.transactions
          /\ script.code \in {0, wire[script.tx].code}

ScriptOK == script = Idle \/ (DOMAIN script = ScriptFields /\ PlaceInScriptOK)

RecordFields ==
    {"calendarId", "standinMintKey", "standinMint", "security", "binding",
     "transactions", "probes"}

ProbeOK(p) ==
    /\ p.tx \in record.transactions
    /\ p.code \in {0, wire[p.tx].code}
    /\ p.refusalsAfter > p.refusalsBefore

MintOK ==
    record.standinMint # None =>
       /\ IsKey(record.standinMint) /\ record.standinMint \in DOMAIN chain
       /\ record.standinMintKey \in keys

RecordOK ==
    /\ DOMAIN record = RecordFields
    /\ record.calendarId \in {0} \cup Ids
    /\ MintOK
    /\ \A id \in record.transactions : id \in DOMAIN wire /\ wire[id].status = "landed"
    /\ \A p \in record.probes : ProbeOK(p)

IInv ==
    /\ ChainOK(chain) /\ CalendarsOK(chain, record.calendarId)
    /\ WireOK /\ ScriptOK /\ RecordOK

-----------------------------------------------------------------------------
(* The chain *)

\* What stays of a chain whatever lands on it.
Grows(c, d) ==
    /\ DOMAIN c \subseteq DOMAIN d
    /\ \A a \in DOMAIN c : c[a].type = "SecurityState" =>
          /\ d[a].calendar_id = c[a].calendar_id
          /\ c[a].refusals <= d[a].refusals

\* An address has one kind of account.
LEMMA Kinds ==
    ASSUME NEW c, ChainOK(c), NEW a \in DOMAIN c
    PROVE  /\ a = registryPda => RegistryOK(c, a)
           /\ \A id : a = calendarPda(id) => CalendarAccountOK(c, a) /\ c[a].id = id
           /\ \A mint : a = securityPda(mint) =>
                 SecurityAccountOK(c, a) /\ c[a].underlying_mint = mint
           /\ IsKey(a) => c[a].type = "Mint"
           /\ a = SYSTEM_PROGRAM => c[a].type = "Program"
<1>1. PlaceOK(c, a)
  BY DEF ChainOK
<1>2. CASE RegistryOK(c, a)
  BY <1>2 DEF RegistryOK, registryPda, calendarPda, securityPda, IsKey, Key, SYSTEM_PROGRAM
<1>3. CASE CalendarAccountOK(c, a)
  BY <1>3 DEF CalendarAccountOK, registryPda, calendarPda, securityPda, IsKey, Key, SYSTEM_PROGRAM
<1>4. CASE SecurityAccountOK(c, a)
  BY <1>4 DEF SecurityAccountOK, registryPda, calendarPda, securityPda, IsKey, Key, SYSTEM_PROGRAM
<1>5. CASE IsKey(a) /\ c[a].type = "Mint"
  BY <1>5 DEF registryPda, calendarPda, securityPda, IsKey, Key, SYSTEM_PROGRAM
<1>6. CASE a = SYSTEM_PROGRAM /\ c[a].type = "Program"
  BY <1>6 DEF registryPda, calendarPda, securityPda, IsKey, Key, SYSTEM_PROGRAM
<1> QED BY <1>1, <1>2, <1>3, <1>4, <1>5, <1>6 DEF PlaceOK

\* The kinds, as the types a context asks for.
LEMMA KindExists ==
    ASSUME NEW c, ChainOK(c)
    PROVE  /\ registryPda \in DOMAIN c => P!Exists(c, registryPda, "Registry")
           /\ \A id : calendarPda(id) \in DOMAIN c =>
                 P!Exists(c, calendarPda(id), "MarketCalendar")
           /\ \A mint : securityPda(mint) \in DOMAIN c =>
                 P!Exists(c, securityPda(mint), "SecurityState")
           /\ \A mint \in DOMAIN c : IsKey(mint) => P!Exists(c, mint, "Mint")
           /\ P!Exists(c, SYSTEM_PROGRAM, "Program")
BY Kinds DEF P!Exists, RegistryOK, CalendarAccountOK, SecurityAccountOK, ChainOK

\* Chains grow in steps.
LEMMA GrowsOn ==
    ASSUME NEW c, NEW d, NEW e, ChainOK(c), ChainOK(d), ChainOK(e),
           Grows(c, d), Grows(d, e)
    PROVE  Grows(c, e)
<1> SUFFICES ASSUME NEW a \in DOMAIN c, c[a].type = "SecurityState"
             PROVE  /\ e[a].calendar_id = c[a].calendar_id
                    /\ c[a].refusals <= e[a].refusals
  BY DEF Grows
<1>1. PICK mint : a = securityPda(mint) /\ c[a].refusals \in Nat
  <2>1. PlaceOK(c, a)
    BY DEF ChainOK
  <2> QED BY <2>1 DEF PlaceOK, RegistryOK, CalendarAccountOK, SecurityAccountOK
<1>2. a \in DOMAIN d /\ a \in DOMAIN e
  BY DEF Grows
<1>3. d[a].type = "SecurityState" /\ d[a].refusals \in Nat /\ e[a].refusals \in Nat
  BY <1>1, <1>2, Kinds DEF SecurityAccountOK
<1>4. /\ d[a].calendar_id = c[a].calendar_id /\ c[a].refusals <= d[a].refusals
      /\ e[a].calendar_id = d[a].calendar_id /\ d[a].refusals <= e[a].refusals
  BY <1>2, <1>3 DEF Grows
<1> QED BY <1>1, <1>3, <1>4

\* A chain grows into itself.
LEMMA GrowsSame ==
    ASSUME NEW c, ChainOK(c)
    PROVE  Grows(c, c)
<1>1. \A a \in DOMAIN c : c[a].type = "SecurityState" => c[a].refusals \in Nat
  <2> TAKE a \in DOMAIN c
  <2>1. PlaceOK(c, a)
    BY DEF ChainOK
  <2> QED BY <2>1 DEF PlaceOK, RegistryOK, CalendarAccountOK, SecurityAccountOK
<1> QED BY <1>1 DEF Grows

\* One field of one account is written.
Written(c, k, f, x) == [c EXCEPT ![k] = [c[k] EXCEPT ![f] = x]]

\* What an account says of itself is written once, when it is made.
Fixed == {"type", "authority", "id", "underlying_mint", "calendar_id"}

\* A counter of refusals is a number and does not shrink.
CounterOK(c, k, f, x) ==
    f = "refusals" /\ k \in DOMAIN c /\ c[k].type = "SecurityState"
       => x \in Nat /\ c[k].refusals <= x

\* Writing a flag, an entry or a counter leaves the chain sound.
LEMMA FieldWritten ==
    ASSUME NEW c, ChainOK(c), NEW k, NEW f, f \notin Fixed, NEW x,
           CounterOK(c, k, f, x),
           NEW d, d = Written(c, k, f, x)
    PROVE  ChainOK(d) /\ Grows(c, d) /\ DOMAIN d = DOMAIN c
<1>1. DOMAIN d = DOMAIN c
  BY DEF Written
<1>2. \A a \in DOMAIN c : a # k => d[a] = c[a]
  BY DEF Written
<1>3. k \in DOMAIN c => /\ DOMAIN d[k] = DOMAIN c[k]
                        /\ \A g \in DOMAIN c[k] : d[k][g] = IF g = f THEN x ELSE c[k][g]
  BY DEF Written
<1>4. ASSUME NEW a \in DOMAIN c PROVE "type" \in DOMAIN d[a] /\ PlaceOK(d, a)
  <2>1. "type" \in DOMAIN c[a] /\ PlaceOK(c, a)
    BY DEF ChainOK
  <2>2. /\ DOMAIN d[a] = DOMAIN c[a]
        /\ \A g \in DOMAIN c[a] \cap Fixed : d[a][g] = c[a][g]
    BY <1>2, <1>3
  <2>3. d[a].type = c[a].type
    BY <2>1, <2>2 DEF Fixed
  <2>4. CASE RegistryOK(c, a)
    <3>1. d[a].authority = c[a].authority
      BY <2>2, <2>4 DEF RegistryOK, Fixed
    <3> QED BY <2>1, <2>2, <2>3, <2>4, <3>1 DEF RegistryOK, PlaceOK
  <2>5. CASE CalendarAccountOK(c, a)
    <3>1. d[a].authority = c[a].authority /\ d[a].id = c[a].id
      BY <2>2, <2>5 DEF CalendarAccountOK, Fixed
    <3> QED BY <1>1, <2>1, <2>2, <2>3, <2>5, <3>1 DEF CalendarAccountOK, PlaceOK
  <2>6. CASE SecurityAccountOK(c, a)
    <3>1. d[a].underlying_mint = c[a].underlying_mint /\ d[a].calendar_id = c[a].calendar_id
      BY <2>2, <2>6 DEF SecurityAccountOK, Fixed
    <3>2. d[a].refusals \in Nat
      BY <1>2, <1>3, <2>6 DEF SecurityAccountOK, CounterOK
    <3> QED BY <1>1, <2>1, <2>2, <2>3, <2>6, <3>1, <3>2 DEF SecurityAccountOK, PlaceOK
  <2>7. CASE IsKey(a) /\ c[a].type = "Mint"
    BY <2>1, <2>2, <2>3, <2>7 DEF PlaceOK
  <2>8. CASE a = SYSTEM_PROGRAM /\ c[a].type = "Program"
    BY <2>1, <2>2, <2>3, <2>8 DEF PlaceOK
  <2> QED BY <2>1, <2>2, <2>4, <2>5, <2>6, <2>7, <2>8 DEF PlaceOK
<1>5. ChainOK(d)
  BY <1>1, <1>4 DEF ChainOK
<1>6. Grows(c, d)
  <2> SUFFICES ASSUME NEW a \in DOMAIN c, c[a].type = "SecurityState"
               PROVE  d[a].calendar_id = c[a].calendar_id /\ c[a].refusals <= d[a].refusals
    BY <1>1 DEF Grows
  <2>1. SecurityAccountOK(c, a)
    <3>1. PlaceOK(c, a)
      BY DEF ChainOK
    <3> QED BY <3>1 DEF PlaceOK, RegistryOK, CalendarAccountOK
  <2>2. c[a].refusals \in Nat /\ {"calendar_id", "refusals"} \subseteq DOMAIN c[a]
    BY <2>1 DEF SecurityAccountOK
  <2>3. CASE a # k
    BY <1>2, <2>2, <2>3
  <2>4. CASE a = k
    BY <1>3, <2>2, <2>4 DEF Fixed, CounterOK
  <2> QED BY <2>3, <2>4
<1> QED BY <1>1, <1>5, <1>6

\* Only a counter can shrink: any other field may be written with anything.
LEMMA MarkWritten ==
    ASSUME NEW c, ChainOK(c), NEW k, NEW f, f \notin Fixed, f # "refusals", NEW x,
           NEW d, d = Written(c, k, f, x)
    PROVE  ChainOK(d) /\ Grows(c, d) /\ DOMAIN d = DOMAIN c
<1>1. CounterOK(c, k, f, x)
  BY DEF CounterOK
<1> QED BY <1>1, FieldWritten

\* An account is made where there was none.
Made(c, k, account, d) ==
    /\ DOMAIN d = {k} \cup DOMAIN c
    /\ d[k] = account
    /\ \A a \in DOMAIN c : d[a] = c[a]

\* Making an account at a free address leaves the chain sound, if the
\* address and the account agree.
LEMMA AccountMade ==
    ASSUME NEW c, ChainOK(c), NEW k, k \notin DOMAIN c, NEW account, NEW d,
           Made(c, k, account, d), "type" \in DOMAIN account, PlaceOK(d, k)
    PROVE  ChainOK(d) /\ Grows(c, d)
<1>1. \A a \in DOMAIN c : d[a] = c[a] /\ a \in DOMAIN d
  BY DEF Made
<1>2. ASSUME NEW a \in DOMAIN c PROVE "type" \in DOMAIN d[a] /\ PlaceOK(d, a)
  <2>1. "type" \in DOMAIN c[a] /\ PlaceOK(c, a) /\ d[a] = c[a]
    BY <1>1 DEF ChainOK
  <2>2. DOMAIN c \subseteq DOMAIN d
    BY <1>1
  <2> QED BY <2>1, <2>2 DEF PlaceOK, RegistryOK, CalendarAccountOK, SecurityAccountOK
<1>3. ChainOK(d)
  BY <1>2 DEF Made, ChainOK
<1>4. Grows(c, d)
  BY <1>1, GrowsSame DEF Grows
<1> QED BY <1>3, <1>4

\* An overlay of one new point.
LEMMA OverlayMakes ==
    ASSUME NEW c, NEW k, NEW account, k \notin DOMAIN c
    PROVE  /\ Made(c, k, account, (k :> account) @@ c)
           /\ Made(c, k, account, P!@@(P!:>(k, account), c))
BY DEF Made, @@, :>, P!@@, P!:>

-----------------------------------------------------------------------------
(* What the program says of a hand-encoded instruction *)

\* A list that is complete, signed and writable where it must be, and names
\* accounts that are there, can only be refused for one that is there already.
LEMMA ListFits ==
    ASSUME NEW c, NEW op, NEW sent, NEW k \in Nat, DOMAIN P!Contexts[op] = 1..k,
           Len(P!Contexts[op]) = k, Len(sent.accounts) = k,
           \A i \in 1..k : P!Contexts[op][i].signer => sent.accounts[i].isSigner,
           \A i \in 1..k : P!Contexts[op][i].mut => sent.accounts[i].isWritable,
           \A i \in 1..k : ~P!Contexts[op][i].init /\ P!Contexts[op][i].type # "Any" =>
              P!Exists(c, sent.accounts[i].address, P!Contexts[op][i].type)
    PROVE  /\ P!AccountComplaints(c, op, sent) \subseteq {"taken"}
           /\ (\A i \in 1..k : ~P!Contexts[op][i].init) =>
                 P!AccountComplaints(c, op, sent) = {}
           /\ P!AccountComplaints(c, op, sent) = {} =>
                 \A i \in 1..k : P!Contexts[op][i].init =>
                    sent.accounts[i].address \notin DOMAIN c
<1> DEFINE fields == P!Contexts[op]
           complaints == P!AccountComplaints(c, op, sent)
<1>1. ~(Len(sent.accounts) < Len(fields))
  OBVIOUS
<1>2. complaints \subseteq {"unsigned", "frozen", "taken", "absent"}
  BY <1>1 DEF P!AccountComplaints
<1>3. "unsigned" \notin complaints
  BY <1>1 DEF P!AccountComplaints
<1>4. "frozen" \notin complaints
  BY <1>1 DEF P!AccountComplaints
<1>5. "absent" \notin complaints
  BY <1>1 DEF P!AccountComplaints
<1>6. "taken" \in complaints <=>
        \E i \in 1..k : fields[i].init /\ sent.accounts[i].address \in DOMAIN c
  BY <1>1 DEF P!AccountComplaints
<1> HIDE DEF complaints
<1>7. complaints \subseteq {"taken"}
  BY <1>2, <1>3, <1>4, <1>5
<1>8. (\A i \in 1..k : ~fields[i].init) => complaints = {}
  BY <1>6, <1>7
<1>9. complaints = {} => \A i \in 1..k : fields[i].init => sent.accounts[i].address \notin DOMAIN c
  BY <1>6
<1> QED BY <1>7, <1>8, <1>9 DEF complaints

\* The four kinds of constraints.
LEMMA ConstraintsOf ==
    ASSUME NEW c, NEW op, NEW sent, NEW a, a = P!Bound(op, sent),
           \A n \in DOMAIN a : a[n] = P!Pinned(c, op, a, sent, n),
           ~P!WrongAuthority(c, op, a),
           op \notin {"createSeries", "write", "claimPremium", "exercise"}
    PROVE  P!ConstraintComplaints(c, op, sent) =
              IF P!Mismatched(c, op, a) THEN {"mismatch"} ELSE {}
<1> DEFINE complaints == P!ConstraintComplaints(c, op, sent)
<1>1. complaints \subseteq {"seeds", "authority", "paused", "mismatch"}
  BY DEF P!ConstraintComplaints
<1>2. "seeds" \notin complaints
  BY DEF P!ConstraintComplaints
<1>3. "authority" \notin complaints
  BY DEF P!ConstraintComplaints
<1>4. "paused" \notin complaints
  BY DEF P!ConstraintComplaints
<1>5. "mismatch" \in complaints <=> P!Mismatched(c, op, a)
  BY DEF P!ConstraintComplaints
<1> HIDE DEF complaints
<1>6. complaints = IF P!Mismatched(c, op, a) THEN {"mismatch"} ELSE {}
  BY <1>1, <1>2, <1>3, <1>4, <1>5
<1> QED BY <1>6 DEF complaints

\* None of these handlers asks for more, but a sync for prices it can read.
LEMMA HandlersOf ==
    ASSUME NEW c, NEW world, NEW op, NEW sent,
           op \in {"initRegistry", "initCalendar", "appendCalendarEntries",
                   "registerSecurity", "syncSecurity", "probeSecurity"},
           op = "syncSecurity" => world.readable
    PROVE  P!HandlerComplaints(c, world, op, sent) = {}
BY DEF P!HandlerComplaints

\* Eight discriminators are dispatched to their handlers.
LEMMA HandlerOf ==
    ASSUME NEW sent
    PROVE  /\ sent.discriminator = 131 => P!Handles(sent) # {} /\ P!Handler(sent) = "initRegistry"
           /\ sent.discriminator = 178 => P!Handles(sent) # {} /\ P!Handler(sent) = "initCalendar"
           /\ sent.discriminator = 245 =>
                 P!Handles(sent) # {} /\ P!Handler(sent) = "appendCalendarEntries"
           /\ sent.discriminator = 202 => P!Handles(sent) # {} /\ P!Handler(sent) = "registerSecurity"
           /\ sent.discriminator = 45 => P!Handles(sent) # {} /\ P!Handler(sent) = "syncSecurity"
           /\ sent.discriminator = 161 => P!Handles(sent) # {} /\ P!Handler(sent) = "probeSecurity"
           /\ sent.discriminator = 254 => P!Handles(sent) # {} /\ P!Handler(sent) = "attestHalt"
           /\ sent.discriminator = 209 => P!Handles(sent) # {} /\ P!Handler(sent) = "setRegistryPaused"
<1>1. sent.discriminator = 131 => P!Handles(sent) = {"initRegistry"}
  BY DEF P!Handles, P!Dispatch
<1>2. sent.discriminator = 178 => P!Handles(sent) = {"initCalendar"}
  BY DEF P!Handles, P!Dispatch
<1>3. sent.discriminator = 245 => P!Handles(sent) = {"appendCalendarEntries"}
  BY DEF P!Handles, P!Dispatch
<1>4. sent.discriminator = 202 => P!Handles(sent) = {"registerSecurity"}
  BY DEF P!Handles, P!Dispatch
<1>5. sent.discriminator = 45 => P!Handles(sent) = {"syncSecurity"}
  BY DEF P!Handles, P!Dispatch
<1>6. sent.discriminator = 161 => P!Handles(sent) = {"probeSecurity"}
  BY DEF P!Handles, P!Dispatch
<1>7. sent.discriminator = 254 => P!Handles(sent) = {"attestHalt"}
  BY DEF P!Handles, P!Dispatch
<1>8. sent.discriminator = 209 => P!Handles(sent) = {"setRegistryPaused"}
  BY DEF P!Handles, P!Dispatch
<1> QED BY <1>1, <1>2, <1>3, <1>4, <1>5, <1>6, <1>7, <1>8 DEF P!Handler

\* The stages of the checks, one after the other.
LEMMA Staged ==
    ASSUME NEW c, NEW world, NEW op, NEW sent, P!Handles(sent) # {}, P!Handler(sent) = op,
           P!AccountComplaints(c, op, sent) \subseteq {"taken"},
           P!HandlerComplaints(c, world, op, sent) = {}
    PROVE  /\ P!AccountComplaints(c, op, sent) # {} => P!Complaints(c, world, sent) = {"taken"}
           /\ P!AccountComplaints(c, op, sent) = {} =>
                 P!Complaints(c, world, sent) = P!ConstraintComplaints(c, op, sent)
<1>1. P!AccountComplaints(c, op, sent) # {} => P!AccountComplaints(c, op, sent) = {"taken"}
  OBVIOUS
<1> QED BY <1>1 DEF P!Complaints

\* init.ts init_registry: refused only if there is a registry.
LEMMA InitRegistryFits ==
    ASSUME NEW c, ChainOK(c), NEW world, NEW sent,
           sent = initRegistryIx(wallet, Key("attestor"))
    PROVE  /\ P!Complaints(c, world, sent) \subseteq {"taken"}
           /\ P!Complaints(c, world, sent) = {} =>
                 /\ ChainOK(P!Effect(c, world, sent)) /\ Grows(c, P!Effect(c, world, sent))
                 /\ DOMAIN P!Effect(c, world, sent) = {registryPda} \cup DOMAIN c
<1> DEFINE a == P!Bound("initRegistry", sent)
           d == P!Effect(c, world, sent)
<1>1. P!Handles(sent) # {} /\ P!Handler(sent) = "initRegistry"
  <2>1. sent.discriminator = 131
    BY DEF initRegistryIx, ix, DISC
  <2> QED BY <2>1, HandlerOf
<1>2. /\ DOMAIN a = {"authority", "registry", "systemProgram"}
      /\ a.authority = wallet /\ a.registry = registryPda /\ a.systemProgram = SYSTEM_PROGRAM
  BY InitRegistryHand
<1>3. /\ P!AccountComplaints(c, "initRegistry", sent) \subseteq {"taken"}
      /\ P!AccountComplaints(c, "initRegistry", sent) = {} => registryPda \notin DOMAIN c
  <2>1. \A i \in 1..3 : ~P!Contexts["initRegistry"][i].init
                            /\ P!Contexts["initRegistry"][i].type # "Any" =>
           P!Exists(c, sent.accounts[i].address, P!Contexts["initRegistry"][i].type)
    BY InitRegistryHand, KindExists
  <2>3. /\ DOMAIN P!Contexts["initRegistry"] = 1..3 /\ Len(P!Contexts["initRegistry"]) = 3
        /\ Len(sent.accounts) = 3
        /\ \A i \in 1..3 : P!Contexts["initRegistry"][i].signer => sent.accounts[i].isSigner
        /\ \A i \in 1..3 : P!Contexts["initRegistry"][i].mut => sent.accounts[i].isWritable
    BY InitRegistryHand
  <2>4. P!Contexts["initRegistry"][2].init /\ 2 \in 1..3
    BY InitRegistryHand
  <2>5. sent.accounts[2].address = registryPda
    BY InitRegistryHand
  <2> DEFINE complaints == P!AccountComplaints(c, "initRegistry", sent)
  <2>6. complaints \subseteq {"taken"}
    BY <2>1, <2>3, ListFits
  <2>7. complaints = {} => \A i \in 1..3 : P!Contexts["initRegistry"][i].init =>
                                sent.accounts[i].address \notin DOMAIN c
    BY <2>1, <2>3, ListFits
  <2> HIDE DEF complaints
  <2>8. complaints = {} => registryPda \notin DOMAIN c
    BY <2>4, <2>5, <2>7
  <2> QED BY <2>6, <2>8 DEF complaints
<1> HIDE DEF a
<1>4. P!ConstraintComplaints(c, "initRegistry", sent) = {}
  <2>1. \A n \in DOMAIN a : a[n] = P!Pinned(c, "initRegistry", a, sent, n)
    BY <1>2 DEF P!Pinned, registryPda
  <2>2. ~P!WrongAuthority(c, "initRegistry", a) /\ ~P!Mismatched(c, "initRegistry", a)
    BY <1>2 DEF P!WrongAuthority, P!Mismatched, P!Wallets
  <2> QED BY <2>1, <2>2, ConstraintsOf DEF a
<1>5. P!HandlerComplaints(c, world, "initRegistry", sent) = {}
  BY HandlersOf
<1>6. P!Complaints(c, world, sent) \subseteq {"taken"}
  BY <1>1, <1>3, <1>4, <1>5, Staged
<1>7. ASSUME P!Complaints(c, world, sent) = {}
      PROVE  ChainOK(d) /\ Grows(c, d) /\ DOMAIN d = {registryPda} \cup DOMAIN c
  <2>1. registryPda \notin DOMAIN c
    BY <1>1, <1>3, <1>4, <1>5, <1>7, Staged
  <2> DEFINE account == [type |-> "Registry", authority |-> wallet,
                         attestor |-> sent.data[1], paused |-> FALSE]
  <2>2. d = P!init_registry(c, a, sent)
    BY <1>1 DEF P!Effect, a
  <2>3. Made(c, registryPda, account, d)
    BY <1>2, <2>1, <2>2, OverlayMakes DEF P!init_registry
  <2>4. d[registryPda] = account /\ registryPda \in DOMAIN d
    BY <2>3 DEF Made
  <2>5. RegistryOK(d, registryPda)
    BY <2>4 DEF RegistryOK
  <2>6. "type" \in DOMAIN account
    OBVIOUS
  <2> HIDE DEF account, d
  <2> QED BY <2>1, <2>3, <2>5, <2>6, AccountMade DEF PlaceOK, Made
<1> QED BY <1>6, <1>7

\* init.ts init_calendar: refused only if there is a calendar of that number.
LEMMA InitCalendarFits ==
    ASSUME NEW c, ChainOK(c), NEW world, NEW id, registryPda \in DOMAIN c, NEW sent,
           sent = initCalendarIx(wallet, id, REGULAR_OPEN_MINUTE, REGULAR_CLOSE_MINUTE)
    PROVE  /\ P!Complaints(c, world, sent) \subseteq {"taken"}
           /\ P!Complaints(c, world, sent) = {} =>
                 /\ ChainOK(P!Effect(c, world, sent)) /\ Grows(c, P!Effect(c, world, sent))
                 /\ DOMAIN P!Effect(c, world, sent) = {calendarPda(id)} \cup DOMAIN c
<1> DEFINE a == P!Bound("initCalendar", sent)
           d == P!Effect(c, world, sent)
<1>1. P!Handles(sent) # {} /\ P!Handler(sent) = "initCalendar"
  <2>1. sent.discriminator = 178
    BY DEF initCalendarIx, ix, DISC
  <2> QED BY <2>1, HandlerOf
<1>2. /\ DOMAIN a = {"authority", "registry", "calendar", "systemProgram"}
      /\ a.authority = wallet /\ a.registry = registryPda
      /\ a.calendar = calendarPda(id) /\ a.systemProgram = SYSTEM_PROGRAM
  BY InitCalendarHand
<1>3. /\ P!AccountComplaints(c, "initCalendar", sent) \subseteq {"taken"}
      /\ P!AccountComplaints(c, "initCalendar", sent) = {} => calendarPda(id) \notin DOMAIN c
  <2>1. \A i \in 1..4 : ~P!Contexts["initCalendar"][i].init
                            /\ P!Contexts["initCalendar"][i].type # "Any" =>
           P!Exists(c, sent.accounts[i].address, P!Contexts["initCalendar"][i].type)
    BY InitCalendarHand, KindExists
  <2>3. /\ DOMAIN P!Contexts["initCalendar"] = 1..4 /\ Len(P!Contexts["initCalendar"]) = 4
        /\ Len(sent.accounts) = 4
        /\ \A i \in 1..4 : P!Contexts["initCalendar"][i].signer => sent.accounts[i].isSigner
        /\ \A i \in 1..4 : P!Contexts["initCalendar"][i].mut => sent.accounts[i].isWritable
    BY InitCalendarHand
  <2>4. P!Contexts["initCalendar"][3].init /\ 3 \in 1..4
    BY InitCalendarHand
  <2>5. sent.accounts[3].address = calendarPda(id)
    BY InitCalendarHand
  <2> DEFINE complaints == P!AccountComplaints(c, "initCalendar", sent)
  <2>6. complaints \subseteq {"taken"}
    BY <2>1, <2>3, ListFits
  <2>7. complaints = {} => \A i \in 1..4 : P!Contexts["initCalendar"][i].init =>
                                sent.accounts[i].address \notin DOMAIN c
    BY <2>1, <2>3, ListFits
  <2> HIDE DEF complaints
  <2>8. complaints = {} => calendarPda(id) \notin DOMAIN c
    BY <2>4, <2>5, <2>7
  <2> QED BY <2>6, <2>8 DEF complaints
<1>4. sent.data[1] = id
  BY DEF initCalendarIx, ix
<1> HIDE DEF a
<1>5. P!ConstraintComplaints(c, "initCalendar", sent) = {}
  <2>1. \A n \in DOMAIN a : a[n] = P!Pinned(c, "initCalendar", a, sent, n)
    BY <1>2, <1>4 DEF P!Pinned, registryPda, calendarPda
  <2>2. c[registryPda].authority = wallet
    BY Kinds DEF RegistryOK
  <2>3. ~P!WrongAuthority(c, "initCalendar", a)
    BY <1>2, <2>2 DEF P!WrongAuthority
  <2>4. ~P!Mismatched(c, "initCalendar", a)
    BY <1>2 DEF P!Mismatched, P!Wallets
  <2> QED BY <2>1, <2>3, <2>4, ConstraintsOf DEF a
<1>6. P!HandlerComplaints(c, world, "initCalendar", sent) = {}
  BY HandlersOf
<1>7. P!Complaints(c, world, sent) \subseteq {"taken"}
  BY <1>1, <1>3, <1>5, <1>6, Staged
<1>8. ASSUME P!Complaints(c, world, sent) = {}
      PROVE  ChainOK(d) /\ Grows(c, d) /\ DOMAIN d = {calendarPda(id)} \cup DOMAIN c
  <2>1. calendarPda(id) \notin DOMAIN c
    BY <1>1, <1>3, <1>5, <1>6, <1>8, Staged
  <2> DEFINE account == [type |-> "MarketCalendar", authority |-> wallet, id |-> id,
                         open |-> sent.data[2], close |-> sent.data[3], entries |-> {}]
  <2>2. d = P!init_calendar(c, a, sent)
    BY <1>1 DEF P!Effect, a
  <2>3. Made(c, calendarPda(id), account, d)
    BY <1>2, <1>4, <2>1, <2>2, OverlayMakes DEF P!init_calendar
  <2>4. d[calendarPda(id)] = account /\ DOMAIN c \subseteq DOMAIN d
    BY <2>3 DEF Made
  <2>5. CalendarAccountOK(d, calendarPda(id))
    BY <2>4 DEF CalendarAccountOK
  <2>6. "type" \in DOMAIN account
    OBVIOUS
  <2> HIDE DEF account, d
  <2> QED BY <2>1, <2>3, <2>5, <2>6, AccountMade DEF PlaceOK, Made
<1> QED BY <1>7, <1>8

\* init.ts append_calendar_entries: never refused once its calendar is there.
LEMMA AppendFits ==
    ASSUME NEW c, ChainOK(c), NEW world, NEW id, calendarPda(id) \in DOMAIN c,
           NEW missing, NEW sent, sent = appendCalendarEntriesIx(wallet, id, missing)
    PROVE  P!Complaints(c, world, sent) = {}
<1> DEFINE a == P!Bound("appendCalendarEntries", sent)
<1>1. P!Handles(sent) # {} /\ P!Handler(sent) = "appendCalendarEntries"
  <2>1. sent.discriminator = 245
    BY DEF appendCalendarEntriesIx, ix, DISC
  <2> QED BY <2>1, HandlerOf
<1>2. /\ DOMAIN a = {"authority", "calendar"}
      /\ a.authority = wallet /\ a.calendar = calendarPda(id)
  BY AppendHand
<1>3. P!AccountComplaints(c, "appendCalendarEntries", sent) = {}
  <2>1. \A i \in 1..2 : ~P!Contexts["appendCalendarEntries"][i].init
                            /\ P!Contexts["appendCalendarEntries"][i].type # "Any" =>
           P!Exists(c, sent.accounts[i].address, P!Contexts["appendCalendarEntries"][i].type)
    BY AppendHand, KindExists
  <2>2. \A i \in 1..2 : ~P!Contexts["appendCalendarEntries"][i].init
    BY AppendHand
  <2>3. /\ DOMAIN P!Contexts["appendCalendarEntries"] = 1..2 /\ Len(P!Contexts["appendCalendarEntries"]) = 2
        /\ Len(sent.accounts) = 2
        /\ \A i \in 1..2 : P!Contexts["appendCalendarEntries"][i].signer => sent.accounts[i].isSigner
        /\ \A i \in 1..2 : P!Contexts["appendCalendarEntries"][i].mut => sent.accounts[i].isWritable
    BY AppendHand
  <2> QED BY <2>1, <2>2, <2>3, ListFits
<1> HIDE DEF a
<1>4. P!ConstraintComplaints(c, "appendCalendarEntries", sent) = {}
  <2>1. c[calendarPda(id)].authority = wallet /\ c[calendarPda(id)].id = id
    BY Kinds DEF CalendarAccountOK
  <2>2. \A n \in DOMAIN a : a[n] = P!Pinned(c, "appendCalendarEntries", a, sent, n)
    BY <1>2, <2>1 DEF P!Pinned, calendarPda
  <2>3. ~P!WrongAuthority(c, "appendCalendarEntries", a)
    BY <1>2, <2>1 DEF P!WrongAuthority
  <2>4. ~P!Mismatched(c, "appendCalendarEntries", a)
    BY <1>2 DEF P!Mismatched, P!Wallets
  <2> QED BY <2>2, <2>3, <2>4, ConstraintsOf DEF a
<1>5. P!HandlerComplaints(c, world, "appendCalendarEntries", sent) = {}
  BY HandlersOf
<1> QED BY <1>1, <1>3, <1>4, <1>5, Staged

\* register.ts register_security: refused only if the security is there.
LEMMA RegisterFits ==
    ASSUME NEW c, ChainOK(c), NEW world, NEW mint, IsKey(mint), NEW id,
           {mint, calendarPda(id)} \subseteq DOMAIN c, NEW sent,
           sent = registerSecurityIx(wallet, mint, id, BINDING)
    PROVE  /\ P!Complaints(c, world, sent) \subseteq {"taken"}
           /\ P!Complaints(c, world, sent) = {} =>
                 /\ ChainOK(P!Effect(c, world, sent)) /\ Grows(c, P!Effect(c, world, sent))
                 /\ DOMAIN P!Effect(c, world, sent) = {securityPda(mint)} \cup DOMAIN c
<1> DEFINE a == P!Bound("registerSecurity", sent)
           d == P!Effect(c, world, sent)
<1>1. P!Handles(sent) # {} /\ P!Handler(sent) = "registerSecurity"
  <2>1. sent.discriminator = 202
    BY DEF registerSecurityIx, ix, DISC
  <2> QED BY <2>1, HandlerOf
<1>2. /\ DOMAIN a = {"authority", "registry", "underlyingMint", "calendar", "security",
                     "systemProgram"}
      /\ a.authority = wallet /\ a.registry = registryPda /\ a.underlyingMint = mint
      /\ a.calendar = calendarPda(id) /\ a.security = securityPda(mint)
      /\ a.systemProgram = SYSTEM_PROGRAM
  BY RegisterHand
<1>3. /\ registryPda \in DOMAIN c /\ c[registryPda].authority = wallet
      /\ c[calendarPda(id)].id = id
  BY Kinds DEF RegistryOK, CalendarAccountOK
<1>4. /\ P!AccountComplaints(c, "registerSecurity", sent) \subseteq {"taken"}
      /\ P!AccountComplaints(c, "registerSecurity", sent) = {} =>
            securityPda(mint) \notin DOMAIN c
  <2>1. \A i \in 1..6 : ~P!Contexts["registerSecurity"][i].init
                            /\ P!Contexts["registerSecurity"][i].type # "Any" =>
           P!Exists(c, sent.accounts[i].address, P!Contexts["registerSecurity"][i].type)
    BY <1>3, RegisterHand, KindExists
  <2>3. /\ DOMAIN P!Contexts["registerSecurity"] = 1..6 /\ Len(P!Contexts["registerSecurity"]) = 6
        /\ Len(sent.accounts) = 6
        /\ \A i \in 1..6 : P!Contexts["registerSecurity"][i].signer => sent.accounts[i].isSigner
        /\ \A i \in 1..6 : P!Contexts["registerSecurity"][i].mut => sent.accounts[i].isWritable
    BY RegisterHand
  <2>4. P!Contexts["registerSecurity"][5].init /\ 5 \in 1..6
    BY RegisterHand
  <2>5. sent.accounts[5].address = securityPda(mint)
    BY RegisterHand
  <2> DEFINE complaints == P!AccountComplaints(c, "registerSecurity", sent)
  <2>6. complaints \subseteq {"taken"}
    BY <2>1, <2>3, ListFits
  <2>7. complaints = {} => \A i \in 1..6 : P!Contexts["registerSecurity"][i].init =>
                                sent.accounts[i].address \notin DOMAIN c
    BY <2>1, <2>3, ListFits
  <2> HIDE DEF complaints
  <2>8. complaints = {} => securityPda(mint) \notin DOMAIN c
    BY <2>4, <2>5, <2>7
  <2> QED BY <2>6, <2>8 DEF complaints
<1> HIDE DEF a
<1>5. P!ConstraintComplaints(c, "registerSecurity", sent) = {}
  <2>1. \A n \in DOMAIN a : a[n] = P!Pinned(c, "registerSecurity", a, sent, n)
    BY <1>2, <1>3 DEF P!Pinned, registryPda, calendarPda, securityPda
  <2>2. ~P!WrongAuthority(c, "registerSecurity", a)
    BY <1>2, <1>3 DEF P!WrongAuthority
  <2>3. ~P!Mismatched(c, "registerSecurity", a)
    BY <1>2 DEF P!Mismatched, P!Wallets
  <2> QED BY <2>1, <2>2, <2>3, ConstraintsOf DEF a
<1>6. P!HandlerComplaints(c, world, "registerSecurity", sent) = {}
  BY HandlersOf
<1>7. P!Complaints(c, world, sent) \subseteq {"taken"}
  BY <1>1, <1>4, <1>5, <1>6, Staged
<1>8. ASSUME P!Complaints(c, world, sent) = {}
      PROVE  ChainOK(d) /\ Grows(c, d) /\ DOMAIN d = {securityPda(mint)} \cup DOMAIN c
  <2>1. securityPda(mint) \notin DOMAIN c
    BY <1>1, <1>4, <1>5, <1>6, <1>8, Staged
  <2> DEFINE account == [type |-> "SecurityState", underlying_mint |-> mint,
                         calendar_id |-> id, sources |-> sent.data[2], synced |-> FALSE,
                         halted |-> FALSE, refusals |-> 0, last_refusal_code |-> 0]
  <2>2. d = P!register_security(c, a, sent)
    BY <1>1 DEF P!Effect, a
  <2>3. Made(c, securityPda(mint), account, d)
    BY <1>2, <1>3, <2>1, <2>2, OverlayMakes DEF P!register_security
  <2>4. d[securityPda(mint)] = account /\ DOMAIN c \subseteq DOMAIN d
    BY <2>3 DEF Made
  <2>5. SecurityAccountOK(d, securityPda(mint))
    BY <2>4 DEF SecurityAccountOK
  <2>6. "type" \in DOMAIN account
    OBVIOUS
  <2> HIDE DEF account, d
  <2> QED BY <2>1, <2>3, <2>5, <2>6, AccountMade DEF PlaceOK, Made
<1> QED BY <1>7, <1>8

\* probe.ts sync_security: never refused where the prices can be read.
LEMMA SyncFits ==
    ASSUME NEW c, ChainOK(c), NEW world, world.readable, NEW mint, IsKey(mint), NEW oracle,
           {mint, securityPda(mint)} \subseteq DOMAIN c, NEW sent,
           sent = syncSecurityIx(mint, oracle)
    PROVE  P!Complaints(c, world, sent) = {}
<1> DEFINE a == P!Bound("syncSecurity", sent)
<1>1. P!Handles(sent) # {} /\ P!Handler(sent) = "syncSecurity"
  <2>1. sent.discriminator = 45
    BY DEF syncSecurityIx, ix, DISC
  <2> QED BY <2>1, HandlerOf
<1>2. /\ DOMAIN a = {"security", "underlyingMint", "primaryOracle", "secondaryOracle"}
      /\ a.security = securityPda(mint) /\ a.underlyingMint = mint
      /\ a.primaryOracle = oracle /\ a.secondaryOracle = oracle
  BY SyncHand
<1>3. P!AccountComplaints(c, "syncSecurity", sent) = {}
  <2>1. \A i \in 1..4 : ~P!Contexts["syncSecurity"][i].init
                            /\ P!Contexts["syncSecurity"][i].type # "Any" =>
           P!Exists(c, sent.accounts[i].address, P!Contexts["syncSecurity"][i].type)
    BY SyncHand, KindExists
  <2>2. \A i \in 1..4 : ~P!Contexts["syncSecurity"][i].init
    BY SyncHand
  <2>3. /\ DOMAIN P!Contexts["syncSecurity"] = 1..4 /\ Len(P!Contexts["syncSecurity"]) = 4
        /\ Len(sent.accounts) = 4
        /\ \A i \in 1..4 : P!Contexts["syncSecurity"][i].signer => sent.accounts[i].isSigner
        /\ \A i \in 1..4 : P!Contexts["syncSecurity"][i].mut => sent.accounts[i].isWritable
    BY SyncHand
  <2> QED BY <2>1, <2>2, <2>3, ListFits
<1> HIDE DEF a
<1>4. P!ConstraintComplaints(c, "syncSecurity", sent) = {}
  <2>1. \A n \in DOMAIN a : a[n] = P!Pinned(c, "syncSecurity", a, sent, n)
    BY <1>2 DEF P!Pinned, securityPda
  <2>2. ~P!WrongAuthority(c, "syncSecurity", a) /\ ~P!Mismatched(c, "syncSecurity", a)
    BY <1>2 DEF P!WrongAuthority, P!Mismatched, P!Wallets
  <2> QED BY <2>1, <2>2, ConstraintsOf DEF a
<1>5. P!HandlerComplaints(c, world, "syncSecurity", sent) = {}
  BY HandlersOf
<1> QED BY <1>1, <1>3, <1>4, <1>5, Staged

\* probe.ts probe_security: refused only on a calendar the security is not
\* bound to.
LEMMA ProbeFits ==
    ASSUME NEW c, ChainOK(c), NEW world, NEW mint, NEW id, Probable(c, mint, id),
           NEW oracle, NEW sent, sent = probeSecurityIx(mint, id, oracle)
    PROVE  P!Complaints(c, world, sent) =
              IF c[securityPda(mint)].calendar_id = id THEN {} ELSE {"mismatch"}
<1> DEFINE a == P!Bound("probeSecurity", sent)
<1>1. P!Handles(sent) # {} /\ P!Handler(sent) = "probeSecurity"
  <2>1. sent.discriminator = 161
    BY DEF probeSecurityIx, ix, DISC
  <2> QED BY <2>1, HandlerOf
<1>2. /\ DOMAIN a = {"security", "calendar", "underlyingMint", "primaryOracle",
                     "secondaryOracle"}
      /\ a.security = securityPda(mint) /\ a.calendar = calendarPda(id)
      /\ a.underlyingMint = mint
      /\ a.primaryOracle = oracle /\ a.secondaryOracle = oracle
  BY ProbeHand
<1>3. /\ IsKey(mint) /\ {mint, calendarPda(id), securityPda(mint)} \subseteq DOMAIN c
      /\ c[calendarPda(id)].id = id
  BY Kinds DEF Probable, CalendarAccountOK
<1>4. P!AccountComplaints(c, "probeSecurity", sent) = {}
  <2>1. \A i \in 1..5 : ~P!Contexts["probeSecurity"][i].init
                            /\ P!Contexts["probeSecurity"][i].type # "Any" =>
           P!Exists(c, sent.accounts[i].address, P!Contexts["probeSecurity"][i].type)
    BY <1>3, ProbeHand, KindExists
  <2>2. \A i \in 1..5 : ~P!Contexts["probeSecurity"][i].init
    BY ProbeHand
  <2>3. /\ DOMAIN P!Contexts["probeSecurity"] = 1..5 /\ Len(P!Contexts["probeSecurity"]) = 5
        /\ Len(sent.accounts) = 5
        /\ \A i \in 1..5 : P!Contexts["probeSecurity"][i].signer => sent.accounts[i].isSigner
        /\ \A i \in 1..5 : P!Contexts["probeSecurity"][i].mut => sent.accounts[i].isWritable
    BY ProbeHand
  <2> QED BY <2>1, <2>2, <2>3, ListFits
<1> HIDE DEF a
<1>5. P!ConstraintComplaints(c, "probeSecurity", sent) =
         IF c[securityPda(mint)].calendar_id = id THEN {} ELSE {"mismatch"}
  <2>1. \A n \in DOMAIN a : a[n] = P!Pinned(c, "probeSecurity", a, sent, n)
    BY <1>2, <1>3 DEF P!Pinned, securityPda, calendarPda
  <2>2. ~P!WrongAuthority(c, "probeSecurity", a)
    BY DEF P!WrongAuthority
  <2>3. P!Mismatched(c, "probeSecurity", a) <=> c[securityPda(mint)].calendar_id # id
    BY <1>2, <1>3 DEF P!Mismatched, P!Wallets
  <2>4. P!ConstraintComplaints(c, "probeSecurity", sent) =
           IF P!Mismatched(c, "probeSecurity", a) THEN {"mismatch"} ELSE {}
    BY <2>1, <2>2, ConstraintsOf DEF a
  <2> QED BY <2>3, <2>4
<1>6. P!HandlerComplaints(c, world, "probeSecurity", sent) = {}
  BY HandlersOf
<1> QED BY <1>1, <1>4, <1>5, <1>6, Staged

-----------------------------------------------------------------------------
(* What an instruction leaves *)

\* The security an account of that type is.
LEMMA SecurityIs ==
    ASSUME NEW c, ChainOK(c), NEW a \in DOMAIN c, c[a].type = "SecurityState"
    PROVE  SecurityAccountOK(c, a)
<1>1. PlaceOK(c, a)
  BY DEF ChainOK
<1> QED BY <1>1 DEF PlaceOK, RegistryOK, CalendarAccountOK

\* A probe that refuses counts one refusal more.
LEMMA ProbeCounts ==
    ASSUME NEW c, ChainOK(c), NEW world, NEW a, world.verdict # 0, NEW d,
           d = P!probe_security(c, world, a)
    PROVE  /\ ChainOK(d) /\ Grows(c, d) /\ DOMAIN d = DOMAIN c
           /\ a.security \in DOMAIN c /\ c[a.security].type = "SecurityState" =>
                 d[a.security].refusals = c[a.security].refusals + 1
<1> DEFINE k == a.security
           x == c[k].refusals + 1
           e == Written(c, k, "refusals", x)
<1>1. d = [c EXCEPT ![k].refusals = @ + 1, ![k].last_refusal_code = world.verdict]
  BY DEF P!probe_security
<1>2. e = [c EXCEPT ![k].refusals = @ + 1]
  BY DEF Written
<1>3. d = [e EXCEPT ![k].last_refusal_code = world.verdict]
  BY <1>1, <1>2
<1>4. d = Written(e, k, "last_refusal_code", world.verdict)
  BY <1>3 DEF Written
<1>5. CounterOK(c, k, "refusals", x)
  BY SecurityIs DEF SecurityAccountOK, CounterOK
<1>6. ChainOK(e) /\ Grows(c, e) /\ DOMAIN e = DOMAIN c
  <2> HIDE DEF e, k, x
  <2> QED BY <1>5, FieldWritten DEF e, Fixed
<1>7. ChainOK(d) /\ Grows(e, d) /\ DOMAIN d = DOMAIN e
  <2> DEFINE f == "last_refusal_code"
             v == world.verdict
  <2>1. f \notin Fixed /\ f # "refusals"
    BY DEF Fixed
  <2>2. d = Written(e, k, f, v)
    BY <1>4
  <2> HIDE DEF e, k, f, v
  <2> QED BY <1>6, <2>1, <2>2, MarkWritten
<1>8. ASSUME k \in DOMAIN c, c[k].type = "SecurityState"
      PROVE  d[k].refusals = c[k].refusals + 1
  <2>1. "refusals" \in DOMAIN c[k]
    BY <1>8, SecurityIs DEF SecurityAccountOK
  <2>2. e[k] = [c[k] EXCEPT !["refusals"] = x] /\ k \in DOMAIN e
    BY <1>8 DEF Written
  <2>3. e[k].refusals = x /\ "refusals" \in DOMAIN e[k]
    BY <2>1, <2>2
  <2> HIDE DEF e
  <2>4. d[k].refusals = e[k].refusals
    BY <1>4, <2>2, <2>3 DEF Written
  <2> QED BY <2>3, <2>4
<1>9. Grows(c, d)
  <2> HIDE DEF e
  <2> QED BY <1>6, <1>7, GrowsOn
<1> QED BY <1>6, <1>7, <1>8, <1>9

\* Five handlers make no account, whatever they are given.
LEMMA MutationKeeps ==
    ASSUME NEW c, ChainOK(c), NEW world, world.verdict # 0, NEW sent,
           P!Handler(sent) \in {"setRegistryPaused", "appendCalendarEntries",
                                "syncSecurity", "attestHalt", "probeSecurity"},
           NEW d, d = P!Effect(c, world, sent)
    PROVE  ChainOK(d) /\ Grows(c, d) /\ DOMAIN d = DOMAIN c
<1> DEFINE op == P!Handler(sent)
           a == P!Bound(op, sent)
<1>1. CASE op = "setRegistryPaused"
  <2>1. d = Written(c, a.registry, "paused", sent.data[1])
    BY <1>1 DEF P!Effect, P!set_registry_paused, Written
  <2>2. "paused" \notin Fixed /\ "paused" # "refusals"
    BY DEF Fixed
  <2> HIDE DEF op, a
  <2> QED BY <2>1, <2>2, MarkWritten
<1>2. CASE op = "appendCalendarEntries"
  <2> DEFINE days == {e.dateKey : e \in sent.data[1]}
             x == {e \in c[a.calendar].entries : e.dateKey \notin days} \cup sent.data[1]
  <2>1. d = P!append_calendar_entries(c, a, sent)
    BY <1>2 DEF P!Effect
  <2>2. d = Written(c, a.calendar, "entries", x)
    BY <2>1 DEF P!append_calendar_entries, Written
  <2>3. "entries" \notin Fixed /\ "entries" # "refusals"
    BY DEF Fixed
  <2> HIDE DEF op, a, x
  <2> QED BY <2>2, <2>3, MarkWritten
<1>3. CASE op = "syncSecurity"
  <2> DEFINE k == a.security
             f == "synced"
             x == TRUE
  <2>1. d = Written(c, k, f, x)
    BY <1>3 DEF P!Effect, P!sync_security, Written
  <2>2. f \notin Fixed /\ f # "refusals"
    BY DEF Fixed
  <2> HIDE DEF op, a, k, f, x
  <2> QED BY <2>1, <2>2, MarkWritten
<1>4. CASE op = "attestHalt"
  <2>1. d = Written(c, a.security, "halted", sent.data[1])
    BY <1>4 DEF P!Effect, P!attest_halt, Written
  <2>2. "halted" \notin Fixed /\ "halted" # "refusals"
    BY DEF Fixed
  <2> HIDE DEF op, a
  <2> QED BY <2>1, <2>2, MarkWritten
<1>5. CASE op = "probeSecurity"
  <2>1. d = P!probe_security(c, world, a)
    BY <1>5 DEF P!Effect
  <2> HIDE DEF op, a
  <2> QED BY <2>1, ProbeCounts
<1> QED BY <1>1, <1>2, <1>3, <1>4, <1>5

\* The gate of a security with one declared source always refuses.
LEMMA VerdictRefuses ==
    ASSUME NEW price
    PROVE  World(price).verdict # 0 /\ World(price).readable = price
BY DEF World, Verdict

\* What others call makes no account.
LEMMA CallKeeps ==
    ASSUME ChainOK(chain), Call
    PROVE  ChainOK(chain') /\ Grows(chain, chain') /\ DOMAIN chain' = DOMAIN chain
<1>1. PICK input \in CallInputs :
         chain' = P!Effect(chain, World(TRUE), deliverableProgram(input[1], input[2]))
  BY DEF Call
<1>2. input[1] \in {"setRegistryPaused", "attestHalt", "syncSecurity", "probeSecurity",
                    "appendCalendarEntries"}
  BY DEF CallInputs
<1>3. PICK sent : sent = deliverableProgram(input[1], input[2])
  OBVIOUS
<1>4. P!Handler(sent) = input[1]
  <2>1. CASE input[1] = "setRegistryPaused"
    <3>1. sent.discriminator = 209
      BY <1>3, <2>1 DEF deliverableProgram, getSetRegistryPausedInstructionAsync,
         getSetRegistryPausedInstruction, Assembled
    <3> QED BY <2>1, <3>1, HandlerOf
  <2>2. CASE input[1] = "attestHalt"
    <3>1. sent.discriminator = 254
      BY <1>3, <2>2 DEF deliverableProgram, getAttestHaltInstructionAsync,
         getAttestHaltInstruction, Assembled
    <3> QED BY <2>2, <3>1, HandlerOf
  <2>3. CASE input[1] = "syncSecurity"
    <3>1. sent.discriminator = 45
      BY <1>3, <2>3 DEF deliverableProgram, getSyncSecurityInstructionAsync,
         getSyncSecurityInstruction, Assembled
    <3> QED BY <2>3, <3>1, HandlerOf
  <2>4. CASE input[1] = "probeSecurity"
    <3>1. sent.discriminator = 161
      BY <1>3, <2>4 DEF deliverableProgram, getProbeSecurityInstructionAsync,
         getProbeSecurityInstruction, Assembled
    <3> QED BY <2>4, <3>1, HandlerOf
  <2>5. CASE input[1] = "appendCalendarEntries"
    <3>1. sent.discriminator = 245
      BY <1>3, <2>5 DEF deliverableProgram, getAppendCalendarEntriesInstruction, Assembled
    <3> QED BY <2>5, <3>1, HandlerOf
  <2> QED BY <1>2, <2>1, <2>2, <2>3, <2>4, <2>5
<1>5. World(TRUE).verdict # 0
  BY VerdictRefuses
<1>6. chain' = P!Effect(chain, World(TRUE), sent)
  BY <1>1, <1>3
<1>7. PICK c : c = chain
  OBVIOUS
<1>8. PICK world : world = World(TRUE)
  OBVIOUS
<1>9. PICK d : d = chain'
  OBVIOUS
<1>10. P!Handler(sent) \in {"setRegistryPaused", "appendCalendarEntries",
                            "syncSecurity", "attestHalt", "probeSecurity"}
  BY <1>2, <1>4
<1>11. ChainOK(c) /\ world.verdict # 0 /\ d = P!Effect(c, world, sent)
  BY <1>5, <1>6, <1>7, <1>8, <1>9
<1>12. ChainOK(d) /\ Grows(c, d) /\ DOMAIN d = DOMAIN c
  BY <1>10, <1>11, MutationKeeps
<1> QED BY <1>7, <1>9, <1>12

-----------------------------------------------------------------------------
(* What a transaction leaves *)

\* A transaction of one instruction.
LEMMA RunOne ==
    ASSUME NEW sent, NEW t, t = ProgramTx(<< sent >>),
           NEW world, world = World(PricePosted(t))
    PROVE  /\ P!Complaints(chain, world, sent) = {} =>
                 /\ Run(t).chain = P!Effect(chain, world, sent)
                 /\ Run(t).why = {}
           /\ P!Complaints(chain, world, sent) # {} =>
                 /\ Run(t).chain = chain
                 /\ Run(t).why = P!Complaints(chain, world, sent)
<1>1. t.kind = "program" /\ Len(t.ixs) = 1 /\ t.ixs[1] = sent
  BY DEF ProgramTx, Transaction
<1>2. Run(t) = After([chain |-> chain, why |-> {}], world, sent)
  BY <1>1 DEF Run
<1> QED BY <1>2 DEF After

\* A transaction of two instructions, the first of which is accepted.
LEMMA RunTwo ==
    ASSUME NEW one, NEW two, NEW t, t = ProgramTx(<< one, two >>),
           NEW world, world = World(PricePosted(t)),
           P!Complaints(chain, world, one) = {},
           NEW c, c = P!Effect(chain, world, one)
    PROVE  /\ P!Complaints(c, world, two) = {} =>
                 /\ Run(t).chain = P!Effect(c, world, two)
                 /\ Run(t).why = {}
           /\ P!Complaints(c, world, two) # {} =>
                 /\ Run(t).chain = chain
                 /\ Run(t).why = P!Complaints(c, world, two)
<1>1. t.kind = "program" /\ Len(t.ixs) = 2 /\ t.ixs[1] = one /\ t.ixs[2] = two
  BY DEF ProgramTx, Transaction
<1>2. Run(t) = After(After([chain |-> chain, why |-> {}], world, one), world, two)
  BY <1>1 DEF Run
<1>3. After([chain |-> chain, why |-> {}], world, one) = [chain |-> c, why |-> {}]
  BY DEF After
<1>4. Run(t) = After([chain |-> c, why |-> {}], world, two)
  BY <1>2, <1>3
<1> QED BY <1>4 DEF After

\* What a transaction leaves, whether it is refused or not.
Kept(t, current) ==
    /\ ChainOK(Run(t).chain) /\ Grows(chain, Run(t).chain)
    /\ CalendarsOK(Run(t).chain, current)
    /\ RefusalOK(t, Run(t).why)

\* A chain with no new calendar has the calendars it had.
LEMMA SameCalendars ==
    ASSUME NEW c, NEW d, NEW current, CalendarsOK(c, current),
           \A id : calendarPda(id) \in DOMAIN d => calendarPda(id) \in DOMAIN c
    PROVE  CalendarsOK(d, current)
BY DEF CalendarsOK

\* init_registry of a script makes the registry.
LEMMA InitRegistryLands ==
    ASSUME ChainOK(chain), NEW current, CalendarsOK(chain, current)
    PROVE  /\ Kept(InitRegistryTx, current)
           /\ Run(InitRegistryTx).why = {} => registryPda \in DOMAIN Run(InitRegistryTx).chain
<1>1. PICK sent : sent = initRegistryIx(wallet, Key("attestor"))
  OBVIOUS
<1>2. PICK t : t = InitRegistryTx
  OBVIOUS
<1>3. PICK world : world = World(PricePosted(t))
  OBVIOUS
<1>4. PICK c : c = chain
  OBVIOUS
<1>5. t = ProgramTx(<< sent >>)
  BY <1>1, <1>2 DEF InitRegistryTx
<1> DEFINE d == P!Effect(c, world, sent)
           why == P!Complaints(c, world, sent)
<1>6. why \subseteq {"taken"}
  BY <1>1, <1>4, InitRegistryFits
<1>7. why = {} => ChainOK(d) /\ Grows(c, d) /\ DOMAIN d = {registryPda} \cup DOMAIN c
  BY <1>1, <1>4, InitRegistryFits
<1>8. /\ why = {} => Run(t).chain = d /\ Run(t).why = {}
      /\ why # {} => Run(t).chain = c /\ Run(t).why = why
  BY <1>3, <1>4, <1>5, RunOne
<1> HIDE DEF d, why
<1>9. CASE why = {}
  <2>1. \A id : calendarPda(id) \in DOMAIN d => calendarPda(id) \in DOMAIN c
    BY <1>7, <1>9 DEF calendarPda, registryPda
  <2>2. CalendarsOK(d, current)
    BY <1>4, <2>1, SameCalendars
  <2>3. RefusalOK(t, {})
    BY DEF RefusalOK
  <2> QED BY <1>2, <1>4, <1>7, <1>8, <1>9, <2>2, <2>3 DEF Kept
<1>10. CASE why # {}
  <2>1. RefusalOK(t, why) /\ Grows(c, c)
    BY <1>4, <1>6, GrowsSame DEF RefusalOK
  <2> QED BY <1>2, <1>4, <1>8, <1>10, <2>1 DEF Kept
<1> QED BY <1>9, <1>10

\* init_calendar of a script makes the calendar it is about.
LEMMA InitCalendarLands ==
    ASSUME ChainOK(chain), NEW current, CalendarsOK(chain, current),
           NEW id, IdOK(id, current), registryPda \in DOMAIN chain
    PROVE  /\ Kept(InitCalendarTx(id), current)
           /\ Run(InitCalendarTx(id)).why = {} =>
                 calendarPda(id) \in DOMAIN Run(InitCalendarTx(id)).chain
<1>1. PICK sent : sent = initCalendarIx(wallet, id, REGULAR_OPEN_MINUTE, REGULAR_CLOSE_MINUTE)
  OBVIOUS
<1>2. PICK t : t = InitCalendarTx(id)
  OBVIOUS
<1>3. PICK world : world = World(PricePosted(t))
  OBVIOUS
<1>4. PICK c : c = chain
  OBVIOUS
<1>5. t = ProgramTx(<< sent >>)
  BY <1>1, <1>2 DEF InitCalendarTx
<1> DEFINE d == P!Effect(c, world, sent)
           why == P!Complaints(c, world, sent)
<1>6. why \subseteq {"taken"}
  BY <1>1, <1>4, InitCalendarFits
<1>7. why = {} => ChainOK(d) /\ Grows(c, d) /\ DOMAIN d = {calendarPda(id)} \cup DOMAIN c
  BY <1>1, <1>4, InitCalendarFits
<1>8. /\ why = {} => Run(t).chain = d /\ Run(t).why = {}
      /\ why # {} => Run(t).chain = c /\ Run(t).why = why
  BY <1>3, <1>4, <1>5, RunOne
<1> HIDE DEF d, why
<1>9. CASE why = {}
  <2>1. CalendarsOK(d, current)
    BY <1>4, <1>7, <1>9 DEF CalendarsOK, calendarPda
  <2>2. RefusalOK(t, {})
    BY DEF RefusalOK
  <2> QED BY <1>2, <1>4, <1>7, <1>8, <1>9, <2>1, <2>2 DEF Kept
<1>10. CASE why # {}
  <2>1. RefusalOK(t, why) /\ Grows(c, c)
    BY <1>4, <1>6, GrowsSame DEF RefusalOK
  <2> QED BY <1>2, <1>4, <1>8, <1>10, <2>1 DEF Kept
<1> QED BY <1>9, <1>10

\* append_calendar_entries of a script is accepted.
LEMMA AppendLands ==
    ASSUME ChainOK(chain), NEW current, CalendarsOK(chain, current),
           NEW id, NEW missing, calendarPda(id) \in DOMAIN chain
    PROVE  Kept(AppendTx(id, missing), current)
<1>1. PICK sent : sent = appendCalendarEntriesIx(wallet, id, missing)
  OBVIOUS
<1>2. PICK t : t = AppendTx(id, missing)
  OBVIOUS
<1>3. PICK world : world = World(PricePosted(t))
  OBVIOUS
<1>4. PICK c : c = chain
  OBVIOUS
<1>5. t = ProgramTx(<< sent >>)
  BY <1>1, <1>2 DEF AppendTx
<1>6. P!Complaints(c, world, sent) = {}
  BY <1>1, <1>4, AppendFits
<1>7. PICK d : d = P!Effect(c, world, sent)
  OBVIOUS
<1>8. Run(t).chain = d /\ Run(t).why = {}
  BY <1>3, <1>4, <1>5, <1>6, <1>7, RunOne
<1>9. P!Handler(sent) = "appendCalendarEntries"
  <2>1. sent.discriminator = 245
    BY <1>1 DEF appendCalendarEntriesIx, ix, DISC
  <2> QED BY <2>1, HandlerOf
<1>10. world.verdict # 0
  BY <1>3, VerdictRefuses
<1>11. ChainOK(c) /\ P!Handler(sent) \in {"setRegistryPaused", "appendCalendarEntries",
                                "syncSecurity", "attestHalt", "probeSecurity"}
  BY <1>4, <1>9
<1>12. ChainOK(d) /\ Grows(c, d) /\ DOMAIN d = DOMAIN c
  BY <1>7, <1>10, <1>11, MutationKeeps
<1>13. CalendarsOK(d, current)
  BY <1>4, <1>12, SameCalendars
<1>14. RefusalOK(t, {})
  BY DEF RefusalOK
<1> QED BY <1>2, <1>4, <1>8, <1>12, <1>13, <1>14 DEF Kept

\* A transaction of the system program that makes a mint.
LEMMA CreateMintLands ==
    ASSUME ChainOK(chain), NEW current, CalendarsOK(chain, current), NEW mint, IsKey(mint)
    PROVE  /\ Kept(CreateMintTx(mint), current)
           /\ Run(CreateMintTx(mint)).why = {} => mint \in DOMAIN Run(CreateMintTx(mint)).chain
<1>1. PICK t : t = CreateMintTx(mint)
  OBVIOUS
<1>2. PICK c : c = chain
  OBVIOUS
<1>3. t.kind = "create_standin_mint" /\ t.mint = mint
  BY <1>1 DEF CreateMintTx, Transaction
<1> DEFINE account == [type |-> "Mint", labelled |-> FALSE]
<1>4. CASE mint \in DOMAIN c
  <2>1. Run(t).chain = c /\ Run(t).why = {"taken"}
    BY <1>2, <1>3, <1>4 DEF Run
  <2>2. RefusalOK(t, {"taken"}) /\ Grows(c, c)
    BY <1>2, GrowsSame DEF RefusalOK
  <2> QED BY <1>1, <1>2, <2>1, <2>2 DEF Kept
<1>5. CASE mint \notin DOMAIN c
  <2>1. PICK d : d = (mint :> account) @@ c
    OBVIOUS
  <2>2. Run(t) = [chain |-> d, why |-> {}]
    BY <1>2, <1>3, <1>5, <2>1 DEF Run
  <2>3. Run(t).chain = d /\ Run(t).why = {}
    BY <2>2
  <2>4. Made(c, mint, account, d)
    BY <1>5, <2>1, OverlayMakes
  <2>5. d[mint] = account /\ DOMAIN d = {mint} \cup DOMAIN c /\ "type" \in DOMAIN account
    BY <2>4 DEF Made
  <2>6. PlaceOK(d, mint)
    BY <2>5 DEF PlaceOK
  <2> HIDE DEF account
  <2>7. ChainOK(d) /\ Grows(c, d)
    BY <1>2, <1>5, <2>4, <2>5, <2>6, AccountMade
  <2>8. \A id : calendarPda(id) \in DOMAIN d => calendarPda(id) \in DOMAIN c
    BY <2>5 DEF calendarPda, IsKey, Key
  <2>9. CalendarsOK(d, current)
    BY <1>2, <2>8, SameCalendars
  <2>10. RefusalOK(t, {})
    BY DEF RefusalOK
  <2> QED BY <1>1, <1>2, <2>3, <2>5, <2>7, <2>9, <2>10 DEF Kept
<1> QED BY <1>4, <1>5

\* A transaction of the token program that labels a mint.
LEMMA LabelMintLands ==
    ASSUME ChainOK(chain), NEW current, CalendarsOK(chain, current), NEW mint
    PROVE  Kept(LabelMintTx(mint), current)
<1>1. PICK t : t = LabelMintTx(mint)
  OBVIOUS
<1>2. PICK c : c = chain
  OBVIOUS
<1>3. PICK d : d = Written(c, mint, "labelled", TRUE)
  OBVIOUS
<1>4. t.kind = "standin_mint_metadata" /\ t.mint = mint
  BY <1>1 DEF LabelMintTx, Transaction
<1>5. Run(t) = [chain |-> d, why |-> {}]
  BY <1>2, <1>3, <1>4 DEF Run, Written
<1>6. Run(t).chain = d /\ Run(t).why = {}
  BY <1>5
<1> DEFINE f == "labelled"
           x == TRUE
<1>7. d = Written(c, mint, f, x)
  BY <1>3
<1>8. f \notin Fixed /\ f # "refusals"
  BY DEF Fixed
<1> HIDE DEF f, x
<1>9. ChainOK(d) /\ Grows(c, d) /\ DOMAIN d = DOMAIN c
  BY <1>2, <1>7, <1>8, MarkWritten
<1>10. CalendarsOK(d, current)
  BY <1>2, <1>9, SameCalendars
<1>11. RefusalOK(t, {})
  BY DEF RefusalOK
<1> QED BY <1>1, <1>2, <1>6, <1>9, <1>10, <1>11 DEF Kept

\* Wormhole keeps an encoded VAA: nothing of the deployment changes.
LEMMA VaaLands ==
    ASSUME ChainOK(chain), NEW current, CalendarsOK(chain, current)
    PROVE  Kept(VaaTx, current)
<1>1. VaaTx.kind = "encoded_vaa"
  BY DEF VaaTx, Transaction
<1>2. Run(VaaTx) = [chain |-> chain, why |-> {}]
  BY <1>1 DEF Run
<1>3. Run(VaaTx).chain = chain /\ Run(VaaTx).why = {}
  BY <1>2
<1>4. RefusalOK(VaaTx, {}) /\ Grows(chain, chain)
  BY GrowsSame DEF RefusalOK
<1> QED BY <1>3, <1>4 DEF Kept

\* register_security of a script.
LEMMA RegisterLands ==
    ASSUME ChainOK(chain), NEW current, CalendarsOK(chain, current), NEW mint, IsKey(mint),
           NEW id, {mint, calendarPda(id)} \subseteq DOMAIN chain
    PROVE  Kept(RegisterTx(mint, id), current)
<1>1. PICK sent : sent = registerSecurityIx(wallet, mint, id, BINDING)
  OBVIOUS
<1>2. PICK t : t = RegisterTx(mint, id)
  OBVIOUS
<1>3. PICK world : world = World(PricePosted(t))
  OBVIOUS
<1>4. PICK c : c = chain
  OBVIOUS
<1>5. t = ProgramTx(<< sent >>)
  BY <1>1, <1>2 DEF RegisterTx
<1> DEFINE d == P!Effect(c, world, sent)
           why == P!Complaints(c, world, sent)
<1>6. why \subseteq {"taken"}
  BY <1>1, <1>4, RegisterFits
<1>7. why = {} => ChainOK(d) /\ Grows(c, d) /\ DOMAIN d = {securityPda(mint)} \cup DOMAIN c
  BY <1>1, <1>4, RegisterFits
<1>8. /\ why = {} => Run(t).chain = d /\ Run(t).why = {}
      /\ why # {} => Run(t).chain = c /\ Run(t).why = why
  BY <1>3, <1>4, <1>5, RunOne
<1> HIDE DEF d, why
<1>9. CASE why = {}
  <2>1. \A x : calendarPda(x) \in DOMAIN d => calendarPda(x) \in DOMAIN c
    BY <1>7, <1>9 DEF calendarPda, securityPda
  <2>2. CalendarsOK(d, current)
    BY <1>4, <2>1, SameCalendars
  <2>3. RefusalOK(t, {})
    BY DEF RefusalOK
  <2> QED BY <1>2, <1>4, <1>7, <1>8, <1>9, <2>2, <2>3 DEF Kept
<1>10. CASE why # {}
  <2>1. RefusalOK(t, why) /\ Grows(c, c)
    BY <1>4, <1>6, GrowsSame DEF RefusalOK
  <2> QED BY <1>2, <1>4, <1>8, <1>10, <2>1 DEF Kept
<1> QED BY <1>9, <1>10

\* What an accepted probe leaves: one refusal more.
LEMMA ProbeLeaves ==
    ASSUME NEW c, ChainOK(c), NEW world, world.verdict # 0, NEW mint, NEW id,
           Probable(c, mint, id), NEW oracle, NEW sent,
           sent = probeSecurityIx(mint, id, oracle), NEW d, d = P!Effect(c, world, sent)
    PROVE  /\ ChainOK(d) /\ Grows(c, d) /\ DOMAIN d = DOMAIN c
           /\ c[securityPda(mint)].refusals < d[securityPda(mint)].refusals
<1>1. P!Handler(sent) = "probeSecurity"
  <2>1. sent.discriminator = 161
    BY DEF probeSecurityIx, ix, DISC
  <2> QED BY <2>1, HandlerOf
<1>2. PICK a : a = P!Bound("probeSecurity", sent)
  OBVIOUS
<1>3. d = P!probe_security(c, world, a)
  BY <1>1, <1>2 DEF P!Effect
<1>4. a.security = securityPda(mint)
  BY <1>2, ProbeHand
<1>5. securityPda(mint) \in DOMAIN c
  BY DEF Probable
<1>6. SecurityAccountOK(c, securityPda(mint))
  BY <1>5, Kinds
<1>7. c[securityPda(mint)].type = "SecurityState" /\ c[securityPda(mint)].refusals \in Nat
  BY <1>6 DEF SecurityAccountOK
<1>8. /\ ChainOK(d) /\ Grows(c, d) /\ DOMAIN d = DOMAIN c
      /\ a.security \in DOMAIN c /\ c[a.security].type = "SecurityState" =>
                 d[a.security].refusals = c[a.security].refusals + 1
  BY <1>3, ProbeCounts
<1>9. d[securityPda(mint)].refusals = c[securityPda(mint)].refusals + 1
  BY <1>4, <1>5, <1>7, <1>8
<1> QED BY <1>7, <1>8, <1>9

\* A probe stays founded while the chain grows.
LEMMA ProbableGrows ==
    ASSUME NEW c, NEW d, ChainOK(c), Grows(c, d), NEW mint, NEW id, Probable(c, mint, id)
    PROVE  Probable(d, mint, id)
<1>1. securityPda(mint) \in DOMAIN c
  BY DEF Probable
<1>2. c[securityPda(mint)].type = "SecurityState"
  BY <1>1, Kinds DEF SecurityAccountOK
<1>3. d[securityPda(mint)].calendar_id = c[securityPda(mint)].calendar_id
  BY <1>1, <1>2 DEF Grows
<1> QED BY <1>3 DEF Probable, Grows

\* The two reasons a probe may be refused for.
LEMMA ProbeRefusal ==
    ASSUME NEW mint, NEW id, NEW oracle, NEW why, NEW c, Probable(c, mint, id),
           why = IF c[securityPda(mint)].calendar_id = id THEN {} ELSE {"mismatch"}
    PROVE  /\ RefusalOK(ProbeTx(mint, id, oracle), why)
           /\ RefusalOK(SyncAndProbeTx(mint, id, oracle), why)
<1>1. why # {} => why = {"mismatch"} /\ id = OtherCalendarId
  BY DEF Probable
<1>2. CASE why = {}
  BY <1>2 DEF RefusalOK
<1>3. CASE why # {}
  <2>1. PICK sent : sent = probeSecurityIx(mint, id, oracle)
    OBVIOUS
  <2>2. /\ sent.discriminator = DISC.probe_security
        /\ sent.accounts[2].address = calendarPda(OtherCalendarId)
    BY <1>1, <1>3, <2>1 DEF probeSecurityIx, ix, DISC, r
  <2>3. RefusalOK(ProbeTx(mint, id, oracle), why)
    <3>1. PICK t : t = ProbeTx(mint, id, oracle)
      OBVIOUS
    <3>2. t.ixs = << sent >>
      BY <2>1, <3>1 DEF ProbeTx, ProgramTx, Transaction
    <3>3. 1 \in DOMAIN t.ixs /\ t.ixs[1] = sent
      BY <3>2
    <3> QED BY <1>1, <1>3, <2>2, <3>1, <3>3 DEF RefusalOK
  <2>4. RefusalOK(SyncAndProbeTx(mint, id, oracle), why)
    <3>1. PICK t : t = SyncAndProbeTx(mint, id, oracle)
      OBVIOUS
    <3>2. PICK first : t.ixs = << first, sent >>
      BY <2>1, <3>1 DEF SyncAndProbeTx, ProgramTx, Transaction
    <3>3. 2 \in DOMAIN t.ixs /\ t.ixs[2] = sent
      BY <3>2
    <3> QED BY <1>1, <1>3, <2>2, <3>1, <3>3 DEF RefusalOK
  <2> QED BY <2>3, <2>4
<1> QED BY <1>2, <1>3

\* The probe of a closed session.
LEMMA ProbeLands ==
    ASSUME ChainOK(chain), NEW current, CalendarsOK(chain, current), NEW mint, NEW id,
           Probable(chain, mint, id), NEW oracle
    PROVE  /\ Kept(ProbeTx(mint, id, oracle), current)
           /\ Run(ProbeTx(mint, id, oracle)).why = {} =>
                 chain[securityPda(mint)].refusals <
                    Run(ProbeTx(mint, id, oracle)).chain[securityPda(mint)].refusals
<1>1. PICK sent : sent = probeSecurityIx(mint, id, oracle)
  OBVIOUS
<1>2. PICK t : t = ProbeTx(mint, id, oracle)
  OBVIOUS
<1>3. PICK world : world = World(PricePosted(t))
  OBVIOUS
<1>4. PICK c : c = chain
  OBVIOUS
<1>5. t = ProgramTx(<< sent >>)
  BY <1>1, <1>2 DEF ProbeTx
<1>6. PICK d : d = P!Effect(c, world, sent)
  OBVIOUS
<1>7. PICK why : why = P!Complaints(c, world, sent)
  OBVIOUS
<1>8. why = IF c[securityPda(mint)].calendar_id = id THEN {} ELSE {"mismatch"}
  BY <1>1, <1>4, <1>7, ProbeFits
<1>9. world.verdict # 0
  BY <1>3, VerdictRefuses
<1>10. /\ ChainOK(d) /\ Grows(c, d) /\ DOMAIN d = DOMAIN c
       /\ c[securityPda(mint)].refusals < d[securityPda(mint)].refusals
  BY <1>1, <1>4, <1>6, <1>9, ProbeLeaves
<1>11. /\ why = {} => Run(t).chain = d /\ Run(t).why = {}
       /\ why # {} => Run(t).chain = c /\ Run(t).why = why
  BY <1>3, <1>4, <1>5, <1>6, <1>7, RunOne
<1>12. RefusalOK(t, why)
  BY <1>2, <1>4, <1>8, ProbeRefusal
<1>13. CalendarsOK(d, current) /\ Grows(c, c)
  BY <1>4, <1>10, SameCalendars, GrowsSame
<1>14. CASE why = {}
  BY <1>2, <1>4, <1>10, <1>11, <1>12, <1>13, <1>14 DEF Kept
<1>15. CASE why # {}
  BY <1>2, <1>4, <1>11, <1>12, <1>13, <1>15 DEF Kept
<1> QED BY <1>14, <1>15

\* The probe of a session: the sync before it changes nothing the probe
\* stands on.
LEMMA SyncAndProbeLands ==
    ASSUME ChainOK(chain), NEW current, CalendarsOK(chain, current), NEW mint, NEW id,
           Probable(chain, mint, id), NEW oracle
    PROVE  /\ Kept(SyncAndProbeTx(mint, id, oracle), current)
           /\ Run(SyncAndProbeTx(mint, id, oracle)).why = {} =>
                 chain[securityPda(mint)].refusals <
                    Run(SyncAndProbeTx(mint, id, oracle)).chain[securityPda(mint)].refusals
<1>1. PICK two : two = probeSecurityIx(mint, id, oracle)
  OBVIOUS
<1>2. PICK t : t = SyncAndProbeTx(mint, id, oracle)
  OBVIOUS
<1>3. PICK world : world = World(PricePosted(t))
  OBVIOUS
<1>4. PICK c : c = chain
  OBVIOUS
<1>5. PICK one : one = syncSecurityIx(mint, oracle)
  OBVIOUS
<1>6. t = ProgramTx(<< one, two >>)
  BY <1>1, <1>2, <1>5 DEF SyncAndProbeTx
<1>7. world.readable /\ world.verdict # 0
  <2>1. one.discriminator = DISC["sync_security"]
    BY <1>5 DEF syncSecurityIx, ix, DISC
  <2>2. t.ixs = << one, two >>
    BY <1>6 DEF ProgramTx, Transaction
  <2>3. 1 \in DOMAIN t.ixs /\ t.ixs[1] = one
    BY <2>2
  <2>4. PricePosted(t)
    BY <2>1, <2>3 DEF PricePosted, Contains
  <2>5. world.verdict # 0
    BY <1>3, VerdictRefuses
  <2>6. world.readable
    BY <1>3, <2>4, VerdictRefuses
  <2> QED BY <2>5, <2>6
<1>8. IsKey(mint) /\ {mint, securityPda(mint)} \subseteq DOMAIN c
  BY <1>4 DEF Probable
<1>9. P!Complaints(c, world, one) = {}
  BY <1>4, <1>5, <1>7, <1>8, SyncFits
<1>10. PICK e : e = P!Effect(c, world, one)
  OBVIOUS
<1>11. P!Handler(one) = "syncSecurity"
  <2>1. one.discriminator = 45
    BY <1>5 DEF syncSecurityIx, ix, DISC
  <2> QED BY <2>1, HandlerOf
<1>12. /\ ChainOK(c) /\ world.verdict # 0
       /\ P!Handler(one) \in {"setRegistryPaused", "appendCalendarEntries",
                              "syncSecurity", "attestHalt", "probeSecurity"}
  BY <1>4, <1>7, <1>11
<1>13. ChainOK(e) /\ Grows(c, e) /\ DOMAIN e = DOMAIN c
  BY <1>10, <1>12, MutationKeeps
<1>14. Probable(c, mint, id) /\ Probable(e, mint, id)
  BY <1>4, <1>12, <1>13, ProbableGrows
<1>15. PICK d : d = P!Effect(e, world, two)
  OBVIOUS
<1>16. PICK why : why = P!Complaints(e, world, two)
  OBVIOUS
<1>17. why = IF e[securityPda(mint)].calendar_id = id THEN {} ELSE {"mismatch"}
  BY <1>1, <1>13, <1>14, <1>16, ProbeFits
<1>18. /\ ChainOK(d) /\ Grows(e, d) /\ DOMAIN d = DOMAIN e
       /\ e[securityPda(mint)].refusals < d[securityPda(mint)].refusals
  BY <1>1, <1>7, <1>13, <1>14, <1>15, ProbeLeaves
<1>19. P!Complaints(chain, world, one) = {} /\ e = P!Effect(chain, world, one)
  BY <1>4, <1>9, <1>10
<1>20. /\ why = {} => Run(t).chain = d /\ Run(t).why = {}
       /\ why # {} => Run(t).chain = c /\ Run(t).why = why
  BY <1>3, <1>4, <1>6, <1>15, <1>16, <1>19, RunTwo
<1>21. RefusalOK(t, why)
  BY <1>2, <1>14, <1>17, ProbeRefusal
<1>22. CalendarsOK(d, current) /\ Grows(c, c) /\ Grows(c, d)
  BY <1>4, <1>12, <1>13, <1>18, SameCalendars, GrowsSame, GrowsOn
<1>23. c[securityPda(mint)].refusals < d[securityPda(mint)].refusals
  <2>1. SecurityAccountOK(c, securityPda(mint))
    BY <1>8, <1>12, Kinds
  <2>2. SecurityAccountOK(d, securityPda(mint)) /\ SecurityAccountOK(e, securityPda(mint))
    BY <1>8, <1>13, <1>18, Kinds
  <2>3. c[securityPda(mint)].refusals <= e[securityPda(mint)].refusals
    BY <1>8, <1>13, <2>1 DEF Grows, SecurityAccountOK
  <2> QED BY <1>18, <2>1, <2>2, <2>3 DEF SecurityAccountOK
<1>24. CASE why = {}
  BY <1>2, <1>4, <1>18, <1>20, <1>21, <1>22, <1>23, <1>24 DEF Kept
<1>25. CASE why # {}
  BY <1>2, <1>4, <1>20, <1>21, <1>22, <1>25 DEF Kept
<1> QED BY <1>24, <1>25

\* Whatever a script has sent, landed or refused, leaves a sound chain, and is
\* refused for no other reason than the two.
LEMMA RunKeeps ==
    ASSUME ChainOK(chain), NEW current, CalendarsOK(chain, current),
           NEW t, Founded(t, chain, current)
    PROVE  Kept(t, current)
<1>1. CASE t = InitRegistryTx
  BY <1>1, InitRegistryLands
<1>2. CASE \E id : t = InitCalendarTx(id) /\ IdOK(id, current) /\ registryPda \in DOMAIN chain
  BY <1>2, InitCalendarLands
<1>3. CASE \E id, missing : t = AppendTx(id, missing) /\ calendarPda(id) \in DOMAIN chain
  BY <1>3, AppendLands
<1>4. CASE \E mint : t = CreateMintTx(mint) /\ IsKey(mint)
  BY <1>4, CreateMintLands
<1>5. CASE \E mint : t = LabelMintTx(mint)
  BY <1>5, LabelMintLands
<1>6. CASE \E mint, id : /\ t = RegisterTx(mint, id) /\ IsKey(mint)
                         /\ {mint, calendarPda(id)} \subseteq DOMAIN chain
  BY <1>6, RegisterLands
<1>7. CASE t = VaaTx
  BY <1>7, VaaLands
<1>8. CASE \E mint, id, oracle : t = ProbeTx(mint, id, oracle) /\ Probable(chain, mint, id)
  BY <1>8, ProbeLands
<1>9. CASE \E mint, id, oracle :
              t = SyncAndProbeTx(mint, id, oracle) /\ Probable(chain, mint, id)
  BY <1>9, SyncAndProbeLands
<1> QED BY <1>1, <1>2, <1>3, <1>4, <1>5, <1>6, <1>7, <1>8, <1>9 DEF Founded

-----------------------------------------------------------------------------
(* What stays true while the chain grows *)

\* The record turns to another calendar only from none or the default one.
Follows(current, next) == current \in {0, DEFAULT_CALENDAR_ID} \/ next = current

\* A calendar in use stays one.
LEMMA IdFollows ==
    ASSUME NEW current, NEW next, Follows(current, next)
    PROVE  /\ \A id : IdOK(id, current) => IdOK(id, next)
           /\ \A c : CalendarsOK(c, current) => CalendarsOK(c, next)
<1>1. \A id : IdOK(id, current) => IdOK(id, next)
  BY DEF Follows, IdOK, Ids, DEFAULT_CALENDAR_ID
<1> QED BY <1>1 DEF CalendarsOK

\* What a transaction on the wire needs stays there.
LEMMA SentGrows ==
    ASSUME NEW c, NEW d, ChainOK(c), Grows(c, d), NEW current, NEW next,
           Follows(current, next), NEW sent, SentOK(sent, c, current)
    PROVE  SentOK(sent, d, next)
<1>1. PICK t : t = sent.tx
  OBVIOUS
<1>2. Founded(t, c, current)
  BY <1>1 DEF SentOK
<1>3. DOMAIN c \subseteq DOMAIN d
  BY DEF Grows
<1>4. Founded(t, d, next)
  <2>1. CASE \E id : t = InitCalendarTx(id) /\ IdOK(id, current) /\ registryPda \in DOMAIN c
    BY <1>3, <2>1, IdFollows DEF Founded
  <2>2. CASE \E mint, id, oracle :
                /\ t = ProbeTx(mint, id, oracle) \/ t = SyncAndProbeTx(mint, id, oracle)
                /\ Probable(c, mint, id)
    BY <2>2, ProbableGrows DEF Founded
  <2>3. CASE \/ t = InitRegistryTx
             \/ \E id, missing : t = AppendTx(id, missing) /\ calendarPda(id) \in DOMAIN c
             \/ \E mint : t = CreateMintTx(mint) /\ IsKey(mint)
             \/ \E mint : t = LabelMintTx(mint)
             \/ \E mint, id : /\ t = RegisterTx(mint, id)
                              /\ IsKey(mint) /\ {mint, calendarPda(id)} \subseteq DOMAIN c
             \/ t = VaaTx
    BY <1>3, <2>3 DEF Founded
  <2> QED BY <1>2, <2>1, <2>2, <2>3 DEF Founded
<1> QED BY <1>1, <1>4 DEF SentOK

\* The refusals of a probed security never shrink.
LEMMA RefusalsGrow ==
    ASSUME NEW c, NEW d, ChainOK(c), ChainOK(d), Grows(c, d), NEW s, NEW id,
           Probable(c, s.mint, id)
    PROVE  /\ Refusals(s, c) \in Nat /\ Refusals(s, d) \in Nat
           /\ Refusals(s, c) <= Refusals(s, d)
<1>1. PICK k : k = securityPda(s.mint)
  OBVIOUS
<1>2. k \in DOMAIN c /\ k \in DOMAIN d
  BY <1>1 DEF Probable, Grows
<1>3. SecurityAccountOK(c, k) /\ SecurityAccountOK(d, k)
  BY <1>1, <1>2, Kinds
<1>4. c[k].refusals \in Nat /\ d[k].refusals \in Nat /\ c[k].type = "SecurityState"
  BY <1>3 DEF SecurityAccountOK
<1>5. c[k].refusals <= d[k].refusals
  BY <1>2, <1>4 DEF Grows
<1> QED BY <1>1, <1>4, <1>5 DEF Refusals

\* Two scripts that are about the same things.
Alike(s, q) == s.id = q.id /\ s.mint = q.mint /\ s.key = q.key /\ s.before = q.before

\* Where a script has arrived, it stays; and so would one like it.
LEMMA ReachedGrows ==
    ASSUME NEW c, NEW d, ChainOK(c), ChainOK(d), Grows(c, d), NEW current, NEW names,
           NEW s, NEW q, Alike(s, q), NEW pc, Reached(s, pc, c, current, names)
    PROVE  Reached(q, pc, d, current, names)
<1>1. DOMAIN c \subseteq DOMAIN d
  BY DEF Grows
<1>2. q.id = s.id /\ q.mint = s.mint /\ q.key = s.key /\ q.before = s.before
  BY DEF Alike
<1>3. /\ pc \in {"init registry", "init calendar"} => IdOK(q.id, current)
      /\ pc = "init calendar" => registryPda \in DOMAIN d
      /\ pc = "append entries" => calendarPda(q.id) \in DOMAIN d
      /\ pc \in {"create mint", "label mint", "name mint"} => q.key \in names /\ IsKey(q.mint)
      /\ pc \in {"label mint", "name mint", "register", "probe"} => q.mint \in DOMAIN d
      /\ pc \in {"register", "probe"} => IsKey(q.mint)
      /\ pc = "probe" => q.id = IF current # 0 THEN current ELSE DEFAULT_CALENDAR_ID
  BY <1>1, <1>2 DEF Reached
<1>4. ASSUME pc \in {"closed session", "post vaa", "in session", "record probe"}
      PROVE  /\ Probable(d, q.mint, q.id) /\ q.before \in Nat
             /\ pc \in {"closed session", "post vaa", "in session"} =>
                   q.before <= Refusals(q, d)
             /\ pc = "record probe" => q.before < Refusals(q, d)
  <2>1. Probable(c, q.mint, q.id) /\ q.before \in Nat
    BY <1>2, <1>4 DEF Reached
  <2>2. Probable(d, q.mint, q.id)
    BY <2>1, ProbableGrows
  <2>3. /\ Refusals(q, c) \in Nat /\ Refusals(q, d) \in Nat
        /\ Refusals(q, c) <= Refusals(q, d)
    BY <2>1, RefusalsGrow
  <2>4. Refusals(q, c) = Refusals(s, c)
    BY <1>2 DEF Refusals
  <2>5. pc \in {"closed session", "post vaa", "in session"} => q.before <= Refusals(q, c)
    BY <1>2, <2>4 DEF Reached
  <2>6. pc = "record probe" => q.before < Refusals(q, c)
    BY <1>2, <2>4 DEF Reached
  <2>7. PICK x, y, z : x = q.before /\ y = Refusals(q, c) /\ z = Refusals(q, d)
    OBVIOUS
  <2>8. x \in Nat /\ y \in Nat /\ z \in Nat /\ y <= z
    BY <2>1, <2>3, <2>7
  <2>9. (x <= y => x <= z) /\ (x < y => x < z)
    BY <2>8
  <2> QED BY <2>1, <2>2, <2>5, <2>6, <2>7, <2>9
<1> QED BY <1>3, <1>4 DEF Reached

\* What a script waits for, it goes on waiting for; and so would one like it.
LEMMA AwaitsGrows ==
    ASSUME NEW c, NEW d, ChainOK(c), ChainOK(d), Grows(c, d), NEW current, NEW names,
           NEW s, NEW q, Alike(s, q), s.next = q.next, NEW t,
           Awaits(s, t, c, current, names)
    PROVE  Awaits(q, t, d, current, names)
<1>1. DOMAIN c \subseteq DOMAIN d
  BY DEF Grows
<1>2. q.id = s.id /\ q.mint = s.mint /\ q.key = s.key /\ q.before = s.before
  BY DEF Alike
<1>3. \A pc : Reached(s, pc, c, current, names) => Reached(q, pc, d, current, names)
  BY ReachedGrows
<1>4. CASE \/ s.next = "init calendar" /\ t = InitRegistryTx /\ IdOK(s.id, current)
           \/ s.next = "append entries" /\ t = InitCalendarTx(s.id) /\ IdOK(s.id, current)
                                        /\ registryPda \in DOMAIN c
           \/ s.next = "done"
  BY <1>1, <1>2, <1>4 DEF Awaits
<1>5. CASE s.next = "label mint" /\ t = CreateMintTx(s.mint) /\ s.key \in names /\ IsKey(s.mint)
  BY <1>2, <1>5 DEF Awaits
<1>6. CASE \/ s.next = "name mint" /\ Reached(s, "label mint", c, current, names)
           \/ s.next = "in session" /\ Reached(s, "post vaa", c, current, names)
  BY <1>3, <1>6 DEF Awaits
<1>7. CASE /\ s.next = "record probe" /\ Reached(s, "in session", c, current, names)
           /\ \E oracle : \/ t = ProbeTx(s.mint, s.id, oracle)
                          \/ t = SyncAndProbeTx(s.mint, s.id, oracle)
  BY <1>2, <1>3, <1>7 DEF Awaits
<1> QED BY <1>4, <1>5, <1>6, <1>7 DEF Awaits

-----------------------------------------------------------------------------
(* The wire, the record and the script from one step to the next *)

\* A transaction is never taken off the wire, and what has landed stays landed.
WireGrows ==
    \A i \in DOMAIN wire :
       /\ i \in DOMAIN wire' /\ wire'[i].tx = wire[i].tx
       /\ wire[i].status = "landed" =>
             wire'[i].status = "landed" /\ wire'[i].code = wire[i].code

\* A step that leaves the wire alone.
LEMMA WireStays ==
    ASSUME WireOK, ChainOK(chain), Grows(chain, chain'),
           Follows(record.calendarId, record'.calendarId), wire' = wire
    PROVE  WireOK' /\ WireGrows
<1>1. PICK c, d : c = chain /\ d = chain'
  OBVIOUS
<1>2. PICK current, next : current = record.calendarId /\ next = record'.calendarId
  OBVIOUS
<1>3. \A i \in DOMAIN wire : SentOK(wire[i], c, current)
  BY <1>1, <1>2 DEF WireOK
<1>4. \A i \in DOMAIN wire : SentOK(wire[i], d, next)
  BY <1>1, <1>2, <1>3, SentGrows
<1>5. WireOK'
  BY <1>1, <1>2, <1>4 DEF WireOK
<1> QED BY <1>5 DEF WireGrows

\* A step that sends a transaction.
LEMMA WireSends ==
    ASSUME WireOK, ChainOK(chain), Grows(chain, chain'),
           Follows(record.calendarId, record'.calendarId),
           NEW sent, SentOK(sent, chain', record'.calendarId), wire' = Append(wire, sent),
           NEW n, n = Len(wire) + 1
    PROVE  /\ WireOK' /\ WireGrows
           /\ n \in DOMAIN wire' /\ wire'[n] = sent /\ n \notin DOMAIN wire
<1>1. PICK c, d : c = chain /\ d = chain'
  OBVIOUS
<1>2. PICK current, next : current = record.calendarId /\ next = record'.calendarId
  OBVIOUS
<1>3. \A i \in DOMAIN wire : SentOK(wire[i], c, current)
  BY <1>1, <1>2 DEF WireOK
<1>4. \A i \in DOMAIN wire : SentOK(wire[i], d, next)
  BY <1>1, <1>2, <1>3, SentGrows
<1>5. PICK S : wire \in Seq(S)
  BY DEF WireOK
<1>6. wire \in Seq(S \cup {sent})
  BY <1>5, SeqMonotonic
<1>7. DOMAIN wire = 1..Len(wire) /\ Len(wire) \in Nat
  BY <1>6, LenProperties
<1>8. /\ wire' \in Seq(S \cup {sent}) /\ Len(wire') = Len(wire) + 1
      /\ \A i \in 1..Len(wire) : wire'[i] = wire[i]
      /\ wire'[Len(wire) + 1] = sent
  BY <1>6, AppendProperties
<1>9. DOMAIN wire' = 1..(Len(wire) + 1)
  BY <1>8, LenProperties
<1>10. ASSUME NEW i \in DOMAIN wire' PROVE SentOK(wire'[i], d, next)
  <2>1. i \in DOMAIN wire \/ i = Len(wire) + 1
    BY <1>7, <1>9
  <2>2. CASE i \in DOMAIN wire
    BY <1>4, <1>7, <1>8, <2>2
  <2>3. CASE i = Len(wire) + 1
    BY <1>1, <1>2, <1>8, <2>3
  <2> QED BY <2>1, <2>2, <2>3
<1>11. WireOK'
  BY <1>1, <1>2, <1>8, <1>10 DEF WireOK
<1>12. WireGrows
  BY <1>7, <1>8, <1>9 DEF WireGrows
<1> QED BY <1>7, <1>8, <1>9, <1>11, <1>12

\* A step that decides about a pending transaction.
LEMMA WireMarks ==
    ASSUME WireOK, ChainOK(chain), Grows(chain, chain'),
           Follows(record.calendarId, record'.calendarId),
           NEW id \in DOMAIN wire, wire[id].status = "pending",
           NEW sent, SentOK(sent, chain', record'.calendarId), sent.tx = wire[id].tx,
           wire' = [wire EXCEPT ![id] = sent]
    PROVE  WireOK' /\ WireGrows /\ DOMAIN wire' = DOMAIN wire
<1>1. PICK c, d : c = chain /\ d = chain'
  OBVIOUS
<1>2. PICK current, next : current = record.calendarId /\ next = record'.calendarId
  OBVIOUS
<1>3. \A i \in DOMAIN wire : SentOK(wire[i], c, current)
  BY <1>1, <1>2 DEF WireOK
<1>4. \A i \in DOMAIN wire : SentOK(wire[i], d, next)
  BY <1>1, <1>2, <1>3, SentGrows
<1>5. PICK S : wire \in Seq(S)
  BY DEF WireOK
<1>6. wire \in Seq(S \cup {sent}) /\ DOMAIN wire = 1..Len(wire)
  BY <1>5, SeqMonotonic, LenProperties
<1>7. wire' \in Seq(S \cup {sent})
  BY <1>6, ExceptSeq
<1>8. /\ DOMAIN wire' = DOMAIN wire
      /\ \A i \in DOMAIN wire : wire'[i] = IF i = id THEN sent ELSE wire[i]
  OBVIOUS
<1>9. \A i \in DOMAIN wire' : SentOK(wire'[i], d, next)
  BY <1>1, <1>2, <1>4, <1>8
<1>10. WireOK'
  BY <1>1, <1>2, <1>7, <1>9 DEF WireOK
<1>11. WireGrows
  BY <1>8 DEF WireGrows
<1> QED BY <1>8, <1>10, <1>11

\* The record stays true when it is written only with what has happened.
LEMMA RecordMoves ==
    ASSUME RecordOK, WireGrows, DOMAIN record' = RecordFields,
           record'.calendarId \in {0} \cup Ids, MintOK',
           record.transactions \subseteq record'.transactions,
           \A id \in record'.transactions \ record.transactions :
              id \in DOMAIN wire' /\ wire'[id].status = "landed",
           \A p \in record'.probes \ record.probes : ProbeOK(p)'
    PROVE  RecordOK'
<1>1. \A id \in record'.transactions : id \in DOMAIN wire' /\ wire'[id].status = "landed"
  BY DEF RecordOK, WireGrows
<1>2. ASSUME NEW p \in record'.probes PROVE ProbeOK(p)'
  <2>1. CASE p \in record.probes
    <3>1. ProbeOK(p)
      BY <2>1 DEF RecordOK
    <3>2. p.tx \in DOMAIN wire /\ wire[p.tx].status = "landed"
      BY <3>1 DEF RecordOK, ProbeOK
    <3>3. wire'[p.tx].code = wire[p.tx].code
      BY <3>2 DEF WireGrows
    <3> QED BY <3>1, <3>3 DEF ProbeOK
  <2>2. CASE p \notin record.probes
    BY <2>2
  <2> QED BY <2>1, <2>2
<1> QED BY <1>1, <1>2 DEF RecordOK

\* The record stays true when nobody writes it.
LEMMA RecordStays ==
    ASSUME RecordOK, WireGrows, DOMAIN chain \subseteq DOMAIN chain', keys \subseteq keys',
           record' = record
    PROVE  RecordOK'
<1>1. MintOK'
  BY DEF RecordOK, MintOK
<1>2. /\ DOMAIN record' = RecordFields /\ record'.calendarId \in {0} \cup Ids
      /\ record.transactions \subseteq record'.transactions
      /\ record'.transactions \ record.transactions = {}
      /\ record'.probes \ record.probes = {}
  BY DEF RecordOK
<1> QED BY <1>1, <1>2, RecordMoves

\* A script that is not running stands nowhere.
LEMMA IdleOK ==
    ASSUME script' = Idle
    PROVE  ScriptOK'
BY DEF ScriptOK

\* A script goes on where it is while the others act.
LEMMA ScriptStays ==
    ASSUME ScriptOK, WireGrows, ChainOK(chain), ChainOK(chain'), Grows(chain, chain'),
           record'.calendarId = record.calendarId,
           record.transactions \subseteq record'.transactions,
           RecordOK, keys' = keys, script' = script,
           (script.pc = "confirm" /\ wire[script.tx].status # "landed"
              /\ wire'[script.tx].status = "landed")
              => Reached(script, script.next, chain', record.calendarId, keys)
    PROVE  ScriptOK'
<1>1. CASE script = Idle
  BY <1>1, IdleOK
<1>2. CASE DOMAIN script = ScriptFields /\ PlaceInScriptOK
  <2>1. PICK c, d, s, current, names :
           /\ c = chain /\ d = chain' /\ s = script
           /\ current = record.calendarId /\ names = keys
    OBVIOUS
  <2>2. Alike(s, s) /\ ChainOK(c) /\ ChainOK(d) /\ Grows(c, d)
    BY <2>1 DEF Alike
  <2>3. s.pc # "idle" /\ s.tx \in {0} \cup DOMAIN wire'
    BY <1>2, <2>1 DEF PlaceInScriptOK, WireGrows
  <2>4. Reached(s, s.pc, d, current, names)
    <3>1. Reached(s, s.pc, c, current, names)
      BY <1>2, <2>1 DEF PlaceInScriptOK
    <3> QED BY <2>2, <3>1, ReachedGrows
  <2>5. ASSUME s.pc = "confirm"
        PROVE  /\ s.tx \in DOMAIN wire'
               /\ Awaits(s, wire'[s.tx].tx, d, current, names)
               /\ wire'[s.tx].status = "landed" => Reached(s, s.next, d, current, names)
    <3>1. /\ s.tx \in DOMAIN wire
          /\ Awaits(s, wire[s.tx].tx, c, current, names)
          /\ wire[s.tx].status = "landed" => Reached(s, s.next, c, current, names)
      BY <1>2, <2>1, <2>5 DEF PlaceInScriptOK
    <3>2. s.tx \in DOMAIN wire' /\ wire'[s.tx].tx = wire[s.tx].tx
      BY <3>1 DEF WireGrows
    <3>3. PICK t : t = wire[s.tx].tx
      OBVIOUS
    <3>4. Awaits(s, t, d, current, names)
      BY <2>2, <3>1, <3>3, AwaitsGrows
    <3>5. wire[s.tx].status = "landed" => Reached(s, s.next, d, current, names)
      BY <2>2, <3>1, ReachedGrows
    <3>6. wire[s.tx].status # "landed" /\ wire'[s.tx].status = "landed"
             => Reached(s, s.next, d, current, names)
      BY <2>1, <2>5
    <3> QED BY <3>2, <3>3, <3>4, <3>5, <3>6
  <2>6. ASSUME s.pc = "record probe"
        PROVE  s.tx \in record'.transactions /\ s.code \in {0, wire'[s.tx].code}
    <3>1. s.tx \in record.transactions /\ s.code \in {0, wire[s.tx].code}
      BY <1>2, <2>1, <2>6 DEF PlaceInScriptOK
    <3>2. s.tx \in DOMAIN wire /\ wire[s.tx].status = "landed"
      BY <3>1 DEF RecordOK
    <3>3. wire'[s.tx].code = wire[s.tx].code
      BY <3>2 DEF WireGrows
    <3> QED BY <3>1, <3>3
  <2>7. PlaceInScriptOK'
    BY <2>1, <2>3, <2>4, <2>5, <2>6 DEF PlaceInScriptOK
  <2> QED BY <1>2, <2>7 DEF ScriptOK
<1> QED BY <1>1, <1>2 DEF ScriptOK

\* A script that arrives somewhere finds there what it needs.
LEMMA ScriptArrives ==
    ASSUME DOMAIN script' = ScriptFields, script'.pc \notin {"idle", "confirm", "record probe"},
           script'.tx \in {0} \cup DOMAIN wire', NEW s, Alike(s, script'),
           ChainOK(chain'), Reached(s, script'.pc, chain', record'.calendarId, keys')
    PROVE  ScriptOK'
<1>1. PICK d, q, pc, current, names :
         /\ d = chain' /\ q = script' /\ pc = script'.pc
         /\ current = record'.calendarId /\ names = keys'
  OBVIOUS
<1>2. ChainOK(d) /\ Grows(d, d) /\ Alike(s, q) /\ Reached(s, pc, d, current, names)
  BY <1>1, GrowsSame
<1>3. Reached(q, pc, d, current, names)
  BY <1>2, ReachedGrows
<1>4. PlaceInScriptOK'
  BY <1>1, <1>3 DEF PlaceInScriptOK
<1> QED BY <1>4 DEF ScriptOK

\* A script that sends a transaction waits for it.
LEMMA ScriptSends ==
    ASSUME DOMAIN script = ScriptFields, NEW t, NEW next, NEW n, n = Len(wire) + 1,
           script' = [script EXCEPT !.pc = "confirm", !.next = next, !.tx = n],
           n \in DOMAIN wire', wire'[n].tx = t, wire'[n].status = "pending",
           NEW s, Alike(s, script), s.next = next, ChainOK(chain'),
           Awaits(s, t, chain', record'.calendarId, keys')
    PROVE  ScriptOK'
<1>1. /\ DOMAIN script' = ScriptFields /\ script'.pc = "confirm" /\ script'.next = next
      /\ script'.tx = n /\ Alike(script, script')
  BY DEF ScriptFields, Alike
<1>2. PICK d, q, current, names :
         d = chain' /\ q = script' /\ current = record'.calendarId /\ names = keys'
  OBVIOUS
<1>3. Alike(s, q)
  BY <1>1, <1>2 DEF Alike
<1>4. ChainOK(d) /\ Grows(d, d) /\ s.next = q.next /\ Awaits(s, t, d, current, names)
  BY <1>1, <1>2, GrowsSame
<1>5. Awaits(q, t, d, current, names)
  BY <1>3, <1>4, AwaitsGrows
<1>6. Reached(q, "confirm", d, current, names)
  BY DEF Reached
<1>7. PlaceInScriptOK'
  BY <1>1, <1>2, <1>5, <1>6 DEF PlaceInScriptOK
<1> QED BY <1>1, <1>7 DEF ScriptOK

-----------------------------------------------------------------------------
(* The steps of the scripts *)

\* A step of a script does not touch the chain.
LEMMA ChainStays ==
    ASSUME IInv, chain' = chain, Follows(record.calendarId, record'.calendarId)
    PROVE  /\ ChainOK(chain') /\ CalendarsOK(chain', record'.calendarId)
           /\ Grows(chain, chain')
<1>1. PICK c, current, next :
         c = chain /\ current = record.calendarId /\ next = record'.calendarId
  OBVIOUS
<1>2. ChainOK(c) /\ CalendarsOK(c, current) /\ Follows(current, next)
  BY <1>1 DEF IInv
<1>3. CalendarsOK(c, next) /\ Grows(c, c)
  BY <1>2, IdFollows, GrowsSame
<1> QED BY <1>1, <1>2, <1>3

\* The record keeps its calendar.
LEMMA SameCalendar ==
    ASSUME record'.calendarId = record.calendarId
    PROVE  Follows(record.calendarId, record'.calendarId)
BY DEF Follows

\* A script that is running has all its fields, and stands somewhere.
LEMMA Running ==
    ASSUME IInv, script.pc # "idle"
    PROVE  /\ DOMAIN script = ScriptFields /\ PlaceInScriptOK
           /\ Reached(script, script.pc, chain, record.calendarId, keys)
<1>1. script # Idle
  BY DEF Idle
<1> QED BY <1>1 DEF IInv, ScriptOK, PlaceInScriptOK

\* A script stops, and nothing else happens.
LEMMA Quits ==
    ASSUME IInv, script' = Idle, UNCHANGED << chain, record, keys, wire >>
    PROVE  IInv'
<1>1. /\ ChainOK(chain') /\ CalendarsOK(chain', record'.calendarId)
      /\ Grows(chain, chain') /\ Follows(record.calendarId, record'.calendarId)
  BY ChainStays, SameCalendar
<1>2. ChainOK(chain) /\ WireOK /\ RecordOK
  BY DEF IInv
<1>3. WireOK' /\ WireGrows
  BY <1>1, <1>2, WireStays
<1>4. RecordOK'
  BY <1>2, <1>3, RecordStays
<1> QED BY <1>1, <1>3, <1>4, IdleOK DEF IInv

\* A script dies on the key it starts by making.
LEMMA TearsKeyKeeps ==
    ASSUME IInv, NEW name, TearsKey(name)
    PROVE  IInv'
<1>1. /\ UNCHANGED << chain, record, wire >> /\ keys' = keys \cup {name}
      /\ script' = Idle
  BY DEF TearsKey
<1>2. /\ ChainOK(chain') /\ CalendarsOK(chain', record'.calendarId)
      /\ Grows(chain, chain') /\ Follows(record.calendarId, record'.calendarId)
  BY <1>1, ChainStays, SameCalendar
<1>3. ChainOK(chain) /\ WireOK /\ RecordOK
  BY DEF IInv
<1>4. WireOK' /\ WireGrows
  BY <1>1, <1>2, <1>3, WireStays
<1>5. RecordOK'
  BY <1>1, <1>3, <1>4, RecordStays
<1> QED BY <1>1, <1>2, <1>4, <1>5, IdleOK DEF IInv

\* A script goes on to its next place.
LEMMA MovesOn ==
    ASSUME IInv, DOMAIN script = ScriptFields, PlaceInScriptOK, NEW pc,
           pc \notin {"idle", "confirm", "record probe"},
           script' = [script EXCEPT !.pc = pc],
           Reached(script, pc, chain, record.calendarId, keys),
           UNCHANGED << chain, record, keys, wire >>
    PROVE  IInv'
<1>1. /\ ChainOK(chain') /\ CalendarsOK(chain', record'.calendarId)
      /\ Grows(chain, chain') /\ Follows(record.calendarId, record'.calendarId)
  BY ChainStays, SameCalendar
<1>2. ChainOK(chain) /\ WireOK /\ RecordOK
  BY DEF IInv
<1>3. WireOK' /\ WireGrows
  BY <1>1, <1>2, WireStays
<1>4. RecordOK'
  BY <1>2, <1>3, RecordStays
<1>5. DOMAIN script' = ScriptFields /\ script'.pc = pc /\ script'.tx = script.tx
  BY DEF ScriptFields
<1>6. Alike(script, script')
  BY DEF ScriptFields, Alike
<1>7. script'.tx \in {0} \cup DOMAIN wire'
  BY <1>5 DEF PlaceInScriptOK
<1>8. PICK s : s = script
  OBVIOUS
<1>9. Alike(s, script') /\ Reached(s, script'.pc, chain', record'.calendarId, keys')
  BY <1>5, <1>6, <1>8
<1>10. ScriptOK'
  BY <1>1, <1>5, <1>7, <1>9, ScriptArrives
<1> QED BY <1>1, <1>3, <1>4, <1>10 DEF IInv

\* A script that sends, as it will stand.
Waiting(next) == [script EXCEPT !.next = next]

\* What holds where a script stands holds where it waits.
LEMMA WaitingIs ==
    ASSUME IInv, DOMAIN script = ScriptFields, NEW next, NEW s, s = Waiting(next)
    PROVE  /\ Alike(s, script) /\ s.next = next
           /\ \A pc : Reached(script, pc, chain, record.calendarId, keys) =>
                 Reached(s, pc, chain, record.calendarId, keys)
<1>1. PICK c, q, current, names :
         c = chain /\ q = script /\ current = record.calendarId /\ names = keys
  OBVIOUS
<1>2. Alike(q, s) /\ Alike(s, q) /\ s.next = next
  BY <1>1 DEF Waiting, Alike, ScriptFields
<1>3. ChainOK(c) /\ Grows(c, c)
  BY <1>1, GrowsSame DEF IInv
<1>4. \A pc : Reached(q, pc, c, current, names) => Reached(s, pc, c, current, names)
  BY <1>2, <1>3, ReachedGrows
<1> QED BY <1>1, <1>2, <1>4

\* A script sends a transaction.
LEMMA SubmitKeeps ==
    ASSUME IInv, DOMAIN script = ScriptFields, NEW t, NEW next, Submit(t, next),
           Founded(t, chain, record.calendarId), NEW s, s = Waiting(next),
           Awaits(s, t, chain, record.calendarId, keys),
           record'.calendarId = record.calendarId, UNCHANGED << chain, keys >>
    PROVE  /\ ChainOK(chain') /\ CalendarsOK(chain', record'.calendarId)
           /\ WireOK' /\ WireGrows /\ ScriptOK'
<1>1. /\ ChainOK(chain') /\ CalendarsOK(chain', record'.calendarId)
      /\ Grows(chain, chain') /\ Follows(record.calendarId, record'.calendarId)
  BY ChainStays, SameCalendar
<1>2. ChainOK(chain) /\ WireOK /\ RecordOK
  BY DEF IInv
<1>3. PICK sent : sent = [tx |-> t, status |-> "pending", why |-> {}, code |-> 0]
  OBVIOUS
<1>4. PICK n : n = Len(wire) + 1
  OBVIOUS
<1>5. /\ wire' = Append(wire, sent)
      /\ script' = [script EXCEPT !.pc = "confirm", !.next = next, !.tx = n]
  BY <1>3, <1>4 DEF Submit
<1>6. SentOK(sent, chain', record'.calendarId)
  BY <1>3 DEF SentOK, RefusalOK
<1>7. /\ WireOK' /\ WireGrows
      /\ n \in DOMAIN wire' /\ wire'[n] = sent
  BY <1>1, <1>2, <1>4, <1>5, <1>6, WireSends
<1>8. wire'[n].tx = t /\ wire'[n].status = "pending"
  BY <1>3, <1>7
<1>9. Alike(s, script) /\ s.next = next
  BY WaitingIs
<1>10. Awaits(s, t, chain', record'.calendarId, keys')
  OBVIOUS
<1>11. ScriptOK'
  BY <1>1, <1>4, <1>5, <1>7, <1>8, <1>9, <1>10, ScriptSends
<1> QED BY <1>1, <1>7, <1>11

\* A script sends a transaction and writes nothing down yet.
LEMMA SendsOn ==
    ASSUME IInv, DOMAIN script = ScriptFields, NEW t, NEW next, Submit(t, next),
           Founded(t, chain, record.calendarId), NEW s, s = Waiting(next),
           Awaits(s, t, chain, record.calendarId, keys),
           UNCHANGED << chain, record, keys >>
    PROVE  IInv'
<1>1. /\ ChainOK(chain') /\ CalendarsOK(chain', record'.calendarId)
      /\ WireOK' /\ WireGrows /\ ScriptOK'
  BY SubmitKeeps
<1>2. RecordOK
  BY DEF IInv
<1>3. RecordOK'
  BY <1>1, <1>2, RecordStays
<1> QED BY <1>1, <1>3 DEF IInv

\* init.ts starts.
LEMMA StartInitKeeps ==
    ASSUME IInv, NEW option \in {0, OtherCalendarId}, StartInit(option)
    PROVE  IInv'
<1>1. PICK id, current : id = calendarId(option) /\ current = record.calendarId
  OBVIOUS
<1>2. record' = [record EXCEPT !.calendarId = id] /\ DOMAIN record = RecordFields
  BY <1>1 DEF StartInit, IInv, RecordOK
<1>3. /\ DOMAIN record' = RecordFields /\ record'.calendarId = id
      /\ record'.transactions = record.transactions /\ record'.probes = record.probes
      /\ record'.standinMint = record.standinMint
      /\ record'.standinMintKey = record.standinMintKey
  BY <1>2 DEF RecordFields
<1>4. current \in {0} \cup Ids
  BY <1>1 DEF IInv, RecordOK
<1>5. id \in Ids /\ Follows(current, id)
  BY <1>1, <1>4 DEF calendarId, Ids, Follows, DEFAULT_CALENDAR_ID
<1>6. IdOK(id, id)
  BY <1>5 DEF IdOK
<1>7. /\ UNCHANGED << chain, wire >> /\ keys' = keys \cup {"attestor"}
      /\ script' = [pc |-> "init registry", next |-> "", tx |-> 0, code |-> 0, id |-> id,
                    mint |-> None, key |-> "", mode |-> "", before |-> 0]
  BY <1>1 DEF StartInit, Starts
<1>8. /\ ChainOK(chain') /\ CalendarsOK(chain', record'.calendarId)
      /\ Grows(chain, chain') /\ Follows(record.calendarId, record'.calendarId)
  BY <1>1, <1>3, <1>5, <1>7, ChainStays
<1>9. ChainOK(chain) /\ WireOK /\ RecordOK
  BY DEF IInv
<1>10. WireOK' /\ WireGrows
  BY <1>7, <1>8, <1>9, WireStays
<1>11. MintOK'
  BY <1>3, <1>7, <1>9 DEF RecordOK, MintOK
<1>12. RecordOK'
  <2>1. record'.calendarId \in {0} \cup Ids
    BY <1>3, <1>5
  <2> QED BY <1>3, <1>9, <1>10, <1>11, <2>1, RecordMoves
<1>13. ScriptOK'
  <2>1. /\ DOMAIN script' = ScriptFields /\ script'.pc = "init registry"
        /\ script'.tx = 0 /\ script'.id = id
    BY <1>7 DEF ScriptFields
  <2>2. PICK s : s = script'
    OBVIOUS
  <2>3. Alike(s, script')
    BY <2>2 DEF Alike
  <2>4. Reached(s, script'.pc, chain', record'.calendarId, keys')
    BY <1>3, <1>6, <2>1, <2>2 DEF Reached
  <2> QED BY <1>8, <2>1, <2>3, <2>4, ScriptArrives
<1> QED BY <1>8, <1>10, <1>12, <1>13 DEF IInv

\* init.ts looks for the registry.
LEMMA InitRegistryKeeps ==
    ASSUME IInv, InitRegistry
    PROVE  IInv'
<1>1. script.pc = "init registry" /\ UNCHANGED << chain, record, keys >>
  BY DEF InitRegistry
<1>2. /\ DOMAIN script = ScriptFields /\ PlaceInScriptOK
      /\ Reached(script, "init registry", chain, record.calendarId, keys)
  BY <1>1, Running
<1>3. IdOK(script.id, record.calendarId)
  BY <1>2 DEF Reached
<1>4. CASE Exists(registryPda)
  <2>1. script' = [script EXCEPT !.pc = "init calendar"] /\ wire' = wire
    BY <1>4 DEF InitRegistry
  <2>2. Reached(script, "init calendar", chain, record.calendarId, keys)
    BY <1>3, <1>4 DEF Reached, Exists
  <2>3. PICK pc : pc = "init calendar"
    OBVIOUS
  <2> QED BY <1>1, <1>2, <2>1, <2>2, <2>3, MovesOn
<1>5. CASE ~Exists(registryPda)
  <2>1. Submit(InitRegistryTx, "init calendar")
    BY <1>5 DEF InitRegistry, InitRegistryTx
  <2>2. Founded(InitRegistryTx, chain, record.calendarId)
    BY DEF Founded
  <2>3. PICK s : s = Waiting("init calendar")
    OBVIOUS
  <2>4. Alike(s, script) /\ s.next = "init calendar"
    BY <1>2, <2>3, WaitingIs
  <2>5. Awaits(s, InitRegistryTx, chain, record.calendarId, keys)
    BY <1>3, <2>4 DEF Awaits, Alike
  <2> QED BY <1>1, <1>2, <2>1, <2>2, <2>3, <2>5, SendsOn
<1> QED BY <1>4, <1>5

\* init.ts looks for the calendar.
LEMMA InitCalendarKeeps ==
    ASSUME IInv, InitCalendar
    PROVE  IInv'
<1>1. script.pc = "init calendar" /\ UNCHANGED << chain, record, keys >>
  BY DEF InitCalendar
<1>2. /\ DOMAIN script = ScriptFields /\ PlaceInScriptOK
      /\ Reached(script, "init calendar", chain, record.calendarId, keys)
  BY <1>1, Running
<1>3. IdOK(script.id, record.calendarId) /\ registryPda \in DOMAIN chain
  BY <1>2 DEF Reached
<1>4. CASE Exists(calendarPda(script.id))
  <2>1. script' = [script EXCEPT !.pc = "append entries"] /\ wire' = wire
    BY <1>4 DEF InitCalendar
  <2>2. Reached(script, "append entries", chain, record.calendarId, keys)
    BY <1>4 DEF Reached, Exists
  <2>3. PICK pc : pc = "append entries"
    OBVIOUS
  <2> QED BY <1>1, <1>2, <2>1, <2>2, <2>3, MovesOn
<1>5. CASE ~Exists(calendarPda(script.id))
  <2>1. PICK t : t = InitCalendarTx(script.id)
    OBVIOUS
  <2>2. Submit(t, "append entries")
    BY <1>5, <2>1 DEF InitCalendar, InitCalendarTx
  <2>3. Founded(t, chain, record.calendarId)
    BY <1>3, <2>1 DEF Founded
  <2>4. PICK s : s = Waiting("append entries")
    OBVIOUS
  <2>5. Alike(s, script) /\ s.next = "append entries"
    BY <1>2, <2>4, WaitingIs
  <2>6. Awaits(s, t, chain, record.calendarId, keys)
    BY <1>3, <2>1, <2>5 DEF Awaits, Alike
  <2> QED BY <1>1, <1>2, <2>2, <2>3, <2>4, <2>6, SendsOn
<1> QED BY <1>4, <1>5

\* init.ts appends what is missing.
LEMMA AppendEntriesKeeps ==
    ASSUME IInv, AppendEntries
    PROVE  IInv'
<1>1. script.pc = "append entries" /\ UNCHANGED << chain, record, keys >>
  BY DEF AppendEntries
<1>2. /\ DOMAIN script = ScriptFields /\ PlaceInScriptOK
      /\ Reached(script, "append entries", chain, record.calendarId, keys)
  BY <1>1, Running
<1>3. calendarPda(script.id) \in DOMAIN chain
  BY <1>2 DEF Reached
<1>4. PICK missing : missing = Entries \ chain[calendarPda(script.id)].entries
  OBVIOUS
<1>5. CASE missing = {}
  <2>1. script' = Idle /\ wire' = wire
    BY <1>4, <1>5 DEF AppendEntries
  <2> QED BY <1>1, <2>1, Quits
<1>6. CASE missing # {}
  <2>1. PICK t : t = AppendTx(script.id, missing)
    OBVIOUS
  <2>2. Submit(t, "done")
    BY <1>4, <1>6, <2>1 DEF AppendEntries, AppendTx
  <2>3. Founded(t, chain, record.calendarId)
    BY <1>3, <2>1 DEF Founded
  <2>4. PICK s : s = Waiting("done")
    OBVIOUS
  <2>5. s.next = "done"
    BY <1>2, <2>4, WaitingIs
  <2>6. Awaits(s, t, chain, record.calendarId, keys)
    BY <2>5 DEF Awaits
  <2> QED BY <1>1, <1>2, <2>2, <2>3, <2>4, <2>6, SendsOn
<1> QED BY <1>5, <1>6

\* create-standin-mint.ts starts.
LEMMA StartMintKeeps ==
    ASSUME IInv, NEW newMint \in BOOLEAN, StartMint(newMint)
    PROVE  IInv'
<1>1. PICK name : name = standinMintKeyName(newMint)
  OBVIOUS
<1>2. /\ UNCHANGED << chain, record, wire >> /\ keys' = keys \cup {name}
      /\ script' = [pc |-> "create mint", next |-> "", tx |-> 0, code |-> 0, id |-> 0,
                    mint |-> Key(name), key |-> name, mode |-> "", before |-> 0]
  BY <1>1 DEF StartMint, Starts
<1>3. /\ ChainOK(chain') /\ CalendarsOK(chain', record'.calendarId)
      /\ Grows(chain, chain') /\ Follows(record.calendarId, record'.calendarId)
  BY <1>2, ChainStays, SameCalendar
<1>4. ChainOK(chain) /\ WireOK /\ RecordOK
  BY DEF IInv
<1>5. WireOK' /\ WireGrows
  BY <1>2, <1>3, <1>4, WireStays
<1>6. RecordOK'
  BY <1>2, <1>4, <1>5, RecordStays
<1>7. /\ DOMAIN script' = ScriptFields /\ script'.pc = "create mint" /\ script'.tx = 0
      /\ script'.mint = Key(name) /\ script'.key = name
  BY <1>2 DEF ScriptFields
<1>8. PICK s : s = script'
  OBVIOUS
<1>9. Alike(s, script')
  BY <1>8 DEF Alike
<1>10. Reached(s, script'.pc, chain', record'.calendarId, keys')
  BY <1>2, <1>7, <1>8 DEF Reached, IsKey
<1>11. ScriptOK'
  BY <1>3, <1>7, <1>9, <1>10, ScriptArrives
<1> QED BY <1>3, <1>5, <1>6, <1>11 DEF IInv

\* The mint of the script, once it is there, is what the record names.
LEMMA NameMintKeeps ==
    ASSUME RecordOK, WireGrows, script.mint \in DOMAIN chain', IsKey(script.mint),
           script.key \in keys', record' = NameMint
    PROVE  RecordOK' /\ record'.calendarId = record.calendarId
<1>1. DOMAIN record = RecordFields
  BY DEF RecordOK
<1>2. /\ DOMAIN record' = RecordFields /\ record'.calendarId = record.calendarId
      /\ record'.transactions = record.transactions /\ record'.probes = record.probes
      /\ record'.standinMint = script.mint /\ record'.standinMintKey = script.key
  BY <1>1 DEF NameMint, RecordFields
<1>3. MintOK'
  BY <1>2 DEF MintOK
<1>4. record'.calendarId \in {0} \cup Ids
  BY <1>2 DEF RecordOK
<1> QED BY <1>2, <1>3, <1>4, RecordMoves

\* create-standin-mint.ts names the mint that is there, or makes it.
LEMMA CreateMintKeeps ==
    ASSUME IInv, CreateMint
    PROVE  IInv'
<1>1. script.pc = "create mint" /\ UNCHANGED << chain, keys >>
  BY DEF CreateMint
<1>2. /\ DOMAIN script = ScriptFields /\ PlaceInScriptOK
      /\ Reached(script, "create mint", chain, record.calendarId, keys)
  BY <1>1, Running
<1>3. script.key \in keys /\ IsKey(script.mint)
  BY <1>2 DEF Reached
<1>4. ChainOK(chain) /\ WireOK /\ RecordOK
  BY DEF IInv
<1>5. CASE Exists(script.mint)
  <2>1. record' = NameMint /\ script' = Idle /\ wire' = wire
    BY <1>5 DEF CreateMint
  <2>2. WireGrows
    BY <2>1 DEF WireGrows
  <2>3. RecordOK' /\ record'.calendarId = record.calendarId
    BY <1>1, <1>3, <1>4, <1>5, <2>1, <2>2, NameMintKeeps DEF Exists
  <2>4. /\ ChainOK(chain') /\ CalendarsOK(chain', record'.calendarId)
        /\ Grows(chain, chain') /\ Follows(record.calendarId, record'.calendarId)
    BY <1>1, <2>3, ChainStays, SameCalendar
  <2>5. WireOK'
    BY <1>4, <2>1, <2>4, WireStays
  <2> QED BY <2>1, <2>3, <2>4, <2>5, IdleOK DEF IInv
<1>6. CASE ~Exists(script.mint)
  <2>1. PICK t : t = CreateMintTx(script.mint)
    OBVIOUS
  <2>2. Submit(t, "label mint") /\ record' = record
    BY <1>6, <2>1 DEF CreateMint, CreateMintTx
  <2>3. Founded(t, chain, record.calendarId)
    BY <1>3, <2>1 DEF Founded
  <2>4. PICK s : s = Waiting("label mint")
    OBVIOUS
  <2>5. Alike(s, script) /\ s.next = "label mint"
    BY <1>2, <2>4, WaitingIs
  <2>6. Awaits(s, t, chain, record.calendarId, keys)
    BY <1>3, <2>1, <2>5 DEF Awaits, Alike
  <2> QED BY <1>1, <1>2, <2>2, <2>3, <2>4, <2>6, SendsOn
<1> QED BY <1>5, <1>6

\* create-standin-mint.ts labels the mint it has made.
LEMMA LabelMintKeeps ==
    ASSUME IInv, LabelMint
    PROVE  IInv'
<1>1. script.pc = "label mint" /\ UNCHANGED << chain, record, keys >>
  BY DEF LabelMint
<1>2. /\ DOMAIN script = ScriptFields /\ PlaceInScriptOK
      /\ Reached(script, "label mint", chain, record.calendarId, keys)
  BY <1>1, Running
<1>3. PICK t : t = LabelMintTx(script.mint)
  OBVIOUS
<1>4. Submit(t, "name mint")
  BY <1>3 DEF LabelMint, LabelMintTx
<1>5. Founded(t, chain, record.calendarId)
  BY <1>3 DEF Founded
<1>6. PICK s : s = Waiting("name mint")
  OBVIOUS
<1>7. s.next = "name mint" /\ Reached(s, "label mint", chain, record.calendarId, keys)
  BY <1>2, <1>6, WaitingIs
<1>8. Awaits(s, t, chain, record.calendarId, keys)
  BY <1>7 DEF Awaits
<1> QED BY <1>1, <1>2, <1>4, <1>5, <1>6, <1>8, SendsOn

\* create-standin-mint.ts names the mint it has made.
LEMMA RecordMintKeeps ==
    ASSUME IInv, RecordMint
    PROVE  IInv'
<1>1. /\ script.pc = "name mint" /\ UNCHANGED << chain, keys, wire >>
      /\ record' = NameMint /\ script' = Idle
  BY DEF RecordMint
<1>2. Reached(script, "name mint", chain, record.calendarId, keys)
  BY <1>1, Running
<1>3. script.key \in keys' /\ IsKey(script.mint) /\ script.mint \in DOMAIN chain'
  BY <1>1, <1>2 DEF Reached
<1>4. ChainOK(chain) /\ WireOK /\ RecordOK
  BY DEF IInv
<1>5. WireGrows
  BY <1>1 DEF WireGrows
<1>6. RecordOK' /\ record'.calendarId = record.calendarId
  BY <1>1, <1>3, <1>4, <1>5, NameMintKeeps
<1>7. /\ ChainOK(chain') /\ CalendarsOK(chain', record'.calendarId)
      /\ Grows(chain, chain') /\ Follows(record.calendarId, record'.calendarId)
  BY <1>1, <1>6, ChainStays, SameCalendar
<1>8. WireOK'
  BY <1>1, <1>4, <1>7, WireStays
<1> QED BY <1>1, <1>6, <1>7, <1>8, IdleOK DEF IInv

\* register.ts starts.
LEMMA StartRegisterKeeps ==
    ASSUME IInv, NEW option \in {0, OtherCalendarId}, StartRegister(option)
    PROVE  IInv'
<1>1. /\ UNCHANGED << chain, record, keys, wire >> /\ record.standinMint # None
      /\ script' = [pc |-> "register", next |-> "", tx |-> 0, code |-> 0,
                    id |-> calendarId(option), mint |-> record.standinMint, key |-> "",
                    mode |-> "", before |-> 0]
  BY DEF StartRegister, Starts
<1>2. /\ ChainOK(chain') /\ CalendarsOK(chain', record'.calendarId)
      /\ Grows(chain, chain') /\ Follows(record.calendarId, record'.calendarId)
  BY <1>1, ChainStays, SameCalendar
<1>3. ChainOK(chain) /\ WireOK /\ RecordOK
  BY DEF IInv
<1>4. WireOK' /\ WireGrows
  BY <1>1, <1>2, <1>3, WireStays
<1>5. RecordOK'
  BY <1>1, <1>3, <1>4, RecordStays
<1>6. IsKey(record.standinMint) /\ record.standinMint \in DOMAIN chain
  BY <1>1, <1>3 DEF RecordOK, MintOK
<1>7. /\ DOMAIN script' = ScriptFields /\ script'.pc = "register" /\ script'.tx = 0
      /\ script'.mint = record.standinMint
  BY <1>1 DEF ScriptFields
<1>8. PICK s : s = script'
  OBVIOUS
<1>9. Alike(s, script')
  BY <1>8 DEF Alike
<1>10. Reached(s, script'.pc, chain', record'.calendarId, keys')
  BY <1>1, <1>6, <1>7, <1>8 DEF Reached
<1>11. ScriptOK'
  BY <1>2, <1>7, <1>9, <1>10, ScriptArrives
<1> QED BY <1>2, <1>4, <1>5, <1>11 DEF IInv

\* register.ts writes the security down, and sends what makes it.
LEMMA RegisterKeeps ==
    ASSUME IInv, Register
    PROVE  IInv'
<1>1. /\ script.pc = "register" /\ UNCHANGED << chain, keys >>
      /\ record' = [record EXCEPT !.security = securityPda(script.mint), !.binding = TRUE]
  BY DEF Register
<1>2. calendarPda(script.id) \in DOMAIN chain
  BY DEF Register, Exists
<1>3. /\ DOMAIN script = ScriptFields /\ PlaceInScriptOK
      /\ Reached(script, "register", chain, record.calendarId, keys)
  BY <1>1, Running
<1>4. script.mint \in DOMAIN chain /\ IsKey(script.mint)
  BY <1>3 DEF Reached
<1>5. ChainOK(chain) /\ WireOK /\ RecordOK
  BY DEF IInv
<1>6. /\ DOMAIN record' = RecordFields /\ record'.calendarId = record.calendarId
      /\ record'.transactions = record.transactions /\ record'.probes = record.probes
      /\ record'.standinMint = record.standinMint
      /\ record'.standinMintKey = record.standinMintKey
  BY <1>1, <1>5 DEF RecordOK, RecordFields
<1>7. ASSUME WireGrows PROVE RecordOK'
  <2>1. MintOK'
    BY <1>1, <1>5, <1>6 DEF RecordOK, MintOK
  <2>2. record'.calendarId \in {0} \cup Ids
    BY <1>5, <1>6 DEF RecordOK
  <2> QED BY <1>5, <1>6, <1>7, <2>1, <2>2, RecordMoves
<1>8. CASE Exists(securityPda(script.mint))
  <2>1. script' = Idle /\ wire' = wire
    BY <1>8 DEF Register
  <2>2. /\ ChainOK(chain') /\ CalendarsOK(chain', record'.calendarId)
        /\ Grows(chain, chain') /\ Follows(record.calendarId, record'.calendarId)
    BY <1>1, <1>6, ChainStays, SameCalendar
  <2>3. WireOK' /\ WireGrows
    BY <1>5, <2>1, <2>2, WireStays
  <2> QED BY <1>7, <2>1, <2>2, <2>3, IdleOK DEF IInv
<1>9. CASE ~Exists(securityPda(script.mint))
  <2>1. PICK t : t = RegisterTx(script.mint, script.id)
    OBVIOUS
  <2>2. Submit(t, "done")
    BY <1>9, <2>1 DEF Register, RegisterTx
  <2>3. Founded(t, chain, record.calendarId)
    BY <1>2, <1>4, <2>1 DEF Founded
  <2>4. PICK s : s = Waiting("done")
    OBVIOUS
  <2>5. s.next = "done"
    BY <1>3, <2>4, WaitingIs
  <2>6. Awaits(s, t, chain, record.calendarId, keys)
    BY <2>5 DEF Awaits
  <2>7. /\ ChainOK(chain') /\ CalendarsOK(chain', record'.calendarId)
        /\ WireOK' /\ WireGrows /\ ScriptOK'
    BY <1>1, <1>3, <1>6, <2>2, <2>3, <2>4, <2>6, SubmitKeeps
  <2> QED BY <1>7, <2>7 DEF IInv
<1> QED BY <1>8, <1>9

\* probe.ts starts.
LEMMA StartProbeKeeps ==
    ASSUME IInv, StartProbe
    PROVE  IInv'
<1>1. /\ UNCHANGED << chain, record, keys, wire >> /\ record.standinMint # None
      /\ script' = [pc |-> "probe", next |-> "", tx |-> 0, code |-> 0,
                    id |-> calendarId(0), mint |-> record.standinMint, key |-> "",
                    mode |-> "", before |-> 0]
  BY DEF StartProbe, Starts
<1>2. /\ ChainOK(chain') /\ CalendarsOK(chain', record'.calendarId)
      /\ Grows(chain, chain') /\ Follows(record.calendarId, record'.calendarId)
  BY <1>1, ChainStays, SameCalendar
<1>3. ChainOK(chain) /\ WireOK /\ RecordOK
  BY DEF IInv
<1>4. WireOK' /\ WireGrows
  BY <1>1, <1>2, <1>3, WireStays
<1>5. RecordOK'
  BY <1>1, <1>3, <1>4, RecordStays
<1>6. IsKey(record.standinMint) /\ record.standinMint \in DOMAIN chain
  BY <1>1, <1>3 DEF RecordOK, MintOK
<1>7. /\ DOMAIN script' = ScriptFields /\ script'.pc = "probe" /\ script'.tx = 0
      /\ script'.mint = record.standinMint /\ script'.id = calendarId(0)
  BY <1>1 DEF ScriptFields
<1>8. calendarId(0) = IF record.calendarId # 0 THEN record.calendarId ELSE DEFAULT_CALENDAR_ID
  BY DEF calendarId
<1>9. PICK s : s = script'
  OBVIOUS
<1>10. Alike(s, script')
  BY <1>9 DEF Alike
<1>11. Reached(s, script'.pc, chain', record'.calendarId, keys')
  BY <1>1, <1>6, <1>7, <1>8, <1>9 DEF Reached
<1>12. ScriptOK'
  BY <1>2, <1>7, <1>10, <1>11, ScriptArrives
<1> QED BY <1>2, <1>4, <1>5, <1>12 DEF IInv

\* A calendar and a security that are there fit together, unless the calendar
\* is the other one.
LEMMA ProbeFinds ==
    ASSUME NEW c, ChainOK(c), NEW current, CalendarsOK(c, current), current \in {0} \cup Ids,
           NEW mint, IsKey(mint), mint \in DOMAIN c,
           NEW id, id = IF current # 0 THEN current ELSE DEFAULT_CALENDAR_ID,
           calendarPda(id) \in DOMAIN c, securityPda(mint) \in DOMAIN c
    PROVE  Probable(c, mint, id) /\ c[securityPda(mint)].refusals \in Nat
<1>1. SecurityAccountOK(c, securityPda(mint))
  BY Kinds
<1>2. PICK bound : bound = c[securityPda(mint)].calendar_id
  OBVIOUS
<1>3. IdOK(bound, current)
  BY <1>1, <1>2 DEF SecurityAccountOK, CalendarsOK
<1>4. id = OtherCalendarId \/ bound = id
  BY <1>3 DEF IdOK, Ids, DEFAULT_CALENDAR_ID
<1> QED BY <1>1, <1>2, <1>4 DEF Probable, SecurityAccountOK

\* probe.ts picks its flow, and counts the refusals.
LEMMA PickModeKeeps ==
    ASSUME IInv, NEW forced \in BOOLEAN, PickMode(forced)
    PROVE  IInv'
<1>1. script.pc = "probe" /\ UNCHANGED << chain, record, keys, wire >>
  BY DEF PickMode
<1>2. calendarPda(script.id) \in DOMAIN chain /\ securityPda(script.mint) \in DOMAIN chain
  BY DEF PickMode, Exists
<1>3. PICK mode, pc :
         /\ script' = [script EXCEPT !.mode = mode,
                                     !.before = chain[securityPda(script.mint)].refusals,
                                     !.pc = pc]
         /\ pc \in {"post vaa", "closed session"}
  BY DEF PickMode
<1>4. /\ DOMAIN script = ScriptFields /\ PlaceInScriptOK
      /\ Reached(script, "probe", chain, record.calendarId, keys)
  BY <1>1, Running
<1>5. PICK c, current : c = chain /\ current = record.calendarId
  OBVIOUS
<1>6. ChainOK(c) /\ CalendarsOK(c, current) /\ current \in {0} \cup Ids
  BY <1>5 DEF IInv, RecordOK
<1>7. PICK mint, id : mint = script.mint /\ id = script.id
  OBVIOUS
<1>8. /\ IsKey(mint) /\ mint \in DOMAIN c
      /\ id = IF current # 0 THEN current ELSE DEFAULT_CALENDAR_ID
      /\ calendarPda(id) \in DOMAIN c /\ securityPda(mint) \in DOMAIN c
  BY <1>2, <1>4, <1>5, <1>7 DEF Reached
<1>9. Probable(c, mint, id) /\ c[securityPda(mint)].refusals \in Nat
  BY <1>6, <1>8, ProbeFinds
<1>10. /\ ChainOK(chain') /\ CalendarsOK(chain', record'.calendarId)
       /\ Grows(chain, chain') /\ Follows(record.calendarId, record'.calendarId)
  BY <1>1, ChainStays, SameCalendar
<1>11. ChainOK(chain) /\ WireOK /\ RecordOK
  BY DEF IInv
<1>12. WireOK' /\ WireGrows
  BY <1>1, <1>10, <1>11, WireStays
<1>13. RecordOK'
  BY <1>1, <1>11, <1>12, RecordStays
<1>14. /\ DOMAIN script' = ScriptFields /\ script'.pc = pc /\ script'.tx = script.tx
       /\ script'.mint = mint /\ script'.id = id
       /\ script'.before = c[securityPda(mint)].refusals
  BY <1>3, <1>4, <1>5, <1>7 DEF ScriptFields
<1>15. script'.tx \in {0} \cup DOMAIN wire'
  BY <1>1, <1>4, <1>14 DEF PlaceInScriptOK
<1>16. PICK s : s = script'
  OBVIOUS
<1>17. Alike(s, script')
  BY <1>16 DEF Alike
<1>18. s.before \in Nat /\ Refusals(s, c) = s.before /\ Probable(c, s.mint, s.id)
  BY <1>9, <1>14, <1>16 DEF Refusals
<1>19. Reached(s, pc, c, current, keys)
  <2>1. s.before <= Refusals(s, c)
    BY <1>18
  <2> QED BY <1>3, <1>18, <2>1 DEF Reached
<1>20. Reached(s, script'.pc, chain', record'.calendarId, keys')
  BY <1>1, <1>5, <1>14, <1>19
<1>21. ScriptOK'
  BY <1>3, <1>10, <1>14, <1>15, <1>17, <1>20, ScriptArrives
<1> QED BY <1>10, <1>12, <1>13, <1>21 DEF IInv

\* probe.ts probes a closed session.
LEMMA ClosedSessionKeeps ==
    ASSUME IInv, ClosedSession
    PROVE  IInv'
<1>1. script.pc = "closed session" /\ UNCHANGED << chain, record, keys >>
  BY DEF ClosedSession
<1>2. /\ DOMAIN script = ScriptFields /\ PlaceInScriptOK
      /\ Reached(script, "closed session", chain, record.calendarId, keys)
  BY <1>1, Running
<1>3. PICK oracle : oracle = lastPriceUpdate(script.mint)
  OBVIOUS
<1>4. PICK t : t = ProbeTx(script.mint, script.id, oracle)
  OBVIOUS
<1>5. Submit(t, "record probe")
  BY <1>3, <1>4 DEF ClosedSession, ProbeTx
<1>6. Probable(chain, script.mint, script.id)
  BY <1>2 DEF Reached
<1>7. Founded(t, chain, record.calendarId)
  BY <1>4, <1>6 DEF Founded
<1>8. PICK s : s = Waiting("record probe")
  OBVIOUS
<1>9. /\ Alike(s, script) /\ s.next = "record probe"
      /\ Reached(s, "closed session", chain, record.calendarId, keys)
  BY <1>2, <1>8, WaitingIs
<1>10. Reached(s, "in session", chain, record.calendarId, keys)
  BY <1>9 DEF Reached
<1>11. t = ProbeTx(s.mint, s.id, oracle)
  BY <1>4, <1>9 DEF Alike
<1>12. Awaits(s, t, chain, record.calendarId, keys)
  BY <1>9, <1>10, <1>11 DEF Awaits
<1> QED BY <1>1, <1>2, <1>5, <1>7, <1>8, <1>12, SendsOn

\* probe.ts posts what the price update is made from.
LEMMA PostVaaKeeps ==
    ASSUME IInv, PostVaa
    PROVE  IInv'
<1>1. script.pc = "post vaa" /\ UNCHANGED << chain, record, keys >>
  BY DEF PostVaa
<1>2. /\ DOMAIN script = ScriptFields /\ PlaceInScriptOK
      /\ Reached(script, "post vaa", chain, record.calendarId, keys)
  BY <1>1, Running
<1>3. Submit(VaaTx, "in session")
  BY DEF PostVaa, VaaTx
<1>4. Founded(VaaTx, chain, record.calendarId)
  BY DEF Founded
<1>5. PICK s : s = Waiting("in session")
  OBVIOUS
<1>6. s.next = "in session" /\ Reached(s, "post vaa", chain, record.calendarId, keys)
  BY <1>2, <1>5, WaitingIs
<1>7. Awaits(s, VaaTx, chain, record.calendarId, keys)
  BY <1>6 DEF Awaits
<1> QED BY <1>1, <1>2, <1>3, <1>4, <1>5, <1>7, SendsOn

\* probe.ts syncs and probes.
LEMMA InSessionKeeps ==
    ASSUME IInv, InSession
    PROVE  IInv'
<1>1. script.pc = "in session" /\ UNCHANGED << chain, record, keys >>
  BY DEF InSession
<1>2. /\ DOMAIN script = ScriptFields /\ PlaceInScriptOK
      /\ Reached(script, "in session", chain, record.calendarId, keys)
  BY <1>1, Running
<1>3. PICK oracle : oracle = Key("price")
  OBVIOUS
<1>4. PICK t : t = SyncAndProbeTx(script.mint, script.id, oracle)
  OBVIOUS
<1>5. Submit(t, "record probe")
  BY <1>3, <1>4 DEF InSession, SyncAndProbeTx
<1>6. Probable(chain, script.mint, script.id)
  BY <1>2 DEF Reached
<1>7. Founded(t, chain, record.calendarId)
  BY <1>4, <1>6 DEF Founded
<1>8. PICK s : s = Waiting("record probe")
  OBVIOUS
<1>9. /\ Alike(s, script) /\ s.next = "record probe"
      /\ Reached(s, "in session", chain, record.calendarId, keys)
  BY <1>2, <1>8, WaitingIs
<1>10. t = SyncAndProbeTx(s.mint, s.id, oracle)
  BY <1>4, <1>9 DEF Alike
<1>11. Awaits(s, t, chain, record.calendarId, keys)
  BY <1>9, <1>10 DEF Awaits
<1> QED BY <1>1, <1>2, <1>5, <1>7, <1>8, <1>11, SendsOn

\* probe.ts writes the probe down: the counter has moved since it was read.
LEMMA RecordProbeKeeps ==
    ASSUME IInv, RecordProbe
    PROVE  IInv'
<1>1. /\ script.pc = "record probe" /\ UNCHANGED << chain, keys, wire >>
      /\ record' = [record EXCEPT !.probes = @ \cup {ProbeRecord}] /\ script' = Idle
  BY DEF RecordProbe
<1>2. /\ DOMAIN script = ScriptFields /\ PlaceInScriptOK
      /\ Reached(script, "record probe", chain, record.calendarId, keys)
  BY <1>1, Running
<1>3. ChainOK(chain) /\ WireOK /\ RecordOK
  BY DEF IInv
<1>4. /\ DOMAIN record' = RecordFields /\ record'.calendarId = record.calendarId
      /\ record'.transactions = record.transactions
      /\ record'.probes = record.probes \cup {ProbeRecord}
      /\ record'.standinMint = record.standinMint
      /\ record'.standinMintKey = record.standinMintKey
  BY <1>1, <1>3 DEF RecordOK, RecordFields
<1>5. PICK p : p = ProbeRecord
  OBVIOUS
<1>6. /\ p.tx = script.tx /\ p.code = script.code /\ p.refusalsBefore = script.before
      /\ p.refusalsAfter = Refusals(script, chain)
  BY <1>5 DEF ProbeRecord, Refusals
<1>7. script.tx \in record.transactions /\ script.code \in {0, wire[script.tx].code}
  BY <1>1, <1>2 DEF PlaceInScriptOK
<1>8. p.refusalsAfter > p.refusalsBefore
  <2>1. /\ Probable(chain, script.mint, script.id) /\ script.before \in Nat
        /\ script.before < Refusals(script, chain)
    BY <1>2 DEF Reached
  <2>2. PICK c, s : c = chain /\ s = script
    OBVIOUS
  <2>3. Refusals(s, c) \in Nat
    BY <1>3, <2>1, <2>2, GrowsSame, RefusalsGrow
  <2>4. PICK x, y : x = Refusals(s, c) /\ y = s.before
    OBVIOUS
  <2>5. x \in Nat /\ y \in Nat /\ y < x
    BY <2>1, <2>2, <2>3, <2>4
  <2>6. x > y
    BY <2>5
  <2> QED BY <1>6, <2>2, <2>4, <2>6
<1>9. ProbeOK(p)'
  <2>1. p.tx \in record'.transactions
    BY <1>4, <1>6, <1>7
  <2>2. p.code \in {0, wire'[p.tx].code}
    BY <1>1, <1>6, <1>7
  <2> QED BY <1>8, <2>1, <2>2 DEF ProbeOK
<1>10. MintOK'
  <2>1. MintOK
    BY <1>3 DEF RecordOK
  <2>2. chain' = chain /\ keys' = keys
    BY <1>1
  <2> QED BY <1>4, <2>1, <2>2 DEF MintOK
<1>11. WireGrows
  BY <1>1 DEF WireGrows
<1>12. RecordOK'
  <2>1. record'.calendarId \in {0} \cup Ids
    BY <1>3, <1>4 DEF RecordOK
  <2>2. \A x \in record'.probes \ record.probes : x = p
    BY <1>4, <1>5
  <2>3. \A x \in record'.probes \ record.probes : ProbeOK(x)'
    BY <1>9, <2>2
  <2> QED BY <1>3, <1>4, <1>10, <1>11, <2>1, <2>3, RecordMoves
<1>13. /\ ChainOK(chain') /\ CalendarsOK(chain', record'.calendarId)
       /\ Grows(chain, chain') /\ Follows(record.calendarId, record'.calendarId)
  BY <1>1, <1>4, ChainStays, SameCalendar
<1>14. WireOK'
  BY <1>1, <1>3, <1>13, WireStays
<1> QED BY <1>1, <1>12, <1>13, <1>14, IdleOK DEF IInv

-----------------------------------------------------------------------------
(* The network and the others *)

\* Once what a script waits for has landed, the chain holds what its next
\* place needs.
LEMMA LandsWhereAwaited ==
    ASSUME ChainOK(chain), NEW current, CalendarsOK(chain, current), NEW names,
           NEW t, NEW s, Awaits(s, t, chain, current, names), Kept(t, current),
           Run(t).why = {}, NEW d, d = Run(t).chain
    PROVE  Reached(s, s.next, d, current, names)
<1>1. PICK c : c = chain
  OBVIOUS
<1>2. ChainOK(c) /\ ChainOK(d) /\ Grows(c, d) /\ Alike(s, s)
  BY <1>1 DEF Kept, Alike
<1>3. \A pc : Reached(s, pc, c, current, names) => Reached(s, pc, d, current, names)
  BY <1>2, ReachedGrows
<1>4. CASE s.next = "init calendar" /\ t = InitRegistryTx /\ IdOK(s.id, current)
  <2>1. registryPda \in DOMAIN d
    BY <1>4, InitRegistryLands
  <2> QED BY <1>4, <2>1 DEF Reached
<1>5. CASE /\ s.next = "append entries" /\ t = InitCalendarTx(s.id) /\ IdOK(s.id, current)
           /\ registryPda \in DOMAIN c
  <2>1. calendarPda(s.id) \in DOMAIN d
    BY <1>1, <1>5, InitCalendarLands
  <2> QED BY <1>5, <2>1 DEF Reached
<1>6. CASE s.next = "done"
  BY <1>6 DEF Reached
<1>7. CASE s.next = "label mint" /\ t = CreateMintTx(s.mint) /\ s.key \in names /\ IsKey(s.mint)
  <2>1. s.mint \in DOMAIN d
    BY <1>7, CreateMintLands
  <2> QED BY <1>7, <2>1 DEF Reached
<1>8. CASE s.next = "name mint" /\ Reached(s, "label mint", c, current, names)
  <2>1. Reached(s, "label mint", d, current, names)
    BY <1>3, <1>8
  <2> QED BY <1>8, <2>1 DEF Reached
<1>9. CASE s.next = "in session" /\ Reached(s, "post vaa", c, current, names)
  <2>1. Reached(s, "post vaa", d, current, names)
    BY <1>3, <1>9
  <2> QED BY <1>9, <2>1 DEF Reached
<1>10. CASE /\ s.next = "record probe" /\ Reached(s, "in session", c, current, names)
            /\ \E oracle : \/ t = ProbeTx(s.mint, s.id, oracle)
                           \/ t = SyncAndProbeTx(s.mint, s.id, oracle)
  <2>1. Probable(c, s.mint, s.id) /\ s.before \in Nat /\ s.before <= Refusals(s, c)
    BY <1>10 DEF Reached
  <2>2. PICK mint, id : mint = s.mint /\ id = s.id
    OBVIOUS
  <2>3. Probable(chain, mint, id)
    BY <1>1, <2>1, <2>2
  <2>4. chain[securityPda(mint)].refusals < d[securityPda(mint)].refusals
    BY <1>10, <2>2, <2>3, ProbeLands, SyncAndProbeLands
  <2>5. Refusals(s, c) < Refusals(s, d)
    BY <1>1, <2>2, <2>4 DEF Refusals
  <2>6. Refusals(s, c) \in Nat /\ Refusals(s, d) \in Nat /\ Probable(d, s.mint, s.id)
    BY <1>2, <2>1, RefusalsGrow, ProbableGrows
  <2>7. PICK x, y, z : x = s.before /\ y = Refusals(s, c) /\ z = Refusals(s, d)
    OBVIOUS
  <2>8. x < z
    <3>1. x \in Nat /\ y \in Nat /\ z \in Nat /\ x <= y /\ y < z
      BY <2>1, <2>5, <2>6, <2>7
    <3> QED BY <3>1
  <2> QED BY <1>10, <2>1, <2>6, <2>7, <2>8 DEF Reached
<1> QED BY <1>1, <1>4, <1>5, <1>6, <1>7, <1>8, <1>9, <1>10 DEF Awaits

\* The network runs a transaction.
LEMMA ExecutedKeeps ==
    ASSUME IInv, NEW id \in DOMAIN wire, Executed(id)
    PROVE  IInv'
<1>1. PICK t, current, sent0 :
         t = wire[id].tx /\ current = record.calendarId /\ sent0 = wire[id]
  OBVIOUS
<1>2. PICK out : out = Run(t)
  OBVIOUS
<1>3. PICK status, code :
         /\ status = IF out.why = {} THEN "landed" ELSE "failed"
         /\ wire' = [wire EXCEPT ![id].status = status, ![id].why = out.why,
                                 ![id].code = code]
  <2>1. PICK status : status = IF out.why = {} THEN "landed" ELSE "failed"
    OBVIOUS
  <2>2. PICK code : code = IF out.why = {} /\ Contains(t, "probe_security")
                           THEN Verdict(PricePosted(t)) ELSE 0
    OBVIOUS
  <2>3. wire' = [wire EXCEPT ![id].status = status, ![id].why = out.why, ![id].code = code]
    BY <1>1, <1>2, <2>1, <2>2 DEF Executed
  <2> QED BY <2>1, <2>3
<1>4. /\ chain' = out.chain /\ wire[id].status = "pending"
      /\ UNCHANGED << record, keys, script >>
  BY <1>1, <1>2 DEF Executed
<1>5. ChainOK(chain) /\ CalendarsOK(chain, current) /\ WireOK /\ RecordOK /\ ScriptOK
  BY <1>1 DEF IInv
<1>6. SentOK(sent0, chain, current) /\ sent0.tx = t
  BY <1>1, <1>5 DEF WireOK
<1>7. Kept(t, current)
  <2>1. Founded(t, chain, current)
    BY <1>6 DEF SentOK
  <2> QED BY <1>5, <2>1, RunKeeps
<1>8. /\ ChainOK(chain') /\ CalendarsOK(chain', current) /\ Grows(chain, chain')
      /\ RefusalOK(t, out.why)
  BY <1>2, <1>4, <1>7 DEF Kept
<1>9. record'.calendarId = current /\ Follows(current, current)
  BY <1>1, <1>4 DEF Follows
<1>10. PICK sent : sent = [sent0 EXCEPT !.status = status, !.why = out.why, !.code = code]
  OBVIOUS
<1>11. wire' = [wire EXCEPT ![id] = sent]
  BY <1>1, <1>3, <1>10
<1>12. /\ DOMAIN sent = {"tx", "status", "why", "code"} /\ sent.tx = t
       /\ sent.status = status /\ sent.why = out.why
  BY <1>6, <1>10 DEF SentOK
<1>13. SentOK(sent, chain', record'.calendarId)
  <2>1. PICK c, d : c = chain /\ d = chain'
    OBVIOUS
  <2>2. SentOK(sent0, d, current)
    BY <1>5, <1>6, <1>8, <1>9, <2>1, SentGrows
  <2>3. Founded(t, d, current)
    BY <1>6, <2>2 DEF SentOK
  <2> QED BY <1>8, <1>9, <1>12, <2>1, <2>3 DEF SentOK
<1>14. WireOK' /\ WireGrows
  BY <1>1, <1>4, <1>5, <1>8, <1>9, <1>11, <1>12, <1>13, WireMarks
<1>15. RecordOK'
  BY <1>4, <1>5, <1>8, <1>14, RecordStays DEF Grows
<1>16. ASSUME script.pc = "confirm", wire[script.tx].status # "landed",
              wire'[script.tx].status = "landed"
       PROVE  Reached(script, script.next, chain', record.calendarId, keys)
  <2>1. PICK s, names, d : s = script /\ names = keys /\ d = out.chain
    OBVIOUS
  <2>2. PlaceInScriptOK
    BY <1>16, Running DEF IInv
  <2>3. s.tx \in DOMAIN wire /\ Awaits(s, wire[s.tx].tx, chain, current, names)
    BY <1>1, <1>16, <2>1, <2>2 DEF PlaceInScriptOK
  <2>4. s.tx = id
    BY <1>11, <1>16, <2>1, <2>3
  <2>5. status = "landed"
    BY <1>11, <1>12, <1>16, <2>1, <2>4
  <2>6. out.why = {}
    BY <1>3, <2>5
  <2>7. Awaits(s, t, chain, current, names)
    BY <1>1, <2>3, <2>4
  <2>8. Reached(s, s.next, d, current, names)
    BY <1>2, <1>5, <1>7, <2>1, <2>6, <2>7, LandsWhereAwaited
  <2> QED BY <1>1, <1>4, <2>1, <2>8
<1>17. ScriptOK'
  <2>1. record'.calendarId = record.calendarId /\ record.transactions \subseteq record'.transactions
    BY <1>4
  <2> QED BY <1>4, <1>5, <1>8, <1>14, <1>16, <2>1, ScriptStays
<1> QED BY <1>8, <1>9, <1>14, <1>15, <1>17 DEF IInv

\* The blockhash of a transaction expires.
LEMMA ExpiredKeeps ==
    ASSUME IInv, NEW id \in DOMAIN wire, Expired(id)
    PROVE  IInv'
<1>1. /\ wire[id].status = "pending" /\ UNCHANGED << chain, record, keys, script >>
      /\ wire' = [wire EXCEPT ![id].status = "expired"]
  BY DEF Expired
<1>2. /\ ChainOK(chain') /\ CalendarsOK(chain', record'.calendarId)
      /\ Grows(chain, chain') /\ Follows(record.calendarId, record'.calendarId)
  BY <1>1, ChainStays, SameCalendar
<1>3. ChainOK(chain) /\ WireOK /\ RecordOK /\ ScriptOK
  BY DEF IInv
<1>4. PICK sent0 : sent0 = wire[id]
  OBVIOUS
<1>5. PICK sent : sent = [sent0 EXCEPT !.status = "expired"]
  OBVIOUS
<1>6. wire' = [wire EXCEPT ![id] = sent]
  BY <1>1, <1>4, <1>5
<1>7. SentOK(sent0, chain, record.calendarId)
  BY <1>3, <1>4 DEF WireOK
<1>8. /\ DOMAIN sent = {"tx", "status", "why", "code"} /\ sent.tx = sent0.tx
      /\ sent.status = "expired" /\ sent.why = sent0.why
  BY <1>5, <1>7 DEF SentOK
<1>9. SentOK(sent, chain', record'.calendarId)
  BY <1>1, <1>7, <1>8 DEF SentOK
<1>10. WireOK' /\ WireGrows
  BY <1>1, <1>2, <1>3, <1>4, <1>6, <1>8, <1>9, WireMarks
<1>11. RecordOK'
  BY <1>1, <1>3, <1>10, RecordStays
<1>12. wire[script.tx].status # "landed" => wire'[script.tx].status # "landed" \/ script.pc # "confirm"
  <2>1. ASSUME script.pc = "confirm" PROVE script.tx \in DOMAIN wire
    BY <2>1, Running DEF PlaceInScriptOK
  <2> QED BY <1>6, <1>8, <2>1
<1>13. ScriptOK'
  <2>1. record'.calendarId = record.calendarId /\ record.transactions \subseteq record'.transactions
    BY <1>1
  <2> QED BY <1>1, <1>2, <1>3, <1>10, <1>12, <2>1, ScriptStays
<1> QED BY <1>2, <1>10, <1>11, <1>13 DEF IInv

\* What others do, as the scripts see it: the chain grows, and no calendar is new.
LEMMA OthersKeep ==
    ASSUME IInv, ChainOK(chain'), Grows(chain, chain'), DOMAIN chain' = DOMAIN chain,
           UNCHANGED << record, keys, script, wire >>
    PROVE  IInv'
<1>1. ChainOK(chain) /\ CalendarsOK(chain, record.calendarId) /\ WireOK /\ RecordOK /\ ScriptOK
  BY DEF IInv
<1>2. Follows(record.calendarId, record'.calendarId)
  BY SameCalendar
<1>3. CalendarsOK(chain', record'.calendarId)
  BY <1>1 DEF CalendarsOK
<1>4. WireOK' /\ WireGrows
  BY <1>1, <1>2, WireStays
<1>5. RecordOK'
  BY <1>1, <1>4, RecordStays
<1>6. record'.calendarId = record.calendarId /\ record.transactions \subseteq record'.transactions
  OBVIOUS
<1>7. ScriptOK'
  BY <1>1, <1>4, <1>5, <1>6, ScriptStays
<1> QED BY <1>3, <1>4, <1>5, <1>7 DEF IInv

\* A confirmed transaction is written down, and the script goes on.
LEMMA ConfirmKeeps ==
    ASSUME IInv, Confirm
    PROVE  IInv'
<1>1. /\ script.pc = "confirm" /\ wire[script.tx].status = "landed"
      /\ UNCHANGED << chain, keys, wire >>
      /\ record' = [record EXCEPT !.transactions = @ \cup {script.tx}]
  BY DEF Confirm
<1>2. PICK logs :
         /\ script' = [script EXCEPT !.pc = script.next, !.code = logs]
         /\ logs \in {0} \cup (IF script.next = "record probe"
                               THEN {wire[script.tx].code} ELSE {})
  BY DEF Confirm
<1>3. DOMAIN script = ScriptFields /\ PlaceInScriptOK
  BY <1>1, Running
<1>4. /\ script.tx \in DOMAIN wire
      /\ Awaits(script, wire[script.tx].tx, chain, record.calendarId, keys)
      /\ Reached(script, script.next, chain, record.calendarId, keys)
  BY <1>1, <1>3 DEF PlaceInScriptOK
<1>5. ChainOK(chain) /\ WireOK /\ RecordOK
  BY DEF IInv
<1>6. /\ DOMAIN record' = RecordFields /\ record'.calendarId = record.calendarId
      /\ record'.transactions = record.transactions \cup {script.tx}
      /\ record'.probes = record.probes
      /\ record'.standinMint = record.standinMint
      /\ record'.standinMintKey = record.standinMintKey
  BY <1>1, <1>5 DEF RecordOK, RecordFields
<1>7. /\ ChainOK(chain') /\ CalendarsOK(chain', record'.calendarId)
      /\ Grows(chain, chain') /\ Follows(record.calendarId, record'.calendarId)
  BY <1>1, <1>6, ChainStays, SameCalendar
<1>8. WireOK' /\ WireGrows
  BY <1>1, <1>5, <1>7, WireStays
<1>9. MintOK'
  BY <1>1, <1>5, <1>6 DEF RecordOK, MintOK
<1>10. RecordOK'
  <2>1. record'.calendarId \in {0} \cup Ids
    BY <1>5, <1>6 DEF RecordOK
  <2>2. \A n \in record'.transactions \ record.transactions :
           n \in DOMAIN wire' /\ wire'[n].status = "landed"
    BY <1>1, <1>4, <1>6
  <2> QED BY <1>5, <1>6, <1>8, <1>9, <2>1, <2>2, RecordMoves
<1>11. /\ DOMAIN script' = ScriptFields /\ script'.pc = script.next
       /\ script'.tx = script.tx /\ script'.code = logs
  BY <1>2, <1>3 DEF ScriptFields
<1>12. Alike(script, script')
  BY <1>2, <1>3 DEF ScriptFields, Alike
<1>13. script.next \notin {"idle", "confirm"}
  BY <1>4 DEF Awaits
<1>14. Reached(script', script'.pc, chain', record'.calendarId, keys')
  <2>1. PICK c, s, q, pc, current, names :
           /\ c = chain /\ s = script /\ q = script' /\ pc = script.next
           /\ current = record.calendarId /\ names = keys
    OBVIOUS
  <2>2. ChainOK(c) /\ Grows(c, c) /\ Alike(s, q) /\ Reached(s, pc, c, current, names)
    BY <1>4, <1>5, <1>12, <2>1, GrowsSame
  <2>3. Reached(q, pc, c, current, names)
    BY <2>2, ReachedGrows
  <2> QED BY <1>1, <1>6, <1>11, <2>1, <2>3
<1>15. PlaceInScriptOK'
  <2>1. script'.pc # "idle" /\ script'.pc # "confirm" /\ script'.tx \in {0} \cup DOMAIN wire'
    BY <1>1, <1>4, <1>11, <1>13
  <2>2. script'.tx \in record'.transactions
    BY <1>6, <1>11
  <2>3. script'.code \in {0, wire'[script'.tx].code}
    BY <1>1, <1>2, <1>11
  <2> QED BY <1>14, <2>1, <2>2, <2>3 DEF PlaceInScriptOK
<1> QED BY <1>7, <1>8, <1>10, <1>11, <1>15 DEF IInv, ScriptOK

-----------------------------------------------------------------------------
(* The invariant and what follows from it *)

\* Nothing is deployed at first.
LEMMA InitOK ==
    ASSUME Init
    PROVE  IInv
<1>1. DOMAIN chain = {SYSTEM_PROGRAM} /\ chain[SYSTEM_PROGRAM] = [type |-> "Program"]
  BY DEF Init, :>
<1>2. ChainOK(chain)
  BY <1>1 DEF ChainOK, PlaceOK
<1>3. CalendarsOK(chain, record.calendarId)
  BY <1>1 DEF CalendarsOK, calendarPda, SYSTEM_PROGRAM
<1>4. WireOK
  <2>1. wire \in Seq({}) /\ DOMAIN wire = {}
    BY EmptySeq DEF Init
  <2> QED BY <2>1 DEF WireOK
<1>5. ScriptOK
  BY DEF Init, ScriptOK
<1>6. /\ DOMAIN record = RecordFields /\ record.calendarId = 0 /\ record.standinMint = None
      /\ record.transactions = {} /\ record.probes = {}
  BY DEF Init, EmptyRecord, RecordFields
<1>7. RecordOK
  BY <1>6 DEF RecordOK, MintOK
<1> QED BY <1>2, <1>3, <1>4, <1>5, <1>7 DEF IInv

\* Every step keeps the invariant.
LEMMA StepKeeps ==
    ASSUME IInv, [Next]_vars
    PROVE  IInv'
<1>1. CASE InitScript
  BY <1>1, StartInitKeeps, InitRegistryKeeps, InitCalendarKeeps, AppendEntriesKeeps
     DEF InitScript
<1>2. CASE MintScript
  BY <1>2, StartMintKeeps, CreateMintKeeps, LabelMintKeeps, RecordMintKeeps DEF MintScript
<1>3. CASE RegisterScript
  <2>1. CASE RegisterThrows
    BY <2>1, Quits DEF RegisterThrows
  <2> QED BY <1>3, <2>1, StartRegisterKeeps, RegisterKeeps DEF RegisterScript
<1>4. CASE ProbeScript
  <2>1. CASE ProbeThrows
    BY <2>1, Quits DEF ProbeThrows
  <2> QED BY <1>4, <2>1, StartProbeKeeps, PickModeKeeps, ClosedSessionKeeps, PostVaaKeeps,
             InSessionKeeps, RecordProbeKeeps DEF ProbeScript
<1>5. CASE Confirm
  BY <1>5, ConfirmKeeps
<1>6. CASE SendFails
  BY <1>6, Quits DEF SendFails
<1>7. CASE Done
  BY <1>7, Quits DEF Done
<1>8. CASE Network
  BY <1>8, ExecutedKeeps, ExpiredKeeps DEF Network
<1>9. CASE Dies
  BY <1>9, Quits DEF Dies
<1>14. CASE ConfirmThrows
  BY <1>14, Quits DEF ConfirmThrows
<1>15. CASE DiesWriting
  <2>1. CASE TearsRecord
    BY <2>1, Quits DEF TearsRecord
  <2>2. ASSUME NEW name, TearsKey(name) PROVE IInv'
    BY <2>2, TearsKeyKeeps
  <2> QED BY <1>15, <2>1, <2>2 DEF DiesWriting
<1>10. ASSUME UNCHANGED << chain, record, keys, script, wire >> PROVE IInv'
  <2>1. ChainOK(chain') /\ Grows(chain, chain') /\ DOMAIN chain' = DOMAIN chain
    BY <1>10, ChainStays, SameCalendar
  <2> QED BY <1>10, <2>1, OthersKeep
<1>11. CASE Bell
  BY <1>10, <1>11 DEF Bell
<1>12. CASE Call
  <2>1. ChainOK(chain') /\ Grows(chain, chain') /\ DOMAIN chain' = DOMAIN chain
    BY <1>12, CallKeeps DEF IInv
  <2>2. UNCHANGED << record, keys, script, wire >>
    BY <1>12 DEF Call
  <2> QED BY <2>1, <2>2, OthersKeep
<1>13. CASE UNCHANGED vars
  BY <1>10, <1>13 DEF vars
<1> QED BY <1>1, <1>2, <1>3, <1>4, <1>5, <1>6, <1>7, <1>8, <1>9, <1>11, <1>12, <1>13,
         <1>14, <1>15 DEF Next

\* The scripts never get ahead of the chain: whatever is running, on the wire
\* or in the record stands on accounts that are there.
THEOREM DeploymentInvariant == Spec => []IInv
<1>1. Init => IInv
  BY InitOK
<1>2. IInv /\ [Next]_vars => IInv'
  BY StepKeeps
<1> QED BY <1>1, <1>2, PTL DEF Spec

\* lib.ts, init.ts, register.ts: an account stands where its seeds put it, and
\* what it was made from is there; the record names transactions that were
\* sent and a mint that exists, whose key is in keys/.
THEOREM DeploymentTypeCorrect == Spec => []TypeOK
<1>1. ASSUME IInv PROVE TypeOK
  <2>1. ASSUME NEW a \in DOMAIN chain
        PROVE  CASE chain[a].type = "Registry" -> a = registryPda
                 [] chain[a].type = "MarketCalendar" ->
                      a = calendarPda(chain[a].id) /\ Exists(registryPda)
                 [] chain[a].type = "SecurityState" ->
                      /\ a = securityPda(chain[a].underlying_mint)
                      /\ Exists(chain[a].underlying_mint)
                      /\ Exists(calendarPda(chain[a].calendar_id))
                 [] OTHER -> chain[a].type \in {"Mint", "Program"}
    <3>1. PlaceOK(chain, a)
      BY <1>1 DEF IInv, ChainOK
    <3>2. CASE RegistryOK(chain, a)
      BY <3>2 DEF RegistryOK
    <3>3. CASE CalendarAccountOK(chain, a)
      BY <3>3 DEF CalendarAccountOK, Exists
    <3>4. CASE SecurityAccountOK(chain, a)
      BY <3>4 DEF SecurityAccountOK, Exists
    <3>5. CASE chain[a].type \in {"Mint", "Program"}
      BY <3>5
    <3> QED BY <3>1, <3>2, <3>3, <3>4, <3>5 DEF PlaceOK
  <2>2. record.transactions \subseteq TransactionIds
    BY <1>1 DEF IInv, RecordOK, TransactionIds
  <2>3. script = Idle \/ script.tx \in TransactionIds \cup {0}
    BY <1>1 DEF IInv, ScriptOK, PlaceInScriptOK, TransactionIds
  <2>4. record.standinMint # None =>
           Exists(record.standinMint) /\ record.standinMintKey \in keys
    BY <1>1 DEF IInv, RecordOK, MintOK, Exists
  <2> QED BY <2>1, <2>2, <2>3, <2>4 DEF TypeOK
<1> QED BY <1>1, DeploymentInvariant, PTL

\* Every look before a send: a transaction of the scripts is refused only
\* because another run's copy of it landed first, or because the probe was
\* pointed at a calendar the security is not bound to.
THEOREM RefusalsAreRaces == Spec => []RefusedOnlyForARace
<1>1. ASSUME IInv PROVE RefusedOnlyForARace
  <2>1. ASSUME NEW id \in TransactionIds PROVE RefusalOK(wire[id].tx, wire[id].why)
    BY <1>1, <2>1 DEF IInv, WireOK, SentOK, TransactionIds
  <2> QED BY <2>1 DEF RefusedOnlyForARace, RefusalOK
<1> QED BY <1>1, DeploymentInvariant, PTL

\* recordTx and probe.ts: every transaction in the record has landed, and a
\* probe in it carries the verdict of the transaction it names, with a refusal
\* counter that moved.
THEOREM TheRecordIsTrue == Spec => []RecordIsTrue
<1>1. ASSUME IInv PROVE RecordIsTrue
  BY <1>1 DEF IInv, RecordOK, ProbeOK, RecordIsTrue
<1> QED BY <1>1, DeploymentInvariant, PTL

-----------------------------------------------------------------------------
(* What the generated client reads *)

\* What is laid over a function leaves the function as it was.
Covered(f, g) == DOMAIN f \subseteq DOMAIN g /\ \A x \in DOMAIN f : g[x] = f[x]

\* The defaults of a builder fill in what the input leaves out.
LEMMA OverlayCovers == \A f, g : Covered(f, f @@ g)
BY DEF Covered, @@

\* The builder's roles are the fields of the program's context, in its order, and an
\* instruction has as many accounts.
Spelt(op, roles, args, k, n, sent) ==
    /\ DOMAIN roles = 1..k /\ Len(roles) = k
    /\ DOMAIN args = 1..n
    /\ \A i, j \in 1..k : roles[i].name = roles[j].name => i = j
    /\ \A i, j \in 1..n : args[i] = args[j] => i = j
    /\ \A i \in 1..k, j \in 1..n : roles[i].name # args[j]
    /\ DOMAIN P!Contexts[op] = 1..k
    /\ \A i \in 1..k : P!Contexts[op][i].name = roles[i].name
    /\ Len(sent.accounts) = k

\* Every account carries the flags of the role at its place, and there is no more to the
\* instruction than a discriminator, accounts and arguments.
Flagged(roles, args, k, n, sent) ==
    /\ sent.accounts = [i \in 1..k |-> [address |-> sent.accounts[i].address,
                                        isSigner |-> roles[i].isSigner,
                                        isWritable |-> roles[i].isWritable]]
    /\ sent.data = [j \in 1..n |-> sent.data[j]]
    /\ sent = [discriminator |-> sent.discriminator, accounts |-> sent.accounts,
               data |-> sent.data]

\* The accounts of a parsed instruction, by their names.
BoundBy(parsed) == [m \in DOMAIN parsed.accounts |-> parsed.accounts[m].address]

\* The parser finds under each name what the program binds to it, and under each
\* argument what was encoded for it.
ReadBack(op, roles, args, k, n, sent) ==
    LET input == InputsOf(Parsed(roles, args, sent))
    IN  /\ BoundBy(Parsed(roles, args, sent)) = P!Bound(op, sent)
        /\ \A i \in 1..k : /\ roles[i].name \in DOMAIN input
                           /\ input[roles[i].name] = sent.accounts[i].address
        /\ \A j \in 1..n : /\ args[j] \in DOMAIN input
                           /\ input[args[j]] = sent.data[j]

\* Two readers that go by the same order find the same.
LEMMA ReadAlike ==
    ASSUME NEW op, NEW roles, NEW args, NEW k \in Nat, NEW n \in Nat, NEW sent,
           Spelt(op, roles, args, k, n, sent)
    PROVE  ReadBack(op, roles, args, k, n, sent)
<1> DEFINE parsed == Parsed(roles, args, sent)
           names == {roles[i].name : i \in 1..k}
           fields == {args[j] : j \in 1..n}
           at(m) == CHOOSE i \in 1..k : roles[i].name = m
           of(m) == CHOOSE j \in 1..n : args[j] = m
<1>1. ~(Len(sent.accounts) < Len(roles))
  BY DEF Spelt
<1>2. NamesOf(RoleNames(roles)) = names
  BY DEF NamesOf, RoleNames, Spelt
<1>3. NamesOf(args) = fields
  BY DEF NamesOf, Spelt
<1>4. DOMAIN roles = 1..k /\ DOMAIN args = 1..n
  BY DEF Spelt
<1>5. parsed = [accounts |-> [m \in names |-> sent.accounts[at(m)]],
                data |-> [m \in fields |-> sent.data[of(m)]]]
  BY <1>1, <1>2, <1>3, <1>4 DEF Parsed
<1>6. \A i \in 1..k : at(roles[i].name) = i
  BY DEF Spelt
<1>7. \A j \in 1..n : of(args[j]) = j
  BY DEF Spelt
<1>8. P!Bound(op, sent) = [m \in names |-> sent.accounts[at(m)].address]
  <2>1. DOMAIN P!Bound(op, sent) = names
    BY DEF Spelt, P!Bound
  <2>2. P!Bound(op, sent) = [m \in DOMAIN P!Bound(op, sent) |-> P!Bound(op, sent)[m]]
    BY DEF P!Bound
  <2>3. ASSUME NEW i \in 1..k
        PROVE  P!Bound(op, sent)[roles[i].name] = sent.accounts[i].address
    <3>1. i \in DOMAIN P!Contexts[op] /\ P!Contexts[op][i].name = roles[i].name
      BY DEF Spelt
    <3>2. \A j \in DOMAIN P!Contexts[op] : P!Contexts[op][j].name = P!Contexts[op][i].name => j = i
      BY DEF Spelt
    <3> QED BY <3>1, <3>2, BoundHere
  <2>4. \A m \in names : P!Bound(op, sent)[m] = sent.accounts[at(m)].address
    <3> HIDE DEF at
    <3> QED BY <1>6, <2>3
  <2> HIDE DEF names, at
  <2> QED BY <2>1, <2>2, <2>4
<1>9. parsed.accounts = [m \in names |-> sent.accounts[at(m)]]
  BY <1>5
<1>10. parsed.data = [m \in fields |-> sent.data[of(m)]]
  BY <1>5
<1>11. names \cap fields = {}
  BY DEF Spelt
<1> HIDE DEF parsed, at, of
<1>12. DOMAIN parsed.accounts = names /\ DOMAIN parsed.data = fields
  BY <1>9, <1>10
<1>13. DOMAIN InputsOf(parsed) = names \cup fields
  <2> HIDE DEF names, fields
  <2> QED BY <1>12 DEF InputsOf, @@
<1>14. \A m \in names : InputsOf(parsed)[m] = sent.accounts[at(m)].address
  <2> HIDE DEF names, fields
  <2> QED BY <1>9, <1>12 DEF InputsOf, @@
<1>15. \A m \in fields : InputsOf(parsed)[m] = sent.data[of(m)]
  <2> HIDE DEF names, fields
  <2> QED BY <1>10, <1>11, <1>12 DEF InputsOf, @@
<1>16. BoundBy(parsed) = P!Bound(op, sent)
  <2> HIDE DEF names
  <2> QED BY <1>8, <1>9, <1>12 DEF BoundBy
<1>17. \A i \in 1..k : roles[i].name \in names
  OBVIOUS
<1>18. \A j \in 1..n : args[j] \in fields
  OBVIOUS
<1> HIDE DEF names, fields
<1>19. \A i \in 1..k : /\ roles[i].name \in DOMAIN InputsOf(parsed)
                       /\ InputsOf(parsed)[roles[i].name] = sent.accounts[i].address
  BY <1>6, <1>13, <1>14, <1>17
<1>20. \A j \in 1..n : /\ args[j] \in DOMAIN InputsOf(parsed)
                       /\ InputsOf(parsed)[args[j]] = sent.data[j]
  BY <1>7, <1>13, <1>15, <1>18
<1> QED BY <1>16, <1>19, <1>20 DEF parsed, ReadBack

\* The builder makes the instruction again from what the parser has read in it.
LEMMA BuiltAgain ==
    ASSUME NEW op, NEW roles, NEW args, NEW k \in Nat, NEW n \in Nat, NEW sent,
           Spelt(op, roles, args, k, n, sent), Flagged(roles, args, k, n, sent),
           NEW given, Covered(InputsOf(Parsed(roles, args, sent)), given)
    PROVE  Assembled(sent.discriminator, roles, args, given) = sent
<1>1. PICK input : input = InputsOf(Parsed(roles, args, sent))
  OBVIOUS
<1>2. /\ \A i \in 1..k : /\ roles[i].name \in DOMAIN input
                         /\ input[roles[i].name] = sent.accounts[i].address
      /\ \A j \in 1..n : /\ args[j] \in DOMAIN input
                         /\ input[args[j]] = sent.data[j]
  <2>1. ReadBack(op, roles, args, k, n, sent)
    BY ReadAlike
  <2> QED BY <1>1, <2>1 DEF ReadBack
<1>12. Covered(input, given)
  BY <1>1
<1>3. \A i \in 1..k : /\ roles[i].name \in DOMAIN given
                      /\ given[roles[i].name] = sent.accounts[i].address
  BY <1>2, <1>12 DEF Covered
<1>4. \A j \in 1..n : given[args[j]] = sent.data[j]
  BY <1>2, <1>12 DEF Covered
<1>5. DOMAIN roles = 1..k /\ DOMAIN args = 1..n
  BY DEF Spelt
<1>6. \A i \in 1..k : getAccountMeta(roles[i], given) =
                         [address |-> sent.accounts[i].address,
                          isSigner |-> roles[i].isSigner,
                          isWritable |-> roles[i].isWritable]
  BY <1>3 DEF getAccountMeta
<1>7. [i \in 1..k |-> getAccountMeta(roles[i], given)] = sent.accounts
  BY <1>6 DEF Flagged
<1>8. [j \in 1..n |-> given[args[j]]] = sent.data
  BY <1>4 DEF Flagged
<1>9. Assembled(sent.discriminator, roles, args, given)
        = [discriminator |-> sent.discriminator, accounts |-> sent.accounts, data |-> sent.data]
  BY <1>5, <1>7, <1>8 DEF Assembled
<1> QED BY <1>9 DEF Flagged

\* The six discriminators as the client names them.
LEMMA IdentifiedOf ==
    ASSUME NEW sent
    PROVE  /\ sent.discriminator = 131 => identifyDeliverableInstruction(sent) = "initRegistry"
           /\ sent.discriminator = 178 => identifyDeliverableInstruction(sent) = "initCalendar"
           /\ sent.discriminator = 245 =>
                 identifyDeliverableInstruction(sent) = "appendCalendarEntries"
           /\ sent.discriminator = 202 => identifyDeliverableInstruction(sent) = "registerSecurity"
           /\ sent.discriminator = 45 => identifyDeliverableInstruction(sent) = "syncSecurity"
           /\ sent.discriminator = 161 => identifyDeliverableInstruction(sent) = "probeSecurity"
<1> DEFINE matches == {n \in DOMAIN InstructionBytes : InstructionBytes[n] = sent.discriminator}
<1>1. sent.discriminator = 131 => matches = {"initRegistry"}
  BY DEF InstructionBytes
<1>2. sent.discriminator = 178 => matches = {"initCalendar"}
  BY DEF InstructionBytes
<1>3. sent.discriminator = 245 => matches = {"appendCalendarEntries"}
  BY DEF InstructionBytes
<1>4. sent.discriminator = 202 => matches = {"registerSecurity"}
  BY DEF InstructionBytes
<1>5. sent.discriminator = 45 => matches = {"syncSecurity"}
  BY DEF InstructionBytes
<1>6. sent.discriminator = 161 => matches = {"probeSecurity"}
  BY DEF InstructionBytes
<1> QED BY <1>1, <1>2, <1>3, <1>4, <1>5, <1>6 DEF identifyDeliverableInstruction

\* A meta carries the flags of a role.
Row(meta, role) ==
    meta = [address |-> meta.address, isSigner |-> role.isSigner, isWritable |-> role.isWritable]

\* A role is a role of its name.
LEMMA RolesNamed ==
    ASSUME NEW name
    PROVE  /\ WS(name).name = name /\ RS(name).name = name
           /\ W(name).name = name /\ R(name).name = name
BY DEF WS, RS, W, R, Role

\* The defaults a builder fills in, in one step or two, leave the input as it was.
LEMMA OverlaidTwice == \A f, g, h : Covered(f, (f @@ g) @@ h)
BY DEF Covered, @@

\* init.ts initRegistry: an account list and arguments that are the generated client's.
LEMMA InitRegistryRead ==
    ASSUME NEW sent, sent = initRegistryIx(wallet, Key("attestor"))
    PROVE  SameReading(sent)
<1> DEFINE roles == InitRegistryInstruction
           args == InitRegistryInstructionData
           fields == P!Contexts["initRegistry"]
           metas == sent.accounts
<1>1. DOMAIN roles = 1..3 /\ Len(roles) = 3 /\ DOMAIN args = 1..1
  BY DEF InitRegistryInstruction, InitRegistryInstructionData
<1>2. /\ roles[1] = WS("authority") /\ roles[2] = W("registry")
      /\ roles[3] = R("systemProgram")
  BY DEF InitRegistryInstruction
<1>3. /\ args[1] = "attestor"
  BY DEF InitRegistryInstructionData
<1>4. /\ metas[1] = w(wallet, TRUE) /\ metas[2] = w(registryPda, FALSE)
      /\ metas[3] = r(SYSTEM_PROGRAM, FALSE)
  BY DEF initRegistryIx, ix
<1>5. /\ Len(metas) = 3 /\ metas = [i \in 1..3 |-> metas[i]]
      /\ sent.data = [j \in 1..1 |-> sent.data[j]]
      /\ sent = [discriminator |-> sent.discriminator, accounts |-> metas, data |-> sent.data]
  BY DEF initRegistryIx, ix
<1>6. sent.discriminator = 131
  BY DEF initRegistryIx, ix, DISC
<1>7. /\ DOMAIN fields = 1..3
      /\ fields[1].name = "authority" /\ fields[2].name = "registry"
      /\ fields[3].name = "systemProgram"
  BY ContextsAre DEF P!AdminContexts, P!MutSigner, P!Signer, P!Account, P!MutAccount,
                     P!InitAccount, P!Unchecked, P!Field
<1> HIDE DEF roles, args, fields, metas
<1>8. \A i \in 1..3 : i = 1 \/ i = 2 \/ i = 3
  OBVIOUS
<1>9. /\ roles[1].name = "authority" /\ roles[2].name = "registry"
      /\ roles[3].name = "systemProgram"
  BY <1>2, RolesNamed
<1>10. \A i \in 1..3 : Row(metas[i], roles[i])
  <2>1. Row(metas[1], roles[1])
    BY <1>2, <1>4 DEF Row, w, r, WS, RS, W, R, Role
  <2>2. Row(metas[2], roles[2])
    BY <1>2, <1>4 DEF Row, w, r, WS, RS, W, R, Role
  <2>3. Row(metas[3], roles[3])
    BY <1>2, <1>4 DEF Row, w, r, WS, RS, W, R, Role
  <2> QED BY <1>8, <2>1, <2>2, <2>3
<1>11. \A i \in 1..3 : fields[i].name = roles[i].name
  BY <1>7, <1>8, <1>9
<1>12. Spelt("initRegistry", roles, args, 3, 1, sent)
  BY <1>1, <1>3, <1>5, <1>7, <1>9, <1>11 DEF Spelt, fields, metas
<1>13. Flagged(roles, args, 3, 1, sent)
  BY <1>5, <1>10 DEF Flagged, Row, metas
<1>14. identifyDeliverableInstruction(sent) = "initRegistry" /\ P!Handler(sent) = "initRegistry"
  BY <1>6, IdentifiedOf, HandlerOf
<1>15. parseDeliverableInstruction(sent) = Parsed(roles, args, sent)
  BY <1>14 DEF parseDeliverableInstruction, parseInitRegistryInstruction, roles, args
<1>16. PICK input : input = InputsOf(Parsed(roles, args, sent))
  OBVIOUS
<1>17. \E given : /\ Covered(input, given)
                  /\ deliverableProgram("initRegistry", input) = Assembled(131, roles, args, given)
  BY OverlayCovers, OverlaidTwice DEF deliverableProgram, getInitRegistryInstruction, getInitRegistryInstructionAsync, roles, args, Covered
<1>18. deliverableProgram("initRegistry", input) = sent
  BY <1>6, <1>12, <1>13, <1>16, <1>17, BuiltAgain
<1>19. BoundBy(Parsed(roles, args, sent)) = P!Bound("initRegistry", sent)
  <2>1. ReadBack("initRegistry", roles, args, 3, 1, sent)
    BY <1>12, ReadAlike
  <2> QED BY <2>1 DEF ReadBack
<1> QED BY <1>14, <1>15, <1>16, <1>18, <1>19 DEF SameReading, BoundBy

\* init.ts initCalendar: an account list and arguments that are the generated client's.
LEMMA InitCalendarRead ==
    ASSUME NEW id, NEW sent, sent = initCalendarIx(wallet, id, REGULAR_OPEN_MINUTE, REGULAR_CLOSE_MINUTE)
    PROVE  SameReading(sent)
<1> DEFINE roles == InitCalendarInstruction
           args == InitCalendarInstructionData
           fields == P!Contexts["initCalendar"]
           metas == sent.accounts
<1>1. DOMAIN roles = 1..4 /\ Len(roles) = 4 /\ DOMAIN args = 1..3
  BY DEF InitCalendarInstruction, InitCalendarInstructionData
<1>2. /\ roles[1] = WS("authority") /\ roles[2] = R("registry")
      /\ roles[3] = W("calendar") /\ roles[4] = R("systemProgram")
  BY DEF InitCalendarInstruction
<1>3. /\ args[1] = "id" /\ args[2] = "regularOpenMinute" /\ args[3] = "regularCloseMinute"
  BY DEF InitCalendarInstructionData
<1>4. /\ metas[1] = w(wallet, TRUE) /\ metas[2] = r(registryPda, FALSE)
      /\ metas[3] = w(calendarPda(id), FALSE) /\ metas[4] = r(SYSTEM_PROGRAM, FALSE)
  BY DEF initCalendarIx, ix
<1>5. /\ Len(metas) = 4 /\ metas = [i \in 1..4 |-> metas[i]]
      /\ sent.data = [j \in 1..3 |-> sent.data[j]]
      /\ sent = [discriminator |-> sent.discriminator, accounts |-> metas, data |-> sent.data]
  BY DEF initCalendarIx, ix
<1>6. sent.discriminator = 178
  BY DEF initCalendarIx, ix, DISC
<1>7. /\ DOMAIN fields = 1..4
      /\ fields[1].name = "authority" /\ fields[2].name = "registry"
      /\ fields[3].name = "calendar" /\ fields[4].name = "systemProgram"
  BY ContextsAre DEF P!AdminContexts, P!MutSigner, P!Signer, P!Account, P!MutAccount,
                     P!InitAccount, P!Unchecked, P!Field
<1> HIDE DEF roles, args, fields, metas
<1>8. \A i \in 1..4 : i = 1 \/ i = 2 \/ i = 3 \/ i = 4
  OBVIOUS
<1>9. /\ roles[1].name = "authority" /\ roles[2].name = "registry"
      /\ roles[3].name = "calendar" /\ roles[4].name = "systemProgram"
  BY <1>2, RolesNamed
<1>10. \A i \in 1..4 : Row(metas[i], roles[i])
  <2>1. Row(metas[1], roles[1])
    BY <1>2, <1>4 DEF Row, w, r, WS, RS, W, R, Role
  <2>2. Row(metas[2], roles[2])
    BY <1>2, <1>4 DEF Row, w, r, WS, RS, W, R, Role
  <2>3. Row(metas[3], roles[3])
    BY <1>2, <1>4 DEF Row, w, r, WS, RS, W, R, Role
  <2>4. Row(metas[4], roles[4])
    BY <1>2, <1>4 DEF Row, w, r, WS, RS, W, R, Role
  <2> QED BY <1>8, <2>1, <2>2, <2>3, <2>4
<1>11. \A i \in 1..4 : fields[i].name = roles[i].name
  BY <1>7, <1>8, <1>9
<1>12. Spelt("initCalendar", roles, args, 4, 3, sent)
  BY <1>1, <1>3, <1>5, <1>7, <1>9, <1>11 DEF Spelt, fields, metas
<1>13. Flagged(roles, args, 4, 3, sent)
  BY <1>5, <1>10 DEF Flagged, Row, metas
<1>14. identifyDeliverableInstruction(sent) = "initCalendar" /\ P!Handler(sent) = "initCalendar"
  BY <1>6, IdentifiedOf, HandlerOf
<1>15. parseDeliverableInstruction(sent) = Parsed(roles, args, sent)
  BY <1>14 DEF parseDeliverableInstruction, parseInitCalendarInstruction, roles, args
<1>16. PICK input : input = InputsOf(Parsed(roles, args, sent))
  OBVIOUS
<1>17. \E given : /\ Covered(input, given)
                  /\ deliverableProgram("initCalendar", input) = Assembled(178, roles, args, given)
  BY OverlayCovers, OverlaidTwice DEF deliverableProgram, getInitCalendarInstruction, getInitCalendarInstructionAsync, roles, args, Covered
<1>18. deliverableProgram("initCalendar", input) = sent
  BY <1>6, <1>12, <1>13, <1>16, <1>17, BuiltAgain
<1>19. BoundBy(Parsed(roles, args, sent)) = P!Bound("initCalendar", sent)
  <2>1. ReadBack("initCalendar", roles, args, 4, 3, sent)
    BY <1>12, ReadAlike
  <2> QED BY <2>1 DEF ReadBack
<1> QED BY <1>14, <1>15, <1>16, <1>18, <1>19 DEF SameReading, BoundBy

\* init.ts appendCalendarEntries: an account list and arguments that are the generated client's.
LEMMA AppendCalendarEntriesRead ==
    ASSUME NEW id, NEW missing, NEW sent, sent = appendCalendarEntriesIx(wallet, id, missing)
    PROVE  SameReading(sent)
<1> DEFINE roles == AppendCalendarEntriesInstruction
           args == AppendCalendarEntriesInstructionData
           fields == P!Contexts["appendCalendarEntries"]
           metas == sent.accounts
<1>1. DOMAIN roles = 1..2 /\ Len(roles) = 2 /\ DOMAIN args = 1..1
  BY DEF AppendCalendarEntriesInstruction, AppendCalendarEntriesInstructionData
<1>2. /\ roles[1] = RS("authority") /\ roles[2] = W("calendar")
  BY DEF AppendCalendarEntriesInstruction
<1>3. /\ args[1] = "entries"
  BY DEF AppendCalendarEntriesInstructionData
<1>4. /\ metas[1] = r(wallet, TRUE) /\ metas[2] = w(calendarPda(id), FALSE)
  BY DEF appendCalendarEntriesIx, ix
<1>5. /\ Len(metas) = 2 /\ metas = [i \in 1..2 |-> metas[i]]
      /\ sent.data = [j \in 1..1 |-> sent.data[j]]
      /\ sent = [discriminator |-> sent.discriminator, accounts |-> metas, data |-> sent.data]
  BY DEF appendCalendarEntriesIx, ix
<1>6. sent.discriminator = 245
  BY DEF appendCalendarEntriesIx, ix, DISC
<1>7. /\ DOMAIN fields = 1..2
      /\ fields[1].name = "authority" /\ fields[2].name = "calendar"
  BY ContextsAre DEF P!AdminContexts, P!MutSigner, P!Signer, P!Account, P!MutAccount,
                     P!InitAccount, P!Unchecked, P!Field
<1> HIDE DEF roles, args, fields, metas
<1>8. \A i \in 1..2 : i = 1 \/ i = 2
  OBVIOUS
<1>9. /\ roles[1].name = "authority" /\ roles[2].name = "calendar"
  BY <1>2, RolesNamed
<1>10. \A i \in 1..2 : Row(metas[i], roles[i])
  <2>1. Row(metas[1], roles[1])
    BY <1>2, <1>4 DEF Row, w, r, WS, RS, W, R, Role
  <2>2. Row(metas[2], roles[2])
    BY <1>2, <1>4 DEF Row, w, r, WS, RS, W, R, Role
  <2> QED BY <1>8, <2>1, <2>2
<1>11. \A i \in 1..2 : fields[i].name = roles[i].name
  BY <1>7, <1>8, <1>9
<1>12. Spelt("appendCalendarEntries", roles, args, 2, 1, sent)
  BY <1>1, <1>3, <1>5, <1>7, <1>9, <1>11 DEF Spelt, fields, metas
<1>13. Flagged(roles, args, 2, 1, sent)
  BY <1>5, <1>10 DEF Flagged, Row, metas
<1>14. identifyDeliverableInstruction(sent) = "appendCalendarEntries" /\ P!Handler(sent) = "appendCalendarEntries"
  BY <1>6, IdentifiedOf, HandlerOf
<1>15. parseDeliverableInstruction(sent) = Parsed(roles, args, sent)
  BY <1>14 DEF parseDeliverableInstruction, parseAppendCalendarEntriesInstruction, roles, args
<1>16. PICK input : input = InputsOf(Parsed(roles, args, sent))
  OBVIOUS
<1>17. \E given : /\ Covered(input, given)
                  /\ deliverableProgram("appendCalendarEntries", input) = Assembled(245, roles, args, given)
  BY OverlayCovers, OverlaidTwice DEF deliverableProgram, getAppendCalendarEntriesInstruction, roles, args, Covered
<1>18. deliverableProgram("appendCalendarEntries", input) = sent
  BY <1>6, <1>12, <1>13, <1>16, <1>17, BuiltAgain
<1>19. BoundBy(Parsed(roles, args, sent)) = P!Bound("appendCalendarEntries", sent)
  <2>1. ReadBack("appendCalendarEntries", roles, args, 2, 1, sent)
    BY <1>12, ReadAlike
  <2> QED BY <2>1 DEF ReadBack
<1> QED BY <1>14, <1>15, <1>16, <1>18, <1>19 DEF SameReading, BoundBy

\* register.ts registerSecurity: an account list and arguments that are the generated client's.
LEMMA RegisterSecurityRead ==
    ASSUME NEW mint, NEW id, NEW sent, sent = registerSecurityIx(wallet, mint, id, BINDING)
    PROVE  SameReading(sent)
<1> DEFINE roles == RegisterSecurityInstruction
           args == RegisterSecurityInstructionData
           fields == P!Contexts["registerSecurity"]
           metas == sent.accounts
<1>1. DOMAIN roles = 1..6 /\ Len(roles) = 6 /\ DOMAIN args = 1..5
  BY DEF RegisterSecurityInstruction, RegisterSecurityInstructionData
<1>2. /\ roles[1] = WS("authority") /\ roles[2] = R("registry")
      /\ roles[3] = R("underlyingMint") /\ roles[4] = R("calendar")
      /\ roles[5] = W("security") /\ roles[6] = R("systemProgram")
  BY DEF RegisterSecurityInstruction
<1>3. /\ args[1] = "symbol" /\ args[2] = "sources" /\ args[3] = "maxPriceAge"
      /\ args[4] = "maxConfBps" /\ args[5] = "maxDivergenceBps"
  BY DEF RegisterSecurityInstructionData
<1>4. /\ metas[1] = w(wallet, TRUE) /\ metas[2] = r(registryPda, FALSE)
      /\ metas[3] = r(mint, FALSE) /\ metas[4] = r(calendarPda(id), FALSE)
      /\ metas[5] = w(securityPda(mint), FALSE) /\ metas[6] = r(SYSTEM_PROGRAM, FALSE)
  BY DEF registerSecurityIx, ix
<1>5. /\ Len(metas) = 6 /\ metas = [i \in 1..6 |-> metas[i]]
      /\ sent.data = [j \in 1..5 |-> sent.data[j]]
      /\ sent = [discriminator |-> sent.discriminator, accounts |-> metas, data |-> sent.data]
  BY DEF registerSecurityIx, ix
<1>6. sent.discriminator = 202
  BY DEF registerSecurityIx, ix, DISC
<1>7. /\ DOMAIN fields = 1..6
      /\ fields[1].name = "authority" /\ fields[2].name = "registry"
      /\ fields[3].name = "underlyingMint" /\ fields[4].name = "calendar"
      /\ fields[5].name = "security" /\ fields[6].name = "systemProgram"
  BY ContextsAre DEF P!SecurityContexts, P!MutSigner, P!Signer, P!Account, P!MutAccount,
                     P!InitAccount, P!Unchecked, P!Field
<1> HIDE DEF roles, args, fields, metas
<1>8. \A i \in 1..6 : i = 1 \/ i = 2 \/ i = 3 \/ i = 4 \/ i = 5 \/ i = 6
  OBVIOUS
<1>9. /\ roles[1].name = "authority" /\ roles[2].name = "registry"
      /\ roles[3].name = "underlyingMint" /\ roles[4].name = "calendar"
      /\ roles[5].name = "security" /\ roles[6].name = "systemProgram"
  BY <1>2, RolesNamed
<1>10. \A i \in 1..6 : Row(metas[i], roles[i])
  <2>1. Row(metas[1], roles[1])
    BY <1>2, <1>4 DEF Row, w, r, WS, RS, W, R, Role
  <2>2. Row(metas[2], roles[2])
    BY <1>2, <1>4 DEF Row, w, r, WS, RS, W, R, Role
  <2>3. Row(metas[3], roles[3])
    BY <1>2, <1>4 DEF Row, w, r, WS, RS, W, R, Role
  <2>4. Row(metas[4], roles[4])
    BY <1>2, <1>4 DEF Row, w, r, WS, RS, W, R, Role
  <2>5. Row(metas[5], roles[5])
    BY <1>2, <1>4 DEF Row, w, r, WS, RS, W, R, Role
  <2>6. Row(metas[6], roles[6])
    BY <1>2, <1>4 DEF Row, w, r, WS, RS, W, R, Role
  <2> QED BY <1>8, <2>1, <2>2, <2>3, <2>4, <2>5, <2>6
<1>11. \A i \in 1..6 : fields[i].name = roles[i].name
  BY <1>7, <1>8, <1>9
<1>12. Spelt("registerSecurity", roles, args, 6, 5, sent)
  BY <1>1, <1>3, <1>5, <1>7, <1>9, <1>11 DEF Spelt, fields, metas
<1>13. Flagged(roles, args, 6, 5, sent)
  BY <1>5, <1>10 DEF Flagged, Row, metas
<1>14. identifyDeliverableInstruction(sent) = "registerSecurity" /\ P!Handler(sent) = "registerSecurity"
  BY <1>6, IdentifiedOf, HandlerOf
<1>15. parseDeliverableInstruction(sent) = Parsed(roles, args, sent)
  BY <1>14 DEF parseDeliverableInstruction, parseRegisterSecurityInstruction, roles, args
<1>16. PICK input : input = InputsOf(Parsed(roles, args, sent))
  OBVIOUS
<1>17. \E given : /\ Covered(input, given)
                  /\ deliverableProgram("registerSecurity", input) = Assembled(202, roles, args, given)
  BY OverlayCovers, OverlaidTwice DEF deliverableProgram, getRegisterSecurityInstruction, getRegisterSecurityInstructionAsync, roles, args, Covered
<1>18. deliverableProgram("registerSecurity", input) = sent
  BY <1>6, <1>12, <1>13, <1>16, <1>17, BuiltAgain
<1>19. BoundBy(Parsed(roles, args, sent)) = P!Bound("registerSecurity", sent)
  <2>1. ReadBack("registerSecurity", roles, args, 6, 5, sent)
    BY <1>12, ReadAlike
  <2> QED BY <2>1 DEF ReadBack
<1> QED BY <1>14, <1>15, <1>16, <1>18, <1>19 DEF SameReading, BoundBy

\* probe.ts syncSecurity: an account list and arguments that are the generated client's.
LEMMA SyncSecurityRead ==
    ASSUME NEW mint, NEW oracle, NEW sent, sent = syncSecurityIx(mint, oracle)
    PROVE  SameReading(sent)
<1> DEFINE roles == SyncSecurityInstruction
           args == SyncSecurityInstructionData
           fields == P!Contexts["syncSecurity"]
           metas == sent.accounts
<1>1. DOMAIN roles = 1..4 /\ Len(roles) = 4 /\ DOMAIN args = 1..0
  BY DEF SyncSecurityInstruction, SyncSecurityInstructionData
<1>2. /\ roles[1] = W("security") /\ roles[2] = R("underlyingMint")
      /\ roles[3] = R("primaryOracle") /\ roles[4] = R("secondaryOracle")
  BY DEF SyncSecurityInstruction
<1>4. /\ metas[1] = w(securityPda(mint), FALSE) /\ metas[2] = r(mint, FALSE)
      /\ metas[3] = r(oracle, FALSE) /\ metas[4] = r(oracle, FALSE)
  BY DEF syncSecurityIx, ix
<1>5. /\ Len(metas) = 4 /\ metas = [i \in 1..4 |-> metas[i]]
      /\ sent.data = [j \in 1..0 |-> sent.data[j]]
      /\ sent = [discriminator |-> sent.discriminator, accounts |-> metas, data |-> sent.data]
  BY DEF syncSecurityIx, ix
<1>6. sent.discriminator = 45
  BY DEF syncSecurityIx, ix, DISC
<1>7. /\ DOMAIN fields = 1..4
      /\ fields[1].name = "security" /\ fields[2].name = "underlyingMint"
      /\ fields[3].name = "primaryOracle" /\ fields[4].name = "secondaryOracle"
  BY ContextsAre DEF P!SecurityContexts, P!MutSigner, P!Signer, P!Account, P!MutAccount,
                     P!InitAccount, P!Unchecked, P!Field
<1> HIDE DEF roles, args, fields, metas
<1>8. \A i \in 1..4 : i = 1 \/ i = 2 \/ i = 3 \/ i = 4
  OBVIOUS
<1>9. /\ roles[1].name = "security" /\ roles[2].name = "underlyingMint"
      /\ roles[3].name = "primaryOracle" /\ roles[4].name = "secondaryOracle"
  BY <1>2, RolesNamed
<1>10. \A i \in 1..4 : Row(metas[i], roles[i])
  <2>1. Row(metas[1], roles[1])
    BY <1>2, <1>4 DEF Row, w, r, WS, RS, W, R, Role
  <2>2. Row(metas[2], roles[2])
    BY <1>2, <1>4 DEF Row, w, r, WS, RS, W, R, Role
  <2>3. Row(metas[3], roles[3])
    BY <1>2, <1>4 DEF Row, w, r, WS, RS, W, R, Role
  <2>4. Row(metas[4], roles[4])
    BY <1>2, <1>4 DEF Row, w, r, WS, RS, W, R, Role
  <2> QED BY <1>8, <2>1, <2>2, <2>3, <2>4
<1>11. \A i \in 1..4 : fields[i].name = roles[i].name
  BY <1>7, <1>8, <1>9
<1>12. Spelt("syncSecurity", roles, args, 4, 0, sent)
  BY <1>1, <1>5, <1>7, <1>9, <1>11 DEF Spelt, fields, metas
<1>13. Flagged(roles, args, 4, 0, sent)
  BY <1>5, <1>10 DEF Flagged, Row, metas
<1>14. identifyDeliverableInstruction(sent) = "syncSecurity" /\ P!Handler(sent) = "syncSecurity"
  BY <1>6, IdentifiedOf, HandlerOf
<1>15. parseDeliverableInstruction(sent) = Parsed(roles, args, sent)
  BY <1>14 DEF parseDeliverableInstruction, parseSyncSecurityInstruction, roles, args
<1>16. PICK input : input = InputsOf(Parsed(roles, args, sent))
  OBVIOUS
<1>17. \E given : /\ Covered(input, given)
                  /\ deliverableProgram("syncSecurity", input) = Assembled(45, roles, args, given)
  BY OverlayCovers, OverlaidTwice DEF deliverableProgram, getSyncSecurityInstruction, getSyncSecurityInstructionAsync, roles, args, Covered
<1>18. deliverableProgram("syncSecurity", input) = sent
  BY <1>6, <1>12, <1>13, <1>16, <1>17, BuiltAgain
<1>19. BoundBy(Parsed(roles, args, sent)) = P!Bound("syncSecurity", sent)
  <2>1. ReadBack("syncSecurity", roles, args, 4, 0, sent)
    BY <1>12, ReadAlike
  <2> QED BY <2>1 DEF ReadBack
<1> QED BY <1>14, <1>15, <1>16, <1>18, <1>19 DEF SameReading, BoundBy

\* probe.ts probeSecurity: an account list and arguments that are the generated client's.
LEMMA ProbeSecurityRead ==
    ASSUME NEW mint, NEW id, NEW oracle, NEW sent, sent = probeSecurityIx(mint, id, oracle)
    PROVE  SameReading(sent)
<1> DEFINE roles == ProbeSecurityInstruction
           args == ProbeSecurityInstructionData
           fields == P!Contexts["probeSecurity"]
           metas == sent.accounts
<1>1. DOMAIN roles = 1..5 /\ Len(roles) = 5 /\ DOMAIN args = 1..0
  BY DEF ProbeSecurityInstruction, ProbeSecurityInstructionData
<1>2. /\ roles[1] = W("security") /\ roles[2] = R("calendar")
      /\ roles[3] = R("underlyingMint") /\ roles[4] = R("primaryOracle")
      /\ roles[5] = R("secondaryOracle")
  BY DEF ProbeSecurityInstruction
<1>4. /\ metas[1] = w(securityPda(mint), FALSE) /\ metas[2] = r(calendarPda(id), FALSE)
      /\ metas[3] = r(mint, FALSE) /\ metas[4] = r(oracle, FALSE)
      /\ metas[5] = r(oracle, FALSE)
  BY DEF probeSecurityIx, ix
<1>5. /\ Len(metas) = 5 /\ metas = [i \in 1..5 |-> metas[i]]
      /\ sent.data = [j \in 1..0 |-> sent.data[j]]
      /\ sent = [discriminator |-> sent.discriminator, accounts |-> metas, data |-> sent.data]
  BY DEF probeSecurityIx, ix
<1>6. sent.discriminator = 161
  BY DEF probeSecurityIx, ix, DISC
<1>7. /\ DOMAIN fields = 1..5
      /\ fields[1].name = "security" /\ fields[2].name = "calendar"
      /\ fields[3].name = "underlyingMint" /\ fields[4].name = "primaryOracle"
      /\ fields[5].name = "secondaryOracle"
  BY ContextsAre DEF P!SecurityContexts, P!MutSigner, P!Signer, P!Account, P!MutAccount,
                     P!InitAccount, P!Unchecked, P!Field
<1> HIDE DEF roles, args, fields, metas
<1>8. \A i \in 1..5 : i = 1 \/ i = 2 \/ i = 3 \/ i = 4 \/ i = 5
  OBVIOUS
<1>9. /\ roles[1].name = "security" /\ roles[2].name = "calendar"
      /\ roles[3].name = "underlyingMint" /\ roles[4].name = "primaryOracle"
      /\ roles[5].name = "secondaryOracle"
  BY <1>2, RolesNamed
<1>10. \A i \in 1..5 : Row(metas[i], roles[i])
  <2>1. Row(metas[1], roles[1])
    BY <1>2, <1>4 DEF Row, w, r, WS, RS, W, R, Role
  <2>2. Row(metas[2], roles[2])
    BY <1>2, <1>4 DEF Row, w, r, WS, RS, W, R, Role
  <2>3. Row(metas[3], roles[3])
    BY <1>2, <1>4 DEF Row, w, r, WS, RS, W, R, Role
  <2>4. Row(metas[4], roles[4])
    BY <1>2, <1>4 DEF Row, w, r, WS, RS, W, R, Role
  <2>5. Row(metas[5], roles[5])
    BY <1>2, <1>4 DEF Row, w, r, WS, RS, W, R, Role
  <2> QED BY <1>8, <2>1, <2>2, <2>3, <2>4, <2>5
<1>11. \A i \in 1..5 : fields[i].name = roles[i].name
  BY <1>7, <1>8, <1>9
<1>12. Spelt("probeSecurity", roles, args, 5, 0, sent)
  BY <1>1, <1>5, <1>7, <1>9, <1>11 DEF Spelt, fields, metas
<1>13. Flagged(roles, args, 5, 0, sent)
  BY <1>5, <1>10 DEF Flagged, Row, metas
<1>14. identifyDeliverableInstruction(sent) = "probeSecurity" /\ P!Handler(sent) = "probeSecurity"
  BY <1>6, IdentifiedOf, HandlerOf
<1>15. parseDeliverableInstruction(sent) = Parsed(roles, args, sent)
  BY <1>14 DEF parseDeliverableInstruction, parseProbeSecurityInstruction, roles, args
<1>16. PICK input : input = InputsOf(Parsed(roles, args, sent))
  OBVIOUS
<1>17. \E given : /\ Covered(input, given)
                  /\ deliverableProgram("probeSecurity", input) = Assembled(161, roles, args, given)
  BY OverlayCovers, OverlaidTwice DEF deliverableProgram, getProbeSecurityInstruction, getProbeSecurityInstructionAsync, roles, args, Covered
<1>18. deliverableProgram("probeSecurity", input) = sent
  BY <1>6, <1>12, <1>13, <1>16, <1>17, BuiltAgain
<1>19. BoundBy(Parsed(roles, args, sent)) = P!Bound("probeSecurity", sent)
  <2>1. ReadBack("probeSecurity", roles, args, 5, 0, sent)
    BY <1>12, ReadAlike
  <2> QED BY <2>1 DEF ReadBack
<1> QED BY <1>14, <1>15, <1>16, <1>18, <1>19 DEF SameReading, BoundBy

\* lib.ts: whatever the scripts have on its way is what the generated client would have
\* built, and what it reads back is what the program binds.
THEOREM HandEncodingIsGenerated == Spec => []HandEncodedIsGenerated
<1>1. IInv => HandEncodedIsGenerated
  <2> SUFFICES ASSUME IInv, NEW id \in DOMAIN wire, NEW i \in DOMAIN wire[id].tx.ixs
               PROVE  SameReading(wire[id].tx.ixs[i])
    BY DEF HandEncodedIsGenerated, TransactionIds
  <2>1. PICK tx : tx = wire[id].tx
    OBVIOUS
  <2>2. PICK c, current : Founded(tx, c, current)
    BY <2>1 DEF IInv, WireOK, SentOK
  <2>3. i \in DOMAIN tx.ixs
    BY <2>1
  <2>4. SameReading(tx.ixs[i])
    <3>1. CASE tx = InitRegistryTx
      <4>1. tx.ixs[i] = initRegistryIx(wallet, Key("attestor"))
        BY <2>3, <3>1 DEF InitRegistryTx, ProgramTx, Transaction
      <4> QED BY <4>1, InitRegistryRead
    <3>2. CASE \E calendar : tx = InitCalendarTx(calendar)
      <4>1. PICK calendar :
               tx.ixs[i] = initCalendarIx(wallet, calendar, REGULAR_OPEN_MINUTE, REGULAR_CLOSE_MINUTE)
        BY <2>3, <3>2 DEF InitCalendarTx, ProgramTx, Transaction
      <4> QED BY <4>1, InitCalendarRead
    <3>3. CASE \E calendar, missing : tx = AppendTx(calendar, missing)
      <4>1. PICK calendar, missing : tx.ixs[i] = appendCalendarEntriesIx(wallet, calendar, missing)
        BY <2>3, <3>3 DEF AppendTx, ProgramTx, Transaction
      <4> QED BY <4>1, AppendCalendarEntriesRead
    <3>4. CASE \E mint : tx = CreateMintTx(mint) \/ tx = LabelMintTx(mint)
      BY <2>3, <3>4 DEF CreateMintTx, LabelMintTx, Transaction
    <3>5. CASE tx = VaaTx
      BY <2>3, <3>5 DEF VaaTx, Transaction
    <3>6. CASE \E mint, calendar : tx = RegisterTx(mint, calendar)
      <4>1. PICK mint, calendar : tx.ixs[i] = registerSecurityIx(wallet, mint, calendar, BINDING)
        BY <2>3, <3>6 DEF RegisterTx, ProgramTx, Transaction
      <4> QED BY <4>1, RegisterSecurityRead
    <3>7. CASE \E mint, calendar, oracle : tx = ProbeTx(mint, calendar, oracle)
      <4>1. PICK mint, calendar, oracle : tx.ixs[i] = probeSecurityIx(mint, calendar, oracle)
        BY <2>3, <3>7 DEF ProbeTx, ProgramTx, Transaction
      <4> QED BY <4>1, ProbeSecurityRead
    <3>8. CASE \E mint, calendar, oracle : tx = SyncAndProbeTx(mint, calendar, oracle)
      <4>1. PICK mint, calendar, oracle :
               \/ tx.ixs[i] = syncSecurityIx(mint, oracle)
               \/ tx.ixs[i] = probeSecurityIx(mint, calendar, oracle)
        BY <2>3, <3>8 DEF SyncAndProbeTx, ProgramTx, Transaction
      <4> QED BY <4>1, SyncSecurityRead, ProbeSecurityRead
    <3> QED BY <2>2, <3>1, <3>2, <3>3, <3>4, <3>5, <3>6, <3>7, <3>8 DEF Founded
  <2> QED BY <2>1, <2>4
<1> QED BY <1>1, DeploymentInvariant, PTL
=============================================================================
