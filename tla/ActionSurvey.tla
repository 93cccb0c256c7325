----------------------------- MODULE ActionSurvey -----------------------------
(***************************************************************************)
(* The keeper's recovery of corporate actions from chain history:          *)
(* keeper/src/action-history.ts over transactions.ts, anchored by the      *)
(* multipliers that multiplier-watch.ts reads off the mints.               *)
(*                                                                         *)
(* The chain has one block per unit of time and a block holds at most one  *)
(* transaction, so a signature, a slot and a block time are the same       *)
(* number; a multiplier is named by the transaction that set it, and 0 is  *)
(* the one a mint is created with.  The survey is a process of its own:    *)
(* blocks land between its calls.                                          *)
(***************************************************************************)
EXTENDS Integers, FiniteSets, SequencesExt

CONSTANTS
    Mints,      \* the registry
    Filters,    \* the mints a survey may be of: --symbol, or all of them
    Sinces,     \* the times --since may name
    PageSize,   \* signatures in a page of getSignaturesForAddress
    MaxPages,   \* pages a scan reads before it gives up
    SeekSlack,  \* how far off a seek may stop
    SeekAge,    \* a window this far in the past is worth seeking
    Lookback,   \* --lookback-hours
    Grace,      \* --grace-hours
    Leads,      \* bound: how far ahead the issuer schedules a change; none
                \* and less where it fires late
    MaxTime,    \* bound: length of the chain
    MaxUpdates, \* bound: changes on the chain
    MaxNoise,   \* bound: other transactions on the chain
    MaxDuring,  \* bound: blocks that land while a survey runs
    MaxRuns     \* bound: surveys

ASSUME SurveyAssumption ==
    /\ IsFiniteSet(Mints) /\ Mints # {}
    /\ {PageSize, MaxPages} \subseteq Nat \ {0}
    /\ Leads \subseteq Int
    /\ Filters \subseteq SUBSET Mints
    /\ Sinces \subseteq Nat
    /\ {SeekSlack, SeekAge, Lookback, Grace} \subseteq Nat
    /\ {MaxTime, MaxUpdates, MaxNoise, MaxDuring, MaxRuns} \subseteq Nat

VARIABLES
    chain,    \* the blocks so far
    config,   \* ScaledUiAmountConfig, by mint
    pc,       \* where the survey is
    filter,   \* the mints it is of
    snapshot, \* the watch results it started from, by mint
    tasks,    \* the windows still to scan, each with the address to scan
    cursor,   \* the signature a page starts before
    pages,    \* pages read of the current window
    found,    \* signatures kept for fetching
    file,     \* corporate-actions.json
    runs,     \* surveys started
    \* history
    anchored, \* the mints this survey searches around their last change
    began,    \* the tip when it began
    missed    \* did it stop short of what it set out to read?

chainVars == <<chain, config>>
planVars  == <<filter, snapshot, anchored, began, runs>>
scanVars  == <<tasks, cursor, pages, found, missed>>
vars == <<chainVars, pc, planVars, scanVars, file>>

-----------------------------------------------------------------------------
(* The chain (external: the issuer, Token-2022 and the RPC node).          *)

Now == Len(chain)

Quiet   == [kind |-> "empty"]
Traffic == [kind |-> "traffic"]  \* of the multiplier authority, on no mint

Updates == {t \in 1 .. Len(chain) : chain[t].kind = "update"}

Created == [multiplier |-> 0, new |-> 0, effective |-> 0]

\* effectiveMultiplier: the pending multiplier once its time has come.
EffectiveMultiplier(c, now) == IF now >= c.effective THEN c.new ELSE c.multiplier

Extend(block) ==
    /\ Len(chain) < MaxTime
    /\ pc = "idle" \/ Len(chain) < began + MaxDuring
    /\ chain' = Append(chain, block)
    /\ UNCHANGED <<pc, planVars, scanVars, file>>

\* The authority schedules a change, alone or after re-asserting the value in
\* force in the same transaction; the mint keeps the value it replaces.  Of a
\* change that is in force as it lands nothing in the source says what the
\* mint keeps.
Schedule(m, lead, pair) ==
    LET t == Len(chain) + 1
        before == EffectiveMultiplier(config[m], t)
    IN  /\ Cardinality(Updates) < MaxUpdates
        /\ t + lead >= 1
        /\ Extend([kind |-> "update", mint |-> m, pair |-> pair, before |-> before,
                   effective |-> t + lead])
        /\ \E kept \in IF lead > 0 THEN {before} ELSE {before, t} :
              config' = [config EXCEPT ![m] =
                           [multiplier |-> kept, new |-> t, effective |-> t + lead]]

\* A failed update is in the history of its addresses and changes nothing.
Noise == {Traffic} \cup [kind : {"failed"}, mint : Mints]

OtherBlock ==
    /\ \E block \in {Quiet} \cup Noise :
          /\ block \in Noise =>
                Cardinality({t \in 1 .. Len(chain) : chain[t] \in Noise}) < MaxNoise
          /\ Extend(block)
    /\ UNCHANGED config

Authority == "authority"

\* getSignaturesForAddress: the page of an address before a signature, the
\* latest first.
Touches(t, address) ==
    /\ chain[t].kind # "empty"
    /\ address = Authority \/ (chain[t].kind # "traffic" /\ chain[t].mint = address)

Haystack(address, before) ==
    {t \in 1 .. Len(chain) : t < before /\ Touches(t, address)}

Page(address, before) ==
    LET hay == Haystack(address, before)
    IN  {t \in hay : Cardinality({u \in hay : u > t}) < PageSize}

-----------------------------------------------------------------------------
(* Planning the scan.                                                      *)

\* report: the time the watch gives for a mint's last change.
LastEffectiveAt(m) == snapshot'[m].effective

\* The window of a mint, around the time its last change took effect.
Window(m) ==
    [from |-> IF LastEffectiveAt(m) > Lookback
              THEN LastEffectiveAt(m) - Lookback ELSE 0,
     to |-> LastEffectiveAt(m) + Grace]

\* Mutated merge: a window that begins inside another is dropped.
MergeWindowsFirst(windows) ==
    {w \in windows : ~\E v \in windows :
        v.from < w.from /\ w.from <= v.to}

\* mergeWindows: overlapping windows become one, from the earliest of their
\* beginnings to the latest of their ends.
MergeWindows(windows) ==
    LET Joined(v, w) == v.from <= w.to /\ w.from <= v.to
        Closed(ws) == \A v \in ws, w \in windows : Joined(v, w) => w \in ws
        \* what is reached from w through overlaps
        Component(w) ==
            {v \in windows : \A ws \in SUBSET windows :
                w \in ws /\ Closed(ws) => v \in ws}
        Hull(ws) ==
            [from |-> CHOOSE a \in {v.from : v \in ws} : \A v \in ws : a <= v.from,
             to   |-> CHOOSE b \in {v.to : v \in ws} : \A v \in ws : b >= v.to]
    IN  {Hull(Component(w)) : w \in windows}

Scan(address, windows) ==
    {[address |-> address, from |-> w.from, to |-> w.to] : w \in windows}

\* The plan by windows: each mint is scanned over its own address or over the
\* authority's, whichever a probe of one page found cheaper (any choice here),
\* and the authority's windows are merged.
AnchoredPlan(viaMint) ==
    (UNION {Scan(m, {Window(m)}) : m \in viaMint})
    \cup Scan(Authority, MergeWindows({Window(m) : m \in anchored' \ viaMint}))

\* The plan by --since: one window that reaches past the present.
SincePlan(from, viaMint) ==
    LET window == {[from |-> from, to |-> Now + 1]}
    IN  IF viaMint /\ Cardinality(filter') = 1
        THEN UNION {Scan(m, window) : m \in filter'}
        ELSE Scan(Authority, window)

Begin ==
    /\ pc = "idle"
    /\ runs < MaxRuns
    /\ runs' = runs + 1
    /\ filter' \in Filters
    /\ snapshot' = config
    /\ began' = Now
    /\ \/ /\ anchored' = {}
          /\ \E from \in Sinces, viaMint \in BOOLEAN :
                tasks' = SetToSeq(SincePlan(from, viaMint))
       \/ /\ anchored' = {m \in filter' : LastEffectiveAt(m) # 0}
          /\ anchored' # {}
          /\ \E viaMint \in SUBSET anchored' :
                tasks' = SetToSeq(AnchoredPlan(viaMint))
    /\ pc' = "seek"
    /\ cursor' = 0
    /\ pages' = 0
    /\ found' = {}
    /\ missed' = FALSE
    /\ UNCHANGED <<chainVars, file>>

-----------------------------------------------------------------------------
(* Reading the history.                                                    *)

\* seekSignatureAt ends in the first signature of some block, or in none; it
\* never seeks a target at or past the tip.
SeekResults(target) ==
    {0} \cup {t \in 1 .. Len(chain) :
                target < Len(chain) /\ chain[t].kind # "empty"}

\* It stops close to the target, unless its steps ran out first.
Close(t, target) == t <= target + SeekSlack /\ target <= t + SeekSlack

\* A window in the past is entered from a signature near its end; any other
\* is paged from the tip.
Seek ==
    /\ pc = "seek"
    /\ tasks # <<>>
    /\ \E s \in IF Head(tasks).to + SeekAge < Now
                THEN SeekResults(Head(tasks).to) ELSE {0} :
          /\ cursor' = IF s = 0 THEN Len(chain) + 1 ELSE s
          /\ missed' = (missed \/ (s # 0 /\ ~Close(s, Head(tasks).to)))
    /\ pages' = 0
    /\ pc' = "page"
    /\ UNCHANGED <<chainVars, planVars, file, tasks, found>>

Keep(t) ==
    /\ chain[t].kind # "failed"
    /\ Head(tasks).from <= t
    /\ t <= Head(tasks).to

\* The walk is over at a page whose last signature is older than the window.
PastWindow(page) == \E t \in page : t < Head(tasks).from

\* Mutated end of a window: the last one is not told from the others.
NextWindowAlways == tasks' = Tail(tasks) /\ pc' = "seek"

NextWindow ==
    /\ tasks' = Tail(tasks)
    /\ pc' = IF Len(tasks) = 1 THEN "fetch" ELSE "seek"

\* One page of scanSignaturesBackwards.
ReadPage ==
    /\ pc = "page"
    /\ LET page == Page(Head(tasks).address, cursor)
       IN  /\ found' = found \cup {t \in page : Keep(t)}
           /\ pages' = IF page = {} THEN pages ELSE pages + 1
           /\ IF \/ Cardinality(page) < PageSize
                 \/ PastWindow(page)
              THEN NextWindow /\ UNCHANGED <<cursor, missed>>
              ELSE /\ cursor' = CHOOSE t \in page : \A u \in page : t <= u
                   /\ IF pages' = MaxPages
                      THEN NextWindow /\ missed' = TRUE
                      ELSE UNCHANGED <<tasks, pc, missed>>
    /\ UNCHANGED <<chainVars, planVars, file>>

\* fetchTransactions: a transaction the node answers null for is left out. The
\* code fetches after each address; a transaction does not change meanwhile, so
\* here it is done once, after all of them.
Fetch ==
    /\ pc = "fetch"
    /\ \E served \in SUBSET found :
          /\ found' = {t \in served : chain[t].kind = "update"}
          /\ missed' = (missed \/ served # found)
    /\ pc' = "write"
    /\ UNCHANGED <<chainVars, planVars, file, tasks, cursor, pages>>

\* The process ends, and what it held with it.
Exit ==
    /\ pc' = "idle"
    /\ filter' = Mints
    /\ snapshot' = [m \in Mints |-> Created]
    /\ tasks' = <<>>
    /\ cursor' = 0
    /\ pages' = 0
    /\ found' = {}
    /\ anchored' = {}
    /\ began' = 0
    /\ missed' = FALSE
    /\ UNCHANGED <<chainVars, runs>>

\* An error of the client: nothing is written.
Abort ==
    /\ pc \in {"seek", "page", "fetch"}
    /\ Exit
    /\ UNCHANGED file

-----------------------------------------------------------------------------
(* The file.                                                               *)

Torn == {[signature |-> 0]}

\* loadExisting: a file that cannot be parsed is an empty one.
Existing == IF file = Torn THEN {} ELSE {a.signature : a \in file}

\* What is on file and what was found, by signature; --fresh forgets the file.
Merged(fresh) == (IF fresh THEN {} ELSE Existing) \cup found

Earlier(signatures, t) ==
    {u \in signatures : u < t /\ chain[u].mint = chain[t].mint}

Latest(signatures, t) ==
    ~\E u \in signatures : u > t /\ chain[u].mint = chain[t].mint

\* What a pair says of its first half: the original time of the value that
\* it re-asserts.
OriginalTime(t) ==
    IF chain[t].before = 0 THEN 0 ELSE chain[chain[t].before].effective

\* Mutated order: a change is sorted in front of the value it replaces also
\* where it takes effect the later.
InOrderReversed(t) == chain[t].effective <= OriginalTime(t)

\* recoverActions sorts a pair by effective times, and a tie stays as sent.
InOrder(t) == OriginalTime(t) <= chain[t].effective

\* The last of them is taken for the change, the one before it for the value
\* in force.
Target(t) == IF chain[t].pair /\ ~InOrder(t) THEN chain[t].before ELSE t

Carry(t) == IF InOrder(t) THEN chain[t].before ELSE t

\* resolvePreviousMultipliers: proven by the transaction, else the action
\* before it, else the mint's stored multiplier, else unknown.
Resolve(signatures, t) ==
    LET prior == Earlier(signatures, t)
        m == chain[t].mint
        Action(source, previous) ==
            [signature |-> t, new |-> Target(t), source |-> source,
             previous |-> previous]
    IN  CASE chain[t].pair -> Action("same-transaction", Carry(t))
          [] ~chain[t].pair /\ prior # {} ->
                Action("prior-action",
                       Target(CHOOSE u \in prior : \A v \in prior : v <= u))
          [] ~chain[t].pair /\ prior = {} /\ Latest(signatures, t) ->
                Action("chain-state", snapshot[m].multiplier)
          [] OTHER -> Action("unknown", 0)

Write(fresh) ==
    /\ pc = "write"
    /\ file' = {Resolve(Merged(fresh), t) : t \in Merged(fresh)}
    /\ Exit

\* The process dies in the middle of writeFileSync.
Tear ==
    /\ pc = "write"
    /\ file' = Torn
    /\ Exit

-----------------------------------------------------------------------------

Init ==
    /\ chain = <<>>
    /\ config = [m \in Mints |-> Created]
    /\ pc = "idle"
    /\ filter = Mints
    /\ snapshot = [m \in Mints |-> Created]
    /\ tasks = <<>>
    /\ cursor = 0
    /\ pages = 0
    /\ found = {}
    /\ file = {}
    /\ runs = 0
    /\ anchored = {}
    /\ began = 0
    /\ missed = FALSE

Issuer ==
    \/ OtherBlock
    \/ \E m \in Mints, lead \in Leads, pair \in BOOLEAN : Schedule(m, lead, pair)

Survey == Begin \/ Seek \/ ReadPage \/ Fetch \/ Abort \/ Tear
          \/ \E fresh \in BOOLEAN : Write(fresh)

Next == Issuer \/ Survey

Spec == Init /\ [][Next]_vars

-----------------------------------------------------------------------------
(* Properties.                                                             *)

\* The types, and that a survey keeps and files only transactions that are on
\* the chain.
TypeOK ==
    /\ Len(chain) <= MaxTime
    /\ pc \in {"idle", "seek", "page", "fetch", "write"}
    /\ (pc \in {"seek", "page"}) => tasks # <<>>
    /\ pages \in 0 .. MaxPages
    /\ found \subseteq 1 .. Len(chain)
    /\ Existing \subseteq Updates
    /\ anchored \subseteq filter

\* When a survey comes to write, it holds every change of the mints it looks
\* for that was on the chain when it began and lies in the mint's window, up
\* to the slack of a seek: whatever landed between two pages, wherever the
\* pages end, and however the windows were merged or shared between addresses.
WindowsRecovered ==
    pc = "write" /\ ~missed =>
        \A m \in anchored : \A t \in Updates :
            LET last == snapshot[m].effective
            IN  /\ chain[t].mint = m
                /\ t <= began
                /\ last <= t + Lookback
                /\ t + SeekSlack < last + Grace
                => t \in found

\* A change that is announced before it takes effect, as the issuer's are.
Ahead(t) == t < chain[t].effective

\* The change that was in force when the next one of its mint landed.
Replaced(u, t) ==
    /\ u \in Earlier(Updates, t)
    /\ Earlier(Updates, t) \cap (u + 1 .. t) = {}
    /\ chain[u].effective <= t

\* What is written of a change that was announced ahead, its new value and the
\* one it replaced, is true wherever the survey has the means to know: from a
\* pair, however its halves are sorted; from the action before it, when that
\* is on file, was announced ahead itself and had come into force; from the
\* mint, when the change was still the mint's last one.
PreviousIsTrue ==
    [][(\E fresh \in BOOLEAN : Write(fresh)) =>
        \A a \in file' :
            LET t == a.signature
            IN  /\ Ahead(t)
                /\ \/ a.source = "same-transaction"
                   \/ /\ a.source = "prior-action"
                      /\ \E u \in Existing' : Ahead(u) /\ Replaced(u, t)
                   \/ /\ a.source = "chain-state"
                      /\ snapshot[chain[t].mint].new = t
                => a.previous = chain[t].before /\ a.new = t]_vars
=============================================================================
