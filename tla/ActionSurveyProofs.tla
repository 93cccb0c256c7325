------------------------ MODULE ActionSurveyProofs -------------------------
(***************************************************************************)
(* Theorems about the keeper's survey of corporate actions, for any mints, *)
(* windows and page sizes: what it recovers, and what it writes about it.   *)
(***************************************************************************)
EXTENDS ActionSurvey, FiniteSetTheorems, SequenceTheorems, WellFoundedInduction,
        TLAPS

-----------------------------------------------------------------------------
(* Finite sets and sequences of their elements.                            *)

\* A set of naturals has a least element.
LEMMA LeastExists ==
    ASSUME NEW S \in SUBSET Nat, S # {}
    PROVE  \E a \in S : \A b \in S : a <= b
<1>1. S \subseteq Nat
    OBVIOUS
<1>2. PICK a \in S : \A b \in S : ~(<<b, a>> \in OpToRel(<, Nat))
    BY <1>1, WFMin, NatLessThanWellFounded
<1>3. \A b \in S : ~(b < a)
    BY <1>1, <1>2 DEF OpToRel
<1>4. QED
    BY <1>1, <1>3

\* A finite one has a greatest: the one with the fewest above it.
LEMMA GreatestExists ==
    ASSUME NEW S \in SUBSET Nat, IsFiniteSet(S), S # {}
    PROVE  \E a \in S : \A b \in S : a >= b
<1> DEFINE Above(x) == {y \in S : y > x}
           Sizes == {Cardinality(Above(x)) : x \in S}
<1>1. \A x \in S : IsFiniteSet(Above(x)) /\ Cardinality(Above(x)) \in Nat
    <2>1. \A x \in S : Above(x) \in SUBSET S
        OBVIOUS
    <2> HIDE DEF Above
    <2>2. QED
        BY <2>1, FS_Subset, FS_CardinalityType
<1>2. Sizes \in SUBSET Nat /\ Sizes # {}
    BY <1>1
<1>3. PICK n \in Sizes : \A i \in Sizes : n <= i
    <2> HIDE DEF Sizes
    <2>1. QED
        BY <1>2, LeastExists
<1>4. PICK a \in S : Cardinality(Above(a)) = n
    BY <1>3
<1>5. ASSUME NEW b \in S, b > a
      PROVE  FALSE
    <2>1. Above(b) \in SUBSET Above(a) /\ b \in Above(a) /\ b \notin Above(b)
        <3>1. a \in Nat /\ b \in Nat /\ \A y \in S : y \in Nat
            OBVIOUS
        <3>2. \A y \in S : y > b => y > a
            BY <3>1, <1>5
        <3>3. ~(b > b)
            BY <3>1
        <3>4. QED
            BY <3>2, <3>3, <1>5
    <2>2. Cardinality(Above(b)) \in Sizes
        OBVIOUS
    <2>3. n <= Cardinality(Above(b))
        BY <1>3, <2>2
    <2>4. IsFiniteSet(Above(a)) /\ Cardinality(Above(a)) \in Nat
          /\ Cardinality(Above(b)) \in Nat
        BY <1>1
    <2> HIDE DEF Above, Sizes
    <2>5. Cardinality(Above(b)) <= Cardinality(Above(a))
          /\ Cardinality(Above(a)) # Cardinality(Above(b))
        BY <2>1, <2>4, FS_Subset
    <2>6. QED
        BY <1>4, <2>3, <2>4, <2>5
<1>6. \A b \in S : a >= b
    <2>1. \A b \in S : a \in Nat /\ b \in Nat
        OBVIOUS
    <2>2. QED
        BY <1>5, <2>1
<1>7. QED
    BY <1>6

\* The values of a function on a finite set are finitely many.
LEMMA ValuesFinite ==
    ASSUME NEW S, IsFiniteSet(S), NEW T, NEW f \in [S -> T]
    PROVE  IsFiniteSet({f[x] : x \in S})
<1>1. f \in Surjection(S, {f[x] : x \in S})
    BY DEF Surjection
<1>2. QED
    BY <1>1, FS_Surjection

\* SetToSeq lists every element of a finite set.
LEMMA SetToSeqLists ==
    ASSUME NEW S, IsFiniteSet(S)
    PROVE  /\ SetToSeq(S) \in Seq(S)
           /\ \A x \in S : \E i \in DOMAIN SetToSeq(S) : SetToSeq(S)[i] = x
<1> DEFINE n == Cardinality(S)
           s == SetToSeq(S)
<1>1. n \in Nat /\ ExistsBijection(1 .. n, S)
    BY FS_CardinalityType
<1>2. \E f \in [1 .. n -> S] : IsInjective(f)
    BY <1>1 DEF ExistsBijection, Bijection, Injection
<1>3. s \in [1 .. n -> S] /\ IsInjective(s)
    BY <1>2 DEF SetToSeq
<1> HIDE DEF s
<1>4. s \in Injection(1 .. n, S)
    BY <1>3 DEF Injection
<1>5. Cardinality(1 .. n) = n
    <2> HIDE DEF n
    <2>1. QED
        BY <1>1, FS_Interval
<1>6. s \in Surjection(1 .. n, S)
    BY <1>4, <1>5, FS_Injection
<1>7. \A x \in S : \E i \in 1 .. n : s[i] = x
    BY <1>6 DEF Surjection
<1>8. s \in Seq(S) /\ DOMAIN s = 1 .. n
    <2> HIDE DEF n
    <2>1. QED
        BY <1>1, <1>3
<1>9. QED
    BY <1>7, <1>8 DEF s

\* The first of a sequence goes, and the rest move up.
LEMMA TailKeepsRest ==
    ASSUME NEW T, NEW s \in Seq(T), s # <<>>
    PROVE  /\ Tail(s) \in Seq(T)
           /\ Head(s) = s[1] /\ Head(s) \in T
           /\ Tail(s) = <<>> <=> Len(s) = 1
           /\ \A i \in DOMAIN s : i # 1 => /\ i - 1 \in DOMAIN Tail(s)
                                           /\ Tail(s)[i - 1] = s[i]
<1> DEFINE r == Tail(s)
           h == Head(s)
           n == Len(s)
<1>1. /\ h \in T /\ h = s[1] /\ r \in Seq(T) /\ n \in Nat /\ n > 0 /\ Len(r) = n - 1
      /\ \A i \in 1 .. n - 1 : r[i] = s[i + 1]
    BY HeadTailProperties, EmptySeq
<1>2. DOMAIN s = 1 .. n /\ DOMAIN r = 1 .. n - 1
    BY <1>1
<1>3. r = <<>> <=> n = 1
    <2>1. r = <<>> <=> Len(r) = 0
        BY <1>1, EmptySeq
    <2> HIDE DEF r, n
    <2>2. QED
        BY <1>1, <2>1
<1> HIDE DEF r, h, n
<1>4. ASSUME NEW i \in 1 .. n, i # 1
      PROVE  i - 1 \in 1 .. n - 1 /\ r[i - 1] = s[i]
    <2>1. i - 1 \in 1 .. n - 1 /\ (i - 1) + 1 = i
        BY <1>1, <1>4
    <2>2. QED
        BY <1>1, <2>1
<1>5. QED
    BY <1>1, <1>2, <1>3, <1>4 DEF r, h, n

-----------------------------------------------------------------------------
(* What the chain and a survey keep to.                                    *)

Blocks ==
    {Quiet} \cup Noise
    \cup [kind : {"update"}, mint : Mints, pair : BOOLEAN, before : Nat,
          effective : Nat]

Configs == [Mints -> [multiplier : Nat, new : Nat, effective : Nat]]

ChangesOf(m) == {t \in Updates : chain[t].mint = m}

\* A mint keeps its last change, and the multiplier that one replaced if it
\* was announced ahead.
ConfigIsLast ==
    /\ config \in Configs
    /\ \A m \in Mints :
          \/ ChangesOf(m) = {} /\ config[m] = Created
          \/ /\ config[m].new \in ChangesOf(m)
             /\ \A u \in ChangesOf(m) : u <= config[m].new
             /\ Ahead(config[m].new) =>
                   config[m].multiplier = chain[config[m].new].before
             /\ config[m].effective = chain[config[m].new].effective

\* A change replaces the one before it on its mint, if that one had come into
\* force.
HistoryIsTrue ==
    \A t \in Updates : \A u \in Earlier(Updates, t) :
        /\ Earlier(Updates, t) \cap (u + 1 .. t) = {}
        /\ chain[u].effective <= t
        => chain[t].before = u

\* The value a change replaces came into force before it landed.
InForceIsPast ==
    \A t \in Updates :
        \/ chain[t].before = 0
        \/ /\ chain[t].before \in Updates
           /\ chain[chain[t].before].effective <= t

ChainInv ==
    /\ chain \in Seq(Blocks)
    /\ Len(chain) <= MaxTime
    /\ ConfigIsLast
    /\ HistoryIsTrue
    /\ InForceIsPast

\* What a survey read off the mints is of some change that is on the chain.
SnapshotIsTrue ==
    /\ snapshot \in Configs
    /\ \A m \in Mints :
          \/ snapshot[m].new = 0
          \/ /\ snapshot[m].new \in Updates
             /\ Ahead(snapshot[m].new) =>
                   snapshot[m].multiplier = chain[snapshot[m].new].before

Tasks == [address : Mints \cup {Authority}, from : Nat, to : Nat]

\* Windows are left as long as the survey reads, and it keeps what is on the
\* chain.
PlanSound ==
    /\ pc \in {"idle", "seek", "page", "fetch", "write"}
    /\ tasks \in Seq(Tasks)
    /\ pc \in {"seek", "page"} <=> tasks # <<>>
    /\ began \in Nat /\ began <= Len(chain)
    /\ cursor \in Nat
    /\ pages \in 0 .. MaxPages
    /\ pc = "page" => pages < MaxPages
    /\ found \subseteq 1 .. Len(chain)
    /\ pc = "write" => found \subseteq Updates
    /\ anchored \subseteq filter /\ filter \subseteq Mints
    /\ Existing \subseteq Updates

\* The changes a survey looks for.
Sought ==
    {t \in Updates :
        LET m == chain[t].mint
            last == snapshot[m].effective
        IN  /\ m \in anchored
            /\ t <= began
            /\ last <= t + Lookback
            /\ t + SeekSlack < last + Grace}

\* A window in which the scan of its address would find a change.
Covers(task, t) ==
    /\ Touches(t, task.address)
    /\ task.from <= t
    /\ t + SeekSlack < task.to

\* What was not found yet lies in a window that is left, and in front of the
\* page if that window is being read.
StillInReach ==
    pc # "idle" /\ ~missed =>
        \A t \in Sought :
            \/ t \in found
            \/ \E i \in DOMAIN tasks :
                  /\ Covers(tasks[i], t)
                  /\ pc = "page" /\ i = 1 => t < cursor

SurveyInv == ChainInv /\ SnapshotIsTrue /\ PlanSound /\ StillInReach

-----------------------------------------------------------------------------
(* The constants, and how the chain grows.                                 *)

LEMMA ConstantsTyped ==
    /\ IsFiniteSet(Mints)
    /\ PageSize \in Nat /\ PageSize > 0
    /\ MaxPages \in Nat /\ MaxPages > 0
    /\ \A lead \in Leads : lead \in Int
    /\ \A mints \in Filters : mints \subseteq Mints
    /\ \A since \in Sinces : since \in Nat
    /\ SeekSlack \in Nat /\ SeekAge \in Nat /\ Lookback \in Nat /\ Grace \in Nat
    /\ MaxTime \in Nat
BY SurveyAssumption

\* What kind of block tells what is known of it.
LEMMA BlocksTyped ==
    ASSUME NEW block \in Blocks
    PROVE  /\ block.kind = "update" =>
                /\ block.mint \in Mints /\ block.pair \in BOOLEAN
                /\ block.before \in Nat /\ block.effective \in Nat
           /\ block \in {Quiet} \cup Noise => block.kind # "update"
BY DEF Blocks, Quiet, Noise, Traffic

LEMMA UpdatesTyped ==
    ASSUME chain \in Seq(Blocks)
    PROVE  /\ Len(chain) \in Nat
           /\ \A t \in 1 .. Len(chain) : chain[t] \in Blocks
           /\ \A t \in Updates :
                /\ t \in 1 .. Len(chain) /\ t \in Nat /\ chain[t].kind = "update"
                /\ chain[t].mint \in Mints /\ chain[t].pair \in BOOLEAN
                /\ chain[t].before \in Nat /\ chain[t].effective \in Nat
<1>1. Len(chain) \in Nat /\ \A t \in 1 .. Len(chain) : chain[t] \in Blocks
    OBVIOUS
<1>2. QED
    BY <1>1, BlocksTyped DEF Updates

\* A new block changes nothing of the chain before it.
LEMMA ChainGrows ==
    ASSUME chain \in Seq(Blocks), NEW block \in Blocks,
           chain' = Append(chain, block)
    PROVE  /\ chain' \in Seq(Blocks)
           /\ Len(chain') = Len(chain) + 1
           /\ \A t \in 1 .. Len(chain) : chain'[t] = chain[t]
           /\ chain'[Len(chain) + 1] = block
           /\ Updates' = Updates \cup
                {t \in {Len(chain) + 1} : block.kind = "update"}
<1>1. /\ chain' \in Seq(Blocks)
      /\ Len(chain') = Len(chain) + 1
      /\ \A t \in 1 .. Len(chain) : chain'[t] = chain[t]
      /\ chain'[Len(chain) + 1] = block
    BY AppendProperties
<1>2. Len(chain) \in Nat
    OBVIOUS
<1>3. \A t : t \in 1 .. Len(chain) + 1 <=> t \in 1 .. Len(chain) \/ t = Len(chain) + 1
    BY <1>2
<1>4. Updates' = {t \in 1 .. Len(chain) + 1 : chain'[t].kind = "update"}
    BY <1>1 DEF Updates
<1>5. \A t : t \in Updates' <=>
          \/ t \in 1 .. Len(chain) /\ chain[t].kind = "update"
          \/ t = Len(chain) + 1 /\ block.kind = "update"
    BY <1>1, <1>3, <1>4
<1>6. QED
    BY <1>1, <1>5 DEF Updates

\* Seen from what is on the chain already, its changes are as they were.
LEMMA PastStays ==
    ASSUME chain \in Seq(Blocks), NEW block \in Blocks,
           chain' = Append(chain, block)
    PROVE  /\ \A t \in Updates : \A u : u \in Earlier(Updates, t)' <=> u \in Earlier(Updates, t)
           /\ \A t \in 1 .. Len(chain) : t \in Updates' <=> t \in Updates
<1> DEFINE now == Len(chain)
<1>1. /\ now \in Nat
      /\ \A t \in 1 .. now : chain'[t] = chain[t]
      /\ Updates' = Updates \cup {t \in {now + 1} : block.kind = "update"}
      /\ \A t \in Updates : t \in 1 .. now
    BY ChainGrows, UpdatesTyped
<1> HIDE DEF now
<1>2. \A t \in 1 .. now : \A u : u \in Updates' /\ u < t => u \in Updates
    BY <1>1
<1>3. \A t \in 1 .. now : t # now + 1
    BY <1>1
<1>4. \A t \in Updates : \A u : u \in Earlier(Updates, t)' <=> u \in Earlier(Updates, t)
    BY <1>1, <1>2 DEF Earlier
<1>5. QED
    BY <1>1, <1>3, <1>4 DEF now

\* A survey is not disturbed by a block that lands.
LEMMA SurveyRides ==
    ASSUME ChainInv, SnapshotIsTrue, PlanSound, StillInReach,
           NEW block \in Blocks, Extend(block)
    PROVE  /\ chain \in Seq(Blocks) /\ chain' = Append(chain, block)
           /\ chain' \in Seq(Blocks) /\ Len(chain') <= MaxTime
           /\ SnapshotIsTrue' /\ PlanSound' /\ StillInReach'
<1>1. chain \in Seq(Blocks) /\ chain' = Append(chain, block)
    BY DEF ChainInv, Extend
<1>2. /\ chain' \in Seq(Blocks) /\ Len(chain') = Len(chain) + 1 /\ Len(chain) \in Nat
      /\ \A t \in Updates : t \in Updates' /\ t \in 1 .. Len(chain) /\ chain'[t] = chain[t]
    BY <1>1, ChainGrows, UpdatesTyped
<1>3. /\ UNCHANGED <<pc, filter, snapshot, anchored, began, runs>>
      /\ UNCHANGED <<tasks, cursor, pages, found, missed, file>>
    BY DEF Extend, planVars, scanVars
<1>4. Len(chain') <= MaxTime
    BY <1>2, ConstantsTyped DEF Extend
<1>5. SnapshotIsTrue'
    BY <1>2, <1>3 DEF SnapshotIsTrue, Configs, Ahead
<1>6. PlanSound'
    <2>1. 1 .. Len(chain) \subseteq 1 .. Len(chain')
        BY <1>2
    <2>2. Existing' = Existing
        BY <1>3 DEF Existing, Torn
    <2>3. began' \in Nat /\ began' <= Len(chain')
        BY <1>2, <1>3 DEF PlanSound
    <2>4. found' \subseteq 1 .. Len(chain') /\ (pc' = "write" => found' \subseteq Updates')
        BY <1>2, <1>3, <2>1 DEF PlanSound
    <2>5. Existing' \subseteq Updates'
        BY <1>2, <2>2 DEF PlanSound
    <2>6. QED
        BY <1>3, <2>3, <2>4, <2>5 DEF PlanSound, Tasks, Authority
<1>7. StillInReach'
    <2> SUFFICES ASSUME pc' # "idle", ~missed', NEW t \in Sought'
                 PROVE  \/ t \in found'
                        \/ (\E i \in DOMAIN tasks :
                               /\ Covers(tasks[i], t)
                               /\ pc = "page" /\ i = 1 => t < cursor)'
        BY DEF StillInReach
    <2>1. t \in Updates' /\ t <= began /\ began <= Len(chain) /\ began \in Nat
        BY <1>3 DEF Sought, PlanSound
    <2>2. t \in Nat /\ t >= 1
        BY <1>2, <2>1, UpdatesTyped DEF Updates
    <2>3. t \in 1 .. Len(chain)
        BY <1>2, <2>1, <2>2
    <2>4. t \in Updates
        BY <1>1, <2>1, <2>3, PastStays
    <2>5. chain'[t] = chain[t]
        BY <1>2, <2>4
    <2>6. t \in Sought
        BY <1>3, <2>4, <2>5 DEF Sought
    <2>7. QED
        <3>1. pc # "idle" /\ ~missed
            BY <1>3
        <3>2. CASE t \in found
            BY <1>3, <3>2
        <3>3. ASSUME NEW i \in DOMAIN tasks, Covers(tasks[i], t),
                     pc = "page" /\ i = 1 => t < cursor
              PROVE  (\E j \in DOMAIN tasks :
                        /\ Covers(tasks[j], t)
                        /\ pc = "page" /\ j = 1 => t < cursor)'
            <4>1. tasks' = tasks /\ pc' = pc /\ cursor' = cursor
                BY <1>3
            <4>2. Covers(tasks[i], t)'
                BY <2>5, <3>3, <4>1 DEF Covers, Touches
            <4>3. QED
                BY <3>3, <4>1, <4>2
        <3>4. QED
            BY <2>6, <3>1, <3>2, <3>3 DEF StillInReach
<1>8. QED
    BY <1>1, <1>2, <1>4, <1>5, <1>6, <1>7

\* Traffic and failed updates are no history of a mint.
LEMMA OtherBlockKeeps ==
    ASSUME ChainInv, SnapshotIsTrue, PlanSound, StillInReach, OtherBlock
    PROVE  ChainInv' /\ SnapshotIsTrue' /\ PlanSound' /\ StillInReach'
<1>1. PICK block \in {Quiet} \cup Noise : Extend(block)
    BY DEF OtherBlock
<1>2. block \in Blocks /\ block.kind # "update"
    <2>1. block \in Blocks
        BY DEF Blocks
    <2>2. QED
        BY <2>1, BlocksTyped
<1>3. /\ chain \in Seq(Blocks) /\ chain' = Append(chain, block)
      /\ chain' \in Seq(Blocks) /\ Len(chain') <= MaxTime
      /\ SnapshotIsTrue' /\ PlanSound' /\ StillInReach'
    BY <1>1, <1>2, SurveyRides
<1>4. Updates' = Updates /\ \A t \in Updates : chain'[t] = chain[t]
    BY <1>2, <1>3, ChainGrows, UpdatesTyped
<1>5. config' = config
    BY DEF OtherBlock
<1>6. ConfigIsLast'
    BY <1>4, <1>5 DEF ChainInv, ConfigIsLast, ChangesOf, Configs, Created, Ahead
<1>7. HistoryIsTrue'
    <2>1. \A t \in Updates : \A u : u \in Earlier(Updates, t)' <=> u \in Earlier(Updates, t)
        BY <1>2, <1>3, PastStays
    <2>2. \A t \in Updates : \A u \in Earlier(Updates, t) : u \in Updates
        BY DEF Earlier
    <2>3. QED
        BY <1>4, <2>1, <2>2 DEF ChainInv, HistoryIsTrue
<1>8. InForceIsPast'
    BY <1>4 DEF ChainInv, InForceIsPast
<1>9. QED
    BY <1>3, <1>6, <1>7, <1>8 DEF ChainInv

\* A change writes down the value it replaces, and becomes the mint's last.
LEMMA ScheduleKeeps ==
    ASSUME ChainInv, SnapshotIsTrue, PlanSound, StillInReach,
           NEW m \in Mints, NEW lead \in Leads, NEW pair \in BOOLEAN,
           Schedule(m, lead, pair)
    PROVE  ChainInv' /\ SnapshotIsTrue' /\ PlanSound' /\ StillInReach'
<1>0. PICK t : t = Len(chain) + 1
    OBVIOUS
<1> DEFINE before == EffectiveMultiplier(config[m], t)
           block == [kind |-> "update", mint |-> m, pair |-> pair, before |-> before,
                     effective |-> t + lead]
<1>k. PICK kept \in IF lead > 0 THEN {before} ELSE {before, t} :
          config' = [config EXCEPT ![m] =
                       [multiplier |-> kept, new |-> t, effective |-> t + lead]]
    BY <1>0 DEF Schedule
<1> DEFINE last == [multiplier |-> kept, new |-> t, effective |-> t + lead]
<1>1. Extend(block) /\ config' = [config EXCEPT ![m] = last] /\ t + lead >= 1
    BY <1>0, <1>k DEF Schedule
<1>2. Len(chain) \in Nat /\ t \in Nat /\ t + lead \in Nat /\ lead \in Int
    BY <1>0, <1>1, ConstantsTyped DEF ChainInv
<1>3. config \in Configs /\ config[m] \in [multiplier : Nat, new : Nat, effective : Nat]
    BY DEF ChainInv, ConfigIsLast, Configs
<1>4. config[m].multiplier \in Nat /\ config[m].new \in Nat /\ config[m].effective \in Nat
    BY <1>3
<1>5. before \in Nat /\ (t >= config[m].effective => before = config[m].new)
    BY <1>4 DEF EffectiveMultiplier
<1>b. \/ before = 0
      \/ /\ before \in Updates
         /\ chain[before].effective <= t
    <2>1. CASE t >= config[m].effective
        <3>1. before = config[m].new
            BY <1>5, <2>1
        <3>2. config[m] = Created => before = 0
            BY <3>1 DEF Created
        <3>3. ASSUME config[m].new \in ChangesOf(m),
                     config[m].effective = chain[config[m].new].effective
              PROVE  before \in Updates /\ chain[before].effective <= t
            <4>1. before \in Updates
                BY <3>1, <3>3 DEF ChangesOf
            <4>2. chain[before].effective <= t
                BY <1>2, <1>4, <2>1, <3>1, <3>3
            <4>3. QED
                BY <4>1, <4>2
        <3>4. QED
            BY <3>2, <3>3 DEF ChainInv, ConfigIsLast
    <2>2. CASE ~(t >= config[m].effective)
        <3> DEFINE w == config[m].new
        <3>1. before = config[m].multiplier
            BY <2>2 DEF EffectiveMultiplier
        <3>2. config[m] # Created
            BY <1>2, <2>2 DEF Created
        <3>3. /\ w \in ChangesOf(m) /\ config[m].effective = chain[w].effective
              /\ Ahead(w) => config[m].multiplier = chain[w].before
            BY <3>2 DEF ChainInv, ConfigIsLast
        <3>4. w \in Updates /\ w \in Nat /\ w < t
            BY <1>0, <3>3, UpdatesTyped DEF ChainInv, ChangesOf
        <3> HIDE DEF w
        <3>5. Ahead(w)
            BY <1>2, <1>4, <2>2, <3>3, <3>4 DEF Ahead
        <3>6. \/ chain[w].before = 0
              \/ /\ chain[w].before \in Updates
                 /\ chain[chain[w].before].effective <= w
            BY <3>4 DEF ChainInv, InForceIsPast
        <3>7. chain[w].before = before
            BY <3>1, <3>3, <3>5
        <3>8. before \in Updates => chain[before].effective \in Nat
            BY UpdatesTyped DEF ChainInv
        <3>9. QED
            BY <1>2, <3>4, <3>6, <3>7, <3>8
    <2>3. QED
        BY <2>1, <2>2
<1>p. kept \in Nat /\ (t < t + lead => kept = before)
    <2>1. kept = before \/ kept = t
        BY <1>k
    <2>2. lead > 0 => kept = before
        BY <1>k
    <2>3. t < t + lead => lead > 0
        BY <1>2
    <2>4. QED
        BY <1>2, <1>5, <2>1, <2>2, <2>3
<1> HIDE DEF before
<1>6. block \in Blocks
    BY <1>2, <1>4, <1>5 DEF Blocks
<1>7. block.kind = "update" /\ block.mint = m /\ block.before = before
      /\ block.effective = t + lead
    OBVIOUS
<1>8. last.multiplier = kept /\ last.new = t /\ last.effective = t + lead
    OBVIOUS
<1>9. config' \in Configs /\ config'[m] = last
      /\ \A n \in Mints : n # m => config'[n] = config[n]
    <2>1. last \in [multiplier : Nat, new : Nat, effective : Nat]
        BY <1>2, <1>p
    <2> HIDE DEF last
    <2>2. QED
        BY <1>1, <1>3, <2>1 DEF Configs
<1> HIDE DEF block, last
<1>10. /\ chain \in Seq(Blocks) /\ chain' = Append(chain, block)
       /\ chain' \in Seq(Blocks) /\ Len(chain') <= MaxTime
       /\ SnapshotIsTrue' /\ PlanSound' /\ StillInReach'
    BY <1>1, <1>6, SurveyRides
<1>11. /\ Updates' = Updates \cup {t}
       /\ chain'[t] = block
       /\ \A u \in Updates : u \in Nat /\ u < t /\ chain'[u] = chain[u]
    BY <1>0, <1>2, <1>6, <1>7, <1>10, ChainGrows, UpdatesTyped
<1>12. ChangesOf(m)' = ChangesOf(m) \cup {t}
       /\ \A n \in Mints : n # m => ChangesOf(n)' = ChangesOf(n)
    BY <1>2, <1>7, <1>11 DEF ChangesOf
<1>13. ConfigIsLast'
    <2>1. \A u \in ChangesOf(m)' : u <= t
        BY <1>2, <1>11, <1>12 DEF ChangesOf
    <2>2. /\ config'[m].new \in ChangesOf(m)'
          /\ \A u \in ChangesOf(m)' : u <= config'[m].new
          /\ config'[m].new < chain'[config'[m].new].effective =>
                config'[m].multiplier = chain'[config'[m].new].before
          /\ config'[m].effective = chain'[config'[m].new].effective
        BY <1>7, <1>8, <1>9, <1>11, <1>12, <1>p, <2>1
    <2>3. ASSUME NEW n \in Mints, n # m
          PROVE  \/ ChangesOf(n)' = {} /\ config'[n] = Created
                 \/ /\ config'[n].new \in ChangesOf(n)'
                    /\ \A u \in ChangesOf(n)' : u <= config'[n].new
                    /\ config'[n].new < chain'[config'[n].new].effective =>
                          config'[n].multiplier = chain'[config'[n].new].before
                    /\ config'[n].effective = chain'[config'[n].new].effective
        <3>1. config'[n] = config[n] /\ ChangesOf(n)' = ChangesOf(n)
            BY <1>9, <1>12, <2>3
        <3>2. \A u \in ChangesOf(n) : chain'[u] = chain[u]
            BY <1>11 DEF ChangesOf
        <3>3. QED
            BY <3>1, <3>2 DEF ChainInv, ConfigIsLast, Ahead
    <2>4. QED
        BY <1>9, <2>2, <2>3 DEF ConfigIsLast, Created, Ahead
<1>14. HistoryIsTrue'
    <2>1. ASSUME NEW v \in Updates, NEW u \in Earlier(Updates, v)',
                 Earlier(Updates, v)' \cap (u + 1 .. v) = {}, chain'[u].effective <= v
          PROVE  chain'[v].before = u
        <3>1. \A w : w \in Earlier(Updates, v)' <=> w \in Earlier(Updates, v)
            BY <1>6, <1>10, PastStays
        <3>2. u \in Updates /\ u \in Earlier(Updates, v)
            BY <3>1 DEF Earlier
        <3>3. Earlier(Updates, v) \cap (u + 1 .. v) = {} /\ chain[u].effective <= v
            BY <1>11, <2>1, <3>1, <3>2
        <3>4. QED
            BY <1>11, <3>2, <3>3 DEF ChainInv, HistoryIsTrue
    <2>2. ASSUME NEW u \in Earlier(Updates, t)',
                 Earlier(Updates, t)' \cap (u + 1 .. t) = {}, chain'[u].effective <= t
          PROVE  chain'[t].before = u
        <3>1. u \in Updates' /\ u < t /\ chain'[u].mint = m
            BY <1>7, <1>11 DEF Earlier
        <3>2. u \in Updates /\ u \in ChangesOf(m) /\ u \in Nat /\ chain'[u] = chain[u]
            BY <1>2, <1>11, <3>1 DEF ChangesOf
        <3> DEFINE w == config[m].new
        <3>3. w \in ChangesOf(m) /\ u <= w /\ config[m].effective = chain[w].effective
            BY <3>2 DEF ChainInv, ConfigIsLast
        <3>4. w \in Updates /\ w \in Nat /\ w < t /\ chain'[w] = chain[w] /\ chain[w].mint = m
            BY <1>11, <3>3 DEF ChangesOf
        <3>5. w \in Earlier(Updates, t)'
            BY <1>7, <1>11, <3>4 DEF Earlier
        <3> HIDE DEF w
        <3>6. w = u
            <4>1. ~(w \in u + 1 .. t)
                BY <2>2, <3>5
            <4>2. QED
                BY <1>2, <3>2, <3>3, <3>4, <4>1
        <3>7. t >= config[m].effective
            BY <1>2, <1>4, <2>2, <3>2, <3>3, <3>6
        <3>8. QED
            BY <1>5, <1>7, <1>11, <3>6, <3>7 DEF w
    <2>3. QED
        BY <1>11, <2>1, <2>2 DEF HistoryIsTrue
<1>15. InForceIsPast'
    <2>1. ASSUME NEW v \in Updates
          PROVE  \/ chain'[v].before = 0
                 \/ /\ chain'[v].before \in Updates'
                    /\ chain'[chain'[v].before].effective <= v
        BY <1>11 DEF ChainInv, InForceIsPast
    <2>2. \/ chain'[t].before = 0
          \/ /\ chain'[t].before \in Updates'
             /\ chain'[chain'[t].before].effective <= t
        BY <1>7, <1>11, <1>b
    <2>3. QED
        BY <1>11, <2>1, <2>2 DEF InForceIsPast
<1>16. QED
    BY <1>10, <1>13, <1>14, <1>15 DEF ChainInv
-----------------------------------------------------------------------------
(* The plan.                                                               *)

Windows == [from : Nat, to : Nat]

\* Every window lies inside one that merging leaves.
LEMMA MergedWindowsCover ==
    ASSUME NEW W \in SUBSET Windows, IsFiniteSet(W)
    PROVE  /\ IsFiniteSet(MergeWindows(W))
           /\ MergeWindows(W) \subseteq Windows
           /\ \A w \in W : \E h \in MergeWindows(W) : h.from <= w.from /\ w.to <= h.to
<1> DEFINE Joined(v, w) == v.from <= w.to /\ w.from <= v.to
           Closed(ws) == \A v \in ws, w \in W : Joined(v, w) => w \in ws
           Component(w) ==
               {v \in W : \A ws \in SUBSET W : w \in ws /\ Closed(ws) => v \in ws}
           From(ws) == CHOOSE a \in {v.from : v \in ws} : \A v \in ws : a <= v.from
           To(ws) == CHOOSE b \in {v.to : v \in ws} : \A v \in ws : b >= v.to
           Hull(ws) == [from |-> From(ws), to |-> To(ws)]
<1>1. MergeWindows(W) = {Hull(Component(w)) : w \in W}
    BY DEF MergeWindows
<1>2. \A w \in W : w \in Component(w) /\ Component(w) \in SUBSET W
    OBVIOUS
<1> HIDE DEF Component
<1>3. ASSUME NEW ws \in SUBSET W, NEW w \in ws
      PROVE  From(ws) \in Nat /\ To(ws) \in Nat /\ From(ws) <= w.from /\ w.to <= To(ws)
    <2> DEFINE froms == {v.from : v \in ws}
               tos == {v.to : v \in ws}
    <2>1. /\ froms \in SUBSET Nat /\ froms # {} /\ tos \in SUBSET Nat /\ tos # {}
          /\ \A v \in ws : v.from \in froms /\ v.to \in tos /\ v.to \in Nat
        BY <1>3 DEF Windows
    <2>2. IsFiniteSet(tos)
        <3> DEFINE f == [v \in ws |-> v.to]
        <3>1. f \in [ws -> Nat] /\ IsFiniteSet(ws)
            BY <2>1, FS_Subset
        <3>2. {f[v] : v \in ws} = tos
            OBVIOUS
        <3> HIDE DEF f, tos
        <3>3. IsFiniteSet({f[v] : v \in ws})
            BY <3>1, ValuesFinite
        <3>4. QED
            BY <3>2, <3>3
    <2>3. \E a \in froms : \A v \in ws : a <= v.from
        <3> HIDE DEF froms, tos
        <3>1. \E a \in froms : \A b \in froms : a <= b
            BY <2>1, LeastExists
        <3>2. QED
            BY <2>1, <3>1
    <2>4. \E b \in tos : \A v \in ws : b >= v.to
        <3> HIDE DEF froms, tos
        <3>1. \E b \in tos : \A a \in tos : b >= a
            BY <2>1, <2>2, GreatestExists
        <3>2. QED
            BY <2>1, <3>1
    <2>5. From(ws) \in froms /\ \A v \in ws : From(ws) <= v.from
        BY <2>3
    <2>6. To(ws) \in tos /\ \A v \in ws : To(ws) >= v.to
        BY <2>4
    <2> HIDE DEF From, To, froms, tos
    <2>7. To(ws) \in Nat /\ w.to \in Nat /\ To(ws) >= w.to
        BY <2>1, <2>6
    <2>8. QED
        BY <2>1, <2>5, <2>7
<1>4. \A w \in W : /\ Hull(Component(w)) \in Windows
                   /\ Hull(Component(w)).from <= w.from /\ w.to <= Hull(Component(w)).to
    <2> SUFFICES ASSUME NEW w \in W
                 PROVE  /\ Hull(Component(w)) \in Windows
                        /\ Hull(Component(w)).from <= w.from
                        /\ w.to <= Hull(Component(w)).to
        OBVIOUS
    <2> DEFINE c == Component(w)
    <2>1. c \in SUBSET W /\ w \in c
        BY <1>2
    <2> HIDE DEF c
    <2>2. From(c) \in Nat /\ To(c) \in Nat /\ From(c) <= w.from /\ w.to <= To(c)
        BY <1>3, <2>1
    <2> HIDE DEF From, To
    <2>3. Hull(c) \in Windows /\ Hull(c).from <= w.from /\ w.to <= Hull(c).to
        BY <2>2 DEF Windows
    <2>4. QED
        BY <2>3 DEF c
<1>5. IsFiniteSet({Hull(Component(w)) : w \in W})
    <2> HIDE DEF Hull
    <2> DEFINE f == [w \in W |-> Hull(Component(w))]
    <2>1. f \in [W -> Windows]
        BY <1>4
    <2>2. {f[w] : w \in W} = {Hull(Component(w)) : w \in W}
        OBVIOUS
    <2> HIDE DEF f
    <2>3. IsFiniteSet({f[w] : w \in W})
        BY <2>1, ValuesFinite
    <2>4. QED
        BY <2>2, <2>3
<1> HIDE DEF Hull
<1>6. QED
    BY <1>1, <1>4, <1>5
\* The window of a mint holds what a survey looks for, up to the slack.
LEMMA WindowHolds ==
    ASSUME snapshot' \in Configs, NEW m \in Mints
    PROVE  /\ Window(m) \in Windows
           /\ \A t \in Nat :
                /\ snapshot'[m].effective <= t + Lookback
                /\ t + SeekSlack < snapshot'[m].effective + Grace
                => Window(m).from <= t /\ t + SeekSlack < Window(m).to
<1> DEFINE last == snapshot'[m].effective
<1>1. last \in Nat /\ Lookback \in Nat /\ Grace \in Nat /\ SeekSlack \in Nat
    BY ConstantsTyped DEF Configs
<1>2. Window(m) = [from |-> IF last > Lookback THEN last - Lookback ELSE 0,
                   to |-> last + Grace]
    BY DEF Window, LastEffectiveAt
<1> HIDE DEF last
<1>3. /\ Window(m).from = IF last > Lookback THEN last - Lookback ELSE 0
      /\ Window(m).to = last + Grace
    BY <1>2
<1>4. (IF last > Lookback THEN last - Lookback ELSE 0) \in Nat /\ last + Grace \in Nat
    BY <1>1
<1>5. Window(m) \in Windows
    BY <1>2, <1>4 DEF Windows
<1>6. \A t \in Nat : last <= t + Lookback => Window(m).from <= t
    BY <1>1, <1>3
<1>7. QED
    BY <1>3, <1>5, <1>6 DEF last

\* A scan is one task for each window.
LEMMA ScanLists ==
    ASSUME NEW address \in Mints \cup {Authority}, NEW W \in SUBSET Windows, IsFiniteSet(W)
    PROVE  /\ IsFiniteSet(Scan(address, W))
           /\ Scan(address, W) \subseteq Tasks
           /\ \A w \in W : \E task \in Scan(address, W) :
                task.address = address /\ task.from = w.from /\ task.to = w.to
<1> DEFINE task(w) == [address |-> address, from |-> w.from, to |-> w.to]
           f == [w \in W |-> task(w)]
<1>1. Scan(address, W) = {task(w) : w \in W}
    BY DEF Scan
<1>2. \A w \in W : /\ task(w) \in Tasks /\ task(w).address = address
                   /\ task(w).from = w.from /\ task(w).to = w.to
    BY DEF Windows, Tasks
<1> HIDE DEF task
<1>3. f \in [W -> Tasks]
    BY <1>2
<1>4. {f[w] : w \in W} = {task(w) : w \in W}
    OBVIOUS
<1> HIDE DEF f
<1>5. IsFiniteSet({f[w] : w \in W})
    BY <1>3, ValuesFinite
<1>6. QED
    BY <1>1, <1>2, <1>4, <1>5

\* However the anchored mints are shared between the addresses, each has a
\* task that reads its whole window.
LEMMA AnchoredPlanCovers ==
    ASSUME snapshot' \in Configs, anchored' \in SUBSET Mints,
           NEW viaMint \in SUBSET anchored'
    PROVE  /\ IsFiniteSet(AnchoredPlan(viaMint))
           /\ AnchoredPlan(viaMint) \subseteq Tasks
           /\ \A m \in anchored' : \E task \in AnchoredPlan(viaMint) :
                /\ task.address \in {m, Authority}
                /\ task.from <= Window(m).from /\ Window(m).to <= task.to
<1> DEFINE own(m) == Scan(m, {Window(m)})
           rest == anchored' \ viaMint
           shared == {Window(m) : m \in rest}
           merged == MergeWindows(shared)
           owns == UNION {own(m) : m \in viaMint}
           scanned == Scan(Authority, merged)
           f == [m \in rest |-> Window(m)]
           g == [m \in viaMint |-> own(m)]
<1>1. \A m \in anchored' : Window(m) \in Windows
    BY WindowHolds
<1>2. IsFiniteSet(viaMint) /\ IsFiniteSet(rest) /\ viaMint \subseteq Mints
    BY ConstantsTyped, FS_Subset
<1>3. IsFiniteSet(shared) /\ shared \in SUBSET Windows
    <2>1. f \in [rest -> Windows] /\ {f[m] : m \in rest} = shared
        BY <1>1
    <2> HIDE DEF f, rest, shared
    <2>2. IsFiniteSet({f[m] : m \in rest})
        BY <1>2, <2>1, ValuesFinite
    <2>3. shared \in SUBSET Windows
        BY <1>1 DEF shared, rest
    <2>4. QED
        BY <2>1, <2>2, <2>3
<1>4. \A m \in viaMint : /\ IsFiniteSet(own(m)) /\ own(m) \subseteq Tasks
                         /\ \E task \in own(m) : /\ task.address = m
                                                 /\ task.from = Window(m).from
                                                 /\ task.to = Window(m).to
    <2> SUFFICES ASSUME NEW m \in viaMint
                 PROVE  /\ IsFiniteSet(own(m)) /\ own(m) \subseteq Tasks
                        /\ \E task \in own(m) : /\ task.address = m
                                                /\ task.from = Window(m).from
                                                /\ task.to = Window(m).to
        OBVIOUS
    <2>1. {Window(m)} \in SUBSET Windows /\ IsFiniteSet({Window(m)})
          /\ m \in Mints \cup {Authority}
        BY <1>1, <1>2, FS_Singleton
    <2>2. QED
        BY <2>1, ScanLists
<1>5. IsFiniteSet(owns)
    <2> HIDE DEF own
    <2>1. g \in [viaMint -> SUBSET Tasks]
        BY <1>4
    <2>2. {g[m] : m \in viaMint} = {own(m) : m \in viaMint}
        OBVIOUS
    <2> HIDE DEF g
    <2>3. IsFiniteSet({g[m] : m \in viaMint})
        BY <1>2, <2>1, ValuesFinite
    <2>4. IsFiniteSet({own(m) : m \in viaMint})
        BY <2>2, <2>3
    <2>5. \A T \in {own(m) : m \in viaMint} : IsFiniteSet(T)
        BY <1>4
    <2>6. QED
        BY <2>4, <2>5, FS_UNION
<1> HIDE DEF rest, shared
<1>6. /\ IsFiniteSet(merged) /\ merged \in SUBSET Windows
      /\ \A w \in shared : \E h \in merged : h.from <= w.from /\ w.to <= h.to
    BY <1>3, MergedWindowsCover
<1> HIDE DEF merged
<1>7. /\ IsFiniteSet(scanned) /\ scanned \subseteq Tasks
      /\ \A w \in merged : \E task \in scanned :
            task.address = Authority /\ task.from = w.from /\ task.to = w.to
    BY <1>6, ScanLists
<1>8. AnchoredPlan(viaMint) = owns \cup scanned
    BY DEF AnchoredPlan, merged, shared, rest
<1>9. owns \subseteq Tasks /\ \A m \in viaMint : own(m) \subseteq owns
    BY <1>4
<1> HIDE DEF own, owns, scanned
<1>10. IsFiniteSet(AnchoredPlan(viaMint)) /\ AnchoredPlan(viaMint) \subseteq Tasks
    <2>1. IsFiniteSet(owns \cup scanned)
        BY <1>5, <1>7, FS_Union
    <2>2. owns \cup scanned \subseteq Tasks
        BY <1>7, <1>9
    <2>3. QED
        BY <1>8, <2>1, <2>2
<1>11. ASSUME NEW m \in anchored'
       PROVE  \E task \in AnchoredPlan(viaMint) :
                /\ task.address \in {m, Authority}
                /\ task.from <= Window(m).from /\ Window(m).to <= task.to
    <2>1. Window(m).from \in Nat /\ Window(m).to \in Nat
        BY <1>1 DEF Windows
    <2>2. CASE m \in viaMint
        <3>1. PICK task \in own(m) : /\ task.address = m
                                     /\ task.from = Window(m).from
                                     /\ task.to = Window(m).to
            BY <1>4, <2>2
        <3>2. task \in AnchoredPlan(viaMint)
            BY <1>8, <1>9, <2>2, <3>1
        <3>3. QED
            BY <2>1, <3>1, <3>2
    <2>3. CASE m \notin viaMint
        <3>1. Window(m) \in shared
            BY <2>3 DEF shared, rest
        <3>2. PICK h \in merged : h.from <= Window(m).from /\ Window(m).to <= h.to
            BY <1>6, <3>1
        <3>3. PICK task \in scanned :
                task.address = Authority /\ task.from = h.from /\ task.to = h.to
            BY <1>7, <3>2
        <3>4. task \in AnchoredPlan(viaMint)
            BY <1>8, <3>3
        <3>5. QED
            BY <3>2, <3>3, <3>4
    <2>4. QED
        BY <2>2, <2>3
<1>12. QED
    BY <1>10, <1>11

\* The plan by --since is one task.
LEMMA SincePlanReads ==
    ASSUME chain \in Seq(Blocks), filter' \in SUBSET Mints,
           NEW from \in Sinces, NEW viaMint \in BOOLEAN
    PROVE  /\ IsFiniteSet(SincePlan(from, viaMint))
           /\ SincePlan(from, viaMint) \subseteq Tasks
           /\ SincePlan(from, viaMint) # {}
<1> DEFINE w == [from |-> from, to |-> Now + 1]
<1>1. w \in Windows
    BY ConstantsTyped DEF Now, Windows
<1> HIDE DEF w
<1>2. {w} \in SUBSET Windows /\ IsFiniteSet({w})
    BY <1>1, FS_Singleton
<1>3. SincePlan(from, viaMint) =
        IF viaMint /\ Cardinality(filter') = 1
        THEN UNION {Scan(m, {w}) : m \in filter'}
        ELSE Scan(Authority, {w})
    BY DEF SincePlan, w
<1>4. \A address \in Mints \cup {Authority} :
        /\ IsFiniteSet(Scan(address, {w})) /\ Scan(address, {w}) \subseteq Tasks
        /\ Scan(address, {w}) # {}
    BY <1>2, ScanLists
<1>5. ASSUME Cardinality(filter') = 1
      PROVE  \E m \in Mints : filter' = {m}
    <2>1. IsFiniteSet(filter')
        BY ConstantsTyped, FS_Subset
    <2>2. QED
        BY <1>5, <2>1, FS_Singleton
<1>6. CASE viaMint /\ Cardinality(filter') = 1
    <2>1. PICK m \in Mints : filter' = {m}
        BY <1>5, <1>6
    <2>2. SincePlan(from, viaMint) = Scan(m, {w})
        BY <1>3, <1>6, <2>1
    <2>3. QED
        BY <1>4, <2>2
<1>7. CASE ~(viaMint /\ Cardinality(filter') = 1)
    BY <1>3, <1>4, <1>7
<1>8. QED
    BY <1>6, <1>7
LEMMA PlanListed ==
    ASSUME NEW plan \in SUBSET Tasks, IsFiniteSet(plan), plan # {}
    PROVE  /\ SetToSeq(plan) \in Seq(Tasks) /\ SetToSeq(plan) # <<>>
           /\ \A task \in plan : \E i \in DOMAIN SetToSeq(plan) : SetToSeq(plan)[i] = task
<1> DEFINE s == SetToSeq(plan)
<1>1. /\ s \in Seq(plan)
      /\ \A task \in plan : \E i \in DOMAIN s : s[i] = task
    BY SetToSeqLists
<1> HIDE DEF s
<1>2. s \in Seq(Tasks)
    BY <1>1
<1>3. PICK task \in plan : TRUE
    OBVIOUS
<1>4. PICK i \in DOMAIN s : s[i] = task
    BY <1>1
<1>5. s # <<>>
    BY <1>4
<1>6. QED
    BY <1>1, <1>2, <1>5 DEF s

\* A survey sets out with a window for each change it looks for.
LEMMA BeginKeeps ==
    ASSUME ChainInv, SnapshotIsTrue, PlanSound, StillInReach, Begin
    PROVE  ChainInv' /\ SnapshotIsTrue' /\ PlanSound' /\ StillInReach'
<1>1. /\ chain' = chain /\ config' = config /\ file' = file
      /\ pc' = "seek" /\ cursor' = 0 /\ pages' = 0 /\ found' = {} /\ missed' = FALSE
      /\ snapshot' = config /\ began' = Len(chain) /\ filter' \in Filters
    BY DEF Begin, chainVars, Now
<1>2. /\ chain \in Seq(Blocks) /\ config \in Configs /\ Len(chain) \in Nat
      /\ filter' \in SUBSET Mints /\ snapshot' \in Configs
    BY <1>1, ConstantsTyped DEF ChainInv, ConfigIsLast
<1>3. Updates' = Updates
    BY <1>1 DEF Updates
<1>4. ChainInv'
    <2>1. ConfigIsLast'
        BY <1>1, <1>3 DEF ChainInv, ConfigIsLast, ChangesOf, Configs, Created, Ahead
    <2>2. HistoryIsTrue'
        BY <1>1, <1>3 DEF ChainInv, HistoryIsTrue, Earlier
    <2>3. InForceIsPast'
        BY <1>1, <1>3 DEF ChainInv, InForceIsPast
    <2>4. QED
        BY <1>1, <2>1, <2>2, <2>3 DEF ChainInv
<1>5. SnapshotIsTrue'
    <2>1. \A m \in Mints :
            \/ config[m].new = 0
            \/ /\ config[m].new \in Updates
               /\ Ahead(config[m].new) =>
                     config[m].multiplier = chain[config[m].new].before
        BY DEF ChainInv, ConfigIsLast, Created, ChangesOf
    <2>2. QED
        BY <1>1, <1>2, <1>3, <2>1 DEF SnapshotIsTrue, Ahead
<1>6. /\ tasks' \in Seq(Tasks) /\ tasks' # <<>> /\ anchored' \subseteq filter'
      /\ \A m \in anchored' : \E i \in DOMAIN tasks' :
            /\ tasks'[i].address \in {m, Authority}
            /\ tasks'[i].from <= Window(m).from /\ Window(m).to <= tasks'[i].to
    <2>1. CASE /\ anchored' = {}
               /\ \E from \in Sinces, viaMint \in BOOLEAN :
                    tasks' = SetToSeq(SincePlan(from, viaMint))
        <3>1. PICK from \in Sinces, viaMint \in BOOLEAN :
                tasks' = SetToSeq(SincePlan(from, viaMint))
            BY <2>1
        <3>2. /\ IsFiniteSet(SincePlan(from, viaMint)) /\ SincePlan(from, viaMint) \in SUBSET Tasks
              /\ SincePlan(from, viaMint) # {}
            BY <1>2, SincePlanReads
        <3>3. tasks' \in Seq(Tasks) /\ tasks' # <<>>
            BY <3>1, <3>2, PlanListed
        <3>4. QED
            BY <2>1, <3>3
    <2>2. CASE /\ anchored' = {m \in filter' : LastEffectiveAt(m) # 0}
               /\ anchored' # {}
               /\ \E viaMint \in SUBSET anchored' :
                    tasks' = SetToSeq(AnchoredPlan(viaMint))
        <3>1. PICK viaMint \in SUBSET anchored' : tasks' = SetToSeq(AnchoredPlan(viaMint))
            BY <2>2
        <3> DEFINE plan == AnchoredPlan(viaMint)
        <3>2. anchored' \in SUBSET Mints /\ anchored' \subseteq filter'
            BY <1>2, <2>2
        <3>3. /\ IsFiniteSet(plan) /\ plan \in SUBSET Tasks
              /\ \A m \in anchored' : \E task \in plan :
                    /\ task.address \in {m, Authority}
                    /\ task.from <= Window(m).from /\ Window(m).to <= task.to
            BY <1>2, <3>2, AnchoredPlanCovers
        <3>4. plan # {}
            BY <2>2, <3>3
        <3> HIDE DEF plan
        <3>5. /\ SetToSeq(plan) \in Seq(Tasks) /\ SetToSeq(plan) # <<>>
              /\ \A task \in plan : \E i \in DOMAIN SetToSeq(plan) : SetToSeq(plan)[i] = task
            BY <3>3, <3>4, PlanListed
        <3>6. tasks' = SetToSeq(plan)
            BY <3>1 DEF plan
        <3>7. tasks' \in Seq(Tasks) /\ tasks' # <<>>
              /\ \A task \in plan : \E i \in DOMAIN tasks' : tasks'[i] = task
            BY <3>5, <3>6
        <3>8. ASSUME NEW m \in anchored'
              PROVE  \E i \in DOMAIN tasks' :
                        /\ tasks'[i].address \in {m, Authority}
                        /\ tasks'[i].from <= Window(m).from /\ Window(m).to <= tasks'[i].to
            <4>1. PICK task \in plan :
                    /\ task.address \in {m, Authority}
                    /\ task.from <= Window(m).from /\ Window(m).to <= task.to
                BY <3>3
            <4>2. PICK i \in DOMAIN tasks' : tasks'[i] = task
                BY <3>7
            <4>3. QED
                BY <4>1, <4>2
        <3>9. QED
            BY <3>2, <3>7, <3>8
    <2>3. QED
        BY <2>1, <2>2 DEF Begin
<1>7. PlanSound'
    <2>1. Existing' = Existing
        BY <1>1 DEF Existing, Torn
    <2>2. pages' \in 0 .. MaxPages /\ cursor' \in Nat
        BY <1>1, ConstantsTyped
    <2>3. began' \in Nat /\ began' <= Len(chain')
        BY <1>1, <1>2
    <2>4. QED
        BY <1>1, <1>2, <1>3, <1>6, <2>1, <2>2, <2>3 DEF PlanSound
<1>8. StillInReach'
    <2> SUFFICES ASSUME NEW t \in Sought'
                 PROVE  (\E i \in DOMAIN tasks :
                            /\ Covers(tasks[i], t)
                            /\ pc = "page" /\ i = 1 => t < cursor)'
        BY DEF StillInReach
    <2> DEFINE m == chain[t].mint
    <2>1. /\ t \in Updates /\ m \in anchored'
          /\ snapshot'[m].effective <= t + Lookback
          /\ t + SeekSlack < snapshot'[m].effective + Grace
        BY <1>1, <1>3 DEF Sought
    <2>2. t \in Nat /\ chain[t].kind = "update" /\ m \in Mints
        BY <1>2, <2>1, UpdatesTyped
    <2>3. /\ Window(m) \in Windows
          /\ Window(m).from <= t /\ t + SeekSlack < Window(m).to
        BY <1>2, <2>1, <2>2, WindowHolds
    <2>4. PICK i \in DOMAIN tasks' :
            /\ tasks'[i].address \in {m, Authority}
            /\ tasks'[i].from <= Window(m).from /\ Window(m).to <= tasks'[i].to
        BY <1>6, <2>1
    <2>5. tasks'[i] \in Tasks
        BY <1>6, <2>4
    <2>6. /\ tasks'[i].from \in Nat /\ tasks'[i].to \in Nat
          /\ Window(m).from \in Nat /\ Window(m).to \in Nat
        BY <2>3, <2>5 DEF Tasks, Windows
    <2>7. tasks'[i].from <= t /\ t + SeekSlack < tasks'[i].to
        <3> DEFINE a == tasks'[i].from
                   b == tasks'[i].to
                   c == Window(m).from
                   d == Window(m).to
        <3>1. a \in Nat /\ b \in Nat /\ c \in Nat /\ d \in Nat /\ SeekSlack \in Nat
              /\ a <= c /\ d <= b /\ c <= t /\ t + SeekSlack < d
            BY <2>3, <2>4, <2>6, ConstantsTyped
        <3> HIDE DEF a, b, c, d
        <3>2. a <= t /\ t + SeekSlack < b
            BY <2>2, <3>1
        <3>3. QED
            BY <3>2 DEF a, b
    <2>8. Covers(tasks[i], t)'
        BY <1>1, <2>2, <2>4, <2>7 DEF Covers, Touches
    <2>9. QED
        BY <1>1, <2>8
<1>9. QED
    BY <1>4, <1>5, <1>7, <1>8
-----------------------------------------------------------------------------
(* Reading.                                                                *)

\* What is on a page is what is looked for and lies before the cursor; what
\* is left for later is older than all of it, and leaves the page full.
LEMMA PageIsLatest ==
    ASSUME chain \in Seq(Blocks), NEW address, NEW before \in Nat
    PROVE  /\ Page(address, before) \in SUBSET Haystack(address, before)
           /\ Haystack(address, before) \in SUBSET (1 .. Len(chain))
           /\ IsFiniteSet(Page(address, before)) /\ Cardinality(Page(address, before)) \in Nat
           /\ \A t \in Haystack(address, before) \ Page(address, before) :
                /\ Cardinality(Page(address, before)) >= PageSize
                /\ \A u \in Page(address, before) : t < u
<1> DEFINE hay == Haystack(address, before)
           page == Page(address, before)
           Above(t) == {u \in hay : u > t}
<1>1. PageSize \in Nat /\ Len(chain) \in Nat
    BY ConstantsTyped
<1>2. page = {t \in hay : Cardinality(Above(t)) < PageSize}
    BY DEF Page
<1>3. hay \in SUBSET (1 .. Len(chain)) /\ \A t \in hay : t \in Nat
    BY <1>1 DEF Haystack
<1> HIDE DEF hay, page
<1>4. IsFiniteSet(hay)
    <2>1. 1 \in Int /\ Len(chain) \in Int
        BY <1>1
    <2>2. IsFiniteSet(1 .. Len(chain))
        BY <2>1, FS_Interval
    <2>3. QED
        BY <1>3, <2>2, FS_Subset
<1>5. page \in SUBSET hay
    BY <1>2
<1>6. IsFiniteSet(page) /\ Cardinality(page) \in Nat
    BY <1>4, <1>5, FS_Subset, FS_CardinalityType
<1>7. \A t : Above(t) \in SUBSET hay
    OBVIOUS
<1>8. \A t, u \in hay : t < u => Above(u) \in SUBSET Above(t)
    <2>1. \A t, u, v \in hay : t < u /\ v > u => v > t
        BY <1>3
    <2>2. QED
        BY <2>1
<1>9. \A t : \A u : u \in Above(t) <=> u \in hay /\ u > t
    OBVIOUS
<1> HIDE DEF Above
<1>10. \A t : IsFiniteSet(Above(t)) /\ Cardinality(Above(t)) \in Nat
    BY <1>4, <1>7, FS_Subset, FS_CardinalityType
<1>11. ASSUME NEW t \in hay, t \notin page
       PROVE  /\ Cardinality(page) >= PageSize
              /\ \A u \in page : t < u
    <2>1. Cardinality(Above(t)) >= PageSize
        BY <1>1, <1>2, <1>10, <1>11
    <2>2. ASSUME NEW u \in page, ~(t < u)
          PROVE  FALSE
        <3>1. u \in hay /\ u # t /\ Cardinality(Above(u)) < PageSize
            BY <1>2, <1>11, <2>2
        <3>2. u < t
            BY <1>3, <1>11, <2>2, <3>1
        <3>3. Above(t) \in SUBSET Above(u)
            BY <1>8, <1>11, <3>1, <3>2
        <3>4. IsFiniteSet(Above(u)) /\ Cardinality(Above(u)) \in Nat
              /\ Cardinality(Above(t)) \in Nat
            BY <1>10
        <3>5. Cardinality(Above(t)) <= Cardinality(Above(u))
            BY <3>3, <3>4, FS_Subset
        <3>6. QED
            BY <1>1, <2>1, <3>1, <3>4, <3>5
    <2>3. ASSUME Cardinality(page) < PageSize
          PROVE  FALSE
        <3> DEFINE missing == Above(t) \ page
        <3>1. \A S \in SUBSET page : Cardinality(S) \in Nat /\ Cardinality(S) < PageSize
            <4> SUFFICES ASSUME NEW S \in SUBSET page
                         PROVE  Cardinality(S) \in Nat /\ Cardinality(S) < PageSize
                OBVIOUS
            <4>1. IsFiniteSet(S) /\ Cardinality(S) <= Cardinality(page)
                BY <1>6, FS_Subset
            <4>2. Cardinality(S) \in Nat
                BY <4>1, FS_CardinalityType
            <4>3. QED
                BY <1>1, <1>6, <2>3, <4>1, <4>2
        <3>2. missing # {}
            <4>1. CASE missing = {}
                <5>1. Above(t) \in SUBSET page
                    BY <4>1
                <5>2. Cardinality(Above(t)) \in Nat /\ Cardinality(Above(t)) < PageSize
                    BY <3>1, <5>1
                <5>3. QED
                    BY <1>1, <2>1, <5>2
            <4>2. QED
                BY <4>1
        <3>3. missing \in SUBSET Nat /\ IsFiniteSet(missing)
            <4>1. missing \in SUBSET Above(t)
                OBVIOUS
            <4>2. missing \in SUBSET Nat
                BY <1>3, <1>9
            <4>3. QED
                BY <1>10, <4>1, <4>2, FS_Subset
        <3>4. \A g \in missing : g \in hay /\ g > t /\ g \notin page
            BY <1>9
        <3>5. \A u \in hay : u > t /\ u \notin page => u \in missing
            BY <1>9
        <3> HIDE DEF missing
        <3>6. PICK g \in missing : \A u \in missing : g >= u
            BY <3>2, <3>3, GreatestExists
        <3>7. Above(g) \in SUBSET page
            <4> SUFFICES ASSUME NEW u \in Above(g), u \notin page
                         PROVE  FALSE
                OBVIOUS
            <4>1. u \in hay /\ u > g /\ g \in hay /\ g > t
                BY <1>9, <3>4, <3>6
            <4>2. u \in Nat /\ g \in Nat /\ t \in Nat
                BY <1>3, <4>1
            <4>3. u > t
                BY <4>1, <4>2
            <4>4. g >= u
                BY <3>5, <3>6, <4>1, <4>3
            <4>5. QED
                BY <4>1, <4>2, <4>4
        <3>8. g \in page
            BY <1>2, <3>1, <3>4, <3>6, <3>7
        <3>9. QED
            BY <3>4, <3>6, <3>8
    <2>4. QED
        BY <1>1, <1>6, <2>2, <2>3
<1>12. QED
    BY <1>3, <1>5, <1>6, <1>11 DEF hay, page

\* While a survey reads, the chain, what it looks for and the file stand still.
LEMMA ReadingStandsStill ==
    ASSUME ChainInv, SnapshotIsTrue, UNCHANGED <<chainVars, planVars, file>>
    PROVE  /\ chain' = chain /\ filter' = filter /\ anchored' = anchored /\ began' = began
           /\ chain \in Seq(Blocks) /\ Len(chain) \in Nat
           /\ ChainInv' /\ SnapshotIsTrue'
           /\ Updates' = Updates /\ Existing' = Existing /\ Sought' = Sought
<1>1. /\ chain' = chain /\ config' = config /\ file' = file
      /\ filter' = filter /\ snapshot' = snapshot /\ anchored' = anchored /\ began' = began
    BY DEF chainVars, planVars
<1>2. Updates' = Updates /\ Existing' = Existing
    BY <1>1 DEF Updates, Existing, Torn
<1>3. Sought' = Sought
    BY <1>1, <1>2 DEF Sought
<1>4. chain \in Seq(Blocks) /\ Len(chain) \in Nat
    BY DEF ChainInv
<1>5. ChainInv'
    <2>1. ConfigIsLast'
        BY <1>1, <1>2 DEF ChainInv, ConfigIsLast, ChangesOf, Configs, Created, Ahead
    <2>2. HistoryIsTrue'
        BY <1>1, <1>2 DEF ChainInv, HistoryIsTrue, Earlier
    <2>3. InForceIsPast'
        BY <1>1, <1>2 DEF ChainInv, InForceIsPast
    <2>4. QED
        BY <1>1, <2>1, <2>2, <2>3 DEF ChainInv
<1>6. SnapshotIsTrue'
    BY <1>1, <1>2 DEF SnapshotIsTrue, Configs, Ahead
<1>7. QED
    BY <1>1, <1>2, <1>3, <1>4, <1>5, <1>6

\* What was not found yet when a survey reads on.
LEMMA NotFoundYet ==
    ASSUME StillInReach, pc # "idle", ~missed, NEW t \in Sought, t \notin found
    PROVE  \E i \in DOMAIN tasks : /\ Covers(tasks[i], t)
                                   /\ pc = "page" /\ i = 1 => t < cursor
BY DEF StillInReach
\* A seek that ends close enough passes over nothing that is looked for.
LEMMA SeekKeeps ==
    ASSUME ChainInv, SnapshotIsTrue, PlanSound, StillInReach, Seek
    PROVE  ChainInv' /\ SnapshotIsTrue' /\ PlanSound' /\ StillInReach'
<1>1. /\ chain' = chain /\ filter' = filter /\ anchored' = anchored /\ began' = began
      /\ chain \in Seq(Blocks) /\ Len(chain) \in Nat
      /\ ChainInv' /\ SnapshotIsTrue'
      /\ Updates' = Updates /\ Existing' = Existing /\ Sought' = Sought
    BY ReadingStandsStill DEF Seek
<1>2. /\ pc = "seek" /\ pc' = "page" /\ pages' = 0 /\ tasks' = tasks /\ found' = found
      /\ tasks # <<>>
    BY DEF Seek
<1> DEFINE target == Head(tasks).to
<1>3. PICK s : /\ s \in (IF target + SeekAge < Now THEN SeekResults(target) ELSE {0})
               /\ cursor' = IF s = 0 THEN Len(chain) + 1 ELSE s
               /\ missed' = (missed \/ (s # 0 /\ ~Close(s, target)))
    BY DEF Seek
<1>4. s = 0 \/ s \in 1 .. Len(chain)
    BY <1>3 DEF SeekResults
<1>5. s \in Nat /\ cursor' \in Nat
    BY <1>1, <1>3, <1>4
<1>6. /\ Head(tasks) = tasks[1] /\ Head(tasks) \in Tasks /\ target \in Nat
    <2>1. tasks \in Seq(Tasks)
        BY DEF PlanSound
    <2>2. Head(tasks) = tasks[1] /\ Head(tasks) \in Tasks
        BY <1>2, <2>1, TailKeepsRest
    <2>3. QED
        BY <2>2 DEF Tasks
<1> HIDE DEF target
<1>7. PlanSound'
    BY <1>1, <1>2, <1>5, ConstantsTyped DEF PlanSound
<1>8. StillInReach'
    <2> SUFFICES ASSUME ~missed', NEW t \in Sought', t \notin found'
                 PROVE  (\E i \in DOMAIN tasks :
                            /\ Covers(tasks[i], t)
                            /\ pc = "page" /\ i = 1 => t < cursor)'
        BY DEF StillInReach
    <2>1. t \in Sought /\ t \notin found /\ ~missed /\ (s # 0 => Close(s, target))
        BY <1>1, <1>2, <1>3
    <2>2. PICK i \in DOMAIN tasks : Covers(tasks[i], t)
        BY <1>2, <2>1, NotFoundYet
    <2>3. Covers(tasks[i], t)'
        BY <1>1, <1>2, <2>2 DEF Covers, Touches
    <2>4. t \in Nat /\ t <= Len(chain)
        BY <1>1, <2>1, UpdatesTyped DEF Sought
    <2>5. i = 1 => t < cursor'
        <3>1. CASE s = 0
            BY <1>1, <1>3, <2>4, <3>1
        <3>2. CASE s # 0 /\ i = 1
            <4>1. cursor' = s /\ target <= s + SeekSlack
                BY <1>3, <2>1, <3>2 DEF Close
            <4>2. t + SeekSlack < target
                BY <1>6, <2>2, <3>2 DEF Covers, target
            <4>3. QED
                BY <1>5, <1>6, <2>4, <4>1, <4>2, ConstantsTyped
        <3>3. QED
            BY <3>1, <3>2
    <2>6. QED
        BY <1>2, <2>3, <2>5
<1>9. QED
    BY <1>1, <1>7, <1>8

\* The next window leaves the others where they were.
LEMMA NextWindowKeeps ==
    ASSUME PlanSound, tasks # <<>>, NextWindow
    PROVE  /\ tasks' \in Seq(Tasks) /\ pc' \in {"seek", "fetch"}
           /\ pc' = "seek" <=> tasks' # <<>>
           /\ \A i \in DOMAIN tasks : i # 1 => /\ i - 1 \in DOMAIN tasks'
                                               /\ tasks'[i - 1] = tasks[i]
           /\ (\E i \in DOMAIN tasks : i # 1) => pc' = "seek"
<1>1. tasks \in Seq(Tasks)
    BY DEF PlanSound
<1>2. /\ Tail(tasks) \in Seq(Tasks)
      /\ Tail(tasks) = <<>> <=> Len(tasks) = 1
      /\ \A i \in DOMAIN tasks : i # 1 => /\ i - 1 \in DOMAIN Tail(tasks)
                                          /\ Tail(tasks)[i - 1] = tasks[i]
    BY <1>1, TailKeepsRest
<1>3. tasks' = Tail(tasks) /\ pc' = IF Len(tasks) = 1 THEN "fetch" ELSE "seek"
    BY DEF NextWindow
<1>4. ASSUME NEW i \in DOMAIN tasks, i # 1
      PROVE  Len(tasks) # 1
    <2>1. Len(tasks) \in Nat /\ i \in 1 .. Len(tasks)
        BY <1>1
    <2>2. QED
        BY <1>4, <2>1
<1>5. QED
    BY <1>2, <1>3, <1>4

\* A page keeps what it holds of the window, and the walk ends only when there
\* is nothing of the window behind it.
LEMMA ReadPageKeeps ==
    ASSUME ChainInv, SnapshotIsTrue, PlanSound, StillInReach, ReadPage
    PROVE  ChainInv' /\ SnapshotIsTrue' /\ PlanSound' /\ StillInReach'
<1> DEFINE task == Head(tasks)
           page == Page(task.address, cursor)
           ended == Cardinality(page) < PageSize \/ PastWindow(page)
           oldest == CHOOSE t \in page : \A u \in page : t <= u
<1>1. /\ chain' = chain /\ filter' = filter /\ anchored' = anchored /\ began' = began
      /\ chain \in Seq(Blocks) /\ Len(chain) \in Nat
      /\ ChainInv' /\ SnapshotIsTrue'
      /\ Updates' = Updates /\ Existing' = Existing /\ Sought' = Sought
    BY ReadingStandsStill DEF ReadPage
<1>2. /\ pc = "page"
      /\ found' = found \cup {t \in page : Keep(t)}
      /\ pages' = IF page = {} THEN pages ELSE pages + 1
    BY DEF ReadPage
<1>3. \/ ended /\ NextWindow /\ UNCHANGED <<cursor, missed>>
      \/ /\ ~ended /\ cursor' = oldest
         /\ \/ pages' = MaxPages /\ NextWindow /\ missed' = TRUE
            \/ pages' # MaxPages /\ UNCHANGED <<tasks, pc, missed>>
    BY DEF ReadPage
<1>4. /\ tasks \in Seq(Tasks) /\ tasks # <<>> /\ cursor \in Nat
      /\ pages \in Nat /\ pages < MaxPages /\ found \subseteq 1 .. Len(chain)
    BY <1>2, ConstantsTyped DEF PlanSound
<1>5. task \in Tasks /\ task = tasks[1]
    BY <1>4, TailKeepsRest
<1>6. /\ page \in SUBSET Haystack(task.address, cursor)
      /\ Haystack(task.address, cursor) \in SUBSET (1 .. Len(chain))
      /\ IsFiniteSet(page) /\ Cardinality(page) \in Nat
      /\ \A t \in Haystack(task.address, cursor) \ page :
            /\ Cardinality(page) >= PageSize
            /\ \A u \in page : t < u
    BY <1>1, <1>4, PageIsLatest
<1>7. page \in SUBSET (1 .. Len(chain)) /\ page \in SUBSET Nat
    BY <1>1, <1>6
<1> HIDE DEF page
<1>8. ~ended => page # {} /\ oldest \in page /\ oldest \in Nat
    <2>1. ASSUME ~ended
          PROVE  page # {}
        <3>1. Cardinality({}) = 0
            BY FS_EmptySet
        <3>2. QED
            BY <1>6, <2>1, <3>1, ConstantsTyped
    <2>2. page # {} => \E t \in page : \A u \in page : t <= u
        BY <1>7, LeastExists
    <2>3. page # {} => oldest \in page
        BY <2>2
    <2>4. QED
        BY <1>7, <2>1, <2>3
<1> HIDE DEF oldest, ended
<1>9. found' \subseteq 1 .. Len(chain)
    BY <1>2, <1>4, <1>7
<1>10. pages' \in 0 .. MaxPages
    BY <1>2, <1>4, ConstantsTyped
<1>11. PlanSound'
    <2>1. cursor' \in Nat
        BY <1>3, <1>4, <1>8
    <2>2. CASE NextWindow
        <3>1. tasks' \in Seq(Tasks) /\ pc' \in {"seek", "fetch"} /\ (pc' = "seek" <=> tasks' # <<>>)
            BY <1>4, <2>2, NextWindowKeeps
        <3>2. QED
            BY <1>1, <1>9, <1>10, <2>1, <3>1 DEF PlanSound
    <2>3. CASE pages' # MaxPages /\ UNCHANGED <<tasks, pc, missed>>
        <3>1. pages' < MaxPages
            BY <1>10, <2>3, ConstantsTyped
        <3>2. QED
            BY <1>1, <1>2, <1>4, <1>9, <1>10, <2>1, <2>3, <3>1 DEF PlanSound
    <2>4. QED
        BY <1>3, <2>2, <2>3
<1>12. StillInReach'
    <2> SUFFICES ASSUME ~missed', NEW t \in Sought', t \notin found'
                 PROVE  (\E i \in DOMAIN tasks :
                            /\ Covers(tasks[i], t)
                            /\ pc = "page" /\ i = 1 => t < cursor)'
        BY DEF StillInReach
    <2>1. t \in Sought /\ t \notin found /\ ~missed
        BY <1>1, <1>2, <1>3
    <2>2. PICK i \in DOMAIN tasks : Covers(tasks[i], t) /\ (i = 1 => t < cursor)
        BY <1>2, <2>1, NotFoundYet
    <2>3. t \in Updates /\ t \in Nat /\ t \in 1 .. Len(chain) /\ chain[t].kind = "update"
        BY <1>1, <2>1, UpdatesTyped DEF Sought
    <2>4. CASE i # 1 /\ NextWindow
        <3>1. /\ i - 1 \in DOMAIN tasks' /\ tasks'[i - 1] = tasks[i]
              /\ pc' = "seek"
            BY <1>4, <2>4, NextWindowKeeps
        <3>2. PICK j \in DOMAIN tasks' : tasks'[j] = tasks[i]
            BY <3>1
        <3>3. Covers(tasks[j], t)'
            BY <1>1, <2>2, <3>2 DEF Covers, Touches
        <3>4. QED
            BY <3>1, <3>2, <3>3
    <2>5. CASE i # 1 /\ ~NextWindow
        <3>1. tasks' = tasks
            BY <1>3, <2>5
        <3>2. Covers(tasks[i], t)'
            BY <1>1, <2>2, <3>1 DEF Covers, Touches
        <3>3. QED
            BY <2>5, <3>1, <3>2
    <2>6. CASE i = 1
        <3>1. /\ Touches(t, task.address) /\ task.from <= t /\ t + SeekSlack < task.to
              /\ t < cursor
            BY <1>5, <2>2, <2>6 DEF Covers
        <3>2. task.from \in Nat /\ task.to \in Nat
            BY <1>5 DEF Tasks
        <3>3. Keep(t)
            BY <2>3, <3>1, <3>2, ConstantsTyped DEF Keep
        <3>4. t \notin page
            BY <1>2, <3>3
        <3>5. t \in Haystack(task.address, cursor)
            BY <2>3, <3>1 DEF Haystack
        <3>6. Cardinality(page) >= PageSize /\ \A u \in page : t < u
            BY <1>6, <3>4, <3>5
        <3>7. ~PastWindow(page)
            BY <1>7, <2>3, <3>1, <3>2, <3>6 DEF PastWindow
        <3>8. ~ended
            BY <1>6, <3>6, <3>7, ConstantsTyped DEF ended
        <3>9. /\ tasks' = tasks /\ cursor' = oldest
            BY <1>3, <3>8
        <3>10. t < cursor'
            BY <1>8, <3>6, <3>8, <3>9
        <3>11. Covers(tasks[i], t)'
            BY <1>1, <2>2, <3>9 DEF Covers, Touches
        <3>12. QED
            BY <3>9, <3>10, <3>11
    <2>7. QED
        BY <2>4, <2>5, <2>6
<1>13. QED
    BY <1>1, <1>11, <1>12

\* All windows are read: what was looked for was found, and is an update.
LEMMA FetchKeeps ==
    ASSUME ChainInv, SnapshotIsTrue, PlanSound, StillInReach, Fetch
    PROVE  ChainInv' /\ SnapshotIsTrue' /\ PlanSound' /\ StillInReach'
<1>1. /\ chain' = chain /\ filter' = filter /\ anchored' = anchored /\ began' = began
      /\ chain \in Seq(Blocks) /\ Len(chain) \in Nat
      /\ ChainInv' /\ SnapshotIsTrue'
      /\ Updates' = Updates /\ Existing' = Existing /\ Sought' = Sought
    BY ReadingStandsStill DEF Fetch
<1>2. /\ pc = "fetch" /\ pc' = "write" /\ tasks' = tasks /\ cursor' = cursor /\ pages' = pages
    BY DEF Fetch
<1>3. PICK served \in SUBSET found : /\ found' = {t \in served : chain[t].kind = "update"}
                                    /\ missed' = (missed \/ served # found)
    BY DEF Fetch
<1>4. tasks = <<>> /\ found \subseteq 1 .. Len(chain)
    BY <1>2 DEF PlanSound
<1>5. found' \subseteq Updates /\ found' \subseteq 1 .. Len(chain)
    BY <1>3, <1>4 DEF Updates
<1>6. PlanSound'
    BY <1>1, <1>2, <1>5 DEF PlanSound
<1>7. StillInReach'
    <2> SUFFICES ASSUME ~missed', NEW t \in Sought'
                 PROVE  t \in found'
        BY DEF StillInReach
    <2>1. t \in Sought /\ ~missed /\ served = found
        BY <1>1, <1>3
    <2>2. t \in found
        <3>1. DOMAIN tasks = {}
            BY <1>4
        <3>2. QED
            BY <1>2, <2>1, <3>1, NotFoundYet
    <2>3. chain[t].kind = "update"
        BY <1>1, <2>1, UpdatesTyped DEF Sought
    <2>4. QED
        BY <1>3, <2>1, <2>2, <2>3
<1>8. QED
    BY <1>1, <1>6, <1>7
-----------------------------------------------------------------------------
(* Writing.                                                                *)

Sources == {"same-transaction", "prior-action", "chain-state", "unknown"}

\* What is written about a change, and where it comes from.
LEMMA ResolveSays ==
    ASSUME NEW signatures, NEW t
    PROVE  LET a == Resolve(signatures, t)
               prior == Earlier(signatures, t)
           IN  /\ DOMAIN a = {"signature", "new", "source", "previous"}
               /\ a.signature = t /\ a.new = Target(t)
               /\ \/ a.source = "same-transaction" /\ chain[t].pair /\ a.previous = Carry(t)
                  \/ /\ a.source = "prior-action" /\ ~chain[t].pair /\ prior # {}
                     /\ a.previous = Target(CHOOSE u \in prior : \A v \in prior : v <= u)
                  \/ /\ a.source = "chain-state" /\ ~chain[t].pair
                     /\ a.previous = snapshot[chain[t].mint].multiplier
                  \/ a.source = "unknown"
<1> DEFINE prior == Earlier(signatures, t)
           Action(source, previous) ==
               [signature |-> t, new |-> Target(t), source |-> source,
                previous |-> previous]
           greatest == CHOOSE u \in prior : \A v \in prior : v <= u
           a == Resolve(signatures, t)
<1>1. a = CASE chain[t].pair -> Action("same-transaction", Carry(t))
            [] ~chain[t].pair /\ prior # {} -> Action("prior-action", Target(greatest))
            [] ~chain[t].pair /\ prior = {} /\ Latest(signatures, t) ->
                  Action("chain-state", snapshot[chain[t].mint].multiplier)
            [] OTHER -> Action("unknown", 0)
    BY DEF Resolve
<1> HIDE DEF prior, greatest, a
<1>2. \/ chain[t].pair /\ a = Action("same-transaction", Carry(t))
      \/ ~chain[t].pair /\ prior # {} /\ a = Action("prior-action", Target(greatest))
      \/ ~chain[t].pair /\ a = Action("chain-state", snapshot[chain[t].mint].multiplier)
      \/ a = Action("unknown", 0)
    BY <1>1
<1>3. \A source, previous :
          /\ DOMAIN Action(source, previous) = {"signature", "new", "source", "previous"}
          /\ Action(source, previous).signature = t
          /\ Action(source, previous).new = Target(t)
          /\ Action(source, previous).source = source
          /\ Action(source, previous).previous = previous
    OBVIOUS
<1> HIDE DEF Action
<1>4. /\ DOMAIN a = {"signature", "new", "source", "previous"}
      /\ a.signature = t /\ a.new = Target(t)
      /\ \/ a.source = "same-transaction" /\ chain[t].pair /\ a.previous = Carry(t)
         \/ /\ a.source = "prior-action" /\ ~chain[t].pair /\ prior # {}
            /\ a.previous = Target(greatest)
         \/ /\ a.source = "chain-state" /\ ~chain[t].pair
            /\ a.previous = snapshot[chain[t].mint].multiplier
         \/ a.source = "unknown"
    BY <1>2, <1>3
<1>5. QED
    BY <1>4 DEF a, prior, greatest

\* The value a pair re-asserts came into force before the pair landed: the
\* change that is announced ahead is sorted behind it.
LEMMA PairSorts ==
    ASSUME ChainInv, NEW t \in Updates, Ahead(t)
    PROVE  Target(t) = t /\ Carry(t) = chain[t].before
<1>1. t \in Nat /\ chain[t].effective \in Nat /\ t < chain[t].effective
    BY UpdatesTyped DEF ChainInv, Ahead
<1>2. chain[t].before # 0 =>
          /\ chain[t].before \in Updates
          /\ chain[chain[t].before].effective <= t
    BY DEF ChainInv, InForceIsPast
<1>3. chain[t].before # 0 => chain[chain[t].before].effective \in Nat
    BY <1>2, UpdatesTyped DEF ChainInv
<1>4. InOrder(t)
    BY <1>1, <1>2, <1>3 DEF InOrder, OriginalTime
<1>5. QED
    BY <1>4 DEF Target, Carry

\* A file of actions is told from a torn one, and holds the signatures it was
\* written from.
LEMMA WrittenFile ==
    ASSUME NEW signatures, file' = {Resolve(signatures, t) : t \in signatures}
    PROVE  Existing' = signatures
<1>1. \A t : /\ DOMAIN Resolve(signatures, t) = {"signature", "new", "source", "previous"}
            /\ Resolve(signatures, t).signature = t
    BY ResolveSays
<1>2. file' # Torn
    <2> DEFINE torn == [signature |-> 0]
    <2>1. DOMAIN torn = {"signature"} /\ torn \in Torn
        BY DEF Torn
    <2> HIDE DEF torn
    <2>2. "source" \in {"signature", "new", "source", "previous"} /\ "source" \notin {"signature"}
        OBVIOUS
    <2>3. torn \notin file'
        BY <1>1, <2>1, <2>2
    <2>4. QED
        BY <2>1, <2>3
<1>3. Existing' = {a.signature : a \in file'}
    BY <1>2 DEF Existing, Torn
<1>4. QED
    BY <1>1, <1>3

\* A survey that ends leaves the chain and, on file, changes that are on it.
LEMMA ExitKeeps ==
    ASSUME ChainInv, PlanSound, Exit, Existing' \subseteq Updates
    PROVE  ChainInv' /\ SnapshotIsTrue' /\ PlanSound' /\ StillInReach'
<1>1. /\ chain' = chain /\ config' = config
      /\ pc' = "idle" /\ filter' = Mints /\ snapshot' = [m \in Mints |-> Created]
      /\ tasks' = <<>> /\ cursor' = 0 /\ pages' = 0 /\ found' = {} /\ anchored' = {}
      /\ began' = 0
    BY DEF Exit, chainVars
<1>2. Updates' = Updates
    BY <1>1 DEF Updates
<1>3. ChainInv'
    <2>1. ConfigIsLast'
        BY <1>1, <1>2 DEF ChainInv, ConfigIsLast, ChangesOf, Configs, Created, Ahead
    <2>2. HistoryIsTrue'
        BY <1>1, <1>2 DEF ChainInv, HistoryIsTrue, Earlier
    <2>3. InForceIsPast'
        BY <1>1, <1>2 DEF ChainInv, InForceIsPast
    <2>4. QED
        BY <1>1, <2>1, <2>2, <2>3 DEF ChainInv
<1>4. SnapshotIsTrue'
    <2>1. Created \in [multiplier : Nat, new : Nat, effective : Nat] /\ Created.new = 0
        BY DEF Created
    <2>2. QED
        BY <1>1, <2>1 DEF SnapshotIsTrue, Configs
<1>5. PlanSound'
    <2>1. Len(chain) \in Nat
        BY DEF ChainInv
    <2>2. tasks' \in Seq(Tasks)
        BY <1>1
    <2>3. QED
        BY <1>1, <1>2, <2>1, <2>2, ConstantsTyped DEF PlanSound
<1>6. StillInReach'
    BY <1>1 DEF StillInReach
<1>7. QED
    BY <1>3, <1>4, <1>5, <1>6

\* What is written comes from the file there was and from what was found.
LEMMA WriteStays ==
    ASSUME PlanSound, NEW fresh \in BOOLEAN, Write(fresh)
    PROVE  /\ Merged(fresh) \subseteq Updates
           /\ file' = {Resolve(Merged(fresh), t) : t \in Merged(fresh)}
           /\ Existing' = Merged(fresh)
<1>1. file' = {Resolve(Merged(fresh), t) : t \in Merged(fresh)} /\ pc = "write"
    BY DEF Write
<1>2. Merged(fresh) \subseteq Updates
    BY <1>1 DEF PlanSound, Merged
<1>3. Existing' = Merged(fresh)
    BY <1>1, WrittenFile
<1>4. QED
    BY <1>1, <1>2, <1>3

LEMMA SurveyInvInit == ASSUME Init PROVE SurveyInv
<1>1. chain = <<>> /\ Len(chain) = 0 /\ chain \in Seq(Blocks)
    BY EmptySeq DEF Init
<1>2. Updates = {}
    BY <1>1 DEF Updates
<1>3. Created \in [multiplier : Nat, new : Nat, effective : Nat] /\ Created.new = 0
    BY DEF Created
<1>4. ChainInv
    <2>1. ConfigIsLast
        BY <1>2, <1>3 DEF Init, ConfigIsLast, ChangesOf, Configs
    <2>2. HistoryIsTrue
        BY <1>2 DEF HistoryIsTrue
    <2>3. InForceIsPast
        BY <1>2 DEF InForceIsPast
    <2>4. QED
        BY <1>1, <2>1, <2>2, <2>3, ConstantsTyped DEF ChainInv
<1>5. SnapshotIsTrue
    BY <1>3 DEF Init, SnapshotIsTrue, Configs
<1>6. PlanSound
    <2>1. tasks \in Seq(Tasks)
        BY DEF Init
    <2>2. Existing = {}
        BY DEF Init, Existing, Torn
    <2>3. QED
        BY <1>1, <2>1, <2>2, ConstantsTyped DEF Init, PlanSound
<1>7. StillInReach
    BY DEF Init, StillInReach
<1>8. QED
    BY <1>4, <1>5, <1>6, <1>7 DEF SurveyInv

LEMMA SurveyInvStep == ASSUME SurveyInv, [Next]_vars PROVE SurveyInv'
<1> SUFFICES ChainInv' /\ SnapshotIsTrue' /\ PlanSound' /\ StillInReach'
    BY DEF SurveyInv
<1> USE DEF SurveyInv
<1>1. CASE OtherBlock
    BY <1>1, OtherBlockKeeps
<1>2. ASSUME NEW m \in Mints, NEW lead \in Leads, NEW pair \in BOOLEAN,
             Schedule(m, lead, pair)
      PROVE  ChainInv' /\ SnapshotIsTrue' /\ PlanSound' /\ StillInReach'
    BY <1>2, ScheduleKeeps
<1>3. CASE Begin
    BY <1>3, BeginKeeps
<1>4. CASE Seek
    BY <1>4, SeekKeeps
<1>5. CASE ReadPage
    BY <1>5, ReadPageKeeps
<1>6. CASE Fetch
    BY <1>6, FetchKeeps
<1>7. CASE Abort
    <2>1. Exit /\ file' = file
        BY <1>7 DEF Abort
    <2>2. Existing' \subseteq Updates
        BY <2>1 DEF PlanSound, Existing, Torn
    <2>3. QED
        BY <2>1, <2>2, ExitKeeps
<1>8. CASE Tear
    <2>1. Exit /\ file' = Torn
        BY <1>8 DEF Tear
    <2>2. Existing' \subseteq Updates
        BY <2>1 DEF Existing, Torn
    <2>3. QED
        BY <2>1, <2>2, ExitKeeps
<1>9. ASSUME NEW fresh \in BOOLEAN, Write(fresh)
      PROVE  ChainInv' /\ SnapshotIsTrue' /\ PlanSound' /\ StillInReach'
    <2>1. Exit
        BY <1>9 DEF Write
    <2>2. Existing' \subseteq Updates
        BY <1>9, WriteStays
    <2>3. QED
        BY <2>1, <2>2, ExitKeeps
<1>10. CASE UNCHANGED vars
    <2>1. UNCHANGED <<chainVars, planVars, file>> /\ UNCHANGED <<pc, tasks, cursor, pages, found, missed>>
        BY <1>10 DEF vars, scanVars
    <2>2. /\ chain' = chain /\ filter' = filter /\ anchored' = anchored /\ began' = began
          /\ ChainInv' /\ SnapshotIsTrue'
          /\ Updates' = Updates /\ Existing' = Existing /\ Sought' = Sought
        BY <2>1, ReadingStandsStill
    <2>3. PlanSound'
        BY <2>1, <2>2 DEF PlanSound
    <2>4. StillInReach'
        BY <2>1, <2>2 DEF StillInReach, Covers, Touches
    <2>5. QED
        BY <2>2, <2>3, <2>4
<1>11. QED
    BY <1>1, <1>2, <1>3, <1>4, <1>5, <1>6, <1>7, <1>8, <1>9, <1>10 DEF Next, Issuer, Survey

-----------------------------------------------------------------------------
(* The theorems.                                                           *)

\* A survey reads windows that hold all it looks for, and what it has not
\* found is always in front of it, for any plan, page size and slack, and
\* whatever lands on the chain meanwhile: seekSignatureAt,
\* scanSignaturesBackwards and mergeWindows together.
THEOREM SurveyKeepsReach == Spec => []SurveyInv
<1>1. Init => SurveyInv
    BY SurveyInvInit
<1>2. SurveyInv /\ [Next]_vars => SurveyInv'
    BY SurveyInvStep
<1>3. QED
    BY <1>1, <1>2, PTL DEF Spec

\* The survey's state is well formed: it keeps and files only changes that are
\* on the chain.
THEOREM SurveyTypeCorrect == Spec => []TypeOK
<1>1. SurveyInv => TypeOK
    BY DEF SurveyInv, ChainInv, PlanSound, TypeOK
<1>2. QED
    BY <1>1, SurveyKeepsReach, PTL

\* A survey that did not say it stopped short has every change it was after:
\* nothing falls between two pages, two windows or two addresses.
THEOREM WindowsAreRecovered == Spec => []WindowsRecovered
<1>1. SurveyInv => WindowsRecovered
    <2> SUFFICES ASSUME SurveyInv, pc = "write", ~missed,
                        NEW m \in anchored, NEW t \in Updates, chain[t].mint = m,
                        t <= began, snapshot[m].effective <= t + Lookback,
                        t + SeekSlack < snapshot[m].effective + Grace
                 PROVE  t \in found
        BY DEF WindowsRecovered
    <2>1. t \in Sought
        BY DEF Sought
    <2>2. DOMAIN tasks = {}
        BY DEF SurveyInv, PlanSound
    <2>3. QED
        BY <2>1, <2>2, NotFoundYet DEF SurveyInv
<1>2. QED
    BY <1>1, SurveyKeepsReach, PTL

\* What is filed about a change that was announced ahead, and about the
\* multiplier it replaced, is so wherever resolvePreviousMultipliers has the
\* means to know.
THEOREM PreviousStaysTrue == Spec => PreviousIsTrue
<1> DEFINE Known(a) ==
        LET t == a.signature
        IN  /\ Ahead(t)
            /\ \/ a.source = "same-transaction"
               \/ /\ a.source = "prior-action"
                  /\ \E u \in Existing' : Ahead(u) /\ Replaced(u, t)
               \/ /\ a.source = "chain-state"
                  /\ snapshot[chain[t].mint].new = t
           True(a) == a.previous = chain[a.signature].before /\ a.new = a.signature
           Holds ==
               (\E fresh \in BOOLEAN : Write(fresh)) =>
                   \A a \in file' : Known(a) => True(a)
<1>1. ASSUME SurveyInv, NEW fresh \in BOOLEAN, Write(fresh), NEW a \in file', Known(a)
      PROVE  True(a)
    <2> DEFINE M == Merged(fresh)
    <2>1. M \subseteq Updates /\ file' = {Resolve(M, t) : t \in M} /\ Existing' = M
        BY <1>1, WriteStays DEF SurveyInv
    <2> HIDE DEF M
    <2>2. PICK t \in M : a = Resolve(M, t)
        BY <1>1, <2>1
    <2> DEFINE prior == Earlier(M, t)
               greatest == CHOOSE u \in prior : \A v \in prior : v <= u
    <2> DEFINE b == Resolve(M, t)
    <2>r. /\ b.signature = t /\ b.new = Target(t)
          /\ \/ b.source = "same-transaction" /\ chain[t].pair /\ b.previous = Carry(t)
             \/ /\ b.source = "prior-action" /\ ~chain[t].pair /\ prior # {}
                /\ b.previous = Target(greatest)
             \/ /\ b.source = "chain-state" /\ ~chain[t].pair
                /\ b.previous = snapshot[chain[t].mint].multiplier
             \/ b.source = "unknown"
        BY ResolveSays
    <2>b. a = b
        BY <2>2
    <2> HIDE DEF b, prior, greatest
    <2>3. /\ a.signature = t /\ a.new = Target(t)
          /\ \/ a.source = "same-transaction" /\ chain[t].pair /\ a.previous = Carry(t)
             \/ /\ a.source = "prior-action" /\ ~chain[t].pair /\ prior # {}
                /\ a.previous = Target(greatest)
             \/ /\ a.source = "chain-state" /\ ~chain[t].pair
                /\ a.previous = snapshot[chain[t].mint].multiplier
             \/ a.source = "unknown"
        BY <2>r, <2>b
    <2> USE DEF prior, greatest
    <2>4. /\ ChainInv /\ t \in Updates /\ t \in Nat /\ t # 0 /\ chain[t].mint \in Mints
          /\ Len(chain) \in Nat /\ Updates \in SUBSET (1 .. Len(chain))
        <3>1. ChainInv /\ chain \in Seq(Blocks) /\ t \in Updates
            BY <1>1, <2>1, <2>2 DEF SurveyInv, ChainInv
        <3>2. /\ t \in 1 .. Len(chain) /\ t \in Nat /\ chain[t].mint \in Mints
              /\ Len(chain) \in Nat /\ Updates \in SUBSET (1 .. Len(chain))
            BY <3>1, UpdatesTyped
        <3>3. QED
            BY <3>1, <3>2
    <2>5. Target(t) = t /\ Carry(t) = chain[t].before
        BY <1>1, <2>3, <2>4, PairSorts
    <2>6. prior # {} => greatest \in prior /\ \A v \in prior : v <= greatest
        <3>1. prior \in SUBSET Updates
            BY <2>1 DEF Earlier
        <3>2. IsFiniteSet(1 .. Len(chain)) /\ prior \in SUBSET (1 .. Len(chain))
            <4>1. 1 \in Int /\ Len(chain) \in Int
                BY <2>4
            <4>2. IsFiniteSet(1 .. Len(chain))
                BY <4>1, FS_Interval
            <4>3. QED
                BY <2>4, <3>1, <4>2
        <3>3. IsFiniteSet(prior) /\ prior \in SUBSET Nat
            BY <2>4, <3>2, FS_Subset
        <3> HIDE DEF prior
        <3>4. prior # {} => \E u \in prior : \A v \in prior : u >= v
            BY <3>3, GreatestExists
        <3>5. prior # {} => \E u \in prior : \A v \in prior : v <= u
            BY <3>3, <3>4
        <3>6. QED
            BY <3>5
    <2> HIDE DEF prior, greatest
    <2>7. CASE a.source = "same-transaction"
        BY <2>3, <2>5, <2>7
    <2>8. CASE a.source = "prior-action"
        <3>1. PICK u \in M : Ahead(u) /\ Replaced(u, t)
            BY <1>1, <2>1, <2>3, <2>8
        <3>2. /\ u \in Updates /\ u \in Nat /\ u \in prior
              /\ Earlier(Updates, t) \cap (u + 1 .. t) = {}
            BY <2>1, <2>4, <3>1 DEF Replaced, Earlier, prior
        <3>3. greatest \in prior /\ u <= greatest
            BY <2>6, <3>2
        <3>4. greatest \in Earlier(Updates, t) /\ greatest \in Nat /\ greatest <= t
            <4>1. greatest \in Updates /\ greatest < t /\ greatest \in Earlier(Updates, t)
                BY <2>1, <3>3 DEF prior, Earlier
            <4>2. QED
                BY <2>4, <4>1
        <3>5. greatest = u
            <4>1. ~(greatest \in u + 1 .. t)
                BY <3>2, <3>4
            <4>2. QED
                BY <2>4, <3>2, <3>3, <3>4, <4>1
        <3>6. Target(u) = u
            BY <2>4, <3>1, <3>2, PairSorts
        <3>7. chain[t].before = u
            BY <2>4, <3>1 DEF ChainInv, HistoryIsTrue, Replaced
        <3>8. QED
            BY <2>3, <2>5, <2>8, <3>5, <3>6, <3>7
    <2>9. CASE a.source = "chain-state"
        <3>1. snapshot[chain[t].mint].new = t /\ Ahead(t)
            BY <1>1, <2>3, <2>9
        <3>2. snapshot[chain[t].mint].multiplier = chain[t].before
            BY <1>1, <2>4, <3>1 DEF SurveyInv, SnapshotIsTrue
        <3>3. QED
            BY <2>3, <2>5, <2>9, <3>2
    <2>10. QED
        BY <1>1, <2>7, <2>8, <2>9
<1>2. SurveyInv /\ [Next]_vars => [Holds]_vars
    <2>1. SurveyInv => Holds
        BY <1>1
    <2>2. QED
        BY <2>1
<1>3. QED
    BY <1>2, SurveyKeepsReach, PTL DEF Spec, PreviousIsTrue
=============================================================================
