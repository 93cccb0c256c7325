---------------------------- MODULE VenueProofs ----------------------------
(***************************************************************************)
(* What the clock of a series keeps, whatever the calendar, the length of  *)
(* the window and the ages are: the records are well formed, and holders   *)
(* are never short of the minutes of their window.  Then the clock under   *)
(* the book: whatever the calendar, the attestor and the issuer do, the    *)
(* phase an instruction derives moves as the book assumes.                 *)
(***************************************************************************)
EXTENDS Venue, FiniteSetTheorems, TLAPS

-----------------------------------------------------------------------------
(* Products and quotients.                                                 *)

\* A positive factor can be cancelled from an inequality.
LEMMA ProductCancel ==
    ASSUME NEW a \in Int, NEW b \in Int, NEW c \in Nat \ {0}, a * c <= b * c
    PROVE  a <= b
    OBVIOUS

\* Integer division of a natural by a positive natural.
LEMMA DivisionBounds ==
    ASSUME NEW a \in Nat, NEW d \in Nat \ {0}
    PROVE  /\ a \div d \in Nat
           /\ (a \div d) * d <= a
           /\ a < (a \div d) * d + d
    OBVIOUS

-----------------------------------------------------------------------------
(* Types.                                                                  *)

\* Days are counted in order.
LEMMA DayMonotone ==
    ASSUME NEW a \in Nat, NEW b \in Nat, a <= b
    PROVE  a \div DayLength <= b \div DayLength
<1> DEFINE d == DayLength
           p == a \div d
           q == b \div d
<1>1. d \in Nat \ {0}
    BY WindowAssumption
<1>2. /\ p \in Nat /\ p * d <= a
      /\ q \in Nat /\ b < q * d + d
    BY <1>1, DivisionBounds
<1> HIDE DEF d, p, q
<1>3. p * d <= (q + 1) * d /\ p * d # (q + 1) * d
    BY <1>1, <1>2
<1>4. p <= q + 1
    BY <1>1, <1>2, <1>3, ProductCancel
<1>5. QED
    BY <1>2, <1>3, <1>4 DEF d, p, q

\* The bound on the clock leaves room after expiry.
LEMMA ClockRoom == Expiry \in Nat /\ MaxNow \in Nat /\ Expiry < MaxNow
<1>1. Expiry \in Nat /\ MaxNow \in Nat
    BY WindowAssumption
<1>2. MaxNow <= Expiry => MaxNow \div DayLength <= Expiry \div DayLength
    BY <1>1, DayMonotone
<1>3. /\ MaxNow \div DayLength \in Nat
      /\ Expiry \div DayLength \in Nat
    BY <1>1, WindowAssumption, DivisionBounds
<1>4. QED
    BY <1>1, <1>2, <1>3, WindowAssumption DEF Saturates

LEMMA InitType == Init => TypeOK
<1> SUFFICES ASSUME Init PROVE TypeOK
    OBVIOUS
<1>1. /\ 0 \in Times /\ 1 \in Times
      /\ 0 \in 0 .. MaxHalts /\ 0 \in 0 .. MaxChanges
    BY ClockRoom, WindowAssumption DEF Times
<1>2. /\ halt \in [halted : BOOLEAN, since_ts : Times, attested_ts : Times,
                   lifted_ts : Times]
      /\ halt.since_ts = 0 /\ halt.attested_ts = 0 /\ halt.lifted_ts = 0
    BY <1>1 DEF Init, NoHalt
<1>3. settled_once \in BOOLEAN /\ ~halt.halted
    BY DEF Init, NoHalt
<1>4. now \in Times /\ change_ts \in Times /\ window_opened_ts = 0
      /\ served \in Nat /\ refused \in Nat
      /\ halts \in 0 .. MaxHalts /\ changes \in 0 .. MaxChanges
    BY <1>1 DEF Init
<1>5. halt.since_ts <= halt.attested_ts /\ halt.attested_ts <= now
      /\ halt.lifted_ts <= halt.attested_ts
    BY <1>2 DEF Init
<1>6. QED
    BY <1>2, <1>3, <1>4, <1>5 DEF TypeOK

\* A minute passes: no record is in the future, before or after.
LEMMA TickType == TypeOK /\ Tick => TypeOK'
<1> SUFFICES ASSUME TypeOK, Tick PROVE TypeOK'
    OBVIOUS
<1>1. /\ now \in Nat /\ now < MaxNow /\ now' = now + 1
      /\ UNCHANGED <<halt, halts, change_ts, changes, window_opened_ts,
                     settled_once>>
    BY WindowAssumption
    DEF Tick, TypeOK, Times, haltVars, mintVars, bookVars
<1>2. served' \in Nat /\ refused' \in Nat
    BY DEF Tick, TypeOK
<1>3. now' \in Times /\ \A t \in Times : t <= now => t <= now'
    BY <1>1, WindowAssumption DEF Times
<1>4. halt.attested_ts \in Times
    BY DEF TypeOK
<1>5. window_opened_ts' \in {0} \cup Expiry .. now'
    BY <1>1, WindowAssumption DEF TypeOK
<1>6. QED
    BY <1>1, <1>2, <1>3, <1>4, <1>5 DEF TypeOK

LEMMA NextType == TypeOK /\ [Next]_vars => TypeOK'
<1> SUFFICES ASSUME TypeOK, [Next]_vars PROVE TypeOK'
    OBVIOUS
<1>1. CASE Tick
    BY <1>1, TickType
<1>2. CASE Exercise
    <2>1. now \in Expiry .. now
        BY <1>2, WindowAssumption DEF Exercise, Phase, TypeOK, Times
    <2>2. QED
        BY <1>2, <2>1
        DEF Exercise, TypeOK, Times, clockVars, haltVars, mintVars
<1>3. CASE SettleExpired
    BY <1>3
    DEF SettleExpired, TypeOK, Times, clockVars, haltVars, mintVars
<1>4. CASE ClearHalt
    <2>1. /\ UNCHANGED <<now, served, refused, halts, change_ts, changes,
                        window_opened_ts, settled_once>>
          /\ now \in Times /\ now \in Nat /\ 0 \in Times
        BY <1>4, WindowAssumption
        DEF ClearHalt, TypeOK, Times, clockVars, mintVars, bookVars
    <2>2. /\ halt'.halted = FALSE /\ halt'.attested_ts = now
          /\ halt'.since_ts = halt.since_ts
          /\ halt'.lifted_ts \in {now, halt.lifted_ts}
          /\ halt' \in [halted : BOOLEAN, since_ts : Times,
                         attested_ts : Times, lifted_ts : Times]
        BY <1>4, <2>1 DEF ClearHalt, TypeOK
    <2>3. /\ halt.since_ts \in Nat /\ halt.attested_ts \in Nat
          /\ halt.lifted_ts \in Nat
        BY WindowAssumption DEF TypeOK, Times
    <2>4. QED
        BY <2>1, <2>2, <2>3 DEF TypeOK
<1>5. ASSUME NEW t \in Times, AttestHalt(t)
      PROVE  TypeOK'
    BY <1>5, WindowAssumption
    DEF AttestHalt, TypeOK, Times, clockVars, mintVars, bookVars
<1>6. ASSUME NEW t \in Times, ScheduleChange(t)
      PROVE  TypeOK'
    BY <1>6, WindowAssumption
    DEF ScheduleChange, TypeOK, Times, clockVars, haltVars, bookVars
<1>7. CASE UNCHANGED vars
    BY <1>7
    DEF vars, clockVars, haltVars, mintVars, bookVars, TypeOK, Times
<1>8. QED
    BY <1>1, <1>2, <1>3, <1>4, <1>5, <1>6, <1>7 DEF Next

\* The accounts of the clock keep their types: no recorded time is in the
\* future, a halt is lifted no earlier than it was attested, and the window
\* opens inside itself.
THEOREM ClockTypeCorrect == Spec => []TypeOK
<1>1. QED
    BY InitType, NextType, PTL DEF Spec

-----------------------------------------------------------------------------
(* Counting minutes of session.                                            *)

\* The open minutes of [from, to), without the limit of the scan.
Count(from, to) == Cardinality(OpenTimes \cap (from .. to - 1))

\* A count is a natural, is nothing for an empty interval, and never exceeds
\* the length of its interval.
LEMMA CountBounds ==
    ASSUME NEW a \in Nat, NEW b \in Nat
    PROVE  /\ Count(a, b) \in Nat
           /\ IsFiniteSet(OpenTimes \cap (a .. b - 1))
           /\ b <= a => Count(a, b) = 0
           /\ Count(a, b) <= b
<1> DEFINE I == a .. b - 1
           S == OpenTimes \cap I
<1>1. IsFiniteSet(I) /\ Cardinality(I) = IF a > b - 1 THEN 0 ELSE b - 1 - a + 1
    BY FS_Interval
<1>2. S \in SUBSET I
    OBVIOUS
<1>3. IsFiniteSet(S) /\ Cardinality(S) <= Cardinality(I)
    BY <1>1, <1>2, FS_Subset
<1>4. Cardinality(S) \in Nat
    BY <1>3, FS_CardinalityType
<1>5. b <= a => Cardinality(I) = 0
    BY <1>1
<1>6. Cardinality(I) \in Nat /\ Cardinality(I) <= b
    BY <1>1
<1> HIDE DEF I
<1>7. QED
    BY <1>3, <1>4, <1>5, <1>6 DEF Count, I

\* A minute more counts for one if it is a minute of session.
LEMMA CountStep ==
    ASSUME NEW a \in Nat, NEW b \in Nat
    PROVE  Count(a, b + 1) =
               IF b \in OpenTimes /\ a <= b THEN Count(a, b) + 1 ELSE Count(a, b)
<1> DEFINE S == OpenTimes \cap (a .. b - 1)
           T == OpenTimes \cap (a .. b)
<1>1. IsFiniteSet(S)
    BY CountBounds
<1>2. CASE b \in OpenTimes /\ a <= b
    <2>1. T = S \cup {b} /\ b \notin S
        BY <1>2
    <2> HIDE DEF S, T
    <2>2. Cardinality(T) = Cardinality(S) + 1
        BY <1>1, <2>1, FS_AddElement
    <2>3. QED
        BY <1>2, <2>2 DEF Count, S, T
<1>3. CASE ~(b \in OpenTimes /\ a <= b)
    <2>1. T = S
        BY <1>3
    <2>2. QED
        BY <1>3, <2>1 DEF Count
<1>4. QED
    BY <1>2, <1>3

\* A later end never counts for less.
LEMMA CountMonotone ==
    ASSUME NEW a \in Nat, NEW b \in Nat, NEW c \in Nat, b <= c
    PROVE  Count(a, b) <= Count(a, c)
<1> DEFINE S == OpenTimes \cap (a .. b - 1)
           T == OpenTimes \cap (a .. c - 1)
<1>1. IsFiniteSet(T)
    BY CountBounds
<1>2. S \in SUBSET T
    OBVIOUS
<1> HIDE DEF S, T
<1>3. Cardinality(S) <= Cardinality(T)
    BY <1>1, <1>2, FS_Subset
<1>4. QED
    BY <1>3 DEF S, T, Count

\* Inside an interval the scan can follow, it counts every open minute.
LEMMA ScanCounts ==
    ASSUME NEW a \in Nat, NEW b \in Nat, NEW c \in Nat,
           Expiry <= a, b <= c, ~Saturates(Expiry, c)
    PROVE  OpenMinutesBetween(a, b) = Count(a, b)
<1>1. CASE b <= a
    BY <1>1, CountBounds DEF OpenMinutesBetween
<1>2. CASE a < b
    <2>1. /\ Expiry \div DayLength \in Nat
          /\ a \div DayLength \in Nat
          /\ b \div DayLength \in Nat
          /\ c \div DayLength \in Nat
        BY WindowAssumption, ClockRoom, DivisionBounds
    <2>2. /\ Expiry \div DayLength <= a \div DayLength
          /\ b \div DayLength <= c \div DayLength
        BY ClockRoom, DayMonotone
    <2>3. ~Saturates(a, b)
        BY <2>1, <2>2, WindowAssumption DEF Saturates
    <2>4. QED
        BY <1>2, <2>3 DEF OpenMinutesBetween, Count
<1>3. QED
    BY <1>1, <1>2

-----------------------------------------------------------------------------
(* The minutes that were refused are the minutes given back.               *)

\* What the record of the halt accounts for since the first exercise.
HaltStart == Greatest(Greatest(halt.since_ts, Expiry), window_opened_ts)

HaltEnd ==
    IF halt.halted THEN Least(halt.attested_ts + HaltMaxAge, now)
    ELSE halt.lifted_ts

HaltCredit ==
    IF halt.halted \/ halt.lifted_ts > 0 THEN Count(HaltStart, HaltEnd) ELSE 0

\* What the mint's scheduled change accounts for since the first exercise.
QuietStart ==
    Greatest(Greatest(change_ts - QuietPeriod, Expiry), window_opened_ts)

QuietCredit ==
    IF change_ts = 0 THEN 0 ELSE Count(QuietStart, Least(change_ts, now))

\* Before the first exercise every open minute was served or refused; and at
\* any time what was not served is covered by the two credits, but for what
\* the first exercise gave up.
WindowInv ==
    /\ TypeOK
    /\ now > 0
    /\ halts = 0 => ~halt.halted /\ halt.lifted_ts = 0
    /\ changes = 0 => change_ts = 0
    /\ window_opened_ts = 0 => Count(Expiry, now) = served + refused
    /\ Count(Expiry, now) <= served + Forgone + HaltCredit + QuietCredit

\* The records as the numbers they are.
LEMMA ClockNumbers ==
    ASSUME TypeOK
    PROVE  /\ now \in Nat /\ now <= MaxNow
           /\ halt.since_ts \in Nat /\ halt.attested_ts \in Nat
           /\ halt.lifted_ts \in Nat
           /\ halt.since_ts <= halt.attested_ts /\ halt.attested_ts <= now
           /\ halt.lifted_ts <= now
           /\ change_ts \in Nat
           /\ window_opened_ts \in Nat /\ window_opened_ts <= now
           /\ window_opened_ts # 0 => Expiry <= window_opened_ts
           /\ served \in Nat /\ refused \in Nat
           /\ Expiry \in Nat \ {0}
<1>1. /\ now \in Times /\ halt.since_ts \in Times /\ halt.attested_ts \in Times
      /\ halt.lifted_ts \in Times /\ change_ts \in Times
      /\ halt.since_ts <= halt.attested_ts /\ halt.attested_ts <= now
      /\ halt.lifted_ts <= halt.attested_ts
      /\ window_opened_ts \in {0} \cup Expiry .. now
      /\ served \in Nat /\ refused \in Nat
    BY DEF TypeOK
<1>2. QED
    BY <1>1, WindowAssumption DEF Times

\* Both credits are counts of minutes after expiry.
LEMMA CreditBounds ==
    ASSUME TypeOK
    PROVE  /\ HaltStart \in Nat /\ Expiry <= HaltStart
           /\ HaltEnd \in Nat /\ HaltEnd <= now
           /\ HaltCredit \in Nat /\ HaltCredit <= now
           /\ QuietStart \in Nat /\ Expiry <= QuietStart
           /\ Least(change_ts, now) \in Nat /\ Least(change_ts, now) <= now
           /\ QuietCredit \in Nat /\ QuietCredit <= now
<1>1. /\ HaltStart \in Nat /\ Expiry <= HaltStart
      /\ QuietStart \in Nat /\ Expiry <= QuietStart
      /\ Least(change_ts, now) \in Nat /\ Least(change_ts, now) <= now
    BY ClockNumbers, WindowAssumption DEF HaltStart, QuietStart, Greatest, Least
<1>2. /\ Least(halt.attested_ts + HaltMaxAge, now) \in Nat
      /\ Least(halt.attested_ts + HaltMaxAge, now) <= now
    BY ClockNumbers, WindowAssumption DEF Least
<1>3. HaltEnd \in Nat /\ HaltEnd <= now
    <2>1. CASE halt.halted
        BY <2>1, <1>2 DEF HaltEnd
    <2>2. CASE ~halt.halted
        BY <2>2, ClockNumbers DEF HaltEnd
    <2>3. QED
        BY <2>1, <2>2
<1>4. /\ Count(HaltStart, HaltEnd) \in Nat
      /\ Count(HaltStart, HaltEnd) <= HaltEnd
      /\ Count(QuietStart, Least(change_ts, now)) \in Nat
      /\ Count(QuietStart, Least(change_ts, now)) <= Least(change_ts, now)
    BY <1>1, <1>3, CountBounds
<1>5. now \in Nat /\ 0 <= now
    BY ClockNumbers
<1>6. HaltCredit = 0 \/ HaltCredit = Count(HaltStart, HaltEnd)
    BY DEF HaltCredit
<1>7. HaltCredit \in Nat /\ HaltCredit <= now
    BY <1>3, <1>4, <1>5, <1>6
<1>8. QuietCredit \in Nat /\ QuietCredit <= now
    BY <1>1, <1>4, <1>5 DEF QuietCredit
<1>9. QED
    BY <1>1, <1>3, <1>7, <1>8

LEMMA CreditsNat == TypeOK => HaltCredit \in Nat /\ QuietCredit \in Nat
    BY CreditBounds

LEMMA CreditsNatNext ==
    ASSUME TypeOK'
    PROVE  HaltCredit' \in Nat /\ QuietCredit' \in Nat
<1>1. TypeOK' => (HaltCredit \in Nat /\ QuietCredit \in Nat)'
    BY CreditsNat, PTL
<1>2. QED
    BY <1>1

LEMMA InitWindow == Init => WindowInv
<1> SUFFICES ASSUME Init PROVE WindowInv
    OBVIOUS
<1>1. TypeOK
    BY InitType
<1>2. /\ now = 1 /\ served = 0 /\ refused = 0 /\ change_ts = 0
      /\ Forgone = 0
    BY DEF Init, Forgone
<1>3. ~halt.halted /\ halt.lifted_ts = 0
    BY DEF Init, NoHalt
<1>4. Count(Expiry, now) = 0
    <2>1. Expiry \in Nat /\ now \in Nat /\ now <= Expiry
        BY <1>2, WindowAssumption
    <2>2. QED
        BY <2>1, CountBounds
<1>5. HaltCredit \in Nat /\ QuietCredit \in Nat
    BY <1>1, CreditBounds
<1>6. QED
    BY <1>1, <1>2, <1>3, <1>4, <1>5 DEF WindowInv

\* A minute lengthens the interval of a halt in force by a minute, and
\* shortens no interval.
LEMMA TickHaltCredit ==
    ASSUME TypeOK, Tick
    PROVE  /\ HaltCredit' \in Nat
           /\ HaltCredit' >= HaltCredit
           /\ (/\ halt.halted /\ now - halt.attested_ts < HaltMaxAge
               /\ now \in OpenTimes /\ Expiry <= now)
                  => HaltCredit' = HaltCredit + 1
<1> DEFINE until == halt.attested_ts + HaltMaxAge
<1>1. /\ now' = now + 1
      /\ HaltStart' = HaltStart
      /\ halt' = halt
    BY DEF Tick, HaltStart, haltVars, bookVars
<1>2. /\ now \in Nat /\ until \in Nat /\ halt.lifted_ts \in Nat
      /\ HaltStart \in Nat
      /\ HaltCredit \in Nat
    BY ClockNumbers, CreditBounds, WindowAssumption
<1>3. /\ Least(until, now) \in Nat /\ Least(until, now + 1) \in Nat
      /\ Least(until, now) <= Least(until, now + 1)
      /\ now < until => Least(until, now) = now /\ Least(until, now + 1) = now + 1
    BY <1>2 DEF Least
<1> HIDE DEF until
<1>4. /\ Count(HaltStart, Least(until, now)) <= Count(HaltStart, Least(until, now + 1))
      /\ Count(HaltStart, Least(until, now + 1)) \in Nat
    BY <1>2, <1>3, CountMonotone, CountBounds
<1>5. CASE halt.halted
    <2>1. /\ HaltCredit = Count(HaltStart, Least(until, now))
          /\ HaltCredit' = Count(HaltStart, Least(until, now + 1))
        BY <1>1, <1>5 DEF HaltCredit, HaltEnd, until
    <2>2. ASSUME now - halt.attested_ts < HaltMaxAge, now \in OpenTimes,
                 Expiry <= now
          PROVE  HaltCredit' = HaltCredit + 1
        <3>1. now < until
            BY <2>2, ClockNumbers, WindowAssumption DEF until
        <3>2. HaltStart <= now
            BY <2>2, ClockNumbers DEF HaltStart, Greatest
        <3>3. /\ HaltCredit = Count(HaltStart, now)
              /\ HaltCredit' = Count(HaltStart, now + 1)
            BY <1>3, <2>1, <3>1
        <3>4. QED
            BY <1>2, <2>2, <3>2, <3>3, CountStep
    <2>3. HaltCredit' \in Nat /\ HaltCredit' >= HaltCredit
        BY <1>2, <1>4, <2>1
    <2>4. QED
        BY <2>2, <2>3
<1>6. CASE ~halt.halted
    <2>1. HaltCredit' = HaltCredit
        BY <1>1, <1>6 DEF HaltCredit, HaltEnd
    <2>2. HaltCredit' \in Nat /\ HaltCredit' >= HaltCredit
        BY <1>2, <2>1
    <2>3. QED
        BY <1>6, <2>2
<1>7. QED
    BY <1>5, <1>6

\* A minute lengthens the quiet interval it lies in by a minute, and shortens
\* no interval.
LEMMA TickQuietCredit ==
    ASSUME TypeOK, Tick
    PROVE  /\ QuietCredit' \in Nat
           /\ QuietCredit' >= QuietCredit
           /\ (/\ change_ts # 0 /\ now < change_ts
               /\ change_ts - now <= QuietPeriod
               /\ now \in OpenTimes /\ Expiry <= now)
                  => QuietCredit' = QuietCredit + 1
<1>1. /\ now' = now + 1
      /\ QuietStart' = QuietStart
      /\ change_ts' = change_ts
    BY DEF Tick, QuietStart, mintVars, bookVars
<1>2. /\ now \in Nat /\ change_ts \in Nat /\ QuietStart \in Nat
      /\ QuietCredit \in Nat
    BY ClockNumbers, CreditBounds
<1>3. /\ Least(change_ts, now) \in Nat /\ Least(change_ts, now + 1) \in Nat
      /\ Least(change_ts, now) <= Least(change_ts, now + 1)
      /\ now < change_ts => /\ Least(change_ts, now) = now
                            /\ Least(change_ts, now + 1) = now + 1
    BY <1>2 DEF Least
<1>4. /\ Count(QuietStart, Least(change_ts, now))
             <= Count(QuietStart, Least(change_ts, now + 1))
      /\ Count(QuietStart, Least(change_ts, now + 1)) \in Nat
    BY <1>2, <1>3, CountMonotone, CountBounds
<1>5. CASE change_ts = 0
    BY <1>1, <1>2, <1>5 DEF QuietCredit
<1>6. CASE change_ts # 0
    <2>1. /\ QuietCredit = Count(QuietStart, Least(change_ts, now))
          /\ QuietCredit' = Count(QuietStart, Least(change_ts, now + 1))
        BY <1>1, <1>6 DEF QuietCredit
    <2>2. ASSUME now < change_ts, change_ts - now <= QuietPeriod,
                 now \in OpenTimes, Expiry <= now
          PROVE  QuietCredit' = QuietCredit + 1
        <3>1. QuietStart <= now
            BY <2>2, ClockNumbers, WindowAssumption DEF QuietStart, Greatest
        <3>2. /\ QuietCredit = Count(QuietStart, now)
              /\ QuietCredit' = Count(QuietStart, now + 1)
            BY <1>3, <2>1, <2>2
        <3>3. QED
            BY <1>2, <2>2, <3>1, <3>2, CountStep
    <2>3. QED
        BY <1>2, <1>4, <2>1, <2>2
<1>7. QED
    BY <1>5, <1>6

\* Time passes: the minute is served, or one of the two intervals grows by it.
LEMMA TickWindow == WindowInv /\ Tick => WindowInv'
<1> SUFFICES ASSUME WindowInv, Tick PROVE WindowInv'
    OBVIOUS
<1>1. TypeOK /\ TypeOK'
    BY TickType DEF WindowInv
<1> DEFINE counts == now \in OpenTimes /\ Expiry <= now
           owed == HaltCredit + QuietCredit
<1>2. /\ now' = now + 1
      /\ halt' = halt /\ halts' = halts
      /\ change_ts' = change_ts /\ changes' = changes
      /\ window_opened_ts' = window_opened_ts
    BY DEF Tick, haltVars, mintVars, bookVars
<1>3. /\ now \in Nat /\ served \in Nat /\ refused \in Nat /\ Expiry \in Nat
      /\ HaltCredit \in Nat /\ QuietCredit \in Nat
    BY <1>1, ClockNumbers, CreditBounds
<1>4. /\ HaltCredit' \in Nat /\ QuietCredit' \in Nat
      /\ HaltCredit' >= HaltCredit /\ QuietCredit' >= QuietCredit
    BY <1>1, TickHaltCredit, TickQuietCredit
<1>5. /\ counts => Count(Expiry, now') = Count(Expiry, now) + 1
      /\ ~counts => Count(Expiry, now') = Count(Expiry, now)
      /\ Count(Expiry, now) \in Nat
    BY <1>2, <1>3, CountStep, CountBounds
<1>6. Forgone' = Forgone /\ Forgone \in Nat
    <2>1. window_opened_ts # 0 => refused' = refused
        BY <1>3 DEF Tick
    <2>2. QED
        BY <1>2, <1>3, <2>1 DEF Forgone
<1>7. CASE ~counts
    <2>1. served' = served /\ refused' = refused
        BY <1>3, <1>7 DEF Tick
    <2>2. QED
        BY <1>1, <1>2, <1>3, <1>4, <1>5, <1>6, <1>7, <2>1 DEF WindowInv
<1>8. CASE counts /\ ~RefusesThisMinute
    <2>1. served' = served + 1 /\ refused' = refused
        BY <1>3, <1>8 DEF Tick
    <2>2. QED
        BY <1>1, <1>2, <1>3, <1>4, <1>5, <1>6, <1>8, <2>1 DEF WindowInv
<1>9. CASE counts /\ RefusesThisMinute
    <2>1. /\ served' = served
          /\ window_opened_ts = 0 => refused' = refused + 1
        BY <1>3, <1>9 DEF Tick
    <2>2. \/ halt.halted /\ now - halt.attested_ts < HaltMaxAge
          \/ /\ change_ts # 0 /\ now < change_ts
             /\ change_ts - now <= QuietPeriod
        BY <1>9 DEF RefusesThisMinute
    <2>3. HaltCredit' = HaltCredit + 1 \/ QuietCredit' = QuietCredit + 1
        BY <1>1, <1>9, <2>2, TickHaltCredit, TickQuietCredit
    <2>4. Count(Expiry, now') <= served' + Forgone' + HaltCredit' + QuietCredit'
        BY <1>3, <1>4, <1>5, <1>6, <1>9, <2>1, <2>3 DEF WindowInv
    <2>5. window_opened_ts' = 0 => Count(Expiry, now') = served' + refused'
        BY <1>2, <1>3, <1>5, <1>9, <2>1 DEF WindowInv
    <2>6. QED
        BY <1>1, <1>2, <1>3, <2>4, <2>5 DEF WindowInv
<1>10. QED
    BY <1>7, <1>8, <1>9

\* The first exercise finds nothing owed: every open minute before it was
\* served, or was refused and is now given up.
LEMMA ExerciseWindow == WindowInv /\ Exercise => WindowInv'
<1> SUFFICES ASSUME WindowInv, Exercise PROVE WindowInv'
    OBVIOUS
<1>1. TypeOK /\ TypeOK'
    BY NextType DEF WindowInv, Next
<1>2. /\ UNCHANGED <<now, served, refused, halt, halts, change_ts, changes>>
      /\ window_opened_ts' =
             IF window_opened_ts = 0 THEN now ELSE window_opened_ts
    BY DEF Exercise, clockVars, haltVars, mintVars
<1>3. now \in Nat /\ now > 0
    BY <1>1, ClockNumbers DEF WindowInv
<1>4. CASE window_opened_ts # 0
    <2>1. HaltCredit' = HaltCredit /\ QuietCredit' = QuietCredit
        BY <1>2, <1>4
        DEF HaltCredit, QuietCredit, HaltStart, HaltEnd, QuietStart
    <2>2. Forgone' = Forgone
        BY <1>2, <1>4 DEF Forgone
    <2>3. QED
        BY <1>1, <1>2, <1>4, <2>1, <2>2 DEF WindowInv
<1>5. CASE window_opened_ts = 0
    <2>1. window_opened_ts' # 0
        BY <1>2, <1>3, <1>5
    <2>2. HaltCredit' \in Nat /\ QuietCredit' \in Nat
        BY <1>1, CreditsNatNext
    <2>3. Count(Expiry, now) = served + refused
        BY <1>5 DEF WindowInv
    <2>4. served \in Nat /\ refused \in Nat
        BY <1>1, ClockNumbers
    <2>5. now' = now /\ served' = served /\ Forgone' = refused
        BY <1>2, <2>1 DEF Forgone
    <2>6. Count(Expiry, now') <= served' + Forgone' + HaltCredit' + QuietCredit'
        <3>1. Count(Expiry, now') = Count(Expiry, now)
            BY <2>5
        <3>2. served + refused <= served + refused + HaltCredit' + QuietCredit'
            <4>1. \A a, b, c, d \in Nat : a + b <= a + b + c + d
                OBVIOUS
            <4>2. QED
                BY <2>2, <2>4, <4>1
        <3>3. QED
            BY <2>3, <2>5, <3>1, <3>2
    <2>7. QED
        BY <1>1, <1>2, <2>1, <2>6 DEF WindowInv
<1>6. QED
    BY <1>4, <1>5

\* The attestor's word never takes back what is owed: a refresh and a
\* clearance lengthen the interval, and the only halt begins with nothing
\* recorded.
LEMMA HaltWindow ==
    ASSUME MaxHalts <= 1
    PROVE  WindowInv /\ (ClearHalt \/ \E t \in Times : AttestHalt(t))
               => WindowInv'
<1> SUFFICES ASSUME WindowInv, ClearHalt \/ \E t \in Times : AttestHalt(t)
             PROVE  WindowInv'
    OBVIOUS
<1> DEFINE until == halt.attested_ts + HaltMaxAge
<1>1. TypeOK /\ TypeOK'
    BY NextType DEF WindowInv, Next
<1>2. UNCHANGED <<now, served, refused, change_ts, changes, window_opened_ts>>
    BY DEF ClearHalt, AttestHalt, clockVars, mintVars, bookVars
<1>3. QuietCredit' = QuietCredit
    BY <1>2 DEF QuietCredit, QuietStart
<1>4. /\ now \in Nat /\ now > 0 /\ until \in Nat /\ halt.lifted_ts \in Nat
      /\ served \in Nat /\ Forgone \in Nat /\ HaltStart \in Nat
      /\ HaltCredit \in Nat /\ QuietCredit \in Nat
    BY <1>1, ClockNumbers, CreditBounds, WindowAssumption DEF WindowInv, Forgone
<1>5. Least(until, now) \in Nat /\ Least(until, now) <= now
    BY <1>4 DEF Least
<1> HIDE DEF until
<1>6. halts' = 0 => ~halt'.halted /\ halt'.lifted_ts = 0
    <2>1. CASE ClearHalt
        <3>1. /\ halts' = halts
              /\ halt'.halted = FALSE
              /\ ~halt.halted => halt'.lifted_ts = halt.lifted_ts
            BY <1>1, <2>1 DEF ClearHalt, TypeOK
        <3>2. QED
            BY <3>1 DEF WindowInv
    <2>2. CASE \E t \in Times : AttestHalt(t)
        <3>1. CASE halt.halted
            BY <2>2, <3>1 DEF AttestHalt, WindowInv
        <3>2. CASE ~halt.halted
            <4>1. halts' = halts + 1 /\ halts \in Nat
                BY <1>1, <2>2, <3>2, WindowAssumption DEF AttestHalt, TypeOK
            <4>2. halts' # 0
                BY <4>1
            <4>3. QED
                BY <4>2
        <3>3. QED
            BY <3>1, <3>2
    <2>3. QED
        BY <2>1, <2>2
<1>7. HaltCredit' \in Nat /\ HaltCredit <= HaltCredit'
    <2>1. /\ Count(HaltStart, Least(until, now)) <= Count(HaltStart, now)
          /\ Count(HaltStart, now) \in Nat
        BY <1>4, <1>5, CountMonotone, CountBounds
    <2>2. CASE ClearHalt /\ halt.halted
        <3>1. /\ halt'.halted = FALSE
              /\ halt'.lifted_ts = now
              /\ halt'.since_ts = halt.since_ts
            BY <1>1, <2>2 DEF ClearHalt, TypeOK
        <3>2. HaltStart' = HaltStart
            BY <1>2, <3>1 DEF HaltStart
        <3>3. HaltCredit' = Count(HaltStart, now)
            BY <1>4, <3>1, <3>2 DEF HaltCredit, HaltEnd
        <3>4. HaltCredit = Count(HaltStart, Least(until, now))
            BY <2>2 DEF HaltCredit, HaltEnd, until
        <3>5. QED
            BY <2>1, <3>3, <3>4
    <2>3. CASE ClearHalt /\ ~halt.halted
        <3>1. /\ halt'.halted = FALSE
              /\ halt'.lifted_ts = halt.lifted_ts
              /\ halt'.since_ts = halt.since_ts
            BY <1>1, <2>3 DEF ClearHalt, TypeOK
        <3>2. HaltCredit' = HaltCredit
            BY <1>2, <2>3, <3>1 DEF HaltCredit, HaltStart, HaltEnd
        <3>3. QED
            BY <1>4, <3>2
    <2>4. CASE halt.halted /\ \E t \in Times : AttestHalt(t)
        <3>1. /\ halt'.halted = TRUE
              /\ halt'.since_ts = halt.since_ts
              /\ halt'.attested_ts = now
            BY <2>4 DEF AttestHalt
        <3>2. HaltStart' = HaltStart
            BY <1>2, <3>1 DEF HaltStart
        <3>3. Least(now + HaltMaxAge, now) = now
            BY <1>4, WindowAssumption DEF Least
        <3>4. HaltCredit' = Count(HaltStart, now)
            BY <1>2, <3>1, <3>2, <3>3 DEF HaltCredit, HaltEnd
        <3>5. HaltCredit = Count(HaltStart, Least(until, now))
            BY <2>4 DEF HaltCredit, HaltEnd, until
        <3>6. QED
            BY <2>1, <3>4, <3>5
    <2>5. CASE ~halt.halted /\ \E t \in Times : AttestHalt(t)
        <3>1. halts = 0
            BY <1>1, <2>5, WindowAssumption DEF AttestHalt, TypeOK
        <3>2. ~halt.halted /\ halt.lifted_ts = 0
            BY <3>1 DEF WindowInv
        <3>3. HaltCredit = 0
            BY <3>2 DEF HaltCredit
        <3>4. HaltCredit' \in Nat
            BY <1>1, CreditsNatNext
        <3>5. QED
            BY <3>3, <3>4
    <2>6. QED
        BY <2>2, <2>3, <2>4, <2>5
<1>8. Count(Expiry, now') <= served' + Forgone' + HaltCredit' + QuietCredit'
    <2>1. now' = now /\ served' = served /\ Forgone' = Forgone
        BY <1>2 DEF Forgone
    <2>2. Count(Expiry, now) \in Nat
        BY <1>4, CountBounds, WindowAssumption
    <2>3. Count(Expiry, now) <= served + Forgone + HaltCredit + QuietCredit
        BY DEF WindowInv
    <2>4. QED
        BY <1>3, <1>4, <1>7, <2>1, <2>2, <2>3
<1>9. QED
    BY <1>1, <1>2, <1>6, <1>8 DEF WindowInv

\* The issuer's only change begins with nothing recorded.
LEMMA ScheduleWindow ==
    ASSUME MaxChanges <= 1
    PROVE  WindowInv /\ (\E t \in Times : ScheduleChange(t)) => WindowInv'
<1> SUFFICES ASSUME WindowInv, NEW t \in Times, ScheduleChange(t)
             PROVE  WindowInv'
    OBVIOUS
<1>1. TypeOK /\ TypeOK'
    BY NextType DEF WindowInv, Next
<1>2. UNCHANGED <<now, served, refused, halt, halts, window_opened_ts>>
    BY DEF ScheduleChange, clockVars, haltVars, bookVars
<1>3. changes = 0 /\ changes' = 1
    BY <1>1, WindowAssumption DEF ScheduleChange, TypeOK
<1>4. QuietCredit = 0
    BY <1>3 DEF WindowInv, QuietCredit
<1>5. HaltCredit' = HaltCredit
    BY <1>2 DEF HaltCredit, HaltStart, HaltEnd
<1>6. /\ now \in Nat /\ served \in Nat /\ Forgone \in Nat
      /\ HaltCredit \in Nat /\ QuietCredit' \in Nat
    BY <1>1, ClockNumbers, CreditsNat, CreditsNatNext DEF Forgone
<1>7. Count(Expiry, now') <= served' + Forgone' + HaltCredit' + QuietCredit'
    <2>1. now' = now /\ served' = served /\ Forgone' = Forgone
        BY <1>2 DEF Forgone
    <2>2. Count(Expiry, now) \in Nat
        BY <1>6, CountBounds, WindowAssumption
    <2>3. Count(Expiry, now) <= served + Forgone + HaltCredit + QuietCredit
        BY DEF WindowInv
    <2>4. QED
        BY <1>4, <1>5, <1>6, <2>1, <2>2, <2>3
<1>8. QED
    BY <1>1, <1>2, <1>3, <1>7 DEF WindowInv

LEMMA NextWindow ==
    ASSUME MaxHalts <= 1, MaxChanges <= 1
    PROVE  WindowInv /\ [Next]_vars => WindowInv'
<1> SUFFICES ASSUME WindowInv, [Next]_vars PROVE WindowInv'
    OBVIOUS
<1>1. CASE SettleExpired \/ UNCHANGED vars
    <2>1. UNCHANGED <<now, served, refused, halt, halts, change_ts, changes,
                      window_opened_ts>>
        BY <1>1
        DEF SettleExpired, vars, clockVars, haltVars, mintVars, bookVars
    <2>2. /\ HaltCredit' = HaltCredit /\ QuietCredit' = QuietCredit
          /\ Forgone' = Forgone
        BY <2>1
        DEF HaltCredit, HaltStart, HaltEnd, QuietCredit, QuietStart, Forgone
    <2>3. TypeOK'
        BY NextType DEF WindowInv
    <2>4. QED
        BY <2>1, <2>2, <2>3 DEF WindowInv
<1>2. QED
    BY <1>1, TickWindow, ExerciseWindow, HaltWindow, ScheduleWindow DEF Next

\* What is given back is at least what the records account for.
LEMMA CreditsGivenBack ==
    ASSUME TypeOK, Expiry <= now, ~Saturates(Expiry, now)
    PROVE  /\ GivenBack(RefusedInterval) \in Nat
           /\ GivenBack(QuietInterval) \in Nat
           /\ GivenBack(RefusedInterval) <= now
           /\ GivenBack(QuietInterval) <= now
           /\ HaltCredit <= GivenBack(RefusedInterval)
           /\ QuietCredit <= GivenBack(QuietInterval)
<1>1. /\ now \in Nat /\ Expiry \in Nat \ {0} /\ window_opened_ts \in Nat
      /\ halt.lifted_ts \in Nat /\ halt.lifted_ts <= now
      /\ halt.attested_ts \in Nat /\ halt.attested_ts <= now
    BY ClockNumbers
<1>2. /\ HaltStart \in Nat /\ Expiry <= HaltStart
      /\ HaltEnd \in Nat /\ HaltEnd <= now
      /\ HaltCredit \in Nat /\ HaltCredit <= now
      /\ QuietStart \in Nat /\ Expiry <= QuietStart
      /\ Least(change_ts, now) \in Nat /\ Least(change_ts, now) <= now
      /\ QuietCredit \in Nat /\ QuietCredit <= now
    BY CreditBounds
<1>3. GivenBack(NoInterval) = 0
    <2>1. /\ Greatest(Greatest(0, Expiry), window_opened_ts) >= 0
          /\ Least(0, now) = 0
        BY <1>1 DEF Greatest, Least
    <2>2. QED
        BY <2>1 DEF GivenBack, NoInterval, OpenMinutesBetween
<1>4. /\ GivenBack(RefusedInterval) \in Nat
      /\ GivenBack(RefusedInterval) <= now
      /\ HaltCredit <= GivenBack(RefusedInterval)
    <2>1. OpenMinutesBetween(HaltStart, HaltEnd) = Count(HaltStart, HaltEnd)
        BY <1>1, <1>2, ScanCounts
    <2>2. CASE halt.halted
        <3>1. \E b \in {now, halt.attested_ts + HaltMaxAge} :
                 /\ RefusedInterval = <<halt.since_ts, b>>
                 /\ Least(b, now) = HaltEnd
            <4>1. CASE IsFresh
                <5>1. now <= halt.attested_ts + HaltMaxAge
                    BY <1>1, <4>1, WindowAssumption DEF IsFresh
                <5>2. Least(now, now) = Least(halt.attested_ts + HaltMaxAge, now)
                    BY <1>1, <5>1, WindowAssumption DEF Least
                <5>3. RefusedInterval = <<halt.since_ts, now>>
                    BY <2>2, <4>1 DEF RefusedInterval
                <5>4. QED
                    BY <2>2, <5>2, <5>3 DEF HaltEnd
            <4>2. CASE ~IsFresh
                BY <2>2, <4>2 DEF RefusedInterval, HaltEnd
            <4>3. QED
                BY <4>1, <4>2
        <3>2. GivenBack(RefusedInterval) = Count(HaltStart, HaltEnd)
            BY <2>1, <3>1 DEF GivenBack, HaltStart
        <3>3. HaltCredit = Count(HaltStart, HaltEnd)
            BY <2>2 DEF HaltCredit
        <3>4. QED
            BY <1>2, <3>2, <3>3
    <2>3. CASE ~halt.halted /\ halt.lifted_ts > 0
        <3>1. RefusedInterval = <<halt.since_ts, halt.lifted_ts>>
            BY <2>3 DEF RefusedInterval
        <3>2. Least(halt.lifted_ts, now) = HaltEnd
            BY <1>1, <2>3 DEF Least, HaltEnd
        <3>3. GivenBack(RefusedInterval) = Count(HaltStart, HaltEnd)
            BY <2>1, <3>1, <3>2 DEF GivenBack, HaltStart
        <3>4. HaltCredit = Count(HaltStart, HaltEnd)
            BY <2>3 DEF HaltCredit
        <3>5. QED
            BY <1>2, <3>3, <3>4
    <2>4. CASE ~halt.halted /\ ~(halt.lifted_ts > 0)
        <3>1. RefusedInterval = NoInterval
            BY <2>4 DEF RefusedInterval
        <3>2. HaltCredit = 0
            BY <2>4 DEF HaltCredit
        <3>3. QED
            BY <1>1, <1>3, <3>1, <3>2
    <2>5. QED
        BY <2>2, <2>3, <2>4
<1>5. /\ GivenBack(QuietInterval) \in Nat
      /\ GivenBack(QuietInterval) <= now
      /\ QuietCredit <= GivenBack(QuietInterval)
    <2>1. CASE change_ts = 0
        BY <1>1, <1>3, <2>1 DEF QuietInterval, QuietCredit
    <2>2. CASE change_ts # 0
        <3>1. QuietInterval = <<change_ts - QuietPeriod, change_ts>>
            BY <2>2 DEF QuietInterval
        <3>2. GivenBack(QuietInterval) = Count(QuietStart, Least(change_ts, now))
            BY <1>1, <1>2, <3>1, ScanCounts DEF GivenBack, QuietStart
        <3>3. QuietCredit = Count(QuietStart, Least(change_ts, now))
            BY <2>2 DEF QuietCredit
        <3>4. QED
            BY <1>2, <3>2, <3>3
    <2>3. QED
        BY <2>1, <2>2
<1>6. QED
    BY <1>4, <1>5

\* refused_window_minutes: when settlement begins and the clock has not given
\* up, holders had a full window in minutes the venue could act in, whatever
\* the attestor and the issuer reported; once somebody has exercised, a full
\* window but for the minutes refused before that exercise.  The accounts remember one halt and one change, and so does the theorem:
\* with more of each the earlier interval is no longer recorded.
THEOREM HoldersGetTheirWindow ==
    ASSUME MaxHalts <= 1, MaxChanges <= 1
    PROVE  Spec => []WindowNeverShort
<1>1. WindowInv => WindowNeverShort
    <2> SUFFICES ASSUME WindowInv, Phase = "Settled", ~Saturates(Expiry, now)
                 PROVE  served + Forgone >= Window
        BY DEF WindowNeverShort
    <2> DEFINE elapsed == OpenMinutesBetween(Expiry, now)
               given == GivenBack(RefusedInterval)
               quiet == GivenBack(QuietInterval)
    <2>1. TypeOK
        BY DEF WindowInv
    <2>2. /\ now \in Nat /\ now <= MaxNow /\ served \in Nat /\ Forgone \in Nat
          /\ Expiry \in Nat \ {0}
        BY <2>1, ClockNumbers DEF Forgone
    <2>3. Expiry <= now
        BY <2>2 DEF Phase
    <2>4. /\ given \in Nat /\ quiet \in Nat /\ given <= now /\ quiet <= now
          /\ HaltCredit <= given /\ QuietCredit <= quiet
        BY <2>1, <2>3, CreditsGivenBack
    <2>5. /\ elapsed = Count(Expiry, now)
          /\ elapsed \in Nat /\ elapsed <= now
        <3>1. elapsed = Count(Expiry, now)
            BY <2>2, ScanCounts
        <3>2. Count(Expiry, now) \in Nat /\ Count(Expiry, now) <= now
            BY <2>2, CountBounds
        <3>3. QED
            BY <3>1, <3>2
    <2>6. elapsed # Forever /\ RefusedWindowMinutes = given + quiet
        BY <2>2, <2>4, <2>5, WindowAssumption DEF RefusedWindowMinutes, Least
    <2>7. ~(SaturatingSub(elapsed, RefusedWindowMinutes) < Window)
        BY <2>2, <2>3, <2>6 DEF Phase
    <2>8. elapsed >= given + quiet + Window
        <3> HIDE DEF elapsed, given, quiet
        <3>1. QED
            BY <2>4, <2>5, <2>6, <2>7, WindowAssumption DEF SaturatingSub
    <2>9. HaltCredit \in Nat /\ QuietCredit \in Nat
        BY <2>1, CreditsNat
    <2>10. elapsed <= served + Forgone + HaltCredit + QuietCredit
        BY <2>5 DEF WindowInv
    <2> HIDE DEF elapsed, given, quiet
    <2>11. QED
        BY <2>2, <2>4, <2>5, <2>8, <2>9, <2>10, WindowAssumption
<1>2. QED
    BY <1>1, InitWindow, NextWindow, PTL DEF Spec

-----------------------------------------------------------------------------
(* The book under the clock.                                               *)

\* The accounts of the clock are well formed, and the phase is derived.
VenueInv == TypeOK /\ phase = Phase

-----------------------------------------------------------------------------
(* How the phase moves.                                                    *)

\* The minutes given back are a natural, whatever the records say.
LEMMA RefusedNat ==
    ASSUME TypeOK
    PROVE  RefusedWindowMinutes \in Nat
<1>1. /\ now \in Nat /\ Expiry \in Nat /\ window_opened_ts \in Nat
      /\ halt.since_ts \in Nat /\ halt.attested_ts \in Nat
      /\ halt.lifted_ts \in Nat /\ change_ts \in Nat
    BY ClockNumbers
<1>2. ASSUME NEW a \in Int, NEW b \in Nat
      PROVE  GivenBack(<<a, b>>) \in Nat
    <2> DEFINE from == Greatest(Greatest(a, Expiry), window_opened_ts)
               to == Least(b, now)
    <2>1. from \in Nat /\ to \in Nat
        BY <1>1, <1>2 DEF Greatest, Least
    <2> HIDE DEF from, to
    <2>2. Count(from, to) \in Nat
        BY <2>1, CountBounds
    <2>3. OpenMinutesBetween(from, to) \in Nat
        BY <2>2, WindowAssumption DEF OpenMinutesBetween, Count
    <2>4. QED
        BY <2>3 DEF GivenBack, from, to
<1>3. GivenBack(RefusedInterval) \in Nat
    <2>1. \E a, b \in Nat : RefusedInterval = <<a, b>>
        BY <1>1, WindowAssumption DEF RefusedInterval, NoInterval
    <2>2. QED
        BY <1>2, <2>1
<1>4. GivenBack(QuietInterval) \in Nat
    <2>1. \E a \in Int, b \in Nat : QuietInterval = <<a, b>>
        BY <1>1, WindowAssumption DEF QuietInterval, NoInterval
    <2>2. QED
        BY <1>2, <2>1
<1>5. QED
    <2> DEFINE sum == GivenBack(RefusedInterval) + GivenBack(QuietInterval)
    <2>1. sum \in Nat
        BY <1>3, <1>4
    <2> HIDE DEF sum
    <2>2. Least(sum, Forever) \in Nat
        BY <2>1, WindowAssumption DEF Least
    <2>3. QED
        BY <2>2 DEF RefusedWindowMinutes, sum

\* Only the time before expiry is Active.
LEMMA ActiveBeforeExpiry ==
    ASSUME TypeOK
    PROVE  /\ now < Expiry => Phase = "Active"
           /\ ~(now < Expiry) => Phase \in {"Settling", "Settled"}
<1>1. now < Expiry => ~(now >= Expiry)
    BY ClockNumbers
<1>2. CASE now < Expiry
    BY <1>1, <1>2 DEF Phase
<1>3. CASE ~(now < Expiry)
    BY <1>3 DEF Phase
<1>4. QED
    BY <1>2, <1>3

\* The minute of expiry itself belongs to the window.
LEMMA WindowBegins ==
    ASSUME TypeOK, now = Expiry
    PROVE  Phase = "Settling"
<1>1. now \in Nat /\ Expiry \in Nat
    BY ClockNumbers
<1>2. OpenMinutesBetween(Expiry, now) = 0
    BY <1>1 DEF OpenMinutesBetween
<1>3. Forever # 0
    BY WindowAssumption
<1>4. SaturatingSub(0, RefusedWindowMinutes) < Window
    BY RefusedNat, WindowAssumption DEF SaturatingSub
<1>5. ~(now < Expiry)
    BY <1>1
<1>6. QED
    BY <1>2, <1>3, <1>4, <1>5 DEF Phase

LEMMA PhaseByClock ==
    TypeOK => /\ now < Expiry => Phase = "Active"
              /\ ~(now < Expiry) => Phase \in {"Settling", "Settled"}
              /\ now = Expiry => Phase = "Settling"
    BY ActiveBeforeExpiry, WindowBegins

\* The same, after a step.
LEMMA PhaseAfter ==
    ASSUME TypeOK'
    PROVE  /\ now' < Expiry => Phase' = "Active"
           /\ ~(now' < Expiry) => Phase' \in {"Settling", "Settled"}
           /\ now' = Expiry => Phase' = "Settling"
<1>1. TypeOK' => (/\ now < Expiry => Phase = "Active"
                  /\ ~(now < Expiry) => Phase \in {"Settling", "Settled"}
                  /\ now = Expiry => Phase = "Settling")'
    BY PhaseByClock, PTL
<1>2. QED
    BY <1>1

\* A step of the clock alone is a step of the phase the book knows, or none.
LEMMA ClockStep ==
    ASSUME VenueInv, TypeOK', phase' = Phase', UNCHANGED ledgerVars,
           \/ now' = now
           \/ now' = now + 1
    PROVE  [Book!Next]_(Book!vars)
<1>1. now \in Nat /\ Expiry \in Nat
    BY ClockNumbers DEF VenueInv
<1>2. CASE phase' = phase
    BY <1>2
    DEF ledgerVars, Book!vars, Book!positionVars, Book!premiumVars,
        Book!bookVars, Book!vaultVars, Book!eventVars
<1>3. CASE phase = "Active" /\ phase' = "Settling"
    BY <1>3
    DEF ledgerVars, Book!Next, Book!Expire, Book!positionVars,
        Book!premiumVars, Book!bookVars, Book!vaultVars, Book!eventVars
<1>4. CASE phase = "Settling" /\ phase' = "Settled"
    BY <1>4
    DEF ledgerVars, Book!Next, Book!CloseWindow, Book!positionVars,
        Book!premiumVars, Book!bookVars, Book!vaultVars, Book!eventVars
<1>5. CASE phase = "Settled" /\ phase' = "Settling"
    BY <1>5
    DEF ledgerVars, Book!Next, Book!ReopenWindow, Book!positionVars,
        Book!premiumVars, Book!bookVars, Book!vaultVars, Book!eventVars
<1>6. CASE now < Expiry
    <2>1. phase = "Active"
        BY <1>6, ActiveBeforeExpiry DEF VenueInv
    <2>2. now' < Expiry \/ now' = Expiry
        BY <1>1, <1>6
    <2>3. phase' \in {"Active", "Settling"}
        BY <2>2, PhaseAfter
    <2>4. QED
        BY <1>2, <1>3, <2>1, <2>3
<1>7. CASE ~(now < Expiry)
    <2>1. phase \in {"Settling", "Settled"}
        BY <1>7, ActiveBeforeExpiry DEF VenueInv
    <2>2. ~(now' < Expiry)
        BY <1>1, <1>7
    <2>3. phase' \in {"Settling", "Settled"}
        BY <2>2, PhaseAfter
    <2>4. QED
        BY <1>2, <1>4, <1>5, <2>1, <2>3
<1>8. QED
    BY <1>6, <1>7

-----------------------------------------------------------------------------
(* The refinement.                                                         *)

\* What every step of the venue does to the clock is a step of the clock.
LEMMA VenueStepsClock == [VenueNext]_venueVars => [Next]_vars
    BY DEF VenueNext, venueVars, PassMinute, ResumeSecurity, HaltSecurity,
           AnnounceChange, ExerciseContracts, OpenPosition, SettleWriter,
           Write, BarMint, ClockStays, Next

LEMMA InitVenue == VenueInit => VenueInv /\ Book!Init
    BY InitType DEF VenueInit, VenueInv

LEMMA NextVenue == VenueInv /\ [VenueNext]_venueVars => VenueInv'
<1> SUFFICES ASSUME VenueInv, [VenueNext]_venueVars PROVE VenueInv'
    OBVIOUS
<1>1. TypeOK'
    BY VenueStepsClock, NextType DEF VenueInv
<1>2. CASE DerivePhase
    BY <1>1, <1>2 DEF VenueInv, DerivePhase
<1>3. ClockStays => UNCHANGED <<vars, phase>>
    BY DEF ClockStays
<1>4. CASE UNCHANGED <<vars, phase>>
    <2>1. Phase' = Phase
        BY <1>4
        DEF vars, clockVars, haltVars, mintVars, bookVars, Phase,
            RefusedWindowMinutes, GivenBack, RefusedInterval, QuietInterval,
            IsFresh
    <2>2. QED
        BY <1>1, <1>4, <2>1 DEF VenueInv
<1>5. QED
    BY <1>2, <1>3, <1>4
    DEF VenueNext, PassMinute, ResumeSecurity, HaltSecurity, AnnounceChange,
        BarMint, venueVars, ExerciseContracts, OpenPosition, SettleWriter,
        Write

\* Every step of the venue is a step of the book or none of its business.
LEMMA VenueStepsBook ==
    ASSUME VenueInv, VenueInv', [VenueNext]_venueVars
    PROVE  [Book!Next]_(Book!vars)
<1>1. TypeOK' /\ phase' = Phase'
    BY DEF VenueInv
<1>2. CASE PassMinute
    BY <1>1, <1>2, ClockStep DEF PassMinute, Tick
<1>3. CASE ResumeSecurity
    BY <1>1, <1>3, ClockStep DEF ResumeSecurity, ClearHalt, clockVars
<1>4. ASSUME NEW t \in Times, HaltSecurity(t)
      PROVE  [Book!Next]_(Book!vars)
    BY <1>1, <1>4, ClockStep DEF HaltSecurity, AttestHalt, clockVars
<1>5. ASSUME NEW t \in Times, AnnounceChange(t)
      PROVE  [Book!Next]_(Book!vars)
    BY <1>1, <1>5, ClockStep DEF AnnounceChange, ScheduleChange, clockVars
<1>6. EffectiveMultiplier \in {MultiplierAtMint, NewMultiplier}
    BY DEF EffectiveMultiplier
<1>7. ASSUME NEW k \in 1 .. MaxContracts, ExerciseContracts(k)
      PROVE  [Book!Next]_(Book!vars)
    BY <1>6, <1>7 DEF ExerciseContracts, Book!Next
<1>8. ASSUME NEW w \in Writers, OpenPosition(w)
      PROVE  [Book!Next]_(Book!vars)
    BY <1>8 DEF OpenPosition, Book!Next
<1>9. ASSUME NEW w \in Writers, SettleWriter(w)
      PROVE  [Book!Next]_(Book!vars)
    BY <1>9 DEF SettleWriter, Book!Next
<1>10. ASSUME NEW w \in Writers, NEW k \in 1 .. MaxContracts, Write(w, k)
       PROVE  [Book!Next]_(Book!vars)
    BY <1>6, <1>10 DEF Write, Book!Next
<1>11. CASE BarMint \/ UNCHANGED venueVars
    BY <1>11
    DEF BarMint, venueVars, ledgerVars, Book!vars, Book!positionVars, Book!premiumVars,
        Book!bookVars, Book!vaultVars, Book!eventVars
<1>12. QED
    BY <1>2, <1>3, <1>4, <1>5, <1>7, <1>8, <1>9, <1>10, <1>11 DEF VenueNext

\* phase_with_refusals: no calendar, attestation or multiplier change takes
\* the series through a phase its book was not specified for, and every
\* instruction does to the book what the book allows; so what is proved of
\* the book holds of the series under its clock.
THEOREM VenueImplementsBook == VenueSpec => ImplementsBook
<1>1. VenueInv /\ VenueInv' /\ [VenueNext]_venueVars => [Book!Next]_(Book!vars)
    BY VenueStepsBook
<1>2. QED
    BY <1>1, InitVenue, NextVenue, PTL DEF VenueSpec, ImplementsBook, Book!Spec
=============================================================================
