------------------------------ MODULE Calendar ------------------------------
(***************************************************************************)
(* The exchange calendar: civil dates, US Eastern time, the session of an  *)
(* instant and the open minutes between two, as the SDK computes them      *)
(* (sdk/src/calendar.ts, a port of programs/deliverable/src/calendar.rs)   *)
(* and as the program does, and the account the program reads them from,   *)
(* which its authority extends (instructions/admin.rs).                    *)
(*                                                                         *)
(* An instant is a minute since 1970.  The clock walks in half hours from  *)
(* one of several starts, and a date kept by hand walks with it.           *)
(***************************************************************************)
EXTENDS Integers, Sequences, FiniteSets, FiniteSetsExt, SequencesExt

CONSTANTS
    Starts,      \* the instants the clock starts from
    Horizon,     \* bound: days it walks
    ScanDays,    \* MAX_SESSION_SCAN_DAYS
    Saturated,   \* u32::MAX
    MaxEntries,  \* MAX_CALENDAR_ENTRIES
    Appends,     \* the calls the authority may make: sequences of entries
    MaxAppends   \* bound on how many

Day      == 1440
HalfHour == 30

\* A scan that reaches past a long weekend.
ASSUME ScanAssumption == ScanDays \in Nat /\ ScanDays >= 5

VARIABLES
    start,    \* the start of the walk
    ts,       \* the instant
    date,     \* the UTC date, kept by hand: [year, month, day]
    entries,  \* MarketCalendar.entries
    version   \* MarketCalendar.version

vars == <<start, ts, date, entries, version>>

-----------------------------------------------------------------------------
(* Civil dates (Hinnant): a year runs from March, and four hundred of them *)
(* are an era.                                                             *)

EraDays    == 146097
EpochShift == 719468  \* days from 1 March of the year 0 to 1970

\* Before a year of an era, before a month of a year, and back.
DaysBeforeYear(yoe) == yoe * 365 + yoe \div 4 - yoe \div 100
DaysBeforeMonth(mp) == (153 * mp + 2) \div 5

YearOfEra(doe) ==
    (doe - doe \div 1460 + doe \div 36524 - doe \div 146096) \div 365
MonthOfYear(doy) == (5 * doy + 2) \div 153

DaysFromCivil(year, month, day) ==
    LET y   == year - (IF month <= 2 THEN 1 ELSE 0)
        era == y \div 400
        mp  == IF month > 2 THEN month - 3 ELSE month + 9
        doy == DaysBeforeMonth(mp) + day - 1
    IN  era * EraDays + DaysBeforeYear(y - era * 400) + doy - EpochShift

CivilFromDays(days) ==
    LET z   == days + EpochShift
        era == z \div EraDays
        doe == z - era * EraDays
        yoe == YearOfEra(doe)
        doy == doe - DaysBeforeYear(yoe)
        mp  == MonthOfYear(doy)
        m   == IF mp < 10 THEN mp + 3 ELSE mp - 9
    IN  [year |-> yoe + era * 400 + (IF m <= 2 THEN 1 ELSE 0), month |-> m,
         day |-> doy - DaysBeforeMonth(mp) + 1]

\* 0 is Sunday.
WeekdayOfDay(day) == (day + 4) % 7

NthWeekdayDay(year, month, weekday, n) ==
    LET first == DaysFromCivil(year, month, 1)
    IN  first + ((weekday + 7 - WeekdayOfDay(first)) % 7) + (n - 1) * 7

\* Mutated offset: the clocks go back at the hour they went forward.
EasternOffsetLate(t) ==
    LET year == CivilFromDays(t \div Day).year
    IN  IF /\ t >= NthWeekdayDay(year, 3, 0, 2) * Day + 7 * 60
           /\ t < NthWeekdayDay(year, 11, 0, 1) * Day + 7 * 60
        THEN -240 ELSE -300

\* easternOffsetSeconds: both changes as an instant in UTC.
EasternOffset(t) ==
    LET year == CivilFromDays(t \div Day).year
    IN  IF /\ t >= NthWeekdayDay(year, 3, 0, 2) * Day + 7 * 60
           /\ t < NthWeekdayDay(year, 11, 0, 1) * Day + 6 * 60
        THEN -240 ELSE -300

Local(t) == t + EasternOffset(t)

LocalDay(t)    == Local(t) \div Day
LocalMinute(t) == Local(t) % Day

-----------------------------------------------------------------------------
(* The schedule.                                                           *)

OpenMinute  == 570
CloseMinute == 960

Closed(key)       == [key |-> key, kind |-> "closed", close |-> 0]
Early(key, close) == [key |-> key, kind |-> "early", close |-> close]

\* The two keys: the program's carries the year, the SDK's does not.
ChainKey(year, month, day) == year * 65536 + month * 256 + day
SdkKey(year, month, day)   == month * 256 + day

KeyOf(who, c) ==
    IF who = "program" THEN ChainKey(c.year, c.month, c.day)
                       ELSE SdkKey(c.year, c.month, c.day)

\* Mutated table: the half day after Thanksgiving is a holiday.
SdkTableNoHalfDay == <<
    Closed(SdkKey(2026, 9, 7)),  Closed(SdkKey(2026, 11, 26)),
    Closed(SdkKey(2026, 11, 27)), Early(SdkKey(2026, 12, 24), 780) >>

\* US_EQUITY_2026_2027 in the SDK, without the last entry of the program's.
SdkTable == <<
    Closed(SdkKey(2026, 9, 7)),  Closed(SdkKey(2026, 11, 26)),
    Early(SdkKey(2026, 11, 27), 780), Early(SdkKey(2026, 12, 24), 780),
    Closed(SdkKey(2026, 12, 25)), Closed(SdkKey(2027, 1, 1)),
    Closed(SdkKey(2027, 1, 18)), Closed(SdkKey(2027, 2, 15)),
    Closed(SdkKey(2027, 3, 26)), Closed(SdkKey(2027, 5, 31)),
    Closed(SdkKey(2027, 6, 18)), Closed(SdkKey(2027, 7, 5)) >>

ChainTable == <<
    Closed(ChainKey(2026, 9, 7)),  Closed(ChainKey(2026, 11, 26)),
    Early(ChainKey(2026, 11, 27), 780), Early(ChainKey(2026, 12, 24), 780),
    Closed(ChainKey(2026, 12, 25)), Closed(ChainKey(2027, 1, 1)),
    Closed(ChainKey(2027, 1, 18)), Closed(ChainKey(2027, 2, 15)),
    Closed(ChainKey(2027, 3, 26)), Closed(ChainKey(2027, 5, 31)),
    Closed(ChainKey(2027, 6, 18)), Closed(ChainKey(2027, 7, 5)),
    Closed(ChainKey(2027, 9, 6)) >>

\* exception: the first entry with the key, and when the day then closes;
\* a day that does not trade closes before it opens.
CloseOf(table, key) ==
    LET hits == {i \in DOMAIN table : table[i].key = key}
    IN  CASE hits = {} -> CloseMinute
          [] hits # {} /\ table[Min(hits)].kind = "early" -> table[Min(hits)].close
          [] OTHER -> 0

\* dayBounds: nothing at weekends, and up to an early close.
Bounds(table, who, day) ==
    LET c == CivilFromDays(day)
    IN  [open |-> OpenMinute,
         close |-> IF WeekdayOfDay(day) \in {0, 6} THEN 0
                   ELSE CloseOf(table, KeyOf(who, c))]

\* resolveSession: open inclusive, close exclusive.
IsOpen(table, who, t) ==
    LET b == Bounds(table, who, LocalDay(t))
    IN  b.open <= LocalMinute(t) /\ LocalMinute(t) < b.close

\* Mutated count: the last day counts in full.
OpenMinutesWholeDays(table, who, from, to) ==
    LET minutes(day) ==
            LET b  == Bounds(table, who, day)
                lo == IF day = LocalDay(from) THEN Max({b.open, LocalMinute(from)}) ELSE b.open
            IN  IF b.close > lo THEN b.close - lo ELSE 0
    IN  CASE to <= from -> 0
          [] to > from /\ LocalDay(to) - LocalDay(from) > ScanDays -> Saturated
          [] OTHER -> MapThenSumSet(minutes, LocalDay(from) .. LocalDay(to))

\* openMinutesBetween: day by day, cut at both ends.
OpenMinutesBetween(table, who, from, to) ==
    LET minutes(day) ==
            LET b  == Bounds(table, who, day)
                lo == IF day = LocalDay(from) THEN Max({b.open, LocalMinute(from)}) ELSE b.open
                hi == IF day = LocalDay(to) THEN Min({b.close, LocalMinute(to)}) ELSE b.close
            IN  IF hi > lo THEN hi - lo ELSE 0
    IN  CASE to <= from -> 0
          [] to > from /\ LocalDay(to) - LocalDay(from) > ScanDays -> Saturated
          [] OTHER -> MapThenSumSet(minutes, LocalDay(from) .. LocalDay(to))

Never == -1

\* A local day's opening in UTC, by the offset guessed from standard time.
Opening(day) ==
    day * Day + OpenMinute - EasternOffset(day * Day + OpenMinute + 300)

\* Mutated scan: today is passed over whatever the hour.
NextOpenTomorrow(table, who, t) ==
    LET days == {day \in LocalDay(t) + 1 .. LocalDay(t) + ScanDays :
                    Bounds(table, who, day).close > OpenMinute}
    IN  CASE IsOpen(table, who, t) -> t
          [] ~IsOpen(table, who, t) /\ days = {} -> Never
          [] OTHER -> Opening(Min(days))

\* nextOpen: the first day that trades and has not opened yet.
NextOpen(table, who, t) ==
    LET days == {day \in LocalDay(t) .. LocalDay(t) + ScanDays :
                    /\ Bounds(table, who, day).close > OpenMinute
                    /\ day = LocalDay(t) => LocalMinute(t) < OpenMinute}
    IN  CASE IsOpen(table, who, t) -> t
          [] ~IsOpen(table, who, t) /\ days = {} -> Never
          [] OTHER -> Opening(Min(days))

-----------------------------------------------------------------------------
(* The account.                                                            *)

\* What append_calendar_entries requires of an entry.
ValidEntry(e) ==
    /\ e.key \div 65536 \in 2000 .. 2200
    /\ (e.key \div 256) % 256 \in 1 .. 12
    /\ e.key % 256 \in 1 .. 31
    /\ e.kind = "early" => OpenMinute < e.close /\ e.close <= CloseMinute

\* Mutated merge: a correction goes to the end, behind what it corrects.
PutLast(table, e) == Append(table, e)

\* A key that is there is replaced where it stands.
Put(table, e) ==
    IF \E i \in DOMAIN table : table[i].key = e.key
    THEN [i \in DOMAIN table |-> IF table[i].key = e.key THEN e ELSE table[i]]
    ELSE Append(table, e)

\* What is counted as added before anything is merged.
Additions(call) ==
    Cardinality({i \in DOMAIN call :
                    \A j \in DOMAIN entries : entries[j].key # call[i].key})

AppendCalendarEntries(call) ==
    /\ version <= MaxAppends
    /\ \A i \in DOMAIN call : ValidEntry(call[i])
    /\ Len(entries) + Additions(call) <= MaxEntries
    /\ entries' = FoldLeft(Put, entries, call)
    /\ version' = version + 1
    /\ UNCHANGED <<start, ts, date>>

-----------------------------------------------------------------------------
(* The clock.                                                              *)

MonthLength(year, month) ==
    CASE month \in {4, 6, 9, 11} -> 30
      [] month = 2 -> IF year % 4 = 0 /\ (year % 100 # 0 \/ year % 400 = 0)
                      THEN 29 ELSE 28
      [] OTHER -> 31

NextDate(d) ==
    CASE d.day < MonthLength(d.year, d.month) ->
            [year |-> d.year, month |-> d.month, day |-> d.day + 1]
      [] d.day = MonthLength(d.year, d.month) /\ d.month < 12 ->
            [year |-> d.year, month |-> d.month + 1, day |-> 1]
      [] OTHER -> [year |-> d.year + 1, month |-> 1, day |-> 1]

\* A start is a date and a half hour of that day.
ASSUME StartsAreDates ==
    \A s \in Starts :
        /\ s.year \in Int /\ s.month \in 1..12 /\ s.day \in 1..MonthLength(s.year, s.month)
        /\ s.minute \in 0..(Day - 1) /\ s.minute % HalfHour = 0

Init ==
    /\ start \in Starts
    /\ date = [year |-> start.year, month |-> start.month, day |-> start.day]
    /\ ts = DaysFromCivil(start.year, start.month, start.day) * Day + start.minute
    /\ entries = ChainTable
    /\ version = 1

StartTs == DaysFromCivil(start.year, start.month, start.day) * Day + start.minute

Advance ==
    /\ ts < StartTs + Horizon * Day
    /\ ts' = ts + HalfHour
    /\ date' = IF ts' % Day = 0 THEN NextDate(date) ELSE date
    /\ UNCHANGED <<start, entries, version>>

Next == Advance \/ \E call \in Appends : AppendCalendarEntries(call)

Spec == Init /\ [][Next]_vars

-----------------------------------------------------------------------------
(* Properties.                                                             *)

\* The account: an entry a key, no more of them than fit, each one legal.
CalendarOK ==
    /\ Len(entries) <= MaxEntries
    /\ \A i \in DOMAIN entries : ValidEntry(entries[i])
    /\ Cardinality({entries[i].key : i \in DOMAIN entries}) = Len(entries)

\* Both conversions agree with a date that is turned day by day, through
\* leap years and through a century that is none.
DatesAgree ==
    /\ CivilFromDays(ts \div Day) = date
    /\ DaysFromCivil(date.year, date.month, date.day) = ts \div Day

\* The offset changes in the night of the second Sunday in March at two
\* o'clock standard time, and of the first Sunday in November at two o'clock
\* daylight time: told from the date, the weekday and the hour alone.
OffsetFollowsTheClocks ==
    LET weekday == WeekdayOfDay(ts \div Day)
        hour    == (ts % Day) \div 60
        past(first, at) ==
            \/ weekday = 0 /\ date.day \in first .. first + 6 /\ hour >= at
            \/ date.day - weekday >= first /\ ~(weekday = 0 /\ date.day <= first + 6)
        summer ==
            CASE date.month = 3  -> past(8, 7)
              [] date.month = 11 -> ~past(1, 6)
              [] OTHER           -> date.month \in 4 .. 10
    IN  EasternOffset(ts) = IF summer THEN -240 ELSE -300

\* What the program takes an instant for: its date and its offset.
EasternTimeIsRight == DatesAgree /\ OffsetFollowsTheClocks

Elapsed(t) == OpenMinutesBetween(entries, "program", StartTs, t)

\* A settlement window grows by the minutes in which the session it is
\* measured by is open, and by no other, until the scan gives up: two
\* functions that read the same table through different arithmetic.
MinutesAreSessions ==
    [][ts' # ts /\ Elapsed(ts') # Saturated =>
          Elapsed(ts') - Elapsed(ts) =
              (IF IsOpen(entries, "program", ts) THEN HalfHour ELSE 0)]_vars

\* nextOpen names the next instant with a session: now if it is open, and
\* otherwise the same instant half an hour later.
NextOpenIsTheNext ==
    NextOpen(SdkTable, "sdk", ts) =
        IF IsOpen(SdkTable, "sdk", ts) THEN ts
        ELSE NextOpen(SdkTable, "sdk", ts + HalfHour)

\* The twelve months Pyth published the schedule for.
Captured ==
    \/ date.year = 2026 /\ date.month >= 9
    \/ date.year = 2027 /\ date.month < 9

\* In those months the table committed in the SDK, keyed without a year,
\* answers what the program's table does.
TablesAgreeInTheCapture ==
    Captured => (IsOpen(SdkTable, "sdk", ts) <=> IsOpen(ChainTable, "program", ts))

\* sdk/src/calendar.ts of the fields its session logic reads: "The decoded
\* account satisfies it."  Handed the account instead of its own table, as
\* isActionable does for a registered security, the port answers what the
\* program does.
AccountSatisfiesTheSdk ==
    IsOpen(entries, "sdk", ts) <=> IsOpen(entries, "program", ts)
=============================================================================
