----------------------------- MODULE MCCalendar -----------------------------
(***************************************************************************)
(* An instance of Calendar for TLC: weeks with a clock change, a holiday   *)
(* and a half day, the turn of a year, a leap day and a century without    *)
(* one.                                                                    *)
(***************************************************************************)
EXTENDS Calendar

At(y, m, d, minute) == [year |-> y, month |-> m, day |-> d, minute |-> minute]

MCStarts == {At(2026, 10, 29, 840), At(2026, 11, 20, 900), At(2026, 12, 18, 870),
             At(2027, 3, 5, 840), At(2027, 9, 1, 0), At(2028, 2, 25, 0),
             At(2100, 2, 25, 0)}

\* A half day that is corrected; a call that says the same new day twice, is
\* counted for two and adds one; two new days, which fill the table before that
\* call and do not fit after it; and two calls that are legal but for their
\* last entry, which closes before the session opens or is in no month.
MCAppends == {<<Closed(ChainKey(2026, 11, 27))>>,
              <<Closed(ChainKey(2026, 12, 31)), Early(ChainKey(2026, 12, 31), 780)>>,
              <<Closed(ChainKey(2026, 12, 30)), Early(ChainKey(2027, 1, 4), 840)>>,
              <<Closed(ChainKey(2026, 12, 29)), Early(ChainKey(2026, 12, 24), 570)>>,
              <<Closed(ChainKey(2026, 11, 27)), Closed(ChainKey(2026, 13, 1))>>}
=============================================================================
