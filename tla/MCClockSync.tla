---------------------------- MODULE MCClockSync -----------------------------
(***************************************************************************)
(* Instance of ClockSync for TLC: a year ends, so that every field of two  *)
(* successive times differs, and with it the longest date there is.        *)
(***************************************************************************)
EXTENDS ClockSync

Time(y, mo, d, h, mi, s) ==
    [year |-> y, mon |-> mo, mday |-> d, hour |-> h, min |-> mi, sec |-> s]

YearEnd == <<Time(2017, 12, 31, 23, 59, 58), Time(2017, 12, 31, 23, 59, 59), Time(2018, 1, 1, 0, 0, 0)>>
\* No times: one whose fields all have a date's digits, and one whose hour has
\* three.
StrayTimes  == {Time(2017, 12, 31, 99, 59, 59), Time(2017, 12, 31, 200, 59, 59)}
FirstToLast == <<"year", "mon", "mday", "hour", "min", "sec">>
LastToFirst == Reverse(FirstToLast)
BothWays    == {FirstToLast, LastToFirst}
FactoryDate == Time(1970, 1, 1, 0, 0, 9)
=============================================================================
