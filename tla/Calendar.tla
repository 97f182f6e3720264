------------------------------ MODULE Calendar -------------------------------
(***************************************************************************)
(* The calendar, one day after another, beside what the client computes    *)
(* for the day from the system clock.                                      *)
(***************************************************************************)
EXTENDS Timestamp

CONSTANTS
    StartYears,     \* years on whose first of January the clock is first read
    Seconds         \* seconds of a day at which a timestamp is taken

ASSUME YearsAssumption == \A y \in StartYears : y \in Nat /\ y >= 1970
ASSUME SecondsAssumption == \A s \in Seconds : s \in Nat /\ s < 86400

VARIABLES
    days,       \* days since the epoch
    date,       \* the date on the calendar
    start       \* the year the clock was first read in, fixed

clock == <<days, date, start>>

Leap(y) == y % 4 = 0 /\ (y % 100 # 0 \/ y % 400 = 0)

DaysIn(y, m) ==
    IF m = 2 THEN IF Leap(y) THEN 29 ELSE 28
    ELSE IF m \in {4, 6, 9, 11} THEN 30 ELSE 31

Tomorrow(d) ==
    IF d.day < DaysIn(d.year, d.month) THEN [d EXCEPT !.day = @ + 1]
    ELSE IF d.month < 12 THEN [d EXCEPT !.month = @ + 1, !.day = 1]
    ELSE [year |-> d.year + 1, month |-> 1, day |-> 1]

\* Days from the epoch to the first of January of y, leap years counted.
FirstOfYear(y) ==
    LET leaps(n) == n \div 4 - n \div 100 + n \div 400
    IN  365 * (y - 1970) + leaps(y - 1) - leaps(1969)

ClockInit ==
    /\ start \in StartYears
    /\ days = FirstOfYear(start)
    /\ date = [year |-> start, month |-> 1, day |-> 1]

\* The day ends; the bound is the year of the start.
Midnight ==
    /\ date.year = start
    /\ days' = days + 1
    /\ date' = Tomorrow(date)
    /\ UNCHANGED start

ClockSpec == ClockInit /\ [][Midnight]_clock

-----------------------------------------------------------------------------
(* civil_from_days (builder.rs) is the calendar: it names the date of      *)
(* every day, across the ends of months, leap years and centuries, and     *)
(* agrees with the count of days at the turn of every year.                *)
CivilIsCalendar == CivilFromDays(days) = date

(* Every timestamp now_rfc3339 gives a client before the year 10000 passes *)
(* validate_timestamp in the daemon, and reads back as the date and the    *)
(* second it was taken at.                                                 *)
StampsAccepted ==
    date.year \leq 9999 => \A s \in Seconds :
        LET t == EpochSecsToRfc3339(days, s)
        IN  /\ ValidateTimestamp(t)
            /\ 100 * Parse2Digit(t, 1) + Parse2Digit(t, 3) = date.year
            /\ Parse2Digit(t, 6) = date.month /\ Parse2Digit(t, 9) = date.day
            /\ 3600 * Parse2Digit(t, 12) + 60 * Parse2Digit(t, 15)
               + Parse2Digit(t, 18) = s

=============================================================================
