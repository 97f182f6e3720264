------------------------------ MODULE Timestamp ------------------------------
(***************************************************************************)
(* Both ends of the TIMESTAMP field: the client writes it from the clock   *)
(* (now_rfc3339 in builder.rs), the daemon checks it (validate_timestamp   *)
(* in syslog.rs).  A text is a sequence of characters.                     *)
(***************************************************************************)
EXTENDS Integers, Sequences

DigitChars == <<"0", "1", "2", "3", "4", "5", "6", "7", "8", "9">>
Digits == {DigitChars[i] : i \in 1..10}

Digit(n) == DigitChars[n + 1]
DigitValue(c) == (CHOOSE i \in 1..10 : DigitChars[i] = c) - 1

PowerOfTen(w) ==
    <<1, 10, 100, 1000, 10000, 100000, 1000000, 10000000, 100000000, 1000000000>>[w + 1]

\* {n:0width}: at least width digits, more if n needs them.
Width(n, width) ==
    CHOOSE w \in width..9 : n < PowerOfTen(w) /\ (w = width \/ n >= PowerOfTen(w - 1))

Decimal(n, width) ==
    [i \in 1..Width(n, width) |-> Digit((n \div PowerOfTen(Width(n, width) - i)) % 10)]

-----------------------------------------------------------------------------
(* The client: seconds since the epoch to text.                            *)

MutForgetsJanuary(era, doe) ==
    LET yoe == (doe - doe \div 1460 + doe \div 36524 - doe \div 146096) \div 365
        doy == doe - (365 * yoe + yoe \div 4 - yoe \div 100)
        mp  == (5 * doy + 2) \div 153
    IN  [year  |-> yoe + era * 400,
         month |-> IF mp < 10 THEN mp + 3 ELSE mp - 9,
         day   |-> doy - (153 * mp + 2) \div 5 + 1]

\* Day doe of an era of 400 years; years of the algorithm start in March.
DateInEra(era, doe) ==
    LET yoe == (doe - doe \div 1460 + doe \div 36524 - doe \div 146096) \div 365
        doy == doe - (365 * yoe + yoe \div 4 - yoe \div 100)
        mp  == (5 * doy + 2) \div 153
        m   == IF mp < 10 THEN mp + 3 ELSE mp - 9
        y   == yoe + era * 400
    IN  [year  |-> IF m \leq 2 THEN y + 1 ELSE y,
         month |-> m,
         day   |-> doy - (153 * mp + 2) \div 5 + 1]

\* Days since the epoch to a date.  days is unsigned, so z is never negative
\* and \div is the code's /.
CivilFromDays(days) ==
    LET z   == days + 719468
        era == z \div 146097
    IN  DateInEra(era, z - era * 146097)

MutUnpadded(days, rem) ==
    LET c == CivilFromDays(days)
    IN  Decimal(c.year, 4) \o <<"-">> \o Decimal(c.month, 1) \o <<"-">>
        \o Decimal(c.day, 1) \o <<"T">> \o Decimal(rem \div 3600, 2) \o <<":">>
        \o Decimal((rem % 3600) \div 60, 2) \o <<":">> \o Decimal(rem % 60, 2) \o <<"Z">>

\* The text of second 86400 * days + rem of the epoch; days and rem are the
\* quotient and the remainder the function starts with.
EpochSecsToRfc3339(days, rem) ==
    LET c == CivilFromDays(days)
    IN  Decimal(c.year, 4) \o <<"-">> \o Decimal(c.month, 2) \o <<"-">>
        \o Decimal(c.day, 2) \o <<"T">> \o Decimal(rem \div 3600, 2) \o <<":">>
        \o Decimal((rem % 3600) \div 60, 2) \o <<":">> \o Decimal(rem % 60, 2) \o <<"Z">>

-----------------------------------------------------------------------------
(* The daemon: is this text a timestamp?                                   *)

AllDigits(s, first, last) == \A i \in first..last : s[i] \in Digits

Parse2Digit(s, i) == 10 * DigitValue(s[i]) + DigitValue(s[i + 1])

\* Where the time zone starts: behind "." and its digits, if there are any.
ZoneStart(s) ==
    IF s[20] # "." THEN 20
    ELSE CHOOSE p \in 21..Len(s) + 1 :
            AllDigits(s, 21, p - 1) /\ (p > Len(s) \/ s[p] \notin Digits)

ValidZone(s, p) ==
    \/ p = Len(s) /\ s[p] = "Z"
    \/ /\ p + 5 = Len(s) /\ s[p] \in {"+", "-"}
       /\ AllDigits(s, p + 1, p + 2) /\ s[p + 3] = ":" /\ AllDigits(s, p + 4, p + 5)
       /\ Parse2Digit(s, p + 1) \leq 23 /\ Parse2Digit(s, p + 4) \leq 59

ValidateTimestamp(s) ==
    /\ Len(s) >= 20
    /\ AllDigits(s, 1, 4) /\ s[5] = "-" /\ AllDigits(s, 6, 7) /\ s[8] = "-"
    /\ AllDigits(s, 9, 10) /\ s[11] = "T" /\ AllDigits(s, 12, 13) /\ s[14] = ":"
    /\ AllDigits(s, 15, 16) /\ s[17] = ":" /\ AllDigits(s, 18, 19)
    /\ Parse2Digit(s, 6) \in 1..12 /\ Parse2Digit(s, 9) \in 1..31
    /\ Parse2Digit(s, 12) \leq 23 /\ Parse2Digit(s, 15) \leq 59
    /\ Parse2Digit(s, 18) \leq 60
    /\ s[20] = "." => ZoneStart(s) - 21 \in 1..6
    /\ ValidZone(s, ZoneStart(s))

=============================================================================
