------------------------------ MODULE WireProofs ------------------------------
(***************************************************************************)
(* A message on its way, for every set of schemas and tags, every          *)
(* configuration, every length of the chain and every day.                 *)
(*                                                                         *)
(* Validator and Relay: a message accepted by one daemon and passed on     *)
(* crosses every further one.  Calendar: civil_from_days (builder.rs)      *)
(* names the right date of every day from the first of January 1970 on,    *)
(* and the text made of it passes validate_timestamp.  Wire: a step there  *)
(* is a step or a stutter of the chain and of the clock, so both hold of   *)
(* the whole path from a client to rsyslog.                                *)
(***************************************************************************)
EXTENDS Wire, SequenceTheorems, TLAPS

-----------------------------------------------------------------------------
(* Validator: what validate and prepare_for_forwarding guarantee.          *)

(* Two texts with the same JSON value: they differ at most in layout.      *)
SameValue(a, b) == a.kind = b.kind /\ a.tag = b.tag /\ a.fits = b.fits

(* Stripping a cookie gives a message again.                               *)
LEMMA StripType ==
    ASSUME NEW m \in Message
    PROVE  /\ StripCookie(m) \in Message
           /\ StripCookie(m).text = m.text
           /\ StripCookie(m).cookies = IF m.cookies > 0 THEN m.cookies - 1 ELSE 0
  BY DEF StripCookie, HasCookie, Message

(* What validate accepted: a JSON object behind at most one cookie, which  *)
(* in strict mode matches a schema.                                        *)
LEMMA AcceptedForm ==
    ASSUME NEW v \in ValidatorConfig, NEW m \in Message, Accepts(v, m)
    PROVE  /\ m.cookies \leq 1
           /\ m.text.kind = "object"
           /\ v.mode = "strict" => SchemaMatches(v, m.text)
<1>1. /\ StripCookie(m) \in Message
      /\ StripCookie(m).text = m.text
      /\ StripCookie(m).cookies = IF m.cookies > 0 THEN m.cookies - 1 ELSE 0
  BY StripType
<1>2. JsonKind(StripCookie(m)) = "object" /\ (v.mode = "strict" => SchemaMatches(v, m.text))
  BY <1>1 DEF Accepts, Validate
<1>3. StripCookie(m).cookies = 0 /\ m.text.kind = "object"
  BY <1>1, <1>2 DEF JsonKind, HasCookie, Message
<1> QED  BY <1>1, <1>2, <1>3 DEF Message

(* prepare_for_forwarding keeps the JSON value of what validate accepted   *)
(* and obeys output_cee and canonical_json.                                *)
LEMMA PreparedForm ==
    ASSUME NEW v \in ValidatorConfig, NEW m \in Message, Accepts(v, m)
    PROVE  LET out == PrepareForForwarding(v, m)
           IN  /\ out \in Message
               /\ out.cookies \leq 1
               /\ v.output_cee = "never" => out.cookies = 0
               /\ v.output_cee = "always" => out.cookies = 1
               /\ v.canonical_json => out.text.sorted
               /\ SameValue(out.text, m.text)
<1> DEFINE bare == StripCookie(m)
           json == IF v.canonical_json THEN CanonicalizeJson(bare) ELSE bare
<1>1. m.cookies \in {0, 1} /\ m.text.kind = "object"
  BY AcceptedForm DEF Message
<1>2. bare \in Message /\ bare.cookies = 0 /\ bare.text = m.text
  BY <1>1, StripType
<1>3. /\ json \in Message /\ json.cookies = 0
      /\ SameValue(json.text, m.text)
      /\ v.canonical_json => json.text.sorted
  <2>1. CASE ~v.canonical_json
    BY <1>2, <2>1 DEF SameValue
  <2>2. CASE v.canonical_json
    <3> DEFINE t == [bare.text EXCEPT !.sorted = TRUE]
    <3>1. json = [bare EXCEPT !.text = t]
      BY <1>1, <1>2, <2>2 DEF CanonicalizeJson, JsonKind, HasCookie
    <3>2. bare.text \in JsonText
      BY <1>2 DEF Message
    <3>3. t \in JsonText /\ t.sorted /\ SameValue(t, m.text)
      BY Zenon, <1>2, <3>2 DEF JsonText, SameValue
    <3> HIDE DEF t, bare, json
    <3>4. json \in Message /\ json.cookies = 0 /\ json.text = t
      BY <1>2, <3>1, <3>3 DEF Message
    <3> QED  BY <3>3, <3>4
  <2> QED  BY <2>1, <2>2
<1>4. /\ [json EXCEPT !.cookies = m.cookies] \in Message
      /\ [json EXCEPT !.cookies = @ + 1] \in Message
  BY <1>1, <1>3 DEF Message
<1>5. v.output_cee \in {"never", "optional", "always"}
  BY DEF ValidatorConfig, CeeCookieMode
<1>6. PrepareForForwarding(v, m) =
        CASE v.output_cee = "never"    -> json
          [] v.output_cee = "optional" -> [json EXCEPT !.cookies = m.cookies]
          [] v.output_cee = "always"   -> [json EXCEPT !.cookies = @ + 1]
  BY DEF PrepareForForwarding
<1> HIDE DEF json
<1> QED  BY <1>1, <1>3, <1>4, <1>5, <1>6 DEF Message

-----------------------------------------------------------------------------
(* Relay.                                                                  *)

(* A message in the form prepare_for_forwarding gives it is accepted by    *)
(* the next daemon.                                                        *)
LEMMA DownstreamAccepts ==
    ASSUME NEW v \in ValidatorConfig, NEW w \in ValidatorConfig, NEW m \in Message,
           Downstream(v, w),
           m.cookies \leq 1, m.text.kind = "object",
           v.mode = "strict" => SchemaMatches(v, m.text),
           v.output_cee = "never" => m.cookies = 0,
           v.output_cee = "always" => m.cookies = 1
    PROVE  Accepts(w, m)
<1>1. /\ StripCookie(m) \in Message
      /\ StripCookie(m).text = m.text
      /\ StripCookie(m).cookies = 0
  BY StripType DEF Message
<1>2. JsonKind(StripCookie(m)) = "object"
  BY <1>1 DEF JsonKind, HasCookie
<1>3. w.mode = "strict" => SchemaMatches(w, m.text)
  BY DEF Downstream, SchemaMatches
<1>4. /\ w.input_cee = "never" => m.cookies = 0
      /\ w.input_cee = "always" => m.cookies = 1
  BY DEF Downstream
<1> QED  BY <1>1, <1>2, <1>3, <1>4 DEF Accepts, Validate, HasCookie, Message

-----------------------------------------------------------------------------
(* The inductive invariant: an accepted message has the form above, and a  *)
(* message on its way from one daemon to the next is one that will be      *)
(* accepted.                                                               *)
RelayInv ==
    /\ TypeOK
    /\ SameValue(msg.text, source)
    /\ verdict = "Ok" =>
          /\ msg.cookies \leq 1
          /\ msg.text.kind = "object"
          /\ validator.mode = "strict" => SchemaMatches(validator, msg.text)
          /\ validator.output_cee = "never" => msg.cookies = 0
          /\ validator.output_cee = "always" => msg.cookies = 1
          /\ validator.canonical_json => msg.text.sorted
    /\ hop > 1 /\ verdict = "Pending" => Accepts(validator, msg)
    /\ NoLateRejection

(* One daemon's work on a message keeps the invariant.                     *)
LEMMA HandleKeepsInv == RelayInv /\ Handle => RelayInv'
<1> SUFFICES ASSUME RelayInv, Handle PROVE RelayInv'
  OBVIOUS
<1> USE DEF RelayInv
<1>0. /\ validator' = validator /\ hop' = hop /\ source' = source
      /\ verdict' = Validate(validator, msg)
  BY DEF Handle
<1>1. CASE Accepts(validator, msg)
  <2>1. msg' = PrepareForForwarding(validator, msg) /\ verdict' = "Ok"
    BY <1>1 DEF Handle, Accepts
  <2>2. /\ msg' \in Message
        /\ msg'.cookies \leq 1
        /\ validator.output_cee = "never" => msg'.cookies = 0
        /\ validator.output_cee = "always" => msg'.cookies = 1
        /\ validator.canonical_json => msg'.text.sorted
        /\ SameValue(msg'.text, msg.text)
    BY <1>1, <2>1, PreparedForm DEF TypeOK
  <2>3. /\ msg.text.kind = "object"
        /\ validator.mode = "strict" => SchemaMatches(validator, msg.text)
    BY <1>1, AcceptedForm DEF TypeOK
  <2>4. validator.mode = "strict" => SchemaMatches(validator, msg'.text)
    BY <2>2, <2>3 DEF SameValue, SchemaMatches
  <2> QED  BY <1>0, <2>1, <2>2, <2>3, <2>4 DEF TypeOK, SameValue, NoLateRejection
<1>2. CASE ~Accepts(validator, msg)
  <2>1. msg' = msg /\ hop = 1
    BY <1>2 DEF Handle, TypeOK
  <2>2. verdict' \in {"UnexpectedCeeCookie", "MissingCeeCookie", "NotJson",
                      "NotObject", "SchemaRejected"}
    BY <1>0, <1>2 DEF Validate, Accepts
  <2> QED  BY <1>0, <2>1, <2>2 DEF TypeOK, NoLateRejection
<1> QED  BY <1>1, <1>2

(* Passing the message on keeps the invariant.                             *)
LEMMA ForwardKeepsInv ==
    ASSUME RelayInv, NEW in \in CeeCookieMode, NEW out \in CeeCookieMode,
           NEW canonical \in BOOLEAN, Forward(in, out, canonical)
    PROVE  RelayInv'
<1> USE DEF RelayInv
<1>1. /\ msg' = msg /\ source' = source /\ hop' = hop + 1
      /\ verdict = "Ok" /\ verdict' = "Pending" /\ hop < MaxHops
      /\ Downstream(validator, validator')
  BY DEF Forward
<1>2. validator' \in ValidatorConfig
  BY Zenon DEF Forward, TypeOK, ValidatorConfig
<1>3. Accepts(validator', msg)
  BY <1>1, <1>2, DownstreamAccepts DEF TypeOK
<1>4. hop' \in 1..MaxHops
  BY <1>1, RelayAssumption DEF TypeOK
<1> QED  BY <1>1, <1>2, <1>3, <1>4 DEF TypeOK, NoLateRejection

(* A message that one daemon accepted is never rejected further down, and  *)
(* what crosses obeys the cookie and canonical-form policies and carries   *)
(* the client's JSON value, through any number of hops.                    *)
THEOREM RelayCorrect == Spec => [](TypeOK /\ NoLateRejection /\ CrossingMessage)
<1>1. Init => RelayInv
  BY RelayAssumption DEF Init, RelayInv, TypeOK, SameValue, NoLateRejection, Message
<1>2. RelayInv /\ [Next]_vars => RelayInv'
  <2> SUFFICES ASSUME RelayInv, [Next]_vars PROVE RelayInv'
    OBVIOUS
  <2>1. CASE UNCHANGED vars
    BY <2>1 DEF vars, RelayInv, TypeOK, NoLateRejection
  <2>2. CASE Handle
    BY <2>2, HandleKeepsInv
  <2>3. CASE \E in, out \in CeeCookieMode, canonical \in BOOLEAN :
                Forward(in, out, canonical)
    BY <2>3, ForwardKeepsInv
  <2> QED  BY <2>1, <2>2, <2>3 DEF Next
<1>3. RelayInv => TypeOK /\ NoLateRejection /\ CrossingMessage
  <2> SUFFICES ASSUME RelayInv, verdict = "Ok" PROVE CrossingMessage
    BY DEF RelayInv, CrossingMessage
  <2>1. [msg.text EXCEPT !.sorted = source.sorted] = source
    BY DEF RelayInv, SameValue, TypeOK, Message, JsonText
  <2> QED  BY <2>1 DEF RelayInv, CrossingMessage
<1> QED  BY <1>1, <1>2, <1>3, PTL DEF Spec

-----------------------------------------------------------------------------
(* Calendar.  The proof follows the algorithm: a day is the doy-th of the  *)
(* yoe-th year of an era of 400 years, where years begin on the first of   *)
(* March, so that the leap day is the last of its year.                    *)

YearsOfEra == 0..399
DaysOfYear == 0..365

\* The March year yoe of an era ends with the 29th of February.
EndsInLeapDay(yoe) == (yoe + 1) % 4 = 0 /\ ((yoe + 1) % 100 # 0 \/ yoe = 399)

LastDay(yoe) == IF EndsInLeapDay(yoe) THEN 365 ELSE 364

InYear(yoe, doy) == doy = 365 => EndsInLeapDay(yoe)

YearStart(yoe) == 365 * yoe + yoe \div 4 - yoe \div 100

\* and the day of the era of day doy of that year
DayOfEra(yoe, doy) == YearStart(yoe) + doy

\* The parts of civil_from_days, as operators.
MarchDays(n) == n + 719468
Era(n) == MarchDays(n) \div 146097
Doe(n) == MarchDays(n) - Era(n) * 146097
Yoe(doe) == (doe - doe \div 1460 + doe \div 36524 - doe \div 146096) \div 365
Mp(doy) == (5 * doy + 2) \div 153
Month(mp) == IF mp < 10 THEN mp + 3 ELSE mp - 9
DayOf(doy) == doy - (153 * Mp(doy) + 2) \div 5 + 1

DateOf(era, yoe, doy) ==
    [year  |-> IF Month(Mp(doy)) \leq 2 THEN yoe + era * 400 + 1 ELSE yoe + era * 400,
     month |-> Month(Mp(doy)),
     day   |-> DayOf(doy)]

(* Months and days of the month are in range.                              *)
LEMMA MonthRange ==
    ASSUME NEW doy \in DaysOfYear
    PROVE  Mp(doy) \in 0..11 /\ DayOf(doy) \in 1..31
BY SMTT(30) DEF DaysOfYear, Mp, DayOf

(* The formula for the year of the era inverts the count of days, the leap *)
(* day at its end included.                                                *)
LEMMA YearOfEra ==
    ASSUME NEW yoe \in YearsOfEra, NEW doy \in DaysOfYear, InYear(yoe, doy)
    PROVE  Yoe(DayOfEra(yoe, doy)) = yoe
BY SMTT(60) DEF YearsOfEra, DaysOfYear, DayOfEra, YearStart, InYear, EndsInLeapDay, Yoe

(* An era has 146097 days.                                                 *)
LEMMA DaysInEra ==
    ASSUME NEW yoe \in YearsOfEra, NEW doy \in DaysOfYear, InYear(yoe, doy)
    PROVE  /\ DayOfEra(yoe, doy) \in Int
           /\ 0 \leq DayOfEra(yoe, doy) /\ DayOfEra(yoe, doy) < 146097
BY SMTT(60) DEF YearsOfEra, DaysOfYear, DayOfEra, YearStart, InYear, EndsInLeapDay

(* The era and the day of the era are quotient and remainder.              *)
LEMMA EraAndDay ==
    ASSUME NEW era \in Nat, NEW doe \in Int, 0 \leq doe, doe < 146097,
           NEW n \in Int, n + 719468 = 146097 * era + doe
    PROVE  Era(n) = era /\ Doe(n) = doe
<1>1. Era(n) = era
  BY SMT DEF Era, MarchDays
<1>2. Doe(n) = doe
  BY <1>1, SMT DEF Doe, MarchDays
<1> QED  BY <1>1, <1>2, SMT

(* The day of the year is what remains of the day of the era.              *)
LEMMA DayOfYear ==
    ASSUME NEW yoe \in YearsOfEra, NEW doy \in DaysOfYear
    PROVE  DayOfEra(yoe, doy) - YearStart(yoe) = doy
BY SMT DEF YearsOfEra, DaysOfYear, DayOfEra, YearStart

\* n days after the epoch it is day doy of year yoe of the era.
OnDay(n, era, yoe, doy) ==
    /\ InYear(yoe, doy)
    /\ n + 719468 = 146097 * era + DayOfEra(yoe, doy)

(* civil_from_days finds era, year and day of a count of days again.       *)
LEMMA CivilInverts ==
    ASSUME NEW era \in Nat, NEW yoe \in YearsOfEra, NEW doy \in DaysOfYear, NEW n \in Int,
           OnDay(n, era, yoe, doy)
    PROVE  CivilFromDays(n) = DateOf(era, yoe, doy)
<1>1. CivilFromDays(n) = DateOf(Era(n), Yoe(Doe(n)), Doe(n) - YearStart(Yoe(Doe(n))))
  <2>1. CivilFromDays(n) = DateInEra(Era(n), Doe(n))
    BY SMT DEF CivilFromDays, MarchDays, Era, Doe
  <2>2. \A e, d : DateInEra(e, d) = DateOf(e, Yoe(d), d - YearStart(Yoe(d)))
    BY SMT DEF DateInEra, DateOf, Mp, Month, DayOf, Yoe, YearStart
  <2> QED  BY <2>1, <2>2
<1>2. InYear(yoe, doy)
  BY DEF OnDay
<1>3. Era(n) = era /\ Doe(n) = DayOfEra(yoe, doy)
  <2>1. PICK doe \in Int : doe = DayOfEra(yoe, doy) /\ 0 \leq doe /\ doe < 146097
    BY <1>2, DaysInEra, SMT
  <2>2. n + 719468 = 146097 * era + doe
    BY <2>1, SMT DEF OnDay
  <2>3. Era(n) = era /\ Doe(n) = doe
    BY <2>1, <2>2, EraAndDay, SMT
  <2> QED  BY <2>1, <2>3, SMT
<1>4. Yoe(Doe(n)) = yoe
  BY <1>2, <1>3, YearOfEra
<1>5. Doe(n) - YearStart(Yoe(Doe(n))) = doy
  <2>1. DayOfEra(yoe, doy) - YearStart(yoe) = doy
    BY DayOfYear
  <2> QED  BY <1>3, <1>4, <2>1
<1> QED  BY <1>1, <1>3, <1>4, <1>5

-----------------------------------------------------------------------------
(* From one day to the next inside a March year: the day of the month goes *)
(* up by one, or a new month begins.                                       *)
LEMMA NextInMonth ==
    ASSUME NEW doy \in DaysOfYear
    PROVE  \/ Mp(doy + 1) = Mp(doy) /\ DayOf(doy + 1) = DayOf(doy) + 1
           \/ Mp(doy + 1) = Mp(doy) + 1 /\ DayOf(doy + 1) = 1
BY SMTT(30) DEF DaysOfYear, Mp, DayOf

(* The length 153 gives to months other than February is the calendar's.   *)
LEMMA MonthLength ==
    ASSUME NEW y \in Nat, NEW doy \in DaysOfYear, Mp(doy) \in 0..10
    PROVE  Mp(doy + 1) = Mp(doy) <=> DayOf(doy) < DaysIn(y, Month(Mp(doy)))
<1>1. ASSUME NEW mp \in 0..10, Mp(doy) = mp
      PROVE  Mp(doy + 1) = mp <=> DayOf(doy) < (IF mp \in {1, 3, 6, 8} THEN 30 ELSE 31)
  BY <1>1, SMTT(60) DEF DaysOfYear, Mp, DayOf
<1>2. \A mp \in 0..10 : DaysIn(y, Month(mp)) = (IF mp \in {1, 3, 6, 8} THEN 30 ELSE 31)
  BY DEF DaysIn, Month
<1> QED  BY <1>1, <1>2

(* February is what is left of the March year.                             *)
LEMMA February ==
    ASSUME NEW doy \in DaysOfYear
    PROVE  /\ Mp(doy) = 11 <=> doy \geq 337
           /\ Mp(doy) = 11 => DayOf(doy) = doy - 336
BY SMTT(30) DEF DaysOfYear, Mp, DayOf

(* Leap years seen from the calendar and from the era.                     *)
LEMMA LeapYears ==
    ASSUME NEW era \in Nat, NEW yoe \in YearsOfEra
    PROVE  Leap(yoe + era * 400 + 1) <=> EndsInLeapDay(yoe)
<1>1. (yoe + era * 400 + 1) % 4 = (yoe + 1) % 4
  BY SMTT(30) DEF YearsOfEra
<1>2. (yoe + era * 400 + 1) % 100 = (yoe + 1) % 100
  BY SMTT(30) DEF YearsOfEra
<1>3. (yoe + era * 400 + 1) % 400 = (yoe + 1) % 400
  BY SMTT(30) DEF YearsOfEra
<1>4. (yoe + 1) % 400 = 0 <=> yoe = 399
  BY SMTT(30) DEF YearsOfEra
<1> QED  BY <1>1, <1>2, <1>3, <1>4 DEF Leap, EndsInLeapDay

(* What Tomorrow does, branch by branch.                                   *)
LEMMA TomorrowCases ==
    ASSUME NEW y \in Nat, NEW m \in 1..12, NEW d \in Nat
    PROVE  LET t == Tomorrow([year |-> y, month |-> m, day |-> d])
           IN  IF d < DaysIn(y, m) THEN t = [year |-> y, month |-> m, day |-> d + 1]
               ELSE IF m < 12 THEN t = [year |-> y, month |-> m + 1, day |-> 1]
               ELSE t = [year |-> y + 1, month |-> 1, day |-> 1]
BY Zenon DEF Tomorrow

(* The last day of a month before December is followed by the first of the *)
(* next month.                                                             *)
LEMMA EndOfMonth ==
    ASSUME NEW y \in Nat, NEW m \in 1..12, NEW d \in Nat, m < 12, ~(d < DaysIn(y, m))
    PROVE  Tomorrow([year |-> y, month |-> m, day |-> d]) =
               [year |-> y, month |-> m + 1, day |-> 1]
BY Zenon, TomorrowCases

(* Inside a March year the date of the next day is Tomorrow's.             *)
LEMMA TomorrowInYear ==
    ASSUME NEW era \in Nat, NEW yoe \in YearsOfEra, NEW doy \in DaysOfYear,
           doy + 1 \in DaysOfYear, InYear(yoe, doy + 1)
    PROVE  Tomorrow(DateOf(era, yoe, doy)) = DateOf(era, yoe, doy + 1)
<1> DEFINE y == IF Month(Mp(doy)) \leq 2 THEN yoe + era * 400 + 1 ELSE yoe + era * 400
           m == Month(Mp(doy))
           d == DayOf(doy)
<1>1. Mp(doy) \in 0..11 /\ d \in 1..31 /\ Mp(doy + 1) \in 0..11
  BY MonthRange
<1>2. y \in Nat /\ m \in 1..12 /\ d \in Nat
  BY <1>1, SMT DEF Month, YearsOfEra
<1>3. DateOf(era, yoe, doy) = [year |-> y, month |-> m, day |-> d]
  BY DEF DateOf
<1> HIDE DEF y, m, d
<1>4. CASE d < DaysIn(y, m)
  <2>1. Mp(doy + 1) = Mp(doy) /\ DayOf(doy + 1) = d + 1
    <3>1. CASE Mp(doy) \in 0..10
      BY <1>2, <1>4, <3>1, MonthLength, NextInMonth DEF m, d
    <3>2. CASE Mp(doy) = 11
      BY <3>2, <1>1, NextInMonth, SMT DEF d
    <3> QED  BY <1>1, <3>1, <3>2
  <2>2. Tomorrow(DateOf(era, yoe, doy)) = [year |-> y, month |-> m, day |-> d + 1]
    BY ZenonT(30), <1>2, <1>3, <1>4, TomorrowCases
  <2> QED  BY <2>1, <2>2 DEF DateOf, y, m
<1>5. CASE ~(d < DaysIn(y, m))
  <2>1. Mp(doy) \in 0..10
    <3> SUFFICES ASSUME Mp(doy) = 11 PROVE FALSE
      BY <1>1
    <3>1. m = 2 /\ y = yoe + era * 400 + 1 /\ d = doy - 336
      BY February, SMT DEF Month, y, m, d
    <3>2. DaysIn(y, m) = IF EndsInLeapDay(yoe) THEN 29 ELSE 28
      BY <3>1, LeapYears DEF DaysIn
    <3> QED  BY <1>5, <3>1, <3>2, SMT DEF DaysOfYear, InYear
  <2>2. Mp(doy + 1) = Mp(doy) + 1 /\ DayOf(doy + 1) = 1
    BY <1>2, <1>5, <2>1, MonthLength, NextInMonth DEF m, d
  <2>3. CASE m < 12
    <3>1. Tomorrow(DateOf(era, yoe, doy)) = [year |-> y, month |-> m + 1, day |-> 1]
      BY ZenonT(30), <1>2, <1>3, <1>5, <2>3, TomorrowCases
    <3>2. Month(Mp(doy + 1)) = m + 1 /\ (m \leq 2 <=> m + 1 \leq 2)
      BY <2>1, <2>2, <2>3, SMT DEF Month, m
    <3> QED  BY <2>2, <3>1, <3>2, SMT DEF DateOf, y, m
  <2>4. CASE m = 12
    <3>1. Tomorrow(DateOf(era, yoe, doy)) = [year |-> y + 1, month |-> 1, day |-> 1]
      BY <1>2, <1>3, <1>5, <2>4, SMT DEF Tomorrow
    <3>2. Month(Mp(doy + 1)) = 1 /\ y + 1 = yoe + era * 400 + 1
      BY <2>1, <2>2, <2>4, SMT DEF Month, YearsOfEra, y, m
    <3> QED  BY <2>2, <3>1, <3>2, SMT DEF DateOf
  <2> QED  BY <1>2, <2>3, <2>4, SMT
<1> QED  BY <1>4, <1>5

(* After the last day of February comes the first of March, in the next    *)
(* March year or the next era.                                             *)
LEMMA TomorrowIsMarch ==
    ASSUME NEW era \in Nat, NEW yoe \in YearsOfEra, NEW doy \in DaysOfYear, doy = LastDay(yoe)
    PROVE  Tomorrow(DateOf(era, yoe, doy)) =
               [year |-> yoe + era * 400 + 1, month |-> 3, day |-> 1]
<1> DEFINE y == yoe + era * 400 + 1
<1>1. Mp(doy) = 11 /\ DayOf(doy) = doy - 336
  BY February, SMT DEF LastDay
<1>2. DateOf(era, yoe, doy) = [year |-> y, month |-> 2, day |-> doy - 336]
  BY <1>1, SMT DEF DateOf, Month
<1>3. DaysIn(y, 2) = IF EndsInLeapDay(yoe) THEN 29 ELSE 28
  BY LeapYears DEF DaysIn
<1>4. ~(doy - 336 < DaysIn(y, 2))
  BY <1>3, SMT DEF LastDay
<1>5. PICK m \in 1..12, d \in Nat : m = 2 /\ d = doy - 336
  BY SMT DEF LastDay
<1>6. m \in 1..12 /\ d \in Nat /\ m < 12 /\ m + 1 = 3 /\ ~(d < DaysIn(y, m))
  BY <1>4, <1>5, SMT
<1>7. y \in Nat
  BY SMT DEF YearsOfEra
<1>8. DateOf(era, yoe, doy) = [year |-> y, month |-> m, day |-> d]
  BY <1>2, <1>5
<1> HIDE DEF y
<1>9. Tomorrow([year |-> y, month |-> m, day |-> d]) = [year |-> y, month |-> m + 1, day |-> 1]
  BY Zenon, <1>6, <1>7, EndOfMonth
<1> QED  BY <1>6, <1>8, <1>9 DEF y

(* The count of days at the turn of a March year.                          *)
LEMMA TurnOfYear ==
    ASSUME NEW yoe \in YearsOfEra, NEW doy \in DaysOfYear,
           doy = LastDay(yoe)
    PROVE  /\ yoe < 399 => DayOfEra(yoe, doy) + 1 = DayOfEra(yoe + 1, 0)
           /\ yoe = 399 => DayOfEra(yoe, doy) + 1 = 146097
<1>1. CASE yoe = 399
  BY <1>1, SMT DEF DayOfEra, YearStart, EndsInLeapDay, LastDay
<1>2. CASE yoe < 399
  BY <1>2, SMTT(60) DEF DayOfEra, YearStart, EndsInLeapDay, YearsOfEra, LastDay
<1> QED  BY <1>1, <1>2, SMT DEF YearsOfEra

(* The first of March.                                                     *)
LEMMA FirstOfMarch ==
    ASSUME NEW era \in Nat, NEW yoe \in YearsOfEra
    PROVE  /\ DateOf(era, yoe, 0) = [year |-> yoe + era * 400, month |-> 3, day |-> 1]
           /\ InYear(yoe, 0)
BY SMT DEF DateOf, Month, Mp, DayOf, InYear

(* Every day has a successor in the scheme, and its date is Tomorrow's.    *)
LEMMA DayAfter ==
    ASSUME NEW era \in Nat, NEW yoe \in YearsOfEra, NEW doy \in DaysOfYear, NEW n \in Int,
           OnDay(n, era, yoe, doy)
    PROVE  \E e \in Nat, y \in YearsOfEra, d \in DaysOfYear :
               /\ OnDay(n + 1, e, y, d)
               /\ Tomorrow(DateOf(era, yoe, doy)) = DateOf(e, y, d)
<1>0. InYear(yoe, doy) /\ n + 719468 = 146097 * era + DayOfEra(yoe, doy)
  BY SMT DEF OnDay
<1>1. CASE doy + 1 \in DaysOfYear /\ InYear(yoe, doy + 1)
  <2>1. DayOfEra(yoe, doy + 1) = DayOfEra(yoe, doy) + 1 /\ DayOfEra(yoe, doy) \in Int
    BY SMT DEF DayOfEra, YearStart, YearsOfEra, DaysOfYear
  <2>2. OnDay(n + 1, era, yoe, doy + 1)
    BY <1>0, <1>1, <2>1, SMT DEF OnDay
  <2> QED  BY <1>1, <2>2, TomorrowInYear
<1>2. CASE ~(doy + 1 \in DaysOfYear /\ InYear(yoe, doy + 1))
  <2>1. doy = LastDay(yoe)
    BY <1>0, <1>2, SMT DEF InYear, DaysOfYear, LastDay
  <2>2. Tomorrow(DateOf(era, yoe, doy)) =
            [year |-> yoe + era * 400 + 1, month |-> 3, day |-> 1]
    BY <2>1, TomorrowIsMarch
  <2>3. DayOfEra(yoe, doy) \in Int /\ 0 \in DaysOfYear
    BY SMT DEF DayOfEra, YearStart, YearsOfEra, DaysOfYear
  <2>4. CASE yoe < 399
    <3>1. yoe + 1 \in YearsOfEra
      BY <2>4, SMT DEF YearsOfEra
    <3>2. DayOfEra(yoe, doy) + 1 = DayOfEra(yoe + 1, 0)
      BY <2>1, <2>4, TurnOfYear
    <3>3. InYear(yoe + 1, 0)
      BY <3>1, FirstOfMarch
    <3>4. OnDay(n + 1, era, yoe + 1, 0)
      BY <1>0, <2>3, <3>2, <3>3, SMT DEF OnDay
    <3>5. DateOf(era, yoe + 1, 0) = [year |-> yoe + 1 + era * 400, month |-> 3, day |-> 1]
      BY <3>1, FirstOfMarch
    <3>6. yoe + 1 + era * 400 = yoe + era * 400 + 1
      BY SMT DEF YearsOfEra
    <3> QED  BY <2>2, <2>3, <3>1, <3>4, <3>5, <3>6
  <2>5. CASE yoe = 399
    <3>1. 0 \in YearsOfEra /\ era + 1 \in Nat
      BY SMT DEF YearsOfEra
    <3>2. DayOfEra(yoe, doy) + 1 = 146097 /\ DayOfEra(0, 0) = 0
      BY <2>1, <2>5, TurnOfYear, SMT DEF DayOfEra, YearStart
    <3>3. InYear(0, 0)
      BY <3>1, FirstOfMarch
    <3>4. OnDay(n + 1, era + 1, 0, 0)
      BY <1>0, <2>3, <3>2, <3>3, SMT DEF OnDay
    <3>5. DateOf(era + 1, 0, 0) = [year |-> 0 + (era + 1) * 400, month |-> 3, day |-> 1]
      BY <3>1, FirstOfMarch
    <3>6. 0 + (era + 1) * 400 = yoe + era * 400 + 1
      BY <2>5, SMT
    <3> QED  BY <2>2, <2>3, <3>1, <3>4, <3>5, <3>6
  <2>6. yoe < 399 \/ yoe = 399
    BY SMT DEF YearsOfEra
  <2> QED  BY <2>4, <2>5, <2>6
<1> QED  BY <1>1, <1>2

(* The first of January of a year, the 306th day after a first of March.   *)
LEMMA FirstOfJanuary ==
    ASSUME NEW y \in Nat, y >= 1970
    PROVE  \E era \in Nat, yoe \in YearsOfEra, doy \in DaysOfYear :
               /\ OnDay(FirstOfYear(y), era, yoe, doy)
               /\ DateOf(era, yoe, doy) = [year |-> y, month |-> 1, day |-> 1]
<1>1. PICK era \in Nat, yoe \in Int : y = 400 * era + yoe + 1 /\ 0 \leq yoe /\ yoe < 400
  <2> DEFINE q == (y - 1) \div 400
             r == y - 1 - 400 * q
  <2>1. q \in Nat
    BY SMT
  <2>2. r \in Int /\ 0 \leq r /\ r < 400
    BY SMT
  <2>3. y = 400 * q + r + 1
    BY <2>1, SMT
  <2> QED  BY <2>1, <2>2, <2>3
<1>2. yoe \in YearsOfEra /\ 306 \in DaysOfYear
  BY <1>1, SMT DEF YearsOfEra, DaysOfYear
<1>3. /\ (y - 1) \div 4 = 100 * era + yoe \div 4
      /\ (y - 1) \div 100 = 4 * era + yoe \div 100
      /\ (y - 1) \div 400 = era
  BY <1>1, SMT
<1>4. FirstOfYear(y) = 365 * (y - 1970) + ((100 * era + yoe \div 4) - (4 * era + yoe \div 100) + era) - 477
  BY <1>3, SMT DEF FirstOfYear
<1>5. FirstOfYear(y) + 719468 = 146097 * era + DayOfEra(yoe, 306)
  BY <1>1, <1>4, SMT DEF DayOfEra, YearStart
<1>6. OnDay(FirstOfYear(y), era, yoe, 306)
  BY <1>5, SMT DEF OnDay, InYear
<1>7. DateOf(era, yoe, 306) = [year |-> yoe + era * 400 + 1, month |-> 1, day |-> 1]
  BY SMT DEF DateOf, Month, Mp, DayOf
<1>8. yoe + era * 400 + 1 = y
  BY <1>1, SMT
<1> QED  BY <1>2, <1>6, <1>7, <1>8

\* The date is the one the scheme gives the count of days.
ClockInv ==
    /\ days \in Int
    /\ \E era \in Nat, yoe \in YearsOfEra, doy \in DaysOfYear :
           OnDay(days, era, yoe, doy) /\ date = DateOf(era, yoe, doy)

(* The clock starts with the first of January of a year.                   *)
LEMMA ClockStarts == ClockInit => ClockInv
<1> SUFFICES ASSUME ClockInit  PROVE ClockInv
  OBVIOUS
<1>1. start \in Nat /\ start >= 1970
  BY YearsAssumption DEF ClockInit
<1>2. days = FirstOfYear(start) /\ date = [year |-> start, month |-> 1, day |-> 1]
  BY DEF ClockInit
<1>3. FirstOfYear(start) \in Int
  BY <1>1, SMT DEF FirstOfYear
<1> QED  BY <1>1, <1>2, <1>3, FirstOfJanuary DEF ClockInv

(* Midnight keeps date and count of days together.                         *)
LEMMA ClockSteps == ClockInv /\ [Midnight]_clock => ClockInv'
<1> SUFFICES ASSUME ClockInv, [Midnight]_clock  PROVE ClockInv'
  OBVIOUS
<1>1. CASE Midnight
  <2>1. PICK era \in Nat, yoe \in YearsOfEra, doy \in DaysOfYear :
            OnDay(days, era, yoe, doy) /\ date = DateOf(era, yoe, doy)
    BY DEF ClockInv
  <2>2. days' = days + 1 /\ date' = Tomorrow(date) /\ days \in Int
    BY <1>1 DEF Midnight, ClockInv
  <2>3. days + 1 \in Int
    BY <2>2, SMT
  <2> QED  BY <2>1, <2>2, <2>3, DayAfter DEF ClockInv
<1>2. CASE UNCHANGED clock
  BY <1>2 DEF clock, ClockInv
<1> QED  BY <1>1, <1>2

-----------------------------------------------------------------------------
(* Timestamps: the client's text, piece by piece, as the daemon reads it.  *)

(* The powers of ten PowerOfTen tabulates.                                 *)
LEMMA PowersOfTen ==
    /\ PowerOfTen(0) = 1 /\ PowerOfTen(1) = 10 /\ PowerOfTen(2) = 100 /\ PowerOfTen(3) = 1000
    /\ PowerOfTen(4) = 10000
    /\ \A w \in 4..9 : PowerOfTen(w) >= 10000 /\ PowerOfTen(w) \in Nat
BY SMT DEF PowerOfTen

(* A number below 100 printed with {:02}: its two digits.                  *)
LEMMA TwoDigits ==
    ASSUME NEW n \in 0..99
    PROVE  Decimal(n, 2) = <<Digit(n \div 10), Digit(n % 10)>>
<1> DEFINE P(w) == n < PowerOfTen(w) /\ (w = 2 \/ n >= PowerOfTen(w - 1))
<1>1. \A w \in 2..9 : P(w) <=> w = 2
  BY PowersOfTen, SMT
<1>2. Width(n, 2) = 2
  BY <1>1 DEF Width
<1>3. Decimal(n, 2) = [i \in 1..2 |-> Digit((n \div PowerOfTen(2 - i)) % 10)]
  BY <1>2 DEF Decimal
<1>4. (n \div PowerOfTen(2 - 1)) % 10 = n \div 10 /\ (n \div PowerOfTen(2 - 2)) % 10 = n % 10
  BY PowersOfTen, SMT
<1> QED  BY <1>3, <1>4

(* A digit is read as the number it was printed for.                       *)
LEMMA DigitRead ==
    ASSUME NEW n \in 0..9
    PROVE  Digit(n) \in Digits /\ DigitValue(Digit(n)) = n
BY DEF Digit, Digits, DigitValue, DigitChars

\* The characters of a timestamp a client writes.
Marks == {"-", "T", ":", "Z"}
StampChars == Digits \cup Marks

\* t is s, of length k, and what follows it, of length l in all.
Continues(t, s, k, l) ==
    /\ t \in Seq(StampChars) /\ Len(t) = l
    /\ \A i \in 1..k : t[i] = s[i]

\* s followed by the mark c, and by the number n in two digits.
WithMark(s, c) == s \o <<c>>
WithTwo(s, n) == s \o Decimal(n, 2)

(* A mark put behind a text, and what it leaves as it was.                 *)
LEMMA AddMark ==
    ASSUME NEW s \in Seq(StampChars), NEW c \in Marks
    PROVE  /\ Continues(WithMark(s, c), s, Len(s), Len(s) + 1)
           /\ WithMark(s, c)[Len(s) + 1] = c
<1>0. PICK k \in Nat : k = Len(s)
  BY LenProperties
<1>1. <<c>> \in Seq(StampChars) /\ Len(<<c>>) = 1 /\ <<c>>[1] = c
  BY DEF StampChars
<1>2. s \o <<c>> \in Seq(StampChars) /\ Len(s \o <<c>>) = k + 1
  BY <1>0, <1>1, ConcatProperties
<1>3. \A i \in 1..k : (s \o <<c>>)[i] = s[i]
  BY <1>0, <1>1, ConcatProperties, SMT
<1>4. (s \o <<c>>)[k + 1] = <<c>>[1]
  BY <1>0, <1>1, ConcatProperties, SMT
<1> QED  BY <1>0, <1>1, <1>2, <1>3, <1>4 DEF Continues, WithMark

(* Two digits put behind a text read as the number they were printed for.  *)
LEMMA AddTwo ==
    ASSUME NEW s \in Seq(StampChars), NEW n \in 0..99
    PROVE  /\ Continues(WithTwo(s, n), s, Len(s), Len(s) + 2)
           /\ WithTwo(s, n)[Len(s) + 1] \in Digits /\ WithTwo(s, n)[Len(s) + 2] \in Digits
           /\ Parse2Digit(WithTwo(s, n), Len(s) + 1) = n
<1>0. PICK k \in Nat : k = Len(s)
  BY LenProperties
<1> DEFINE a == Digit(n \div 10)
           b == Digit(n % 10)
<1>1. /\ n \div 10 \in 0..9 /\ n % 10 \in 0..9
      /\ 10 * (n \div 10) + (n % 10) = n
  <2>1. n \div 10 \in 0..9
    BY SMT
  <2>2. n % 10 \in 0..9
    BY SMT
  <2>3. 10 * (n \div 10) + (n % 10) = n
    BY SMT
  <2> QED  BY <2>1, <2>2, <2>3
<1>2. a \in Digits /\ DigitValue(a) = n \div 10 /\ b \in Digits /\ DigitValue(b) = n % 10
  BY <1>1, DigitRead
<1>3. Decimal(n, 2) = <<a, b>>
  BY ZenonT(30), TwoDigits
<1> HIDE DEF a, b
<1>4. <<a, b>> \in Seq(StampChars) /\ Len(<<a, b>>) = 2 /\ <<a, b>>[1] = a /\ <<a, b>>[2] = b
  BY <1>2 DEF StampChars
<1> DEFINE t == s \o <<a, b>>
<1>5. t \in Seq(StampChars) /\ Len(t) = k + 2
  BY <1>0, <1>4, ConcatProperties
<1>6. \A i \in 1..k : t[i] = s[i]
  BY <1>0, <1>4, ConcatProperties, SMT
<1>7. t[k + 1] = <<a, b>>[1] /\ t[k + 2] = <<a, b>>[2]
  BY <1>0, <1>4, ConcatProperties, SMT
<1>8. t[k + 1] = a /\ t[k + 1 + 1] = b /\ t[k + 2] = b
  BY <1>0, <1>4, <1>7, SMT
<1> HIDE DEF t
<1>9. Parse2Digit(t, k + 1) = n
  BY <1>0, <1>1, <1>2, <1>8 DEF Parse2Digit
<1>10. Continues(t, s, k, k + 2)
  BY <1>5, <1>6 DEF Continues
<1> QED  BY Zenon, <1>0, <1>2, <1>3, <1>8, <1>9, <1>10 DEF t, WithTwo

\* The parts of a text that read as a date and a time of day.
ReadsAs(t, y, m, d, h, i, s) ==
    /\ 100 * Parse2Digit(t, 1) + Parse2Digit(t, 3) = y
    /\ Parse2Digit(t, 6) = m /\ Parse2Digit(t, 9) = d
    /\ Parse2Digit(t, 12) = h /\ Parse2Digit(t, 15) = i /\ Parse2Digit(t, 18) = s

(* A year below 10000 printed with {:04}: four digits that read as it.     *)
LEMMA FourDigits ==
    ASSUME NEW y \in Nat, y < 10000
    PROVE  /\ Decimal(y, 4) \in Seq(StampChars) /\ Len(Decimal(y, 4)) = 4
           /\ \A i \in 1..4 : Decimal(y, 4)[i] \in Digits
           /\ 100 * Parse2Digit(Decimal(y, 4), 1) + Parse2Digit(Decimal(y, 4), 3) = y
<1> DEFINE P(w) == y < PowerOfTen(w) /\ (w = 4 \/ y >= PowerOfTen(w - 1))
           a == y \div 1000
           b == (y \div 100) % 10
           c == (y \div 10) % 10
           d == y % 10
           t == <<Digit(a), Digit(b), Digit(c), Digit(d)>>
<1>1. ASSUME NEW w \in 4..9
      PROVE  P(w) <=> w = 4
  <2>1. CASE w = 4
    BY <2>1, PowersOfTen, SMT
  <2>2. CASE w # 4
    <3>1. w - 1 \in 4..9
      BY <2>2, SMT
    <3>2. PowerOfTen(w - 1) >= 10000 /\ PowerOfTen(w - 1) \in Nat
      BY <3>1, PowersOfTen, SMT
    <3> QED  BY <2>2, <3>2, SMT
  <2> QED  BY <2>1, <2>2
<1>2. Width(y, 4) = 4
  BY <1>1 DEF Width
<1>3. Decimal(y, 4) = [i \in 1..4 |-> Digit((y \div PowerOfTen(4 - i)) % 10)]
  BY <1>2 DEF Decimal
<1>4. a \in 0..9 /\ b \in 0..9 /\ c \in 0..9 /\ d \in 0..9
  <2>1. a \in 0..9
    BY SMT
  <2>2. b \in 0..9 /\ c \in 0..9 /\ d \in 0..9
    BY SMT
  <2> QED  BY <2>1, <2>2
<1>5. /\ (y \div PowerOfTen(4 - 1)) % 10 = a /\ (y \div PowerOfTen(4 - 2)) % 10 = b
      /\ (y \div PowerOfTen(4 - 3)) % 10 = c /\ (y \div PowerOfTen(4 - 4)) % 10 = d
  <2>1. (y \div PowerOfTen(4 - 1)) % 10 = a
    BY <1>4, PowersOfTen, SMT
  <2>2. (y \div PowerOfTen(4 - 2)) % 10 = b /\ (y \div PowerOfTen(4 - 3)) % 10 = c
    BY PowersOfTen, SMT
  <2>3. (y \div PowerOfTen(4 - 4)) % 10 = d
    BY PowersOfTen, SMT
  <2> QED  BY <2>1, <2>2, <2>3
<1>6. 100 * (10 * a + b) + (10 * c + d) = y
  <2>1. 10 * (y \div 10) + d = y
    BY SMT
  <2>2. 10 * ((y \div 10) \div 10) + c = y \div 10
    BY SMT
  <2>3. (y \div 10) \div 10 = y \div 100
    BY SMT
  <2>4. 10 * ((y \div 100) \div 10) + b = y \div 100
    BY SMT
  <2>5. (y \div 100) \div 10 = a
    BY SMT
  <2> QED  BY <2>1, <2>2, <2>3, <2>4, <2>5, SMT
<1>7. Decimal(y, 4) = t
  BY <1>3, <1>5
<1> HIDE DEF a, b, c, d
<1>8. /\ Digit(a) \in Digits /\ DigitValue(Digit(a)) = a
      /\ Digit(b) \in Digits /\ DigitValue(Digit(b)) = b
      /\ Digit(c) \in Digits /\ DigitValue(Digit(c)) = c
      /\ Digit(d) \in Digits /\ DigitValue(Digit(d)) = d
  BY <1>4, DigitRead
<1>9. t \in Seq(StampChars) /\ Len(t) = 4
  BY <1>8 DEF StampChars
<1>10. ASSUME NEW i \in 1..4
       PROVE  t[i] \in Digits
  <2>1. CASE i = 1
    BY <1>8, <2>1
  <2>2. CASE i = 2
    BY <1>8, <2>2
  <2>3. CASE i = 3
    BY <1>8, <2>3
  <2>4. CASE i = 4
    BY <1>8, <2>4
  <2> HIDE DEF t
  <2> QED  BY <2>1, <2>2, <2>3, <2>4, SMT
<1>11. Parse2Digit(t, 1) = 10 * a + b /\ Parse2Digit(t, 3) = 10 * c + d
  BY <1>8 DEF Parse2Digit
<1> HIDE DEF t
<1> QED  BY <1>6, <1>7, <1>9, <1>10, <1>11

\* EpochSecsToRfc3339 from the numbers it prints.
StampOf(y, m, d, h, i, s) ==
    Decimal(y, 4) \o <<"-">> \o Decimal(m, 2) \o <<"-">> \o Decimal(d, 2) \o <<"T">>
    \o Decimal(h, 2) \o <<":">> \o Decimal(i, 2) \o <<":">> \o Decimal(s, 2) \o <<"Z">>

\* A second of a day before the year 10000.
Moment(y, m, d, h, i, s) ==
    /\ y \in Nat /\ y < 10000 /\ m \in 1..12 /\ d \in 1..31
    /\ h \in 0..23 /\ i \in 0..59 /\ s \in 0..59

(* What the client prints passes validate_timestamp, and reads as printed. *)
LEMMA StampRead ==
    ASSUME NEW y, NEW m, NEW d, NEW h, NEW i, NEW s, Moment(y, m, d, h, i, s)
    PROVE  LET t == StampOf(y, m, d, h, i, s)
           IN  ValidateTimestamp(t) /\ ReadsAs(t, y, m, d, h, i, s)
<1> DEFINE a == Decimal(y, 4)
           b == WithMark(a, "-")
           c == WithTwo(b, m)
           e == WithMark(c, "-")
           f == WithTwo(e, d)
           g == WithMark(f, "T")
           j == WithTwo(g, h)
           k == WithMark(j, ":")
           l == WithTwo(k, i)
           n == WithMark(l, ":")
           o == WithTwo(n, s)
           t == WithMark(o, "Z")
<1>0. StampOf(y, m, d, h, i, s) = t
  BY DEF StampOf, WithMark, WithTwo
<1>1. /\ a \in Seq(StampChars) /\ Len(a) = 4
      /\ \A x \in 1..4 : a[x] \in Digits
      /\ 100 * Parse2Digit(a, 1) + Parse2Digit(a, 3) = y
  <2>1. y \in Nat /\ y < 10000
    BY DEF Moment
  <2> QED  BY <2>1, FourDigits
<1>2. m \in 0..99 /\ d \in 0..99 /\ h \in 0..99 /\ i \in 0..99 /\ s \in 0..99
  BY SMT DEF Moment
<1> HIDE DEF a
<1>3. Continues(b, a, 4, 5) /\ b[5] = "-"
  <2>1. a \in Seq(StampChars) /\ Len(a) = 4
    BY <1>1 DEF Continues
  <2>2. "-" \in Marks
    BY DEF Marks
  <2>3. Continues(b, a, Len(a), Len(a) + 1) /\ b[Len(a) + 1] = "-"
    BY Zenon, <2>1, <2>2, AddMark
  <2> QED  BY <2>1, <2>3
<1> HIDE DEF b
<1>4. Continues(c, b, 5, 7) /\ c[6] \in Digits /\ c[7] \in Digits /\ Parse2Digit(c, 6) = m
  <2>1. b \in Seq(StampChars) /\ Len(b) = 5
    BY <1>3 DEF Continues
  <2>2. /\ Continues(c, b, Len(b), Len(b) + 2) /\ Parse2Digit(c, Len(b) + 1) = m
        /\ c[Len(b) + 1] \in Digits /\ c[Len(b) + 2] \in Digits
    BY Zenon, <1>2, <2>1, AddTwo
  <2> QED  BY <2>1, <2>2
<1> HIDE DEF c
<1>5. Continues(e, c, 7, 8) /\ e[8] = "-"
  <2>1. c \in Seq(StampChars) /\ Len(c) = 7
    BY <1>4 DEF Continues
  <2>2. "-" \in Marks
    BY DEF Marks
  <2>3. Continues(e, c, Len(c), Len(c) + 1) /\ e[Len(c) + 1] = "-"
    BY Zenon, <2>1, <2>2, AddMark
  <2> QED  BY <2>1, <2>3
<1> HIDE DEF e
<1>6. Continues(f, e, 8, 10) /\ f[9] \in Digits /\ f[10] \in Digits /\ Parse2Digit(f, 9) = d
  <2>1. e \in Seq(StampChars) /\ Len(e) = 8
    BY <1>5 DEF Continues
  <2>2. /\ Continues(f, e, Len(e), Len(e) + 2) /\ Parse2Digit(f, Len(e) + 1) = d
        /\ f[Len(e) + 1] \in Digits /\ f[Len(e) + 2] \in Digits
    BY Zenon, <1>2, <2>1, AddTwo
  <2> QED  BY <2>1, <2>2
<1> HIDE DEF f
<1>7. Continues(g, f, 10, 11) /\ g[11] = "T"
  <2>1. f \in Seq(StampChars) /\ Len(f) = 10
    BY <1>6 DEF Continues
  <2>2. "T" \in Marks
    BY DEF Marks
  <2>3. Continues(g, f, Len(f), Len(f) + 1) /\ g[Len(f) + 1] = "T"
    BY Zenon, <2>1, <2>2, AddMark
  <2> QED  BY <2>1, <2>3
<1> HIDE DEF g
<1>8. Continues(j, g, 11, 13) /\ j[12] \in Digits /\ j[13] \in Digits /\ Parse2Digit(j, 12) = h
  <2>1. g \in Seq(StampChars) /\ Len(g) = 11
    BY <1>7 DEF Continues
  <2>2. /\ Continues(j, g, Len(g), Len(g) + 2) /\ Parse2Digit(j, Len(g) + 1) = h
        /\ j[Len(g) + 1] \in Digits /\ j[Len(g) + 2] \in Digits
    BY Zenon, <1>2, <2>1, AddTwo
  <2> QED  BY <2>1, <2>2
<1> HIDE DEF j
<1>9. Continues(k, j, 13, 14) /\ k[14] = ":"
  <2>1. j \in Seq(StampChars) /\ Len(j) = 13
    BY <1>8 DEF Continues
  <2>2. ":" \in Marks
    BY DEF Marks
  <2>3. Continues(k, j, Len(j), Len(j) + 1) /\ k[Len(j) + 1] = ":"
    BY Zenon, <2>1, <2>2, AddMark
  <2> QED  BY <2>1, <2>3
<1> HIDE DEF k
<1>10. Continues(l, k, 14, 16) /\ l[15] \in Digits /\ l[16] \in Digits /\ Parse2Digit(l, 15) = i
  <2>1. k \in Seq(StampChars) /\ Len(k) = 14
    BY <1>9 DEF Continues
  <2>2. /\ Continues(l, k, Len(k), Len(k) + 2) /\ Parse2Digit(l, Len(k) + 1) = i
        /\ l[Len(k) + 1] \in Digits /\ l[Len(k) + 2] \in Digits
    BY Zenon, <1>2, <2>1, AddTwo
  <2> QED  BY <2>1, <2>2
<1> HIDE DEF l
<1>11. Continues(n, l, 16, 17) /\ n[17] = ":"
  <2>1. l \in Seq(StampChars) /\ Len(l) = 16
    BY <1>10 DEF Continues
  <2>2. ":" \in Marks
    BY DEF Marks
  <2>3. Continues(n, l, Len(l), Len(l) + 1) /\ n[Len(l) + 1] = ":"
    BY ZenonT(30), <2>1, <2>2, AddMark
  <2> QED  BY <2>1, <2>3
<1> HIDE DEF n
<1>12. Continues(o, n, 17, 19) /\ o[18] \in Digits /\ o[19] \in Digits /\ Parse2Digit(o, 18) = s
  <2>1. n \in Seq(StampChars) /\ Len(n) = 17
    BY <1>11 DEF Continues
  <2>2. /\ Continues(o, n, Len(n), Len(n) + 2) /\ Parse2Digit(o, Len(n) + 1) = s
        /\ o[Len(n) + 1] \in Digits /\ o[Len(n) + 2] \in Digits
    BY ZenonT(30), <1>2, <2>1, AddTwo
  <2> QED  BY <2>1, <2>2
<1> HIDE DEF o
<1>13. Continues(t, o, 19, 20) /\ t[20] = "Z"
  <2>1. o \in Seq(StampChars) /\ Len(o) = 19
    BY <1>12 DEF Continues
  <2>2. "Z" \in Marks
    BY DEF Marks
  <2>3. Continues(t, o, Len(o), Len(o) + 1) /\ t[Len(o) + 1] = "Z"
    BY Zenon, <2>1, <2>2, AddMark
  <2> QED  BY <2>1, <2>3
<1> HIDE DEF t
<1>14. Continues(t, n, 17, 20)
  BY <1>12, <1>13 DEF Continues
<1>15. Continues(t, l, 16, 20)
  BY <1>11, <1>14 DEF Continues
<1>16. Continues(t, k, 14, 20)
  BY <1>10, <1>15 DEF Continues
<1>17. Continues(t, j, 13, 20)
  BY <1>9, <1>16 DEF Continues
<1>18. Continues(t, g, 11, 20)
  BY <1>8, <1>17 DEF Continues
<1>19. Continues(t, f, 10, 20)
  BY <1>7, <1>18 DEF Continues
<1>20. Continues(t, e, 8, 20)
  BY <1>6, <1>19 DEF Continues
<1>21. Continues(t, c, 7, 20)
  BY <1>5, <1>20 DEF Continues
<1>22. Continues(t, b, 5, 20)
  BY <1>4, <1>21 DEF Continues
<1>23. Continues(t, a, 4, 20)
  BY <1>3, <1>22 DEF Continues
<1>24. /\ t[1] = a[1] /\ t[2] = a[2] /\ t[3] = a[3] /\ t[4] = a[4]
       /\ t[5] = "-" /\ t[8] = "-" /\ t[11] = "T" /\ t[14] = ":" /\ t[17] = ":"
  BY <1>3, <1>5, <1>7, <1>9, <1>11, <1>14, <1>16, <1>18, <1>20, <1>22, <1>23 DEF Continues
<1>25. Parse2Digit(t, 6) = m /\ AllDigits(t, 6, 7)
  <2>1. t[6] = c[6] /\ t[7] = c[7]
    BY <1>21 DEF Continues
  <2>2. Parse2Digit(t, 6) = m
    BY <1>4, <2>1 DEF Parse2Digit
  <2>3. AllDigits(t, 6, 7)
    BY <1>4, <2>1 DEF AllDigits
  <2> QED  BY <2>2, <2>3
<1>26. Parse2Digit(t, 9) = d /\ AllDigits(t, 9, 10)
  <2>1. t[9] = f[9] /\ t[10] = f[10]
    BY <1>19 DEF Continues
  <2>2. Parse2Digit(t, 9) = d
    BY <1>6, <2>1 DEF Parse2Digit
  <2>3. AllDigits(t, 9, 10)
    BY <1>6, <2>1 DEF AllDigits
  <2> QED  BY <2>2, <2>3
<1>27. Parse2Digit(t, 12) = h /\ AllDigits(t, 12, 13)
  <2>1. t[12] = j[12] /\ t[13] = j[13]
    BY <1>17 DEF Continues
  <2>2. Parse2Digit(t, 12) = h
    BY <1>8, <2>1 DEF Parse2Digit
  <2>3. AllDigits(t, 12, 13)
    BY <1>8, <2>1 DEF AllDigits
  <2> QED  BY <2>2, <2>3
<1>28. Parse2Digit(t, 15) = i /\ AllDigits(t, 15, 16)
  <2>1. t[15] = l[15] /\ t[16] = l[16]
    BY <1>15 DEF Continues
  <2>2. Parse2Digit(t, 15) = i
    BY <1>10, <2>1 DEF Parse2Digit
  <2>3. AllDigits(t, 15, 16)
    BY <1>10, <2>1 DEF AllDigits
  <2> QED  BY <2>2, <2>3
<1>29. Parse2Digit(t, 18) = s /\ AllDigits(t, 18, 19)
  <2>1. t[18] = o[18] /\ t[19] = o[19]
    BY <1>13 DEF Continues
  <2>2. Parse2Digit(t, 18) = s
    BY <1>12, <2>1 DEF Parse2Digit
  <2>3. AllDigits(t, 18, 19)
    BY <1>12, <2>1 DEF AllDigits
  <2> QED  BY <2>2, <2>3
<1>30. AllDigits(t, 1, 4) /\ Parse2Digit(t, 1) = Parse2Digit(a, 1) /\ Parse2Digit(t, 3) = Parse2Digit(a, 3)
  <2>1. AllDigits(t, 1, 4)
    BY <1>1, <1>23 DEF AllDigits, Continues
  <2>2. Parse2Digit(t, 1) = Parse2Digit(a, 1) /\ Parse2Digit(t, 3) = Parse2Digit(a, 3)
    BY <1>24 DEF Parse2Digit
  <2> QED  BY <2>1, <2>2
<1>31. ReadsAs(t, y, m, d, h, i, s)
  BY <1>1, <1>25, <1>26, <1>27, <1>28, <1>29, <1>30 DEF ReadsAs
<1>32. Len(t) = 20 /\ t[20] = "Z" /\ t[20] # "." /\ ZoneStart(t) = 20 /\ ValidZone(t, 20)
  BY <1>13 DEF Continues, ZoneStart, ValidZone
<1>33. ValidateTimestamp(t)
  <2>1. /\ Parse2Digit(t, 6) \in 1..12 /\ Parse2Digit(t, 9) \in 1..31
        /\ Parse2Digit(t, 12) \leq 23 /\ Parse2Digit(t, 15) \leq 59
        /\ Parse2Digit(t, 18) \leq 60
    BY <1>31 DEF ReadsAs, Moment
  <2>2. Len(t) >= 20
    BY <1>32
  <2> QED  BY <1>24, <1>25, <1>26, <1>27, <1>28, <1>29, <1>30, <1>32, <2>1, <2>2, Zenon DEF ValidateTimestamp
<1> QED  BY <1>0, <1>31, <1>33

(* Hours, minutes and seconds of a second of the day.                      *)
LEMMA SecondOfDay ==
    ASSUME NEW s \in Nat, s < 86400
    PROVE  /\ s \div 3600 \in 0..23 /\ (s % 3600) \div 60 \in 0..59 /\ s % 60 \in 0..59
           /\ 3600 * (s \div 3600) + 60 * ((s % 3600) \div 60) + (s % 60) = s
<1>1. s \div 3600 \in 0..23 /\ s % 3600 \in Nat /\ s % 3600 < 3600 /\ s % 60 \in 0..59
  BY SMT
<1>2. (s % 3600) \div 60 \in 0..59
  BY <1>1, SMT
<1>3. 3600 * (s \div 3600) + (s % 3600) = s
  BY SMT
<1>4. PICK h \in Nat, a \in Nat : h = s \div 3600 /\ a = s % 3600 /\ s = 3600 * h + a
  BY <1>1, <1>3
<1>5. PICK i \in Nat, e \in Nat : i = a \div 60 /\ e = a % 60 /\ a = 60 * i + e /\ e < 60
  BY <1>4, SMT
<1>6. s = 60 * (60 * h + i) + e
  BY <1>4, <1>5, SMT
<1>7. s % 60 = e
  BY <1>5, <1>6, SMT
<1> QED  BY <1>1, <1>2, <1>4, <1>5, <1>6, <1>7, SMT

(* The date ClockInv describes is one of the calendar, after the epoch.    *)
LEMMA DateRange ==
    ASSUME NEW era \in Nat, NEW yoe \in YearsOfEra, NEW doy \in DaysOfYear
    PROVE  /\ DateOf(era, yoe, doy).year \in Nat
           /\ DateOf(era, yoe, doy).month \in 1..12
           /\ DateOf(era, yoe, doy).day \in 1..31
<1>1. Mp(doy) \in 0..11 /\ DayOf(doy) \in 1..31
  BY MonthRange
<1>2. Month(Mp(doy)) \in 1..12
  BY <1>1, SMT DEF Month
<1>3. yoe + era * 400 \in Nat /\ yoe + era * 400 + 1 \in Nat
  BY SMT DEF YearsOfEra
<1> QED  BY <1>1, <1>2, <1>3 DEF DateOf

(* On a day whose date civil_from_days names, a timestamp is accepted and  *)
(* reads as that day and second.                                           *)
LEMMA StampOfSecond ==
    ASSUME CivilIsCalendar, date.year \in Nat, date.month \in 1..12, date.day \in 1..31,
           date.year \leq 9999, NEW s \in Seconds, NEW t, t = EpochSecsToRfc3339(days, s)
    PROVE  /\ ValidateTimestamp(t)
           /\ 100 * Parse2Digit(t, 1) + Parse2Digit(t, 3) = date.year
           /\ Parse2Digit(t, 6) = date.month /\ Parse2Digit(t, 9) = date.day
           /\ 3600 * Parse2Digit(t, 12) + 60 * Parse2Digit(t, 15) + Parse2Digit(t, 18) = s
<1>1. s \in Nat /\ s < 86400
  BY SecondsAssumption
<1>2. PICK h, i, e : h = s \div 3600 /\ i = (s % 3600) \div 60 /\ e = s % 60
  OBVIOUS
<1>3. /\ h \in 0..23 /\ i \in 0..59 /\ e \in 0..59
      /\ 3600 * h + 60 * i + e = s
  BY <1>1, <1>2, SecondOfDay
<1>4. t = StampOf(date.year, date.month, date.day, h, i, e)
  BY <1>2 DEF EpochSecsToRfc3339, StampOf, CivilIsCalendar
<1>5. date.year < 10000
  BY SMT
<1>6. Moment(date.year, date.month, date.day, h, i, e)
  BY <1>3, <1>5 DEF Moment
<1>7. ValidateTimestamp(t) /\ ReadsAs(t, date.year, date.month, date.day, h, i, e)
  BY <1>4, <1>6, StampRead
<1>8. 3600 * Parse2Digit(t, 12) + 60 * Parse2Digit(t, 15) + Parse2Digit(t, 18) = s
  BY <1>3, <1>7 DEF ReadsAs
<1> QED  BY SMT, <1>7, <1>8 DEF ReadsAs

(* So every timestamp of such a day is accepted.                           *)
LEMMA StampsOfDay ==
    ASSUME CivilIsCalendar, date.year \in Nat, date.month \in 1..12, date.day \in 1..31
    PROVE  StampsAccepted
BY SMT, StampOfSecond DEF StampsAccepted

(* On a day the invariant describes, civil_from_days names the date and    *)
(* every timestamp taken is accepted.                                      *)
LEMMA ClockShows == ClockInv => CivilIsCalendar /\ StampsAccepted
<1> SUFFICES ASSUME ClockInv  PROVE CivilIsCalendar /\ StampsAccepted
  OBVIOUS
<1>1. CivilIsCalendar
  BY CivilInverts DEF ClockInv, CivilIsCalendar
<1>2. date.year \in Nat /\ date.month \in 1..12 /\ date.day \in 1..31
  BY DateRange DEF ClockInv
<1> QED  BY <1>1, <1>2, StampsOfDay

(* civil_from_days (builder.rs) names the date of every day, from          *)
(* whichever year on the clock is read, and what the client prints of it   *)
(* passes validate_timestamp (syslog.rs) and reads back, before the year   *)
(* 10000.                                                                  *)
THEOREM CivilDates == ClockSpec => [](CivilIsCalendar /\ StampsAccepted)
BY ClockStarts, ClockSteps, ClockShows, PTL DEF ClockSpec

-----------------------------------------------------------------------------
(* Wire: programs, codec and sessions around the chain and the clock.      *)

(* Sending leaves the chain and the clock alone, whatever is sent.         *)
LEMMA SendLeaves ==
    ASSUME NEW m, NEW end, Send(m, end)
    PROVE  UNCHANGED vars /\ UNCHANGED clock
BY DEF Send, relay, vars, clock

(* So does a program that gives up or succeeds in lf_send.                 *)
LEMMA LfSendLeaves ==
    ASSUME NEW facility, NEW severity, NEW attr, NEW second,
           LfSend(facility, severity, attr, second)
    PROVE  UNCHANGED vars /\ UNCHANGED clock
<1>1. CASE UNCHANGED <<clock, text, parsed, sender, joined, relay>>
  BY <1>1 DEF relay, vars, clock
<1>2. CASE \E m : Send(m, <<>>)
  BY <1>2, SendLeaves
<1> QED  BY <1>1, <1>2 DEF LfSend

(* A step of a program, a codec or a session is, for the message's JSON,   *)
(* a step of Relay or none, and for the date a step of Calendar or none.   *)
LEMMA WireSteps == [WireNext]_wireVars => [Next]_vars /\ [Midnight]_clock
<1> SUFFICES ASSUME [WireNext]_wireVars  PROVE [Next]_vars /\ [Midnight]_clock
  OBVIOUS
<1> USE DEF relay, vars, clock
<1>1. CASE UNCHANGED wireVars
  BY <1>1 DEF wireVars
<1>2. CASE NextDay
  BY <1>2 DEF NextDay
<1>3. CASE BuilderStart
  BY <1>3 DEF BuilderStart
<1>4. CASE \E f \in DOMAIN Values : \E v \in Values[f] : BuilderSet(f, v)
  BY <1>4 DEF BuilderSet
<1>5. CASE BuilderEmptyKey
  BY <1>5 DEF BuilderEmptyKey
<1>6. CASE BuilderSend
  BY <1>6, SendLeaves DEF BuilderSend
<1>7. CASE LfClientNew
  BY <1>7 DEF LfClientNew
<1>8. CASE LfClientFree
  BY <1>8 DEF LfClientFree
<1>9. CASE \E facility, severity, attr, second : LfSend(facility, severity, attr, second)
  BY <1>9, LfSendLeaves
<1>10. CASE \E p \in Priorities, sd \in Structured, end \in {<<>>, <<"\n">>} :
                RawSend(p, sd, end)
  BY <1>10, SendLeaves DEF RawSend
<1>11. CASE Decode
  BY <1>11 DEF Decode
<1>12. CASE HandleMessage
  BY ZenonT(30), <1>12 DEF HandleMessage, Next
<1>13. CASE HandleGarbled
  BY Zenon, <1>13 DEF HandleGarbled
<1>14. CASE \E in, out \in CeeCookieMode, canonical \in BOOLEAN : NextHop(in, out, canonical)
  BY <1>14 DEF NextHop, Next
<1> QED
  BY ZenonT(30), <1>1, <1>2, <1>3, <1>4, <1>5, <1>6, <1>7, <1>8, <1>9, <1>10, <1>11, <1>12, <1>13, <1>14
     DEF WireNext

(* A message on its way implements the chain of daemons and runs on the    *)
(* calendar: no step of a program, a codec or a session does anything to   *)
(* the JSON part that Relay does not, nor to the date.                     *)
THEOREM WireImplements == WireSpec => Spec /\ ClockSpec
<1>1. WireInit => Init /\ ClockInit
  BY DEF WireInit
<1> QED  BY <1>1, WireSteps, PTL DEF WireSpec, Spec, ClockSpec

(* On the whole path from a client to rsyslog: a message one daemon        *)
(* accepted is rejected by none after it, what crosses obeys the cookie    *)
(* and canonical-form policies and is the client's JSON value, and every   *)
(* timestamp names the date and is accepted.                               *)
THEOREM WireSafe ==
    WireSpec => [](NoLateRejection /\ CrossingMessage /\ CivilIsCalendar /\ StampsAccepted)
BY WireImplements, RelayCorrect, CivilDates, PTL

=============================================================================
