------------------------------- MODULE Syslog --------------------------------
(***************************************************************************)
(* SyslogMessage of logfence-proto (syslog.rs): parse and Display of an    *)
(* RFC 5424 message, and the rewriting of its sender (session.rs).         *)
(*                                                                         *)
(* A text is a sequence of characters.  A fixed word of the code is one    *)
(* element ("logfenced"), and so is the JSON text a client logs ("MSG"),   *)
(* into which nothing here looks.                                          *)
(***************************************************************************)
EXTENDS Timestamp, FiniteSetsExt, TLC

Trimmed == {"\n", "\r", "nul"}
Unprintable == Trimmed \cup {" ", "ctl"}      \* not in 33..126

Nil == <<"-">>
None == <<"None">>      \* Option::None, apart from every text

\* Runs an automaton over a text, or over the names of the fields.
Scan(Step(_, _), state, text) ==
    LET after[i \in 0..Len(text)] ==
            IF i = 0 THEN state ELSE Step(after[i - 1], text[i])
    IN  after[Len(text)]

Find(text, c) ==
    LET found == {i \in DOMAIN text : text[i] = c}
    IN  IF found = {} THEN 0 ELSE Min(found)

From(text, i) == SubSeq(text, i, Len(text))

-----------------------------------------------------------------------------
(* Priority.  Facilities are 0..23 and severities 0..7.                    *)

MaxFacility == 23

SeverityFromInteger(n) == IF n \leq 6 THEN n ELSE 7

PriorityFromInteger(pri) ==
    [facility |-> pri \div 8, severity |-> SeverityFromInteger(pri % 8)]

AsInteger(priority) == priority.facility * 8 + priority.severity

\* str::parse::<u8>, which takes a plus sign and leading zeros.
PriDigits(text) == IF text # <<>> /\ text[1] = "+" THEN Tail(text) ELSE text

PriValue(text) == Scan(LAMBDA n, c : 10 * n + DigitValue(c), 0, PriDigits(text))

ValidPri(text) ==
    /\ PriDigits(text) # <<>>
    /\ \A i \in DOMAIN PriDigits(text) : PriDigits(text)[i] \in Digits
    /\ PriValue(text) \leq 191
    /\ PriValue(text) \div 8 \leq MaxFacility

-----------------------------------------------------------------------------
(* Header fields.                                                          *)

HeaderFields == <<"timestamp", "hostname", "app_name", "proc_id", "msg_id">>

MaxLen == [hostname |-> 255, app_name |-> 48, proc_id |-> 128, msg_id |-> 32]

NilToOption(text) == IF text = Nil THEN None ELSE text

OrNil(field) == IF field = None THEN Nil ELSE field

\* acc: the fields found so far and the text behind them.
SplitHeaderField(acc, name) ==
    LET i == Find(acc.rest, " ")
    IN  IF ~acc.ok \/ i = 0 THEN [acc EXCEPT !.ok = FALSE]
        ELSE [ok |-> TRUE, rest |-> From(acc.rest, i + 1),
              fields |-> (name :> NilToOption(SubSeq(acc.rest, 1, i - 1))) @@ acc.fields]

ValidatePrintusascii(text, max) ==
    /\ Len(text) \in 1..max
    /\ \A i \in DOMAIN text : text[i] \notin Unprintable

ValidHeader(fields) ==
    /\ fields.timestamp = None \/ ValidateTimestamp(fields.timestamp)
    /\ \A f \in DOMAIN MaxLen :
          fields[f] = None \/ ValidatePrintusascii(fields[f], MaxLen[f])

-----------------------------------------------------------------------------
(* STRUCTURED-DATA: where it ends, and what is in it.                      *)

\* in: between elements ("out"), inside one, or past the last one.
FindStep(st, c) ==
    CASE st.in = "past" -> st
      [] st.in = "out" ->
            IF c = "[" THEN [st EXCEPT !.in = "element", !.end = @ + 1]
            ELSE [st EXCEPT !.in = "past"]
      [] st.in = "element" ->
            [in      |-> IF c = "]" /\ ~st.escaped /\ ~st.quoted THEN "out" ELSE "element",
             quoted  |-> IF c = "\"" /\ ~st.escaped THEN ~st.quoted ELSE st.quoted,
             escaped |-> c = "\\" /\ ~st.escaped,
             end     |-> st.end + 1]

FindStructuredDataEnd(text) ==
    Scan(FindStep, [in |-> "out", quoted |-> FALSE, escaped |-> FALSE, end |-> 0], text)

ValidateSdName(name) ==
    /\ Len(name) \in 1..32
    /\ \A i \in DOMAIN name : name[i] \notin Unprintable \cup {"=", "]", "\""}

\* at: what the next character belongs to.  "element" takes it for a "[",
\* whatever it is; "after" follows the closing quote of a value.  A character
\* stands for one byte.
CheckStep(st, c) ==
    LET goto(s)  == [at |-> s, name |-> <<>>]
        more     == [st EXCEPT !.name = Append(@, c)]
        named(s) == goto(IF ValidateSdName(st.name) THEN s ELSE "error")
    IN  CASE st.at = "error"   -> st
          [] st.at = "element" -> goto("id")
          [] st.at = "id"      -> IF c = " " THEN named("param")
                                  ELSE IF c = "]" THEN named("element") ELSE more
          [] st.at = "param" /\ c = "]" /\ st.name = <<>> -> goto("element")
          [] st.at = "param" /\ (c # "]" \/ st.name # <<>>) ->
                IF c = "=" THEN named("equals")
                ELSE IF c = "]" THEN goto("error") ELSE more
          [] st.at = "equals"  -> goto(IF c = "\"" THEN "value" ELSE "error")
          [] st.at = "value"   -> goto(IF c = "\\" THEN "escape"
                                       ELSE IF c = "\"" THEN "after" ELSE "value")
          [] st.at = "escape"  -> goto("value")
          [] st.at = "after"   -> goto(IF c = " " THEN "param"
                                       ELSE IF c = "]" THEN "element" ELSE "id")

ValidateStructuredDataContent(sd) ==
    LET last == Scan(CheckStep, [at |-> "element", name |-> <<>>], sd)
    IN  \/ sd = Nil
        \/ last.at \in {"element", "after"}
        \/ last.at = "id" /\ ValidateSdName(last.name)

\* strip_prefix(' ').unwrap_or(""): text glued to the structured data is lost.
MsgOf(rest) == IF rest # <<>> /\ rest[1] = " " THEN Tail(rest) ELSE <<>>

ParseStructuredDataAndMsg(text) ==
    LET found == FindStructuredDataEnd(text)
    IN  IF text # <<>> /\ text[1] = "-"
        THEN [ok |-> TRUE, sd |-> Nil, msg |-> MsgOf(Tail(text))]
        ELSE [ok  |-> text # <<>> /\ text[1] = "[" /\ found.in # "element",
              sd  |-> SubSeq(text, 1, found.end),
              msg |-> MsgOf(From(text, found.end + 1))]

-----------------------------------------------------------------------------
ParseError == [ok |-> FALSE]

MutNoTrim(raw) == raw

TrimEnd(raw) ==
    LET kept == {i \in DOMAIN raw : \E j \in i..Len(raw) : raw[j] \notin Trimmed}
    IN  SubSeq(raw, 1, Cardinality(kept))

Parse(raw) ==
    LET s      == TrimEnd(raw)
        close  == Find(s, ">")
        pri    == SubSeq(s, 2, close - 1)
        header == Scan(SplitHeaderField,
                       [ok |-> TRUE, rest |-> From(s, close + 3), fields |-> <<>>],
                       HeaderFields)
        tail   == ParseStructuredDataAndMsg(header.rest)
    IN  IF /\ s # <<>> /\ s[1] = "<" /\ close > 0
           /\ ValidPri(pri)
           /\ SubSeq(s, close + 1, close + 2) = <<"1", " ">>
           /\ header.ok /\ tail.ok
           /\ ValidHeader(header.fields)
           /\ ValidateStructuredDataContent(tail.sd)
        THEN [ok |-> TRUE, priority |-> PriorityFromInteger(PriValue(pri)),
              structured_data |-> tail.sd, msg |-> tail.msg] @@ header.fields
        ELSE ParseError

Display(m) ==
    <<"<">> \o Decimal(AsInteger(m.priority), 1) \o <<">", "1", " ">>
    \o Scan(LAMBDA text, f : text \o OrNil(m[f]) \o <<" ">>, <<>>, HeaderFields)
    \o m.structured_data
    \o (IF m.msg = <<>> THEN <<>> ELSE <<" ">> \o m.msg)

-----------------------------------------------------------------------------
(* session.rs: the sender replaced by logfenced.                           *)

MutUnescaped(text) == text

EscapeSdParam(text) ==
    Scan(LAMBDA out, c : out \o (IF c \in {"\"", "\\", "]"} THEN <<"\\", c>> ELSE <<c>>),
         <<>>, text)

SrcElement(m) ==
    <<"[", "logfence-src@65944", " ", "hostname", "=", "\"">>
    \o EscapeSdParam(OrNil(m.hostname)) \o <<"\"", " ", "app", "=", "\"">>
    \o EscapeSdParam(OrNil(m.app_name)) \o <<"\"", " ", "pid", "=", "\"">>
    \o EscapeSdParam(OrNil(m.proc_id)) \o <<"\"", "]">>

\* joined by a space to the structured data the client sent, if any
RewriteSender(m, local_hostname) ==
    [m EXCEPT !.hostname = local_hostname,
              !.app_name = <<"logfenced">>,
              !.proc_id = <<"pid">>,
              !.structured_data = IF @ = Nil THEN SrcElement(m)
                                  ELSE @ \o <<" ">> \o SrcElement(m)]

=============================================================================
