-------------------------------- MODULE Wire ---------------------------------
(***************************************************************************)
(* One message as text, from the call that makes it to rsyslog: a program  *)
(* builds it, a logfenced parses it, validates it, prepares it and         *)
(* rewrites its sender (handle_message), and what it forwards may be read  *)
(* by further daemons.  The JSON part of the message is the state of       *)
(* Relay, which every step here keeps or moves as Relay does.              *)
(***************************************************************************)
EXTENDS Client, Relay, Calendar

CONSTANTS
    Values,         \* values a program gives each field of a message
    Structured,     \* structured data of programs without a client library
    Valid,          \* those of the texts above that RFC 5424 allows
    Priorities,     \* <<facility, severity>> pairs passed to a client
    MaxSetters,     \* bound: header fields set
    BusyDays        \* bound: days on which more than the default is sent

\* detect_hostname: one valid name.  The code takes /etc/hostname unchecked.
LocalHostname == <<"local">>
SenderMode == {"Original", "Logfenced"}

VARIABLES
    handle,     \* LfClient pointer of a C program
    draft,      \* MessageBuilder of a Rust program
    asked,      \* what the program asked for (history)
    code,       \* what lf_send returned
    at,         \* where the message is
    text,       \* the message as text
    parsed,     \* the SyslogMessage a daemon made of it
    sender,     \* sender_mode of the daemon it is at
    joined      \* rewrite_sender has met structured data (history)

client == <<handle, draft, asked, code>>
relay == <<validator, msg, verdict, hop, source>>
wireVars == <<clock, client, at, text, parsed, sender, joined, relay>>

NoDraft == [facility |-> 99]
NotAsked == [facility |-> 99]

Now(s) == EpochSecsToRfc3339(days, s)

WireInit ==
    /\ Init
    /\ ClockInit
    /\ handle = Null /\ draft = NoDraft /\ asked = NotAsked /\ code = LF_OK
    /\ at = "client" /\ text = <<>> /\ parsed = ParseError
    /\ sender \in SenderMode
    /\ joined = FALSE

-----------------------------------------------------------------------------
(* Programs.                                                               *)

NextDay ==
    /\ at = "client" /\ handle = Null /\ draft = NoDraft
    /\ Midnight
    /\ UNCHANGED <<client, at, text, parsed, sender, joined, relay>>

\* The text of m goes to the socket of the daemon.
Send(m, end) ==
    /\ at' = "socket"
    /\ text' = Display(m) \o end
    /\ UNCHANGED <<clock, parsed, sender, joined, relay>>

BuilderStart ==
    /\ at = "client" /\ draft = NoDraft /\ days \in BusyDays
    /\ \E p \in Priorities :
          /\ p[1] \leq MaxFacility /\ p[2] \leq 7
          /\ draft' = BuilderNew(p[1], p[2])
    /\ UNCHANGED <<clock, handle, asked, code, at, text, parsed, sender, joined, relay>>

SettersUsed == {f \in DOMAIN Values : draft[f] # BuilderNew(0, 0)[f]}

BuilderSet(f, v) ==
    /\ at = "client" /\ draft # NoDraft
    /\ f \in SettersUsed \/ Cardinality(SettersUsed) < MaxSetters
    /\ draft' = Set(draft, f, v)
    /\ UNCHANGED <<clock, handle, asked, code, at, text, parsed, sender, joined, relay>>

\* kv with an empty key: the error takes the builder with it.
BuilderEmptyKey ==
    /\ at = "client" /\ draft # NoDraft
    /\ at' = "returned"
    /\ UNCHANGED <<clock, client, text, parsed, sender, joined, relay>>

BuilderSend ==
    /\ at = "client" /\ draft # NoDraft
    /\ BuiltJson(draft, msg)
    /\ asked' = draft @@ [structured_data |-> Nil]
    /\ Send(Build(draft), <<>>)
    /\ UNCHANGED <<handle, draft, code>>

\* A NULL result (bad path, no runtime) leaves the program where it was.
LfClientNew ==
    /\ at = "client" /\ handle = Null /\ draft = NoDraft
    /\ handle' = <<"LfClient">>
    /\ UNCHANGED <<clock, draft, asked, code, at, text, parsed, sender, joined, relay>>

LfClientFree ==
    /\ at = "client" /\ handle # Null
    /\ handle' = Null
    /\ UNCHANGED <<clock, draft, asked, code, at, text, parsed, sender, joined, relay>>

\* The message the program logs includes the cookie lf_send puts in front.
LfSend(facility, severity, attr, second) ==
    LET body == IF attr.cee_cookie THEN StripCookie(msg) ELSE msg
        fault == Checked(handle, facility, severity, body)
    IN  /\ at = "client" /\ draft = NoDraft
        /\ attr.cee_cookie => HasCookie(msg)
        /\ asked' = attr @@ [facility |-> facility, severity |-> severity,
                             structured_data |-> Nil]
        /\ \/ /\ fault = LF_OK
              /\ code' = LF_OK
              /\ Send(BuildMsg(facility, SeverityFromInteger(severity), attr,
                               Now(second)), <<>>)
           \/ /\ code' = IF fault = LF_OK THEN LF_ERR_IO ELSE fault
              /\ at' = "returned"
              /\ UNCHANGED <<clock, text, parsed, sender, joined, relay>>
        /\ UNCHANGED <<handle, draft>>

\* A program with code of its own.
RawSend(p, sd, end) ==
    LET b == BuilderNew(p[1], p[2])
    IN  /\ at = "client" /\ handle = Null /\ draft = NoDraft /\ days \in BusyDays
        /\ p[2] \leq 7
        /\ asked' = b @@ [structured_data |-> sd]
        /\ Send([Build(b) EXCEPT !.structured_data = sd], end)
        /\ UNCHANGED <<handle, draft, code>>

-----------------------------------------------------------------------------
(* The daemon.                                                             *)

\* The codec parses the text of a frame; what it cannot parse is reported.
Decode ==
    /\ at = "socket"
    /\ parsed' = Parse(text)
    /\ at' = IF Parse(text).ok THEN "session" ELSE "discarded"
    /\ UNCHANGED <<clock, client, text, sender, joined, relay>>

Forwarded(m) ==
    IF sender = "Original" THEN m ELSE RewriteSender(m, LocalHostname)

HandleMessage ==
    /\ at = "session"
    /\ parsed.msg = <<"MSG">>
    /\ Handle
    /\ IF verdict' = "Ok"
       THEN /\ at' = "rsyslog"
            /\ text' = Display(Forwarded(parsed))
            /\ joined' = (joined \/ (sender = "Logfenced" /\ parsed.structured_data # Nil))
       ELSE at' = "rejected" /\ UNCHANGED <<text, joined>>
    /\ UNCHANGED <<clock, client, parsed, sender>>

\* The MSG field is not the program's JSON, or not it alone: NotJson.
HandleGarbled ==
    /\ at = "session"
    /\ parsed.msg # <<"MSG">>
    /\ at' = "discarded"
    /\ UNCHANGED <<clock, client, text, parsed, sender, joined, relay>>

\* What was forwarded is read by the next logfenced.
NextHop(in, out, canonical) ==
    /\ at = "rsyslog"
    /\ Forward(in, out, canonical)
    /\ at' = "socket"
    /\ sender' \in SenderMode
    /\ UNCHANGED <<clock, client, text, parsed, joined>>

WireNext ==
    \/ NextDay
    \/ BuilderStart
    \/ \E f \in DOMAIN Values : \E v \in Values[f] : BuilderSet(f, v)
    \/ BuilderEmptyKey
    \/ BuilderSend
    \/ LfClientNew
    \/ LfClientFree
    \/ \E s \in Seconds :
          \/ LfSend(1, 6, NoAttr, s)
          \/ \E p \in Priorities, f \in DOMAIN Values :
                \E v \in Values[f] \cup (IF f = "cee_cookie" THEN {} ELSE {NotUtf8}) :
                   days \in BusyDays /\ LfSend(p[1], p[2], [NoAttr EXCEPT ![f] = v], s)
    \/ \E p \in Priorities, sd \in Structured, end \in {<<>>, <<"\n">>} :
          RawSend(p, sd, end)
    \/ Decode
    \/ HandleMessage
    \/ HandleGarbled
    \/ \E in, out \in CeeCookieMode, canonical \in BOOLEAN : NextHop(in, out, canonical)

WireSpec == WireInit /\ [][WireNext]_wireVars

-----------------------------------------------------------------------------
\* What the message should say in field f: a program that leaves proc_id to
\* the C client gets its own process id there, and "-" elsewhere.
Wanted(f) ==
    IF asked[f] \in {Null, NotUtf8} THEN IF f = "proc_id" THEN OwnPid ELSE Nil
    ELSE OrNil(asked[f])

Identity == <<Wanted("hostname"), Wanted("app_name"), Wanted("proc_id")>>

\* The PARAM-VALUEs of structured data, in order, without their escapes.
ParamValues(sd) ==
    LET step(st, c) ==
            CASE ~st.quoted -> IF c = "\"" THEN [st EXCEPT !.quoted = TRUE, !.value = <<>>]
                               ELSE st
              [] st.quoted /\ st.escaped ->
                    [st EXCEPT !.escaped = FALSE, !.value = Append(@, c)]
              [] st.quoted /\ ~st.escaped ->
                    IF c = "\\" THEN [st EXCEPT !.escaped = TRUE]
                    ELSE IF c = "\"" THEN [st EXCEPT !.quoted = FALSE,
                                                    !.values = Append(@, st.value)]
                    ELSE [st EXCEPT !.value = Append(@, c)]
    IN  Scan(step, [quoted |-> FALSE, escaped |-> FALSE, value |-> <<>>, values |-> <<>>],
             sd).values

(* What reaches rsyslog is the message the program asked for: parsed       *)
(* again, the forwarded text yields the program's JSON as MSG, its         *)
(* priority, MSGID and timestamp, and its sender, either in the header or, *)
(* from a daemon that rewrites senders, in the values of the               *)
(* logfence-src element (session.rs, rewrite_sender).                      *)
HeaderIntact ==
    at = "rsyslog" /\ ~joined =>
        LET p == Parse(text)
        IN  /\ p.ok /\ p.msg = <<"MSG">>
            /\ p.priority = [facility |-> asked.facility, severity |-> asked.severity]
            /\ OrNil(p.msg_id) = Wanted("msg_id")
            /\ IF asked.timestamp \in {Null, NotUtf8}
               THEN \E s \in Seconds : p.timestamp = Now(s)
               ELSE OrNil(p.timestamp) = OrNil(asked.timestamp)
            /\ IF p.app_name = <<"logfenced">>
               THEN ParamValues(p.structured_data) = Identity
               ELSE /\ <<OrNil(p.hostname), OrNil(p.app_name), OrNil(p.proc_id)>> = Identity
                    /\ p.structured_data = asked.structured_data

(* A program that keeps to RFC 5424 is never refused for the form of its   *)
(* message: not what a client library made of its arguments and the clock, *)
(* and not what a daemon wrote and the next one reads (syslog.rs, parse).  *)
WellFormedPasses ==
    at = "discarded" /\ ~joined =>
        \/ asked.facility > MaxFacility
        \/ \E f \in Range(HeaderFields) \cup {"structured_data"} :
              asked[f] \notin Valid \cup {Nil, None, Null, NotUtf8, OwnPid}

(* "Replace sender identity fields with logfenced's own identity and       *)
(* preserve the original hostname, app_name, and proc_id in RFC 5424       *)
(* STRUCTURED-DATA" (session.rs, rewrite_sender): the last element of the  *)
(* structured data of a rewritten message holds them.                      *)
OriginalsPreserved ==
    at = "rsyslog" /\ sender = "Logfenced" =>
        LET values == ParamValues(Parse(text).structured_data)
        IN  /\ Len(values) >= 3
            /\ From(values, Len(values) - 2) =
                 <<OrNil(parsed.hostname), OrNil(parsed.app_name), OrNil(parsed.proc_id)>>

=============================================================================
