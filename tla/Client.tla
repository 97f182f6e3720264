------------------------------- MODULE Client --------------------------------
(***************************************************************************)
(* How a program makes a message: MessageBuilder of the Rust client        *)
(* (builder.rs) and lf_send of the C client (client-c, lib.rs).  The JSON  *)
(* a program logs is a Message of Validator; in a text it is "MSG".        *)
(***************************************************************************)
EXTENDS Syslog, Validator

\* std::process::id(), and a C string that is NULL or is not UTF-8
OwnPid == <<"pid">>
Null == <<"NULL">>
NotUtf8 == <<"bytes">>

LF_OK == 0
LF_ERR_NULL == 1
LF_ERR_INVALID == 2
LF_ERR_BUILD == 3
LF_ERR_IO == 4

-----------------------------------------------------------------------------
(* MessageBuilder.                                                         *)

BuilderNew(facility, severity) ==
    [facility |-> facility, severity |-> severity, timestamp |-> None,
     hostname |-> None, app_name |-> None, proc_id |-> OwnPid, msg_id |-> None,
     cee_cookie |-> FALSE]

\* timestamp, hostname, app_name, proc_id, msgid and cee_cookie
Set(builder, field, value) == [builder EXCEPT ![field] = value]

Build(b) ==
    [priority |-> [facility |-> b.facility, severity |-> b.severity],
     timestamp |-> b.timestamp, hostname |-> b.hostname, app_name |-> b.app_name,
     proc_id |-> b.proc_id, msg_id |-> b.msg_id,
     structured_data |-> Nil, msg |-> <<"MSG">>]

\* What build serialises: sorted keys behind at most one cookie.
BuiltJson(b, m) ==
    /\ m.cookies = IF b.cee_cookie THEN 1 ELSE 0
    /\ m.text.kind = "object" /\ m.text.sorted

-----------------------------------------------------------------------------
(* The C interface.                                                        *)

CstrToOpt(ptr) == IF ptr \in {Null, NotUtf8} THEN None ELSE ptr

OrDefault(option, default) == IF option = None THEN default ELSE option

\* A NULL attribute structure.
NoAttr ==
    [timestamp |-> Null, hostname |-> Null, app_name |-> Null, proc_id |-> Null,
     msg_id |-> Null, cee_cookie |-> FALSE]

BuildMsg(facility, severity, attr, now) ==
    [priority |-> [facility |-> facility, severity |-> severity],
     timestamp |-> OrDefault(CstrToOpt(attr.timestamp), now),
     hostname |-> CstrToOpt(attr.hostname), app_name |-> CstrToOpt(attr.app_name),
     proc_id |-> OrDefault(CstrToOpt(attr.proc_id), OwnPid),
     msg_id |-> CstrToOpt(attr.msg_id),
     structured_data |-> Nil, msg |-> <<"MSG">>]

IsJsonObject(body) == JsonKind(body) = "object"

\* The argument checks of lf_send.  A NULL body is the object {}, one that is
\* not UTF-8 is answered like one that is not JSON.
Checked(client, facility, severity, body) ==
    IF client = Null THEN LF_ERR_NULL
    ELSE IF facility > MaxFacility \/ severity > 7 THEN LF_ERR_INVALID
    ELSE IF ~IsJsonObject(body) THEN LF_ERR_BUILD
    ELSE LF_OK

=============================================================================
