------------------------------- MODULE Config --------------------------------
(***************************************************************************)
(* The configuration of logfenced (config.rs), from the TOML file to the   *)
(* record main works with: parsing fills absent keys with their defaults,  *)
(* validate refuses what the daemon could not run with.                    *)
(*                                                                         *)
(* A parsed file is a function from the sections it has to records of the  *)
(* keys it sets.  The keys that neither decide how the daemon starts nor   *)
(* which validator it builds are modelled where they act (framing, sender, *)
(* dgram_max_attempts, dgram_exhausted).                                   *)
(***************************************************************************)
EXTENDS Naturals, Sequences, FiniteSetsExt, TLC

NotSet == "not set"

-----------------------------------------------------------------------------
(* socket_mode, a string, is the sequence of its characters: 0 to 9 for    *)
(* the digits, anything above for other characters; a leading plus sign,   *)
(* which from_str_radix skips, is left out.  Strings are short enough for  *)
(* the value to fit a u32.                                                 *)

NotOctal == 0 - 1

TrimStartZeros(s) ==
    LET digits == {i \in DOMAIN s : s[i] # 0}
    IN  IF digits = {} THEN <<0>> ELSE SubSeq(s, Min(digits), Len(s))

FromStrRadix8(s) ==
    LET value[i \in 0..Len(s)] == IF i = 0 THEN 0 ELSE 8 * value[i - 1] + s[i]
    IN  IF \A i \in DOMAIN s : s[i] \in 0..7 THEN value[Len(s)] ELSE NotOctal

OctalMode(s) == FromStrRadix8(TrimStartZeros(s))

Mode0660 == 432

\* listener.rs parses the string once more, with a fallback.
AppliedMode(s) == IF OctalMode(s) = NotOctal THEN Mode0660 ELSE OctalMode(s)

-----------------------------------------------------------------------------
DaemonConfig ==
    [listen_socket |-> "logfenced.sock", socket_mode |-> <<0, 6, 6, 0>>,
     max_connections |-> 256, max_message_size |-> 65536,
     listen_transport |-> "unix_stream"]

RsyslogConfig == [transport |-> "unix_dgram", socket |-> "syslog"]

ValidationConfig ==
    [mode |-> "strict", schemas |-> <<>>, discriminator |-> NotSet,
     schema_map |-> <<>>, input_cee |-> "never", output_cee |-> "never",
     canonical_json |-> FALSE]

MetricsConfig == [enabled |-> FALSE, socket |-> "logfenced.stats.sock"]

Section(toml, name, default) ==
    IF name \in DOMAIN toml THEN toml[name] @@ default ELSE default

\* [daemon] and [rsyslog] have no default: a file without them does not parse.
ParsedConfig(toml) ==
    [daemon     |-> Section(toml, "daemon", DaemonConfig),
     rsyslog    |-> Section(toml, "rsyslog", RsyslogConfig),
     validation |-> Section(toml, "validation", ValidationConfig),
     metrics    |-> Section(toml, "metrics", MetricsConfig)]

MutValidConfig(cfg) ==
    /\ cfg.daemon.max_connections # 0
    /\ cfg.daemon.max_message_size # 0
    /\ DOMAIN cfg.validation.schema_map # {} => cfg.validation.discriminator # NotSet

ValidConfig(cfg) ==
    /\ OctalMode(cfg.daemon.socket_mode) # NotOctal
    /\ cfg.daemon.max_connections # 0
    /\ cfg.daemon.max_message_size # 0
    /\ DOMAIN cfg.validation.schema_map # {} => cfg.validation.discriminator # NotSet

\* What fs::read_to_string and toml::from_str find at the path: no readable
\* file, a text that is not TOML of the right types, or the sections.
Unreadable == [found |-> "nothing"]
Malformed  == [found |-> "malformed"]
Toml(sections) == [found |-> "toml", sections |-> sections]

LoadError(file) ==
    IF file.found = "nothing" THEN "Io"
    ELSE IF file.found = "malformed" THEN "Parse"
    ELSE IF ~({"daemon", "rsyslog"} \subseteq DOMAIN file.sections) THEN "Parse"
    ELSE IF ~ValidConfig(ParsedConfig(file.sections)) THEN "Invalid"
    ELSE "none"

Loads(file) == LoadError(file) = "none"

Loaded(file) == ParsedConfig(file.sections)

-----------------------------------------------------------------------------
(* build_validator (main.rs) reads the schema files of the scan list in    *)
(* order and compiles them, then, with a discriminator, those of the map   *)
(* in no particular order.  A schema file is absent, garbled (not JSON),   *)
(* invalid (JSON, not a schema) or holds a schema that compiles.           *)

Readable(content) == content \notin {"absent", "garbled"}

Compiles(content) == content \notin {"absent", "garbled", "invalid"}

MappedTags(v) == IF v.discriminator = NotSet THEN {} ELSE DOMAIN v.schema_map

\* Validator::new with the with_* setters.
NewValidator(v, scan, map) ==
    [mode |-> v.mode, scan |-> scan, discriminator |-> v.discriminator, map |-> map,
     input_cee |-> v.input_cee, output_cee |-> v.output_cee,
     canonical_json |-> v.canonical_json]

\* The validator the files on disk describe, as one step.
OnDisk(v, disk) ==
    NewValidator(v, [i \in DOMAIN v.schemas |-> disk[v.schemas[i]]],
                 [t \in MappedTags(v) |-> disk[v.schema_map[t]]])

Builds(v, disk) ==
    /\ \A i \in DOMAIN v.schemas : Compiles(disk[v.schemas[i]])
    /\ \A t \in MappedTags(v) : Compiles(disk[v.schema_map[t]])

=============================================================================
