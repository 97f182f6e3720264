------------------------------ MODULE Validator ------------------------------
(***************************************************************************)
(* The message check of logfenced (validator.rs): Validator::validate      *)
(* decides whether a message may cross to rsyslog, and                     *)
(* Validator::prepare_for_forwarding builds the MSG field that crosses.    *)
(*                                                                         *)
(* A MSG field is a number of leading "@cee:" cookies followed by a text.  *)
(* Of the text only what the code can tell apart is kept: whether it       *)
(* parses as JSON and to what kind of value, the string value of the       *)
(* discriminator field, the set of JSON Schemas the value satisfies, and   *)
(* whether the text already is its own canonical serialisation.            *)
(***************************************************************************)
EXTENDS Naturals

CONSTANTS
    Schemas,    \* compiled JSON Schema documents
    Tags,       \* string values of the discriminator field
    NoTag       \* the field is absent, or its value is not a string

ASSUME NoTagAssumption == NoTag \notin Tags

ValidationMode == {"strict", "warn", "off"}
CeeCookieMode  == {"never", "optional", "always"}

JsonText ==
    [kind : {"malformed", "scalar", "object"}, tag : Tags \cup {NoTag},
     fits : SUBSET Schemas, sorted : BOOLEAN]

Message == [cookies : Nat, text : JsonText]

\* map is the discriminator map; without a discriminator it is empty, which
\* schema_matches does not tell apart from a discriminator with an empty map.
ValidatorConfig ==
    [mode : ValidationMode, schemas : SUBSET Schemas,
     map : UNION {[D -> Schemas] : D \in SUBSET Tags},
     input_cee : CeeCookieMode, output_cee : CeeCookieMode,
     canonical_json : BOOLEAN]

-----------------------------------------------------------------------------
HasCookie(m) == m.cookies > 0

StripCookie(m) == IF HasCookie(m) THEN [m EXCEPT !.cookies = @ - 1] ELSE m

\* What serde_json::from_str makes of a MSG: a cookie is not JSON.
JsonKind(m) == IF HasCookie(m) THEN "malformed" ELSE m.text.kind

\* A discriminator hit decides alone; only a miss falls back to the scan.
SchemaMatches(v, text) ==
    IF text.tag \in DOMAIN v.map
    THEN v.map[text.tag] \in text.fits
    ELSE v.schemas = {} \/ v.schemas \cap text.fits # {}

Validate(v, m) ==
    IF v.input_cee = "never" /\ HasCookie(m) THEN "UnexpectedCeeCookie"
    ELSE IF v.input_cee = "always" /\ ~HasCookie(m) THEN "MissingCeeCookie"
    ELSE LET bare == StripCookie(m)
         IN  IF JsonKind(bare) = "malformed" THEN "NotJson"
             ELSE IF JsonKind(bare) # "object" THEN "NotObject"
             ELSE IF v.mode = "strict" /\ ~SchemaMatches(v, bare.text)
                  THEN "SchemaRejected"
             ELSE "Ok"

\* canonicalize_json leaves a text that does not parse as it is.
CanonicalizeJson(m) ==
    IF JsonKind(m) = "malformed"
    THEN m
    ELSE [m EXCEPT !.text = [@ EXCEPT !.sorted = TRUE]]

MutAlwaysAddsCookie(v, m) ==
    IF v.output_cee = "always" THEN [m EXCEPT !.cookies = @ + 1]
    ELSE IF v.output_cee = "never" THEN StripCookie(m) ELSE m

MutCanonicalizesCookie(v, m) ==
    LET bare == StripCookie(m)
        json == IF v.canonical_json THEN CanonicalizeJson(m) ELSE m
    IN  CASE v.output_cee = "never"    -> [json EXCEPT !.cookies = bare.cookies]
          [] v.output_cee = "optional" -> json
          [] v.output_cee = "always"   -> [json EXCEPT !.cookies = bare.cookies + 1]

PrepareForForwarding(v, m) ==
    LET bare == StripCookie(m)
        json == IF v.canonical_json THEN CanonicalizeJson(bare) ELSE bare
    IN  CASE v.output_cee = "never"    -> json
          [] v.output_cee = "optional" -> [json EXCEPT !.cookies = m.cookies]
          [] v.output_cee = "always"   -> [json EXCEPT !.cookies = @ + 1]

Accepts(v, m) == Validate(v, m) = "Ok"

=============================================================================
