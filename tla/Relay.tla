-------------------------------- MODULE Relay --------------------------------
(***************************************************************************)
(* One message on its way through a chain of logfenced instances that      *)
(* share mode, schemas and discriminator map and differ in their cookie    *)
(* policies.  Every hop runs validate and, on success,                     *)
(* prepare_for_forwarding, with the same validator.                        *)
(***************************************************************************)
EXTENDS Validator

CONSTANTS
    Inputs,     \* MSG fields a client may send, a set of Message
    Configs,    \* validators of the first hop, a set of ValidatorConfig
    MaxHops     \* bound on the length of the chain

ASSUME RelayAssumption ==
    /\ Inputs \subseteq Message
    /\ Configs \subseteq ValidatorConfig
    /\ MaxHops \in Nat \ {0}

VARIABLES
    validator,  \* validator of the hop the message is at
    msg,        \* MSG field as it stands
    verdict,    \* "Pending", or what validate returned at this hop
    hop,        \* number of the hop
    source      \* the text the client sent (history)

vars == <<validator, msg, verdict, hop, source>>

\* The next daemon in the chain admits what the cookie policy of this one
\* produces: "optional" admits everything, the other modes their own output.
Downstream(v, w) ==
    /\ w.mode = v.mode /\ w.schemas = v.schemas /\ w.map = v.map
    /\ w.input_cee \in {"optional", v.output_cee}

Init ==
    /\ validator \in Configs
    /\ msg \in Inputs
    /\ verdict = "Pending"
    /\ hop = 1
    /\ source = msg.text

Handle ==
    /\ verdict = "Pending"
    /\ verdict' = Validate(validator, msg)
    /\ msg' = IF Accepts(validator, msg)
              THEN PrepareForForwarding(validator, msg)
              ELSE msg
    /\ UNCHANGED <<validator, hop, source>>

Forward(in, out, canonical) ==
    LET w == [validator EXCEPT !.input_cee = in, !.output_cee = out,
                               !.canonical_json = canonical]
    IN  /\ verdict = "Ok"
        /\ hop < MaxHops
        /\ Downstream(validator, w)
        /\ validator' = w
        /\ verdict' = "Pending"
        /\ hop' = hop + 1
        /\ UNCHANGED <<msg, source>>

Next ==
    \/ Handle
    \/ \E in, out \in CeeCookieMode, canonical \in BOOLEAN :
          Forward(in, out, canonical)

Spec == Init /\ [][Next]_vars

-----------------------------------------------------------------------------
(* Every variable stays in the set of values the code can give it.         *)
TypeOK ==
    /\ validator \in ValidatorConfig
    /\ msg \in Message
    /\ verdict \in {"Pending", "Ok", "UnexpectedCeeCookie", "MissingCeeCookie",
                    "NotJson", "NotObject", "SchemaRejected"}
    /\ hop \in 1..MaxHops
    /\ source \in JsonText

(* A message one logfenced accepted is never dropped by a later one with   *)
(* the same schemas: what prepare_for_forwarding builds (cookie stripped,  *)
(* kept or added, keys sorted) passes validate again.  Each hop's          *)
(* input_cee must admit the output_cee of the hop before it (Downstream).  *)
NoLateRejection ==
    hop > 1 /\ verdict # "Pending" => verdict = "Ok"

(* The MSG that crosses obeys output_cee, holds at most one cookie however *)
(* many hops added one, is canonical when canonical_json is set, and is    *)
(* otherwise the client's JSON value (validator.rs, "output_cee policy").  *)
CrossingMessage ==
    verdict = "Ok" =>
        /\ validator.output_cee = "never" => msg.cookies = 0
        /\ validator.output_cee = "always" => msg.cookies = 1
        /\ msg.cookies \leq 1
        /\ validator.canonical_json => msg.text.sorted
        /\ [msg.text EXCEPT !.sorted = source.sorted] = source

(* Documented meaning of strict mode (config.rs, ValidationMode::Strict:   *)
(* "Message must match at least one schema; drop non-matching messages"):  *)
(* with any schema configured, in schemas or in schema_map, an accepted    *)
(* message satisfies one of them.                                          *)
StrictMatchesASchema ==
    LET configured == validator.schemas \cup
                      {validator.map[t] : t \in DOMAIN validator.map}
    IN  verdict = "Ok" /\ validator.mode = "strict" /\ configured # {} =>
            msg.text.fits \cap configured # {}

=============================================================================
