----------------------------- MODULE MCMonitor -----------------------------
EXTENDS Monitor

CONSTANTS s1, s2

Strict(schema, out) ==
    [mode |-> "strict", schemas |-> {schema}, map |-> <<>>,
     input_cee |-> "optional", output_cee |-> out, canonical_json |-> FALSE]

\* A reload that changes both the accepted messages and the output form.
MCConfigs == {Strict(s1, "always"), Strict(s2, "never")}

Object(fits) ==
    [cookies |-> 0,
     text |-> [kind |-> "object", tag |-> NoTag, fits |-> fits, sorted |-> FALSE]]

\* One message only the first validator accepts, and one both accept.
MCInputs == {Object({s1}), Object({s1, s2})}

=============================================================================
