------------------------------- MODULE MCRelay -------------------------------
EXTENDS Relay

\* Texts that are not JSON objects differ in nothing the code looks at.
MCTexts ==
    [kind : {"object"}, tag : Tags \cup {NoTag}, fits : SUBSET Schemas,
     sorted : BOOLEAN]
    \cup [kind : {"malformed", "scalar"}, tag : {NoTag}, fits : {{}},
          sorted : {FALSE}]

MCInputs == [cookies : 0..2, text : MCTexts]

=============================================================================
