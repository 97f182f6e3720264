------------------------------- MODULE MCWire --------------------------------
EXTENDS Wire

Stamp(zone) ==
    <<"2", "0", "2", "4", "-", "0", "2", "-", "2", "9", "T", "2", "3", ":",
      "5", "9", ":", "6", "0", ".", "1", "2", "3", "4", "5", "6">> \o zone

Xs(n) == [i \in 1..n |-> "x"]

MCValues ==
    [timestamp  |-> {Stamp(<<"+", "2", "3", ":", "5", "9">>), Stamp(<<"7", "Z">>)},
     hostname   |-> {<<"\"", "]", "\\", "=", "[">>, <<"h", " ", "x">>},
     app_name   |-> {<<"a">>, <<"ctl">>},
     proc_id    |-> {Nil, <<>>},
     msg_id     |-> {<<"<", "-", ">">>, Xs(32), Xs(33), <<"m", " ", "-">>},
     cee_cookie |-> {TRUE}]

Element(value) == <<"[", "i", "@", "1", " ", "p", "=", "\"">> \o value \o <<"\"", "]">>

MCStructured ==
    {Nil, <<"-", "x">>, <<"[", "i", "]">>, <<"[", "]">>, <<"[", "i">>,
     Element(<<>>) \o Element(<<"\\", "]", "\\", "\"">>), Element(<<"]", " ", "[">>),
     <<"[", "i", " ", "p", "=", "x", "]">>}

MCValid ==
    {Stamp(<<"+", "2", "3", ":", "5", "9">>), <<"\"", "]", "\\", "=", "[">>, <<"a">>,
     <<"<", "-", ">">>, Xs(32), <<"[", "i", "]">>, Element(<<>>) \o Element(<<"\\", "]", "\\", "\"">>)}

MCPriorities == {<<1, 6>>, <<23, 7>>, <<24, 0>>, <<1, 8>>}

JsonObject(cookies, sorted, tag, fits) ==
    [cookies |-> cookies,
     text |-> [kind |-> "object", tag |-> tag, fits |-> fits, sorted |-> sorted]]

MCInputs ==
    {JsonObject(0, TRUE, NoTag, Schemas), JsonObject(1, TRUE, NoTag, {})}
    \cup {JsonObject(1, FALSE, tag, Schemas) : tag \in Tags}

Policy(mode, in, out) ==
    [mode |-> mode, schemas |-> Schemas, map |-> [t \in Tags |-> CHOOSE s \in Schemas : TRUE],
     input_cee |-> in, output_cee |-> out, canonical_json |-> FALSE]

MCConfigs ==
    {Policy("warn", in, out) : in \in {"optional", "never"}, out \in CeeCookieMode}
    \cup {Policy("strict", "optional", "always")}

=============================================================================
