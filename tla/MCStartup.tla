------------------------------ MODULE MCStartup ------------------------------
EXTENDS Startup

Plain == [daemon |-> <<>>, rsyslog |-> <<>>]

MCFiles ==
    {Unreadable, Malformed, Toml([daemon |-> <<>>]), Toml(Plain),
     Toml([Plain EXCEPT !.daemon = [socket_mode |-> <<0, 6, 9>>]]),
     Toml([Plain EXCEPT !.daemon = [max_connections |-> 0]]),
     Toml(Plain @@ [validation |-> [schema_map |-> [a |-> "s1"]]]),
     Toml([Plain EXCEPT !.daemon = [socket_mode |-> <<0, 0>>]]
          @@ [validation |-> [schemas |-> <<"s1">>, discriminator |-> "kind",
                              schema_map |-> [a |-> "s2", b |-> "s1"]],
              metrics |-> [enabled |-> TRUE]]),
     Toml(Plain @@ [validation |-> [schemas |-> <<"s1", "s2">>, mode |-> "warn"],
                    metrics |-> [enabled |-> TRUE, socket |-> "logfenced.sock"]])}

=============================================================================
