-------------------------- MODULE MCConnectionPool --------------------------
EXTENDS ConnectionPool, TLC

CONSTANTS t1, t2, c1, c2

MCThreads == {t1, t2}
MCConns == {c1, c2}

\* Agent options: none; a host without a port; a port text holding a
\* second ':'; ports of five and of six digits.
MCOptions == {NULL, <<"h">>, <<"h", ":", "1", ":", "2">>,
              <<"h", ":", "1", "2", "3", "4", "5">>,
              <<"h", ":", "1", "2", "3", "4", "5", "6">>}

\* System properties: all undefined (dynamic bypass); bootstrap bypass and
\* the flags spelled in mixed case; disabled bypass; an unknown mode.
MCProps ==
    {[bypass |-> NULL, splitmethods |-> NULL, excepthandler |-> NULL],
     [bypass |-> <<"B", "o", "o", "t", "s", "t", "r", "a", "p">>,
      splitmethods |-> <<"o", "f", "f">>, excepthandler |-> <<"Y", "E", "S">>],
     [bypass |-> <<"D", "I", "S", "A", "B", "L", "E", "D">>,
      splitmethods |-> <<"1">>, excepthandler |-> NULL],
     [bypass |-> <<"n", "o", "n", "e">>,
      splitmethods |-> NULL, excepthandler |-> NULL]}

\* One configuration: no options, no properties.
MCDefaultOptions == {NULL}
MCDefaultProps == {[bypass |-> NULL, splitmethods |-> NULL, excepthandler |-> NULL]}

Shvm == INSTANCE ShvmAgentOptions

\* The shadow-VM agent's parse_agent_options, given the same option
\* strings, yields the configuration the specification describes: with no
\* options, or no ':' in them, the default port; the host is the text
\* before the first ':' (all of it without one) and the port the text
\* after it; and check_error ends the agent exactly when that port does
\* not fit port_number, which holds five characters and the final 0.
ShvmOptionsParsed ==
    LET o == agent_options
        r == Shvm!parse_agent_options(o)
    IN
    /\ o = NULL =>
          r = [host_name |-> Shvm!DEFAULT_HOST, port_number |-> Shvm!DEFAULT_PORT,
               fits |-> TRUE]
    /\ o # NULL /\ ":" \notin Range(o) =>
          r = [host_name |-> o, port_number |-> Shvm!DEFAULT_PORT, fits |-> TRUE]
    /\ o # NULL /\ ":" \in Range(o) =>
          /\ r.host_name = SubSeq(o, 1, FirstColon(o) - 1)
          /\ r.fits <=> Len(o) - FirstColon(o) <= 5
          /\ r.fits => r.port_number = SubSeq(o, FirstColon(o) + 1, Len(o))

Symmetry == Permutations(MCThreads) \cup Permutations(MCConns)
=============================================================================
