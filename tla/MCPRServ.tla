------------------------------ MODULE MCPRServ ------------------------------
(* PRServ on small instances *)
EXTENDS PRServ, TLC

MCConns == Permutations(Conns)

MCTable(values) == {Row(c, values[c]) : c \in DOMAIN values}

\* Tables an earlier session left to a server on its own.
MCLocal == {{}, MCTable(<<<<3>>>>), {Row(1, <<1>>), Row(1, <<3>>), Row(2, <<2>>)}}

MCAlone ==
    {[upstream |-> FALSE, readonly |-> FALSE, requests |-> 5,
      rows |-> old, up |-> {}, imports |-> {}] : old \in MCLocal}

\* With an upstream server, and rows an administrator imports.
MCChained ==
    {[upstream |-> TRUE, readonly |-> only, requests |-> 2, rows |-> old, up |-> other,
      imports |-> {Row(1, <<2>>), Row(2, <<5>>)}] :
        only \in BOOLEAN, old \in {{}, MCTable(<<<<0>>>>)}, other \in {{}, {Row(2, <<0>>)}}}

MCSetups == MCAlone \cup MCChained

\* A server whose only value is 9.
MCNine ==
    {[upstream |-> FALSE, readonly |-> FALSE, requests |-> 4,
      rows |-> MCTable(<<<<9>>>>), up |-> {}, imports |-> {}]}

MCBoth == BOOLEAN
MCNoHistory == {FALSE}
=============================================================================
