------------------------------- MODULE MCSettings -------------------------------
(***************************************************************************)
(* An instance of Settings for TLC: a name and a subdomain of it, an       *)
(* address in a CIDR, a port.                                              *)
(***************************************************************************)
EXTENDS Settings

CONSTANTS net, nonet, ip, p80, p443, x, w, a1, a2, any, name

Line(t, v, a, odd, three) == [type |-> t, value |-> v, action |-> a, odd |-> odd, three |-> three]
Conf(rules, monitor) == [rules |-> rules, monitor |-> monitor]

MCCidr == [v \in {net} |-> {ip}]
\* Two addresses of a host, one of them with a name as well, and one of no host.
MCReach == [a \in {a1, a2, any} |-> IF a = a2 THEN {a2} ELSE {a1, name}]

MCWords == RULE_TYPES \cup Actions \cup {"GEOIP"}
MCValues == {<<x>>, <<w>>, net, nonet, p80, Comma, Blank}
MCTargets == {[name |-> <<x>>, ip |-> NoIp, port |-> p80],
              [name |-> <<w, Dot, x>>, ip |-> NoIp, port |-> p443],
              [name |-> <<>>, ip |-> ip, port |-> p80]}

Suffix == Line("DOMAIN-SUFFIX", <<x>>, "PROXY", TRUE, TRUE)
Exact == Line("DOMAIN", <<x>>, "REJECT", FALSE, TRUE)
Keyword == Line("DOMAIN-KEYWORD", <<w>>, "DIRECT", TRUE, TRUE)
Net == Line("IP-CIDR", net, "PROXY", FALSE, TRUE)
Port == Line("PORT", p80, "DIRECT", TRUE, TRUE)
Geo == Line("GEOIP", <<x>>, "DIRECT", FALSE, TRUE)
FourParts == Line("DOMAIN", <<x>>, "DIRECT", FALSE, FALSE)
NoNet == Line("IP-CIDR", nonet, "PROXY", FALSE, TRUE)

MCInitialServers == {Conf(<<Exact, Suffix>>, a1), Conf(<<Net, Port>>, any)}
MCRows == {Rule(Exact), Rule(Net), Rule(NoNet),
           [type |-> "DOMAIN", value |-> Comma, action |-> "DIRECT"]}
MCPastes == {<<Keyword, Geo>>, <<FourParts, Port>>}
MCImports == {Conf(<<Port>>, a1), Conf(<<Suffix>>, a2), Conf(<<NoNet>>, a1)}
MCOthers == {Conf(<<Keyword>>, a1), Conf(<<Net>>, a2)}

=============================================================================
