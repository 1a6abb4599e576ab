----------------------------- MODULE MCConfigApply -----------------------------
(***************************************************************************)
(* Instances of ConfigApply for TLC.                                       *)
(***************************************************************************)
EXTENDS ConfigApply

CONSTANTS a1, a2, a3, r0, r1, r2

Conf(l, m, d, r) == [listen |-> l, monitor |-> m, disable |-> d, rules |-> r]
Put(l, m, r) == [listen |-> l, monitor |-> m, rules |-> r]

MCDefault == Conf(a1, a2, FALSE, r0)
MCDesktop == Conf(a2, a3, FALSE, r0)
MCInitial == {Conf(a1, a2, FALSE, r1)}
MCInitialDisabled == MCInitial \cup {Conf(a1, a2, TRUE, r1)}

\* Move the proxy and leave the rules alone; move the panel; exchange the two
\* ports; change only the rules; one bad line.
MCPuts == {Put(a3, a2, NoRules), Put(a1, a3, NoRules), Put(a2, a1, r1),
           Put(a1, a2, r2), Put(a1, a2, BadRules)}
MCFewPuts == {Put(a3, a2, NoRules), Put(a1, a2, r2)}
MCImports == {Conf(a3, a1, FALSE, r2), Conf(a1, a2, TRUE, r2), Garbage, Empty}
MCFewImports == {Conf(a3, a1, FALSE, r2)}
MCEdits == {Conf(a3, a2, FALSE, r2), Conf(a3, a2, FALSE, BadRules), Garbage, Missing}

\* Nothing yet, not YAML, or a list of rules cut short.
MCTorn ==
  [c \in Contents |->
     {Empty, Garbage} \cup (IF c \in Configs THEN {[c EXCEPT !.rules = r0]} ELSE {})]

=============================================================================
