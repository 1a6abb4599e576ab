--------------------------------- MODULE Rules ---------------------------------
(***************************************************************************)
(* The rule engine of main.go: what parseRule makes of a line and what     *)
(* matchAction decides for a target.                                       *)
(*                                                                         *)
(* A line is a record: its parts, whether there are three of them, and     *)
(* whether it is spelled oddly (lower case, blanks), which every reader    *)
(* of rule lines evens out.  A name is a sequence of labels and dots.      *)
(***************************************************************************)
EXTENDS Naturals, Sequences, SequencesExt

CONSTANTS
  Cidr,   \* valid CIDR values -> the addresses they contain
  NoIp,   \* the target is a name
  Dot,    \* the dot of a name
  Comma   \* a value with a comma in it: the line has more than three parts

RULE_TYPES == {"DOMAIN", "DOMAIN-SUFFIX", "DOMAIN-KEYWORD", "IP-CIDR", "PORT"}
Actions == {"DIRECT", "PROXY", "REJECT"}
Blank == <<>>

\* parseRule; the lines it takes, and the rule it makes of one.
Rule(l) == [type |-> l.type, value |-> l.value, action |-> l.action]
ParsesRule(l) ==
  /\ l.three
  /\ l.value # Blank
  /\ l.type \in RULE_TYPES
  /\ l.type = "IP-CIDR" => l.value \in DOMAIN Cidr
  /\ l.action \in Actions
ParseRules(lines) == [i \in DOMAIN lines |-> Rule(lines[i])]

HasPart(name, part) == \E i, j \in DOMAIN name : SubSeq(name, i, j) = part

\* One turn of matchAction's loop: names for names only, CIDRs for addresses
\* only.
Hits(r, t) ==
  \/ r.type = "DOMAIN" /\ t.ip = NoIp /\ t.name = r.value
  \/ /\ r.type = "DOMAIN-SUFFIX"
     /\ t.ip = NoIp
     /\ t.name = r.value \/ IsSuffix(<<Dot>> \o r.value, t.name)
  \/ r.type = "DOMAIN-KEYWORD" /\ t.ip = NoIp /\ HasPart(t.name, r.value)
  \/ r.type = "PORT" /\ t.port = r.value
  \/ r.type = "IP-CIDR" /\ t.ip # NoIp /\ r.value \in DOMAIN Cidr /\ t.ip \in Cidr[r.value]

\* From top to bottom, the first that hits decides.
Verdict(rules, default, t) ==
  LET i == SelectInSeq(rules, LAMBDA r : Hits(r, t))
  IN  IF i = 0 THEN default ELSE rules[i].action

=============================================================================
