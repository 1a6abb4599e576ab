-------------------------------- MODULE Settings --------------------------------
(***************************************************************************)
(* The settings page (web/src/views/Settings.vue) and what it exchanges    *)
(* with GET and PUT /api/config and POST /api/config/import: a form read   *)
(* once, rows of rules the user edits, saves and imports whose answers     *)
(* come later, each followed by another read.  The three chains of fetch   *)
(* calls (onMounted, save, doImport) interleave at every await.            *)
(*                                                                         *)
(* The server's side of a request is one step (module ConfigApply,         *)
(* Transactional).  Of the form's single fields only the panel's own       *)
(* address is kept: it is what the page compares with location.host, and   *)
(* where it goes when they differ.  An address to listen on need not be    *)
(* one to go to: ":9090" and "0.0.0.0:9090" are not.                       *)
(***************************************************************************)
EXTENDS Rules, FiniteSets

CONSTANTS
  Addrs,          \* addresses the panel may be given to listen on
  Locations,      \* what location.host may be
  Reach,          \* address -> the locations that lead to a panel listening there
  Words, Values,  \* what may stand at the ends of a rule and in the middle
  NoForm, NoVer, Nothing,
  Default,        \* the default action
  Targets,        \* what connections ask for: [name, ip, port]
  Rows,           \* what the user may make of a row of the table
  Pastes,         \* lists of lines the user may paste
  Imports,        \* configurations the user may import
  InitialServers, \* configurations the process may run when the page opens
  Others,         \* configurations somebody else may bring into force
  MaxRows, MaxOps

\* A row of the table, a line of a configuration, a configuration.
RowSet == [type : Words, value : Values, action : Words]
LineSet == [type : Words, value : Values, action : Words, odd : BOOLEAN, three : BOOLEAN]
Confs == [rules : Seq(LineSet), monitor : Addrs]

\* Lines of three parts have no comma in their value, and the table takes all
\* rules; only configurations that parse come into force.
Fits(lines) ==
  /\ Len(lines) <= MaxRows
  /\ \A i \in DOMAIN lines : lines[i].three => lines[i].value # Comma
Runs(c) == Fits(c.rules) /\ \A i \in DOMAIN c.rules : ParsesRule(c.rules[i])

ASSUME ConstantsAssumption ==
  /\ Reach \in [Addrs -> SUBSET Locations]
  /\ RULE_TYPES \cup Actions \subseteq Words /\ {Blank, Comma} \subseteq Values
  /\ NoForm \notin Addrs /\ NoVer \notin Nat
  /\ Rows \subseteq RowSet
  /\ Pastes \subseteq Seq(LineSet)
  /\ Imports \subseteq Confs /\ \A c \in Imports : Fits(c.rules)
  /\ InitialServers \cup Others \subseteq {c \in Confs : Runs(c)}
  /\ MaxRows \in Nat /\ MaxOps \in Nat

Chains == {"mount", "save", "import"}

VARIABLES
  server,  \* the active configuration: [rules, monitor]
  panel,   \* adminAddr, where the panel listens: a reload may not have moved it
  ver,     \* history: how often it has changed
  form,    \* form.monitorListen, or NoForm
  rows,    \* the rule table
  at,      \* where each chain is
  body,    \* what save and import have sent
  got,     \* the answer on its way to each chain
  busy,    \* `saving` and `importing`
  host,    \* location.host
  there,   \* the panel answered when the page was opened
  jumps,   \* where the page is about to go
  ops,     \* what the user and others have done, bounded by MaxOps
  touched, \* history: edited since the form was read
  seen,    \* history: the version the form was read at
  outside, \* history: changed by others since the page's last read
  trouble, \* history: an answer has been overtaken or lost
  sure     \* history: chains whose request nothing has interfered with

page == <<form, rows, busy, host, there, jumps>>
fetches == <<at, body, got>>
history == <<touched, seen, outside, trouble, sure>>
vars == <<server, panel, ver, page, fetches, ops, history>>

Init ==
  /\ server \in InitialServers
  /\ ver = 0
  /\ form = NoForm
  /\ rows = <<>>
  /\ at = [c \in Chains |-> IF c = "mount" THEN "get" ELSE "idle"]
  /\ body = [c \in Chains |-> Nothing]
  /\ got = [c \in Chains |-> Nothing]
  /\ busy = {}
  /\ panel \in Addrs
  /\ host \in Reach[panel]
  /\ there = TRUE
  /\ jumps = {}
  /\ ops = 0
  /\ touched = FALSE
  /\ seen = 0
  /\ outside = FALSE
  /\ trouble = FALSE
  /\ sure = {}

-----------------------------------------------------------------------------
(* Rows and lines.                                                         *)

\* loadRules evens out the spelling; a line without three parts would become
\* the value of a suffix rule.
LoadRow(l) ==
  IF l.three THEN Rule(l)
  ELSE [type |-> "DOMAIN-SUFFIX", value |-> Comma, action |-> "DIRECT"]
LoadRules(lines) == [i \in DOMAIN lines |-> LoadRow(lines[i])]

\* Wrong variant of RowBad: only what a select cannot have produced.
RowBadLax(r) == r.type \notin RULE_TYPES \/ r.action \notin Actions
RowBad(r) == r.value = Blank \/ r.type \notin RULE_TYPES \/ r.action \notin Actions

\* rowsToRaw.  Wrong variant: from the last row to the first.
RawRow(r) ==
  [type |-> r.type, value |-> r.value, action |-> r.action,
   odd |-> FALSE, three |-> r.value # Comma]
RowsBackwards == [i \in DOMAIN rows |-> RawRow(rows[Len(rows) + 1 - i])]
RowsToRaw == [i \in DOMAIN rows |-> RawRow(rows[i])]

\* What appendPaste takes.  Wrong variant: only lines in upper case.
PasteStrict(l) == l.three /\ l.value # Blank /\ ~l.odd
PasteTakes(l) ==
  l.three /\ l.value # Blank /\ l.type \in RULE_TYPES /\ l.action \in Actions
Taken(lines) ==
  LET upto[n \in 0 .. Len(lines)] ==
        IF n = 0 THEN <<>>
        ELSE IF PasteTakes(lines[n]) THEN Append(upto[n - 1], Rule(lines[n]))
        ELSE upto[n - 1]
  IN  upto[Len(lines)]

-----------------------------------------------------------------------------
(* What the user does to the form.                                         *)

Operate == ops < MaxOps /\ ops' = ops + 1

\* The rule table is there before the form has been read.
Edit ==
  /\ there
  /\ Operate
  /\ touched' = TRUE
  /\ sure' = sure \ {"save"}
  /\ UNCHANGED <<server, panel, ver, busy, host, there, jumps, fetches, seen, outside, trouble>>

AddRule ==
  /\ Edit
  /\ Len(rows) < MaxRows
  /\ rows' = Append(rows, [type |-> "DOMAIN-SUFFIX", value |-> Blank, action |-> "DIRECT"])
  /\ UNCHANGED form

DelRule(i) ==
  /\ Edit
  /\ i \in DOMAIN rows
  /\ rows' = RemoveAt(rows, i)
  /\ UNCHANGED form

\* Wrong variant of Moved: the row goes to the top.
MovedToTop(i, j) == InsertAt(RemoveAt(rows, i), 1, rows[i])
Moved(i, j) == InsertAt(RemoveAt(rows, i), j, rows[i])

MoveRule(i, j) ==
  /\ Edit
  /\ {i, j} \subseteq DOMAIN rows
  /\ j = i + 1 \/ i = j + 1
  /\ rows' = Moved(i, j)
  /\ UNCHANGED form

SetRow(i, r) ==
  /\ Edit
  /\ i \in DOMAIN rows
  /\ rows' = [rows EXCEPT ![i] = r]
  /\ UNCHANGED form

SetMonitor(a) ==
  /\ form # NoForm
  /\ Edit
  /\ form' = a
  /\ UNCHANGED rows

AppendPaste(lines) ==
  /\ Edit
  /\ Len(rows) + Len(Taken(lines)) <= MaxRows
  /\ rows' = rows \o Taken(lines)
  /\ UNCHANGED form

-----------------------------------------------------------------------------
(* save(), doImport() and load(), up to their fetch.                       *)

\* The button is disabled while a save is under way, and by a bad row.
Save ==
  /\ Operate
  /\ form # NoForm
  /\ "save" \notin busy
  /\ \A i \in DOMAIN rows : ~RowBad(rows[i])
  /\ busy' = busy \cup {"save"}
  /\ at' = [at EXCEPT !["save"] = "sent"]
  /\ body' = [body EXCEPT !["save"] =
                [rules |-> RowsToRaw, monitor |-> form,
                 from |-> IF touched THEN NoVer ELSE seen]]
  /\ sure' = sure \cup {"save"}
  /\ UNCHANGED <<server, panel, ver, form, rows, host, there, jumps, got, touched, seen,
                 outside, trouble>>

\* The import box is there before the form is.
DoImport(c) ==
  /\ Operate
  /\ there
  /\ "import" \notin busy
  /\ busy' = busy \cup {"import"}
  /\ at' = [at EXCEPT !["import"] = "sent"]
  /\ body' = [body EXCEPT !["import"] = c]
  /\ sure' = sure \cup {"import"}
  /\ UNCHANGED <<server, panel, ver, form, rows, host, there, jumps, got, touched, seen,
                 outside, trouble>>

-----------------------------------------------------------------------------
(* The server.                                                             *)

\* validate, or parseConfigBytes: one bad line refuses the whole request.
Accepts(b) == \A i \in DOMAIN b.rules : ParsesRule(b.rules[i])

Apply(c) ==
  /\ c \in {"save", "import"}
  /\ at[c] = "sent"
  /\ Accepts(body[c])
  /\ server' = [rules |-> body[c].rules, monitor |-> body[c].monitor]
  /\ panel' = body[c].monitor
  /\ ver' = ver + 1
  /\ at' = [at EXCEPT ![c] = "applied"]
  /\ sure' = sure \cap {c}
  /\ body' = [body EXCEPT ![c] = Nothing]
  /\ UNCHANGED <<page, got, ops, touched, seen, outside, trouble>>

Refused(c) ==
  /\ at[c] = "sent"
  /\ at' = [at EXCEPT ![c] = "refused"]
  /\ body' = [body EXCEPT ![c] = Nothing]
  /\ UNCHANGED <<server, ver, page, got, ops, touched, seen, outside, trouble>>

RefuseRules(c) ==
  /\ Refused(c)
  /\ ~Accepts(body[c])
  /\ UNCHANGED <<panel, sure>>

\* Refused for anything else: another field that validate does not take although
\* a file may have it, a file that cannot be read, parsed or written, an address
\* that is in use.  What was moved is moved back, the panel to the configured
\* address, or not even that.
RefuseOthers(c) ==
  /\ Refused(c)
  /\ panel' \in {panel, server.monitor, body[c].monitor}
  /\ sure' = IF panel' = panel THEN sure ELSE {}

\* The import's answer names the address in force by now.
Reply(c) ==
  /\ at[c] = "applied"
  /\ at' = [at EXCEPT ![c] = "ok"]
  /\ got' = [got EXCEPT ![c] = IF c = "import" THEN server.monitor ELSE Nothing]
  /\ UNCHANGED <<server, panel, ver, page, body, ops, history>>

\* GET /api/config.
Get(c) ==
  /\ at[c] = "get"
  /\ at' = [at EXCEPT ![c] = "got"]
  /\ got' = [got EXCEPT ![c] = [server |-> server, ver |-> ver]]
  /\ outside' = FALSE
  /\ UNCHANGED <<server, panel, ver, page, body, ops, touched, seen, trouble, sure>>

\* Another page, or an edit of the file that the poller has taken up, which stays
\* in force even if the panel cannot move.
Other(c) ==
  /\ Operate
  /\ c # server
  /\ server' = c
  /\ panel' \in {panel, c.monitor}
  /\ ver' = ver + 1
  /\ outside' = TRUE
  /\ sure' = {}
  /\ UNCHANGED <<page, fetches, touched, seen, trouble>>

-----------------------------------------------------------------------------
(* What the page does with the answers.                                    *)

\* `finally`.  Wrong variant of Done: only after a success.
DoneIfOk(c) == busy' = IF at[c] = "refused" THEN busy ELSE busy \ {c}
Done(c) == busy' = busy \ {c}

\* Where the page belongs after a success: save looks at its form, which may
\* have been edited since, doImport at the answer.  Wrong variant: both look at
\* the form.
HomeByForm(c) == form
Home(c) == IF c = "save" THEN form ELSE got[c]

\* Wrong variants of ReadBack: the import does not read the form again; the
\* button is released while the reading is under way.
NoReadBack(c) ==
  IF c = "save" THEN at' = [at EXCEPT ![c] = "get"] /\ UNCHANGED busy
  ELSE at' = [at EXCEPT ![c] = "idle"] /\ busy' = busy \ {c}
NotAwaited(c) == at' = [at EXCEPT ![c] = "get"] /\ busy' = busy \ {c}
ReadBack(c) == at' = [at EXCEPT ![c] = "get"] /\ UNCHANGED busy

Succeeded(c) ==
  /\ at[c] = "ok"
  /\ IF Home(c) # host
     THEN /\ jumps' = jumps \cup {Home(c)}
          /\ at' = [at EXCEPT ![c] = "idle"]
          /\ Done(c)
     ELSE ReadBack(c) /\ UNCHANGED jumps
  /\ got' = [got EXCEPT ![c] = Nothing]
  /\ sure' = sure \ {c}
  /\ UNCHANGED <<server, panel, ver, form, rows, host, there, body, ops, touched, seen,
                 outside, trouble>>

WasRefused(c) ==
  /\ at[c] = "refused"
  /\ at' = [at EXCEPT ![c] = "idle"]
  /\ Done(c)
  /\ sure' = sure \ {c}
  /\ UNCHANGED <<server, panel, ver, form, rows, host, there, jumps, body, got, ops, touched,
                 seen, outside, trouble>>

\* The end of load(): the form is replaced, whatever has been typed meanwhile.
Loaded(c) ==
  /\ at[c] = "got"
  /\ form' = got[c].server.monitor
  /\ rows' = LoadRules(got[c].server.rules)
  /\ seen' = got[c].ver
  /\ trouble' = (trouble \/ got[c].ver < seen)
  /\ touched' = FALSE
  /\ at' = [at EXCEPT ![c] = "idle"]
  /\ got' = [got EXCEPT ![c] = Nothing]
  /\ Done(c)
  /\ sure' = sure \ {"save"}
  /\ UNCHANGED <<server, panel, ver, host, there, jumps, body, ops, outside>>

\* fetch throws: the request, or its answer, is lost.
FetchFails(c) ==
  /\ at[c] # "idle"
  /\ at' = [at EXCEPT ![c] = "idle"]
  /\ body' = [body EXCEPT ![c] = Nothing]
  /\ got' = [got EXCEPT ![c] = Nothing]
  /\ Done(c)
  /\ trouble' = TRUE
  /\ sure' = sure \ {c}
  /\ UNCHANGED <<server, panel, ver, form, rows, host, there, jumps, ops, touched, seen,
                 outside>>

\* location.href, 1.5 seconds later: the page starts over at its new address,
\* if the panel is there, and what was under way is dropped.
Jump ==
  \E a \in jumps :
    /\ host' = a
    /\ there' = (a \in Reach[panel])
    /\ jumps' = {}
    /\ form' = NoForm
    /\ rows' = <<>>
    /\ busy' = {}
    /\ at' = [c \in Chains |-> IF c = "mount" /\ there' THEN "get" ELSE "idle"]
    /\ body' = [c \in Chains |-> Nothing]
    /\ got' = [c \in Chains |-> Nothing]
    /\ touched' = FALSE
    /\ seen' = 0
    /\ outside' = FALSE
    /\ trouble' = FALSE
    /\ sure' = {}
    /\ UNCHANGED <<server, panel, ver, ops>>

-----------------------------------------------------------------------------

User ==
  \/ AddRule
  \/ \E i \in 1 .. MaxRows : DelRule(i) \/ \E r \in Rows : SetRow(i, r)
  \/ \E i, j \in 1 .. MaxRows : MoveRule(i, j)
  \/ \E a \in Addrs : SetMonitor(a)
  \/ \E p \in Pastes : AppendPaste(p)
  \/ Save
  \/ \E c \in Imports : DoImport(c)

Fetch(c) ==
  \/ Apply(c) \/ RefuseRules(c) \/ RefuseOthers(c) \/ Reply(c) \/ Get(c)
  \/ Succeeded(c) \/ WasRefused(c) \/ Loaded(c) \/ FetchFails(c)

Next ==
  \/ User
  \/ \E c \in Chains : Fetch(c)
  \/ Jump
  \/ \E c \in Others : Other(c)

Spec == Init /\ [][Next]_vars

\* A fetch is answered or fails; a timer fires.  The user does what he likes.
FairSpec == Spec /\ WF_vars(Jump) /\ \A c \in Chains : WF_vars(Fetch(c))

-----------------------------------------------------------------------------
(* Properties.                                                             *)

Decides(rules, t) == Verdict(rules, Default, t)
ServerDecides(t) == Decides(ParseRules(server.rules), t)

\* Every variable has its type; a request is under way exactly while its button
\* is disabled.
TypeOK ==
  /\ server \in Confs /\ Accepts(server)
  /\ ver \in 0 .. MaxOps
  /\ form \in Addrs \cup {NoForm}
  /\ rows \in Seq(RowSet) /\ Len(rows) <= MaxRows
  /\ at \in [Chains -> {"idle", "sent", "applied", "ok", "refused", "get", "got"}]
  /\ busy = {c \in {"save", "import"} : at[c] # "idle"}
  /\ panel \in Addrs
  /\ host \in Locations \cup Addrs
  /\ there \in BOOLEAN
  /\ jumps \subseteq Addrs
  /\ sure \subseteq busy
  /\ ops \in 0 .. MaxOps
  /\ seen \in 0 .. ver

\* Settings.vue:311, the page keeps in step by itself: when nothing is under way
\* and nothing has been typed since, the page shows what the server decides
\* by, whatever the user saved and imported in whatever order, unless somebody
\* else has changed it, or an answer was lost or overtaken by a newer one.
Quiet == jumps = {} /\ \A c \in Chains : at[c] = "idle"
UntouchedFormIsServer ==
  Quiet /\ form # NoForm /\ ~touched /\ ~outside /\ ~trouble =>
    /\ form = server.monitor
    /\ \A t \in Targets : Decides(rows, t) = ServerDecides(t)

\* A save of what was read, untouched, of a configuration nobody has changed in
\* between is not refused for its rules and, if it is applied, changes no verdict,
\* however the lines are spelled.
UntouchedSave == at["save"] = "sent" /\ at'["save"] # "sent" /\ body["save"].from = ver
UntouchedSaveKeepsRouting ==
  [][UntouchedSave =>
       /\ ~RefuseRules("save")
       /\ at'["save"] = "applied" =>
            \A t \in Targets : ServerDecides(t)' = ServerDecides(t)]_vars

\* Settings.vue:302 and 326, page and server agree on what a rule is: a row is
\* marked before it can be refused, so that a save is refused for a rule only if
\* the page cannot judge it (a comma in the value, a CIDR that is none), and every
\* line parseRule would take gets through a paste.
RefusedForValue(b) ==
  \E i \in DOMAIN b.rules :
    \/ b.rules[i].value = Comma
    \/ b.rules[i].type = "IP-CIDR" /\ b.rules[i].value \notin DOMAIN Cidr
PageJudgesAsParser ==
  [][/\ RefuseRules("save") => RefusedForValue(body["save"])
     /\ \A lines \in Pastes :
          AppendPaste(lines) =>
            \A l \in ToSet(lines) : ParsesRule(l) => Rule(l) \in ToSet(rows')]_vars

\* README.md:89, the order is the priority: moving a row past its neighbour
\* changes the verdict only of what both of them hit.
MoveKeepsOthers ==
  [][\A i, j \in 1 .. MaxRows :
       MoveRule(i, j) =>
         \A t \in Targets :
           ~(Hits(rows[i], t) /\ Hits(rows[j], t)) => Decides(rows', t) = Decides(rows, t)]_vars

\* Settings.vue:215, the page finds the panel after a change: once a save or an
\* import is answered the page stays where the panel listens by then, or goes
\* there, if its address is one of a host, unless somebody else has moved the
\* panel, or the form has been edited or replaced, since the request went out.
\* With an address of no host the page is always sent to where nothing is found.
OfHost(a) == a \in Reach[a]
JumpLandsOnPanel ==
  [][\A c \in sure :
       Succeeded(c) /\ OfHost(panel) =>
         (IF at'[c] = "get" THEN {host} ELSE jumps' \ jumps) \subseteq Reach[panel]]_vars

\* The buttons come back, whether a request is taken, refused or lost.
ButtonsComeBack == \A c \in {"save", "import"} : (c \in busy) ~> (c \notin busy)

=============================================================================
