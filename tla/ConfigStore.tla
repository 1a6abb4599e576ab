------------------------------ MODULE ConfigStore ------------------------------
(***************************************************************************)
(* What the control plane promises (DESIGN.md 7.4): the configuration      *)
(* file, the configuration in memory and the two listeners are one value.  *)
(* A save or an import replaces all four at once, computed from the        *)
(* configuration in force at that moment, or changes none of them.         *)
(***************************************************************************)
CONSTANTS InitialConfigs, Puts, Imports, NoRules, NoAddr, NoConfig

VARIABLE state \* [disk, memory, proxy, admin]

Stopped(c) == [disk |-> c, memory |-> NoConfig, proxy |-> NoAddr, admin |-> NoAddr]
Serving(c) == [disk |-> c, memory |-> c, proxy |-> c.listen, admin |-> c.monitor]

\* Whatever the settings page does not show is kept.
Saved(c, p) ==
  [listen  |-> p.listen,
   monitor |-> p.monitor,
   disable |-> c.disable,
   rules   |-> IF p.rules = NoRules THEN c.rules ELSE p.rules]

Init == \E c \in InitialConfigs : state = Stopped(c)

\* The panel is optional: disabled, or its port is taken.
Start ==
  /\ state = Stopped(state.disk)
  /\ \/ state' = Serving(state.disk)
     \/ state' = [Serving(state.disk) EXCEPT !.admin = NoAddr]

Save ==
  /\ state = Serving(state.disk)
  /\ \E p \in Puts : state' = Serving(Saved(state.disk, p))

Import ==
  /\ state = Serving(state.disk)
  /\ \E c \in Imports : state' = Serving(c)

Next == Start \/ Save \/ Import

Spec == Init /\ [][Next]_state

=============================================================================
