----------------------------- MODULE MCConnections -----------------------------
(***************************************************************************)
(* Instances of Connections for TLC: the first connection has a host of    *)
(* its own, the others share one.                                          *)
(***************************************************************************)
EXTENDS Connections

CONSTANTS c1, c2, c3, h1, h2

MCHostOf == [c \in Conns |-> IF c = c1 THEN h1 ELSE h2]

=============================================================================
