------------------------------- MODULE MCHistory -------------------------------
(***************************************************************************)
(* The domains are interchangeable.                                        *)
(***************************************************************************)
EXTENDS History, TLC

Symmetry == Permutations(Domains)

=============================================================================
