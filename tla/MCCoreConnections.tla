-------------------------- MODULE MCCoreConnections --------------------------
(* CoreConnections for TLC: model values for servers, connections, editors. *)
EXTENDS CoreConnections, TLC

Symmetry == Permutations(Conns) \cup Permutations(Servers)
=============================================================================
