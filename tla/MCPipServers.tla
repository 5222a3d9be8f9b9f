---------------------------- MODULE MCPipServers ----------------------------
(* PipServers for TLC: model values for terminals and the reconnecting loop. *)
EXTENDS PipServers, TLC

Symmetry == Permutations(Terms)
=============================================================================
