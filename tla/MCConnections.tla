--------------------------- MODULE MCConnections ----------------------------
(***************************************************************************)
(* Instances of Connections for TLC.  The slots are interchangeable: every *)
(* order of the free stack is an initial state.                            *)
(***************************************************************************)
EXTENDS Connections, TLC

Sym == Permutations(Slots)

=============================================================================
