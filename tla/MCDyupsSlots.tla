---------------------------- MODULE MCDyupsSlots ----------------------------
(* Instances of DyupsSlots for TLC.                                       *)
EXTENDS DyupsSlots, TLC

CONSTANTS r1, r2, c1, c2

OneStatic == <<"n">>

Sym == Permutations(Requests)

=============================================================================
