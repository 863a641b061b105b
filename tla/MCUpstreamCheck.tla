-------------------------- MODULE MCUpstreamCheck ---------------------------
(***************************************************************************)
(* Instances of UpstreamCheck for TLC.                                     *)
(***************************************************************************)
EXTENDS UpstreamCheck

(* The conditions in which checks do not overlap; and each thing that      *)
(* makes them overlap.                                                     *)
Quiet == [keepalive |-> FALSE, fresh |-> FALSE, lag |-> 0]
Rough == [keepalive |-> TRUE, fresh |-> TRUE, lag |-> 0]
Late == [keepalive |-> FALSE, fresh |-> FALSE, lag |-> 1]
AllConfs == {Quiet, Rough, Late}

=============================================================================
