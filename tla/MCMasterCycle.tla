--------------------------- MODULE MCMasterCycle ----------------------------
(* Instances of MasterCycle for TLC. *)
EXTENDS MasterCycle

WorkerAndLoader == <<"worker", "loader">>
OneWorker == <<"worker">>
=============================================================================
