------------------------------ MODULE MCShmtx ------------------------------
(* The instance of the shared-memory mutex for TLC. *)
EXTENDS Shmtx
=============================================================================
