------------------------------ MODULE MCDyups -------------------------------
(* An instance of Dyups for TLC.                                          *)
EXTENDS Dyups

(* One upstream of the configuration file.                                *)
OneName == [n \in Names |-> CHOOSE x \in Contents : TRUE]

=============================================================================
