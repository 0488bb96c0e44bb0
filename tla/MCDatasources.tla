---------------------------- MODULE MCDatasources ----------------------------
(* Instances of Datasources for TLC. *)
EXTENDS Datasources

=============================================================================
