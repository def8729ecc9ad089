-------------------------- MODULE MCRelayOperator --------------------------
(* Small instances of RelayOperator. *)
EXTENDS RelayOperator, TLC

=============================================================================
