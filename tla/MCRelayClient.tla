--------------------------- MODULE MCRelayClient ---------------------------
(* Small instances of RelayClient: two operators with different leases. *)
EXTENDS RelayClient

CONSTANTS ra, rb

MCLeaseSecs == [r \in Relays |-> IF r = ra THEN 1 ELSE 2]
=============================================================================
