----------------------------- MODULE MCPeerPaths -----------------------------
(* Instances of PeerPaths: which hosts share an address, when leases end.   *)
EXTENDS PeerPaths

CONSTANTS u1, u2, theirs, own

\* Both public endpoints are ports of one NAT, both relays of one operator.
MCHost == [e \in Endpoints |-> IF e \in Publics THEN "nat" ELSE IF e = LocalEp THEN "lan" ELSE "relay"]
Ann(t, p, x) == [timestamp |-> t, public |-> p, relay |-> x]
\* One that names a relay and a later one that names only the local endpoint.
RelayAnnouncements == {Ann(1, u1, theirs), Ann(2, None, None)}
\* The peer's public endpoint changes.
PublicAnnouncements == {Ann(1, u1, None), Ann(2, u2, None)}

\* Leases that end within the run.
ShortLeases == [e \in Relays |-> 3]
=============================================================================
