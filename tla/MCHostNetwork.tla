---------------------------- MODULE MCHostNetwork ----------------------------
(* Instances of HostNetwork for TLC: an exit node p that moves between two  *)
(* addresses, a second peer q on the same subnet, one relay.               *)
EXTENDS HostNetwork, TLC

MCOrder == <<"p", "q">>
MCHomes == "p" :> {"a", "b"} @@ "q" :> {"b"}
MCOffers == "p" :> {"lan", "default"} @@ "q" :> {"lan"}
MCFirstConfigs == {[exit |-> "none", adv |-> FALSE], [exit |-> "p", adv |-> TRUE]}
MCFirstPeers == {<<>>, "p" :> "a" @@ "q" :> "b"}
MCControl == {"relay"}

MCFallible ==
       {"linux"} \X {"start", "bypass", "forward", "rules6"}
  \cup {"macos"} \X {"resolve", "bypass", "iface", "forward", "repair"}
  \cup {"windows"} \X {"resolve", "bypass", "start"}
=============================================================================
