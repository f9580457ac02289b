---------------------------- MODULE MCBusServer -----------------------------
(* The two ends of the WebSocket bus, one at a time: BusServer with an      *)
(* agent that connects twice and one of another tenant, or the connection   *)
(* of one BusClient over the sockets of its attempts.                       *)
EXTENDS BusServer, BusClient, TLC

CONSTANTS a1, a2, c1, c2, c3, default, acme

VARIABLE end

MCAgentOf  == c1 :> a1 @@ c2 :> a1 @@ c3 :> a2
MCTenantOf == a1 :> acme @@ a2 :> default

BusInit == end \in {"server", "client"} /\ ServerInit /\ ClientInit

BusNext ==
    \/ end = "server" /\ ServerNext /\ UNCHANGED <<clientVars, end>>
    \/ end = "client" /\ ClientNext /\ UNCHANGED <<allVars, end>>

BusSpec == BusInit /\ [][BusNext]_<<allVars, clientVars, end>> /\ ServerFairness /\ ClientFairness
=============================================================================
