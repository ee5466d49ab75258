---------------------------- MODULE MCRouteGauge ----------------------------
(* The gauge for TLC: two callers, two addresses, all faults of the OS.     *)
EXTENDS RouteGauge

CONSTANTS p1, p2, a1, a2

MCPeers == {p1, p2}
MCIps   == {a1, a2}
AllFaults == Faults
=============================================================================
