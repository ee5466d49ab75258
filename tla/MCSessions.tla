----------------------------- MODULE MCSessions -----------------------------
(* Two sessions for TLC: a peer with two addresses and a peer with one.     *)
EXTENDS Sessions, TLC

CONSTANTS p1, p2, a1, a2, b1

MCPeers == {p1, p2}
MCIps   == {a1, a2, b1}
MCAddrs == [p \in MCPeers |-> IF p = p1 THEN {a1, a2} ELSE {b1}]

\* The two addresses of p1 are interchangeable.
AddrSymmetry == Permutations({a1, a2})

\* One address each, for the liveness properties.
LiveIps   == {a1, b1}
LiveAddrs == [p \in MCPeers |-> IF p = p1 THEN {a1} ELSE {b1}]

AllFaults == Faults

\* A session sees of the faults only whether reconcile() fails.
OneFault  == {"add_refused"}
=============================================================================
