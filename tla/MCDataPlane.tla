----------------------------- MODULE MCDataPlane -----------------------------
(* The data plane for TLC: one address, two connections, a pool of three.   *)
EXTENDS DataPlane

CONSTANTS a1, c1, c2

MCIps    == {a1}
MCValues == {c1, c2}

\* Markable and not, for the resolver, and one no reply can be built for.
MCPackets ==
  {[dest |-> a1, family |-> "v6", ect |-> TRUE],
   [dest |-> a1, family |-> "v6", ect |-> FALSE],
   [dest |-> DnsServer, family |-> "v6", ect |-> FALSE],
   [dest |-> NoDest, family |-> "none", ect |-> FALSE]}
==============================================================================
