----------------------------- MODULE RouteGauge -----------------------------
(***************************************************************************)
(* The gauge p2p_vpn_route_active (src/src/route.rs), counted beside the   *)
(* steps of the relay.  RoutingTable::insert counts a route, and           *)
(* RoutingTable::remove discounts it, when its own future sees that the OS *)
(* has succeeded, which is later than the change of the OS table.  The     *)
(* futures of a failed insert are dropped, those of a removal never, so    *)
(* the two do not always come in pairs.                                    *)
(***************************************************************************)
EXTENDS Relay, Integers, FiniteSets

CONSTANTS
  MaxDrift   \* bound: batches that fail in a behaviour

ASSUME GaugeAssumption == MaxDrift \in Nat /\ IsFiniteSet(Ips)

VARIABLES
  active,  \* the gauge
  unseen,  \* addresses whose removal has succeeded, unseen by its future
  failed   \* history: batches that failed

gaugeVars == <<relayVars, active, unseen, failed>>

GaugeInit == RelayInit /\ active = 0 /\ unseen = {} /\ failed = 0

\* Futures of insert that return Ok in this step.
InsertedOk == {ip \in Ips : fut[ip] = "added" /\ fut'[ip] = "none" /\ peer_map'[ip] # NoEntry}

\* Mutant of RemovedByOs: counted when the removal is answered, refused or not.
RemovedAnswered == {ip \in Ips : fut[ip] = "del" /\ fut'[ip] = "deleted"}

\* Removals the OS answers with success in this step.
RemovedByOs == {ip \in kernel : fut[ip] = "del" /\ fut'[ip] = "deleted" /\ ip \notin kernel'}

\* Futures of remove that return Ok in the step in which join_all returns.
RemovedOk == {ip \in unseen : fut'[ip] = "none"}

\* The future of remove for ip is polled and returns Ok while others still wait.
RemoveReturns(ip) ==
  /\ ip \in unseen /\ unseen' = unseen \ {ip}
  /\ active' = active - 1
  /\ UNCHANGED <<relayVars, failed>>

\* A batch fails in this step.
Rollback == \E p \in Peers : step[p] = "inserting" /\ step'[p] = "rolling_back"

\* Inside reconcile, where the batch may still fail.
Reconciling == {"await_drop", "dropping", "await_insert", "inserting"}

RelayCounted ==
  /\ RelayNext
  /\ active' = active + Cardinality(InsertedOk) - Cardinality(RemovedOk)
  /\ unseen' = (unseen \ RemovedOk) \cup RemovedByOs
  /\ failed' = IF Rollback THEN failed + 1 ELSE failed
  /\ failed' + Cardinality({p \in Peers : step'[p] \in Reconciling}) <= MaxDrift

GaugeNext == RelayCounted \/ \E ip \in Ips : RemoveReturns(ip)

GaugeSpec == GaugeInit /\ [][GaugeNext]_gaugeVars
-----------------------------------------------------------------------------
\* A route is counted after it exists, so the gauge shows more routes than the OS has
\* only by those whose removal has just succeeded and will be discounted.  At rest it
\* shows no more, and falls short by no more than the addresses of the batches that
\* failed, whose rollback discounts routes that the dropped futures never counted.
\* So then it is exact while no batch has failed, whatever removals the OS has refused.
DriftBounded ==
  /\ active <= Cardinality(kernel) + Cardinality(unseen)
  /\ handle = <<>> =>
       /\ active <= Cardinality(kernel)
       /\ Cardinality(kernel) - active <= failed * Cardinality(Ips)

-----------------------------------------------------------------------------
(* The inductive invariant behind it.                                      *)

\* Adds that have succeeded and are not yet counted; that are answered; whose future
\* was dropped before the OS has handled them.
Added    == {ip \in Ips : fut[ip] = "added"}
Answered == {ip \in Ips : fut[ip] \in {"added", "failed"}}
Dropped  == {ip \in Ips : netlink[ip] = <<"add", "del">>}

\* A removal that succeeds takes a route from both sides, at once or when it is seen, so
\* only adds make the gauge differ: it lacks those about to be counted, and each failed
\* batch may have made it lack as many as the batch had addresses, those still to come
\* included.
GaugeInv ==
  /\ RelayInv
  /\ active \in Int /\ failed \in Nat
  /\ unseen \subseteq {ip \in Ips : fut[ip] = "deleted"}
  /\ active + Cardinality(Added) <= Cardinality(kernel) + Cardinality(unseen)
  /\ Cardinality(kernel) + Cardinality(unseen) + Cardinality(Dropped)
       <= active + failed * Cardinality(Ips) + Cardinality(Answered)
=============================================================================
