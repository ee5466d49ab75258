------------------------------ MODULE Dispatch ------------------------------
(***************************************************************************)
(* What the relay promises to the data plane, without the mutex, the       *)
(* batches and the requests in flight: a table of entries and the set of   *)
(* routed addresses.  The route of an address is there before its entry    *)
(* and stays until the entry is gone; the entries of one call are armed    *)
(* with one connection, all at once if they exist.  Relay implements it.   *)
(***************************************************************************)

CONSTANTS Ips, Values, NoEntry, Parked

VARIABLES
  table,   \* address -> NoEntry, Parked or a connection
  routed   \* addresses whose packets the OS hands to the TUN device

vars == <<table, routed>>

Set(ips, v) == table' = [ip \in Ips |-> IF ip \in ips THEN v ELSE table[ip]]

Known(ips) == {ip \in ips : table[ip] # NoEntry}

Init ==
  /\ table = [ip \in Ips |-> NoEntry]
  /\ routed = {}

\* The OS accepts a route.
Route(ip) ==
  /\ ip \notin routed
  /\ routed' = routed \cup {ip}
  /\ UNCHANGED table

\* The OS gives up a route, of an address without an entry only.
Unroute(ip) ==
  /\ table[ip] = NoEntry
  /\ routed' = routed \ {ip}
  /\ UNCHANGED table

\* A new entry, over its route.
Enter(ip, v) ==
  /\ table[ip] = NoEntry /\ ip \in routed
  /\ Set({ip}, v)
  /\ UNCHANGED routed

\* The entries that exist among the addresses of an insert() get its connection,
\* those of a park() lose theirs, those of a remove() go.
Rearm(ips, v) == Set(Known(ips), v) /\ UNCHANGED routed
ParkAll(ips)  == Set(Known(ips), Parked) /\ UNCHANGED routed
Forget(ips)   == Set(ips, NoEntry) /\ UNCHANGED routed

Next ==
  \/ \E ip \in Ips : Route(ip) \/ Unroute(ip) \/ \E v \in Values : Enter(ip, v)
  \/ \E ips \in SUBSET Ips :
       ParkAll(ips) \/ Forget(ips) \/ \E v \in Values : Rearm(ips, v)

Spec == Init /\ [][Next]_vars
=============================================================================
