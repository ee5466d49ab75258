-------------------------------- MODULE Relay --------------------------------
(***************************************************************************)
(* The relay (src/src/relay.rs): the map from destination addresses to the *)
(* connected peers, the routing-table handle guarded by a mutex, and the   *)
(* operating system's routing table behind it (src/src/route.rs).          *)
(*                                                                         *)
(* Callers are the peer sessions, all polled by one tokio task, so what    *)
(* runs between two .await points is one atomic step.  The operations of   *)
(* the routing table are asynchronous: a request is queued to the OS, the  *)
(* OS handles the requests for one address in order, and the future that   *)
(* sent a request may have been dropped by the time it is handled.         *)
(***************************************************************************)
EXTENDS Naturals, Sequences, Functions

CONSTANTS
  Peers,     \* the callers: one session per configured peer
  Ips,       \* destination addresses
  MaxConn,   \* bound: connections a peer's link establishes
  OsFaults,  \* failures of the OS considered, a subset of Faults
  NoEntry,   \* peer_map has no entry for the address
  Parked     \* an entry whose value is None

\* The OS refuses an add; applies an add and reports an error; refuses a removal.
Faults == {"add_refused", "add_misreported", "remove_refused"}

\* The values T of Relay<T>: the ConnectedPeer of a peer's n-th connection.
Values == Peers \X (1..MaxConn)

ASSUME RelayAssumption ==
  /\ MaxConn \in Nat
  /\ OsFaults \subseteq Faults
  /\ NoEntry # Parked
  /\ NoEntry \notin Values
  /\ Parked \notin Values

VARIABLES
  peer_map,  \* address -> NoEntry, Parked or the value of its entry
  handle,    \* the mutex: the callers waiting for it in order, its holder first
  step,      \* caller -> where it is inside the relay
  current,   \* caller -> dest_ips of its insert
  stale,     \* caller -> dest_ips of its remove
  value,     \* caller -> the value it inserts
  fut,       \* address -> the holder's future for that address
  netlink,   \* address -> requests queued to the OS, oldest first
  kernel,    \* the addresses the OS has a route for through our TUN device
  leaked     \* history: routes whose removal the OS refused

relayVars == <<peer_map, handle, step, current, stale, value, fut, netlink,
               kernel, leaked>>

callVars == <<current, stale, value>>
osVars   == <<kernel, leaked>>

\* "drop_*" is the remove() that reconcile makes before its insert().
Steps == {"idle", "await_remove", "removing", "await_drop", "dropping",
          "await_insert", "inserting", "rolling_back"}

\* No request of this future, add sent, add succeeded, add failed, remove
\* sent, remove answered.
Futures == {"none", "add", "added", "failed", "del", "deleted"}

\* What may be queued for one address: at most the add of a dropped future and
\* the removal that undoes it.
Queues == {<<>>, <<"add">>, <<"del">>, <<"add", "del">>}

Entries == {ip \in Ips : peer_map[ip] # NoEntry}

Holds(p) == handle # <<>> /\ Head(handle) = p

RelayTypeOK ==
  /\ peer_map \in [Ips -> Values \cup {NoEntry, Parked}]
  /\ handle \in Seq(Peers)
  /\ step \in [Peers -> Steps]
  /\ current \in [Peers -> SUBSET Ips]
  /\ stale \in [Peers -> SUBSET Ips]
  /\ value \in [Peers -> Values \cup {NoEntry}]
  /\ fut \in [Ips -> Futures]
  /\ netlink \in [Ips -> Queues]
  /\ kernel \in SUBSET Ips
  /\ leaked \in SUBSET Ips

RelayInit ==
  /\ peer_map = [ip \in Ips |-> NoEntry]
  /\ handle = <<>>
  /\ step = [p \in Peers |-> "idle"]
  /\ current = [p \in Peers |-> {}]
  /\ stale = [p \in Peers |-> {}]
  /\ value = [p \in Peers |-> NoEntry]
  /\ fut = [ip \in Ips |-> "none"]
  /\ netlink = [ip \in Ips |-> <<>>]
  /\ kernel = {}
  /\ leaked = {}

-----------------------------------------------------------------------------
(* The calls.  A caller is inside at most one of them: it awaits it.       *)

\* relay.reconcile(current, previous, value): withdraws what was dropped,
\* then inserts; each takes the mutex anew.
CallReconcile(p, cur, previous, v) ==
  /\ step[p] = "idle"
  /\ current' = [current EXCEPT ![p] = cur]
  /\ stale' = [stale EXCEPT ![p] = previous \ cur]
  /\ value' = [value EXCEPT ![p] = v]
  /\ step' = [step EXCEPT ![p] = IF previous \ cur # {} THEN "await_drop"
                                                      ELSE "await_insert"]
  /\ handle' = Append(handle, p)
  /\ UNCHANGED <<peer_map, fut, netlink, osVars>>

\* relay.remove(dest_ips)
CallRemove(p, ips) ==
  /\ step[p] = "idle"
  /\ stale' = [stale EXCEPT ![p] = ips]
  /\ step' = [step EXCEPT ![p] = "await_remove"]
  /\ handle' = Append(handle, p)
  /\ UNCHANGED <<peer_map, current, value, fut, netlink, osVars>>

\* relay.park(dest_ips): not async, and takes no lock.
Park(p, ips) ==
  /\ step[p] = "idle"
  /\ peer_map' = [ip \in Ips |-> IF ip \in ips /\ peer_map[ip] # NoEntry
                                 THEN Parked ELSE peer_map[ip]]
  /\ UNCHANGED <<handle, step, callVars, fut, netlink, osVars>>

-----------------------------------------------------------------------------
(* Inside the mutex.                                                       *)

\* Mutant of SendRemovals: no best-effort removal of an address without an entry.
SendRemovalsTrackedOnly(ips) ==
  LET tracked == {ip \in ips : peer_map[ip] # NoEntry} IN
  /\ peer_map' = [ip \in Ips |-> IF ip \in ips THEN NoEntry ELSE peer_map[ip]]
  /\ fut' = [ip \in Ips |-> IF ip \in tracked THEN "del" ELSE "none"]
  /\ netlink' = [ip \in Ips |-> IF ip \in tracked THEN Append(netlink[ip], "del")
                                                  ELSE netlink[ip]]

\* remove_locked(dest_ips), up to its await: every entry leaves the map, and
\* a removal is sent for every address, tracked (drop_async) or not.
SendRemovals(ips) ==
  /\ peer_map' = [ip \in Ips |-> IF ip \in ips THEN NoEntry ELSE peer_map[ip]]
  /\ fut' = [ip \in Ips |-> IF ip \in ips THEN "del" ELSE "none"]
  /\ netlink' = [ip \in Ips |-> IF ip \in ips THEN Append(netlink[ip], "del")
                                             ELSE netlink[ip]]

\* join_all: every removal has been answered, with success or an error.
AllRemoved(ips) == \A ip \in ips : fut[ip] # "del"

StartRemove(p) ==
  /\ Holds(p)
  /\ \/ /\ step[p] = "await_remove"
        /\ step' = [step EXCEPT ![p] = "removing"]
     \/ /\ step[p] = "await_drop"
        /\ step' = [step EXCEPT ![p] = "dropping"]
  /\ SendRemovals(stale[p])
  /\ UNCHANGED <<handle, callVars, osVars>>

\* remove() returns: the guard is dropped.
FinishRemove(p) ==
  /\ step[p] = "removing"
  /\ AllRemoved(stale[p])
  /\ step' = [step EXCEPT ![p] = "idle"]
  /\ handle' = Tail(handle)
  /\ fut' = [ip \in Ips |-> "none"]
  /\ UNCHANGED <<peer_map, callVars, netlink, osVars>>

\* Mutant of FinishDrop: insert() never joins the queue of the mutex, and waits for ever.
FinishDropUnlocked(p) ==
  /\ step[p] = "dropping"
  /\ AllRemoved(stale[p])
  /\ step' = [step EXCEPT ![p] = "await_insert"]
  /\ handle' = Tail(handle)
  /\ fut' = [ip \in Ips |-> "none"]
  /\ UNCHANGED <<peer_map, callVars, netlink, osVars>>

\* The remove() of reconcile() returns and insert() asks for the mutex.
FinishDrop(p) ==
  /\ step[p] = "dropping"
  /\ AllRemoved(stale[p])
  /\ step' = [step EXCEPT ![p] = "await_insert"]
  /\ handle' = Append(Tail(handle), p)
  /\ fut' = [ip \in Ips |-> "none"]
  /\ UNCHANGED <<peer_map, callVars, netlink, osVars>>

\* Mutant of StartInsert: the entries are created before their routes.
StartInsertEager(p) ==
  LET fresh == {ip \in current[p] : peer_map[ip] = NoEntry} IN
  /\ Holds(p)
  /\ step[p] = "await_insert"
  /\ step' = [step EXCEPT ![p] = "inserting"]
  /\ peer_map' = [ip \in Ips |-> IF ip \in current[p] THEN value[p] ELSE peer_map[ip]]
  /\ fut' = [ip \in Ips |-> IF ip \in fresh THEN "add" ELSE "none"]
  /\ netlink' = [ip \in Ips |-> IF ip \in fresh THEN Append(netlink[ip], "add")
                                                ELSE netlink[ip]]
  /\ UNCHANGED <<handle, callVars, osVars>>

\* The first poll of insert()'s futures: an address that has an entry is
\* re-armed in place, a route is requested for each of the others.
StartInsert(p) ==
  LET fresh == {ip \in current[p] : peer_map[ip] = NoEntry} IN
  /\ Holds(p)
  /\ step[p] = "await_insert"
  /\ step' = [step EXCEPT ![p] = "inserting"]
  /\ peer_map' = [ip \in Ips |-> IF ip \in current[p] \ fresh THEN value[p]
                                                              ELSE peer_map[ip]]
  /\ fut' = [ip \in Ips |-> IF ip \in fresh THEN "add" ELSE "none"]
  /\ netlink' = [ip \in Ips |-> IF ip \in fresh THEN Append(netlink[ip], "add")
                                                ELSE netlink[ip]]
  /\ UNCHANGED <<handle, callVars, osVars>>

\* ScopedRoute::new returned Ok: the entry is created.
InsertReply(p, ip) ==
  /\ step[p] = "inserting"
  /\ fut[ip] = "added"
  /\ peer_map' = [peer_map EXCEPT ![ip] = value[p]]
  /\ fut' = [fut EXCEPT ![ip] = "none"]
  /\ UNCHANGED <<handle, step, callVars, netlink, osVars>>

\* Mutant of InsertFailed: only the address that failed is removed.
InsertFailedOne(p, ip) ==
  /\ step[p] = "inserting"
  /\ fut[ip] = "failed"
  /\ step' = [step EXCEPT ![p] = "rolling_back"]
  /\ SendRemovals({ip})
  /\ UNCHANGED <<handle, callVars, osVars>>

\* ScopedRoute::new returned Err: try_join_all drops the other futures, answered
\* or not, and the whole batch is removed under the same guard.
InsertFailed(p, ip) ==
  /\ step[p] = "inserting"
  /\ fut[ip] = "failed"
  /\ step' = [step EXCEPT ![p] = "rolling_back"]
  /\ SendRemovals(current[p])
  /\ UNCHANGED <<handle, callVars, osVars>>

\* insert() returns Ok.
FinishInsert(p) ==
  /\ step[p] = "inserting"
  /\ \A ip \in current[p] : fut[ip] = "none"
  /\ step' = [step EXCEPT ![p] = "idle"]
  /\ handle' = Tail(handle)
  /\ UNCHANGED <<peer_map, callVars, fut, netlink, osVars>>

\* Mutant of FinishRollback: the batch is retried.
FinishRollbackRetry(p) ==
  /\ step[p] = "rolling_back"
  /\ AllRemoved(current[p])
  /\ step' = [step EXCEPT ![p] = "await_insert"]
  /\ handle' = Append(Tail(handle), p)
  /\ fut' = [ip \in Ips |-> "none"]
  /\ UNCHANGED <<peer_map, callVars, netlink, osVars>>

\* insert() returns Err.
FinishRollback(p) ==
  /\ step[p] = "rolling_back"
  /\ AllRemoved(current[p])
  /\ step' = [step EXCEPT ![p] = "idle"]
  /\ handle' = Tail(handle)
  /\ fut' = [ip \in Ips |-> "none"]
  /\ UNCHANGED <<peer_map, callVars, netlink, osVars>>

-----------------------------------------------------------------------------
(* The operating system.                                                   *)

\* The reply reaches the future that sent the request, if it still exists.
Answer(ip, sent, reply) ==
  fut' = [fut EXCEPT ![ip] = IF @ = sent THEN reply ELSE @]

\* RoutingTable::insert: adding a route that exists is an error.
OsAdd(ip) ==
  /\ netlink[ip] # <<>> /\ Head(netlink[ip]) = "add"
  /\ netlink' = [netlink EXCEPT ![ip] = Tail(@)]
  /\ \/ /\ ip \notin kernel
        /\ kernel' = kernel \cup {ip}
        /\ Answer(ip, "add", "added")
     \/ /\ ip \in kernel \/ "add_refused" \in OsFaults
        /\ kernel' = kernel
        /\ Answer(ip, "add", "failed")
     \/ /\ ip \notin kernel /\ "add_misreported" \in OsFaults
        /\ kernel' = kernel \cup {ip}
        /\ Answer(ip, "add", "failed")
  /\ UNCHANGED <<peer_map, handle, step, callVars, leaked>>

\* RoutingTable::remove: the caller logs an error and goes on.
OsRemove(ip) ==
  /\ netlink[ip] # <<>> /\ Head(netlink[ip]) = "del"
  /\ netlink' = [netlink EXCEPT ![ip] = Tail(@)]
  /\ Answer(ip, "del", "deleted")
  /\ \/ /\ kernel' = kernel \ {ip}
        /\ leaked' = leaked \ {ip}
     \/ /\ ip \in kernel /\ "remove_refused" \in OsFaults
        /\ kernel' = kernel
        /\ leaked' = leaked \cup {ip}
  /\ UNCHANGED <<peer_map, handle, step, callVars>>

Os == \E ip \in Ips : OsAdd(ip) \/ OsRemove(ip)

-----------------------------------------------------------------------------
(* The relay on its own: callers that make any call with any addresses.    *)

Call(p) ==
  \/ \E cur, previous \in SUBSET Ips, n \in 1..MaxConn :
       CallReconcile(p, cur, previous, <<p, n>>)
  \/ \E ips \in SUBSET Ips : CallRemove(p, ips) \/ Park(p, ips)

\* What a call in progress does by itself.
Progress(p) ==
  \/ StartRemove(p) \/ FinishRemove(p) \/ FinishDrop(p)
  \/ StartInsert(p) \/ FinishInsert(p) \/ FinishRollback(p)
  \/ \E ip \in Ips : InsertReply(p, ip) \/ InsertFailed(p, ip)

RelayNext == Os \/ \E p \in Peers : Call(p) \/ Progress(p)

RelaySpec == RelayInit /\ [][RelayNext]_relayVars

-----------------------------------------------------------------------------
(* Properties.                                                             *)

\* Every entry of peer_map, connected or parked, has its route in the OS: a
\* packet for the address keeps reaching our TUN device (PeerValue.route).
RouteBacked == Entries \subseteq kernel

\* While nobody holds the mutex the OS has exactly the routes of the entries,
\* except for those whose removal it refused: no add of a future dropped by
\* try_join_all takes effect later, and none is left behind by a rollback.
NoOrphanRoute ==
  handle = <<>> => /\ kernel = Entries \cup leaked
                   /\ \A ip \in Ips : netlink[ip] = <<>>

\* insert() never replaces an entry by the one it creates: that would drop a
\* ScopedRoute without drop_async, which panics (Drop for ScopedRoute).
GuardNeverTrips ==
  \A ip \in Ips : fut[ip] = "added" => peer_map[ip] = NoEntry

\* A failed insert() returns with none of its batch in the map or, unless the
\* OS refused a removal, in the routing table.
RollbackIsTotal ==
  [][\A p \in Peers : step[p] = "rolling_back" /\ step'[p] = "idle" =>
       /\ current[p] \cap Entries' = {}
       /\ current[p] \cap kernel' \subseteq leaked']_relayVars

\* To the data plane the relay is the table of Dispatch: entries appear over a route
\* that is there, one connection per batch, and routes go only after their entry.
Table == INSTANCE Dispatch WITH table <- peer_map, routed <- kernel

ImplementsDispatch == Table!Spec

\* Every call of the relay returns: nobody waits for the mutex or an answer
\* for ever.
CallsReturn == \A p \in Peers : step[p] # "idle" ~> step[p] = "idle"

-----------------------------------------------------------------------------
(* The inductive invariant behind RouteBacked, NoOrphanRoute and           *)
(* GuardNeverTrips.                                                        *)

Busy(p) == step[p] \in {"removing", "dropping", "inserting", "rolling_back"}

\* The mutex queue holds the callers inside the relay, each once, and only its
\* head is at work.
QueueInv ==
  /\ IsInjective(handle)
  /\ Range(handle) = {p \in Peers : step[p] # "idle"}
  /\ \A p \in Peers : Busy(p) => Holds(p)

Quiet(ip) == fut[ip] = "none" /\ netlink[ip] = <<>>

\* The futures of remove_locked(ips), and no other request.
Removing(ips) ==
  \A ip \in Ips :
    IF ip \in ips
    THEN /\ peer_map[ip] = NoEntry
         /\ \/ fut[ip] = "del" /\ netlink[ip] \in {<<"del">>, <<"add", "del">>}
            \/ fut[ip] = "deleted" /\ netlink[ip] = <<>>
    ELSE Quiet(ip)

\* The futures of insert(ips), and no other request.
Inserting(ips) ==
  \A ip \in Ips :
    IF ip \in ips
    THEN \/ Quiet(ip) /\ peer_map[ip] # NoEntry
         \/ fut[ip] = "add" /\ netlink[ip] = <<"add">> /\ peer_map[ip] = NoEntry
         \/ fut[ip] \in {"added", "failed"} /\ netlink[ip] = <<>> /\ peer_map[ip] = NoEntry
    ELSE Quiet(ip)

\* What is under way in the OS is what the busy caller asked for.
BatchInv ==
  /\ (\A p \in Peers : ~Busy(p)) => \A ip \in Ips : Quiet(ip)
  /\ \A p \in Peers :
       /\ step[p] \in {"removing", "dropping"} => Removing(stale[p])
       /\ step[p] = "rolling_back" => Removing(current[p])
       /\ step[p] = "inserting" => Inserting(current[p])
       /\ step[p] \in {"await_drop", "dropping", "await_insert", "inserting"} =>
            value[p] \in Values

\* The map and the OS table agree on every address nothing is under way for.
OsInv ==
  \A ip \in Ips :
    /\ peer_map[ip] # NoEntry \/ fut[ip] = "added" => ip \in kernel /\ ip \notin leaked
    /\ ip \in leaked => ip \in kernel
    /\ ip \in kernel /\ fut[ip] \in {"none", "deleted"} =>
         peer_map[ip] # NoEntry \/ ip \in leaked

\* The four together are preserved by every step of the relay and of the OS: the
\* futures and requests in existence are those of the one caller that holds
\* the mutex, and account for every difference between peer_map and the OS.
RelayInv == RelayTypeOK /\ QueueInv /\ BatchInv /\ OsInv

=============================================================================
