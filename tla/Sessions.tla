------------------------------ MODULE Sessions ------------------------------
(***************************************************************************)
(* The peer sessions (src/src/session.rs) on top of the relay they share.  *)
(* Each session owns one persistent link; for every connection the link    *)
(* yields it runs the handshake, reconciles the relay with the negotiated  *)
(* addresses, receives until the connection drops, and parks its routes.   *)
(*                                                                         *)
(* The link (iroh_persistent::PersistentConnection) is external.  It is a  *)
(* watched value: changed() returns the latest value not yet seen, so an   *)
(* intermediate disconnection can go unnoticed.                            *)
(***************************************************************************)
EXTENDS Relay

CONSTANTS
  Addrs,       \* peer -> the addresses it may advertise
  DnsEnabled   \* the configuration has a [dns] section

\* An address is derived from the peer's public key and signed by it, so two
\* peers never advertise the same one.
ASSUME SessionsAssumption ==
  /\ Addrs \in [Peers -> SUBSET Ips]
  /\ \A p, q \in Peers : p # q => Addrs[p] \cap Addrs[q] = {}
  /\ DnsEnabled \in BOOLEAN

VARIABLES
  pc,         \* peer -> where PeerSession::run is
  routes,     \* peer -> the local `routes` of run()
  conn,       \* peer -> the number of the connection run_connection() serves
  dns,        \* peer -> the addresses PeerNames has for its name
  latest,     \* link: how many connections it has established
  open,       \* link: the latest of them has not been closed
  published,  \* link: the watched value is Some(connection) rather than None
  fresh,      \* link: the session has not seen the watched value
  ended,      \* link: its background tasks are gone
  tun_up      \* Tun::control runs: the channel to the TUN device is open

sessionVars == <<pc, routes, conn, dns>>
linkVars    == <<latest, open, published, fresh, ended, tun_up>>
vars == <<relayVars, sessionVars, linkVars>>

\* At link.changed(), in handshake(), relay.reconcile(), recv_loop(), in
\* withdraw_routes()' relay.remove(), and returned from run().
Places == {"changed", "handshake", "reconcile", "recv", "withdraw", "ended"}

TypeOK ==
  /\ RelayTypeOK
  /\ pc \in [Peers -> Places]
  /\ routes \in [Peers -> SUBSET Ips]
  /\ conn \in [Peers -> 0..MaxConn]
  /\ dns \in [Peers -> SUBSET Ips]
  /\ latest \in [Peers -> 0..MaxConn]
  /\ open \in [Peers -> BOOLEAN]
  /\ published \in [Peers -> BOOLEAN]
  /\ fresh \in [Peers -> BOOLEAN]
  /\ ended \in [Peers -> BOOLEAN]
  /\ tun_up \in BOOLEAN

Init ==
  /\ RelayInit
  /\ pc = [p \in Peers |-> "changed"]
  /\ routes = [p \in Peers |-> {}]
  /\ conn = [p \in Peers |-> 0]
  /\ dns = [p \in Peers |-> {}]
  /\ latest = [p \in Peers |-> 0]
  /\ open = [p \in Peers |-> FALSE]
  /\ published = [p \in Peers |-> FALSE]
  /\ fresh = [p \in Peers |-> FALSE]
  /\ ended = [p \in Peers |-> FALSE]
  /\ tun_up = TRUE

-----------------------------------------------------------------------------
(* The link.                                                               *)

\* A new connection replaces one that is gone.
LinkUp(p) ==
  /\ ~ended[p] /\ ~open[p] /\ latest[p] < MaxConn
  /\ latest' = [latest EXCEPT ![p] = @ + 1]
  /\ open' = [open EXCEPT ![p] = TRUE]
  /\ published' = [published EXCEPT ![p] = TRUE]
  /\ fresh' = [fresh EXCEPT ![p] = TRUE]
  /\ UNCHANGED <<relayVars, sessionVars, ended, tun_up>>

\* The network or the remote node closes the connection.
ConnClosed(p) ==
  /\ open[p]
  /\ open' = [open EXCEPT ![p] = FALSE]
  /\ UNCHANGED <<relayVars, sessionVars, latest, published, fresh, ended, tun_up>>

\* The link notices and publishes None.
LinkDown(p) ==
  /\ ~ended[p] /\ ~open[p] /\ published[p]
  /\ published' = [published EXCEPT ![p] = FALSE]
  /\ fresh' = [fresh EXCEPT ![p] = TRUE]
  /\ UNCHANGED <<relayVars, sessionVars, latest, open, ended, tun_up>>

\* The link's background tasks stop.
LinkEnd(p) ==
  /\ ~ended[p]
  /\ ended' = [ended EXCEPT ![p] = TRUE]
  /\ UNCHANGED <<relayVars, sessionVars, latest, open, published, fresh, tun_up>>

\* A fatal error ends Tun::control, which closes the channel the sessions send
\* received packets to; tokio::join! keeps the sessions running.
TunFails ==
  /\ tun_up
  /\ tun_up' = FALSE
  /\ UNCHANGED <<relayVars, sessionVars, latest, open, published, fresh, ended>>

-----------------------------------------------------------------------------
(* PeerSession::run.                                                       *)

See(p) == fresh' = [fresh EXCEPT ![p] = FALSE]

Goto(p, place) == pc' = [pc EXCEPT ![p] = place]

\* changed() returns Ok(Some(conn)).
SeeConnection(p) ==
  /\ pc[p] = "changed" /\ fresh[p] /\ published[p]
  /\ See(p)
  /\ conn' = [conn EXCEPT ![p] = latest[p]]
  /\ Goto(p, "handshake")
  /\ UNCHANGED <<relayVars, routes, dns, latest, open, published, ended, tun_up>>

\* park_routes(routes)
ParkRoutes(p) == Park(p, routes[p])

\* changed() returns Ok(None).
SeeDisconnect(p) ==
  /\ pc[p] = "changed" /\ fresh[p] /\ ~published[p]
  /\ See(p)
  /\ ParkRoutes(p)
  /\ UNCHANGED <<sessionVars, latest, open, published, ended, tun_up>>

\* Mutants of SeeEnd: the session returns without withdrawing its routes; it
\* withdraws every entry of the relay; it goes on as after a disconnection.
SeeEndNoWithdraw(p) ==
  /\ pc[p] = "changed" /\ ~fresh[p] /\ ended[p]
  /\ dns' = [dns EXCEPT ![p] = {}]
  /\ Goto(p, "ended")
  /\ UNCHANGED <<relayVars, routes, conn, linkVars>>

SeeEndWithdrawAll(p) ==
  /\ pc[p] = "changed" /\ ~fresh[p] /\ ended[p]
  /\ CallRemove(p, Entries)
  /\ Goto(p, "withdraw")
  /\ UNCHANGED <<dns, routes, conn, linkVars>>

SeeEndStay(p) ==
  /\ pc[p] = "changed" /\ ~fresh[p] /\ ended[p]
  /\ ParkRoutes(p)
  /\ UNCHANGED <<sessionVars, linkVars>>

\* changed() returns Err: withdraw_routes() and return.
SeeEnd(p) ==
  /\ pc[p] = "changed" /\ ~fresh[p] /\ ended[p]
  /\ \/ /\ routes[p] # {}
        /\ CallRemove(p, routes[p])
        /\ Goto(p, "withdraw")
        /\ UNCHANGED dns
     \/ /\ routes[p] = {}
        /\ dns' = [dns EXCEPT ![p] = {}]
        /\ Goto(p, "ended")
        /\ UNCHANGED relayVars
  /\ UNCHANGED <<routes, conn, linkVars>>

\* Mutant of Withdrawn: the removals are started and not awaited.
WithdrawnEarly(p) ==
  /\ pc[p] = "withdraw" /\ step[p] = "removing"
  /\ step' = [step EXCEPT ![p] = "idle"]
  /\ handle' = Tail(handle)
  /\ fut' = [ip \in Ips |-> "none"]
  /\ routes' = [routes EXCEPT ![p] = {}]
  /\ dns' = [dns EXCEPT ![p] = {}]
  /\ Goto(p, "ended")
  /\ UNCHANGED <<peer_map, callVars, netlink, osVars, conn, linkVars>>

\* relay.remove() returns to withdraw_routes(), which drops the name and ends.
Withdrawn(p) ==
  /\ pc[p] = "withdraw"
  /\ FinishRemove(p)
  /\ routes' = [routes EXCEPT ![p] = {}]
  /\ dns' = [dns EXCEPT ![p] = {}]
  /\ Goto(p, "ended")
  /\ UNCHANGED <<conn, linkVars>>

-----------------------------------------------------------------------------
(* PeerSession::run_connection.                                            *)

\* The connection this session serves is still open.
Serving(p) == conn[p] = latest[p] /\ open[p]

\* Mutant of HandshakeOk: the earlier routes are not passed to reconcile().
HandshakeOkNoPrevious(p, adv) ==
  /\ pc[p] = "handshake" /\ adv # {}
  /\ CallReconcile(p, adv, {}, <<p, conn[p]>>)
  /\ Goto(p, "reconcile")
  /\ UNCHANGED <<routes, conn, dns, linkVars>>

\* The handshake succeeds with the addresses adv, at least one, perhaps on a
\* connection that has closed meanwhile: the relay is asked to reconcile.
HandshakeOk(p, adv) ==
  /\ pc[p] = "handshake" /\ adv # {}
  /\ CallReconcile(p, adv, routes[p], <<p, conn[p]>>)
  /\ Goto(p, "reconcile")
  /\ UNCHANGED <<routes, conn, dns, linkVars>>

\* The handshake fails: the connection is gone, the timeout has elapsed, or the
\* remote node sent no acceptable address, which closes the connection.
HandshakeErr(p) ==
  /\ pc[p] = "handshake"
  /\ Goto(p, "changed")
  /\ open' \in {open, [open EXCEPT ![p] = @ /\ conn[p] # latest[p]]}
  /\ UNCHANGED <<relayVars, routes, conn, dns, latest, published, fresh, ended, tun_up>>

\* reconcile() returns Ok: the routes and the name are recorded.
Registered(p) ==
  /\ pc[p] = "reconcile"
  /\ FinishInsert(p)
  /\ routes' = [routes EXCEPT ![p] = current[p]]
  /\ dns' = [dns EXCEPT ![p] = IF DnsEnabled THEN current[p] ELSE @]
  /\ Goto(p, "recv")
  /\ UNCHANGED <<conn, linkVars>>

\* Mutant of RegisterFailed: routes.clear() is missing.
RegisterFailedKeepRoutes(p) ==
  /\ pc[p] = "reconcile"
  /\ FinishRollback(p)
  /\ Goto(p, "changed")
  /\ UNCHANGED <<routes, conn, dns, linkVars>>

\* reconcile() returns Err: the session forgets its routes, and nothing else.
RegisterFailed(p) ==
  /\ pc[p] = "reconcile"
  /\ FinishRollback(p)
  /\ routes' = [routes EXCEPT ![p] = {}]
  /\ Goto(p, "changed")
  /\ UNCHANGED <<conn, dns, linkVars>>

\* Mutant of RecvEnded: the routes are not parked.
RecvEndedNoPark(p) ==
  /\ pc[p] = "recv" /\ (~Serving(p) \/ ~tun_up)
  /\ Goto(p, "changed")
  /\ UNCHANGED <<relayVars, routes, conn, dns, linkVars>>

\* recv_loop() returns an error once the connection is closed, or when a packet
\* arrives and the channel to the TUN device is closed.
RecvEnded(p) ==
  /\ pc[p] = "recv" /\ (~Serving(p) \/ ~tun_up)
  /\ ParkRoutes(p)
  /\ Goto(p, "changed")
  /\ UNCHANGED <<routes, conn, dns, linkVars>>

-----------------------------------------------------------------------------

\* What the session does when its link or its connection wakes it.
SessionStep(p) ==
  \/ SeeConnection(p) \/ SeeDisconnect(p) \/ SeeEnd(p) \/ RecvEnded(p)

\* The relay's work on the session's call.
RelayStep(p) ==
  \/ Withdrawn(p) \/ Registered(p) \/ RegisterFailed(p)
  \/ /\ \/ StartRemove(p) \/ FinishDrop(p) \/ StartInsert(p)
        \/ \E ip \in Ips : InsertReply(p, ip) \/ InsertFailed(p, ip)
     /\ UNCHANGED <<sessionVars, linkVars>>

Handshake(p) == HandshakeErr(p) \/ \E adv \in SUBSET Addrs[p] : HandshakeOk(p, adv)

Link(p) == LinkUp(p) \/ ConnClosed(p) \/ LinkDown(p) \/ LinkEnd(p)

OsStep(ip) == (OsAdd(ip) \/ OsRemove(ip)) /\ UNCHANGED <<sessionVars, linkVars>>

Next ==
  \/ \E p \in Peers : Link(p) \/ SessionStep(p) \/ Handshake(p) \/ RelayStep(p)
  \/ \E ip \in Ips : OsStep(ip)
  \/ TunFails

Spec == Init /\ [][Next]_vars

\* tokio polls every future that was woken, the OS answers every request, a
\* link notices that its connection is gone, and recv_loop() and a handshake on
\* a closed connection end.  A handshake on an open connection may take for
\* ever (wait_for_direct has no timeout), no packet need arrive after the TUN
\* device failed, and no connection need ever be made.
Fairness ==
  /\ \A p \in Peers : /\ WF_vars(SeeConnection(p) \/ SeeDisconnect(p) \/ SeeEnd(p))
                      /\ WF_vars(~Serving(p) /\ RecvEnded(p))
                      /\ WF_vars(RelayStep(p))
                      /\ WF_vars(LinkDown(p))
                      /\ WF_vars(~Serving(p) /\ HandshakeErr(p))
  /\ \A ip \in Ips : WF_vars(OsStep(ip))

FairSpec == Spec /\ Fairness

-----------------------------------------------------------------------------
(* Properties.                                                             *)

\* A session outside the relay knows exactly the entries it has there: none is
\* forgotten by `routes` (it would never be withdrawn), none is imagined.
RoutesMatchRelay ==
  \A p \in Peers : step[p] = "idle" => Entries \cap Addrs[p] = routes[p]

\* relay.get() hands out a peer's connection only while its session is
\* registering or receiving from that very connection: once the session is back
\* at link.changed(), every entry is parked, on whichever path it got there.
ConnectedMeansServed ==
  \A ip \in Ips, p \in Peers, n \in 1..MaxConn :
    peer_map[ip] = <<p, n>> =>
      conn[p] = n /\ pc[p] \in {"reconcile", "recv"} /\ ip \in Addrs[p]

\* While a session receives, every address of its peer is dispatched to the
\* connection it receives from; no other session parks or removes it.
ServedMeansConnected ==
  \A p \in Peers : pc[p] = "recv" =>
    \A ip \in routes[p] : peer_map[ip] = <<p, conn[p]>> /\ ip \in kernel

\* A session that has ended leaves neither entries, nor a DNS name, nor kernel
\* routes other than those the OS refused to remove.
EndedLeavesNothing ==
  \A p \in Peers : pc[p] = "ended" =>
    /\ Entries \cap Addrs[p] = {}
    /\ dns[p] = {}
    /\ Addrs[p] \cap kernel \subseteq leaked

\* An offline peer keeps its kernel routes: only its own session, in reconcile()
\* or withdraw_routes(), takes one out of the OS table.
OnlyOwnerWithdraws ==
  [][\A p \in Peers : Addrs[p] \cap (kernel \ kernel') # {} =>
       pc[p] \in {"reconcile", "withdraw"}]_vars

\* A name is registered with the addresses the session receives on (PeerNames,
\* when the configuration enables DNS).
NameFollowsRoutes ==
  \A p \in Peers : pc[p] = "recv" /\ DnsEnabled => dns[p] = routes[p]

\* The DNS registry is kept "in sync with this peer's negotiated addresses":
\* outside the relay a session's name resolves only to addresses it has.
DnsInSync == \A p \in Peers : step[p] = "idle" => dns[p] \subseteq routes[p]

\* Addresses for which relay.get() hands out a connection of p that is closed.
DeadEntries(p) ==
  {ip \in Ips : \E n \in 1..MaxConn : peer_map[ip] = <<p, n>> /\ ~(n = latest[p] /\ open[p])}

\* Once a connection is closed, the relay stops handing it out.
DeadConnectionIsDropped == \A p \in Peers : DeadEntries(p) # {} ~> DeadEntries(p) = {}

\* A session whose link has ended and whose connection is closed withdraws its
\* routes and returns.
SessionEnds == \A p \in Peers : ended[p] /\ ~open[p] ~> pc[p] = "ended"

\* The sessions are callers the relay's specification allows: Spec => RelaySpec.
ImplementsRelay == RelaySpec

\* "on every other error it logs, counts, and retries": while the TUN device works,
\* a session does not sit for ever at link.changed() beside a connection that is
\* open.
OpenConnectionIsUsed ==
  \A p \in Peers :
    []<>~(tun_up /\ open[p] /\ ~ended[p] /\ ~fresh[p] /\ pc[p] = "changed")

-----------------------------------------------------------------------------
(* The inductive invariant behind the safety properties, one session at a  *)
(* time: the sessions share the relay but, their addresses being disjoint, *)
(* none touches what another's invariant speaks of.                        *)

\* The session is inside the call that its place says, with its arguments.
CallInv(p) ==
  /\ pc[p] = "withdraw" <=> step[p] \in {"await_remove", "removing"}
  /\ pc[p] = "reconcile" <=> step[p] \in {"await_drop", "dropping", "await_insert",
                                          "inserting", "rolling_back"}
  /\ pc[p] = "withdraw" => stale[p] = routes[p]
  /\ pc[p] = "reconcile" => /\ current[p] \subseteq Addrs[p]
                            /\ stale[p] = routes[p] \ current[p]
                            /\ value[p] = <<p, conn[p]>>

\* Its entries in the relay, by how far the call has got.
EntryInv(p) ==
  LET mine == Entries \cap Addrs[p] IN
  /\ step[p] \in {"idle", "await_remove", "await_drop"} => mine = routes[p]
  /\ step[p] \in {"dropping", "await_insert"} => mine = routes[p] \cap current[p]
  /\ step[p] = "inserting" => mine \subseteq current[p]
  /\ step[p] \in {"removing", "rolling_back"} => mine = {}

\* They are live exactly from its insert() to the end of its recv_loop().
ValueInv(p) ==
  \A ip \in Entries \cap Addrs[p] :
    peer_map[ip] = IF pc[p] = "recv" \/ step[p] = "inserting"
                   THEN <<p, conn[p]>> ELSE Parked

LocalInv(p) ==
  /\ routes[p] \subseteq Addrs[p]
  /\ published[p] => latest[p] # 0
  /\ pc[p] \in {"handshake", "reconcile", "recv"} => conn[p] # 0
  /\ pc[p] = "ended" => routes[p] = {} /\ dns[p] = {}
  /\ pc[p] = "recv" /\ DnsEnabled => dns[p] = routes[p]

SessionInv(p) == CallInv(p) /\ EntryInv(p) /\ ValueInv(p) /\ LocalInv(p)

\* Each session's invariant, the relay's, and that every entry belongs to a
\* session: together they are preserved by every step of the sessions, of the
\* links and of the OS.
SessionsInv ==
  /\ TypeOK
  /\ RelayInv
  /\ \A ip \in Entries : \E p \in Peers : ip \in Addrs[p]
  /\ \A p \in Peers : SessionInv(p)

=============================================================================
