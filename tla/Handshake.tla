------------------------------ MODULE Handshake ------------------------------
(***************************************************************************)
(* The application handshake of two nodes over one QUIC connection:        *)
(* Peer::handshake (src/src/peer.rs), the request/response protocol under  *)
(* it (src/src/proto.rs) and the validation of what was advertised         *)
(* (src/src/peer/validate_addr.rs).                                        *)
(*                                                                         *)
(* Each node opens a stream, sends its request and reads the response,     *)
(* and at the same time accepts the other's stream, handles the request    *)
(* and responds; a deadline is around both.  A stream is named by the node *)
(* that opened it.  A success is the empty response: zero bytes and FIN.   *)
(***************************************************************************)
EXTENDS Naturals, FiniteSets

CONSTANTS
  Nodes,     \* the two nodes
  Requests,  \* node -> the requests it may send: [kind, addrs]
  Allowed    \* allowed_networks: the networks within them

ASSUME HandshakeAssumption ==
  /\ IsFiniteSet(Nodes) /\ Cardinality(Nodes) = 2
  /\ \A n \in Nodes : \A r \in Requests[n] : r.kind \in {"advertise", "other", "malformed"}

Other(n) == CHOOSE m \in Nodes : m # n

VARIABLES
  request,   \* node -> the request it sends; addrs is own_addresses of an Advertise
  phase,     \* node -> where handshake() is
  snd,       \* node -> where its send_advertise() is
  rcv,       \* node -> where its recv_control() is
  transit,   \* node -> how much of the request on its stream has arrived
  resp,      \* node -> the response on its stream
  acked,     \* <<stream, direction>> whose data the receiving side has
  closed,    \* nodes that see the connection closed
  routes,    \* node -> the routes recv_control() returned
  rejected,  \* history: nodes whose advertisement was rejected
  expired    \* history: nodes whose deadline has passed

vars == <<request, phase, snd, rcv, transit, resp, acked, closed, routes,
          rejected, expired>>
wire == <<transit, resp, acked, closed>>

\* write_control: open the stream, wait for its acknowledgement, read the response.
SendSteps == {"open", "written", "reading", "ok", "err"}
\* read_control: accept a stream, read the request, wait for the response's
\* acknowledgement; "none" is Ok(None).
RecvSteps == {"accept", "request", "responded_ok", "responded_none", "ok", "none", "err"}

HandshakeTypeOK ==
  /\ \A n \in Nodes : request[n] \in Requests[n]
  /\ phase \in [Nodes -> {"direct", "exchange", "ok", "failed"}]
  /\ snd \in [Nodes -> SendSteps]
  /\ rcv \in [Nodes -> RecvSteps]
  /\ transit \in [Nodes -> {"none", "some", "all"}]
  /\ resp \in [Nodes -> {"none", "empty"}]
  /\ acked \in SUBSET (Nodes \X {"request", "response"})
  /\ closed \in SUBSET Nodes
  /\ routes \in [Nodes -> SUBSET Allowed]
  /\ rejected \in SUBSET Nodes
  /\ expired \in SUBSET Nodes

HandshakeInit ==
  /\ request \in {f \in [Nodes -> UNION {Requests[n] : n \in Nodes}] :
                    \A n \in Nodes : f[n] \in Requests[n]}
  /\ phase = [n \in Nodes |-> "direct"]
  /\ snd = [n \in Nodes |-> "open"]
  /\ rcv = [n \in Nodes |-> "accept"]
  /\ transit = [n \in Nodes |-> "none"]
  /\ resp = [n \in Nodes |-> "none"]
  /\ acked = {} /\ closed = {}
  /\ routes = [n \in Nodes |-> {}]
  /\ rejected = {} /\ expired = {}

Running(n) == phase[n] = "exchange"
Alive(n)   == Running(n) /\ n \notin closed

-----------------------------------------------------------------------------

\* wait_for_direct() returns, outside the deadline; it fails on a closed connection.
Direct(n) ==
  /\ phase[n] = "direct"
  /\ phase' = [phase EXCEPT ![n] = IF n \in closed THEN "failed" ELSE "exchange"]
  /\ UNCHANGED <<request, snd, rcv, wire, routes, rejected, expired>>

\* write_control: open_bi, write_all, finish.
SendRequest(n) ==
  /\ Alive(n) /\ snd[n] = "open"
  /\ snd' = [snd EXCEPT ![n] = "written"]
  /\ UNCHANGED <<request, phase, rcv, wire, routes, rejected, expired>>

\* stopped(): the whole request is acknowledged.
RequestAcked(n) ==
  /\ Alive(n) /\ snd[n] = "written" /\ <<n, "request">> \in acked
  /\ snd' = [snd EXCEPT ![n] = "reading"]
  /\ UNCHANGED <<request, phase, rcv, wire, routes, rejected, expired>>

\* read_control_stream and control_to_status: an empty response is a success.
ReadResponse(n) ==
  /\ Alive(n) /\ snd[n] = "reading" /\ resp[n] = "empty"
  /\ snd' = [snd EXCEPT ![n] = "ok"]
  /\ UNCHANGED <<request, phase, rcv, wire, routes, rejected, expired>>

\* Mutant of Accept: recv_control() is called when send_advertise() has returned.
AcceptAfterSend(n) ==
  /\ Alive(n) /\ rcv[n] = "accept" /\ snd[n] \in {"ok", "err"}
  /\ transit[Other(n)] # "none"
  /\ rcv' = [rcv EXCEPT ![n] = "request"]
  /\ UNCHANGED <<request, phase, snd, wire, routes, rejected, expired>>

\* read_control: accept_bi returns when the first bytes of the stream arrive.
Accept(n) ==
  /\ Alive(n) /\ rcv[n] = "accept"
  /\ transit[Other(n)] # "none"
  /\ rcv' = [rcv EXCEPT ![n] = "request"]
  /\ UNCHANGED <<request, phase, snd, wire, routes, rejected, expired>>

\* The accepted SendStream goes out of scope: the transport finishes it, and the
\* other side reads a response of zero bytes.
DropStream(n) == resp' = [resp EXCEPT ![Other(n)] = "empty"]

\* Mutant of Validated: the signature is not checked.
ValidatedUnsigned(n, host) == host.net \in Allowed

\* validate_address and is_subnet_of_any: signed by the peer, within an allowed
\* network.
Validated(n, host) == host.signer = Other(n) /\ host.net \in Allowed

\* validate_addresses: what fails either test is left out.
ValidNets(n) == {host.net : host \in {h \in request[Other(n)].addrs : Validated(n, h)}}

\* A request that cannot be decoded: read_control returns without responding.
Malformed(n) ==
  /\ request[Other(n)].kind = "malformed"
  /\ rcv' = [rcv EXCEPT ![n] = "err"]
  /\ DropStream(n)
  /\ UNCHANGED <<closed, routes, rejected>>

\* handle_control_request: nothing to do for another command.
OtherCommand(n) ==
  /\ request[Other(n)].kind = "other"
  /\ rcv' = [rcv EXCEPT ![n] = "responded_none"]
  /\ resp' = [resp EXCEPT ![Other(n)] = "empty"]
  /\ UNCHANGED <<closed, routes, rejected>>

\* Mutant of Reject: an advertisement without a valid address is passed over.
RejectQuietly(n) ==
  /\ request[Other(n)].kind = "advertise" /\ ValidNets(n) = {}
  /\ rcv' = [rcv EXCEPT ![n] = "responded_none"]
  /\ resp' = [resp EXCEPT ![Other(n)] = "empty"]
  /\ UNCHANGED <<closed, routes, rejected>>

\* No address is left: the connection is closed, and the response fails with it.
Reject(n) ==
  /\ request[Other(n)].kind = "advertise" /\ ValidNets(n) = {}
  /\ rcv' = [rcv EXCEPT ![n] = "err"]
  /\ closed' = closed \cup {n}
  /\ rejected' = rejected \cup {Other(n)}
  /\ UNCHANGED <<resp, routes>>

\* Routes to the peer, and an empty response.
AcceptRoutes(n) ==
  /\ request[Other(n)].kind = "advertise" /\ ValidNets(n) # {}
  /\ rcv' = [rcv EXCEPT ![n] = "responded_ok"]
  /\ routes' = [routes EXCEPT ![n] = ValidNets(n)]
  /\ resp' = [resp EXCEPT ![Other(n)] = "empty"]
  /\ UNCHANGED <<closed, rejected>>

\* The whole request has been read: it is handled without a further await.
HandleRequest(n) ==
  /\ Alive(n) /\ rcv[n] = "request" /\ transit[Other(n)] = "all"
  /\ Malformed(n) \/ OtherCommand(n) \/ Reject(n) \/ AcceptRoutes(n)
  /\ UNCHANGED <<request, phase, snd, transit, acked, expired>>

\* stopped() on the response: acknowledged, or the other side has stopped reading.
ResponseAcked(n) ==
  /\ Alive(n) /\ rcv[n] \in {"responded_ok", "responded_none"}
  /\ <<Other(n), "response">> \in acked
  /\ rcv' = [rcv EXCEPT ![n] = IF @ = "responded_ok" THEN "ok" ELSE "none"]
  /\ UNCHANGED <<request, phase, snd, wire, routes, rejected, expired>>

\* Each half fails on a connection seen closed.
SendFails(n) ==
  /\ Running(n) /\ n \in closed /\ snd[n] \notin {"ok", "err"}
  /\ snd' = [snd EXCEPT ![n] = "err"]
  /\ UNCHANGED <<request, phase, rcv, wire, routes, rejected, expired>>

\* Mutant of RecvFails: accept_bi() does not notice.
RecvFailsAccepted(n) ==
  /\ Running(n) /\ n \in closed /\ rcv[n] \notin {"accept", "ok", "none", "err"}
  /\ rcv' = [rcv EXCEPT ![n] = "err"]
  /\ UNCHANGED <<request, phase, snd, wire, routes, rejected, expired>>

RecvFails(n) ==
  /\ Running(n) /\ n \in closed /\ rcv[n] \notin {"ok", "none", "err"}
  /\ rcv' = [rcv EXCEPT ![n] = "err"]
  /\ UNCHANGED <<request, phase, snd, wire, routes, rejected, expired>>

\* Mutant of Joined: the result of send_advertise() is ignored.
JoinedUnchecked(n) ==
  /\ Running(n) /\ snd[n] \in {"ok", "err"} /\ rcv[n] \in {"ok", "none", "err"}
  /\ phase' = [phase EXCEPT ![n] = IF rcv[n] = "ok" THEN "ok" ELSE "failed"]
  /\ UNCHANGED <<request, snd, rcv, wire, routes, rejected, expired>>

\* join!, `send?`, receive, and the check that there are routes.
Joined(n) ==
  /\ Running(n) /\ snd[n] \in {"ok", "err"} /\ rcv[n] \in {"ok", "none", "err"}
  /\ phase' = [phase EXCEPT ![n] = IF snd[n] = "ok" /\ rcv[n] = "ok" THEN "ok" ELSE "failed"]
  /\ UNCHANGED <<request, snd, rcv, wire, routes, rejected, expired>>

\* The streams a node is reading from when its halves are dropped: the transport tells
\* the sender to stop, and its stopped() returns.
Unread(n) ==
  (IF snd[n] \in {"written", "reading"} THEN {<<n, "response">>} ELSE {})
    \cup (IF rcv[n] = "request" THEN {<<Other(n), "request">>} ELSE {})

\* The deadline passes: both halves are dropped with their streams.
Timeout(n) ==
  /\ Running(n)
  /\ phase' = [phase EXCEPT ![n] = "failed"]
  /\ expired' = expired \cup {n}
  /\ IF rcv[n] = "request" /\ n \notin closed THEN DropStream(n) ELSE UNCHANGED resp
  /\ acked' = acked \cup Unread(n)
  /\ UNCHANGED <<request, snd, rcv, transit, closed, routes, rejected>>

Step(n) ==
  \/ SendRequest(n) \/ RequestAcked(n) \/ ReadResponse(n) \/ SendFails(n)
  \/ Accept(n) \/ HandleRequest(n) \/ ResponseAcked(n) \/ RecvFails(n) \/ Joined(n)

-----------------------------------------------------------------------------
(* The transport.                                                          *)

\* The request arrives, in one piece or in two.
Deliver(n) ==
  /\ snd[n] # "open" /\ transit[n] # "all" /\ closed = {}
  /\ \/ transit[n] = "none" /\ transit' = [transit EXCEPT ![n] = "some"]
     \/ transit' = [transit EXCEPT ![n] = "all"]
  /\ UNCHANGED <<request, phase, snd, rcv, resp, acked, closed, routes, rejected, expired>>

\* An acknowledgement arrives.
Acknowledge(n) ==
  /\ closed = {}
  /\ \/ transit[n] = "all" /\ acked' = acked \cup {<<n, "request">>}
     \/ resp[n] = "empty" /\ acked' = acked \cup {<<n, "response">>}
  /\ acked' # acked
  /\ UNCHANGED <<request, phase, snd, rcv, transit, resp, closed, routes, rejected, expired>>

\* The other side's close arrives, or is concluded from its silence.
SeeClose(n) ==
  /\ n \notin closed /\ closed # {}
  /\ closed' = closed \cup {n}
  /\ UNCHANGED <<request, phase, snd, rcv, transit, resp, acked, routes, rejected, expired>>

\* The connection is lost, as one node sees it first.
Lose(n) ==
  /\ closed = {}
  /\ closed' = {n}
  /\ UNCHANGED <<request, phase, snd, rcv, transit, resp, acked, routes, rejected, expired>>

Transport(n) == Deliver(n) \/ Acknowledge(n) \/ SeeClose(n)

-----------------------------------------------------------------------------

HandshakeNext ==
  \E n \in Nodes : Direct(n) \/ Step(n) \/ Timeout(n) \/ Transport(n) \/ Lose(n)

HandshakeSpec == HandshakeInit /\ [][HandshakeNext]_vars

\* Tokio polls what was woken, the transport delivers or reports a closed connection.
\* A direct path need never be found, and no deadline need pass.
HandshakeFairness ==
  \A n \in Nodes : /\ WF_vars(Step(n)) /\ WF_vars(Deliver(n))
                   /\ WF_vars(Acknowledge(n)) /\ WF_vars(SeeClose(n))

FairHandshakeSpec == HandshakeSpec /\ HandshakeFairness

-----------------------------------------------------------------------------
(* Properties.                                                             *)

\* A handshake that succeeds yields at least one route, each an address the peer
\* itself signed and within the allowed networks.
RoutesAreThePeers ==
  \A n \in Nodes : phase[n] = "ok" =>
    /\ routes[n] # {}
    /\ \A net \in routes[n] :
         net \in Allowed /\ \E host \in request[Other(n)].addrs : host.net = net /\ host.signer = Other(n)

\* When one side rejects the other's addresses neither handshake succeeds, whatever
\* the deadlines do ("BOTH sides' handshake() fail here").
RejectionFailsBoth == \A n \in Nodes : n \in rejected => \A m \in Nodes : phase[m] # "ok"

\* Between two nodes that advertise, one handshake succeeds and the other fails only
\* if a deadline passed or the connection was closed.
SplitNeedsExpiry ==
  \A n \in Nodes :
    /\ phase[n] = "ok" /\ phase[Other(n)] = "failed"
    /\ \A m \in Nodes : request[m].kind = "advertise"
    => Other(n) \in expired \/ closed # {}

\* On a closed connection it ends without the help of its deadline ("must fail promptly,
\* not hang until its own timeout").
ClosedEndsHandshake ==
  \A n \in Nodes : n \in closed /\ phase[n] = "exchange" ~> phase[n] \in {"ok", "failed"}

\* Two nodes with acceptable addresses and a direct path both succeed, unless a deadline
\* passes or the connection is closed: the two halves of the two handshakes do not
\* wait for each other in a circle.
BothSucceed ==
  (\A n \in Nodes : phase[n] # "direct" /\ request[n].kind = "advertise" /\ ValidNets(n) # {})
    ~> (\A n \in Nodes : phase[n] = "ok") \/ expired # {} \/ closed # {}

\* "Accept a bidirectional stream, [...] run `f`, and send `f`'s outcome back" (read_control):
\* a node whose advertisement was answered with a success is known to the other.
SuccessMeansHandled == \A n \in Nodes : phase[n] = "ok" => routes[Other(n)] # {}

-----------------------------------------------------------------------------
(* The inductive invariant behind the safety properties.                   *)

\* A handshake succeeds with both halves, its routes are the valid addresses of the
\* advertisement, and a response that was read had been written.
SuccessInv(n) ==
  /\ phase[n] = "ok" => snd[n] = "ok" /\ rcv[n] = "ok"
  /\ rcv[n] \in {"responded_ok", "ok"} =>
       request[Other(n)].kind = "advertise" /\ routes[n] = ValidNets(n) /\ routes[n] # {}
  /\ snd[n] = "ok" => resp[n] = "empty"

\* Nothing is on a stream before its request was handled, unless the handshake of the
\* other side has ended; nor will there be after a rejection.
ResponseInv(n) ==
  /\ phase[n] \in {"direct", "exchange"} /\ rcv[n] \in {"accept", "request"} =>
       resp[Other(n)] = "none"
  /\ Other(n) \in rejected => rcv[n] = "err" /\ n \in closed /\ resp[Other(n)] = "none"

\* Why a half, and why a handshake, has failed.
FailureInv(n) ==
  /\ snd[n] = "err" => closed # {}
  /\ rcv[n] = "err" => closed # {} \/ request[Other(n)].kind = "malformed"
  /\ rcv[n] \in {"responded_none", "none"} => request[Other(n)].kind = "other"
  /\ phase[n] = "failed" =>
       n \in expired \/ closed # {} \/ snd[n] = "err" \/ rcv[n] \in {"none", "err"}

HandshakeInv ==
  HandshakeTypeOK /\ \A n \in Nodes : SuccessInv(n) /\ ResponseInv(n) /\ FailureInv(n)
==============================================================================
