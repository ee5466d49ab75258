--------------------------- MODULE HandshakeProofs ---------------------------
(***************************************************************************)
(* Proofs for Handshake, for any requests of the two nodes and any allowed *)
(* networks.  A step of one node may change what the invariant says of it  *)
(* and of the other, as the one writes what the other reads.               *)
(***************************************************************************)
EXTENDS Handshake, FiniteSetTheorems, TLAPS

\* There are two nodes.
LEMMA TwoNodes ==
  ASSUME NEW n \in Nodes
  PROVE  /\ Other(n) \in Nodes /\ Other(n) # n /\ Other(Other(n)) = n
         /\ \A m \in Nodes : m = n \/ m = Other(n)
<1>1. \A k \in Nodes : \E m : Nodes \ {k} = {m}
  <2> SUFFICES ASSUME NEW k \in Nodes PROVE \E m : Nodes \ {k} = {m}
    OBVIOUS
  <2>1. IsFiniteSet(Nodes \ {k}) /\ Cardinality(Nodes \ {k}) = 1
    BY HandshakeAssumption, FS_RemoveElement
  <2> QED BY <2>1, FS_Singleton
<1>2. PICK m : Nodes \ {n} = {m}
  BY <1>1
<1>3. Other(n) = m /\ Other(m) = n
  BY <1>2 DEF Other
<1> QED BY <1>2, <1>3

\* The invariant holds of two nodes that have not begun.
LEMMA InitInv == HandshakeInit => HandshakeInv
  BY TwoNodes DEF HandshakeInit, HandshakeInv, HandshakeTypeOK, SuccessInv, ResponseInv,
     FailureInv, SendSteps, RecvSteps

\* wait_for_direct, and the steps of send_advertise().
LEMMA SendInv ==
  ASSUME HandshakeInv, NEW n \in Nodes,
         Direct(n) \/ SendRequest(n) \/ RequestAcked(n) \/ ReadResponse(n) \/ SendFails(n)
  PROVE  HandshakeInv'
<1> USE TwoNodes DEF HandshakeInv, HandshakeTypeOK, SuccessInv, ResponseInv, FailureInv,
        ValidNets, Validated, Running, Alive, wire, SendSteps
<1>1. CASE Direct(n)
  BY <1>1 DEF Direct
<1>2. CASE SendRequest(n) \/ RequestAcked(n)
  BY <1>2 DEF SendRequest, RequestAcked
<1>3. CASE ReadResponse(n)
  BY <1>3 DEF ReadResponse
<1>4. CASE SendFails(n)
  BY <1>4 DEF SendFails
<1> QED BY <1>1, <1>2, <1>3, <1>4

\* The steps of recv_control() around the handling of the request, and the join.
LEMMA RecvInv ==
  ASSUME HandshakeInv, NEW n \in Nodes,
         Accept(n) \/ ResponseAcked(n) \/ RecvFails(n) \/ Joined(n)
  PROVE  HandshakeInv'
<1> USE TwoNodes DEF HandshakeInv, HandshakeTypeOK, SuccessInv, ResponseInv, FailureInv,
        ValidNets, Validated, Running, Alive, wire, RecvSteps
<1>1. CASE Accept(n)
  BY <1>1 DEF Accept
<1>2. CASE ResponseAcked(n)
  BY <1>2 DEF ResponseAcked
<1>3. CASE RecvFails(n)
  BY <1>3 DEF RecvFails
<1>4. CASE Joined(n)
  BY <1>4 DEF Joined
<1> QED BY <1>1, <1>2, <1>3, <1>4

\* The four ways in which a request is handled: only a success and another command
\* write a response, only a rejection closes the connection.
LEMMA HandleInv ==
  ASSUME HandshakeInv, NEW n \in Nodes, HandleRequest(n)
  PROVE  HandshakeInv'
<1> USE TwoNodes DEF HandshakeInv, HandshakeTypeOK, SuccessInv, ResponseInv, FailureInv,
        ValidNets, Validated, Running, Alive, RecvSteps, HandleRequest
<1>1. CASE Malformed(n)
  BY <1>1 DEF Malformed, DropStream
<1>2. CASE OtherCommand(n)
  BY <1>2 DEF OtherCommand
<1>3. CASE Reject(n)
  BY <1>3 DEF Reject
<1>4. CASE AcceptRoutes(n)
  BY <1>4 DEF AcceptRoutes
<1> QED BY <1>1, <1>2, <1>3, <1>4

\* The deadline: the stream that is dropped unhandled ends the other's wait, but not of
\* one that was rejected.
LEMMA TimeoutInv ==
  ASSUME HandshakeInv, NEW n \in Nodes, Timeout(n)
  PROVE  HandshakeInv'
  BY TwoNodes DEF HandshakeInv, HandshakeTypeOK, SuccessInv, ResponseInv, FailureInv,
     ValidNets, Validated, Running, Timeout, DropStream, Unread

\* The transport.
LEMMA TransportInv ==
  ASSUME HandshakeInv, NEW n \in Nodes, Transport(n) \/ Lose(n)
  PROVE  HandshakeInv'
<1> USE TwoNodes DEF HandshakeInv, HandshakeTypeOK, SuccessInv, ResponseInv, FailureInv,
        ValidNets, Validated
<1>1. CASE Deliver(n)
  BY <1>1 DEF Deliver
<1>2. CASE Acknowledge(n)
  BY <1>2 DEF Acknowledge
<1>3. CASE SeeClose(n) \/ Lose(n)
  BY <1>3 DEF SeeClose, Lose
<1> QED BY <1>1, <1>2, <1>3 DEF Transport

\* The invariant holds of every exchange.
THEOREM HandshakeInvariant == HandshakeSpec => []HandshakeInv
<1>1. HandshakeInv /\ [HandshakeNext]_vars => HandshakeInv'
  <2>1. HandshakeInv /\ UNCHANGED vars => HandshakeInv'
    BY DEF vars, HandshakeInv, HandshakeTypeOK, SuccessInv, ResponseInv, FailureInv,
           ValidNets, Validated
  <2>2. ASSUME HandshakeInv, HandshakeNext PROVE HandshakeInv'
    BY <2>2, SendInv, RecvInv, HandleInv, TimeoutInv, TransportInv DEF HandshakeNext, Step
  <2> QED BY <2>1, <2>2
<1> QED BY InitInv, <1>1, PTL DEF HandshakeSpec

\* Routes of a successful handshake are signed by the peer and within the allowed
\* networks (validate_addresses).
THEOREM HandshakeRoutesAreThePeers == HandshakeSpec => []RoutesAreThePeers
<1>1. HandshakeInv => RoutesAreThePeers
  BY DEF HandshakeInv, SuccessInv, RoutesAreThePeers, ValidNets, Validated
<1> QED BY HandshakeInvariant, <1>1, PTL

\* A rejection fails both handshakes (handle_control_request closes the connection, and
\* no response was or will be written).
THEOREM HandshakeRejectionFailsBoth == HandshakeSpec => []RejectionFailsBoth
<1>1. HandshakeInv => RejectionFailsBoth
  <2> SUFFICES ASSUME HandshakeInv, NEW n \in Nodes, n \in rejected, NEW m \in Nodes
               PROVE  phase[m] # "ok"
    BY DEF RejectionFailsBoth
  <2> USE TwoNodes DEF HandshakeInv, SuccessInv, ResponseInv
  <2>1. rcv[Other(n)] = "err" /\ resp[n] = "none"
    OBVIOUS
  <2>2. CASE m = n
    BY <2>1, <2>2
  <2>3. CASE m = Other(n)
    BY <2>1, <2>3
  <2> QED BY <2>2, <2>3
<1> QED BY HandshakeInvariant, <1>1, PTL

\* Two advertising nodes disagree about the outcome only after a deadline or a closed
\* connection (handshake).
THEOREM HandshakeSplitNeedsExpiry == HandshakeSpec => []SplitNeedsExpiry
<1>1. HandshakeInv => SplitNeedsExpiry
  BY TwoNodes DEF HandshakeInv, FailureInv, SplitNeedsExpiry
<1> QED BY HandshakeInvariant, <1>1, PTL
==============================================================================
