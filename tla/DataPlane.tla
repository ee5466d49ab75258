------------------------------ MODULE DataPlane ------------------------------
(***************************************************************************)
(* The data plane: the read and write tasks of the TUN device and the      *)
(* select! around them (src/src/tun.rs), the loop that dispatches packets  *)
(* (tun_rx_loop in src/src/main.rs), Peer::send_packet and                 *)
(* ConnectedPeer::recv_loop (src/src/peer.rs).  They share two bounded     *)
(* channels, the buffer pool, and the table the relay promises (Dispatch), *)
(* which changes under them.                                               *)
(*                                                                         *)
(* A packet read from TUN carries its pool buffer through the rx channel   *)
(* into the datagram queue of a connection.  What is in the tx channel     *)
(* (ICMP and DNS replies, datagrams received) has memory of its own, and   *)
(* only its amount matters here.                                           *)
(***************************************************************************)
EXTENDS Dispatch, Naturals, Sequences, FiniteSets, SequencesExt

CONSTANTS
  Packets,    \* [dest: Ips or DnsServer or NoDest, family: "v4" or "v6" or "none", ect: BOOLEAN]
  DnsServer,  \* the address of our own resolver
  NoDest,     \* not an IP packet, or one etherparse cannot read
  NoPacket,
  Pool,       \* buffers in the pool
  Cap,        \* capacity of the two channels
  MaxDgram    \* datagrams in the send buffer of a connection

ASSUME DataPlaneAssumption ==
  /\ Pool \in Nat \ {0} /\ Cap \in Nat \ {0} /\ MaxDgram \in Nat \ {0}
  /\ NoPacket \notin Packets

VARIABLES
  tun_up,   \* Tun::control has not returned
  free,     \* buffers in the pool
  reader,   \* rx_task
  pending,  \* the packet it sends
  rxq,      \* the rx channel
  rxloop,   \* tun_rx_loop: "run" or "ended"
  txq,      \* number of packets in the tx channel, those of granted permits included
  waiting,  \* the recv_loops waiting for a permit of the tx channel, in order
  writer,   \* tx_task
  open,     \* connections that are not closed
  dgram,    \* connection -> datagrams in its send buffer
  pump      \* connection -> its recv_loop

readVars == <<free, reader, pending, rxq>>
sendVars == <<txq, waiting, writer>>
connVars == <<open, pump>>
dataVars == <<tun_up, readVars, rxloop, sendVars, connVars, dgram>>

DataTypeOK ==
  /\ tun_up \in BOOLEAN
  /\ free \in Nat
  /\ reader \in {"pop", "read", "send", "gone"}
  /\ pending \in Packets \cup {NoPacket}
  /\ rxq \in Seq(Packets) /\ Len(rxq) <= Cap
  /\ rxloop \in {"run", "ended"}
  /\ txq \in 0..Cap
  /\ waiting \in Seq(Values)
  /\ writer \in {"recv", "write", "gone"}
  /\ open \in SUBSET Values
  /\ dgram \in [Values -> 0..MaxDgram]
  /\ pump \in [Values -> {"off", "read", "send", "ended"}]

DataInit ==
  /\ Init
  /\ tun_up = TRUE /\ free = Pool /\ reader = "pop" /\ pending = NoPacket
  /\ rxq = <<>> /\ rxloop = "run"
  /\ txq = 0 /\ waiting = <<>> /\ writer = "recv"
  /\ open = Values
  /\ dgram = [v \in Values |-> 0]
  /\ pump = [v \in Values |-> "off"]

-----------------------------------------------------------------------------
(* Tun::control                                                            *)

\* Mutant of ControlReturns: the other task goes on, as with join!.
ControlReturnsOne ==
  /\ reader' = IF reader = "read" THEN "gone" ELSE reader
  /\ writer' = IF writer = "write" THEN "gone" ELSE writer
  /\ tun_up' = FALSE
  /\ UNCHANGED <<free, pending, txq, waiting>>

\* select! drops both tasks with what they own: the pool, the sender of the rx
\* channel, the receiver of the tx channel and the packets in it.
ControlReturns ==
  /\ tun_up' = FALSE
  /\ reader' = "gone" /\ writer' = "gone"
  /\ txq' = 0 /\ waiting' = <<>>
  /\ UNCHANGED <<free, pending>>

\* What the device answers a read or a write with: one error number for those that
\* are retried, and one for all others.
is_tun_transient(result) == result = "EAGAIN"

\* A short write is an error without a number, so it is never transient.
write_frame == {"Ok", "EAGAIN", "EIO", "short"}

\* buffer_pool.pop(): waits while every buffer is in use.
PopBuffer ==
  /\ reader = "pop" /\ free > 0
  /\ free' = free - 1
  /\ reader' = "read"
  /\ UNCHANGED <<tun_up, pending, rxq, rxloop, sendVars, connVars, dgram>>

\* read_frame(dev): a packet; an empty frame or a transient error, after which the
\* buffer is dropped; any other error.
ReadFrame ==
  /\ reader = "read"
  /\ \/ /\ pending' \in Packets
        /\ reader' = "send"
        /\ UNCHANGED <<tun_up, free, sendVars>>
     \/ \E result \in {"empty", "EAGAIN", "EIO"} :
          IF result = "empty" \/ is_tun_transient(result)
          THEN /\ reader' = "pop"
               /\ free' = free + 1
               /\ UNCHANGED <<tun_up, pending, sendVars>>
          ELSE ControlReturns
  /\ UNCHANGED <<rxq, rxloop, connVars, dgram>>

\* rx_packet.send(): waits while the channel is full.
SendRx ==
  /\ reader = "send" /\ Len(rxq) < Cap
  /\ rxq' = Append(rxq, pending)
  /\ pending' = NoPacket
  /\ reader' = "pop"
  /\ UNCHANGED <<tun_up, free, rxloop, sendVars, connVars, dgram>>

\* Mutant of RecvTx: the permit is released and not handed to a waiting sender.
RecvTxUnfair ==
  /\ writer = "recv" /\ txq > 0
  /\ writer' = "write"
  /\ txq' = txq - 1
  /\ UNCHANGED <<tun_up, readVars, rxloop, waiting, connVars, dgram>>

\* tx_packet.recv(): a slot is free, and goes to the sender that has waited longest.
RecvTx ==
  /\ writer = "recv" /\ txq > 0
  /\ writer' = "write"
  /\ IF waiting = <<>>
     THEN /\ txq' = txq - 1
          /\ UNCHANGED <<waiting, pump>>
     ELSE /\ waiting' = Tail(waiting)
          /\ pump' = [pump EXCEPT ![Head(waiting)] = "read"]
          /\ UNCHANGED txq
  /\ UNCHANGED <<tun_up, readVars, rxloop, open, dgram>>

\* write_frame(): written, or lost to a transient error; any other error ends the
\* task.
WriteFrame ==
  /\ writer = "write"
  /\ \E result \in write_frame :
       IF result = "Ok" \/ is_tun_transient(result)
       THEN writer' = "recv" /\ UNCHANGED <<tun_up, readVars, txq, waiting>>
       ELSE ControlReturns /\ UNCHANGED rxq
  /\ UNCHANGED <<rxloop, connVars, dgram>>

-----------------------------------------------------------------------------
(* Peer::send_packet, inside tun_rx_loop: what happens to the packet, the  *)
(* reply, and the pool buffers that are released.                          *)

\* IcmpGateway::from_addr: the gateway has an address of one family only, that of our
\* own VPN address.
GatewayFamily == "v6"

\* IcmpGateway::generate_reply needs an address of the packet's family.
CanReply(packet) == packet.family = GatewayFamily

IcmpReply(packet, type) == IF CanReply(packet) THEN type ELSE "none"

\* tun_rx_loop sends the reply with try_send: it is lost when the tx channel is full
\* or closed, and the loop never waits for that channel.
TrySend(reply) ==
  txq' = IF reply # "none" /\ tun_up /\ txq < Cap THEN txq + 1 ELSE txq

Release(n) == free' = IF tun_up THEN free + n ELSE free

\* linear_aqm: up to the threshold of 1/2 never, at a full buffer always, between
\* them at random.
MaySignal(v) == 2 * dgram[v] > MaxDgram
MayPass(v)   == dgram[v] < MaxDgram

\* Mutant of TooBig: the reply keeps the packet it answers.
TooBigLeak(packet) ==
  /\ TrySend(IcmpReply(packet, "packet_too_big"))
  /\ Release(0)
  /\ UNCHANGED dgram

\* Over the MTU: a reply that says so, and the packet is dropped.
TooBig(packet) ==
  /\ TrySend(IcmpReply(packet, "packet_too_big"))
  /\ Release(1)
  /\ UNCHANGED dgram

\* Mutant of Congested: the buffer is not given back.
CongestedLeak(v, packet) ==
  /\ MaySignal(v) /\ ~packet.ect
  /\ TrySend("none")
  /\ UNCHANGED <<dgram, free>>

\* The AQM signals congestion, and the packet cannot be marked.
Congested(v, packet) ==
  /\ MaySignal(v) /\ ~packet.ect
  /\ TrySend("none")
  /\ Release(1)
  /\ UNCHANGED dgram

\* send_datagram(): refused by a closed connection; a full buffer loses its
\* oldest datagram.
SendDatagram(v, packet) ==
  /\ MayPass(v) \/ packet.ect
  /\ \/ /\ v \notin open
        /\ TrySend("none")
        /\ Release(1)
        /\ UNCHANGED dgram
     \/ /\ v \in open
        /\ TrySend("none")
        /\ IF dgram[v] < MaxDgram
           THEN dgram' = [dgram EXCEPT ![v] = @ + 1] /\ Release(0)
           ELSE UNCHANGED dgram /\ Release(1)

SendPacket(v, packet) ==
  TooBig(packet) \/ Congested(v, packet) \/ SendDatagram(v, packet)

\* The replies of tun_rx_loop itself.
Answer(packet, reply) ==
  /\ TrySend(reply)
  /\ Release(1)
  /\ UNCHANGED dgram

\* inet_slice, destination_ip: nothing but IPv4 and IPv6 packets has one.
destination_ip(packet) == IF packet.family \in {"v4", "v6"} THEN packet.dest ELSE NoDest

\* Relay::get.
Get(dest) == IF dest \in Ips THEN table[dest] ELSE NoEntry

Dispatched(packet) ==
  IF destination_ip(packet) = DnsServer
  THEN \E reply \in {"dns", "none"} : Answer(packet, reply)
  ELSE LET entry == Get(destination_ip(packet)) IN
       CASE entry = NoEntry -> Answer(packet, IcmpReply(packet, "unreachable_net"))
         [] entry = Parked  -> Answer(packet, IcmpReply(packet, "unreachable_host"))
         [] OTHER           -> SendPacket(entry, packet)

\* One turn of tun_rx_loop.
HandlePacket ==
  /\ rxloop = "run" /\ rxq # <<>>
  /\ rxq' = Tail(rxq)
  /\ Dispatched(Head(rxq))
  /\ UNCHANGED <<tun_up, reader, pending, rxloop, waiting, writer, connVars>>

\* recv() returns None: the sender is gone and the channel is empty.
RxLoopEnds ==
  /\ rxloop = "run" /\ rxq = <<>> /\ reader = "gone"
  /\ rxloop' = "ended"
  /\ UNCHANGED <<tun_up, readVars, sendVars, connVars, dgram>>

-----------------------------------------------------------------------------
(* Connections.                                                            *)

\* The session of a connection it has registered enters recv_loop.
StartPump(v) ==
  /\ pump[v] = "off" /\ v \in Range(table)
  /\ pump' = [pump EXCEPT ![v] = "read"]
  /\ UNCHANGED <<tun_up, readVars, rxloop, sendVars, open, dgram>>

\* read_datagram() returns one; tx_packet.send() takes it, waits in line, or finds
\* the channel closed.
PumpDatagram(v) ==
  /\ pump[v] = "read" /\ v \in open
  /\ \/ /\ tun_up /\ txq < Cap
        /\ txq' = txq + 1
        /\ UNCHANGED <<waiting, pump>>
     \/ /\ tun_up /\ txq = Cap
        /\ waiting' = Append(waiting, v)
        /\ pump' = [pump EXCEPT ![v] = "send"]
        /\ UNCHANGED txq
     \/ /\ ~tun_up
        /\ pump' = [pump EXCEPT ![v] = "ended"]
        /\ UNCHANGED <<txq, waiting>>
  /\ UNCHANGED <<tun_up, readVars, rxloop, writer, open, dgram>>

\* read_datagram() fails on a closed connection, a waiting send() on a channel that
\* has been closed.
PumpEnds(v) ==
  /\ \/ pump[v] = "read" /\ v \notin open
     \/ pump[v] = "send" /\ ~tun_up
  /\ pump' = [pump EXCEPT ![v] = "ended"]
  /\ UNCHANGED <<tun_up, readVars, rxloop, sendVars, open, dgram>>

\* The transport sends a datagram and drops its buffer.
Transmit(v) ==
  /\ dgram[v] > 0
  /\ dgram' = [dgram EXCEPT ![v] = @ - 1]
  /\ Release(1)
  /\ UNCHANGED <<tun_up, reader, pending, rxq, rxloop, sendVars, connVars>>

\* A connection is closed: its send buffer is dropped.
Close(v) ==
  /\ v \in open
  /\ open' = open \ {v}
  /\ dgram' = [dgram EXCEPT ![v] = 0]
  /\ Release(dgram[v])
  /\ UNCHANGED <<tun_up, reader, pending, rxq, rxloop, sendVars, pump>>

-----------------------------------------------------------------------------

Tun     == PopBuffer \/ ReadFrame \/ SendRx \/ RecvTx \/ WriteFrame
RxLoop  == HandlePacket \/ RxLoopEnds
Conn(v) == StartPump(v) \/ PumpDatagram(v) \/ PumpEnds(v) \/ Transmit(v) \/ Close(v)

DataNext ==
  \/ (Tun \/ RxLoop \/ \E v \in Values : Conn(v)) /\ UNCHANGED vars
  \/ Next /\ UNCHANGED dataVars

allVars == <<vars, dataVars>>

DataSpec == DataInit /\ [][DataNext]_allVars

\* The transport sends what is queued, or the connection is given up.
Drain(v) == dgram[v] > 0 /\ (Transmit(v) \/ Close(v))

\* The tasks are polled when woken, the device takes packets, a failed recv_loop
\* returns.  No packet need ever arrive.
DataFairness ==
  /\ WF_allVars((PopBuffer \/ SendRx) /\ UNCHANGED vars)
  /\ WF_allVars((RecvTx \/ WriteFrame) /\ UNCHANGED vars)
  /\ WF_allVars(RxLoop /\ UNCHANGED vars)
  /\ \A v \in Values : /\ WF_allVars(Drain(v) /\ UNCHANGED vars)
                       /\ WF_allVars(PumpEnds(v) /\ UNCHANGED vars)

FairDataSpec == DataSpec /\ DataFairness

-----------------------------------------------------------------------------
(* Properties.                                                             *)

\* The datagrams in the send buffers, each a connection and a position.
Datagrams(buffers) ==
  {d \in Values \X (1..MaxDgram) : d[2] <= buffers[d[1]]}

\* While the device is up every pool buffer is in the pool, with rx_task, in the rx
\* channel or in a send buffer: no path of tun_rx_loop or send_packet loses or
\* duplicates one.
BuffersConserved ==
  tun_up => free + (IF reader \in {"read", "send"} THEN 1 ELSE 0) + Len(rxq)
              + Cardinality(Datagrams(dgram))
            = Pool

\* A sender waits for the tx channel only while it is full, and every waiting
\* recv_loop is in line exactly once: none waits without a wakeup to come.
WaitersInLine ==
  /\ waiting # <<>> => txq = Cap
  /\ tun_up => {v \in Values : pump[v] = "send"} = Range(waiting)
  /\ IsInjective(waiting)

\* The inductive invariant behind it: when the device is gone nobody is in line, and
\* a packet waits to be sent only where rx_task says so.
LineInv ==
  /\ DataTypeOK
  /\ WaitersInLine
  /\ reader = "send" => pending \in Packets
  /\ ~tun_up => waiting = <<>> /\ reader = "gone" /\ writer = "gone"

\* The inductive invariant behind BuffersConserved: what Relay::get returns is a
\* connection that has a send buffer, and finitely many datagrams are queued.
BufferInv ==
  /\ LineInv
  /\ table \in [Ips -> Values \cup {NoEntry, Parked}]
  /\ IsFiniteSet(Datagrams(dgram))
  /\ BuffersConserved

\* rx_task does not wait for a buffer for ever, however slow the connections.
ReaderServed == reader = "pop" ~> reader # "pop"

\* Nor does a recv_loop wait for ever for room in the tx channel.
SendersServed == \A v \in Values : pump[v] = "send" ~> pump[v] # "send"

\* A fatal error of either TUN task ends tun_rx_loop, once it has dealt with the
\* packets already read, and every recv_loop that has a packet for the device.
TunFailureEndsAll ==
  ~tun_up ~> rxloop = "ended" /\ \A v \in Values : pump[v] # "send"
=============================================================================
