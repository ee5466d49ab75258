--------------------------- MODULE DataPlaneProofs ---------------------------
(***************************************************************************)
(* The line of senders before the tx channel, and where the buffers of the *)
(* pool are, for any connections, packets, capacities and changes of the   *)
(* relay's table.                                                          *)
(***************************************************************************)
EXTENDS DataPlane, FiniteSetTheorems, TLAPS

USE DataPlaneAssumption

-----------------------------------------------------------------------------
(* The line as a sequence without repetition.                              *)

\* The first in line gets the permit (tx_packet.recv).
LEMMA FirstLeaves ==
  ASSUME NEW S, NEW q \in Seq(S), q # <<>>, IsInjective(q)
  PROVE  /\ Tail(q) \in Seq(S) /\ IsInjective(Tail(q)) /\ Head(q) \in S
         /\ Range(Tail(q)) = Range(q) \ {Head(q)}
<1>1. /\ Tail(q) \in Seq(S) /\ Head(q) \in S /\ Head(q) = q[1] /\ Len(q) \in Nat \ {0}
      /\ DOMAIN q = 1..Len(q) /\ DOMAIN Tail(q) = 1..(Len(q) - 1)
      /\ \A i \in 1..(Len(q) - 1) : Tail(q)[i] = q[i + 1]
  OBVIOUS
<1>2. \A i, j \in 1..Len(q) : q[i] = q[j] => i = j
  BY <1>1 DEF IsInjective
<1>3. IsInjective(Tail(q))
  BY <1>1, <1>2 DEF IsInjective
<1>4. Range(Tail(q)) \subseteq Range(q) \ {Head(q)}
  BY <1>1, <1>2 DEF Range
<1>5. ASSUME NEW i \in 1..Len(q), q[i] # Head(q) PROVE q[i] \in Range(Tail(q))
  <2>1. i - 1 \in 1..(Len(q) - 1) /\ Tail(q)[i - 1] = q[i]
    BY <1>1, <1>5
  <2> QED BY <1>1, <2>1 DEF Range
<1>6. Range(q) \ {Head(q)} \subseteq Range(Tail(q))
  BY <1>1, <1>5 DEF Range
<1> QED BY <1>1, <1>3, <1>4, <1>6

\* A sender that finds the channel full joins the end of the line (tx_packet.send).
LEMMA LastJoins ==
  ASSUME NEW S, NEW q \in Seq(S), NEW x \in S, x \notin Range(q), IsInjective(q)
  PROVE  /\ Append(q, x) \in Seq(S) /\ IsInjective(Append(q, x))
         /\ Range(Append(q, x)) = Range(q) \cup {x}
<1>1. /\ Append(q, x) \in Seq(S) /\ Len(q) \in Nat
      /\ DOMAIN q = 1..Len(q) /\ DOMAIN Append(q, x) = 1..(Len(q) + 1)
      /\ \A i \in 1..Len(q) : Append(q, x)[i] = q[i]
      /\ Append(q, x)[Len(q) + 1] = x
      /\ \A i \in 1..(Len(q) + 1) : i \in 1..Len(q) \/ i = Len(q) + 1
  OBVIOUS
<1>2. \A i \in 1..Len(q) : q[i] # x
  BY <1>1 DEF Range
<1>3. IsInjective(Append(q, x))
  BY <1>1, <1>2 DEF IsInjective
<1>4. Range(Append(q, x)) = Range(q) \cup {x}
  BY <1>1 DEF Range
<1> QED BY <1>1, <1>3, <1>4

LEMMA NobodyInLine ==
  <<>> \in Seq(Values) /\ IsInjective(<<>>) /\ Range(<<>>) = {}
  BY DEF IsInjective, Range

-----------------------------------------------------------------------------
(* The steps that leave the line alone.                                    *)

\* The part of the invariant about the line and the channel.
Line ==
  /\ txq \in 0..Cap /\ waiting \in Seq(Values)
  /\ pump \in [Values -> {"off", "read", "send", "ended"}]
  /\ WaitersInLine
  /\ ~tun_up => waiting = <<>>

\* While the device is up nothing may change the line, except that a packet without a
\* permit enters a channel that has room (try_send).
LEMMA LineKept ==
  ASSUME Line, tun_up' = tun_up, waiting' = waiting,
         txq' = txq \/ (txq < Cap /\ txq' = txq + 1),
         pump' \in [Values -> {"off", "read", "send", "ended"}],
         tun_up => {v \in Values : pump'[v] = "send"} = {v \in Values : pump[v] = "send"}
  PROVE  Line'
<1>1. txq' \in 0..Cap /\ (waiting # <<>> => txq' = Cap)
  BY DEF Line, WaitersInLine
<1> QED BY <1>1 DEF Line, WaitersInLine

\* The end of Tun::control empties the line.
LEMMA LineGone ==
  ASSUME Line, ControlReturns, pump' = pump
  PROVE  Line'
  BY NobodyInLine DEF Line, WaitersInLine, ControlReturns

-----------------------------------------------------------------------------
(* The other state.                                                        *)

Rest ==
  /\ tun_up \in BOOLEAN /\ free \in Nat
  /\ reader \in {"pop", "read", "send", "gone"} /\ pending \in Packets \cup {NoPacket}
  /\ rxq \in Seq(Packets) /\ Len(rxq) <= Cap /\ rxloop \in {"run", "ended"}
  /\ writer \in {"recv", "write", "gone"}
  /\ open \in SUBSET Values /\ dgram \in [Values -> 0..MaxDgram]
  /\ reader = "send" => pending \in Packets
  /\ ~tun_up => reader = "gone" /\ writer = "gone"

LEMMA Parts == LineInv <=> Line /\ Rest
  BY DEF LineInv, DataTypeOK, Line, Rest

\* The two TUN tasks.
LEMMA TunInv ==
  ASSUME Line, Rest, Tun
  PROVE  Line' /\ Rest'
<1>1. CASE PopBuffer
  <2>1. Line'
    BY <1>1, LineKept DEF PopBuffer, sendVars, connVars, Line
  <2>2. Rest'
    BY <1>1 DEF PopBuffer, sendVars, connVars, Rest
  <2> QED BY <2>1, <2>2
<1>2. CASE ReadFrame
  <2>1. CASE ControlReturns /\ UNCHANGED <<rxq, rxloop, connVars, dgram>>
    <3>1. Line'
      BY <2>1, LineGone DEF connVars
    <3>2. Rest'
      BY <2>1 DEF ControlReturns, connVars, Rest
    <3> QED BY <3>1, <3>2
  <2>2. CASE /\ UNCHANGED <<tun_up, sendVars, rxq, rxloop, connVars, dgram>>
             /\ reader = "read"
             /\ \/ pending' \in Packets /\ reader' = "send" /\ UNCHANGED free
                \/ reader' = "pop" /\ free' = free + 1 /\ UNCHANGED pending
    <3>1. Line'
      BY <2>2, LineKept DEF sendVars, connVars, Line
    <3>2. Rest'
      BY <2>2 DEF sendVars, connVars, Rest
    <3> QED BY <3>1, <3>2
  <2> QED BY <1>2, <2>1, <2>2 DEF ReadFrame
<1>3. CASE SendRx
  <2>1. Line'
    BY <1>3, LineKept DEF SendRx, sendVars, connVars, Line
  <2>2. Append(rxq, pending) \in Seq(Packets) /\ Len(Append(rxq, pending)) <= Cap
    BY <1>3 DEF SendRx, Rest
  <2>3. Rest'
    BY <1>3, <2>2 DEF SendRx, sendVars, connVars, Rest
  <2> QED BY <2>1, <2>3
<1>4. CASE RecvTx
  <2>1. Rest'
    BY <1>4 DEF RecvTx, readVars, Rest
  <2>2. CASE waiting = <<>>
    BY <1>4, <2>1, <2>2 DEF RecvTx, Line, WaitersInLine
  <2>3. CASE waiting # <<>>
    <3>1. /\ Tail(waiting) \in Seq(Values) /\ IsInjective(Tail(waiting))
          /\ Head(waiting) \in Values
          /\ Range(Tail(waiting)) = Range(waiting) \ {Head(waiting)}
      BY <2>3, FirstLeaves DEF Line, WaitersInLine
    <3>2. /\ waiting' = Tail(waiting) /\ txq' = txq /\ tun_up' = tun_up
          /\ pump' = [pump EXCEPT ![Head(waiting)] = "read"]
      BY <1>4, <2>3 DEF RecvTx
    <3>3. /\ pump' \in [Values -> {"off", "read", "send", "ended"}]
          /\ {v \in Values : pump'[v] = "send"}
               = {v \in Values : pump[v] = "send"} \ {Head(waiting)}
      BY <3>1, <3>2 DEF Line
    <3>4. Line'
      BY <2>3, <3>1, <3>2, <3>3 DEF Line, WaitersInLine
    <3> QED BY <2>1, <3>4
  <2> QED BY <2>2, <2>3
<1>5. CASE WriteFrame
  <2>1. CASE ControlReturns /\ UNCHANGED <<rxq, rxloop, connVars, dgram>>
    <3>1. Line'
      BY <2>1, LineGone DEF connVars
    <3>2. Rest'
      BY <2>1 DEF ControlReturns, connVars, Rest
    <3> QED BY <3>1, <3>2
  <2>2. CASE /\ writer = "write" /\ writer' = "recv"
             /\ UNCHANGED <<tun_up, readVars, txq, waiting, rxloop, connVars, dgram>>
    <3>1. Line'
      BY <2>2, LineKept DEF connVars, Line
    <3>2. Rest'
      BY <2>2 DEF readVars, connVars, Rest
    <3> QED BY <3>1, <3>2
  <2> QED BY <1>5, <2>1, <2>2 DEF WriteFrame
<1> QED BY <1>1, <1>2, <1>3, <1>4, <1>5 DEF Tun

\* tun_rx_loop: whatever becomes of a packet, at most one reply enters the channel.
LEMMA RxLoopInv ==
  ASSUME Line, Rest, RxLoop
  PROVE  Line' /\ Rest'
<1> DEFINE packet == Head(rxq)
           Effect == /\ \E reply : TrySend(reply)
                     /\ free' \in Nat /\ dgram' \in [Values -> 0..MaxDgram]
<1>1. CASE HandlePacket
  <2>1. ASSUME NEW reply, Answer(packet, reply) PROVE Effect
    BY <2>1 DEF Answer, Release, Rest
  <2>2. ASSUME NEW v, SendPacket(v, packet) PROVE Effect
    <3>1. CASE TooBig(packet)
      BY <3>1 DEF TooBig, Release, Rest
    <3>2. CASE Congested(v, packet)
      BY <3>2 DEF Congested, Release, Rest
    <3>3. CASE SendDatagram(v, packet)
      BY <3>3 DEF SendDatagram, Release, Rest
    <3> QED BY <2>2, <3>1, <3>2, <3>3 DEF SendPacket
  <2>3. \/ \E reply : Answer(packet, reply)
        \/ \E v : SendPacket(v, packet)
    <3>1. Dispatched(packet)
      BY <1>1 DEF HandlePacket
    <3>2. CASE destination_ip(packet) = DnsServer
      BY <3>1, <3>2, Zenon DEF Dispatched
    <3>3. CASE destination_ip(packet) # DnsServer
      <4> DEFINE entry == Get(destination_ip(packet))
      <4>1. \/ Answer(packet, IcmpReply(packet, "unreachable_net"))
            \/ Answer(packet, IcmpReply(packet, "unreachable_host"))
            \/ SendPacket(entry, packet)
        BY <3>1, <3>3, Zenon DEF Dispatched
      <4> QED BY <4>1, Zenon
    <3> QED BY <3>2, <3>3
  <2>4. Effect
    BY <2>1, <2>2, <2>3, Zenon
  <2>5. txq' = txq \/ (txq < Cap /\ txq' = txq + 1)
    BY <2>4 DEF TrySend
  <2>6. Line'
    BY <1>1, <2>5, LineKept DEF HandlePacket, connVars, Line
  <2>7. Tail(rxq) \in Seq(Packets) /\ Len(Tail(rxq)) <= Cap
    BY <1>1 DEF HandlePacket, Rest
  <2>8. Rest'
    BY <1>1, <2>4, <2>7 DEF HandlePacket, connVars, Rest
  <2> QED BY <2>6, <2>8
<1>2. CASE RxLoopEnds
  <2>1. Line'
    BY <1>2, LineKept DEF RxLoopEnds, sendVars, connVars, Line
  <2>2. Rest'
    BY <1>2 DEF RxLoopEnds, readVars, sendVars, connVars, Rest
  <2> QED BY <2>1, <2>2
<1> QED BY <1>1, <1>2 DEF RxLoop

\* A connection, its recv_loop and its send buffer.
LEMMA ConnInv ==
  ASSUME Line, Rest, NEW v \in Values, Conn(v)
  PROVE  Line' /\ Rest'
<1>1. CASE StartPump(v)
  <2>1. Line'
    BY <1>1, LineKept DEF StartPump, sendVars, Line
  <2>2. Rest'
    BY <1>1 DEF StartPump, readVars, sendVars, Rest
  <2> QED BY <2>1, <2>2
<1>2. CASE PumpDatagram(v)
  <2>1. Rest'
    BY <1>2 DEF PumpDatagram, readVars, Rest
  <2>2. CASE tun_up /\ txq < Cap /\ txq' = txq + 1 /\ UNCHANGED <<waiting, pump, tun_up>>
    BY <2>1, <2>2, LineKept DEF Line
  <2>3. CASE ~tun_up /\ pump' = [pump EXCEPT ![v] = "ended"] /\ UNCHANGED <<txq, waiting, tun_up>>
    BY <2>1, <2>3, LineKept DEF Line
  <2>4. CASE /\ tun_up /\ txq = Cap /\ waiting' = Append(waiting, v)
             /\ pump' = [pump EXCEPT ![v] = "send"] /\ UNCHANGED <<txq, tun_up>>
    <3>1. v \notin Range(waiting)
      BY <1>2, <2>4 DEF PumpDatagram, Line, WaitersInLine
    <3>2. /\ Append(waiting, v) \in Seq(Values) /\ IsInjective(Append(waiting, v))
          /\ Range(Append(waiting, v)) = Range(waiting) \cup {v}
      BY <3>1, LastJoins DEF Line, WaitersInLine
    <3>3. /\ pump' \in [Values -> {"off", "read", "send", "ended"}]
          /\ {u \in Values : pump'[u] = "send"} = {u \in Values : pump[u] = "send"} \cup {v}
      BY <2>4 DEF Line
    <3>4. Line'
      BY <2>4, <3>2, <3>3 DEF Line, WaitersInLine
    <3> QED BY <2>1, <3>4
  <2> QED BY <1>2, <2>2, <2>3, <2>4 DEF PumpDatagram
<1>3. CASE PumpEnds(v)
  <2>1. Line'
    BY <1>3, LineKept DEF PumpEnds, sendVars, Line
  <2>2. Rest'
    BY <1>3 DEF PumpEnds, readVars, sendVars, Rest
  <2> QED BY <2>1, <2>2
<1>4. CASE Transmit(v)
  <2>1. Line'
    BY <1>4, LineKept DEF Transmit, sendVars, connVars, Line
  <2>2. Rest'
    BY <1>4 DEF Transmit, Release, sendVars, connVars, Rest
  <2> QED BY <2>1, <2>2
<1>5. CASE Close(v)
  <2>1. Line'
    BY <1>5, LineKept DEF Close, sendVars, Line
  <2>2. Rest'
    BY <1>5 DEF Close, Release, sendVars, Rest
  <2> QED BY <2>1, <2>2
<1> QED BY <1>1, <1>2, <1>3, <1>4, <1>5 DEF Conn

-----------------------------------------------------------------------------

\* Every step of the data plane, and every step of the relay under it, keeps the line.
LEMMA LineInvStep == LineInv /\ [DataNext]_allVars => LineInv'
<1> SUFFICES ASSUME Line, Rest, [DataNext]_allVars PROVE Line' /\ Rest'
  BY Zenon DEF LineInv, DataTypeOK, Line, Rest
<1>1. CASE UNCHANGED dataVars
  BY <1>1 DEF dataVars, readVars, sendVars, connVars, Line, Rest, WaitersInLine
<1> QED
  BY <1>1, TunInv, RxLoopInv, ConnInv DEF DataNext, allVars

LEMMA LineInvInit == DataInit => LineInv
<1> SUFFICES ASSUME DataInit PROVE Line /\ Rest
  BY Parts
<1>1. Line
  BY NobodyInLine DEF DataInit, Line, WaitersInLine
<1>2. Rest
  BY DEF DataInit, Rest
<1> QED BY <1>1, <1>2

\* The invariant of the line and the types of the data plane, whatever the relay does
\* to its table meanwhile.
THEOREM DataPlaneInvariant == DataSpec => []LineInv
  BY LineInvInit, LineInvStep, PTL DEF DataSpec

\* Every recv_loop that waits for the tx channel is in line for it, once, and the line
\* is empty unless the channel is full (ConnectedPeer::recv_loop, Tun::control).
THEOREM DataPlaneWaitersInLine == DataSpec => []WaitersInLine
<1>1. LineInv => WaitersInLine
  BY DEF LineInv
<1> QED BY DataPlaneInvariant, <1>1, PTL

-----------------------------------------------------------------------------
(* The datagrams in the send buffers, counted.                             *)

Buffers == [Values -> 0..MaxDgram]

\* send_datagram() on a connection with room.
LEMMA DatagramQueued ==
  ASSUME NEW d \in Buffers, NEW v \in Values, d[v] < MaxDgram, IsFiniteSet(Datagrams(d)),
         NEW e, e = [d EXCEPT ![v] = @ + 1]
  PROVE  /\ IsFiniteSet(Datagrams(e))
         /\ Cardinality(Datagrams(e)) = Cardinality(Datagrams(d)) + 1
<1> DEFINE new == <<v, d[v] + 1>>
<1>1. d[v] + 1 \in 1..MaxDgram
  BY DEF Buffers
<1>2. new \notin Datagrams(d)
  BY <1>1 DEF Datagrams, Buffers
<1>3. Datagrams(e) = Datagrams(d) \cup {new}
  BY <1>1 DEF Datagrams, Buffers
<1> HIDE DEF new
<1>4. /\ IsFiniteSet(Datagrams(d) \cup {new})
      /\ Cardinality(Datagrams(d) \cup {new})
           = IF new \in Datagrams(d) THEN Cardinality(Datagrams(d))
                                     ELSE Cardinality(Datagrams(d)) + 1
  BY FS_AddElement, Zenon
<1> QED BY <1>2, <1>3, <1>4, Zenon

\* The transport sends one.
LEMMA DatagramSent ==
  ASSUME NEW d \in Buffers, NEW v \in Values, d[v] > 0, IsFiniteSet(Datagrams(d)),
         NEW e, e = [d EXCEPT ![v] = @ - 1]
  PROVE  /\ IsFiniteSet(Datagrams(e))
         /\ Cardinality(Datagrams(e)) = Cardinality(Datagrams(d)) - 1
<1> DEFINE old == <<v, d[v]>>
<1>1. old \in Datagrams(d)
  BY DEF Datagrams, Buffers
<1>2. Datagrams(e) = Datagrams(d) \ {old}
  BY DEF Datagrams, Buffers
<1> HIDE DEF old
<1>3. /\ IsFiniteSet(Datagrams(d) \ {old})
      /\ Cardinality(Datagrams(d) \ {old})
           = IF old \in Datagrams(d) THEN Cardinality(Datagrams(d)) - 1
                                     ELSE Cardinality(Datagrams(d))
  BY FS_RemoveElement, Zenon
<1> QED BY <1>1, <1>2, <1>3, Zenon

\* The send buffer of a closed connection is dropped.
LEMMA SendBufferDropped ==
  ASSUME NEW d \in Buffers, NEW v \in Values, IsFiniteSet(Datagrams(d)),
         NEW e, e = [d EXCEPT ![v] = 0]
  PROVE  /\ IsFiniteSet(Datagrams(e))
         /\ Cardinality(Datagrams(e)) = Cardinality(Datagrams(d)) - d[v]
<1> DEFINE mine == {v} \X (1..d[v])
<1>1. d[v] \in Nat
  BY DEF Buffers
<1>2. IsFiniteSet(mine) /\ Cardinality(mine) = d[v]
  <2>1. IsFiniteSet(1..d[v]) /\ Cardinality(1..d[v]) = d[v]
    <3>1. ASSUME NEW k \in Nat PROVE IsFiniteSet(1..k) /\ Cardinality(1..k) = k
      <4>1. /\ IsFiniteSet(1..k)
            /\ Cardinality(1..k) = IF 1 > k THEN 0 ELSE k - 1 + 1
        BY FS_Interval
      <4> QED BY <4>1
    <3> QED BY <1>1, <3>1
  <2>2. IsFiniteSet({v}) /\ Cardinality({v}) = 1
    BY FS_Singleton
  <2>3. IsFiniteSet(mine) /\ Cardinality(mine) = 1 * d[v]
    BY <2>1, <2>2, FS_Product
  <2> QED BY <1>1, <2>3
<1>3. Datagrams(e) = Datagrams(d) \ mine
  BY DEF Datagrams, Buffers
<1>4. Datagrams(d) \cap mine = mine
  BY DEF Datagrams, Buffers
<1> HIDE DEF mine
<1>5. /\ IsFiniteSet(Datagrams(d) \ mine)
      /\ Cardinality(Datagrams(d) \ mine)
           = Cardinality(Datagrams(d)) - Cardinality(Datagrams(d) \cap mine)
  BY FS_Difference, Zenon
<1> QED BY <1>2, <1>3, <1>4, <1>5, Zenon

LEMMA NothingQueued ==
  Datagrams([v \in Values |-> 0]) = {}
  BY DEF Datagrams

-----------------------------------------------------------------------------
(* Where the buffer of a packet goes.                                      *)

\* The step puts a buffer into the pool or into a send buffer, while the device is up.
BufferSettled ==
  /\ IsFiniteSet(Datagrams(dgram'))
  /\ tun_up => \/ /\ free' = free + 1
                  /\ Cardinality(Datagrams(dgram')) = Cardinality(Datagrams(dgram))
               \/ /\ free' = free
                  /\ Cardinality(Datagrams(dgram')) = Cardinality(Datagrams(dgram)) + 1

\* A packet that is dropped or answered gives its buffer back.
LEMMA ReleaseSettles ==
  ASSUME BufferInv, Release(1), dgram' = dgram
  PROVE  BufferSettled
  BY DEF BufferInv, BufferSettled, Release

\* Whatever becomes of a packet in Peer::send_packet, its buffer is accounted for.
LEMMA SendPacketSettles ==
  ASSUME BufferInv, NEW v \in Values, NEW packet, SendPacket(v, packet)
  PROVE  BufferSettled
<1>1. CASE TooBig(packet)
  BY <1>1, ReleaseSettles DEF TooBig
<1>2. CASE Congested(v, packet)
  BY <1>2, ReleaseSettles DEF Congested
<1>3. CASE SendDatagram(v, packet)
  <2>1. CASE Release(1) /\ UNCHANGED dgram
    BY <2>1, ReleaseSettles
  <2>2. CASE dgram[v] < MaxDgram /\ dgram' = [dgram EXCEPT ![v] = @ + 1] /\ Release(0)
    <3>1. free \in Nat /\ dgram \in Buffers /\ IsFiniteSet(Datagrams(dgram))
      BY DEF BufferInv, LineInv, DataTypeOK, Buffers
    <3>2. free' = free
      BY <2>2, <3>1 DEF Release
    <3>3. /\ IsFiniteSet(Datagrams(dgram'))
          /\ Cardinality(Datagrams(dgram')) = Cardinality(Datagrams(dgram)) + 1
      BY <2>2, <3>1, DatagramQueued
    <3> QED BY <3>2, <3>3 DEF BufferSettled
  <2> QED BY <1>3, <2>1, <2>2 DEF SendDatagram
<1> QED BY <1>1, <1>2, <1>3 DEF SendPacket

\* So is the buffer of any packet in tun_rx_loop: what Relay::get finds is a connection
\* with a send buffer, or the packet is answered.
LEMMA DispatchedSettles ==
  ASSUME BufferInv, NEW packet, Dispatched(packet)
  PROVE  BufferSettled
<1>1. ASSUME NEW reply, Answer(packet, reply) PROVE BufferSettled
  BY <1>1, ReleaseSettles DEF Answer
<1>2. CASE destination_ip(packet) = DnsServer
  BY <1>1, <1>2, Zenon DEF Dispatched
<1>3. CASE destination_ip(packet) # DnsServer
  <2> DEFINE entry == Get(destination_ip(packet))
  <2>1. entry \in Values \cup {NoEntry, Parked}
    BY DEF Get, BufferInv
  <2>2. \/ Answer(packet, IcmpReply(packet, "unreachable_net"))
        \/ Answer(packet, IcmpReply(packet, "unreachable_host"))
        \/ entry \notin {NoEntry, Parked} /\ SendPacket(entry, packet)
    BY <1>3, Zenon DEF Dispatched
  <2> HIDE DEF entry
  <2> QED BY <1>1, <2>1, <2>2, SendPacketSettles
<1> QED BY <1>2, <1>3

-----------------------------------------------------------------------------
(* The buffers through the steps.                                          *)

Counted ==
  /\ IsFiniteSet(Datagrams(dgram))
  /\ BuffersConserved

\* rx_task takes a buffer, gives it back, or hands it on with the packet.
LEMMA TunCounts ==
  ASSUME BufferInv, Tun
  PROVE  Counted'
<1>1. /\ free \in Nat /\ Len(rxq) \in Nat /\ rxq \in Seq(Packets) /\ Counted
      /\ reader \in {"pop", "read", "send", "gone"}
      /\ (reader = "send" => pending \in Packets)
      /\ Cardinality(Datagrams(dgram)) \in Nat
  BY FS_CardinalityType DEF BufferInv, LineInv, DataTypeOK, Counted
<1>2. dgram' = dgram
  BY DEF Tun, PopBuffer, ReadFrame, SendRx, RecvTx, WriteFrame
<1>3. IsFiniteSet(Datagrams(dgram'))
  BY <1>1, <1>2 DEF Counted
<1>4. CASE ControlReturns
  BY <1>3, <1>4 DEF ControlReturns, Counted, BuffersConserved
<1>5. CASE /\ UNCHANGED <<tun_up, rxq>>
           /\ \/ reader = "pop" /\ reader' = "read" /\ free' = free - 1
              \/ reader = "read" /\ reader' = "send" /\ free' = free
              \/ reader = "read" /\ reader' = "pop" /\ free' = free + 1
              \/ UNCHANGED <<reader, free>>
  BY <1>1, <1>2, <1>3, <1>5 DEF Counted, BuffersConserved
<1>6. CASE SendRx
  <2>1. Len(Append(rxq, pending)) = Len(rxq) + 1
    BY <1>1, <1>6 DEF SendRx
  <2>2. /\ UNCHANGED <<tun_up, free>> /\ reader = "send" /\ reader' = "pop"
        /\ Len(rxq') = Len(rxq) + 1
    BY <1>6, <2>1 DEF SendRx
  <2> QED BY <1>1, <1>2, <1>3, <2>2 DEF Counted, BuffersConserved
<1>7. CASE PopBuffer
  BY <1>5, <1>7 DEF PopBuffer
<1>8. CASE ReadFrame
  BY <1>4, <1>5, <1>8 DEF ReadFrame
<1>9. CASE RecvTx
  BY <1>5, <1>9 DEF RecvTx, readVars
<1>10. CASE WriteFrame
  BY <1>4, <1>5, <1>10 DEF WriteFrame, readVars
<1> QED BY <1>6, <1>7, <1>8, <1>9, <1>10 DEF Tun

\* tun_rx_loop takes a packet from the channel; its buffer goes to the pool or to a
\* send buffer.
LEMMA RxLoopCounts ==
  ASSUME BufferInv, RxLoop
  PROVE  Counted'
<1>1. /\ free \in Nat /\ rxq \in Seq(Packets) /\ Len(rxq) \in Nat /\ Counted
      /\ Cardinality(Datagrams(dgram)) \in Nat
  BY FS_CardinalityType DEF BufferInv, LineInv, DataTypeOK, Counted
<1>2. CASE HandlePacket
  <2>1. BufferSettled
    BY <1>2, DispatchedSettles DEF HandlePacket
  <2>2. UNCHANGED <<tun_up, reader>> /\ Len(rxq') = Len(rxq) - 1
    BY <1>1, <1>2 DEF HandlePacket
  <2> QED BY <1>1, <2>1, <2>2 DEF Counted, BuffersConserved, BufferSettled
<1>3. CASE RxLoopEnds
  BY <1>1, <1>3 DEF RxLoopEnds, readVars, Counted, BuffersConserved
<1> QED BY <1>2, <1>3 DEF RxLoop

\* A connection sends a datagram or drops its send buffer.
LEMMA ConnCounts ==
  ASSUME BufferInv, NEW v \in Values, Conn(v)
  PROVE  Counted'
<1>1. /\ free \in Nat /\ Len(rxq) \in Nat /\ Counted /\ dgram \in Buffers /\ dgram[v] \in Nat
      /\ Cardinality(Datagrams(dgram)) \in Nat
  BY FS_CardinalityType DEF BufferInv, LineInv, DataTypeOK, Counted, Buffers
<1>2. CASE Transmit(v)
  <2>1. /\ IsFiniteSet(Datagrams(dgram'))
        /\ Cardinality(Datagrams(dgram')) = Cardinality(Datagrams(dgram)) - 1
    BY <1>1, <1>2, DatagramSent DEF Transmit, Counted
  <2>2. UNCHANGED <<tun_up, reader, rxq>> /\ (tun_up => free' = free + 1)
    BY <1>2 DEF Transmit, Release
  <2> QED BY <1>1, <2>1, <2>2 DEF Counted, BuffersConserved
<1>3. CASE Close(v)
  <2>1. /\ IsFiniteSet(Datagrams(dgram'))
        /\ Cardinality(Datagrams(dgram')) = Cardinality(Datagrams(dgram)) - dgram[v]
    BY <1>1, <1>3, SendBufferDropped DEF Close, Counted
  <2>2. UNCHANGED <<tun_up, reader, rxq>> /\ (tun_up => free' = free + dgram[v])
    BY <1>3 DEF Close, Release
  <2> QED BY <1>1, <2>1, <2>2 DEF Counted, BuffersConserved
<1>4. CASE StartPump(v) \/ PumpDatagram(v) \/ PumpEnds(v)
  <2>1. UNCHANGED <<tun_up, reader, rxq, free, dgram>>
    BY <1>4 DEF StartPump, PumpDatagram, PumpEnds, readVars
  <2> QED BY <1>1, <2>1 DEF Counted, BuffersConserved
<1> QED BY <1>2, <1>3, <1>4 DEF Conn

\* The relay's table has entries of its types, in whatever order they come and go.
LEMMA TableTyped ==
  ASSUME table \in [Ips -> Values \cup {NoEntry, Parked}], [Next]_vars
  PROVE  table' \in [Ips -> Values \cup {NoEntry, Parked}]
<1>1. ASSUME NEW ips, NEW v \in Values \cup {NoEntry, Parked}, Set(ips, v)
      PROVE  table' \in [Ips -> Values \cup {NoEntry, Parked}]
  BY <1>1 DEF Set
<1>2. CASE UNCHANGED table
  BY <1>2
<1>3. CASE \E ips, v : v \in Values \cup {NoEntry, Parked} /\ Set(ips, v)
  BY <1>1, <1>3
<1>4. UNCHANGED table \/ \E ips, v : v \in Values \cup {NoEntry, Parked} /\ Set(ips, v)
  BY Zenon DEF Next, vars, Route, Unroute, Enter, Rearm, ParkAll, Forget
<1> QED BY <1>2, <1>3, <1>4

\* The invariant of the buffers, whatever the relay does to its table meanwhile.
THEOREM DataPlaneBufferInvariant == DataSpec => []BufferInv
<1>1. DataInit => BufferInv
  <2> SUFFICES ASSUME DataInit PROVE BufferInv
    OBVIOUS
  <2>1. table \in [Ips -> Values \cup {NoEntry, Parked}]
    BY DEF DataInit, Init
  <2>2. Datagrams(dgram) = {}
    BY NothingQueued DEF DataInit
  <2>3. IsFiniteSet(Datagrams(dgram)) /\ Cardinality(Datagrams(dgram)) = 0
    BY <2>2, FS_EmptySet, Zenon
  <2>4. BuffersConserved
    BY <2>3 DEF DataInit, BuffersConserved
  <2> QED BY <2>1, <2>3, <2>4, LineInvInit DEF BufferInv
<1>2. BufferInv /\ [DataNext]_allVars => BufferInv'
  <2> SUFFICES ASSUME BufferInv, [DataNext]_allVars PROVE BufferInv'
    OBVIOUS
  <2>1. LineInv'
    BY LineInvStep DEF BufferInv
  <2>2. table' \in [Ips -> Values \cup {NoEntry, Parked}]
    BY TableTyped DEF BufferInv, DataNext, allVars
  <2>3. Counted'
    <3>1. CASE UNCHANGED dataVars
      BY <3>1 DEF dataVars, readVars, BufferInv, Counted, BuffersConserved
    <3> QED BY <3>1, TunCounts, RxLoopCounts, ConnCounts DEF DataNext, allVars
  <2> QED BY <2>1, <2>2, <2>3 DEF BufferInv, Counted
<1> QED BY <1>1, <1>2, PTL DEF DataSpec

\* While the device is up every buffer of the pool is in the pool, with rx_task, in the
\* rx channel or in a send buffer (Tun::control, tun_rx_loop, Peer::send_packet).
THEOREM DataPlaneBuffersConserved == DataSpec => []BuffersConserved
<1>1. BufferInv => BuffersConserved
  BY DEF BufferInv
<1> QED BY DataPlaneBufferInvariant, <1>1, PTL
=============================================================================
