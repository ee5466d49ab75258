-------------------------------- MODULE Ecn ---------------------------------
(***************************************************************************)
(* Congestion signalling (src/src/route/ecn.rs): one packet that passes    *)
(* several congested queues of the VPN on its way, each of which may mark  *)
(* or drop it.  Ratios are in units of 1/One; a header is its version, its *)
(* ECN field, the bytes of the header that are not ECN, and its checksum.  *)
(***************************************************************************)
EXTENDS Integers, FiniteSets

CONSTANTS
  One,        \* the ratio 1.0
  Threshold,  \* ECN_THRESHOLD
  Rest,       \* values of the other header bytes
  SumMod      \* modulus of the header checksum

ASSUME EcnAssumption ==
  /\ One \in Nat /\ Threshold \in 0..(One - 1)
  /\ Rest \in (SUBSET Nat) \ {{}} /\ SumMod \in Nat \ {0}

NotEct == 0
Ect1 == 1
Ect0 == 2
CongestionExperienced == 3

VARIABLES
  sent,    \* the packet as the host sent it
  packet,  \* the buffer, now
  action,  \* what the last queue did with it
  fill     \* the fill ratio of that queue

ecnVars == <<sent, packet, action, fill>>

Packets == [version : {"v4", "v6", "malformed"}, ecn : 0..3, rest : Rest,
            checksum : 0..(SumMod - 1)]

EcnTypeOK ==
  /\ {sent, packet} \subseteq Packets
  /\ action \in {"Forward", "Drop"} /\ fill \in 0..One

calc_header_checksum(p) ==
  IF p.version = "v4" THEN (SumMod - 1) - ((p.ecn + p.rest) % SumMod) ELSE 0

\* IPv6 headers have no checksum; the host sends what it has computed.
EcnInit ==
  /\ sent \in {p \in Packets : p.checksum = calc_header_checksum(p)}
  /\ packet = sent /\ action = "Forward" /\ fill = 0

\* Mutant of linear_aqm: the comparison is turned round.
linear_aqm_down(r, f) == f < Threshold \/ (f - Threshold) * One >= r * (One - Threshold)

\* TRUE iff the packet should be queued; r is a random number below One.
linear_aqm(r, f) == f < Threshold \/ (f - Threshold) * One <= r * (One - Threshold)

\* The header with the ECN field set, committed back to the buffer.
Mark(p) ==
  LET marked == [p EXCEPT !.ecn = CongestionExperienced]
  IN  [marked EXCEPT !.checksum = calc_header_checksum(marked)]

\* Mutant of process_packet_congestion: CE is taken for Not-ECT.
ProcessDropsMarked(p) ==
  IF p.version # "malformed" /\ p.ecn \in {Ect0, Ect1}
  THEN /\ packet' = Mark(p) /\ action' = "Forward"
  ELSE /\ packet' = p /\ action' = "Drop"

process_packet_congestion(p) ==
  \/ /\ p.version # "malformed" /\ p.ecn \in {Ect0, Ect1}
     /\ packet' = Mark(p) /\ action' = "Forward"
  \/ /\ p.version # "malformed" /\ p.ecn = CongestionExperienced
     /\ packet' = p /\ action' = "Forward"
  \/ /\ p.version = "malformed" \/ p.ecn = NotEct
     /\ packet' = p /\ action' = "Drop"

\* One queue: ConnectedPeer::send_packet from the fullness to the decision.
Queue(f, r) ==
  /\ action = "Forward" /\ fill' = f
  /\ \/ /\ linear_aqm(r, f)
        /\ UNCHANGED <<packet, action>>
     \/ /\ ~linear_aqm(r, f)
        /\ process_packet_congestion(packet)
  /\ UNCHANGED sent

EcnNext == \E f \in 0..One, r \in 0..(One - 1) : Queue(f, r)

EcnSpec == EcnInit /\ [][EcnNext]_ecnVars
-----------------------------------------------------------------------------
\* However many queues a packet has passed, it carries congestion in the way its
\* endpoints understand: an ECN-capable one is never dropped, even when an earlier
\* queue has marked it; one of a legacy endpoint is never changed; and what was
\* changed is the ECN field, to CE, with the checksum of the header right again
\* (process_packet_congestion rewrites the header in place).
SignalUnderstood ==
  /\ sent.version # "malformed" /\ sent.ecn # NotEct => action = "Forward"
  /\ packet # sent =>
       /\ sent.version # "malformed" /\ sent.ecn \in {Ect0, Ect1}
       /\ packet = [sent EXCEPT !.ecn = CongestionExperienced, !.checksum = packet.checksum]
       /\ packet.checksum = calc_header_checksum(packet)

\* The inductive invariant behind it.
EcnInv == EcnTypeOK /\ SignalUnderstood

\* The fuller the queue, the more random numbers signal ("the more packet will
\* be dropped"): the share of them that does is the share of the way from the
\* threshold to full, to the nearest one above.
DropsLinearly ==
  LET refused == Cardinality({r \in 0..(One - 1) : ~linear_aqm(r, fill)})
      room    == One - Threshold
  IN  IF fill <= Threshold THEN refused = 0
      ELSE /\ refused * room >= (fill - Threshold) * One
           /\ (refused - 1) * room < (fill - Threshold) * One
=============================================================================
