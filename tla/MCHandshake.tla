----------------------------- MODULE MCHandshake -----------------------------
(* Two nodes for TLC, with valid, unsigned and foreign addresses.           *)
EXTENDS Handshake

CONSTANTS A, B, inside, elsewhere

MCNodes   == {A, B}
MCAllowed == {inside}

Host(net, signer) == [net |-> net, signer |-> signer]

Advertise(addrs) == [kind |-> "advertise", addrs |-> addrs]
Bare(kind)       == [kind |-> kind, addrs |-> {}]

\* A valid address and one out of range; one signed by the other node; other requests.
MCRequests ==
  [n \in MCNodes |->
     {Advertise({Host(inside, n), Host(elsewhere, n)}),
      Advertise({Host(inside, IF n = A THEN B ELSE A)}),
      Bare("other"), Bare("malformed")}]

\* What the daemon advertises.
OwnAddress == [n \in MCNodes |-> {Advertise({Host(inside, n)})}]
==============================================================================
