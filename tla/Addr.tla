-------------------------------- MODULE Addr --------------------------------
(***************************************************************************)
(* Addresses derived from signatures (src/src/addr.rs), the range of       *)
(* subnets a configuration may choose (src/src/config.rs), and the test a  *)
(* peer makes of an advertised address (src/src/peer/validate_addr.rs).    *)
(* An address is a number below 2^width; the widths are constants, 128 and *)
(* 32 in the code.  A signature is its key, its message and the bits that  *)
(* entropy is taken from; it verifies only for that key and message.       *)
(***************************************************************************)
EXTENDS Naturals

CONSTANTS
  Width4, Width6,  \* bits of an address; 32 and 128
  PrefixLen,       \* length of VPN_IPV6_PREFIX; 48
  SubnetLen,       \* bits of a subnet ID; 16
  Global,          \* the bits of VPN_IPV6_PREFIX
  Keys             \* key pairs

\* The powers of two.
Pow2[n \in Nat] == IF n = 0 THEN 1 ELSE 2 * Pow2[n - 1]

ASSUME AddrAssumption ==
  /\ {Width4, Width6, PrefixLen, SubnetLen} \subseteq Nat \ {0}
  /\ PrefixLen + SubnetLen < Width6
  /\ Global \in 0..(Pow2[PrefixLen] - 1)

Width(family) == IF family = "v4" THEN Width4 ELSE Width6

IpNets == UNION {[family: {f}, addr: 0..(Pow2[Width(f)] - 1), len: 0..Width(f)] : f \in {"v4", "v6"}}

Net(family, addr, len) == [family |-> family, addr |-> addr, len |-> len]

\* Host part, network part, trunc() and broadcast() of a network.
HostSize(net)  == Pow2[Width(net.family) - net.len]
HostBits(net, bits) == bits % HostSize(net)
NetBits(net)   == net.addr - HostBits(net, net.addr)
Trunc(net)     == [net EXCEPT !.addr = NetBits(net)]
Broadcast(net) == NetBits(net) + HostSize(net) - 1

\* IpNet::contains for a network.
ContainsNet(outer, net) ==
  /\ outer.family = net.family
  /\ NetBits(outer) <= NetBits(net) /\ Broadcast(net) <= Broadcast(outer)

-----------------------------------------------------------------------------

VPN_IPV6_PREFIX == Net("v6", Global * Pow2[Width6 - PrefixLen], PrefixLen)

VPN_IPV6_DEFAULT_ALLOWED == Net("v6", VPN_IPV6_PREFIX.addr, PrefixLen + 1)

\* Mutant of MAX_SUBNET: the reserved bit is not shifted out.
MaxSubnetUnshifted == Pow2[SubnetLen] - 1

\* u16::MAX shifted by the difference of the two lengths.
MAX_SUBNET == (Pow2[SubnetLen] - 1) \div Pow2[VPN_IPV6_DEFAULT_ALLOWED.len - PrefixLen]

vpn_subnet(subnet) ==
  Net("v6", VPN_IPV6_PREFIX.addr + subnet * Pow2[Width6 - PrefixLen - SubnetLen],
      PrefixLen + SubnetLen)

\* Config::try_from refuses a subnet out of range.
SubnetConfigurable(subnet) == subnet <= MAX_SUBNET

-----------------------------------------------------------------------------

\* serialize_network: the length and the address, of either family.
serialize_network(net) == <<net.len, net.family, net.addr>>

Sign(key, message, bits) == [key |-> key, message |-> message, bits |-> bits]

Signed(key, message, signature) == signature.key = key /\ signature.message = message

derive_ipv6(net, entropy) == NetBits(net) + HostBits(net, entropy)

\* The broadcast address has its last bit cleared.
derive_ipv4(net, entropy) ==
  LET bits == NetBits(net) + HostBits(net, entropy) IN
  IF bits = Broadcast(net) THEN bits - (bits % 2) ELSE bits

generate_signed_ip_with_signature(net, signature) ==
  IF net.family = "v4" THEN derive_ipv4(net, signature.bits % Pow2[Width4])
                       ELSE derive_ipv6(net, signature.bits % Pow2[Width6])

\* Mutant of generate_signed_ipnet: the network is signed with its host bits.
generate_signed_ipnet_untruncated(net, key, bits) ==
  LET signature == Sign(key, serialize_network(net), bits) IN
  <<Net(net.family, generate_signed_ip_with_signature(net, signature), net.len), signature>>

generate_signed_ipnet(net, key, bits) ==
  LET signature == Sign(key, serialize_network(Trunc(net)), bits) IN
  <<Net(net.family, generate_signed_ip_with_signature(net, signature), net.len), signature>>

verify_signed_ipnet(net, key, signature) ==
  /\ Signed(key, serialize_network(Trunc(net)), signature)
  /\ net.addr = generate_signed_ip_with_signature(Trunc(net), signature)

\* validate_addresses, for one address: verified, and within an allowed network.
Acceptable(net, key, signature) ==
  verify_signed_ipnet(net, key, signature) /\ ContainsNet(VPN_IPV6_DEFAULT_ALLOWED, net)

-----------------------------------------------------------------------------
(* The inputs: a network and the bits of its signature by a key, and what  *)
(* a peer is told.                                                         *)

VARIABLES
  input,  \* the argument of generate_signed_ipnet
  signer, \* the key that signs
  rnd,    \* the bits of the signature
  claim,  \* the network a peer receives
  pubkey  \* the key of the peer that sent it

addrVars == <<input, signer, rnd, claim, pubkey>>

own == generate_signed_ipnet(input, signer, rnd)[1]
sig == generate_signed_ipnet(input, signer, rnd)[2]

AddrInit ==
  /\ input \in IpNets
  /\ rnd \in 0..(Pow2[Width(input.family)] - 1)
  /\ signer \in Keys
  /\ claim = own /\ pubkey = signer

\* A peer receives another network, or the same from another.
Receive ==
  /\ claim = own /\ pubkey = signer
  /\ claim' \in {n \in IpNets : n.family = input.family}
  /\ pubkey' \in Keys
  /\ UNCHANGED <<input, signer, rnd>>

AddrSpec == AddrInit /\ [][Receive]_addrVars

\* Inputs and claims are addresses.
AddrTypeOK == input \in IpNets /\ claim \in IpNets /\ own \in IpNets

\* The inductive invariant.
AddrInv == AddrTypeOK /\ rnd \in Nat

\* Not the whole of an IPv4 address; the daemon generates IPv6 addresses only.
HasHostBits == input.family = "v4" => input.len < Width4

\* Of all addresses of its family, and all keys, exactly the address a node generates
\* verifies with its signature, under the key of the signer; it is within the network
\* it was generated for, whatever host bits the argument had.
GeneratedAloneVerifies ==
  HasHostBits =>
    /\ ContainsNet(input, own)
    /\ verify_signed_ipnet(claim, pubkey, sig) <=> claim = own /\ pubkey = signer

\* A subnet can be configured exactly if peers accept the address generated for it: the
\* check in Config::try_from and the allowed networks of the peers agree at the boundary.
ConfigurableIsAcceptable ==
  \A subnet \in 0..(Pow2[SubnetLen] - 1) :
    LET mine == generate_signed_ipnet(vpn_subnet(subnet), signer, rnd) IN
    SubnetConfigurable(subnet) <=> Acceptable(mine[1], signer, mine[2])
=============================================================================
