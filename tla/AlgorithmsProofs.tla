-------------------------- MODULE AlgorithmsProofs --------------------------
(***************************************************************************)
(* Proofs for Addr, Ecn, Names and Retry, for every value of their         *)
(* constants.                                                              *)
(***************************************************************************)
EXTENDS Integers, Addr, Ecn, Names, Retry, FiniteSetTheorems, SequenceTheorems, TLAPS

(***************************************************************************)
(* Retry: the backoff.                                                     *)
(***************************************************************************)

\* The first attempt.
LEMMA RetryInitially == RetryInit => RetryInv
BY RetryAssumption DEF RetryInit, RetryInv, RetryTypeOK, Results, NotFound

\* An attempt, the match on its answer, a sleep and the time that they take.
LEMMA RetryStep == RetryInv /\ [RetryNext]_retryVars => RetryInv'
<1> USE RetryAssumption DEF RetryInv, RetryTypeOK, Results, NotFound
<1>1. RetryInv /\ Attempt => RetryInv'
  BY DEF Attempt
<1>2. RetryInv /\ Match => RetryInv'
  <2> SUFFICES ASSUME RetryInv, Match PROVE RetryInv'
    OBVIOUS
  <2>1. CASE result # NotFound
    BY <2>1 DEF Match
  <2>2. CASE result = NotFound
    <3>1. PICK delay \in 1..MaxDelay :
            IF next_backoff(delay)
            THEN pc' = "sleep" /\ until' = now + delay
            ELSE pc' = "returned" /\ UNCHANGED until
      BY <2>2 DEF Match
    <3>2. CASE next_backoff(delay)
      BY <2>2, <3>1, <3>2 DEF Match, next_backoff
    <3>3. CASE ~next_backoff(delay)
      BY <2>2, <3>1, <3>3 DEF Match, next_backoff
    <3> QED BY <3>2, <3>3
  <2> QED BY <2>1, <2>2
<1>3. RetryInv /\ Wake => RetryInv'
  BY DEF Wake
<1>4. RetryInv /\ Tick => RetryInv'
  BY DEF Tick
<1>5. RetryInv /\ UNCHANGED retryVars => RetryInv'
  BY DEF retryVars
<1> QED
  BY <1>1, <1>2, <1>3, <1>4, <1>5 DEF RetryNext

\* The invariant holds from the first attempt to the return, for every budget, delay,
\* duration of an attempt, delay of a sleep's end and time at which the adapter is registered.
THEOREM RetryInvariant == RetrySpec => []RetryInv
BY RetryInitially, RetryStep, PTL DEF RetrySpec

\* An adapter that is ready one delay and one attempt before the budget is spent is
\* found (retry_on_windows_not_found).
THEOREM RetryReadyInTimeSucceeds == RetrySpec => []ReadyInTimeSucceeds
<1>1. RetryInv => ReadyInTimeSucceeds
  BY RetryAssumption DEF RetryInv, RetryTypeOK, ReadyInTimeSucceeds
<1> QED BY RetryInvariant, <1>1, PTL

(***************************************************************************)
(* Numbers.                                                                *)
(***************************************************************************)

\* A product grows with its factor.
LEMMA ProductGrows ==
  ASSUME NEW a \in Int, NEW b \in Int, NEW c \in Nat, a <= b
  PROVE  a * c <= b * c
<1>1. b * c = a * c + (b - a) * c
  OBVIOUS
<1>2. (b - a) * c >= 0
  OBVIOUS
<1> QED BY <1>1, <1>2

\* A product grows by a factor.
LEMMA NextProduct == ASSUME NEW k \in Int, NEW c \in Nat PROVE (k - 1) * c = k * c - c
OBVIOUS

\* Quotient and remainder.
LEMMA DivMod ==
  ASSUME NEW x \in Nat, NEW m \in Nat \ {0}
  PROVE  /\ x % m \in 0..(m - 1) /\ x \div m \in Nat
         /\ x = m * (x \div m) + (x % m)
<1>1. x % m \in 0..(m - 1)
  OBVIOUS
<1>2. x \div m \in Nat
  OBVIOUS
<1>3. x = m * (x \div m) + (x % m)
  OBVIOUS
<1> QED BY <1>1, <1>2, <1>3

\* The remainder is the only number that, below the divisor, is one.
LEMMA Remainder ==
  ASSUME NEW m \in Nat \ {0}, NEW q \in Nat, NEW r \in 0..(m - 1)
  PROVE  (m * q + r) % m = r
<1>1. PICK x \in Nat : x = m * q + r
  OBVIOUS
<1>2. x % m = r
  BY <1>1
<1> QED BY <1>1, <1>2

\* A set of numbers has a least one.
LEMMA LeastNumber ==
  ASSUME NEW T \in SUBSET Nat, T # {}
  PROVE  \E x \in T : \A y \in T : x <= y
<1> DEFINE R == OpToRel(<, Nat)
<1>1. IsWellFoundedOn(R, Nat)
  BY NatLessThanWellFounded
<1>2. \A y, x \in Nat : y < x => <<y, x>> \in R
  BY DEF OpToRel
<1> HIDE DEF R
<1>3. PICK x \in T : \A y \in T : ~ (<<y, x>> \in R)
  BY <1>1, WFMin
<1>4. ASSUME NEW y \in T PROVE x <= y
  <2>1. ~(<<y, x>> \in R)
    BY <1>3
  <2>2. x \in Nat /\ y \in Nat
    OBVIOUS
  <2>3. ~(y < x)
    BY <2>1, <2>2, <1>2, Zenon
  <2> QED BY <2>2, <2>3
<1> QED BY <1>4

\* Induction, for a set instead of a predicate.
LEMMA NatInduct ==
  ASSUME NEW S, 0 \in S, \A n \in Nat : n \in S => n + 1 \in S
  PROVE  Nat \subseteq S
<1> SUFFICES ASSUME Nat \ S # {} PROVE FALSE
  OBVIOUS
<1>1. PICK x \in Nat \ S : \A y \in Nat \ S : x <= y
  BY LeastNumber
<1>2. x # 0 /\ x - 1 \in Nat
  BY <1>1
<1>3. x - 1 \in S
  BY <1>1, <1>2
<1> QED BY <1>1, <1>2, <1>3

\* The recursive definition of Pow2 defines a function: for each n there is one on 0..n,
\* those agree where they are both defined, and their last values are one on Nat.
LEMMA Pow2Def == /\ Pow2 \in [Nat -> Nat \ {0}]
                 /\ Pow2[0] = 1
                 /\ \A n \in Nat : Pow2[n + 1] = 2 * Pow2[n]
<1> DEFINE Start(g, n) ==
             /\ g \in [0..n -> Nat \ {0}] /\ g[0] = 1
             /\ \A i \in 0..(n-1) : g[i+1] = 2 * g[i]
<1> DEFINE S == {n \in Nat : \E g \in [0..n -> Nat \ {0}] : Start(g, n)}
<1>1. 0 \in S
  <2>1. Start([i \in 0..0 |-> 1], 0)
    OBVIOUS
  <2> QED BY <2>1
<1>2. ASSUME NEW n \in Nat, n \in S PROVE n + 1 \in S
  <2>1. PICK g \in [0..n -> Nat \ {0}] : Start(g, n)
    BY <1>2
  <2> DEFINE h == [i \in 0..(n+1) |-> IF i = n + 1 THEN 2 * g[n] ELSE g[i]]
  <2>2. h \in [0..(n+1) -> Nat \ {0}] /\ h[0] = 1
    BY <2>1
  <2>3. \A i \in 0..((n+1)-1) : h[i+1] = 2 * h[i]
    BY <2>1
  <2> HIDE DEF h
  <2>4. Start(h, n + 1)
    BY <2>2, <2>3
  <2>5. \E f \in [0..(n + 1) -> Nat \ {0}] : Start(f, n + 1)
    BY <2>2, <2>4
  <2> HIDE DEF Start
  <2> QED BY <2>5
<1>3. \A n \in Nat : \E g \in [0..n -> Nat \ {0}] : Start(g, n)
  <2> HIDE DEF Start
  <2>1. Nat \subseteq S
    BY <1>1, <1>2, NatInduct
  <2> QED BY <2>1
<1> DEFINE G(n) == CHOOSE g \in [0..n -> Nat \ {0}] : Start(g, n)
           F == [n \in Nat |-> G(n)[n]]
<1>4. \A n \in Nat : Start(G(n), n)
  <2> HIDE DEF Start
  <2> QED BY <1>3
<1>5. ASSUME NEW n \in Nat, NEW g, NEW h, Start(g, n), Start(h, n + 1) PROVE g[n] = h[n]
  <2> DEFINE U == {i \in Nat : i <= n => g[i] = h[i]}
  <2>1. 0 \in U
    BY <1>5
  <2>2. ASSUME NEW i \in Nat, i \in U PROVE i + 1 \in U
    BY <2>2, <1>5
  <2> HIDE DEF U
  <2>3. Nat \subseteq U
    BY <2>1, <2>2, NatInduct
  <2> QED BY <2>3 DEF U
<1>6. \A n \in Nat : F[n+1] = 2 * F[n]
  <2> TAKE n \in Nat
  <2> HIDE DEF G
  <2>1. n + 1 \in Nat
    OBVIOUS
  <2>4. Start(G(n), n)
    BY <1>4
  <2>5. Start(G(n + 1), n + 1)
    BY <2>1, <1>4, Zenon
  <2>2. G(n)[n] = G(n+1)[n]
    BY <2>4, <2>5, <1>5
  <2>3. G(n+1)[n+1] = 2 * G(n+1)[n]
    BY <2>5
  <2> QED BY <2>2, <2>3
<1>7. F \in [Nat -> Nat \ {0}] /\ F[0] = 1
  <2> HIDE DEF G
  <2> QED BY <1>4
<1>8. F = [n \in Nat |-> IF n = 0 THEN 1 ELSE 2 * F[n-1]]
  <2> HIDE DEF F
  <2> SUFFICES ASSUME NEW n \in Nat PROVE F[n] = IF n = 0 THEN 1 ELSE 2 * F[n-1]
    BY <1>7
  <2>1. CASE n = 0
    BY <2>1, <1>7
  <2>2. CASE n # 0
    <3>1. n - 1 \in Nat /\ (n - 1) + 1 = n
      BY <2>2
    <3> QED BY <3>1, <2>2, <1>6
  <2> QED BY <2>1, <2>2
<1> HIDE DEF F
<1>9. Pow2 = [n \in Nat |-> IF n = 0 THEN 1 ELSE 2 * Pow2[n-1]]
  BY <1>8, Zenon DEF Pow2
<1>10. Pow2[0] = 1
  BY <1>9
<1>11. ASSUME NEW n \in Nat PROVE Pow2[n + 1] = 2 * Pow2[n]
  <2>1. n + 1 \in Nat /\ n + 1 # 0 /\ (n + 1) - 1 = n
    OBVIOUS
  <2>2. Pow2[n + 1] = IF n + 1 = 0 THEN 1 ELSE 2 * Pow2[(n + 1) - 1]
    BY <1>9, <2>1
  <2> QED BY <2>1, <2>2
<1>12. Nat \subseteq {n \in Nat : Pow2[n] \in Nat \ {0}}
  <2> DEFINE V == {n \in Nat : Pow2[n] \in Nat \ {0}}
  <2>1. 0 \in V
    BY <1>10
  <2>2. ASSUME NEW n \in Nat, n \in V PROVE n + 1 \in V
    BY <1>11, <2>2
  <2> HIDE DEF V
  <2>3. Nat \subseteq V
    BY <2>1, <2>2, NatInduct
  <2> QED BY <2>3 DEF V
<1>13. Pow2 \in [Nat -> Nat \ {0}]
  BY <1>9, <1>12
<1> QED BY <1>10, <1>11, <1>13

\* The powers of two multiply.
LEMMA Pow2Sum ==
  ASSUME NEW a \in Nat, NEW b \in Nat
  PROVE  Pow2[a + b] = Pow2[a] * Pow2[b]
<1> DEFINE S == {n \in Nat : Pow2[a + n] = Pow2[a] * Pow2[n]}
<1>1. 0 \in S
  BY Pow2Def
<1>2. ASSUME NEW n \in Nat, n \in S PROVE n + 1 \in S
  <2>1. Pow2[a] \in Nat /\ Pow2[n] \in Nat /\ Pow2[a + n] \in Nat
    BY Pow2Def
  <2>2. Pow2[(a + n) + 1] = 2 * Pow2[a + n] /\ Pow2[n + 1] = 2 * Pow2[n]
    BY Pow2Def
  <2>3. Pow2[a + n] = Pow2[a] * Pow2[n]
    BY <1>2
  <2>4. \A x, y \in Nat : 2 * (x * y) = x * (2 * y)
    OBVIOUS
  <2>5. a + (n + 1) = (a + n) + 1
    OBVIOUS
  <2>6. Pow2[a + (n + 1)] = Pow2[a] * Pow2[n + 1]
    BY <2>1, <2>2, <2>3, <2>4, <2>5
  <2> QED BY <2>6
<1> HIDE DEF S
<1>3. Nat \subseteq S
  BY <1>1, <1>2, NatInduct
<1> QED BY <1>3 DEF S

(***************************************************************************)
(* Addr: addresses derived from signatures.                                *)
(***************************************************************************)

\* A network, of whatever size its address is.
IsNet(net) ==
  /\ net \in [family : {"v4", "v6"}, addr : Nat, len : Nat]
  /\ net.len <= Width(net.family)

\* The networks of the model are those whose address has the width of its family.
LEMMA IpNet ==
  ASSUME NEW net
  PROVE  net \in IpNets <=> IsNet(net) /\ net.addr < Pow2[Width(net.family)]
<1>1. Width("v4") \in Nat /\ Width("v6") \in Nat
  BY AddrAssumption DEF Width
<1>2. Pow2[Width("v4")] \in Nat /\ Pow2[Width("v6")] \in Nat
  BY <1>1, Pow2Def
<1>3. net \in IpNets => IsNet(net) /\ net.addr < Pow2[Width(net.family)]
  BY <1>1, <1>2 DEF IpNets, IsNet
<1>4. IsNet(net) /\ net.addr < Pow2[Width(net.family)] => net \in IpNets
  <2> SUFFICES ASSUME IsNet(net), net.addr < Pow2[Width(net.family)] PROVE net \in IpNets
    OBVIOUS
  <2>1. \E f \in {"v4", "v6"} :
          net \in [family : {f}, addr : 0..(Pow2[Width(f)] - 1), len : 0..Width(f)]
    BY <1>1, <1>2 DEF IsNet
  <2> QED BY <2>1, Zenon DEF IpNets
<1> QED BY <1>3, <1>4

\* The address of a network is its network part, a multiple of the size of the host
\* part, and its host part; the size is even if there are host bits.
LEMMA NetParts ==
  ASSUME NEW net, IsNet(net)
  PROVE  /\ HostSize(net) \in Nat \ {0}
         /\ Width(net.family) - net.len \in Nat
         /\ \E q \in Nat : NetBits(net) = HostSize(net) * q
         /\ NetBits(net) \in Nat /\ net.addr \in Nat
         /\ net.addr - NetBits(net) \in 0..(HostSize(net) - 1)
         /\ net.len < Width(net.family) => HostSize(net) >= 2
<1> DEFINE w == Width(net.family) - net.len
           H == HostSize(net)
           a == net.addr
<1>1. Width(net.family) \in Nat
  BY AddrAssumption DEF Width
<1>2. w \in Nat /\ a \in Nat
  BY <1>1 DEF IsNet
<1>3. H \in Nat \ {0} /\ H = Pow2[w]
  BY <1>2, Pow2Def DEF HostSize
<1>4. net.len < Width(net.family) => H >= 2
  <2> SUFFICES ASSUME net.len < Width(net.family) PROVE H >= 2
    OBVIOUS
  <2>1. w - 1 \in Nat /\ (w - 1) + 1 = w
    BY <1>1, <1>2 DEF IsNet
  <2>2. Pow2[(w - 1) + 1] = 2 * Pow2[w - 1] /\ Pow2[w - 1] \in Nat \ {0}
    BY <2>1, Pow2Def
  <2> QED BY <1>3, <2>1, <2>2
<1>5. NetBits(net) = a - (a % H)
  BY DEF NetBits, HostBits
<1> HIDE DEF H, a
<1>6. /\ a % H \in 0..(H - 1) /\ a \div H \in Nat
      /\ a = H * (a \div H) + (a % H)
  BY <1>2, <1>3, DivMod
<1>7. NetBits(net) = H * (a \div H) /\ H * (a \div H) \in Nat
  <2>1. PICK q \in Nat : q = a \div H
    BY <1>6
  <2>2. PICK r \in 0..(H - 1) : r = a % H
    BY <1>6
  <2>3. H * q \in Nat /\ a = H * q + r
    <3>1. H * q \in Nat
      BY <1>3
    <3>2. a = H * q + r
      BY <1>6, <2>1, <2>2, Zenon
    <3> QED BY <3>1, <3>2
  <2>4. NetBits(net) = H * q
    BY <1>2, <1>3, <1>5, <2>2, <2>3
  <2> QED BY <2>1, <2>3, <2>4
<1>8. a - NetBits(net) = a % H
  BY <1>2, <1>3, <1>5, <1>6
<1> QED BY <1>2, <1>3, <1>4, <1>6, <1>7, <1>8 DEF H, a

\* A number below the size, added to a network part, is the host part of the sum.
LEMMA NetPartKept ==
  ASSUME NEW net, NEW o, IsNet(net), NEW q \in Nat, NEW h \in 0..(HostSize(net) - 1),
         o = Net(net.family, HostSize(net) * q + h, net.len)
  PROVE  /\ IsNet(o) /\ HostSize(o) = HostSize(net)
         /\ NetBits(o) = HostSize(net) * q
<1> DEFINE H == HostSize(net)
           a == H * q + h
<1>1. H \in Nat \ {0}
  BY NetParts
<1>2. a \in Nat
  BY <1>1
<1>3. IsNet(o) /\ HostSize(o) = H /\ o.addr = a
  BY <1>2 DEF IsNet, HostSize, Net
<1>4. a % H = h
  BY <1>1, Remainder
<1>5. NetBits(o) = a - h
  BY <1>3, <1>4 DEF NetBits, HostBits
<1> HIDE DEF H
<1>6. a - h = H * q
  BY <1>1
<1> QED BY <1>3, <1>5, <1>6 DEF H

\* The network part of a truncated network is its own, and truncation forgets nothing else.
LEMMA Truncated ==
  ASSUME NEW net, IsNet(net)
  PROVE  /\ IsNet(Trunc(net)) /\ HostSize(Trunc(net)) = HostSize(net)
         /\ NetBits(Trunc(net)) = NetBits(net)
         /\ Trunc(net) = Net(net.family, NetBits(net), net.len)
<1>1. PICK q \in Nat : NetBits(net) = HostSize(net) * q
  BY NetParts
<1>2. HostSize(net) \in Nat \ {0}
  BY NetParts
<1>3. Trunc(net) = Net(net.family, NetBits(net), net.len)
  BY DEF Trunc, Net, IsNet
<1>4. Trunc(net) = Net(net.family, HostSize(net) * q + 0, net.len)
  <2>1. HostSize(net) * q + 0 = HostSize(net) * q
    BY <1>2
  <2> QED BY <1>1, <1>3, <2>1
<1>5. 0 \in 0..(HostSize(net) - 1)
  BY <1>2
<1>6. /\ IsNet(Trunc(net)) /\ HostSize(Trunc(net)) = HostSize(net)
      /\ NetBits(Trunc(net)) = HostSize(net) * q
  BY <1>4, <1>5, NetPartKept
<1> QED BY <1>1, <1>3, <1>6

\* The address that is generated depends on nothing of the network but its network part
\* and its length, so the verifier, who truncates first, generates the same.
LEMMA GeneratedFromTrunc ==
  ASSUME NEW net, NEW signature, IsNet(net)
  PROVE  generate_signed_ip_with_signature(Trunc(net), signature)
           = generate_signed_ip_with_signature(net, signature)
<1>1. /\ HostSize(Trunc(net)) = HostSize(net) /\ NetBits(Trunc(net)) = NetBits(net)
      /\ Trunc(net).family = net.family
  BY Truncated DEF Net
<1>2. \A e : HostBits(Trunc(net), e) = HostBits(net, e)
  BY <1>1 DEF HostBits
<1>3. Broadcast(Trunc(net)) = Broadcast(net)
  BY <1>1 DEF Broadcast
<1>4. \A e : /\ derive_ipv6(Trunc(net), e) = derive_ipv6(net, e)
             /\ derive_ipv4(Trunc(net), e) = derive_ipv4(net, e)
  BY <1>1, <1>2, <1>3 DEF derive_ipv4, derive_ipv6
<1> QED BY <1>1, <1>4 DEF generate_signed_ip_with_signature

\* It is an address of the network, if that has a host part or is not of IPv4; in any
\* case it is no longer than the last of the network.
LEMMA GeneratedInNet ==
  ASSUME NEW net, NEW signature, IsNet(net), signature.bits \in Nat
  PROVE  LET addr == generate_signed_ip_with_signature(net, signature) IN
         /\ addr \in Nat /\ addr <= Broadcast(net)
         /\ (net.family = "v4" => net.len < Width4) =>
              addr - NetBits(net) \in 0..(HostSize(net) - 1)
<1> DEFINE H == HostSize(net)
           b == NetBits(net)
           addr == generate_signed_ip_with_signature(net, signature)
<1>1. H \in Nat \ {0} /\ b \in Nat
  BY NetParts
<1>2. ASSUME NEW w \in {Width4, Width6} PROVE (signature.bits % Pow2[w]) % H \in 0..(H - 1)
  <2>1. Pow2[w] \in Nat \ {0}
    BY AddrAssumption, Pow2Def
  <2>2. signature.bits % Pow2[w] \in Nat
    BY <2>1, DivMod
  <2> QED BY <1>1, <2>2, DivMod
<1>3. Broadcast(net) = b + H - 1
  BY DEF Broadcast
<1>4. CASE net.family # "v4"
  <2>1. addr = b + ((signature.bits % Pow2[Width6]) % H)
    BY <1>4 DEF generate_signed_ip_with_signature, derive_ipv6, HostBits
  <2> HIDE DEF H, b, addr
  <2>2. addr \in Nat /\ addr <= b + H - 1 /\ addr - b \in 0..(H - 1)
    BY <1>1, <1>2, <2>1
  <2> QED BY <1>3, <2>2 DEF H, b, addr
<1>5. CASE net.family = "v4"
  <2> DEFINE h == (signature.bits % Pow2[Width4]) % H
             sum == b + h
  <2>1. addr = IF sum = Broadcast(net) THEN sum - (sum % 2) ELSE sum
    BY <1>5 DEF generate_signed_ip_with_signature, derive_ipv4, HostBits
  <2>2. h \in 0..(H - 1)
    BY <1>2
  <2>3. net.len < Width4 => H >= 2
    BY <1>5, NetParts DEF Width
  <2> HIDE DEF H, b, addr, h
  <2>4. sum \in Nat /\ sum % 2 \in 0..1 /\ sum % 2 <= sum
    BY <1>1, <2>2
  <2>5. addr \in Nat /\ addr <= b + H - 1
    BY <1>1, <2>1, <2>2, <2>4
  <2>6. H >= 2 => addr - b \in 0..(H - 1)
    <3>1. PICK m \in 0..1 : m = sum % 2
      BY <2>4
    <3>2. addr = IF sum = b + H - 1 THEN sum - m ELSE sum
      BY <1>3, <2>1, <3>1 DEF H, b
    <3> QED BY <1>1, <2>2, <3>2
  <2> QED BY <1>3, <1>5, <2>3, <2>5, <2>6 DEF H, b, addr
<1> QED BY <1>4, <1>5

\* What generate_signed_ipnet returns: a network of the same family and length, with
\* the same network part, of which verify_signed_ipnet says it is the signer's.
LEMMA Generated ==
  ASSUME NEW net, NEW key, NEW bits \in Nat, IsNet(net),
         NEW o, NEW s, <<o, s>> = generate_signed_ipnet(net, key, bits)
  PROVE  /\ s = Sign(key, serialize_network(Trunc(net)), bits)
         /\ o = Net(net.family, generate_signed_ip_with_signature(net, s), net.len)
         /\ IsNet(o) /\ o.addr <= Broadcast(net)
         /\ (net.family = "v4" => net.len < Width4) =>
              NetBits(o) = NetBits(net) /\ HostSize(o) = HostSize(net)
<1>1. s = Sign(key, serialize_network(Trunc(net)), bits)
  BY DEF generate_signed_ipnet
<1>2. o = Net(net.family, generate_signed_ip_with_signature(net, s), net.len)
  BY <1>1 DEF generate_signed_ipnet
<1> DEFINE addr == generate_signed_ip_with_signature(net, s)
<1>3. s.bits \in Nat
  BY <1>1 DEF Sign
<1>4. /\ addr \in Nat /\ addr <= Broadcast(net)
      /\ (net.family = "v4" => net.len < Width4) =>
           addr - NetBits(net) \in 0..(HostSize(net) - 1)
  BY <1>3, GeneratedInNet
<1> HIDE DEF addr
<1>5. IsNet(o) /\ o.addr <= Broadcast(net)
  BY <1>2, <1>4 DEF IsNet, Net, addr
<1>6. ASSUME net.family = "v4" => net.len < Width4
      PROVE  NetBits(o) = NetBits(net) /\ HostSize(o) = HostSize(net)
  <2>1. PICK q \in Nat : NetBits(net) = HostSize(net) * q
    BY NetParts
  <2>2. PICK h \in 0..(HostSize(net) - 1) : h = addr - NetBits(net)
    BY <1>4, <1>6
  <2>3. NetBits(net) \in Nat /\ HostSize(net) \in Nat
    BY NetParts
  <2>4. addr = NetBits(net) + h
    BY <1>4, <2>2, <2>3
  <2>5. o = Net(net.family, HostSize(net) * q + h, net.len)
    BY <1>2, <2>1, <2>4, Zenon DEF addr
  <2> QED BY <2>1, <2>5, NetPartKept
<1> QED BY <1>1, <1>2, <1>5, <1>6

\* Exactly what was generated verifies, for any network that has host bits or is not of
\* IPv4, and any network and key that are claimed.
LEMMA VerifiesGenerated ==
  ASSUME NEW net, NEW key, NEW bits \in Nat, IsNet(net),
         net.family = "v4" => net.len < Width4,
         NEW o, NEW s, <<o, s>> = generate_signed_ipnet(net, key, bits),
         NEW c, NEW k, IsNet(c)
  PROVE  verify_signed_ipnet(c, k, s) <=> c = o /\ k = key
<1> DEFINE gen(n) == generate_signed_ip_with_signature(n, s)
<1>1. /\ s = Sign(key, serialize_network(Trunc(net)), bits)
      /\ o = Net(net.family, gen(net), net.len)
      /\ IsNet(o) /\ NetBits(o) = NetBits(net)
  BY Generated
<1>2. s.key = key /\ s.message = serialize_network(Trunc(net))
  BY <1>1 DEF Sign
<1>3. /\ Trunc(net) = Net(net.family, NetBits(net), net.len)
      /\ Trunc(o) = Net(o.family, NetBits(o), o.len)
      /\ Trunc(c) = Net(c.family, NetBits(c), c.len)
  BY <1>1, Truncated
<1>4. gen(Trunc(net)) = gen(net)
  BY GeneratedFromTrunc
<1> HIDE DEF gen
<1>5. Trunc(o) = Trunc(net) /\ o.addr = gen(net)
  BY <1>1, <1>3 DEF Net
<1>6. verify_signed_ipnet(c, k, s)
        <=> /\ s.key = k /\ s.message = serialize_network(Trunc(c))
            /\ c.addr = gen(Trunc(c))
  BY DEF verify_signed_ipnet, Signed, gen
<1>7. c = o /\ k = key => verify_signed_ipnet(c, k, s)
  BY <1>2, <1>4, <1>5, <1>6
<1>8. ASSUME verify_signed_ipnet(c, k, s) PROVE c = o /\ k = key
  <2>1. serialize_network(Trunc(c)) = serialize_network(Trunc(net))
    BY <1>2, <1>6, <1>8
  <2>2. c.family = net.family /\ c.len = net.len /\ NetBits(c) = NetBits(net)
    BY <1>3, <2>1 DEF serialize_network, Net
  <2>3. Trunc(c) = Trunc(net)
    BY <1>3, <2>2
  <2>4. c.addr = gen(net)
    BY <1>4, <1>6, <1>8, <2>3
  <2>5. c = o
    BY <1>1, <2>2, <2>4 DEF IsNet, Net
  <2> QED BY <1>2, <1>6, <1>8, <2>5
<1> QED BY <1>7, <1>8

\* The last address of a network is no longer than the others.
LEMMA LastInRange ==
  ASSUME NEW net \in IpNets
  PROVE  Broadcast(net) < Pow2[Width(net.family)]
<1> DEFINE H == HostSize(net)
           w == Width(net.family)
           P == Pow2[net.len]
<1>1. IsNet(net) /\ net.addr < Pow2[w]
  BY IpNet
<1>2. PICK q \in Nat : NetBits(net) = H * q
  BY <1>1, NetParts
<1>3. H \in Nat \ {0} /\ net.addr \in Nat /\ H * q <= net.addr
  <2>1. H \in Nat \ {0} /\ net.addr \in Nat /\ net.addr - H * q \in Nat
    BY <1>1, <1>2, NetParts
  <2> QED BY <2>1
<1>4. P \in Nat /\ Pow2[w] = P * H
  <2>1. net.len \in Nat /\ w - net.len \in Nat /\ w \in Nat /\ net.len + (w - net.len) = w
    BY <1>1, AddrAssumption DEF IsNet, Width
  <2>2. Pow2[net.len + (w - net.len)] = Pow2[net.len] * Pow2[w - net.len]
    BY <2>1, Pow2Sum
  <2> QED BY <2>1, <2>2, Pow2Def DEF HostSize
<1>5. Broadcast(net) = (q + 1) * H - 1
  BY <1>2, <1>3 DEF Broadcast
<1> HIDE DEF H, P, w
<1>6. q + 1 <= P
  <2>1. q >= P => P * H <= q * H
    BY <1>3, <1>4, ProductGrows
  <2>2. q * H < P * H
    BY <1>1, <1>3, <1>4
  <2>3. q * H \in Nat /\ P * H \in Nat
    BY <1>3, <1>4
  <2> QED BY <1>4, <2>1, <2>2, <2>3
<1>7. (q + 1) * H <= P * H
  BY <1>3, <1>4, <1>6, ProductGrows
<1>8. (q + 1) * H \in Nat /\ P * H \in Nat
  BY <1>3, <1>4
<1> QED BY <1>4, <1>5, <1>7, <1>8 DEF w

\* The address and the signature of the state are what generate_signed_ipnet returns.
LEMMA OwnGenerated ==
  /\ <<own, sig>> = generate_signed_ipnet(input, signer, rnd)
  /\ input \in IpNets /\ rnd \in Nat => own \in IpNets
<1>1. <<own, sig>> = generate_signed_ipnet(input, signer, rnd)
  BY DEF own, sig, generate_signed_ipnet
<1>2. ASSUME input \in IpNets, rnd \in Nat PROVE own \in IpNets
  <2>1. IsNet(input)
    BY <1>2, IpNet
  <2>2. IsNet(own) /\ own.addr <= Broadcast(input) /\ own.family = input.family
    BY <1>1, <1>2, <2>1, Generated DEF Net
  <2>3. Broadcast(input) < Pow2[Width(input.family)]
    BY <1>2, LastInRange
  <2>4. own.addr \in Nat /\ Broadcast(input) \in Int /\ Pow2[Width(input.family)] \in Nat
    <3>1. NetBits(input) \in Nat /\ HostSize(input) \in Nat
      BY <2>1, NetParts
    <3>2. Width(input.family) \in Nat
      BY AddrAssumption DEF Width
    <3> QED BY <2>2, <3>1, <3>2, Pow2Def DEF Broadcast, IsNet
  <2>5. own.addr < Pow2[Width(own.family)]
    BY <2>2, <2>3, <2>4
  <2> QED BY <2>2, <2>5, IpNet
<1> QED BY <1>1, <1>2

\* The subnets of the prefix, as multiples of their size: the whole prefix is the size
\* of a subnet times the number of subnets, and what peers allow is half of that.
LEMMA SubnetParts ==
  ASSUME NEW subnet \in Nat
  PROVE  \E size \in Nat \ {0}, first \in Nat :
           /\ first = VPN_IPV6_PREFIX.addr
           /\ IsNet(vpn_subnet(subnet)) /\ vpn_subnet(subnet).family = "v6"
           /\ HostSize(vpn_subnet(subnet)) = size
           /\ NetBits(vpn_subnet(subnet)) = first + subnet * size
           /\ NetBits(VPN_IPV6_DEFAULT_ALLOWED) = first
           /\ HostSize(VPN_IPV6_DEFAULT_ALLOWED) = Pow2[SubnetLen - 1] * size
<1> DEFINE r == Width6 - PrefixLen - SubnetLen
           K == Pow2[r]
           M == Pow2[SubnetLen - 1]
           A == M * K
           first == VPN_IPV6_PREFIX.addr
<1>1. /\ r \in Nat /\ SubnetLen - 1 \in Nat /\ SubnetLen \in Nat /\ PrefixLen \in Nat
      /\ Width6 \in Nat /\ Width("v6") = Width6
      /\ Width6 - (PrefixLen + SubnetLen) = r
      /\ Width6 - (PrefixLen + 1) = (SubnetLen - 1) + r
      /\ Width6 - PrefixLen = ((SubnetLen - 1) + r) + 1
      /\ PrefixLen + SubnetLen <= Width6 /\ PrefixLen + 1 <= Width6
  BY AddrAssumption DEF Width
<1>2. K \in Nat \ {0} /\ M \in Nat \ {0} /\ Global \in Nat
  BY <1>1, Pow2Def, AddrAssumption
<1>3. Pow2[(SubnetLen - 1) + r] = A
  BY <1>1, Pow2Sum
<1>4. Pow2[Width6 - PrefixLen] = 2 * A
  <2>1. (SubnetLen - 1) + r \in Nat
    BY <1>1
  <2>2. Pow2[((SubnetLen - 1) + r) + 1] = 2 * Pow2[(SubnetLen - 1) + r]
    BY <2>1, Pow2Def
  <2> QED BY <1>1, <1>3, <2>2
<1>5. first = Global * (2 * A)
  BY <1>4 DEF VPN_IPV6_PREFIX, Net
<1> HIDE DEF r, K, M
<1>6. A \in Nat \ {0}
  BY <1>2
<1>7. first = A * (2 * Global) + 0 /\ first = K * (2 * Global * M) /\ first \in Nat
  <2>1. \A g, m, k \in Nat : /\ g * (2 * (m * k)) = (m * k) * (2 * g)
                              /\ g * (2 * (m * k)) = k * (2 * g * m)
    OBVIOUS
  <2>2. first = (M * K) * (2 * Global) /\ first = K * (2 * Global * M)
    BY <1>2, <1>5, <2>1
  <2> QED BY <1>2, <1>6, <2>2
<1> HIDE DEF A, first
<1> DEFINE allowed == VPN_IPV6_DEFAULT_ALLOWED
           mine    == vpn_subnet(subnet)
<1>8. allowed = Net("v6", first, PrefixLen + 1)
  BY DEF VPN_IPV6_DEFAULT_ALLOWED, first
<1>9. /\ IsNet(allowed) /\ HostSize(allowed) = A
      /\ allowed.family = "v6" /\ allowed.len = PrefixLen + 1
  BY <1>1, <1>3, <1>7, <1>8 DEF IsNet, HostSize, Net
<1>10. NetBits(allowed) = first
  <2>1. 2 * Global \in Nat /\ 0 \in 0..(A - 1)
    BY <1>2, <1>6
  <2>2. allowed = Net(allowed.family, HostSize(allowed) * (2 * Global) + 0, allowed.len)
    BY <1>7, <1>8, <1>9
  <2> HIDE DEF allowed
  <2>3. NetBits(allowed) = HostSize(allowed) * (2 * Global)
    BY <1>9, <2>1, <2>2, NetPartKept
  <2>4. A * (2 * Global) + 0 = A * (2 * Global)
    BY <1>6, <2>1
  <2> QED BY <1>7, <1>9, <2>3, <2>4
<1>11. mine = Net("v6", first + subnet * K, PrefixLen + SubnetLen)
  BY DEF vpn_subnet, first, K, r
<1>12. first + subnet * K \in Nat
  BY <1>2, <1>7
<1>13. /\ IsNet(mine) /\ HostSize(mine) = K /\ mine.family = "v6"
       /\ mine.len = PrefixLen + SubnetLen
  BY <1>1, <1>11, <1>12 DEF IsNet, HostSize, Net, K
<1>14. NetBits(mine) = first + subnet * K
  <2> DEFINE q == 2 * Global * M + subnet
  <2>1. q \in Nat /\ 0 \in 0..(K - 1)
    BY <1>2
  <2>2. first + subnet * K = K * q + 0 /\ first + subnet * K = K * q
    <3>1. \A x \in Nat : K * (x + subnet) = K * x + subnet * K
      BY <1>2
    <3>2. 2 * Global * M \in Nat
      BY <1>2
    <3>3. K * q = first + subnet * K
      BY <1>7, <3>1, <3>2
    <3> QED BY <1>12, <3>3
  <2>3. mine = Net(mine.family, HostSize(mine) * q + 0, mine.len)
    BY <1>11, <1>13, <2>2
  <2> HIDE DEF q, mine
  <2>4. NetBits(mine) = HostSize(mine) * q
    BY <1>13, <2>1, <2>3, NetPartKept
  <2> QED BY <1>13, <2>2, <2>4
<1> QED BY <1>2, <1>7, <1>9, <1>10, <1>13, <1>14 DEF A, M, first

\* The inputs.
LEMMA AddrInitially == AddrInit => AddrInv
<1> SUFFICES ASSUME AddrInit PROVE AddrInv
  OBVIOUS
<1>1. input \in IpNets /\ rnd \in Nat /\ claim = own
  BY DEF AddrInit
<1> QED BY <1>1, OwnGenerated DEF AddrInv, AddrTypeOK

\* Another claim is a network again, and what was generated stays.
LEMMA AddrStep == AddrInv /\ [Receive]_addrVars => AddrInv'
<1>1. AddrInv /\ Receive => AddrInv'
  BY DEF AddrInv, AddrTypeOK, Receive, own, IpNets
<1>2. AddrInv /\ UNCHANGED addrVars => AddrInv'
  BY DEF AddrInv, AddrTypeOK, addrVars, own
<1> QED BY <1>1, <1>2

\* For every width of an address, network, key and signature, exactly the address that a
\* node has generated verifies, under the key of its signer (generate_signed_ipnet
\* and verify_signed_ipnet).
THEOREM AddrGeneratedAloneVerifies == AddrSpec => []GeneratedAloneVerifies
<1>1. AddrInv => GeneratedAloneVerifies
  <2> SUFFICES ASSUME AddrInv, HasHostBits
               PROVE  /\ ContainsNet(input, own)
                      /\ verify_signed_ipnet(claim, pubkey, sig)
                           <=> claim = own /\ pubkey = signer
    BY DEF GeneratedAloneVerifies
  <2>1. /\ IsNet(input) /\ IsNet(claim) /\ rnd \in Nat
        /\ input.family = "v4" => input.len < Width4
    BY IpNet DEF AddrInv, AddrTypeOK, HasHostBits
  <2>2. <<own, sig>> = generate_signed_ipnet(input, signer, rnd)
    BY OwnGenerated
  <2>3. /\ own.family = input.family /\ NetBits(own) = NetBits(input)
        /\ HostSize(own) = HostSize(input)
    BY <2>1, <2>2, Generated DEF Net
  <2>4. NetBits(input) \in Nat /\ HostSize(input) \in Nat
    BY <2>1, NetParts
  <2>5. ContainsNet(input, own)
    BY <2>3, <2>4 DEF ContainsNet, Broadcast
  <2> QED BY <2>1, <2>2, <2>5, VerifiesGenerated
<1> QED BY AddrInitially, AddrStep, <1>1, PTL DEF AddrSpec

\* For every width, prefix length and number of subnet bits, a configuration may choose
\* exactly the subnets whose addresses peers accept (Config::try_from and
\* validate_addresses).
THEOREM AddrConfigurableIsAcceptable == AddrSpec => []ConfigurableIsAcceptable
<1>1. AddrInv => ConfigurableIsAcceptable
  <2> SUFFICES ASSUME AddrInv, NEW subnet \in 0..(Pow2[SubnetLen] - 1), NEW mine,
                      mine = generate_signed_ipnet(vpn_subnet(subnet), signer, rnd)
               PROVE  SubnetConfigurable(subnet) <=> Acceptable(mine[1], signer, mine[2])
    BY DEF ConfigurableIsAcceptable
  <2> DEFINE net == vpn_subnet(subnet)
             allowed == VPN_IPV6_DEFAULT_ALLOWED
             M == Pow2[SubnetLen - 1]
  <2>1. /\ SubnetLen - 1 \in Nat /\ (SubnetLen - 1) + 1 = SubnetLen /\ SubnetLen \in Nat
        /\ PrefixLen \in Nat /\ (PrefixLen + 1) - PrefixLen = 0 + 1
    BY AddrAssumption
  <2>2. /\ M \in Nat \ {0} /\ Pow2[(SubnetLen - 1) + 1] = 2 * M
        /\ Pow2[0] = 1 /\ Pow2[0 + 1] = 2 * Pow2[0]
    BY <2>1, Pow2Def, 0 \in Nat
  <2>3. subnet \in Nat /\ rnd \in Nat
    BY <2>1, <2>2 DEF AddrInv
  <2>4. PICK size \in Nat \ {0}, first \in Nat :
          /\ IsNet(net) /\ net.family = "v6"
          /\ HostSize(net) = size
          /\ NetBits(net) = first + subnet * size
          /\ NetBits(allowed) = first
          /\ HostSize(allowed) = M * size
    BY <2>3, SubnetParts
  <2>5. mine = <<mine[1], mine[2]>>
    BY DEF generate_signed_ipnet
  <2> HIDE DEF net, allowed, M
  <2>6. /\ IsNet(mine[1]) /\ mine[1].family = "v6"
        /\ NetBits(mine[1]) = NetBits(net) /\ HostSize(mine[1]) = HostSize(net)
    BY <2>3, <2>4, <2>5, Generated DEF net, Net
  <2>7. verify_signed_ipnet(mine[1], signer, mine[2])
    BY <2>3, <2>4, <2>5, <2>6, VerifiesGenerated DEF net
  <2>8. SubnetConfigurable(subnet) <=> subnet + 1 <= M
    <3>1. allowed.len - PrefixLen = 0 + 1
      BY <2>1 DEF allowed, VPN_IPV6_DEFAULT_ALLOWED, Net
    <3>2. MAX_SUBNET = (2 * M - 1) \div 2
      BY <2>1, <2>2, <3>1 DEF MAX_SUBNET, allowed
    <3>3. (2 * M - 1) \div 2 = M - 1
      BY <2>2
    <3> QED BY <2>2, <2>3, <3>2, <3>3 DEF SubnetConfigurable
  <2>9. ContainsNet(allowed, mine[1]) <=> (subnet + 1) * size <= M * size
    <3>1. allowed.family = "v6"
      BY DEF allowed, VPN_IPV6_DEFAULT_ALLOWED, Net
    <3>2. /\ Broadcast(allowed) = first + M * size - 1
          /\ Broadcast(mine[1]) = first + subnet * size + size - 1
      BY <2>4, <2>6 DEF Broadcast
    <3>3. ContainsNet(allowed, mine[1])
            <=> /\ first <= first + subnet * size
                /\ first + subnet * size + size - 1 <= first + M * size - 1
      BY <2>4, <2>6, <3>1, <3>2 DEF ContainsNet
    <3>4. subnet * size \in Nat /\ M * size \in Nat /\ (subnet + 1) * size = subnet * size + size
      BY <2>2, <2>3
    <3> QED BY <3>3, <3>4
  <2>10. (subnet + 1) * size <= M * size <=> subnet + 1 <= M
    <3>1. subnet + 1 <= M => (subnet + 1) * size <= M * size
      BY <2>2, <2>3, ProductGrows
    <3>2. subnet >= M => subnet * size >= M * size
      BY <2>2, <2>3, ProductGrows
    <3>3. subnet * size \in Nat /\ M * size \in Nat /\ (subnet + 1) * size = subnet * size + size
      BY <2>2, <2>3
    <3> QED BY <2>2, <2>3, <3>1, <3>2, <3>3
  <2> QED BY <2>7, <2>8, <2>9, <2>10 DEF Acceptable, allowed
<1> QED BY AddrInitially, AddrStep, <1>1, PTL DEF AddrSpec

(***************************************************************************)
(* Ecn: congestion signals.                                                *)
(***************************************************************************)

\* calc_header_checksum returns a checksum.
LEMMA ChecksumInRange ==
  ASSUME NEW p, p.ecn \in Nat, p.rest \in Nat
  PROVE  calc_header_checksum(p) \in 0..(SumMod - 1)
BY EcnAssumption DEF calc_header_checksum

\* Mark leaves everything of a header but its ECN field and its checksum, which is right.
LEMMA MarkedHeader ==
  ASSUME NEW p \in Packets
  PROVE  /\ Mark(p) \in Packets
         /\ Mark(p) = [p EXCEPT !.ecn = CongestionExperienced, !.checksum = Mark(p).checksum]
         /\ Mark(p).checksum = calc_header_checksum(Mark(p))
<1> DEFINE m == [p EXCEPT !.ecn = CongestionExperienced]
<1>1. /\ m.ecn \in Nat /\ m.ecn = CongestionExperienced /\ m.rest \in Nat
      /\ m.version = p.version /\ m.rest = p.rest /\ m \in Packets
  BY EcnAssumption DEF Packets, CongestionExperienced
<1>2. calc_header_checksum(m) \in 0..(SumMod - 1)
  BY <1>1, ChecksumInRange
<1>3. Mark(p) = [m EXCEPT !.checksum = calc_header_checksum(m)]
  BY DEF Mark
<1> HIDE DEF m
<1>4. Mark(p) \in Packets
  BY <1>1, <1>2, <1>3 DEF Packets
<1>5. /\ Mark(p).ecn = m.ecn /\ Mark(p).rest = m.rest /\ Mark(p).version = m.version
      /\ Mark(p).checksum = calc_header_checksum(m)
  BY <1>1, <1>3 DEF Packets
<1>6. calc_header_checksum(Mark(p)) = calc_header_checksum(m)
  BY <1>5 DEF calc_header_checksum
<1>7. Mark(p) = [p EXCEPT !.ecn = CongestionExperienced, !.checksum = Mark(p).checksum]
  BY <1>1, <1>4, <1>5 DEF Packets
<1> QED BY <1>4, <1>5, <1>6, <1>7

\* The packet a host sends.
LEMMA EcnInitially == EcnInit => EcnInv
BY EcnAssumption DEF EcnInit, EcnInv, EcnTypeOK, SignalUnderstood

\* One more queue.
LEMMA EcnStep == EcnInv /\ [EcnNext]_ecnVars => EcnInv'
<1> SUFFICES ASSUME EcnInv, [EcnNext]_ecnVars PROVE EcnInv'
  OBVIOUS
<1> USE DEF EcnInv, EcnTypeOK
<1>1. CASE UNCHANGED ecnVars
  BY <1>1 DEF ecnVars, SignalUnderstood
<1>2. ASSUME NEW f \in 0..One, NEW r \in 0..(One - 1), Queue(f, r)
      PROVE  EcnInv'
  <2>1. sent' = sent /\ fill' \in 0..One /\ action = "Forward"
    BY <1>2 DEF Queue
  <2>2. CASE UNCHANGED <<packet, action>>
    BY <2>1, <2>2 DEF SignalUnderstood
  <2>3. packet # sent => packet.ecn = CongestionExperienced /\ packet.version # "malformed"
    <3> SUFFICES ASSUME packet # sent
                 PROVE  packet.ecn = CongestionExperienced /\ packet.version # "malformed"
      OBVIOUS
    <3> DEFINE c == packet.checksum
    <3>1. /\ packet = [sent EXCEPT !.ecn = CongestionExperienced, !.checksum = c]
          /\ sent.version # "malformed"
      BY DEF SignalUnderstood
    <3> HIDE DEF c
    <3> QED BY <3>1 DEF Packets
  <2>4. CASE process_packet_congestion(packet)
    <3>1. CASE /\ packet.version # "malformed" /\ packet.ecn \in {Ect0, Ect1}
               /\ packet' = Mark(packet) /\ action' = "Forward"
      <4>1. packet = sent
        BY <2>3, <3>1 DEF CongestionExperienced, Ect0, Ect1
      <4> QED BY <2>1, <3>1, <4>1, MarkedHeader DEF SignalUnderstood
    <3>2. CASE /\ packet.version # "malformed" /\ packet.ecn = CongestionExperienced
               /\ packet' = packet /\ action' = "Forward"
      BY <2>1, <3>2 DEF SignalUnderstood
    <3>3. CASE /\ packet.version = "malformed" \/ packet.ecn = NotEct
               /\ packet' = packet /\ action' = "Drop"
      <4>1. packet = sent
        BY <2>3, <3>3 DEF CongestionExperienced, NotEct
      <4> QED BY <2>1, <3>3, <4>1 DEF SignalUnderstood
    <3> QED BY <2>4, <3>1, <3>2, <3>3 DEF process_packet_congestion
  <2> QED BY <1>2, <2>2, <2>4 DEF Queue
<1> QED BY <1>1, <1>2 DEF EcnNext

\* A packet carries congestion in the way its endpoints understand, however many
\* queues it passes and whatever its header (process_packet_congestion).
THEOREM EcnSignalUnderstood == EcnSpec => []SignalUnderstood
<1>1. EcnInv => SignalUnderstood
  BY DEF EcnInv
<1> QED BY EcnInitially, EcnStep, <1>1, PTL DEF EcnSpec

\* The share of the random numbers for which linear_aqm refuses a packet is, for every
\* fill and threshold, the share of the way from the threshold to full.
THEOREM EcnDropsLinearly == EcnSpec => []DropsLinearly
<1>1. EcnInv => DropsLinearly
  <2> SUFFICES ASSUME EcnInv PROVE DropsLinearly
    OBVIOUS
  <2> DEFINE room == One - Threshold
             way  == (fill - Threshold) * One
             k    == (way + (room - 1)) \div room
             out  == {r \in 0..(One - 1) : ~linear_aqm(r, fill)}
  <2>1. /\ fill \in Nat /\ fill <= One /\ One \in Nat /\ Threshold \in Nat
        /\ room \in Nat \ {0} /\ room <= One
    BY EcnAssumption DEF EcnInv, EcnTypeOK
  <2>2. CASE fill <= Threshold
    <3>1. \A r \in 0..(One - 1) : (fill - Threshold) * One <= 0 /\ r * room >= 0
      BY <2>1, <2>2
    <3>2. \A r \in 0..(One - 1) : linear_aqm(r, fill)
      BY <2>1, <2>2, <3>1 DEF linear_aqm
    <3>3. out = {}
      BY <3>2
    <3>4. Cardinality(out) = 0
      BY <3>3, FS_EmptySet
    <3> QED BY <2>2, <3>4 DEF DropsLinearly
  <2>3. CASE fill > Threshold
    <3>1. way \in Nat /\ way <= room * One
      BY <2>1, <2>3, ProductGrows
    <3> HIDE DEF way
    <3>2. \E s \in 0..(room - 1) : way + (room - 1) = room * k + s
      <4>1. \A x \in Nat, m \in Nat \ {0} : \E s \in 0..(m - 1) : x = m * (x \div m) + s
        OBVIOUS
      <4>2. way + (room - 1) \in Nat /\ room \in Nat \ {0}
        BY <2>1, <3>1
      <4> QED BY <4>1, <4>2, Zenon
    <3>3. k \in Nat
      BY <2>1, <3>1
    <3>4. PICK s \in 0..(room - 1) : way + (room - 1) = room * k + s
      BY <3>2
    <3> HIDE DEF k
    <3>5. k * room >= way /\ (k - 1) * room < way
      BY <2>1, <3>1, <3>3, <3>4, NextProduct
    <3>6. ASSUME NEW r \in 0..(One - 1)
          PROVE  (way > r * room) <=> (r <= k - 1)
      <4>1. CASE r <= k - 1
        BY <2>1, <3>1, <3>3, <3>5, <4>1, ProductGrows
      <4>2. CASE r >= k
        BY <2>1, <3>1, <3>3, <3>5, <4>2, ProductGrows
      <4> QED BY <3>3, <4>1, <4>2
    <3>7. k <= One
      <4>1. k - 1 >= One => (k - 1) * room >= One * room
        BY <2>1, <3>3, ProductGrows
      <4> QED BY <2>1, <3>1, <3>3, <3>5, <4>1
    <3>8. out = 0..(k - 1)
      <4>1. \A r \in 0..(One - 1) : ~linear_aqm(r, fill) <=> way > r * room
        BY <2>1, <2>3 DEF linear_aqm, way
      <4> QED BY <2>1, <3>3, <3>6, <3>7, <4>1
    <3>9. Cardinality(0..(k - 1)) = k
      BY <3>3, FS_Interval
    <3>10. Cardinality(out) * room >= way /\ (Cardinality(out) - 1) * room < way
      BY <3>5, <3>8, <3>9
    <3> QED BY <2>1, <2>3, <3>10 DEF DropsLinearly, way
  <2> QED BY <2>1, <2>2, <2>3
<1> QED BY EcnInitially, EcnStep, <1>1, PTL DEF EcnSpec

(***************************************************************************)
(* Names: peer names as DNS.                                               *)
(***************************************************************************)

\* A function on 1..n is a sequence of length n.
LEMMA FunctionSeq ==
  ASSUME NEW S, NEW n \in Nat, NEW f \in [1..n -> S]
  PROVE  f \in Seq(S) /\ Len(f) = n
<1>1. f \in Seq(S)
  BY SeqDef
<1>2. Len(f) \in Nat /\ 1..Len(f) = 1..n
  BY <1>1, LenProperties
<1> QED BY <1>1, <1>2

\* What Reverse returns.
LEMMA Reversed ==
  ASSUME NEW S, NEW s \in Seq(S)
  PROVE  /\ Reverse(s) \in Seq(S) /\ Len(Reverse(s)) = Len(s)
         /\ \A i \in 1..Len(s) : Reverse(s)[i] = s[(Len(s) - i) + 1]
<1>1. Len(s) \in Nat /\ s \in [1..Len(s) -> S]
  BY LenProperties
<1>2. Reverse(s) \in [1..Len(s) -> S]
  BY <1>1 DEF Reverse
<1> QED BY <1>1, <1>2, FunctionSeq DEF Reverse

\* A prefix agrees with the sequence at each of its places.
LEMMA PrefixPlaces ==
  ASSUME NEW S, NEW s \in Seq(S), NEW t \in Seq(S)
  PROVE  IsPrefix(s, t) <=> Len(s) <= Len(t) /\ \A i \in 1..Len(s) : s[i] = t[i]
<1>1. Len(s) \in Nat /\ Len(t) \in Nat /\ s \in [1..Len(s) -> S] /\ t \in [1..Len(t) -> S]
  BY LenProperties
<1>2. ASSUME Len(s) <= Len(t)
      PROVE  SubSeq(s, 1, Len(s)) = SubSeq(t, 1, Len(s))
               <=> \A i \in 1..Len(s) : s[i] = t[i]
  <2> DEFINE u == SubSeq(t, 1, Len(s))
  <2>1. SubSeq(s, 1, Len(s)) = s
    BY SubSeqFull
  <2>2. \A i \in 1..Len(s) : t[i] \in S
    BY <1>1, <1>2
  <2>3. /\ u \in Seq(S) /\ Len(u) = IF 1 <= Len(s) THEN Len(s) - 1 + 1 ELSE 0
        /\ \A i \in 1..(Len(s) - 1 + 1) : u[i] = t[1 + i - 1]
    BY <1>1, <2>2, SubSeqProperties
  <2> HIDE DEF u
  <2>4. Len(u) = Len(s) /\ \A i \in 1..Len(s) : u[i] = t[i]
    BY <1>1, <2>3
  <2>5. s = u <=> \A i \in 1..Len(s) : s[i] = u[i]
    BY <2>3, <2>4, SeqEqual
  <2> QED BY <2>1, <2>4, <2>5 DEF u
<1> QED BY <1>2 DEF IsPrefix

\* A suffix is what a sequence ends with, read from its end.
LEMMA SuffixPlaces ==
  ASSUME NEW S, NEW s \in Seq(S), NEW t \in Seq(S)
  PROVE  IsSuffix(s, t)
           <=> Len(s) <= Len(t) /\ \A i \in 1..Len(s) : s[i] = t[(Len(t) - Len(s)) + i]
<1>1. Len(s) \in Nat /\ Len(t) \in Nat
  BY LenProperties
<1>2. /\ Reverse(s) \in Seq(S) /\ Len(Reverse(s)) = Len(s)
      /\ \A i \in 1..Len(s) : Reverse(s)[i] = s[(Len(s) - i) + 1]
      /\ Reverse(t) \in Seq(S) /\ Len(Reverse(t)) = Len(t)
      /\ \A i \in 1..Len(t) : Reverse(t)[i] = t[(Len(t) - i) + 1]
  BY Reversed
<1>3. IsSuffix(s, t) <=> /\ Len(s) <= Len(t)
                         /\ \A i \in 1..Len(s) : Reverse(s)[i] = Reverse(t)[i]
  BY <1>2, PrefixPlaces DEF IsSuffix
<1>4. ASSUME Len(s) <= Len(t)
      PROVE  (\A i \in 1..Len(s) : Reverse(s)[i] = Reverse(t)[i])
               <=> \A i \in 1..Len(s) : s[i] = t[(Len(t) - Len(s)) + i]
  <2>1. ASSUME NEW i \in 1..Len(s)
        PROVE  /\ (Len(s) - i) + 1 \in 1..Len(s)
               /\ (Len(s) - ((Len(s) - i) + 1)) + 1 = i
               /\ (Len(t) - Len(s)) + ((Len(s) - i) + 1) = (Len(t) - i) + 1
               /\ (Len(t) - Len(s)) + i = (Len(t) - ((Len(s) - i) + 1)) + 1
               /\ i \in 1..Len(t) /\ (Len(s) - i) + 1 \in 1..Len(t)
    BY <1>1, <1>4
  <2>2. ASSUME \A i \in 1..Len(s) : Reverse(s)[i] = Reverse(t)[i], NEW i \in 1..Len(s)
        PROVE  s[i] = t[(Len(t) - Len(s)) + i]
    <3>1. PICK j \in 1..Len(s) : j = (Len(s) - i) + 1
      BY <2>1
    <3>2. /\ (Len(s) - j) + 1 = i /\ (Len(t) - j) + 1 = (Len(t) - Len(s)) + i
          /\ j \in 1..Len(t)
      BY <1>1, <1>4, <3>1
    <3>3. Reverse(s)[j] = s[i]
      BY <1>2, <3>2
    <3>4. Reverse(t)[j] = t[(Len(t) - Len(s)) + i]
      BY <1>2, <3>2
    <3> QED BY <2>2, <3>3, <3>4
  <2>3. ASSUME \A i \in 1..Len(s) : s[i] = t[(Len(t) - Len(s)) + i], NEW i \in 1..Len(s)
        PROVE  Reverse(s)[i] = Reverse(t)[i]
    <3>1. s[(Len(s) - i) + 1] = t[(Len(t) - Len(s)) + ((Len(s) - i) + 1)]
      BY <2>1, <2>3
    <3> QED BY <1>2, <2>1, <3>1
  <2> QED BY <2>2, <2>3
<1> QED BY <1>3, <1>4

\* A name that ends with the suffix is what is before it, and the suffix.
LEMMA NameSplit ==
  ASSUME NEW S, NEW s \in Seq(S), NEW t \in Seq(S)
  PROVE  /\ SubSeq(t, 1, Len(t) - Len(s)) \in Seq(S) \/ ~IsSuffix(s, t)
         /\ \A p \in Seq(S) :
              t = p \o s <=> IsSuffix(s, t) /\ p = SubSeq(t, 1, Len(t) - Len(s))
<1> DEFINE k == Len(t) - Len(s)
           u == SubSeq(t, 1, k)
<1>1. Len(s) \in Nat /\ Len(t) \in Nat /\ t \in [1..Len(t) -> S]
  BY LenProperties
<1>2. ASSUME Len(s) <= Len(t)
      PROVE  u \in Seq(S) /\ Len(u) = k /\ \A i \in 1..k : u[i] = t[i]
  <2>1. k \in Nat /\ \A i \in 1..k : t[i] \in S
    BY <1>1, <1>2
  <2>2. /\ u \in Seq(S) /\ Len(u) = IF 1 <= k THEN k - 1 + 1 ELSE 0
        /\ \A i \in 1..(k - 1 + 1) : u[i] = t[1 + i - 1]
    BY <2>1, SubSeqProperties
  <2> HIDE DEF k, u
  <2> QED BY <2>1, <2>2
<1>3. IsSuffix(s, t) <=> Len(s) <= Len(t) /\ \A i \in 1..Len(s) : s[i] = t[k + i]
  BY SuffixPlaces
<1>4. ASSUME NEW p \in Seq(S), t = p \o s
      PROVE  IsSuffix(s, t) /\ p = u
  <2>1. /\ Len(p) \in Nat /\ Len(t) = Len(p) + Len(s)
        /\ \A i \in 1..(Len(p) + Len(s)) : t[i] = IF i <= Len(p) THEN p[i] ELSE s[i - Len(p)]
    BY <1>4, ConcatProperties, LenProperties
  <2>2. Len(s) <= Len(t) /\ k = Len(p)
    BY <1>1, <2>1
  <2>3. \A i \in 1..Len(s) : s[i] = t[k + i]
    <3> SUFFICES ASSUME NEW i \in 1..Len(s) PROVE s[i] = t[k + i]
      OBVIOUS
    <3>1. /\ k + i \in 1..(Len(p) + Len(s)) /\ ~(k + i <= Len(p)) /\ (k + i) - Len(p) = i
      BY <1>1, <2>1, <2>2
    <3> QED BY <2>1, <3>1
  <2>4. \A i \in 1..k : p[i] = u[i]
    BY <1>1, <1>2, <2>1, <2>2
  <2> HIDE DEF u, k
  <2>5. p = u
    BY <1>2, <2>2, <2>4, SeqEqual
  <2> QED BY <1>3, <2>2, <2>3, <2>5
<1>5. ASSUME IsSuffix(s, t)
      PROVE  u \in Seq(S) /\ t = u \o s
  <2>1. Len(s) <= Len(t) /\ \A i \in 1..Len(s) : s[i] = t[k + i]
    BY <1>3, <1>5
  <2>2. u \in Seq(S) /\ Len(u) = k /\ \A i \in 1..k : u[i] = t[i]
    BY <1>2, <2>1
  <2> HIDE DEF u
  <2>3. /\ u \o s \in Seq(S) /\ Len(u \o s) = Len(u) + Len(s)
        /\ \A i \in 1..(Len(u) + Len(s)) :
             (u \o s)[i] = IF i <= Len(u) THEN u[i] ELSE s[i - Len(u)]
    BY <2>2, ConcatProperties
  <2>4. k \in Nat /\ Len(u \o s) = Len(t)
    BY <1>1, <2>1, <2>2, <2>3
  <2>5. ASSUME NEW i \in 1..Len(t) PROVE t[i] = (u \o s)[i]
    <3>1. i \in 1..(Len(u) + Len(s))
      BY <2>3, <2>4
    <3>2. CASE i <= k
      BY <2>2, <2>3, <2>4, <3>1, <3>2
    <3>3. CASE ~(i <= k)
      <4>1. i - k \in 1..Len(s) /\ k + (i - k) = i
        BY <1>1, <2>4, <3>3
      <4> QED BY <2>1, <2>2, <2>3, <3>1, <3>3, <4>1
    <3> QED BY <3>2, <3>3
  <2>6. t = u \o s
    BY <2>3, <2>4, <2>5, SeqEqual
  <2> QED BY <2>2, <2>6
<1> QED BY <1>4, <1>5

\* A queried name is a sequence of labels.
LEMMA QuerySeq == Queries \subseteq Seq(Labels) /\ << >> \in Queries
<1>1. ASSUME NEW name \in Queries PROVE name \in Seq(Labels)
  <2>1. PICK m \in 0..MaxLen : name \in [1..m -> Labels]
    BY Zenon DEF Queries, BoundedSeq, SeqOf
  <2>2. m \in Nat
    BY NamesAssumption
  <2> QED BY <2>1, <2>2, FunctionSeq
<1>2. << >> \in Queries
  <2>1. 0 \in 0..MaxLen
    BY NamesAssumption
  <2>2. << >> \in [1..0 -> Labels]
    OBVIOUS
  <2> QED BY <2>1, <2>2, Zenon DEF Queries, BoundedSeq, SeqOf
<1> QED BY <1>1, <1>2

\* The lower-case spelling of a name is a name, and is empty only for the empty name.
LEMMA LowerName ==
  ASSUME NEW name \in Seq(Labels)
  PROVE  /\ to_ascii_lowercase(name) \in Seq(Labels)
         /\ to_ascii_lowercase(name) = << >> => name = << >>
<1>1. Len(name) \in Nat /\ name \in [1..Len(name) -> Labels]
  BY LenProperties
<1>2. to_ascii_lowercase(name) \in [1..Len(name) -> Labels]
  BY <1>1, NamesAssumption DEF to_ascii_lowercase
<1>3. to_ascii_lowercase(name) \in Seq(Labels) /\ Len(to_ascii_lowercase(name)) = Len(name)
  BY <1>1, <1>2, FunctionSeq
<1>4. to_ascii_lowercase(name) = << >> => Len(name) = 0
  BY <1>3, EmptySeq
<1>5. Len(name) = 0 => name = << >>
  BY EmptySeq
<1> QED BY <1>3, <1>4, <1>5

\* What a name in lower case ends with is in lower case.
LEMMA LowerSuffix ==
  ASSUME NEW name \in Seq(Labels), NEW n \in Seq(Labels), to_ascii_lowercase(name) = n \o suffix
  PROVE  suffix = to_ascii_lowercase(suffix)
<1> DEFINE low == to_ascii_lowercase(name)
           lowSuffix == to_ascii_lowercase(suffix)
<1>1. suffix \in Seq(Labels) /\ Len(suffix) \in Nat /\ Len(n) \in Nat /\ Len(name) \in Nat
  BY NamesAssumption, LenProperties
<1>2. /\ suffix \in [1..Len(suffix) -> Labels] /\ name \in [1..Len(name) -> Labels]
      /\ DOMAIN suffix = 1..Len(suffix) /\ DOMAIN name = 1..Len(name)
  BY <1>1, LenProperties
<1>3. Len(low) = Len(name) /\ DOMAIN low = 1..Len(name)
  BY <1>1, <1>2, FunctionSeq, NamesAssumption DEF to_ascii_lowercase
<1>4. Len(n \o suffix) = Len(n) + Len(suffix)
  BY <1>1, ConcatProperties
<1>5. ASSUME NEW i \in 1..Len(suffix) PROVE Lower[suffix[i]] = suffix[i]
  <2>1. Len(n) + i \in 1..Len(name) /\ Len(n) + i > Len(n)
    BY <1>1, <1>3, <1>4
  <2>2. low[Len(n) + i] = suffix[i]
    BY <1>1, <1>4, <2>1, ConcatProperties
  <2>3. low[Len(n) + i] = Lower[name[Len(n) + i]] /\ name[Len(n) + i] \in Labels
    BY <1>2, <2>1 DEF to_ascii_lowercase
  <2> QED BY <2>2, <2>3, NamesAssumption
<1> QED BY <1>2, <1>5 DEF to_ascii_lowercase

\* What resolve answers, for a name and the name of a peer.
LEMMA Resolved ==
  ASSUME NEW name \in Seq(Labels), NEW r, r = resolve(name)
  PROVE  /\ r.addrs # {} => /\ r.kind = "Answer"
                            /\ \E n \in DOMAIN addresses : /\ name = n \o suffix
                                                          /\ r.addrs = addresses[n]
         /\ \A n \in Seq(Labels) : name = n \o suffix /\ n # << >> =>
              IF n \in DOMAIN addresses THEN r.kind = "Answer" /\ r.addrs = addresses[n]
                                        ELSE r.addrs = {}
         /\ (\A n \in DOMAIN addresses : addresses[n] \in (SUBSET Addrs)) => r \in Replies
<1> DEFINE label == SubSeq(name, 1, Len(name) - Len(suffix))
           found == matches_suffix(name) /\ label # << >> /\ label \in DOMAIN addresses
<1>1. suffix \in Seq(Labels)
  BY NamesAssumption
<1>2. \A n \in Seq(Labels) : name = n \o suffix <=> matches_suffix(name) /\ n = label
  BY <1>1, NameSplit DEF matches_suffix
<1>3. matches_suffix(name) => label \in Seq(Labels)
  BY <1>1, NameSplit DEF matches_suffix
<1>4. /\ ~matches_suffix(name) => r = NotMine
      /\ found => r = [kind |-> "Answer", addrs |-> addresses[label]]
      /\ matches_suffix(name) /\ ~found => r = NxDomain
  BY DEF resolve
<1> HIDE DEF label
<1>5. NotMine.addrs = {} /\ NxDomain.addrs = {} /\ {NotMine, NxDomain} \subseteq Replies
  BY DEF NotMine, NxDomain, Replies
<1>6. found => r.kind = "Answer" /\ r.addrs = addresses[label]
  BY <1>4
<1>7. r.addrs # {} => found
  BY <1>4, <1>5
<1>8. found => name = label \o suffix
  BY <1>2, <1>3
<1>9. (\A n \in DOMAIN addresses : addresses[n] \in (SUBSET Addrs)) => r \in Replies
  BY <1>4, <1>5 DEF Replies
<1>10. ASSUME NEW n \in Seq(Labels), name = n \o suffix, n # << >>
       PROVE  IF n \in DOMAIN addresses THEN r.kind = "Answer" /\ r.addrs = addresses[n]
                                         ELSE r.addrs = {}
  <2>1. matches_suffix(name) /\ n = label
    BY <1>2, <1>10
  <2> QED BY <1>10, <2>1, <1>4, <1>5, <1>6
<1> QED BY <1>6, <1>7, <1>8, <1>9, <1>10

\* Before the first session.
LEMMA NamesInitially == NamesInit => NamesInv
<1> SUFFICES ASSUME NamesInit PROVE NamesInv
  OBVIOUS
<1>1. /\ serving \in BOOLEAN /\ gone \subseteq Peers /\ DOMAIN addresses = {}
      /\ reachable = [p \in Peers |-> {}] /\ query = << >> /\ reply = NotMine
  <2>1. /\ serving \in BOOLEAN /\ gone \subseteq Peers /\ addresses = << >>
        /\ reachable = [p \in Peers |-> {}] /\ query = << >> /\ reply = NotMine
    BY Zenon DEF NamesInit
  <2>2. DOMAIN addresses = {}
    BY <2>1
  <2> QED BY <2>1, <2>2
<1>2. reply \in Replies /\ query \in Queries
  BY <1>1, QuerySeq DEF Replies, NotMine
<1> QED BY <1>1, <1>2 DEF NamesInv, NamesTypeOK

\* Sessions come and go, and queries are answered.
LEMMA NamesStep == NamesInv /\ [NamesNext]_namesVars => NamesInv'
<1> SUFFICES ASSUME NamesInv, [NamesNext]_namesVars PROVE NamesInv'
  OBVIOUS
<1> DEFINE low(p) == to_ascii_lowercase(p)
<1>1. CASE UNCHANGED namesVars
  BY <1>1 DEF namesVars, NamesInv, NamesTypeOK
<1>2. CASE StopServing
  BY <1>2 DEF StopServing, NamesInv, NamesTypeOK
<1>3. ASSUME NEW p \in Peers, NEW addrs \in (SUBSET Addrs) \ {{}}, set(p, addrs)
      PROVE  NamesInv'
  <2> HIDE DEF low
  <2>1. /\ DOMAIN addresses' = DOMAIN addresses \cup {low(p)}
        /\ \A n \in DOMAIN addresses' : addresses'[n] = IF n = low(p) THEN addrs ELSE addresses[n]
    BY <1>3 DEF set, With, low
  <2>2. /\ reachable' \in [Peers -> SUBSET Addrs]
        /\ \A q \in Peers : reachable'[q] = IF q = p THEN addrs ELSE reachable[q]
    BY <1>3 DEF set, NamesInv, NamesTypeOK
  <2>3. NamesTypeOK'
    BY <1>3, <2>1, <2>2 DEF set, NamesInv, NamesTypeOK, low
  <2>4. ASSUME NEW n \in DOMAIN addresses'
        PROVE  \E q \in Peers : low(q) = n /\ reachable'[q] = addresses'[n]
    <3>1. CASE n = low(p)
      BY <2>1, <2>2, <3>1
    <3>2. CASE n # low(p)
      <4>1. PICK q \in Peers : low(q) = n /\ reachable[q] = addresses[n]
        BY <2>1, <3>2 DEF NamesInv, low
      <4> QED BY <2>1, <2>2, <3>2, <4>1
    <3> QED BY <3>1, <3>2
  <2>5. ASSUME NEW q \in Peers, Unambiguous(q), reachable'[q] # {}
        PROVE  low(q) \in DOMAIN addresses'
    BY <2>1, <2>2, <2>5 DEF NamesInv, low
  <2> QED BY <2>3, <2>4, <2>5 DEF NamesInv, low, Unambiguous
<1>4. ASSUME NEW p \in Peers, remove(p)
      PROVE  NamesInv'
  <2> HIDE DEF low
  <2>1. /\ DOMAIN addresses' = (DOMAIN addresses) \ {low(p)}
        /\ \A n \in DOMAIN addresses' : addresses'[n] = addresses[n]
    BY <1>4 DEF remove, Without, low
  <2>2. /\ reachable' \in [Peers -> SUBSET Addrs]
        /\ \A q \in Peers : reachable'[q] = IF q = p THEN {} ELSE reachable[q]
    BY <1>4 DEF remove, NamesInv, NamesTypeOK
  <2>3. NamesTypeOK'
    BY <1>4, <2>1, <2>2 DEF remove, NamesInv, NamesTypeOK, low
  <2>4. ASSUME NEW n \in DOMAIN addresses'
        PROVE  \E q \in Peers : low(q) = n /\ reachable'[q] = addresses'[n]
    <3>1. PICK q \in Peers : low(q) = n /\ reachable[q] = addresses[n]
      BY <2>1 DEF NamesInv, low
    <3> QED BY <2>1, <2>2, <3>1
  <2>5. ASSUME NEW q \in Peers, Unambiguous(q), reachable'[q] # {}
        PROVE  low(q) \in DOMAIN addresses'
    <3>1. q # p /\ reachable[q] # {}
      BY <2>2, <2>5
    <3>2. low(q) # low(p)
      BY <2>5, <3>1 DEF Unambiguous, low
    <3>3. low(q) \in DOMAIN addresses
      BY <2>5, <3>1 DEF NamesInv, low
    <3> QED BY <2>1, <3>2, <3>3
  <2> QED BY <2>3, <2>4, <2>5 DEF NamesInv, low, Unambiguous
<1>5. ASSUME NEW name \in Queries, handle_packet(name)
      PROVE  NamesInv'
  <2>1. low(name) \in Seq(Labels)
    BY QuerySeq, LowerName
  <2>2. reply' = resolve(low(name))
    BY <1>5 DEF handle_packet
  <2>3. reply' \in Replies
    BY <2>1, <2>2, Resolved DEF NamesInv, NamesTypeOK
  <2> QED BY <1>5, <2>3 DEF handle_packet, NamesInv, NamesTypeOK
<1> QED BY <1>1, <1>2, <1>3, <1>4, <1>5 DEF NamesNext

\* For every set of peers and spelling, what is stored under a name is what the session of
\* a peer of that name has registered last (PeerNames::set and remove).
THEOREM NamesInvariant == NamesSpec => []NamesInv
BY NamesInitially, NamesStep, PTL DEF NamesSpec

\* For every set of peers, spelling and suffix, a query is answered with the addresses
\* that a peer it asks for has registered last (PeerNames::set, remove and resolve).
THEOREM NamesResolvesToReachable == NamesSpec => ResolvesToReachable
<1>1. ASSUME NamesInv, [NamesNext]_namesVars, <<query, reply>>' # <<query, reply>>
      PROVE  /\ suffix = to_ascii_lowercase(suffix) =>
                  \A p \in Peers : AsksFor(query', p) /\ Unambiguous(p) =>
                    /\ reachable[p] # {} => reply'.kind = "Answer"
                    /\ reply'.addrs = reachable[p]
             /\ reply'.addrs # {} =>
                  \E p \in Peers : AsksFor(query', p) /\ reply'.addrs = reachable[p]
  <2> DEFINE low(p) == to_ascii_lowercase(p)
  <2>1. PICK name \in Queries : handle_packet(name)
    BY <1>1 DEF NamesNext, namesVars, StopServing, set, remove
  <2>2. low(name) \in Seq(Labels) /\ query' = name /\ reply' = resolve(low(name))
    BY <2>1, QuerySeq, LowerName DEF handle_packet
  <2>3. \A q \in Peers : AsksFor(query', q) <=> low(name) = low(q) \o low(suffix)
    BY <2>2 DEF AsksFor
  <2>4. ASSUME suffix = low(suffix), NEW p \in Peers, AsksFor(query', p), Unambiguous(p)
        PROVE  /\ reachable[p] # {} => reply'.kind = "Answer"
               /\ reply'.addrs = reachable[p]
    <3>1. low(p) \in Seq(Labels) /\ low(p) # << >> /\ low(name) = low(p) \o suffix
      BY <2>3, <2>4, LowerName, NamesAssumption DEF Unambiguous
    <3>2. IF low(p) \in DOMAIN addresses
          THEN reply'.kind = "Answer" /\ reply'.addrs = addresses[low(p)]
          ELSE reply'.addrs = {}
      BY <2>2, <3>1, Resolved
    <3>3. CASE low(p) \in DOMAIN addresses
      <4>1. PICK q \in Peers : low(q) = low(p) /\ reachable[q] = addresses[low(p)]
        BY <1>1, <3>3 DEF NamesInv
      <4>2. q = p
        BY <2>4, <4>1 DEF Unambiguous
      <4> QED BY <3>2, <3>3, <4>1, <4>2
    <3>4. CASE low(p) \notin DOMAIN addresses
      BY <1>1, <2>4, <3>2, <3>4 DEF NamesInv
    <3> QED BY <3>3, <3>4
  <2>5. ASSUME reply'.addrs # {}
        PROVE  \E p \in Peers : AsksFor(query', p) /\ reply'.addrs = reachable[p]
    <3>1. PICK n \in DOMAIN addresses : low(name) = n \o suffix /\ reply'.addrs = addresses[n]
      BY <2>2, <2>5, Resolved
    <3>2. PICK p \in Peers : low(p) = n /\ reachable[p] = addresses[n]
      BY <1>1 DEF NamesInv
    <3>3. low(p) \in Seq(Labels) /\ name \in Seq(Labels)
      BY QuerySeq, LowerName, NamesAssumption
    <3>4. suffix = low(suffix)
      BY <3>1, <3>2, <3>3, LowerSuffix
    <3> QED BY <2>3, <3>1, <3>2, <3>4
  <2> QED BY <2>4, <2>5
<1> QED BY <1>1, NamesInvariant, PTL DEF NamesSpec, ResolvesToReachable
=============================================================================
