------------------------------- MODULE Names --------------------------------
(***************************************************************************)
(* Peer names as DNS (src/src/dns.rs).  A domain name is its sequence of   *)
(* labels.  Each session registers its addresses under the name it has in  *)
(* the configuration; queries arrive in any spelling.                      *)
(***************************************************************************)
EXTENDS Naturals, Sequences, SequencesExt, FiniteSets

CONSTANTS
  Peers,    \* the names of the [peers] table, sequences of labels
  Labels,   \* every spelling of a label
  Lower,    \* label -> its lower-case spelling
  suffix,   \* the configured suffix, as it is spelled there
  Addrs,    \* the addresses a peer may be reachable at
  MaxLen    \* bound: labels in a queried name

ASSUME NamesAssumption ==
  /\ Lower \in [Labels -> Labels]
  /\ \A l \in Labels : Lower[Lower[l]] = Lower[l]
  /\ Peers \subseteq Seq(Labels) /\ suffix \in Seq(Labels) /\ MaxLen \in Nat

VARIABLES
  serving,    \* tun_rx_loop runs and hands queries to the server
  gone,       \* peers whose session has returned
  addresses,  \* the DashMap: lower-case name -> addresses
  reachable,  \* peer -> the addresses its session has registered last
  query,      \* the name asked for last, as the client spelled it
  reply       \* the reply to it

namesVars == <<serving, gone, addresses, reachable, query, reply>>

Queries == BoundedSeq(Labels, MaxLen)
Replies == [kind : {"NotMine", "NxDomain"}, addrs : {{}}]
           \cup [kind : {"Answer"}, addrs : SUBSET Addrs]

to_ascii_lowercase(name) == [i \in DOMAIN name |-> Lower[name[i]]]

NamesTypeOK ==
  /\ serving \in BOOLEAN /\ gone \subseteq Peers
  /\ DOMAIN addresses \subseteq {to_ascii_lowercase(p) : p \in Peers}
  /\ \A n \in DOMAIN addresses : addresses[n] \in (SUBSET Addrs) \ {{}}
  /\ reachable \in [Peers -> SUBSET Addrs]
  /\ query \in Queries
  /\ reply \in Replies

NotMine == [kind |-> "NotMine", addrs |-> {}]
NxDomain == [kind |-> "NxDomain", addrs |-> {}]

NamesInit ==
  /\ serving = TRUE /\ gone = {}
  /\ addresses = << >>
  /\ reachable = [p \in Peers |-> {}]
  /\ query = << >>
  /\ reply = NotMine

Without(f, n) == [m \in (DOMAIN f) \ {n} |-> f[m]]
With(f, n, v) == [m \in (DOMAIN f) \cup {n} |-> IF m = n THEN v ELSE f[m]]

\* Mutant of set: the key keeps its spelling.
SetAsSpelled(p, addrs) ==
  /\ p \notin gone
  /\ addresses' = With(addresses, p, addrs)
  /\ reachable' = [reachable EXCEPT ![p] = addrs]
  /\ UNCHANGED <<serving, gone, query, reply>>

\* The handshake of p ended with addrs (never empty when it succeeds).
set(p, addrs) ==
  /\ p \notin gone
  /\ addresses' = With(addresses, to_ascii_lowercase(p), addrs)
  /\ reachable' = [reachable EXCEPT ![p] = addrs]
  /\ UNCHANGED <<serving, gone, query, reply>>

\* Mutant of remove: the key keeps its spelling.
RemoveAsSpelled(p) ==
  /\ p \notin gone /\ gone' = gone \cup {p}
  /\ addresses' = Without(addresses, p)
  /\ reachable' = [reachable EXCEPT ![p] = {}]
  /\ UNCHANGED <<serving, query, reply>>

\* The session of p has withdrawn its routes and returns.
remove(p) ==
  /\ p \notin gone /\ gone' = gone \cup {p}
  /\ addresses' = Without(addresses, to_ascii_lowercase(p))
  /\ reachable' = [reachable EXCEPT ![p] = {}]
  /\ UNCHANGED <<serving, query, reply>>

matches_suffix(name) == IsSuffix(suffix, name)

resolve(name) ==
  LET label == SubSeq(name, 1, Len(name) - Len(suffix))
  IN  CASE ~matches_suffix(name) -> NotMine
        [] matches_suffix(name) /\ label # << >> /\ label \in DOMAIN addresses ->
             [kind |-> "Answer", addrs |-> addresses[label]]
        [] OTHER -> NxDomain

\* handle_packet: lower-case the question, resolve it.
handle_packet(name) ==
  /\ serving
  /\ query' = name
  /\ reply' = resolve(to_ascii_lowercase(name))
  /\ UNCHANGED <<serving, gone, addresses, reachable>>

\* tun_rx_loop ends with the TUN device; the sessions go on.
StopServing ==
  /\ serving /\ serving' = FALSE
  /\ UNCHANGED <<gone, addresses, reachable, query, reply>>

NamesNext ==
  \/ StopServing
  \/ \E p \in Peers, addrs \in (SUBSET Addrs) \ {{}} : set(p, addrs)
  \/ \E p \in Peers : remove(p)
  \/ \E name \in Queries : handle_packet(name)

NamesSpec == NamesInit /\ [][NamesNext]_namesVars
-----------------------------------------------------------------------------
\* Does the name, in whatever spelling, ask for peer p?
AsksFor(name, p) ==
  to_ascii_lowercase(name) = to_ascii_lowercase(p) \o to_ascii_lowercase(suffix)

\* No other peer of the configuration has p's name in another spelling; the
\* configuration may have such peers, and one whose name is empty.
Unambiguous(p) ==
  p # << >> /\ \A q \in Peers : to_ascii_lowercase(q) = to_ascii_lowercase(p) => q = p

\* If the suffix is configured in lower case, the answer to a query for p.<suffix>, in
\* any spelling, is the addresses that the session of p has registered last
\* (PeerNames::set, remove and resolve).  Whatever the suffix, no query is answered
\* with addresses but those of a peer it asks for: where two peers share a name up to
\* its spelling, of one of the two.
ResolvesToReachable ==
  [][<<query, reply>>' # <<query, reply>> =>
       /\ suffix = to_ascii_lowercase(suffix) =>
            \A p \in Peers : AsksFor(query', p) /\ Unambiguous(p) =>
              /\ reachable[p] # {} => reply'.kind = "Answer"
              /\ reply'.addrs = reachable[p]
       /\ reply'.addrs # {} =>
            \E p \in Peers : AsksFor(query', p) /\ reply'.addrs = reachable[p]]_namesVars

\* The inductive invariant behind it (PeerNames::set and remove): what is stored under
\* a name is what the session of a peer of that name registered last, never what a
\* session that has returned left behind, and nothing is missing but what a peer of the
\* same name has removed.
NamesInv ==
  /\ NamesTypeOK
  /\ \A n \in DOMAIN addresses :
       \E p \in Peers : to_ascii_lowercase(p) = n /\ reachable[p] = addresses[n]
  /\ \A p \in Peers :
       Unambiguous(p) /\ reachable[p] # {} => to_ascii_lowercase(p) \in DOMAIN addresses
=============================================================================
