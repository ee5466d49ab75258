--------------------------- MODULE IncomingRouter ---------------------------
(***************************************************************************)
(* The router of accepted connections (src/src/connection.rs) between the  *)
(* endpoint's listener and the links of the configured peers, which        *)
(* main.rs registers one by one and then spawns the router.  The router is *)
(* one task that waits for room in the channel of the peer it serves.      *)
(***************************************************************************)
EXTENDS Naturals, Sequences, FiniteSets, SequencesExt

CONSTANTS
  Names,        \* the configured peers
  PublicKeys,   \* public keys that may connect
  KeyOf,        \* name -> the configured public key
  None,         \* no name, no connection
  ChannelCap,   \* capacity of a peer's channel
  ListenCap,    \* capacity of the listener's channel
  MaxArrivals   \* bound: connections accepted in a behaviour

ASSUME RouterAssumption ==
  /\ KeyOf \in [Names -> PublicKeys]
  /\ {ChannelCap, ListenCap, MaxArrivals} \subseteq Nat \ {0}
  /\ None \notin Names \cup Nat

VARIABLES
  todo,      \* names the loop of main.rs has still to register
  by_peer,   \* key -> the name whose channel is registered, or None
  router,    \* "setup", "running" or "returned"
  arrived,   \* history: the remote key of every accepted connection
  incoming,  \* the listener's channel
  listening, \* the listener still accepts
  current,   \* the connection dispatch() has in hand, or None
  channel,   \* name -> the connections in its channel
  taken,     \* name -> the connections its link has received, in order
  ended,     \* names whose link has dropped its receiver
  refused,   \* connections closed as "unknown peer"
  lost       \* connections dropped because the link had ended

setupVars  == <<todo, by_peer, router>>
listenVars == <<arrived, listening>>
linkVars   == <<taken, ended>>
routerVars == <<setupVars, listenVars, incoming, current, channel, linkVars,
                refused, lost>>

Conns == 1..Len(arrived)

RouterTypeOK ==
  /\ todo \subseteq Names
  /\ by_peer \in [PublicKeys -> Names \cup {None}]
  /\ router \in {"setup", "running", "returned"}
  /\ arrived \in Seq(PublicKeys) /\ listening \in BOOLEAN
  /\ incoming \in Seq(Conns) /\ Len(incoming) <= ListenCap
  /\ current \in Conns \cup {None}
  /\ {channel, taken} \subseteq [Names -> Seq(Conns)]
  /\ \A n \in Names : Len(channel[n]) <= ChannelCap
  /\ ended \subseteq Names /\ refused \subseteq Conns /\ lost \subseteq Conns

RouterInit ==
  /\ todo = Names /\ by_peer = [k \in PublicKeys |-> None] /\ router = "setup"
  /\ arrived = << >> /\ incoming = << >> /\ listening = TRUE /\ current = None
  /\ channel = [n \in Names |-> << >>] /\ taken = [n \in Names |-> << >>]
  /\ ended = {} /\ refused = {} /\ lost = {}

\* The iteration of main.rs for one peer: a key that is already there keeps
\* its last channel only.
Register(n) ==
  /\ n \in todo /\ todo' = todo \ {n}
  /\ by_peer' = [by_peer EXCEPT ![KeyOf[n]] = n]
  /\ UNCHANGED <<router, listenVars, incoming, current, channel, linkVars, refused, lost>>

\* tokio::spawn(incoming_router.run(node.listen_any())).
SpawnRun ==
  /\ router = "setup" /\ todo = {}
  /\ router' = "running"
  /\ UNCHANGED <<todo, by_peer, listenVars, incoming, current, channel, linkVars, refused, lost>>

Accepted(k) ==
  /\ router = "running" /\ listening /\ Len(incoming) < ListenCap /\ Len(arrived) < MaxArrivals
  /\ arrived' = Append(arrived, k)
  /\ incoming' = Append(incoming, Len(arrived) + 1)
  /\ UNCHANGED <<setupVars, listening, current, channel, linkVars, refused, lost>>

ListenerEnds ==
  /\ router = "running" /\ listening /\ listening' = FALSE
  /\ UNCHANGED <<setupVars, arrived, incoming, current, channel, linkVars, refused, lost>>

\* incoming.recv() yields a connection; the lookup in dispatch().
RecvIncoming ==
  /\ router = "running" /\ current = None /\ incoming # << >>
  /\ incoming' = Tail(incoming)
  /\ LET conn == Head(incoming)
     IN  IF by_peer[arrived[conn]] = None
         THEN refused' = refused \cup {conn} /\ UNCHANGED current
         ELSE current' = conn /\ UNCHANGED refused
  /\ UNCHANGED <<setupVars, listenVars, channel, linkVars, lost>>

\* Mutant of Submit: try_send instead of send.
SubmitTry ==
  /\ current # None /\ current' = None
  /\ LET n == by_peer[arrived[current]]
     IN  IF n \in ended \/ Len(channel[n]) = ChannelCap
         THEN lost' = lost \cup {current} /\ UNCHANGED channel
         ELSE channel' = [channel EXCEPT ![n] = Append(@, current)] /\ UNCHANGED lost
  /\ UNCHANGED <<setupVars, listenVars, incoming, linkVars, refused>>

\* Mutant of Submit: a channel without a capacity.
SubmitUnbounded ==
  /\ current # None /\ current' = None
  /\ LET n == by_peer[arrived[current]]
     IN  channel' = [channel EXCEPT ![n] = Append(@, current)] /\ UNCHANGED lost
  /\ UNCHANGED <<setupVars, listenVars, incoming, linkVars, refused>>

\* sender.send(conn).await completes: there is room, or the receiver is gone.
Submit ==
  /\ current # None /\ current' = None
  /\ LET n == by_peer[arrived[current]]
     IN  \/ /\ n \notin ended /\ Len(channel[n]) < ChannelCap
            /\ channel' = [channel EXCEPT ![n] = Append(@, current)] /\ UNCHANGED lost
         \/ /\ n \in ended
            /\ lost' = lost \cup {current} /\ UNCHANGED channel
  /\ UNCHANGED <<setupVars, listenVars, incoming, linkVars, refused>>

\* Mutant of RunReturns: connections still in the channel are left.
RunReturnsEarly ==
  /\ router = "running" /\ current = None /\ ~listening
  /\ router' = "returned"
  /\ by_peer' = [k \in PublicKeys |-> None]
  /\ UNCHANGED <<todo, listenVars, incoming, current, channel, linkVars, refused, lost>>

\* The listener is gone and its channel is empty: run() returns.
RunReturns ==
  /\ router = "running" /\ current = None /\ ~listening /\ incoming = << >>
  /\ router' = "returned"
  /\ by_peer' = [k \in PublicKeys |-> None]
  /\ UNCHANGED <<todo, listenVars, incoming, current, channel, linkVars, refused, lost>>

\* rx.recv() inside the link's incoming stream.
LinkTakes(n) ==
  /\ n \notin ended /\ channel[n] # << >>
  /\ taken' = [taken EXCEPT ![n] = Append(@, Head(channel[n]))]
  /\ channel' = [channel EXCEPT ![n] = Tail(@)]
  /\ UNCHANGED <<setupVars, listenVars, incoming, current, ended, refused, lost>>

\* The link ends and drops its receiver with what is in the channel.
LinkEnds(n) ==
  /\ n \notin ended /\ ended' = ended \cup {n}
  /\ lost' = lost \cup Range(channel[n])
  /\ channel' = [channel EXCEPT ![n] = << >>]
  /\ UNCHANGED <<setupVars, listenVars, incoming, current, taken, refused>>

Setup  == SpawnRun \/ \E n \in Names : Register(n)
Router == RecvIncoming \/ Submit \/ RunReturns
RouterNext ==
  \/ Setup \/ Router \/ ListenerEnds
  \/ \E k \in PublicKeys : Accepted(k)
  \/ \E n \in Names : LinkTakes(n) \/ LinkEnds(n)

\* main.rs reaches the spawn, the router task is polled when woken, and a link
\* that has not ended polls its incoming stream.
RouterFairness ==
  /\ WF_routerVars(Setup) /\ WF_routerVars(Router)
  /\ \A n \in Names : WF_routerVars(LinkTakes(n))

RouterSpec == RouterInit /\ [][RouterNext]_routerVars /\ RouterFairness
-----------------------------------------------------------------------------
\* The connections the router has not dispatched, and those that reached a link.
onWay  == (IF current = None THEN << >> ELSE <<current>>) \o incoming
got(n) == taken[n] \o channel[n]

Ascending(s) == \A i, j \in DOMAIN s : i < j => s[i] < s[j]

\* While the router runs, the connections that reached the link of a peer are
\* those its key has made but the ones still on their way, each once and in the
\* order they were accepted; no other link gets any (register, run, dispatch).
DeliveredInOrder ==
  router = "running" =>
    \A n \in Names \ ended :
      IF by_peer[KeyOf[n]] = n
      THEN /\ Ascending(got(n) \o onWay)
           /\ Range(got(n)) = {c \in Conns : arrived[c] = KeyOf[n]} \ Range(onWay)
      ELSE got(n) = << >>

\* No connection vanishes, and none of a configured peer is refused.
Accounted ==
  /\ \A c \in Conns : \/ c \in refused \cup lost \cup Range(onWay)
                       \/ \E n \in Names : c \in Range(got(n))
  /\ \A c \in refused, n \in Names : arrived[c] # KeyOf[n]

\* The inductive invariant: nothing is accepted before every peer is registered, and
\* a channel is registered under the key of its peer.
RouterInv ==
  /\ RouterTypeOK /\ DeliveredInOrder /\ Accounted
  /\ router = "setup" => arrived = << >>
  /\ router # "setup" => todo = {}
  /\ router = "returned" => incoming = << >>
  /\ router # "returned" => \A n \in Names \ todo : by_peer[KeyOf[n]] # None
  /\ \A k \in PublicKeys : by_peer[k] # None => KeyOf[by_peer[k]] = k
  /\ current # None => router = "running" /\ by_peer[arrived[current]] # None

\* Every accepted connection is eventually taken by a link, closed, or dropped
\* with an ended link: no peer whose link is busy or has ended holds up the
\* router for ever (dispatch awaits send on a bounded channel).
EveryConnectionSettled ==
  \A c \in 1..MaxArrivals :
    c \in Conns ~> c \in refused \cup lost \cup UNION {Range(taken[n]) : n \in Names}
=============================================================================
