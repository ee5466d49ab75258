-------------------------- MODULE SessionsProofs --------------------------
(* The sessions' invariants, for any peers, addresses, links and OS faults: *)
(* what is proved of the relay alone carries over, and each session's own   *)
(* invariant is disturbed by no step but its own.                           *)
EXTENDS Sessions, RelayProofs

-----------------------------------------------------------------------------
(* The sessions use the relay as the relay's specification allows.         *)

\* Every step of the sessions, the links and the OS is a step of the relay or
\* leaves the relay alone: run() makes its calls one at a time, and with the
\* value of a connection its link has made.
LEMMA RelayStepOrStutter == SessionsInv /\ [Next]_vars => [RelayNext]_relayVars
<1> SUFFICES ASSUME SessionsInv, [Next]_vars
             PROVE  [RelayNext]_relayVars
  OBVIOUS
<1>1. ASSUME NEW p \in Peers, Link(p)
      PROVE  UNCHANGED relayVars
  BY <1>1 DEF Link, LinkUp, ConnClosed, LinkDown, LinkEnd
<1>2. ASSUME NEW p \in Peers, SessionStep(p)
      PROVE  Call(p) \/ UNCHANGED relayVars
  <2>1. routes[p] \in SUBSET Ips
    BY DEF SessionsInv, TypeOK
  <2> QED
    BY <1>2, <2>1 DEF SessionStep, SeeConnection, SeeDisconnect, SeeEnd, RecvEnded,
         ParkRoutes, Call
<1>3. ASSUME NEW p \in Peers, Handshake(p)
      PROVE  Call(p) \/ UNCHANGED relayVars
  <2>1. CASE HandshakeErr(p)
    BY <2>1 DEF HandshakeErr
  <2>2. ASSUME NEW adv \in SUBSET Addrs[p], HandshakeOk(p, adv)
        PROVE  Call(p)
    <3>1. conn[p] \in 1..MaxConn
      BY <2>2, RelayAssumption DEF SessionsInv, TypeOK, SessionInv, LocalInv, HandshakeOk
    <3>2. adv \in SUBSET Ips /\ routes[p] \in SUBSET Ips
      BY SessionsAssumption DEF SessionsInv, TypeOK
    <3> QED
      BY <2>2, <3>1, <3>2 DEF HandshakeOk, Call
  <2> QED
    BY <1>3, <2>1, <2>2 DEF Handshake
<1>4. ASSUME NEW p \in Peers, RelayStep(p)
      PROVE  Progress(p)
  BY <1>4 DEF RelayStep, Withdrawn, Registered, RegisterFailed, Progress
<1>5. ASSUME NEW ip \in Ips, OsStep(ip)
      PROVE  Os
  BY <1>5 DEF OsStep, Os
<1>6. CASE TunFails \/ UNCHANGED vars
  BY <1>6 DEF TunFails, vars
<1> QED
  BY <1>1, <1>2, <1>3, <1>4, <1>5, <1>6 DEF Next, RelayNext

\* So a step of the sessions keeps the relay's invariant.
LEMMA RelayInvKept == SessionsInv /\ [Next]_vars => RelayInv'
  BY RelayStepOrStutter, NextInv DEF SessionsInv

-----------------------------------------------------------------------------
(* One session at a time.                                                  *)

\* The step leaves session q, its link and its addresses' entries alone.
Untouched(q) ==
  /\ pc'[q] = pc[q] /\ routes'[q] = routes[q] /\ conn'[q] = conn[q]
  /\ dns'[q] = dns[q] /\ latest'[q] = latest[q] /\ published'[q] = published[q]
  /\ step'[q] = step[q] /\ current'[q] = current[q] /\ stale'[q] = stale[q]
  /\ value'[q] = value[q]
  /\ \A ip \in Addrs[q] : peer_map'[ip] = peer_map[ip]

\* Such a step keeps the session's invariant.
LEMMA UntouchedInv ==
  ASSUME SessionsInv, NEW q \in Peers, Untouched(q)
  PROVE  SessionInv(q)'
<1>1. SessionInv(q) /\ Addrs[q] \subseteq Ips
  BY SessionsAssumption DEF SessionsInv
<1>2. (Entries \cap Addrs[q])' = Entries \cap Addrs[q]
  BY <1>1 DEF Untouched, Entries
<1>3. CallInv(q)'
  BY <1>1 DEF Untouched, SessionInv, CallInv
<1>4. EntryInv(q)'
  BY <1>1, <1>2 DEF Untouched, SessionInv, EntryInv
<1>5. ValueInv(q)'
  BY <1>1, <1>2 DEF Untouched, SessionInv, ValueInv
<1>6. LocalInv(q)'
  BY <1>1 DEF Untouched, SessionInv, LocalInv
<1> QED
  BY <1>3, <1>4, <1>5, <1>6 DEF SessionInv

\* A step of session p, which touches only the entries of its own addresses.
LEMMA OwnStep ==
  ASSUME SessionsInv, TypeOK', RelayInv', NEW p \in Peers, SessionInv(p)',
         \A ip \in Ips : ip \in Addrs[p] \/ peer_map'[ip] = peer_map[ip],
         \A q \in Peers \ {p} :
            (\A ip \in Addrs[q] : peer_map'[ip] = peer_map[ip]) => Untouched(q)
  PROVE  SessionsInv'
<1>1. ASSUME NEW q \in Peers, q # p
      PROVE  SessionInv(q)'
  <2>1. \A ip \in Addrs[q] : peer_map'[ip] = peer_map[ip]
    BY <1>1, SessionsAssumption
  <2> QED
    BY <1>1, <2>1, UntouchedInv
<1>2. \A ip \in Entries' : \E q \in Peers : ip \in Addrs[q]
  BY DEF SessionsInv, Entries
<1> QED
  BY <1>1, <1>2 DEF SessionsInv

\* Every step keeps the types of the sessions' and the links' state.
LEMMA TypeKept == SessionsInv /\ [Next]_vars => TypeOK'
<1> SUFFICES ASSUME SessionsInv, [Next]_vars
             PROVE  TypeOK'
  OBVIOUS
<1> USE RelayAssumption DEF sessionVars, linkVars
<1>1. RelayTypeOK' /\ TypeOK
  BY RelayInvKept DEF RelayInv, SessionsInv
<1>2. ASSUME NEW p \in Peers, Link(p)
      PROVE  TypeOK'
  <2>1. CASE LinkUp(p)
    <3>1. latest[p] + 1 \in 0..MaxConn
      BY <1>1, <2>1 DEF LinkUp, TypeOK
    <3> QED
      BY <1>1, <2>1, <3>1 DEF LinkUp, TypeOK
  <2>2. CASE ConnClosed(p)
    BY <1>1, <2>2 DEF ConnClosed, TypeOK
  <2>3. CASE LinkDown(p)
    BY <1>1, <2>3 DEF LinkDown, TypeOK
  <2>4. CASE LinkEnd(p)
    BY <1>1, <2>4 DEF LinkEnd, TypeOK
  <2> QED
    BY <1>2, <2>1, <2>2, <2>3, <2>4 DEF Link
<1>3. ASSUME NEW p \in Peers, SessionStep(p)
      PROVE  TypeOK'
  BY <1>1, <1>3 DEF SessionStep, SeeConnection, SeeDisconnect, SeeEnd, RecvEnded,
       See, Goto, Places, TypeOK
<1>4. ASSUME NEW p \in Peers, Handshake(p)
      PROVE  TypeOK'
  <2>1. CASE HandshakeErr(p)
    BY <1>1, <2>1 DEF HandshakeErr, Goto, Places, TypeOK
  <2>2. ASSUME NEW adv \in SUBSET Addrs[p], HandshakeOk(p, adv)
        PROVE  TypeOK'
    BY <1>1, <2>2 DEF HandshakeOk, Goto, Places, TypeOK
  <2> QED
    BY <1>4, <2>1, <2>2 DEF Handshake
<1>5. ASSUME NEW p \in Peers, RelayStep(p)
      PROVE  TypeOK'
  <2>1. current[p] \in SUBSET Ips
    BY <1>1 DEF TypeOK, RelayTypeOK
  <2> QED
    BY <1>1, <1>5, <2>1 DEF RelayStep, Withdrawn, Registered, RegisterFailed, Goto,
         Places, TypeOK
<1>6. ASSUME NEW ip \in Ips, OsStep(ip)
      PROVE  TypeOK'
  BY <1>1, <1>6 DEF OsStep, TypeOK
<1>7. CASE TunFails \/ UNCHANGED vars
  BY <1>1, <1>7 DEF TunFails, vars, TypeOK
<1> QED
  BY <1>2, <1>3, <1>4, <1>5, <1>6, <1>7 DEF Next

-----------------------------------------------------------------------------
(* The steps of a session and of its link.                                 *)

\* A link that changes does not disturb its session.
LEMMA LinkInv ==
  ASSUME SessionsInv, TypeOK', RelayInv', NEW p \in Peers, Link(p)
  PROVE  SessionsInv'
<1>1. TypeOK /\ SessionInv(p)
  BY DEF SessionsInv
<1>2. UNCHANGED <<relayVars, sessionVars>>
  BY DEF Link, LinkUp, ConnClosed, LinkDown, LinkEnd
<1>3. published'[p] => latest'[p] # 0
  BY <1>1, RelayAssumption DEF Link, LinkUp, ConnClosed, LinkDown, LinkEnd, TypeOK,
       SessionInv, LocalInv
<1>4. SessionInv(p)'
  BY <1>1, <1>2, <1>3 DEF relayVars, sessionVars, SessionInv, CallInv, EntryInv, ValueInv,
       LocalInv, Entries
<1>5. \A q \in Peers \ {p} : Untouched(q)
  BY <1>1, <1>2 DEF Link, LinkUp, ConnClosed, LinkDown, LinkEnd, TypeOK, Untouched,
       relayVars, sessionVars
<1> QED
  BY <1>2, <1>4, <1>5, OwnStep DEF relayVars

\* park() by a session turns its own entries into parked ones and no other.
LEMMA ParkOwn ==
  ASSUME SessionsInv, NEW p \in Peers, ParkRoutes(p)
  PROVE  /\ Entries' = Entries
         /\ step[p] = "idle" /\ UNCHANGED <<step, callVars>>
         /\ \A ip \in Entries \cap Addrs[p] : peer_map'[ip] = Parked
         /\ \A ip \in Ips : ip \in Addrs[p] \/ peer_map'[ip] = peer_map[ip]
<1>1. SessionInv(p) /\ step[p] = "idle" /\ UNCHANGED <<step, callVars>>
  BY DEF SessionsInv, ParkRoutes, Park
<1>2. Entries \cap Addrs[p] = routes[p]
  BY <1>1 DEF SessionInv, EntryInv
<1> QED
  BY <1>1, <1>2, RelayAssumption DEF ParkRoutes, Park, Entries

\* changed() yields a connection, or tells that there is none.
LEMMA SeeInv ==
  ASSUME SessionsInv, TypeOK', RelayInv', NEW p \in Peers,
         SeeConnection(p) \/ SeeDisconnect(p)
  PROVE  SessionsInv'
<1>1. TypeOK /\ RelayTypeOK /\ SessionInv(p)
  BY DEF SessionsInv, TypeOK
<1>2. CASE SeeConnection(p)
  <2>1. SessionInv(p)'
    BY <1>1, <1>2 DEF SeeConnection, Goto, relayVars, TypeOK, SessionInv, CallInv, EntryInv,
         ValueInv, LocalInv, Entries
  <2>2. \A q \in Peers \ {p} : Untouched(q)
    BY <1>1, <1>2 DEF SeeConnection, Goto, relayVars, TypeOK, Untouched
  <2> QED
    BY <1>2, <2>1, <2>2, OwnStep DEF SeeConnection, relayVars
<1>3. CASE SeeDisconnect(p)
  <2>1. ParkRoutes(p) /\ UNCHANGED <<sessionVars, latest, published>>
    BY <1>3 DEF SeeDisconnect
  <2>2. SessionInv(p)'
    BY <1>1, <1>3, <2>1, ParkOwn DEF SeeDisconnect, sessionVars, callVars, SessionInv,
         CallInv, EntryInv, ValueInv, LocalInv
  <2>3. \A q \in Peers \ {p} :
           (\A ip \in Addrs[q] : peer_map'[ip] = peer_map[ip]) => Untouched(q)
    BY <2>1, ParkOwn DEF sessionVars, callVars, Untouched
  <2> QED
    BY <2>1, <2>2, <2>3, ParkOwn, OwnStep
<1> QED
  BY <1>2, <1>3

\* recv_loop() ends: the session's entries are parked.
LEMMA RecvEndedInv ==
  ASSUME SessionsInv, TypeOK', RelayInv', NEW p \in Peers, RecvEnded(p)
  PROVE  SessionsInv'
<1>1. TypeOK /\ SessionInv(p)
  BY DEF SessionsInv
<1>2. /\ ParkRoutes(p) /\ UNCHANGED <<routes, conn, dns, latest, published>>
      /\ pc' = [pc EXCEPT ![p] = "changed"]
  BY DEF RecvEnded, Goto, linkVars
<1>3. SessionInv(p)'
  BY <1>1, <1>2, ParkOwn DEF callVars, TypeOK, SessionInv, CallInv, EntryInv, ValueInv, LocalInv
<1>4. \A q \in Peers \ {p} :
         (\A ip \in Addrs[q] : peer_map'[ip] = peer_map[ip]) => Untouched(q)
  BY <1>1, <1>2, ParkOwn DEF callVars, TypeOK, Untouched
<1> QED
  BY <1>2, <1>3, <1>4, ParkOwn, OwnStep

\* changed() fails: the session asks for the withdrawal of its routes, or has
\* none and ends.
LEMMA SeeEndInv ==
  ASSUME SessionsInv, TypeOK', RelayInv', NEW p \in Peers, SeeEnd(p)
  PROVE  SessionsInv'
<1>1. TypeOK /\ RelayTypeOK /\ SessionInv(p)
  BY DEF SessionsInv, TypeOK
<1>2. pc[p] = "changed" /\ UNCHANGED <<peer_map, current, value, routes, conn, latest, published>>
  BY DEF SeeEnd, CallRemove, relayVars, linkVars
<1>3. SessionInv(p)'
  <2>1. CASE routes[p] # {}
    <3>1. /\ step[p] = "idle" /\ step'[p] = "await_remove" /\ stale'[p] = routes[p]
          /\ pc'[p] = "withdraw" /\ dns' = dns
      BY <1>1, <2>1 DEF SeeEnd, CallRemove, Goto, TypeOK, RelayTypeOK
    <3> QED
      BY <1>1, <1>2, <3>1 DEF SessionInv, CallInv, EntryInv, ValueInv, LocalInv, Entries
  <2>2. CASE routes[p] = {}
    <3>1. pc'[p] = "ended" /\ dns'[p] = {} /\ UNCHANGED <<step, stale>>
      BY <1>1, <2>2 DEF SeeEnd, Goto, relayVars, TypeOK
    <3> QED
      BY <1>1, <1>2, <2>2, <3>1 DEF SessionInv, CallInv, EntryInv, ValueInv, LocalInv, Entries
  <2> QED
    BY <2>1, <2>2
<1>4. \A q \in Peers \ {p} : Untouched(q)
  BY <1>1, <1>2 DEF SeeEnd, CallRemove, Goto, relayVars, linkVars, TypeOK, RelayTypeOK,
       Untouched
<1> QED
  BY <1>2, <1>3, <1>4, OwnStep

\* The handshake fails: nothing but the session's place changes.
LEMMA HandshakeErrInv ==
  ASSUME SessionsInv, TypeOK', RelayInv', NEW p \in Peers, HandshakeErr(p)
  PROVE  SessionsInv'
<1>1. TypeOK /\ SessionInv(p)
  BY DEF SessionsInv
<1>2. SessionInv(p)'
  BY <1>1 DEF HandshakeErr, Goto, relayVars, TypeOK, SessionInv, CallInv, EntryInv, ValueInv,
       LocalInv, Entries
<1>3. \A q \in Peers \ {p} : Untouched(q)
  BY <1>1 DEF HandshakeErr, Goto, relayVars, TypeOK, Untouched
<1> QED
  BY <1>2, <1>3, OwnStep DEF HandshakeErr, relayVars

\* The handshake succeeds: reconcile() is called with what the session believes
\* to have in the relay.
LEMMA HandshakeOkInv ==
  ASSUME SessionsInv, TypeOK', RelayInv', NEW p \in Peers,
         NEW adv \in SUBSET Addrs[p], HandshakeOk(p, adv)
  PROVE  SessionsInv'
<1>1. TypeOK /\ RelayTypeOK /\ SessionInv(p)
  BY DEF SessionsInv, TypeOK
<1>2. /\ pc[p] = "handshake" /\ pc' = [pc EXCEPT ![p] = "reconcile"]
      /\ step[p] = "idle"
      /\ step'[p] = IF routes[p] \ adv # {} THEN "await_drop" ELSE "await_insert"
      /\ current'[p] = adv /\ stale'[p] = routes[p] \ adv /\ value'[p] = <<p, conn[p]>>
      /\ UNCHANGED <<peer_map, routes, conn, dns, latest, published>>
  BY <1>1 DEF HandshakeOk, CallReconcile, Goto, linkVars, TypeOK, RelayTypeOK
<1>3. pc'[p] = "reconcile"
  BY <1>1, <1>2 DEF TypeOK
<1>4. CallInv(p)' /\ LocalInv(p)'
  BY <1>1, <1>2, <1>3 DEF SessionInv, CallInv, LocalInv
<1>5. EntryInv(p)' /\ ValueInv(p)'
  <2>1. (Entries \cap Addrs[p])' = routes[p]
    BY <1>1, <1>2 DEF Entries, SessionInv, EntryInv
  <2>2. step'[p] = "await_insert" => routes[p] = routes[p] \cap adv
    BY <1>2
  <2>3. EntryInv(p)'
    BY <1>2, <2>1, <2>2 DEF EntryInv
  <2>4. ValueInv(p)'
    BY <1>1, <1>2, <1>3 DEF SessionInv, ValueInv, Entries
  <2> QED
    BY <2>3, <2>4
<1>6. \A q \in Peers \ {p} : Untouched(q)
  BY <1>1, <1>2 DEF HandshakeOk, CallReconcile, TypeOK, RelayTypeOK, Untouched
<1> QED
  BY <1>2, <1>4, <1>5, <1>6, OwnStep DEF SessionInv

-----------------------------------------------------------------------------
(* The relay's work on a session's call.                                   *)

\* remove() returns to withdraw_routes(): the session ends with no entry.
LEMMA WithdrawnInv ==
  ASSUME SessionsInv, TypeOK', RelayInv', NEW p \in Peers, Withdrawn(p)
  PROVE  SessionsInv'
<1>1. TypeOK /\ RelayTypeOK /\ SessionInv(p)
  BY DEF SessionsInv, TypeOK
<1>2. /\ step[p] = "removing" /\ step'[p] = "idle" /\ pc'[p] = "ended"
      /\ routes'[p] = {} /\ dns'[p] = {}
      /\ UNCHANGED <<peer_map, current, stale, value, conn, latest, published>>
  BY <1>1 DEF Withdrawn, FinishRemove, Goto, callVars, linkVars, TypeOK, RelayTypeOK
<1>3. SessionInv(p)'
  BY <1>1, <1>2 DEF SessionInv, CallInv, EntryInv, ValueInv, LocalInv, Entries
<1>4. \A q \in Peers \ {p} : Untouched(q)
  BY <1>1, <1>2 DEF Withdrawn, FinishRemove, Goto, TypeOK, RelayTypeOK, Untouched
<1> QED
  BY <1>2, <1>3, <1>4, OwnStep

\* reconcile() returns Ok: the batch is exactly what the session has in the relay.
LEMMA RegisteredInv ==
  ASSUME SessionsInv, TypeOK', RelayInv', NEW p \in Peers, Registered(p)
  PROVE  SessionsInv'
<1>1. TypeOK /\ RelayTypeOK /\ SessionInv(p) /\ Addrs[p] \subseteq Ips
  BY SessionsAssumption DEF SessionsInv, TypeOK
<1>2. /\ step[p] = "inserting" /\ step'[p] = "idle"
      /\ pc[p] = "reconcile" /\ pc'[p] = "recv"
      /\ routes'[p] = current[p] /\ (DnsEnabled => dns'[p] = current[p])
      /\ UNCHANGED <<peer_map, current, stale, value, conn, latest, published>>
  BY <1>1 DEF Registered, FinishInsert, Goto, callVars, linkVars, TypeOK, RelayTypeOK
<1>3. current[p] \subseteq Addrs[p] /\ Entries \cap Addrs[p] \subseteq current[p]
  BY <1>1, <1>2 DEF SessionInv, CallInv, EntryInv
<1>4. \A ip \in current[p] : peer_map[ip] # NoEntry
  BY <1>1, <1>2, <1>3 DEF Registered, FinishInsert, SessionsInv, RelayInv, BatchInv, Inserting
<1>5. (Entries \cap Addrs[p])' = current[p]
  BY <1>1, <1>2, <1>3, <1>4 DEF Entries
<1>6. CallInv(p)' /\ LocalInv(p)'
  BY <1>1, <1>2, <1>3 DEF SessionInv, CallInv, LocalInv
<1>7. EntryInv(p)'
  BY <1>2, <1>5 DEF EntryInv
<1>8. ValueInv(p)'
  BY <1>1, <1>2 DEF SessionInv, ValueInv, Entries
<1>9. \A q \in Peers \ {p} : Untouched(q)
  BY <1>1, <1>2 DEF Registered, FinishInsert, Goto, TypeOK, RelayTypeOK, Untouched
<1> QED
  BY <1>2, <1>6, <1>7, <1>8, <1>9, OwnStep DEF SessionInv

\* reconcile() returns Err: routes.clear() is right, nothing is left.
LEMMA RegisterFailedInv ==
  ASSUME SessionsInv, TypeOK', RelayInv', NEW p \in Peers, RegisterFailed(p)
  PROVE  SessionsInv'
<1>1. TypeOK /\ RelayTypeOK /\ SessionInv(p)
  BY DEF SessionsInv, TypeOK
<1>2. /\ step[p] = "rolling_back" /\ step'[p] = "idle" /\ pc'[p] = "changed"
      /\ routes'[p] = {}
      /\ UNCHANGED <<peer_map, current, stale, value, conn, dns, latest, published>>
  BY <1>1 DEF RegisterFailed, FinishRollback, Goto, callVars, linkVars, TypeOK, RelayTypeOK
<1>3. SessionInv(p)'
  BY <1>1, <1>2 DEF SessionInv, CallInv, EntryInv, ValueInv, LocalInv, Entries
<1>4. \A q \in Peers \ {p} : Untouched(q)
  BY <1>1, <1>2 DEF RegisterFailed, FinishRollback, Goto, TypeOK, RelayTypeOK, Untouched
<1> QED
  BY <1>2, <1>3, <1>4, OwnStep

\* A step inside the relay leaves the other sessions' calls alone.
LEMMA InsideRelay ==
  ASSUME SessionsInv, TypeOK', RelayInv', NEW p \in Peers,
         NEW s \in Steps, step' = [step EXCEPT ![p] = s],
         UNCHANGED <<callVars, sessionVars, linkVars>>,
         SessionInv(p)',
         \A ip \in Ips : ip \in Addrs[p] \/ peer_map'[ip] = peer_map[ip]
  PROVE  SessionsInv'
<1>1. RelayTypeOK
  BY DEF SessionsInv, TypeOK
<1>2. \A q \in Peers \ {p} :
         (\A ip \in Addrs[q] : peer_map'[ip] = peer_map[ip]) => Untouched(q)
  BY <1>1 DEF callVars, sessionVars, linkVars, RelayTypeOK, Untouched
<1> QED
  BY <1>2, OwnStep

\* remove_locked() takes the session's own entries out of the map.
LEMMA SessionStartRemoveInv ==
  ASSUME SessionsInv, TypeOK', RelayInv', NEW p \in Peers, StartRemove(p),
         UNCHANGED <<sessionVars, linkVars>>
  PROVE  SessionsInv'
<1>1. TypeOK /\ RelayTypeOK /\ SessionInv(p)
  BY DEF SessionsInv, TypeOK
<1>2. step[p] \in {"await_remove", "await_drop"} /\ UNCHANGED callVars
  BY DEF StartRemove
<1>3. PICK s \in {"removing", "dropping"} :
         /\ step' = [step EXCEPT ![p] = s]
         /\ step[p] = "await_remove" <=> s = "removing"
  BY DEF StartRemove
<1>4. step'[p] = s
  BY <1>1, <1>3 DEF RelayTypeOK
<1>5. /\ stale[p] \subseteq Addrs[p] /\ Entries \cap Addrs[p] = routes[p]
      /\ pc[p] # "recv"
      /\ s = "removing" => stale[p] = routes[p]
      /\ s = "dropping" => stale[p] = routes[p] \ current[p]
  BY <1>1, <1>2, <1>3 DEF SessionInv, CallInv, EntryInv, LocalInv
<1>6. \A ip \in Ips : peer_map'[ip] = IF ip \in stale[p] THEN NoEntry ELSE peer_map[ip]
  BY DEF StartRemove, SendRemovals
<1>7. (Entries \cap Addrs[p])' = routes[p] \ stale[p]
  BY <1>5, <1>6 DEF Entries
<1>8. CallInv(p)' /\ LocalInv(p)'
  BY <1>1, <1>2, <1>3, <1>4 DEF SessionInv, CallInv, LocalInv, callVars, sessionVars, linkVars
<1>9. EntryInv(p)'
  BY <1>2, <1>4, <1>5, <1>7 DEF EntryInv, callVars, sessionVars
<1>10. ValueInv(p)'
  BY <1>1, <1>2, <1>4, <1>5, <1>6 DEF SessionInv, ValueInv, Entries, sessionVars
<1> QED
  BY <1>2, <1>3, <1>5, <1>6, <1>8, <1>9, <1>10, InsideRelay DEF SessionInv, Steps

\* The remove() of reconcile() returns: what is left is what insert() re-arms.
LEMMA SessionFinishDropInv ==
  ASSUME SessionsInv, TypeOK', RelayInv', NEW p \in Peers, FinishDrop(p),
         UNCHANGED <<sessionVars, linkVars>>
  PROVE  SessionsInv'
<1>1. TypeOK /\ RelayTypeOK /\ SessionInv(p)
  BY DEF SessionsInv, TypeOK
<1>2. /\ step[p] = "dropping" /\ step' = [step EXCEPT ![p] = "await_insert"]
      /\ UNCHANGED <<peer_map, callVars>>
  BY DEF FinishDrop
<1>3. step'[p] = "await_insert"
  BY <1>1, <1>2 DEF RelayTypeOK
<1>4. SessionInv(p)'
  BY <1>1, <1>2, <1>3 DEF SessionInv, CallInv, EntryInv, ValueInv, LocalInv, Entries,
       callVars, sessionVars, linkVars
<1> QED
  BY <1>2, <1>4, InsideRelay DEF Steps

\* insert() re-arms the session's entries with the value of its connection.
LEMMA SessionStartInsertInv ==
  ASSUME SessionsInv, TypeOK', RelayInv', NEW p \in Peers, StartInsert(p),
         UNCHANGED <<sessionVars, linkVars>>
  PROVE  SessionsInv'
<1>1. TypeOK /\ RelayTypeOK /\ SessionInv(p)
  BY DEF SessionsInv, TypeOK
<1>2. /\ step[p] = "await_insert" /\ step' = [step EXCEPT ![p] = "inserting"]
      /\ UNCHANGED callVars
  BY DEF StartInsert
<1>3. step'[p] = "inserting"
  BY <1>1, <1>2 DEF RelayTypeOK
<1>4. /\ pc[p] = "reconcile" /\ current[p] \subseteq Addrs[p] /\ value[p] = <<p, conn[p]>>
      /\ Entries \cap Addrs[p] \subseteq current[p]
  BY <1>1, <1>2 DEF SessionInv, CallInv, EntryInv
<1>5. value[p] # NoEntry
  BY <1>2, RelayAssumption DEF SessionsInv, RelayInv, BatchInv
<1>6. \A ip \in Ips :
        peer_map'[ip] = IF ip \in current[p] /\ peer_map[ip] # NoEntry THEN value[p]
                                                                     ELSE peer_map[ip]
  BY DEF StartInsert
<1>7. Entries' = Entries
  BY <1>5, <1>6 DEF Entries
<1>8. CallInv(p)' /\ LocalInv(p)'
  BY <1>1, <1>2, <1>3, <1>4 DEF SessionInv, CallInv, LocalInv, callVars, sessionVars, linkVars
<1>9. EntryInv(p)'
  BY <1>2, <1>3, <1>4, <1>7 DEF EntryInv, callVars
<1>10. ValueInv(p)'
  BY <1>2, <1>3, <1>4, <1>6, <1>7 DEF ValueInv, Entries, callVars, sessionVars
<1> QED
  BY <1>2, <1>4, <1>6, <1>8, <1>9, <1>10, InsideRelay DEF SessionInv, Steps

\* The addresses under way in the OS are those of the session at work.
LEMMA OwnBatch ==
  ASSUME SessionsInv, NEW p \in Peers, NEW ip \in Addrs[p], ~Quiet(ip)
  PROVE  Busy(p)
<1>1. ip \in Ips
  BY SessionsAssumption
<1>2. PICK q \in Peers : Busy(q)
  BY <1>1 DEF SessionsInv, RelayInv, BatchInv
<1>3. SessionInv(q)
  BY DEF SessionsInv
<1>4. CASE step[q] \in {"removing", "dropping"}
  <2>1. ip \in stale[q]
    BY <1>1, <1>4 DEF SessionsInv, RelayInv, BatchInv, Removing
  <2>2. stale[q] \subseteq Addrs[q]
    BY <1>3, <1>4 DEF SessionInv, CallInv, LocalInv
  <2> QED
    BY <1>2, <2>1, <2>2, SessionsAssumption
<1>5. CASE step[q] \in {"inserting", "rolling_back"}
  <2>1. ip \in current[q]
    BY <1>1, <1>5 DEF SessionsInv, RelayInv, BatchInv, Removing, Inserting
  <2>2. current[q] \subseteq Addrs[q]
    BY <1>3, <1>5 DEF SessionInv, CallInv
  <2> QED
    BY <1>2, <2>1, <2>2, SessionsAssumption
<1> QED
  BY <1>2, <1>4, <1>5 DEF Busy

\* insert() creates an entry for an address of its own batch.
LEMMA SessionInsertReplyInv ==
  ASSUME SessionsInv, TypeOK', RelayInv', NEW p \in Peers, NEW ip \in Ips,
         InsertReply(p, ip), UNCHANGED <<sessionVars, linkVars>>
  PROVE  SessionsInv'
<1>1. TypeOK /\ RelayTypeOK /\ SessionInv(p)
  BY DEF SessionsInv, TypeOK
<1>2. step[p] = "inserting" /\ fut[ip] = "added" /\ UNCHANGED <<step, callVars>>
  BY DEF InsertReply
<1>3. ip \in current[p]
  BY <1>2 DEF SessionsInv, RelayInv, BatchInv, Inserting, Quiet
<1>4. /\ pc[p] = "reconcile" /\ current[p] \subseteq Addrs[p] /\ value[p] = <<p, conn[p]>>
      /\ Entries \cap Addrs[p] \subseteq current[p]
  BY <1>1, <1>2 DEF SessionInv, CallInv, EntryInv
<1>5. \A a \in Ips : peer_map'[a] = IF a = ip THEN value[p] ELSE peer_map[a]
  BY <1>1 DEF InsertReply, RelayTypeOK
<1>6. Entries' \subseteq Entries \cup {ip}
  BY <1>5 DEF Entries
<1>7. CallInv(p)' /\ LocalInv(p)'
  BY <1>1, <1>2 DEF SessionInv, CallInv, LocalInv, callVars, sessionVars, linkVars
<1>8. EntryInv(p)'
  BY <1>2, <1>3, <1>4, <1>6 DEF EntryInv, callVars
<1>9. ValueInv(p)'
  BY <1>1, <1>2, <1>4, <1>5 DEF SessionInv, ValueInv, Entries, sessionVars
<1>10. step' = [step EXCEPT ![p] = "inserting"]
  BY <1>1, <1>2 DEF RelayTypeOK
<1> QED
  BY <1>2, <1>3, <1>4, <1>5, <1>7, <1>8, <1>9, <1>10, InsideRelay DEF SessionInv, Steps

\* The rollback takes every entry of the session out of the map.
LEMMA SessionInsertFailedInv ==
  ASSUME SessionsInv, TypeOK', RelayInv', NEW p \in Peers, NEW ip \in Ips,
         InsertFailed(p, ip), UNCHANGED <<sessionVars, linkVars>>
  PROVE  SessionsInv'
<1>1. TypeOK /\ RelayTypeOK /\ SessionInv(p)
  BY DEF SessionsInv, TypeOK
<1>2. /\ step[p] = "inserting" /\ step' = [step EXCEPT ![p] = "rolling_back"]
      /\ UNCHANGED callVars
  BY DEF InsertFailed
<1>3. step'[p] = "rolling_back"
  BY <1>1, <1>2 DEF RelayTypeOK
<1>4. /\ pc[p] = "reconcile" /\ current[p] \subseteq Addrs[p]
      /\ Entries \cap Addrs[p] \subseteq current[p]
  BY <1>1, <1>2 DEF SessionInv, CallInv, EntryInv
<1>5. \A a \in Ips : peer_map'[a] = IF a \in current[p] THEN NoEntry ELSE peer_map[a]
  BY DEF InsertFailed, SendRemovals
<1>6. (Entries \cap Addrs[p])' = {}
  BY <1>4, <1>5 DEF Entries
<1>7. CallInv(p)' /\ LocalInv(p)'
  BY <1>1, <1>2, <1>3 DEF SessionInv, CallInv, LocalInv, callVars, sessionVars, linkVars
<1>8. EntryInv(p)' /\ ValueInv(p)'
  BY <1>3, <1>6 DEF EntryInv, ValueInv
<1> QED
  BY <1>2, <1>4, <1>5, <1>7, <1>8, InsideRelay DEF SessionInv, Steps

\* A step that changes neither the map nor any call, session or link: the OS
\* handles a request, the TUN device fails, or nothing happens.
LEMMA NoSessionStep ==
  ASSUME SessionsInv, TypeOK', RelayInv',
         UNCHANGED <<peer_map, step, callVars, sessionVars, latest, published>>
  PROVE  SessionsInv'
<1>1. \A q \in Peers : SessionInv(q)'
  BY UntouchedInv DEF Untouched, callVars, sessionVars
<1>2. Entries' = Entries
  BY DEF Entries
<1> QED
  BY <1>1, <1>2 DEF SessionsInv

-----------------------------------------------------------------------------
(* The invariant, and what follows from it.                                *)

\* The sessions start with no entry, no route and no call.
LEMMA SessionsInitInv == Init => SessionsInv
<1> SUFFICES ASSUME Init
             PROVE  SessionsInv
  OBVIOUS
<1>1. RelayInv /\ Entries = {} /\ \A p \in Peers : step[p] = "idle"
  BY InitInv DEF Init, RelayInit, Entries
<1>2. TypeOK
  BY <1>1, RelayAssumption DEF Init, TypeOK, RelayInv, Places
<1>3. \A p \in Peers : SessionInv(p)
  BY <1>1 DEF Init, SessionInv, CallInv, EntryInv, ValueInv, LocalInv
<1> QED
  BY <1>1, <1>2, <1>3 DEF SessionsInv

\* Every step of the sessions, the links and the OS preserves the invariant.
LEMMA SessionsNextInv == SessionsInv /\ [Next]_vars => SessionsInv'
<1> SUFFICES ASSUME SessionsInv, [Next]_vars
             PROVE  SessionsInv'
  OBVIOUS
<1>1. TypeOK' /\ RelayInv'
  BY TypeKept, RelayInvKept
<1>2. ASSUME NEW p \in Peers, Link(p) \/ SessionStep(p) \/ Handshake(p)
      PROVE  SessionsInv'
  BY <1>1, <1>2, LinkInv, SeeInv, SeeEndInv, RecvEndedInv, HandshakeErrInv,
     HandshakeOkInv DEF SessionStep, Handshake
<1>3. ASSUME NEW p \in Peers, RelayStep(p)
      PROVE  SessionsInv'
  BY <1>1, <1>3, WithdrawnInv, RegisteredInv, RegisterFailedInv, SessionStartRemoveInv,
     SessionFinishDropInv, SessionStartInsertInv, SessionInsertReplyInv,
     SessionInsertFailedInv DEF RelayStep
<1>4. ASSUME NEW ip \in Ips, OsStep(ip)
      PROVE  SessionsInv'
  BY <1>1, <1>4, NoSessionStep DEF OsStep, OsAdd, OsRemove, linkVars
<1>5. CASE TunFails \/ UNCHANGED vars
  BY <1>1, <1>5, NoSessionStep DEF TunFails, vars, relayVars, callVars, linkVars
<1> QED
  BY <1>2, <1>3, <1>4, <1>5 DEF Next

\* The invariant of the sessions holds in every state they reach, whatever the
\* links, the remote nodes and the OS do.
THEOREM SessionsInvariant == Spec => []SessionsInv
  BY SessionsInitInv, SessionsNextInv, PTL DEF Spec

\* The sessions implement the relay's specification: they are callers that make
\* one call at a time, so all that is proved of the relay holds of the system
\* (ImplementsRelay).
THEOREM SessionsRefineRelay == Spec => ImplementsRelay
<1>1. Init => RelayInit
  BY DEF Init
<1> QED
  BY <1>1, RelayStepOrStutter, SessionsInvariant, PTL DEF Spec, RelaySpec, ImplementsRelay

\* The state of the sessions and the links keeps its types (TypeOK).
THEOREM SessionsTypeCorrect == Spec => []TypeOK
<1>1. SessionsInv => TypeOK
  BY DEF SessionsInv
<1> QED
  BY <1>1, SessionsInvariant, PTL

\* The local `routes` of run() are the session's entries in the relay whenever it
\* is outside the relay (RoutesMatchRelay).
THEOREM SessionsRoutesMatchRelay == Spec => []RoutesMatchRelay
<1>1. SessionsInv => RoutesMatchRelay
  BY DEF SessionsInv, RoutesMatchRelay, SessionInv, EntryInv
<1> QED
  BY <1>1, SessionsInvariant, PTL

\* The relay hands out a connection only while its session registers it or
\* receives from it (ConnectedMeansServed).
THEOREM SessionsConnectedMeansServed == Spec => []ConnectedMeansServed
<1>1. SessionsInv => ConnectedMeansServed
  <2> SUFFICES ASSUME SessionsInv, NEW ip \in Ips, NEW p \in Peers, NEW n \in 1..MaxConn,
                      peer_map[ip] = <<p, n>>
               PROVE  conn[p] = n /\ pc[p] \in {"reconcile", "recv"} /\ ip \in Addrs[p]
    BY DEF ConnectedMeansServed
  <2>1. peer_map[ip] # NoEntry /\ peer_map[ip] # Parked
    BY RelayAssumption DEF Values
  <2>2. PICK q \in Peers : ip \in Addrs[q]
    BY <2>1 DEF SessionsInv, Entries
  <2>3. SessionInv(q)
    BY DEF SessionsInv
  <2>4. /\ peer_map[ip] = <<q, conn[q]>>
        /\ pc[q] = "recv" \/ step[q] = "inserting"
    BY <2>1, <2>2, <2>3 DEF SessionInv, ValueInv, Entries
  <2> QED
    BY <2>2, <2>3, <2>4 DEF SessionInv, CallInv
<1> QED
  BY <1>1, SessionsInvariant, PTL

\* While a session receives, its peer's addresses are dispatched to the connection
\* it receives from and routed to us by the OS (ServedMeansConnected).
THEOREM SessionsServedMeansConnected == Spec => []ServedMeansConnected
<1>1. SessionsInv => ServedMeansConnected
  <2> SUFFICES ASSUME SessionsInv, NEW p \in Peers, pc[p] = "recv", NEW ip \in routes[p]
               PROVE  peer_map[ip] = <<p, conn[p]>> /\ ip \in kernel
    BY DEF ServedMeansConnected
  <2>1. SessionInv(p) /\ TypeOK
    BY DEF SessionsInv
  <2>2. step[p] = "idle"
    BY <2>1 DEF SessionInv, CallInv, TypeOK, RelayTypeOK, Steps
  <2>3. ip \in Entries \cap Addrs[p]
    BY <2>1, <2>2 DEF SessionInv, EntryInv
  <2>4. ip \in kernel
    BY <2>3, InvBacked DEF SessionsInv, RouteBacked
  <2> QED
    BY <2>1, <2>3, <2>4 DEF SessionInv, ValueInv
<1> QED
  BY <1>1, SessionsInvariant, PTL

\* A session that has ended leaves nothing in the relay, in the DNS registry or,
\* unless the OS refused a removal, in the OS table (EndedLeavesNothing).
THEOREM SessionsEndedLeavesNothing == Spec => []EndedLeavesNothing
<1>1. SessionsInv => EndedLeavesNothing
  <2> SUFFICES ASSUME SessionsInv, NEW p \in Peers, pc[p] = "ended"
               PROVE  /\ Entries \cap Addrs[p] = {}
                      /\ dns[p] = {}
                      /\ Addrs[p] \cap kernel \subseteq leaked
    BY DEF EndedLeavesNothing
  <2>1. SessionInv(p) /\ TypeOK
    BY DEF SessionsInv
  <2>2. step[p] = "idle" /\ routes[p] = {} /\ dns[p] = {}
    BY <2>1 DEF SessionInv, CallInv, LocalInv, TypeOK, RelayTypeOK, Steps
  <2>3. Entries \cap Addrs[p] = {}
    BY <2>1, <2>2 DEF SessionInv, EntryInv
  <2>4. ASSUME NEW ip \in Addrs[p], ip \in kernel
        PROVE  ip \in leaked
    <3>1. Quiet(ip)
      BY <2>2, OwnBatch DEF Busy
    <3>2. ip \in Ips /\ peer_map[ip] = NoEntry
      BY <2>3, SessionsAssumption DEF Entries
    <3> QED
      BY <2>4, <3>1, <3>2 DEF SessionsInv, RelayInv, OsInv, Quiet
  <2> QED
    BY <2>2, <2>3, <2>4
<1> QED
  BY <1>1, SessionsInvariant, PTL

\* A name is registered with the addresses its session receives on
\* (NameFollowsRoutes).
THEOREM SessionsNameFollowsRoutes == Spec => []NameFollowsRoutes
<1>1. SessionsInv => NameFollowsRoutes
  BY DEF SessionsInv, NameFollowsRoutes, SessionInv, LocalInv
<1> QED
  BY <1>1, SessionsInvariant, PTL

\* Only a peer's own session, in reconcile() or withdraw_routes(), takes one of its
\* routes out of the OS table (OnlyOwnerWithdraws).
THEOREM SessionsOnlyOwnerWithdraws == Spec => OnlyOwnerWithdraws
<1>1. ASSUME SessionsInv, Next, NEW p \in Peers, Addrs[p] \cap (kernel \ kernel') # {}
      PROVE  pc[p] \in {"reconcile", "withdraw"}
  <2>1. PICK ip \in Addrs[p] : ip \in kernel /\ ip \notin kernel'
    BY <1>1
  <2>2. [RelayNext]_relayVars
    BY <1>1, RelayStepOrStutter
  <2>3. PICK a \in Ips : OsRemove(a)
    <3>1. ASSUME NEW q \in Peers, Call(q) \/ Progress(q)
          PROVE  kernel' = kernel
      BY <3>1 DEF Call, CallReconcile, CallRemove, Park, Progress, StartRemove, FinishRemove,
           FinishDrop, StartInsert, FinishInsert, FinishRollback, InsertReply, InsertFailed, osVars
    <3>2. ASSUME NEW a \in Ips, OsAdd(a)
          PROVE  kernel \subseteq kernel'
      BY <3>2 DEF OsAdd
    <3> QED
      BY <2>1, <2>2, <3>1, <3>2 DEF RelayNext, Os, relayVars
  <2>4. a = ip /\ ~Quiet(ip)
    BY <2>1, <2>3 DEF OsRemove, Quiet
  <2>5. Busy(p)
    BY <1>1, <2>4, OwnBatch
  <2> QED
    BY <1>1, <2>5 DEF SessionsInv, SessionInv, CallInv, Busy
<1>2. SessionsInv /\ [Next]_vars =>
        [\A p \in Peers : Addrs[p] \cap (kernel \ kernel') # {} =>
           pc[p] \in {"reconcile", "withdraw"}]_vars
  BY <1>1
<1> QED
  BY <1>2, SessionsInvariant, PTL DEF Spec, OnlyOwnerWithdraws
=============================================================================
