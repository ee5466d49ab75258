---------------------------- MODULE RelayProofs ----------------------------
(* The relay's invariants, for any callers, addresses and OS faults.        *)
EXTENDS Relay, TLAPS, SequenceTheorems

-----------------------------------------------------------------------------
(* Queues.                                                                 *)

\* The two requests that can be queued together.
LEMMA AddThenDel == Append(<<"add">>, "del") = <<"add", "del">>
<1> DEFINE s == Append(<<"add">>, "del")
           t == <<"add", "del">>
           S == {"add", "del"}
<1>1. <<"add">> \in Seq(S) /\ Len(<<"add">>) = 1 /\ <<"add">>[1] = "add"
  OBVIOUS
<1>2. s \in Seq(S) /\ Len(s) = 2 /\ s[1] = "add" /\ s[2] = "del"
  BY <1>1
<1>3. t \in Seq(S) /\ Len(t) = 2 /\ t[1] = "add" /\ t[2] = "del"
  OBVIOUS
<1>4. \A i \in 1..Len(s) : s[i] = t[i]
  BY <1>2, <1>3
<1> HIDE DEF s, t, S
<1>5. s = t
  BY <1>2, <1>3, <1>4, SeqEqual
<1> QED
  BY <1>5 DEF s, t

\* What sending a request makes of a request queue, and what handling its head
\* leaves (Append of SendRemovals and StartInsert, Tail of OsAdd and OsRemove).
LEMMA RequestQueues ==
  /\ Append(<<>>, "add") = <<"add">>
  /\ Append(<<>>, "del") = <<"del">>
  /\ Append(<<"add">>, "del") = <<"add", "del">>
  /\ Head(<<"add">>) = "add" /\ Tail(<<"add">>) = <<>>
  /\ Head(<<"del">>) = "del" /\ Tail(<<"del">>) = <<>>
  /\ Head(<<"add", "del">>) = "add" /\ Tail(<<"add", "del">>) = <<"del">>
  /\ <<>> # <<"add">> /\ <<>> # <<"del">> /\ <<>> # <<"add", "del">>
  /\ <<"add">> # <<"del">> /\ <<"add">> # <<"add", "del">>
  /\ <<"del">> # <<"add", "del">>
  BY AddThenDel

\* Somebody new joins a queue.
LEMMA Join ==
  ASSUME NEW S, NEW q \in Seq(S), NEW x \in S, IsInjective(q), x \notin Range(q)
  PROVE  /\ Append(q, x) \in Seq(S)
         /\ IsInjective(Append(q, x))
         /\ Range(Append(q, x)) = Range(q) \cup {x}
         /\ Append(q, x) # <<>>
         /\ q # <<>> => Head(Append(q, x)) = Head(q)
<1> DEFINE r == Append(q, x)
           n == Len(q)
<1>1. /\ r \in Seq(S) /\ r # <<>>
      /\ n \in Nat /\ Len(r) = n + 1
      /\ \A i \in 1..n : r[i] = q[i]
      /\ r[n + 1] = x
      /\ q # <<>> => Head(r) = Head(q)
  BY AppendProperties, HeadTailAppend
<1>2. DOMAIN q = 1..n /\ DOMAIN r = 1..n + 1
  BY <1>1
<1> HIDE DEF r, n
<1>3. \A i \in 1..n : q[i] # x
  BY <1>2 DEF Range
<1>4. IsInjective(r)
  <2> SUFFICES ASSUME NEW i \in 1..n + 1, NEW j \in 1..n + 1, r[i] = r[j]
               PROVE  i = j
    BY <1>2 DEF IsInjective
  <2>1. CASE i \in 1..n /\ j \in 1..n
    BY <1>1, <1>2, <2>1 DEF IsInjective
  <2>2. CASE i = n + 1 \/ j = n + 1
    BY <1>1, <1>3, <2>2
  <2> QED
    BY <1>1, <2>1, <2>2
<1>5. Range(r) = Range(q) \cup {x}
  <2>1. Range(r) \subseteq Range(q) \cup {x}
    BY <1>1, <1>2 DEF Range
  <2>2. Range(q) \subseteq Range(r)
    BY <1>1, <1>2 DEF Range
  <2>3. x \in Range(r)
    BY <1>1, <1>2 DEF Range
  <2> QED
    BY <2>1, <2>2, <2>3
<1> QED
  BY <1>1, <1>4, <1>5 DEF r

\* The head leaves a queue.
LEMMA Leave ==
  ASSUME NEW S, NEW q \in Seq(S), q # <<>>, IsInjective(q)
  PROVE  /\ Tail(q) \in Seq(S)
         /\ IsInjective(Tail(q))
         /\ Range(Tail(q)) = Range(q) \ {Head(q)}
         /\ Head(q) \in S
<1> DEFINE r == Tail(q)
           n == Len(q)
<1>1. /\ r \in Seq(S)
      /\ n \in Nat /\ n # 0 /\ Len(r) = n - 1
      /\ \A i \in 1..n - 1 : r[i] = q[i + 1]
      /\ Head(q) = q[1] /\ Head(q) \in S
  BY HeadTailProperties
<1>2. DOMAIN q = 1..n /\ DOMAIN r = 1..n - 1
  BY <1>1
<1> HIDE DEF r, n
<1>3. IsInjective(r)
  <2> SUFFICES ASSUME NEW i \in 1..n - 1, NEW j \in 1..n - 1, r[i] = r[j]
               PROVE  i = j
    BY <1>2 DEF IsInjective
  <2>1. i + 1 \in 1..n /\ j + 1 \in 1..n /\ q[i + 1] = q[j + 1]
    BY <1>1
  <2>2. i + 1 = j + 1
    BY <1>2, <2>1 DEF IsInjective
  <2> QED
    BY <1>1, <2>2
<1>4. ASSUME NEW y \in Range(r)
      PROVE  y \in Range(q) /\ y # Head(q)
  <2>1. PICK i \in 1..n - 1 : y = r[i]
    BY <1>2 DEF Range
  <2>2. i + 1 \in 1..n /\ 1 \in 1..n /\ i + 1 # 1 /\ y = q[i + 1]
    BY <1>1, <2>1
  <2> QED
    BY <1>1, <1>2, <2>2 DEF Range, IsInjective
<1>5. ASSUME NEW y \in Range(q), y # Head(q)
      PROVE  y \in Range(r)
  <2>1. PICK i \in 1..n : y = q[i]
    BY <1>2 DEF Range
  <2>2. i - 1 \in 1..n - 1 /\ r[i - 1] = q[i]
    BY <1>1, <1>5, <2>1
  <2> QED
    BY <1>2, <2>1, <2>2 DEF Range
<1> QED
  BY <1>1, <1>3, <1>4, <1>5 DEF r

\* At most one caller works inside the mutex, and none does while another
\* holds it without having started.
LEMMA OneBusy ==
  ASSUME QueueInv, NEW p \in Peers, Holds(p)
  PROVE  \A q \in Peers : Busy(q) => q = p
  BY DEF QueueInv, Holds

\* A caller that enters the relay joins the mutex queue.
LEMMA JoinInv ==
  ASSUME RelayTypeOK, QueueInv, NEW p \in Peers, step[p] = "idle",
         NEW s \in {"await_remove", "await_drop", "await_insert"},
         step' = [step EXCEPT ![p] = s],
         handle' = Append(handle, p)
  PROVE  QueueInv' /\ handle' \in Seq(Peers)
<1>1. handle \in Seq(Peers) /\ step \in [Peers -> Steps]
  BY DEF RelayTypeOK
<1>2. IsInjective(handle) /\ p \notin Range(handle)
  BY DEF QueueInv
<1>3. /\ handle' \in Seq(Peers)
      /\ IsInjective(handle')
      /\ Range(handle') = Range(handle) \cup {p}
      /\ handle' # <<>>
      /\ handle # <<>> => Head(handle') = Head(handle)
  BY <1>1, <1>2, Join
<1>4. Range(handle') = {q \in Peers : step'[q] # "idle"}
  BY <1>1, <1>3 DEF QueueInv
<1>5. ASSUME NEW q \in Peers, Busy(q)'
      PROVE  Holds(q)'
  BY <1>1, <1>3, <1>5 DEF QueueInv, Busy, Holds
<1> QED
  BY <1>3, <1>4, <1>5 DEF QueueInv

\* A caller that starts its work under the mutex leaves the queue as it is.
LEMMA StartInv ==
  ASSUME RelayTypeOK, QueueInv, NEW p \in Peers, Holds(p), step[p] # "idle",
         NEW s \in Steps \ {"idle"},
         step' = [step EXCEPT ![p] = s],
         handle' = handle
  PROVE  QueueInv'
  BY DEF RelayTypeOK, QueueInv, Busy, Holds

\* A caller that returns gives the mutex to the next one.
LEMMA LeaveInv ==
  ASSUME RelayTypeOK, QueueInv, NEW p \in Peers, Busy(p),
         step' = [step EXCEPT ![p] = "idle"],
         handle' = Tail(handle)
  PROVE  QueueInv' /\ handle' \in Seq(Peers)
<1>1. /\ handle \in Seq(Peers) /\ step \in [Peers -> Steps]
      /\ handle # <<>> /\ Head(handle) = p /\ IsInjective(handle)
  BY DEF RelayTypeOK, QueueInv, Holds
<1>2. /\ handle' \in Seq(Peers)
      /\ IsInjective(handle')
      /\ Range(handle') = Range(handle) \ {p}
  BY <1>1, Leave
<1>3. Range(handle') = {q \in Peers : step'[q] # "idle"}
  BY <1>1, <1>2 DEF QueueInv
<1>4. \A q \in Peers : ~Busy(q)'
  BY <1>1, OneBusy DEF Busy, Holds
<1> QED
  BY <1>2, <1>3, <1>4 DEF QueueInv

\* reconcile() gives up the mutex after its remove() and asks for it again.
LEMMA RequeueInv ==
  ASSUME RelayTypeOK, QueueInv, NEW p \in Peers, Busy(p),
         step' = [step EXCEPT ![p] = "await_insert"],
         handle' = Append(Tail(handle), p)
  PROVE  QueueInv' /\ handle' \in Seq(Peers)
<1> DEFINE rest == Tail(handle)
<1>1. /\ handle \in Seq(Peers) /\ step \in [Peers -> Steps]
      /\ handle # <<>> /\ Head(handle) = p /\ IsInjective(handle)
  BY DEF RelayTypeOK, QueueInv, Holds
<1>2. /\ rest \in Seq(Peers)
      /\ IsInjective(rest)
      /\ Range(rest) = Range(handle) \ {p}
  BY <1>1, Leave
<1>3. handle' = Append(rest, p)
  OBVIOUS
<1> HIDE DEF rest
<1>4. /\ handle' \in Seq(Peers)
      /\ IsInjective(handle')
      /\ Range(handle') = Range(rest) \cup {p}
  <2>1. p \notin Range(rest)
    BY <1>2
  <2>2. /\ Append(rest, p) \in Seq(Peers)
        /\ IsInjective(Append(rest, p))
        /\ Range(Append(rest, p)) = Range(rest) \cup {p}
    BY <1>2, <2>1, Join
  <2> QED
    BY <1>3, <2>2
<1>5. Range(handle') = {q \in Peers : step'[q] # "idle"}
  BY <1>1, <1>2, <1>4 DEF QueueInv, Busy
<1>6. \A q \in Peers : ~Busy(q)'
  BY <1>1, OneBusy DEF Busy, Holds
<1> QED
  BY <1>4, <1>5, <1>6 DEF QueueInv

-----------------------------------------------------------------------------
(* One lemma per action: it preserves the inductive invariant.             *)

\* The relay of Relay::new has no entry, no caller and no request.
LEMMA InitInv == RelayInit => RelayInv
<1> SUFFICES ASSUME RelayInit PROVE RelayInv
  OBVIOUS
<1>1. RelayTypeOK
  BY DEF RelayInit, RelayTypeOK, Steps, Futures, Queues
<1>2. QueueInv
  BY DEF RelayInit, QueueInv, IsInjective, Range, Busy
<1>3. BatchInv /\ OsInv
  BY DEF RelayInit, BatchInv, OsInv, Busy, Quiet
<1> QED
  BY <1>1, <1>2, <1>3 DEF RelayInv

\* Entering the relay changes nothing but the caller's own state.
LEMMA CallReconcileInv ==
  ASSUME RelayInv, NEW p \in Peers, NEW cur \in SUBSET Ips, NEW previous \in SUBSET Ips,
         NEW v \in Values, CallReconcile(p, cur, previous, v)
  PROVE  RelayInv'
<1> USE DEF RelayInv, CallReconcile
<1>1. QueueInv' /\ handle' \in Seq(Peers)
  <2>1. \/ step' = [step EXCEPT ![p] = "await_drop"]
        \/ step' = [step EXCEPT ![p] = "await_insert"]
    OBVIOUS
  <2> QED
    BY <2>1, JoinInv
<1>2. RelayTypeOK'
  BY <1>1 DEF RelayTypeOK, Steps, osVars
<1>3. \A q \in Peers : Busy(q)' <=> Busy(q)
  BY DEF RelayTypeOK, Busy
<1>4. BatchInv'
  BY <1>3 DEF RelayTypeOK, BatchInv, Quiet, Removing, Inserting
<1>5. OsInv'
  BY DEF OsInv, osVars
<1> QED
  BY <1>1, <1>2, <1>4, <1>5

\* remove() joins the queue of the mutex and leaves the rest alone.
LEMMA CallRemoveInv ==
  ASSUME RelayInv, NEW p \in Peers, NEW ips \in SUBSET Ips, CallRemove(p, ips)
  PROVE  RelayInv'
<1> USE DEF RelayInv, CallRemove
<1>1. QueueInv' /\ handle' \in Seq(Peers)
  BY JoinInv
<1>2. RelayTypeOK'
  BY <1>1 DEF RelayTypeOK, Steps, osVars
<1>3. \A q \in Peers : Busy(q)' <=> Busy(q)
  BY DEF RelayTypeOK, Busy
<1>4. BatchInv'
  BY <1>3 DEF RelayTypeOK, BatchInv, Quiet, Removing, Inserting
<1>5. OsInv'
  BY DEF OsInv, osVars
<1> QED
  BY <1>1, <1>2, <1>4, <1>5

\* Parking keeps every entry, and so its route.
LEMMA ParkInv ==
  ASSUME RelayInv, NEW p \in Peers, NEW ips \in SUBSET Ips, Park(p, ips)
  PROVE  RelayInv'
<1> USE DEF RelayInv, Park, callVars, osVars
<1>1. RelayTypeOK'
  BY DEF RelayTypeOK
<1>2. \A ip \in Ips : peer_map'[ip] = NoEntry <=> peer_map[ip] = NoEntry
  BY RelayAssumption DEF RelayTypeOK
<1>3. QueueInv'
  BY DEF QueueInv, Busy, Holds
<1>4. BatchInv'
  BY <1>2 DEF BatchInv, Busy, Quiet, Removing, Inserting
<1>5. OsInv'
  BY <1>2 DEF OsInv
<1> QED
  BY <1>1, <1>3, <1>4, <1>5

\* Sending the removals of a batch, from a state in which at most adds of that
\* very batch are under way.
LEMMA SendRemovalsInv ==
  ASSUME RelayTypeOK, OsInv, NEW ips \in SUBSET Ips, SendRemovals(ips),
         UNCHANGED osVars,
         \A ip \in Ips : IF ip \in ips THEN netlink[ip] \in {<<>>, <<"add">>} ELSE Quiet(ip)
  PROVE  /\ peer_map' \in [Ips -> Values \cup {NoEntry, Parked}]
         /\ fut' \in [Ips -> Futures]
         /\ netlink' \in [Ips -> Queues]
         /\ Removing(ips)'
         /\ OsInv'
<1>1. \A ip \in ips : netlink'[ip] \in {<<"del">>, <<"add", "del">>}
  BY RequestQueues DEF SendRemovals
<1>2. \A ip \in Ips \ ips : netlink'[ip] = <<>>
  BY DEF SendRemovals, Quiet
<1>3. netlink' \in [Ips -> Queues]
  BY <1>1, <1>2 DEF SendRemovals, Queues
<1>4. /\ peer_map' \in [Ips -> Values \cup {NoEntry, Parked}]
      /\ fut' \in [Ips -> Futures]
  BY DEF SendRemovals, RelayTypeOK, Futures
<1>5. Removing(ips)'
  BY <1>1, <1>2 DEF SendRemovals, Removing, Quiet
<1>6. OsInv'
  BY DEF SendRemovals, OsInv, Quiet, osVars
<1> QED
  BY <1>3, <1>4, <1>5, <1>6

\* remove_locked() starts from a quiet OS: its caller has just got the mutex.
LEMMA StartRemoveInv ==
  ASSUME RelayInv, NEW p \in Peers, StartRemove(p)
  PROVE  RelayInv'
<1> USE DEF RelayInv
<1>1. PICK s \in {"removing", "dropping"} :
        /\ step[p] \in {"await_remove", "await_drop"}
        /\ step[p] = "await_drop" <=> s = "dropping"
        /\ step' = [step EXCEPT ![p] = s]
  BY DEF StartRemove
<1>2. stale[p] \in SUBSET Ips /\ step \in [Peers -> Steps]
  BY DEF RelayTypeOK
<1>3. \A q \in Peers : ~Busy(q)
  BY <1>1, OneBusy DEF StartRemove, Busy
<1>4. \A ip \in Ips : Quiet(ip)
  BY <1>3 DEF BatchInv
<1>5. /\ peer_map' \in [Ips -> Values \cup {NoEntry, Parked}]
      /\ fut' \in [Ips -> Futures]
      /\ netlink' \in [Ips -> Queues]
      /\ Removing(stale[p])'
      /\ OsInv'
  BY <1>2, <1>4, SendRemovalsInv DEF StartRemove, Quiet, callVars
<1>6. RelayTypeOK'
  BY <1>1, <1>5 DEF StartRemove, RelayTypeOK, Steps, callVars, osVars
<1>7. QueueInv'
  BY <1>1, StartInv DEF StartRemove, Steps
<1>8. BatchInv'
  <2>1. \A q \in Peers : q # p => step'[q] = step[q]
    BY <1>1, <1>2
  <2>2. Busy(p)' /\ step'[p] = s
    BY <1>1, <1>2 DEF Busy
  <2>3. value' = value /\ stale' = stale /\ current' = current
    BY DEF StartRemove, callVars
  <2> QED
    BY <1>1, <1>3, <1>5, <2>1, <2>2, <2>3 DEF BatchInv, Busy
<1> QED
  BY <1>5, <1>6, <1>7, <1>8

\* Once every removal of the batch is answered, nothing is under way any more.
LEMMA RemovalsDone ==
  ASSUME RelayTypeOK, OsInv, NEW ips \in SUBSET Ips, Removing(ips), AllRemoved(ips),
         fut' = [ip \in Ips |-> "none"],
         UNCHANGED <<peer_map, netlink, osVars>>
  PROVE  (\A ip \in Ips : Quiet(ip)') /\ OsInv' /\ fut' \in [Ips -> Futures]
<1>1. \A ip \in Ips : netlink[ip] = <<>> /\ fut[ip] \in {"none", "deleted"}
  BY DEF Removing, AllRemoved, Quiet
<1> QED
  BY <1>1 DEF OsInv, Quiet, Futures, osVars

\* remove() returns when every removal is answered, so the OS is quiet again.
LEMMA FinishRemoveInv ==
  ASSUME RelayInv, NEW p \in Peers, FinishRemove(p)
  PROVE  RelayInv'
<1> USE DEF RelayInv
<1>1. Busy(p) /\ Removing(stale[p]) /\ stale[p] \in SUBSET Ips
  BY DEF FinishRemove, Busy, BatchInv, RelayTypeOK
<1>2. (\A ip \in Ips : Quiet(ip)') /\ OsInv' /\ fut' \in [Ips -> Futures]
  BY <1>1, RemovalsDone DEF FinishRemove
<1>3. QueueInv' /\ handle' \in Seq(Peers)
  BY <1>1, LeaveInv DEF FinishRemove
<1>4. RelayTypeOK'
  BY <1>2, <1>3 DEF FinishRemove, RelayTypeOK, Steps, callVars, osVars
<1>5. \A q \in Peers : ~Busy(q)'
  BY <1>1, OneBusy DEF FinishRemove, QueueInv, RelayTypeOK, Busy
<1>6. BatchInv'
  BY <1>2, <1>5 DEF FinishRemove, BatchInv, Busy, RelayTypeOK, callVars
<1> QED
  BY <1>2, <1>3, <1>4, <1>6

\* The remove() of reconcile() hands the mutex on and queues behind the others.
LEMMA FinishDropInv ==
  ASSUME RelayInv, NEW p \in Peers, FinishDrop(p)
  PROVE  RelayInv'
<1> USE DEF RelayInv
<1>1. Busy(p) /\ Removing(stale[p]) /\ stale[p] \in SUBSET Ips
  BY DEF FinishDrop, Busy, BatchInv, RelayTypeOK
<1>2. (\A ip \in Ips : Quiet(ip)') /\ OsInv' /\ fut' \in [Ips -> Futures]
  BY <1>1, RemovalsDone DEF FinishDrop
<1>3. QueueInv' /\ handle' \in Seq(Peers)
  BY <1>1, RequeueInv DEF FinishDrop
<1>4. RelayTypeOK'
  BY <1>2, <1>3 DEF FinishDrop, RelayTypeOK, Steps, callVars, osVars
<1>5. \A q \in Peers : ~Busy(q)'
  BY <1>1, OneBusy DEF FinishDrop, QueueInv, RelayTypeOK, Busy
<1>6. BatchInv'
  BY <1>2, <1>5 DEF FinishDrop, BatchInv, Busy, RelayTypeOK, callVars
<1> QED
  BY <1>2, <1>3, <1>4, <1>6

\* insert() returns its error when every removal is answered.
LEMMA FinishRollbackInv ==
  ASSUME RelayInv, NEW p \in Peers, FinishRollback(p)
  PROVE  RelayInv'
<1> USE DEF RelayInv
<1>1. Busy(p) /\ Removing(current[p]) /\ current[p] \in SUBSET Ips
  BY DEF FinishRollback, Busy, BatchInv, RelayTypeOK
<1>2. (\A ip \in Ips : Quiet(ip)') /\ OsInv' /\ fut' \in [Ips -> Futures]
  BY <1>1, RemovalsDone DEF FinishRollback
<1>3. QueueInv' /\ handle' \in Seq(Peers)
  BY <1>1, LeaveInv DEF FinishRollback
<1>4. RelayTypeOK'
  BY <1>2, <1>3 DEF FinishRollback, RelayTypeOK, Steps, callVars, osVars
<1>5. \A q \in Peers : ~Busy(q)'
  BY <1>1, OneBusy DEF FinishRollback, QueueInv, RelayTypeOK, Busy
<1>6. BatchInv'
  BY <1>2, <1>5 DEF FinishRollback, BatchInv, Busy, RelayTypeOK, callVars
<1> QED
  BY <1>2, <1>3, <1>4, <1>6

\* insert() requests a route only where the map has no entry.
LEMMA StartInsertInv ==
  ASSUME RelayInv, NEW p \in Peers, StartInsert(p)
  PROVE  RelayInv'
<1> USE DEF RelayInv
<1> DEFINE missing == {ip \in current[p] : peer_map[ip] = NoEntry}
<1>1. /\ current[p] \in SUBSET Ips /\ step \in [Peers -> Steps]
      /\ step[p] = "await_insert" /\ Holds(p)
      /\ value[p] \in Values
      /\ step' = [step EXCEPT ![p] = "inserting"]
  BY DEF StartInsert, RelayTypeOK, BatchInv
<1>2. \A q \in Peers : ~Busy(q)
  BY <1>1, OneBusy DEF Busy
<1>3. \A ip \in Ips : Quiet(ip)
  BY <1>2 DEF BatchInv
<1>4. \A ip \in Ips : /\ peer_map'[ip] = IF ip \in current[p] \ missing THEN value[p]
                                                                     ELSE peer_map[ip]
                      /\ fut'[ip] = IF ip \in missing THEN "add" ELSE "none"
                      /\ netlink'[ip] = IF ip \in missing THEN <<"add">> ELSE <<>>
  BY <1>3, RequestQueues DEF StartInsert, Quiet
<1>5. \A ip \in Ips : peer_map'[ip] = NoEntry <=> peer_map[ip] = NoEntry
  BY <1>1, <1>4, RelayAssumption
<1>6. RelayTypeOK'
  <2>1. netlink' \in [Ips -> Queues]
    BY <1>4 DEF StartInsert, Queues
  <2>2. /\ peer_map' \in [Ips -> Values \cup {NoEntry, Parked}]
        /\ fut' \in [Ips -> Futures]
    BY <1>1 DEF StartInsert, RelayTypeOK, Futures
  <2> QED
    BY <1>1, <2>1, <2>2 DEF StartInsert, RelayTypeOK, Steps, callVars, osVars
<1>7. QueueInv'
  BY <1>1, StartInv DEF StartInsert, Steps
<1>8. Inserting(current[p])'
  <2>1. current' = current
    BY DEF StartInsert, callVars
  <2> QED
    BY <1>1, <1>4, <1>5, <2>1 DEF Inserting, Quiet
<1>9. BatchInv'
  <2>1. \A q \in Peers : q # p => step'[q] = step[q]
    BY <1>1
  <2>2. Busy(p)' /\ step'[p] = "inserting"
    BY <1>1 DEF Busy
  <2>3. value' = value /\ stale' = stale /\ current' = current
    BY DEF StartInsert, callVars
  <2> QED
    BY <1>1, <1>2, <1>8, <2>1, <2>2, <2>3 DEF BatchInv, Busy
<1>10. OsInv'
  BY <1>3, <1>4, <1>5 DEF StartInsert, OsInv, Quiet, osVars
<1> QED
  BY <1>6, <1>7, <1>9, <1>10

\* insert() creates an entry whose route has just been added.
LEMMA InsertReplyInv ==
  ASSUME RelayInv, NEW p \in Peers, NEW ip \in Ips, InsertReply(p, ip)
  PROVE  RelayInv'
<1> USE DEF RelayInv, InsertReply, callVars, osVars
<1>1. Busy(p) /\ Inserting(current[p]) /\ value[p] \in Values
  BY DEF Busy, BatchInv
<1>2. ip \in current[p] /\ netlink[ip] = <<>> /\ ip \in kernel /\ ip \notin leaked
  BY <1>1 DEF Inserting, Quiet, OsInv
<1>3. RelayTypeOK'
  BY <1>1 DEF RelayTypeOK, Futures
<1>4. QueueInv'
  BY DEF QueueInv, Busy, Holds
<1>5. Inserting(current[p])'
  BY <1>1, <1>2, RelayAssumption DEF RelayTypeOK, Inserting, Quiet
<1>6. BatchInv'
  <2>1. \A q \in Peers : Busy(q) => q = p
    BY <1>1, OneBusy DEF QueueInv
  <2> QED
    BY <1>1, <1>5, <2>1 DEF BatchInv, Busy
<1>7. OsInv'
  BY <1>1, <1>2, RelayAssumption DEF RelayTypeOK, OsInv
<1> QED
  BY <1>3, <1>4, <1>6, <1>7

\* The rollback queues each removal behind the add it may have to undo.
LEMMA InsertFailedInv ==
  ASSUME RelayInv, NEW p \in Peers, NEW ip \in Ips, InsertFailed(p, ip)
  PROVE  RelayInv'
<1> USE DEF RelayInv
<1>1. /\ Busy(p) /\ Inserting(current[p])
      /\ current[p] \in SUBSET Ips /\ step \in [Peers -> Steps]
      /\ step[p] = "inserting" /\ step' = [step EXCEPT ![p] = "rolling_back"]
  BY DEF InsertFailed, Busy, BatchInv, RelayTypeOK
<1>2. Holds(p)
  BY <1>1 DEF QueueInv
<1>3. /\ peer_map' \in [Ips -> Values \cup {NoEntry, Parked}]
      /\ fut' \in [Ips -> Futures]
      /\ netlink' \in [Ips -> Queues]
      /\ Removing(current[p])'
      /\ OsInv'
  <2>1. \A i \in Ips : IF i \in current[p] THEN netlink[i] \in {<<>>, <<"add">>}
                                             ELSE Quiet(i)
    BY <1>1 DEF Inserting, Quiet
  <2> QED
    BY <1>1, <2>1, SendRemovalsInv DEF InsertFailed, callVars
<1>4. RelayTypeOK'
  BY <1>1, <1>3 DEF InsertFailed, RelayTypeOK, Steps, callVars, osVars
<1>5. QueueInv'
  BY <1>1, <1>2, StartInv DEF InsertFailed, Steps
<1>6. BatchInv'
  <2>1. \A q \in Peers : q # p => step'[q] = step[q] /\ ~Busy(q)
    BY <1>1, <1>2, OneBusy
  <2>2. Busy(p)' /\ step'[p] = "rolling_back"
    BY <1>1 DEF Busy
  <2>3. value' = value /\ stale' = stale /\ current' = current
    BY DEF InsertFailed, callVars
  <2> QED
    BY <1>1, <1>3, <2>1, <2>2, <2>3 DEF BatchInv, Busy
<1> QED
  BY <1>3, <1>4, <1>5, <1>6

\* insert() returns Ok with an entry for every address of its batch.
LEMMA FinishInsertInv ==
  ASSUME RelayInv, NEW p \in Peers, FinishInsert(p)
  PROVE  RelayInv'
<1> USE DEF RelayInv
<1>1. Busy(p) /\ Inserting(current[p]) /\ current[p] \in SUBSET Ips
  BY DEF FinishInsert, Busy, BatchInv, RelayTypeOK
<1>2. \A ip \in Ips : Quiet(ip)
  BY <1>1 DEF FinishInsert, Inserting, Quiet
<1>3. QueueInv' /\ handle' \in Seq(Peers)
  BY <1>1, LeaveInv DEF FinishInsert
<1>4. RelayTypeOK'
  BY <1>3 DEF FinishInsert, RelayTypeOK, Steps, callVars, osVars
<1>5. \A q \in Peers : ~Busy(q)'
  BY <1>1, OneBusy DEF FinishInsert, QueueInv, RelayTypeOK, Busy
<1>6. BatchInv'
  BY <1>2, <1>5 DEF FinishInsert, BatchInv, Busy, Quiet, RelayTypeOK, callVars
<1>7. OsInv'
  BY DEF FinishInsert, OsInv, osVars
<1> QED
  BY <1>3, <1>4, <1>6, <1>7

\* A request that is queued belongs to the batch of the busy caller.
LEMMA RequestOfBatch ==
  ASSUME RelayInv, NEW ip \in Ips, netlink[ip] # <<>>
  PROVE  \E p \in Peers :
           /\ Busy(p)
           /\ \A q \in Peers : Busy(q) => q = p
           /\ \/ step[p] = "inserting" /\ Inserting(current[p]) /\ ip \in current[p]
              \/ step[p] = "rolling_back" /\ Removing(current[p]) /\ ip \in current[p]
              \/ step[p] \in {"removing", "dropping"} /\ Removing(stale[p]) /\ ip \in stale[p]
<1> USE DEF RelayInv
<1>1. PICK p \in Peers : Busy(p)
  BY DEF BatchInv, Quiet
<1>2. \A q \in Peers : Busy(q) => q = p
  BY <1>1, OneBusy DEF QueueInv
<1>3. \/ step[p] = "inserting" /\ Inserting(current[p])
      \/ step[p] = "rolling_back" /\ Removing(current[p])
      \/ step[p] \in {"removing", "dropping"} /\ Removing(stale[p])
  BY <1>1 DEF BatchInv, Busy
<1> QED
  BY <1>1, <1>2, <1>3 DEF Inserting, Removing, Quiet

\* The OS handles one request: it changes that address only.
LEMMA OsStepInv ==
  ASSUME RelayInv, NEW ip \in Ips, netlink[ip] # <<>>,
         UNCHANGED <<peer_map, handle, step, callVars>>,
         NEW reply \in Futures,
         fut' = [fut EXCEPT ![ip] = reply],
         netlink' = [netlink EXCEPT ![ip] = Tail(@)],
         \/ fut[ip] = "add" /\ netlink[ip] = <<"add">> /\ reply \in {"added", "failed"}
         \/ fut[ip] = "del" /\ netlink[ip] = <<"del">> /\ reply = "deleted"
         \/ fut[ip] = "del" /\ netlink[ip] = <<"add", "del">> /\ reply = "del",
         kernel' \in SUBSET Ips, leaked' \in SUBSET Ips, OsInv'
  PROVE  RelayInv'
<1> USE DEF RelayInv, callVars
<1>1. netlink'[ip] = IF netlink[ip] = <<"add", "del">> THEN <<"del">> ELSE <<>>
  BY RequestQueues DEF RelayTypeOK
<1>2. \A i \in Ips : i # ip => netlink'[i] = netlink[i] /\ fut'[i] = fut[i]
  BY DEF RelayTypeOK
<1>3. fut'[ip] = reply
  BY DEF RelayTypeOK
<1>4. RelayTypeOK'
  <2>1. netlink' \in [Ips -> Queues]
    BY <1>1 DEF RelayTypeOK, Queues
  <2> QED
    BY <2>1 DEF RelayTypeOK
<1>5. QueueInv'
  BY DEF QueueInv, Busy, Holds
<1>6. BatchInv'
  <2>1. PICK p \in Peers :
           /\ Busy(p)
           /\ \A q \in Peers : Busy(q) => q = p
           /\ \/ step[p] = "inserting" /\ Inserting(current[p]) /\ ip \in current[p]
              \/ step[p] = "rolling_back" /\ Removing(current[p]) /\ ip \in current[p]
              \/ step[p] \in {"removing", "dropping"} /\ Removing(stale[p]) /\ ip \in stale[p]
    BY RequestOfBatch
  <2>2. ASSUME NEW S \in SUBSET Ips, ip \in S, Inserting(S)
        PROVE  Inserting(S)'
    BY <1>1, <1>2, <1>3, <2>2, RequestQueues DEF Inserting, Quiet
  <2>3. ASSUME NEW S \in SUBSET Ips, ip \in S, Removing(S)
        PROVE  Removing(S)'
    BY <1>1, <1>2, <1>3, <2>3, RequestQueues DEF Removing, Quiet
  <2>4. current[p] \in SUBSET Ips /\ stale[p] \in SUBSET Ips
    BY DEF RelayTypeOK
  <2>5. /\ step[p] = "inserting" => Inserting(current[p])'
        /\ step[p] = "rolling_back" => Removing(current[p])'
        /\ step[p] \in {"removing", "dropping"} => Removing(stale[p])'
    BY <2>1, <2>2, <2>3, <2>4
  <2> QED
    BY <2>1, <2>5 DEF BatchInv, Busy
<1> QED
  BY <1>4, <1>5, <1>6

\* The OS handles an add, whether or not insert() still waits for the answer.
LEMMA OsAddInv ==
  ASSUME RelayInv, NEW ip \in Ips, OsAdd(ip)
  PROVE  RelayInv'
<1> USE DEF RelayInv
<1>1. netlink[ip] # <<>> /\ Head(netlink[ip]) = "add"
  BY DEF OsAdd
<1>2. \/ fut[ip] = "add" /\ netlink[ip] = <<"add">> /\ peer_map[ip] = NoEntry
      \/ fut[ip] = "del" /\ netlink[ip] = <<"add", "del">> /\ peer_map[ip] = NoEntry
  BY <1>1, RequestOfBatch, RequestQueues DEF Inserting, Removing, Quiet
<1>3. PICK reply \in {"added", "failed"} :
        /\ Answer(ip, "add", reply)
        /\ \/ ip \notin kernel /\ kernel' = kernel \cup {ip}
           \/ kernel' = kernel /\ reply = "failed"
        /\ UNCHANGED <<peer_map, handle, step, callVars, leaked>>
        /\ netlink' = [netlink EXCEPT ![ip] = Tail(@)]
  BY DEF OsAdd
<1>4. CASE fut[ip] = "add"
  <2>1. fut' = [fut EXCEPT ![ip] = reply]
    BY <1>3, <1>4 DEF Answer
  <2>2. OsInv'
    BY <1>2, <1>3, <1>4, <2>1 DEF OsInv, RelayTypeOK
  <2>3. kernel' \in SUBSET Ips /\ leaked' \in SUBSET Ips
    BY <1>3 DEF RelayTypeOK
  <2> QED
    BY <1>1, <1>2, <1>3, <1>4, <2>1, <2>2, <2>3, OsStepInv DEF Futures
<1>5. CASE fut[ip] = "del"
  <2>1. fut' = [fut EXCEPT ![ip] = "del"]
    BY <1>3, <1>5 DEF Answer
  <2>2. OsInv'
    BY <1>2, <1>3, <1>5, <2>1 DEF OsInv, RelayTypeOK
  <2>3. kernel' \in SUBSET Ips /\ leaked' \in SUBSET Ips
    BY <1>3 DEF RelayTypeOK
  <2> QED
    BY <1>1, <1>2, <1>3, <1>5, <2>1, <2>2, <2>3, OsStepInv DEF Futures
<1> QED
  BY <1>2, <1>4, <1>5

\* The OS handles a removal, or refuses it.
LEMMA OsRemoveInv ==
  ASSUME RelayInv, NEW ip \in Ips, OsRemove(ip)
  PROVE  RelayInv'
<1> USE DEF RelayInv
<1>1. netlink[ip] # <<>> /\ Head(netlink[ip]) = "del"
  BY DEF OsRemove
<1>2. fut[ip] = "del" /\ netlink[ip] = <<"del">> /\ peer_map[ip] = NoEntry
  BY <1>1, RequestOfBatch, RequestQueues DEF Inserting, Removing, Quiet
<1>3. fut' = [fut EXCEPT ![ip] = "deleted"]
  BY <1>2 DEF OsRemove, Answer
<1>4. kernel' \in SUBSET Ips /\ leaked' \in SUBSET Ips
  BY DEF OsRemove, RelayTypeOK
<1>5. OsInv'
  BY <1>2, <1>3 DEF OsRemove, OsInv, RelayTypeOK
<1> QED
  BY <1>1, <1>2, <1>3, <1>4, <1>5, OsStepInv DEF OsRemove, Futures

\* Every step of the relay, its callers and the OS preserves the invariant.
LEMMA NextInv == RelayInv /\ [RelayNext]_relayVars => RelayInv'
<1> SUFFICES ASSUME RelayInv, [RelayNext]_relayVars
             PROVE  RelayInv'
  OBVIOUS
<1>1. ASSUME NEW p \in Peers, Call(p)
      PROVE  RelayInv'
  <2>1. ASSUME NEW n \in 1..MaxConn
        PROVE  <<p, n>> \in Values
    BY DEF Values
  <2> QED
    BY <1>1, <2>1, CallReconcileInv, CallRemoveInv, ParkInv DEF Call
<1>2. ASSUME NEW p \in Peers, Progress(p)
      PROVE  RelayInv'
  BY <1>2, StartRemoveInv, FinishRemoveInv, FinishDropInv, StartInsertInv,
     FinishInsertInv, FinishRollbackInv, InsertReplyInv, InsertFailedInv DEF Progress
<1>3. CASE Os
  BY <1>3, OsAddInv, OsRemoveInv DEF Os
<1>4. CASE UNCHANGED relayVars
  <2> USE <1>4 DEF relayVars
  <2>1. RelayTypeOK'
    BY DEF RelayInv, RelayTypeOK
  <2>2. QueueInv'
    BY DEF RelayInv, QueueInv, Busy, Holds
  <2>3. BatchInv' /\ OsInv'
    BY DEF RelayInv, BatchInv, OsInv, Busy, Quiet, Removing, Inserting
  <2> QED
    BY <2>1, <2>2, <2>3 DEF RelayInv
<1> QED
  BY <1>1, <1>2, <1>3, <1>4 DEF RelayNext

-----------------------------------------------------------------------------
(* The theorems.                                                           *)

\* The inductive invariant holds in every state the relay reaches, whatever its
\* callers ask for and whatever the OS refuses.
THEOREM RelayInvariant == RelaySpec => []RelayInv
  BY InitInv, NextInv, PTL DEF RelaySpec

\* The state of the relay keeps its types (RelayTypeOK).
THEOREM RelayTypeCorrect == RelaySpec => []RelayTypeOK
<1>1. RelayInv => RelayTypeOK
  BY DEF RelayInv
<1> QED
  BY <1>1, RelayInvariant, PTL

\* Every entry of peer_map has its route in the OS (RouteBacked): insert() creates
\* the route first and remove_locked() drops the entry first.
LEMMA InvBacked == RelayInv => RouteBacked
  BY DEF RelayInv, OsInv, RouteBacked, Entries, RelayTypeOK

\* Every entry of peer_map has its route in the OS, in every state of the relay.
THEOREM RelayRouteBacked == RelaySpec => []RouteBacked
  BY InvBacked, RelayInvariant, PTL

\* While the mutex is free the OS has the routes of the entries and no other,
\* but for those it refused to remove (NoOrphanRoute).
LEMMA InvNoOrphan == RelayInv => NoOrphanRoute
<1> SUFFICES ASSUME RelayInv, handle = <<>>
             PROVE  /\ kernel = Entries \cup leaked
                    /\ \A ip \in Ips : netlink[ip] = <<>>
  BY DEF NoOrphanRoute
<1>1. \A p \in Peers : ~Busy(p)
  BY DEF RelayInv, QueueInv, Holds
<1>2. \A ip \in Ips : Quiet(ip)
  BY <1>1 DEF RelayInv, BatchInv
<1>3. kernel \subseteq Entries \cup leaked
  BY <1>2 DEF RelayInv, OsInv, Quiet, Entries, RelayTypeOK
<1>4. Entries \cup leaked \subseteq kernel
  BY DEF RelayInv, OsInv, Entries, RelayTypeOK
<1> QED
  BY <1>2, <1>3, <1>4 DEF Quiet

\* With the mutex free, no route is in the OS without an entry unless its removal
\* was refused, in every state of the relay.
THEOREM RelayNoOrphanRoute == RelaySpec => []NoOrphanRoute
  BY InvNoOrphan, RelayInvariant, PTL

\* insert() never overwrites an entry, so the drop guard of ScopedRoute never
\* panics (GuardNeverTrips).
LEMMA InvGuard == RelayInv => GuardNeverTrips
<1> SUFFICES ASSUME RelayInv, NEW ip \in Ips, fut[ip] = "added"
             PROVE  peer_map[ip] = NoEntry
  BY DEF GuardNeverTrips
<1>1. PICK p \in Peers : Busy(p)
  BY DEF RelayInv, BatchInv, Quiet
<1> QED
  BY <1>1 DEF RelayInv, BatchInv, Busy, Inserting, Removing, Quiet

\* No ScopedRoute is overwritten by insert(), in every state of the relay.
THEOREM RelayGuardNeverTrips == RelaySpec => []GuardNeverTrips
  BY InvGuard, RelayInvariant, PTL

\* Only insert() itself ends the rollback it has begun.
LEMMA RollbackReturns ==
  ASSUME RelayTypeOK, RelayNext, NEW p \in Peers,
         step[p] = "rolling_back", step'[p] = "idle"
  PROVE  FinishRollback(p)
<1>1. ASSUME NEW q \in Peers, Call(q)
      PROVE  FALSE
  BY <1>1 DEF Call, CallReconcile, CallRemove, Park, RelayTypeOK
<1>2. ASSUME NEW q \in Peers, Progress(q), ~FinishRollback(p)
      PROVE  FALSE
  <2>1. CASE q = p
    BY <1>2, <2>1 DEF Progress, StartRemove, FinishRemove, FinishDrop, StartInsert,
         FinishInsert, InsertReply, InsertFailed, RelayTypeOK
  <2>2. CASE q # p
    BY <1>2, <2>2 DEF Progress, StartRemove, FinishRemove, FinishDrop, StartInsert,
         FinishInsert, FinishRollback, InsertReply, InsertFailed, RelayTypeOK
  <2> QED
    BY <2>1, <2>2
<1>3. ASSUME Os
      PROVE  FALSE
  BY <1>3 DEF Os, OsAdd, OsRemove
<1> QED
  BY <1>1, <1>2, <1>3 DEF RelayNext

\* An insert() that fails returns with its whole batch gone from the map and,
\* unless the OS refused a removal, from the routing table (RollbackIsTotal).
THEOREM RelayRollbackIsTotal == RelaySpec => RollbackIsTotal
<1>1. ASSUME RelayInv, RelayNext, NEW p \in Peers,
             step[p] = "rolling_back", step'[p] = "idle"
      PROVE  /\ current[p] \cap Entries' = {}
             /\ current[p] \cap kernel' \subseteq leaked'
  <2>1. FinishRollback(p)
    BY <1>1, RollbackReturns DEF RelayInv
  <2>2. current[p] \subseteq Ips
    BY <1>1 DEF RelayInv, RelayTypeOK
  <2>3. \A ip \in current[p] : peer_map[ip] = NoEntry /\ fut[ip] = "deleted"
    BY <1>1, <2>1, <2>2 DEF RelayInv, BatchInv, Removing, FinishRollback, AllRemoved
  <2>4. UNCHANGED <<peer_map, kernel, leaked>>
    BY <2>1 DEF FinishRollback, osVars
  <2> QED
    BY <1>1, <2>2, <2>3, <2>4 DEF RelayInv, OsInv, Entries
<1>2. RelayInv /\ [RelayNext]_relayVars =>
        [\A p \in Peers : step[p] = "rolling_back" /\ step'[p] = "idle" =>
           /\ current[p] \cap Entries' = {}
           /\ current[p] \cap kernel' \subseteq leaked']_relayVars
  BY <1>1
<1> QED
  BY <1>2, RelayInvariant, PTL DEF RelaySpec, RollbackIsTotal
-----------------------------------------------------------------------------
(* The relay implements Dispatch.                                          *)

\* A remove_locked() takes its addresses out of the table at once.
LEMMA SendRemovalsForgets ==
  ASSUME NEW ips \in SUBSET Ips, SendRemovals(ips), UNCHANGED kernel
  PROVE  Table!Next
<1>1. Table!Forget(ips)
  BY DEF SendRemovals, Table!Forget, Table!Set
<1> QED
  BY <1>1 DEF Table!Next

\* What a call in progress does to the table is a step of Dispatch or nothing.
LEMMA ProgressDispatches ==
  ASSUME RelayInv, NEW p \in Peers, Progress(p)
  PROVE  [Table!Next]_Table!vars
<1> USE DEF Table!vars
<1>0. current[p] \in SUBSET Ips /\ stale[p] \in SUBSET Ips
  BY DEF RelayInv, RelayTypeOK
<1>1. CASE StartRemove(p)
  BY <1>0, <1>1, SendRemovalsForgets DEF StartRemove, osVars
<1>2. CASE FinishRemove(p) \/ FinishDrop(p) \/ FinishInsert(p) \/ FinishRollback(p)
  BY <1>2 DEF FinishRemove, FinishDrop, FinishInsert, FinishRollback, osVars
<1>3. CASE StartInsert(p)
  <2>1. value[p] \in Values
    BY <1>3 DEF StartInsert, RelayInv, BatchInv
  <2>2. Table!Rearm(current[p], value[p])
    BY <1>0, <1>3 DEF StartInsert, osVars, Table!Rearm, Table!Set, Table!Known
  <2> QED
    BY <1>0, <2>1, <2>2 DEF Table!Next
<1>4. ASSUME NEW ip \in Ips, InsertReply(p, ip)
      PROVE  Table!Next
  <2>1. value[p] \in Values
    BY <1>4 DEF InsertReply, RelayInv, BatchInv
  <2>2. peer_map[ip] = NoEntry /\ ip \in kernel
    BY <1>4, InvGuard DEF InsertReply, GuardNeverTrips, RelayInv, OsInv
  <2>3. peer_map' = [i \in Ips |-> IF i \in {ip} THEN value[p] ELSE peer_map[i]]
    BY <1>4 DEF InsertReply, RelayInv, RelayTypeOK
  <2>4. Table!Enter(ip, value[p])
    BY <1>4, <2>2, <2>3 DEF InsertReply, osVars, Table!Enter, Table!Set
  <2> QED
    BY <2>1, <2>4 DEF Table!Next
<1>5. ASSUME NEW ip \in Ips, InsertFailed(p, ip)
      PROVE  Table!Next
  BY <1>0, <1>5, SendRemovalsForgets DEF InsertFailed, osVars
<1> QED
  BY <1>1, <1>2, <1>3, <1>4, <1>5 DEF Progress

\* The OS touches the routes of addresses that have no entry.
LEMMA OsDispatches ==
  ASSUME RelayInv, Os
  PROVE  [Table!Next]_Table!vars
<1> USE DEF Table!vars
<1>1. ASSUME NEW ip \in Ips, OsAdd(ip)
      PROVE  Table!Route(ip) \/ UNCHANGED <<peer_map, kernel>>
  BY <1>1 DEF OsAdd, Table!Route
<1>2. ASSUME NEW ip \in Ips, OsRemove(ip)
      PROVE  Table!Unroute(ip) \/ UNCHANGED <<peer_map, kernel>>
  <2>1. netlink[ip] # <<>> /\ Head(netlink[ip]) = "del"
    BY <1>2 DEF OsRemove
  <2>2. peer_map[ip] = NoEntry
    BY <2>1, RequestOfBatch, RequestQueues DEF RelayInv, Inserting, Removing, Quiet
  <2> QED
    BY <1>2, <2>2 DEF OsRemove, Table!Unroute
<1> QED
  BY <1>1, <1>2 DEF Os, Table!Next

\* The calls themselves only park entries.
LEMMA CallDispatches ==
  ASSUME NEW p \in Peers, Call(p)
  PROVE  [Table!Next]_Table!vars
<1> USE DEF Table!vars
<1>1. ASSUME NEW ips \in SUBSET Ips, Park(p, ips)
      PROVE  Table!ParkAll(ips)
  BY <1>1 DEF Park, osVars, Table!ParkAll, Table!Set, Table!Known
<1> QED
  BY <1>1 DEF Call, CallReconcile, CallRemove, osVars, Table!Next

\* Whatever the callers ask and the OS refuses, the data plane sees the table of
\* Dispatch (ImplementsDispatch): insert() and remove_locked() are not atomic, but
\* each of their steps is one of its steps.
THEOREM RelayImplementsDispatch == RelaySpec => ImplementsDispatch
<1>1. RelayInit => Table!Init
  BY DEF RelayInit, Table!Init
<1>2. RelayInv /\ [RelayNext]_relayVars => [Table!Next]_Table!vars
  BY ProgressDispatches, OsDispatches, CallDispatches DEF RelayNext, relayVars, Table!vars
<1> QED
  BY <1>1, <1>2, RelayInvariant, PTL DEF RelaySpec, ImplementsDispatch, Table!Spec
=============================================================================
