-------------------------- MODULE RouteGaugeProofs --------------------------
(***************************************************************************)
(* How far the gauge of active routes may be off, for any callers, finitely*)
(* many addresses and any OS faults.  Every step of the relay is one of    *)
(* six kinds for the gauge; the invariant is then arithmetic.              *)
(***************************************************************************)
EXTENDS RouteGauge, RelayProofs, FiniteSetTheorems

\* No other queue is that of a dropped add.
LEMMA QueueShapes ==
  /\ <<>> # <<"add", "del">> /\ <<"add">> # <<"add", "del">> /\ <<"del">> # <<"add", "del">>
  OBVIOUS

\* Sets of addresses are finite, and gain or lose one.
LEMMA Count ==
  ASSUME NEW S \in SUBSET Ips
  PROVE  /\ IsFiniteSet(S) /\ Cardinality(S) \in Nat /\ Cardinality(S) <= Cardinality(Ips)
         /\ Cardinality({}) = 0
         /\ \A ip \in S : Cardinality(S \ {ip}) = Cardinality(S) - 1
         /\ \A ip \in Ips \ S : Cardinality(S \cup {ip}) = Cardinality(S) + 1
         /\ \A ip : Cardinality({ip}) = 1
<1>1. IsFiniteSet(S) /\ Cardinality(S) <= Cardinality(Ips)
  BY GaugeAssumption, FS_Subset
<1> QED
  BY <1>1, FS_CardinalityType, FS_EmptySet, FS_RemoveElement, FS_AddElement, FS_Singleton

-----------------------------------------------------------------------------
(* The six kinds of steps.                                                 *)

\* What is unseen is a removal that has been answered.
UnseenInv == unseen \subseteq {ip \in Ips : fut[ip] = "deleted"}

SameAdds ==
  /\ Added' = Added /\ Answered' = Answered /\ Dropped' = Dropped /\ kernel' = kernel
  /\ InsertedOk = {} /\ RemovedByOs = {} /\ ~Rollback

SameCounts == SameAdds /\ RemovedOk = {}

\* A call or a park changes no future, request or route.
LEMMA CallCounts ==
  ASSUME RelayInv, UnseenInv, NEW p \in Peers, Call(p)
  PROVE  SameCounts
<1> USE DEF SameCounts, SameAdds, UnseenInv, Added, Answered, Dropped, InsertedOk, RemovedOk,
            RemovedByOs, Rollback, osVars
<1>1. fut' = fut /\ netlink' = netlink /\ kernel' = kernel
  BY DEF Call, CallReconcile, CallRemove, Park
<1>2. ~Rollback
  BY DEF Call, CallReconcile, CallRemove, Park, RelayInv, RelayTypeOK
<1> QED BY <1>1, <1>2

\* Beginning a batch, or ending an insert: no add is answered before the one, nor after
\* the other, and nothing was being removed.
LEMMA BatchCounts ==
  ASSUME RelayInv, UnseenInv, NEW p \in Peers,
         StartRemove(p) \/ StartInsert(p) \/ FinishInsert(p)
  PROVE  SameCounts
<1> USE DEF SameCounts, SameAdds, osVars
<1>1. ~Rollback
  BY DEF StartRemove, StartInsert, FinishInsert, RelayInv, RelayTypeOK, Rollback
<1>2. CASE StartRemove(p) \/ StartInsert(p)
  <2>1. \A q \in Peers : ~Busy(q)
    BY <1>2, OneBusy DEF StartRemove, StartInsert, RelayInv, Busy
  <2>2. \A ip \in Ips : fut[ip] = "none" /\ netlink[ip] = <<>>
    BY <2>1 DEF RelayInv, BatchInv, Quiet
  <2>3. \A ip \in Ips : fut'[ip] \in {"none", "add", "del"} /\ netlink'[ip] # <<"add", "del">>
    BY <1>2, <2>2, QueueShapes, RequestQueues DEF StartRemove, StartInsert, SendRemovals
  <2>4. kernel' = kernel
    BY <1>2 DEF StartRemove, StartInsert
  <2> QED
    BY <1>1, <2>2, <2>3, <2>4, QueueShapes
       DEF Added, Answered, Dropped, InsertedOk, RemovedOk, RemovedByOs, UnseenInv
<1>3. CASE FinishInsert(p)
  <2>1. \A ip \in Ips : fut[ip] # "deleted"
    BY <1>3 DEF FinishInsert, RelayInv, BatchInv, Inserting, Quiet
  <2> QED
    BY <1>1, <1>3, <2>1
       DEF FinishInsert, Added, Answered, Dropped, InsertedOk, RemovedOk, RemovedByOs, UnseenInv
<1> QED BY <1>2, <1>3

\* Ending a removal: join_all has seen every answer.
LEMMA RemovedCounts ==
  ASSUME RelayInv, UnseenInv, NEW p \in Peers,
         FinishRemove(p) \/ FinishDrop(p) \/ FinishRollback(p)
  PROVE  SameAdds /\ RemovedOk = unseen
<1>1. ~Rollback
  BY DEF FinishRemove, FinishDrop, FinishRollback, RelayInv, RelayTypeOK, Rollback
<1>2. \A ip \in Ips : fut[ip] \in {"none", "del", "deleted"}
  BY DEF FinishRemove, FinishDrop, FinishRollback, RelayInv, BatchInv, Removing, Quiet
<1>3. fut' = [ip \in Ips |-> "none"] /\ UNCHANGED <<netlink, kernel>>
  BY DEF FinishRemove, FinishDrop, FinishRollback, osVars
<1> QED
  BY <1>1, <1>2, <1>3
     DEF SameAdds, Added, Answered, Dropped, InsertedOk, RemovedOk, RemovedByOs, UnseenInv

\* An add that succeeded is counted.
LEMMA ReplyCounts ==
  ASSUME RelayInv, UnseenInv, NEW p \in Peers, NEW ip \in Ips, InsertReply(p, ip)
  PROVE  /\ ip \in Added /\ Added' = Added \ {ip}
         /\ ip \in Answered /\ Answered' = Answered \ {ip}
         /\ Dropped' = Dropped /\ kernel' = kernel
         /\ InsertedOk = {ip} /\ RemovedOk = {} /\ RemovedByOs = {} /\ ~Rollback
<1>1. value[p] \in Values
  BY DEF InsertReply, RelayInv, BatchInv
<1>2. fut \in [Ips -> Futures] /\ peer_map \in [Ips -> Values \cup {NoEntry, Parked}]
  BY DEF RelayInv, RelayTypeOK
<1>3. InsertedOk = {ip}
  BY <1>1, <1>2, RelayAssumption DEF InsertReply, InsertedOk
<1>4. RemovedOk = {}
  BY <1>2 DEF InsertReply, RelayInv, BatchInv, Inserting, Quiet, RemovedOk, UnseenInv
<1> QED
  BY <1>2, <1>3, <1>4 DEF InsertReply, Added, Answered, Dropped, RemovedByOs, Rollback, osVars

\* A batch fails: its answered adds are forgotten, the others may still take effect.
LEMMA FailedCounts ==
  ASSUME RelayInv, UnseenInv, NEW p \in Peers, NEW ip \in Ips, InsertFailed(p, ip)
  PROVE  /\ Added' = {} /\ Answered' = {} /\ kernel' = kernel
         /\ Dropped' \subseteq Ips \ Answered
         /\ InsertedOk = {} /\ RemovedOk = {} /\ RemovedByOs = {} /\ Rollback
<1>1. Inserting(current[p]) /\ SendRemovals(current[p]) /\ kernel' = kernel
  BY DEF InsertFailed, RelayInv, BatchInv, osVars
<1>2. Added' = {} /\ Answered' = {}
  BY <1>1 DEF SendRemovals, Added, Answered
<1>3. Dropped' \subseteq Ips \ Answered
  BY <1>1, QueueShapes, RequestQueues DEF SendRemovals, Inserting, Quiet, Dropped, Answered
<1>4. InsertedOk = {} /\ RemovedOk = {} /\ RemovedByOs = {}
  BY <1>1 DEF SendRemovals, Inserting, Quiet, InsertedOk, RemovedOk, RemovedByOs, UnseenInv
<1>5. Rollback
  BY DEF InsertFailed, Rollback, RelayInv, RelayTypeOK
<1> QED BY <1>1, <1>2, <1>3, <1>4, <1>5

\* The OS handles an add: of a future that waits, or of one that was dropped.
LEMMA AddCounts ==
  ASSUME RelayInv, UnseenInv, NEW ip \in Ips, OsAdd(ip)
  PROVE  /\ InsertedOk = {} /\ RemovedOk = {} /\ RemovedByOs = {} /\ ~Rollback
         /\ \/ kernel' = kernel \/ (ip \notin kernel /\ kernel' = kernel \cup {ip})
         /\ \/ /\ ip \notin Answered /\ Answered' = Answered \cup {ip} /\ Dropped' = Dropped
               /\ \/ Added' = Added
                  \/ ip \notin Added /\ Added' = Added \cup {ip} /\ kernel' # kernel
            \/ /\ ip \in Dropped /\ Dropped' = Dropped \ {ip}
               /\ Added' = Added /\ Answered' = Answered
<1>1. fut \in [Ips -> Futures] /\ netlink \in [Ips -> Queues] /\ kernel \in SUBSET Ips
  BY DEF RelayInv, RelayTypeOK
<1>2. \/ fut[ip] = "add" /\ netlink[ip] = <<"add">>
      \/ fut[ip] = "del" /\ netlink[ip] = <<"add", "del">>
  BY RequestOfBatch, RequestQueues DEF OsAdd, Inserting, Removing, Quiet
<1>3. ~Rollback
  BY DEF OsAdd, Rollback
<1>4. CASE fut[ip] = "add" /\ netlink[ip] = <<"add">>
  <2>1. /\ \/ fut' = [fut EXCEPT ![ip] = "added"] /\ ip \notin kernel /\ kernel' = kernel \cup {ip}
           \/ /\ fut' = [fut EXCEPT ![ip] = "failed"]
              /\ kernel' = kernel \/ (ip \notin kernel /\ kernel' = kernel \cup {ip})
        /\ netlink' = [netlink EXCEPT ![ip] = <<>>]
    BY <1>1, <1>4, RequestQueues DEF OsAdd, Answer
  <2>2. InsertedOk = {} /\ RemovedOk = {} /\ RemovedByOs = {}
    BY <1>1, <1>4, <2>1 DEF InsertedOk, RemovedOk, RemovedByOs, UnseenInv
  <2>3. ip \notin Answered /\ Answered' = Answered \cup {ip}
    BY <1>1, <1>4, <2>1 DEF Answered
  <2>4. Dropped' = Dropped
    BY <1>1, <1>4, <2>1, QueueShapes DEF Dropped
  <2>5. \/ Added' = Added
        \/ ip \notin Added /\ Added' = Added \cup {ip} /\ kernel' # kernel
    BY <1>1, <1>4, <2>1 DEF Added
  <2> QED BY <1>3, <2>1, <2>2, <2>3, <2>4, <2>5
<1>5. CASE fut[ip] = "del" /\ netlink[ip] = <<"add", "del">>
  <2>1. /\ fut' = fut /\ netlink' = [netlink EXCEPT ![ip] = <<"del">>]
        /\ kernel' = kernel \/ (ip \notin kernel /\ kernel' = kernel \cup {ip})
    BY <1>1, <1>5, RequestQueues DEF OsAdd, Answer
  <2>2. InsertedOk = {} /\ RemovedOk = {} /\ RemovedByOs = {}
    BY <2>1 DEF InsertedOk, RemovedOk, RemovedByOs, UnseenInv
  <2>3. Added' = Added /\ Answered' = Answered
    BY <2>1 DEF Added, Answered
  <2>4. ip \in Dropped /\ Dropped' = Dropped \ {ip}
    BY <1>1, <1>5, <2>1, QueueShapes DEF Dropped
  <2> QED BY <1>3, <2>1, <2>2, <2>3, <2>4
<1> QED BY <1>2, <1>4, <1>5

\* The OS handles a removal: a route that goes has still to be discounted.
LEMMA RemoveCounts ==
  ASSUME RelayInv, UnseenInv, NEW ip \in Ips, OsRemove(ip)
  PROVE  /\ Added' = Added /\ Answered' = Answered /\ Dropped' = Dropped
         /\ InsertedOk = {} /\ RemovedOk = {} /\ ~Rollback
         /\ \/ RemovedByOs = {} /\ kernel' = kernel
            \/ /\ ip \in kernel /\ kernel' = kernel \ {ip}
               /\ ip \notin unseen /\ RemovedByOs = {ip}
<1>1. fut \in [Ips -> Futures] /\ netlink \in [Ips -> Queues] /\ kernel \in SUBSET Ips
  BY DEF RelayInv, RelayTypeOK
<1>2. fut[ip] = "del" /\ netlink[ip] = <<"del">>
  BY RequestOfBatch, RequestQueues DEF OsRemove, Inserting, Removing, Quiet
<1>3. /\ fut' = [fut EXCEPT ![ip] = "deleted"]
      /\ netlink' = [netlink EXCEPT ![ip] = <<>>]
      /\ kernel' = kernel \/ kernel' = kernel \ {ip}
  BY <1>1, <1>2, RequestQueues DEF OsRemove, Answer
<1>4. ~Rollback
  BY DEF OsRemove, Rollback
<1>5. RemovedOk = {} /\ ip \notin unseen
  BY <1>1, <1>2, <1>3 DEF RemovedOk, UnseenInv
<1> QED
  BY <1>1, <1>2, <1>3, <1>4, <1>5, QueueShapes
     DEF Added, Answered, Dropped, InsertedOk, RemovedByOs

\* What is unseen stays an answered removal, until it is seen.
LEMMA UnseenStep ==
  ASSUME RelayInv, RelayInv', UnseenInv, [GaugeNext]_gaugeVars
  PROVE  UnseenInv'
<1>1. fut \in [Ips -> Futures] /\ fut' \in [Ips -> Futures]
  BY DEF RelayInv, RelayTypeOK
<1>2. CASE UNCHANGED gaugeVars \/ \E ip \in Ips : RemoveReturns(ip)
  BY <1>2 DEF gaugeVars, relayVars, RemoveReturns, UnseenInv
<1>3. CASE RelayCounted
  <2>1. unseen' = (unseen \ RemovedOk) \cup RemovedByOs
    BY <1>3 DEF RelayCounted
  <2>2. RemovedByOs \subseteq {ip \in Ips : fut'[ip] = "deleted"}
    BY DEF RemovedByOs, RelayInv, RelayTypeOK
  <2>3. \A ip \in unseen : fut'[ip] \in {"none", "deleted"}
    <3> SUFFICES ASSUME NEW x \in unseen PROVE fut'[x] \in {"none", "deleted"}
      OBVIOUS
    <3>1. x \in Ips /\ fut[x] = "deleted"
      BY DEF UnseenInv
    <3>2. CASE \E p \in Peers : Call(p)
      BY <3>1, <3>2 DEF Call, CallReconcile, CallRemove, Park
    <3>3. CASE \E p \in Peers : StartRemove(p) \/ StartInsert(p)
      <4>1. \A q \in Peers : ~Busy(q)
        BY <3>3, OneBusy DEF StartRemove, StartInsert, RelayInv, Busy
      <4> QED BY <3>1, <4>1 DEF RelayInv, BatchInv, Quiet
    <3>4. CASE \E p \in Peers : \/ FinishInsert(p)
                              \/ \E ip \in Ips : InsertReply(p, ip) \/ InsertFailed(p, ip)
      BY <3>1, <3>4 DEF FinishInsert, InsertReply, InsertFailed, RelayInv, BatchInv, Inserting, Quiet
    <3>5. CASE \E p \in Peers : FinishRemove(p) \/ FinishDrop(p) \/ FinishRollback(p)
      BY <3>1, <3>5 DEF FinishRemove, FinishDrop, FinishRollback
    <3>6. CASE \E ip \in Ips : OsAdd(ip) \/ OsRemove(ip)
      BY <1>1, <3>1, <3>6 DEF OsAdd, OsRemove, Answer
    <3> QED
      BY <1>3, <3>2, <3>3, <3>4, <3>5, <3>6 DEF RelayCounted, RelayNext, Os, Progress
  <2> QED BY <2>1, <2>2, <2>3 DEF UnseenInv, RemovedOk
<1> QED BY <1>2, <1>3 DEF GaugeNext

-----------------------------------------------------------------------------

\* The invariant holds of the gauge beside the relay.
THEOREM GaugeInvariant == GaugeSpec => []GaugeInv
<1>1. GaugeInit => GaugeInv
  <2> SUFFICES ASSUME GaugeInit PROVE GaugeInv
    OBVIOUS
  <2>1. RelayInv
    BY InitInv DEF GaugeInit
  <2>2. Added = {} /\ Dropped = {} /\ Answered = {} /\ kernel = {} /\ unseen = {}
    BY QueueShapes DEF GaugeInit, RelayInit, Added, Dropped, Answered
  <2>3. Cardinality({}) = 0 /\ Cardinality(Ips) \in Nat
    BY Count
  <2> QED BY <2>1, <2>2, <2>3 DEF GaugeInv, GaugeInit
<1>2. GaugeInv /\ [GaugeNext]_gaugeVars => GaugeInv'
  <2> SUFFICES ASSUME GaugeInv, [GaugeNext]_gaugeVars PROVE GaugeInv'
    OBVIOUS
  <2> DEFINE N == Cardinality(Ips)
             k == Cardinality(kernel)
             u == Cardinality(unseen)
             a == Cardinality(Added)
             w == Cardinality(Answered)
             d == Cardinality(Dropped)
             Balanced ==
               /\ active' \in Int /\ failed' \in Nat
               /\ active' + a' <= k' + u' /\ k' + u' + d' <= active' + failed' * N + w'
  <2>1. RelayInv /\ RelayInv' /\ UnseenInv
    BY NextInv DEF GaugeInv, GaugeNext, RelayCounted, RemoveReturns, gaugeVars, relayVars, UnseenInv
  <2>2. UnseenInv'
    BY <2>1, UnseenStep
  <2>3. /\ kernel \in SUBSET Ips /\ kernel' \in SUBSET Ips
        /\ Added \in SUBSET Ips /\ Answered \in SUBSET Ips /\ Dropped \in SUBSET Ips
        /\ Added' \in SUBSET Ips /\ Answered' \in SUBSET Ips /\ Dropped' \in SUBSET Ips
        /\ unseen \in SUBSET Ips /\ unseen' \in SUBSET Ips
    BY <2>1, <2>2 DEF RelayInv, RelayTypeOK, Added, Answered, Dropped, UnseenInv
  <2>4. /\ N \in Nat /\ k \in Nat /\ u \in Nat /\ a \in Nat /\ w \in Nat /\ d \in Nat
        /\ k' \in Nat /\ u' \in Nat /\ a' \in Nat /\ w' \in Nat /\ d' \in Nat
    BY <2>3, Count
  <2>5. /\ active \in Int /\ failed \in Nat /\ failed * N \in Nat
        /\ (failed + 1) * N = failed * N + N
        /\ active + a <= k + u /\ k + u + d <= active + failed * N + w
    BY <2>4 DEF GaugeInv
  <2> SUFFICES Balanced
    BY <2>1, <2>2 DEF GaugeInv, UnseenInv
  <2>6. CASE UNCHANGED gaugeVars
    BY <2>5, <2>6 DEF gaugeVars, relayVars, Added, Answered, Dropped
  <2>7. CASE \E ip \in Ips : RemoveReturns(ip)
    <3>1. PICK ip \in Ips : RemoveReturns(ip)
      BY <2>7
    <3>2. u' = u - 1
      BY <2>3, <3>1, Count DEF RemoveReturns
    <3>3. a' = a /\ w' = w /\ d' = d /\ k' = k /\ active' = active - 1 /\ failed' = failed
      BY <3>1 DEF RemoveReturns, relayVars, Added, Answered, Dropped
    <3> QED BY <2>4, <2>5, <3>2, <3>3
  <2> SUFFICES ASSUME RelayCounted PROVE Balanced
    BY <2>6, <2>7 DEF GaugeNext
  <2>8. /\ active' = active + Cardinality(InsertedOk) - Cardinality(RemovedOk)
        /\ unseen' = (unseen \ RemovedOk) \cup RemovedByOs
        /\ failed' = IF Rollback THEN failed + 1 ELSE failed
        /\ Cardinality({}) = 0 /\ \A ip : Cardinality({ip}) = 1
    BY Count DEF RelayCounted
  <2>9. CASE \E p \in Peers :
               Call(p) \/ StartRemove(p) \/ StartInsert(p) \/ FinishInsert(p)
    <3>1. SameCounts
      BY <2>1, <2>9, CallCounts, BatchCounts
    <3>2. unseen' = unseen
      BY <2>8, <3>1 DEF SameCounts, SameAdds
    <3> QED BY <2>4, <2>5, <2>8, <3>1, <3>2 DEF SameCounts, SameAdds
  <2>10. CASE \E p \in Peers : FinishRemove(p) \/ FinishDrop(p) \/ FinishRollback(p)
    <3>1. SameAdds /\ RemovedOk = unseen
      BY <2>1, <2>10, RemovedCounts
    <3>2. unseen' = {}
      BY <2>8, <3>1 DEF SameAdds
    <3>3. u' = 0 /\ active' = active - u /\ failed' = failed
      <4>1. Cardinality(InsertedOk) = 0 /\ Cardinality(RemovedOk) = u
        BY <2>8, <3>1, Zenon DEF SameAdds
      <4>2. u' = 0
        BY <2>8, <3>2, Zenon
      <4>3. failed' = failed
        BY <2>8, <3>1 DEF SameAdds
      <4>4. active' = active - u
        <5> HIDE DEF u
        <5> QED BY <2>4, <2>5, <2>8, <4>1
      <4> QED BY <4>2, <4>3, <4>4
    <3>4. a' = a /\ w' = w /\ d' = d /\ k' = k
      BY <3>1 DEF SameAdds
    <3> QED BY <2>4, <2>5, <3>3, <3>4
  <2>11. CASE \E p \in Peers, ip \in Ips : InsertReply(p, ip)
    <3>1. PICK p \in Peers, ip \in Ips : InsertReply(p, ip)
      BY <2>11
    <3>2. /\ ip \in Added /\ Added' = Added \ {ip}
          /\ ip \in Answered /\ Answered' = Answered \ {ip}
          /\ Dropped' = Dropped /\ kernel' = kernel
          /\ InsertedOk = {ip} /\ RemovedOk = {} /\ RemovedByOs = {} /\ ~Rollback
      BY <2>1, <3>1, ReplyCounts
    <3>3. a' = a - 1 /\ w' = w - 1
      BY <2>3, <3>2, Count
    <3>4. d' = d /\ k' = k /\ u' = u
      <4>1. unseen' = unseen
        BY <2>8, <3>2
      <4> QED BY <3>2, <4>1
    <3>5. active' = active + 1 /\ failed' = failed
      <4>1. Cardinality(InsertedOk) = 1 /\ Cardinality(RemovedOk) = 0
        BY <2>8, <3>2, Zenon
      <4> QED BY <2>5, <2>8, <3>2, <4>1
    <3> QED BY <2>4, <2>5, <3>3, <3>4, <3>5
  <2>12. CASE \E p \in Peers, ip \in Ips : InsertFailed(p, ip)
    <3>1. PICK p \in Peers, ip \in Ips : InsertFailed(p, ip)
      BY <2>12
    <3>2. a' = 0 /\ w' = 0 /\ k' = k /\ u' = u /\ active' = active /\ failed' = failed + 1
      <4>1. /\ Added' = {} /\ Answered' = {} /\ kernel' = kernel
            /\ InsertedOk = {} /\ RemovedOk = {} /\ RemovedByOs = {} /\ Rollback
        BY <2>1, <3>1, FailedCounts
      <4>2. unseen' = unseen
        BY <2>8, <4>1
      <4> QED BY <2>5, <2>8, <4>1, <4>2
    <3>3. w + d' <= N
      <4>1. Answered \cap Dropped' = {} /\ Answered \cup Dropped' \in SUBSET Ips
        BY <2>1, <2>3, <3>1, FailedCounts
      <4>2. Cardinality(Answered \cup Dropped') = w + d' - Cardinality(Answered \cap Dropped')
        BY <2>3, Count, FS_Union
      <4>3. Cardinality(Answered \cap Dropped') = 0
        BY <2>8, <4>1, Zenon
      <4>4. Cardinality(Answered \cup Dropped') <= N
        BY <4>1, Count
      <4> QED BY <2>4, <4>2, <4>3, <4>4
    <3> QED BY <2>4, <2>5, <3>2, <3>3
  <2>13. CASE \E ip \in Ips : OsAdd(ip)
    <3>1. PICK ip \in Ips : OsAdd(ip)
      BY <2>13
    <3>2. /\ InsertedOk = {} /\ RemovedOk = {} /\ RemovedByOs = {} /\ ~Rollback
          /\ \/ kernel' = kernel \/ (ip \notin kernel /\ kernel' = kernel \cup {ip})
      BY <2>1, <3>1, AddCounts
    <3>3. \/ /\ ip \notin Answered /\ Answered' = Answered \cup {ip} /\ Dropped' = Dropped
             /\ \/ Added' = Added
                \/ ip \notin Added /\ Added' = Added \cup {ip} /\ kernel' # kernel
          \/ /\ ip \in Dropped /\ Dropped' = Dropped \ {ip}
             /\ Added' = Added /\ Answered' = Answered
      BY <2>1, <3>1, AddCounts
    <3>4. active' = active /\ failed' = failed /\ u' = u
      <4>1. unseen' = unseen
        BY <2>8, <3>2
      <4> QED BY <2>5, <2>8, <3>2, <4>1
    <3>5. k' = k \/ k' = k + 1
      BY <2>3, <3>2, Count
    <3>6. CASE ip \in Dropped /\ Dropped' = Dropped \ {ip} /\ Added' = Added /\ Answered' = Answered
      <4>1. d' = d - 1 /\ a' = a /\ w' = w
        BY <2>3, <3>6, Count
      <4> QED BY <2>4, <2>5, <3>4, <3>5, <4>1
    <3>7. CASE /\ ip \notin Answered /\ Answered' = Answered \cup {ip} /\ Dropped' = Dropped
               /\ \/ Added' = Added
                  \/ ip \notin Added /\ Added' = Added \cup {ip} /\ kernel' # kernel
      <4>1. w' = w + 1 /\ d' = d
        BY <2>3, <3>7, Count
      <4>2. a' = a \/ (a' = a + 1 /\ k' = k + 1)
        <5>1. CASE Added' = Added
          BY <5>1
        <5>2. CASE ip \notin Added /\ Added' = Added \cup {ip} /\ kernel' # kernel
          BY <2>3, <3>2, <5>2, Count
        <5> QED BY <3>7, <5>1, <5>2
      <4> QED BY <2>4, <2>5, <3>4, <3>5, <4>1, <4>2
    <3> QED BY <3>3, <3>6, <3>7
  <2>14. CASE \E ip \in Ips : OsRemove(ip)
    <3>1. PICK ip \in Ips : OsRemove(ip)
      BY <2>14
    <3>2. /\ a' = a /\ w' = w /\ d' = d /\ failed' = failed
          /\ InsertedOk = {} /\ RemovedOk = {}
          /\ \/ RemovedByOs = {} /\ kernel' = kernel
             \/ /\ ip \in kernel /\ kernel' = kernel \ {ip}
                /\ ip \notin unseen /\ RemovedByOs = {ip}
      BY <2>1, <2>8, <3>1, RemoveCounts
    <3>3. active' = active
      BY <2>5, <2>8, <3>2
    <3>4. k' + u' = k + u
      <4>1. CASE RemovedByOs = {} /\ kernel' = kernel
        <5>1. unseen' = unseen
          BY <2>8, <3>2, <4>1
        <5> QED BY <4>1, <5>1
      <4>2. CASE /\ ip \in kernel /\ kernel' = kernel \ {ip}
                 /\ ip \notin unseen /\ RemovedByOs = {ip}
        <5>1. unseen' = unseen \cup {ip}
          BY <2>8, <3>2, <4>2
        <5>2. k' = k - 1 /\ u' = u + 1
          BY <2>3, <4>2, <5>1, Count
        <5> QED BY <2>4, <5>2
      <4> QED BY <3>2, <4>1, <4>2
    <3> QED BY <2>4, <2>5, <3>2, <3>3, <3>4
  <2> QED
    BY <2>9, <2>10, <2>11, <2>12, <2>13, <2>14 DEF RelayCounted, RelayNext, Os, Progress
<1> QED BY <1>1, <1>2, PTL DEF GaugeSpec

\* The gauge is above the number of routes by no more than the removals still to be
\* seen, and at rest neither above it nor below it by more than the addresses of the
\* failed batches (RoutingTable::insert and remove).
THEOREM GaugeDriftBounded == GaugeSpec => []DriftBounded
<1>1. GaugeInv => DriftBounded
  <2> SUFFICES ASSUME GaugeInv PROVE DriftBounded
    OBVIOUS
  <2> DEFINE k == Cardinality(kernel)
             u == Cardinality(unseen)
             a == Cardinality(Added)
             w == Cardinality(Answered)
             d == Cardinality(Dropped)
             drift == failed * Cardinality(Ips)
  <2>1. /\ kernel \in SUBSET Ips /\ unseen \in SUBSET Ips
        /\ Added \in SUBSET Ips /\ Answered \in SUBSET Ips /\ Dropped \in SUBSET Ips
    BY DEF GaugeInv, RelayInv, RelayTypeOK, Added, Answered, Dropped
  <2>2. /\ k \in Nat /\ u \in Nat /\ a \in Nat /\ w \in Nat /\ d \in Nat
        /\ Cardinality(Ips) \in Nat /\ Cardinality({}) = 0
    BY <2>1, Count
  <2>3. /\ drift \in Nat /\ active \in Int
        /\ active + a <= k + u /\ k + u + d <= active + drift + w
    BY <2>2 DEF GaugeInv
  <2>4. ASSUME handle = <<>> PROVE Answered = {} /\ unseen = {}
    <3>1. \A p \in Peers : ~Busy(p)
      BY <2>4 DEF GaugeInv, RelayInv, QueueInv, Holds
    <3> QED BY <3>1 DEF GaugeInv, RelayInv, BatchInv, Quiet, Answered
  <2>5. handle = <<>> => w = 0 /\ u = 0
    BY <2>2, <2>4, Zenon
  <2>6. active <= k + u /\ (handle = <<>> => active <= k /\ k - active <= drift)
    <3> HIDE DEF drift, k, u, a, w, d
    <3> QED BY <2>2, <2>3, <2>5
  <2> QED BY <2>6 DEF DriftBounded
<1> QED BY GaugeInvariant, <1>1, PTL
=============================================================================
