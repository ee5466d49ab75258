-------------------------- MODULE BufferPoolProofs --------------------------
(* Proofs about the buffer pool, for any number of buffers of any size.     *)
EXTENDS BufferPool, FiniteSetTheorems, TLAPS

USE BufferPoolAssumption

-----------------------------------------------------------------------------
(* The channel as a sequence without repetition.                           *)

\* Receiving from the channel takes one buffer from its contents (pop).
LEMMA TailLoses ==
  ASSUME NEW S, NEW q \in Seq(S), q # <<>>, IsInjective(q)
  PROVE  /\ Tail(q) \in Seq(S) /\ IsInjective(Tail(q))
         /\ Range(Tail(q)) = Range(q) \ {Head(q)}
<1>1. /\ Tail(q) \in Seq(S) /\ Len(Tail(q)) = Len(q) - 1 /\ Len(q) \in Nat \ {0}
      /\ \A i \in 1..(Len(q) - 1) : Tail(q)[i] = q[i + 1]
      /\ Head(q) = q[1]
      /\ DOMAIN Tail(q) = 1..(Len(q) - 1) /\ DOMAIN q = 1..Len(q)
  OBVIOUS
<1>2. \A i, j \in 1..Len(q) : q[i] = q[j] => i = j
  BY <1>1 DEF IsInjective
<1>3. IsInjective(Tail(q))
  BY <1>1, <1>2 DEF IsInjective
<1>4. ASSUME NEW x PROVE x \in Range(Tail(q)) <=> x \in Range(q) \ {Head(q)}
  <2>1. ASSUME NEW i \in 1..(Len(q) - 1), x = Tail(q)[i]
        PROVE  x \in Range(q) \ {Head(q)}
    BY <1>1, <1>2, <2>1 DEF Range
  <2>2. ASSUME NEW i \in 1..Len(q), x = q[i], x # Head(q)
        PROVE  x \in Range(Tail(q))
    <3>1. i - 1 \in 1..(Len(q) - 1) /\ Tail(q)[i - 1] = x
      BY <1>1, <2>2
    <3> QED BY <3>1, <1>1 DEF Range
  <2> QED BY <2>1, <2>2, <1>1 DEF Range
<1> QED BY <1>1, <1>3, <1>4

\* Sending a buffer that is not in the channel adds it (Drop, try_send).
LEMMA AppendGains ==
  ASSUME NEW S, NEW q \in Seq(S), NEW x \in S, x \notin Range(q), IsInjective(q)
  PROVE  /\ Append(q, x) \in Seq(S) /\ IsInjective(Append(q, x))
         /\ Range(Append(q, x)) = Range(q) \cup {x}
<1>1. /\ Append(q, x) \in Seq(S) /\ Len(q) \in Nat
      /\ \A i \in 1..Len(q) : Append(q, x)[i] = q[i]
      /\ Append(q, x)[Len(q) + 1] = x
      /\ DOMAIN Append(q, x) = 1..(Len(q) + 1) /\ DOMAIN q = 1..Len(q)
  OBVIOUS
<1>2. \A i \in 1..Len(q) : q[i] # x
  BY <1>1 DEF Range
<1>3. IsInjective(Append(q, x))
  BY <1>1, <1>2 DEF IsInjective
<1>4. \A i \in 1..(Len(q) + 1) : i \in 1..Len(q) \/ i = Len(q) + 1
  BY <1>1
<1>5. Range(Append(q, x)) = Range(q) \cup {x}
  BY <1>1, <1>4 DEF Range
<1> QED BY <1>1, <1>3, <1>5

\* A channel without repetition is no longer than its contents.
LEMMA LengthBound ==
  ASSUME NEW T, IsFiniteSet(T), NEW q \in Seq(T), IsInjective(q)
  PROVE  Len(q) <= Cardinality(T)
<1>1. q \in [1..Len(q) -> T] /\ Len(q) \in Nat /\ DOMAIN q = 1..Len(q)
  OBVIOUS
<1>2. q \in Injection(1..Len(q), T)
  BY <1>1, IsInjective(q), Zenon DEF Injection
<1>3. Cardinality(1..Len(q)) <= Cardinality(T)
  BY <1>2, FS_Injection
<1>4. Cardinality(1..Len(q)) = IF 1 > Len(q) THEN 0 ELSE Len(q) - 1 + 1
  <2>1. 1 \in Int /\ Len(q) \in Int
    BY <1>1
  <2> QED BY <2>1, FS_Interval
<1> QED BY <1>1, <1>3, <1>4

-----------------------------------------------------------------------------
(* Counting buffers.                                                       *)

\* There are Count buffers, and no set of them has more.
LEMMA BuffersFinite ==
  /\ IsFiniteSet(Buffers) /\ Cardinality(Buffers) = Count
  /\ \A T \in SUBSET Buffers : IsFiniteSet(T) /\ Cardinality(T) \in 0..Count
<1>1. IsFiniteSet(1..Count) /\ Cardinality(1..Count) = IF 1 > Count THEN 0 ELSE Count - 1 + 1
  <2>1. 1 \in Int /\ Count \in Int
    OBVIOUS
  <2> QED BY <2>1, FS_Interval
<1>2. IsFiniteSet(Buffers) /\ Cardinality(Buffers) = Count
  BY <1>1 DEF Buffers
<1>3. ASSUME NEW T \in SUBSET Buffers
      PROVE  IsFiniteSet(T) /\ Cardinality(T) \in 0..Count
  <2>1. IsFiniteSet(T) /\ Cardinality(T) <= Count
    BY <1>2, FS_Subset
  <2>2. Cardinality(T) \in Nat
    BY <2>1, FS_CardinalityType
  <2> QED BY <2>1, <2>2
<1> QED BY <1>2, <1>3

\* A buffer that is not in the channel leaves room for it there.
LEMMA RoomFor ==
  ASSUME NEW q \in Seq(Buffers), IsInjective(q)
  PROVE  /\ Len(q) \in 0..Count
         /\ \A b \in Buffers : b \notin Range(q) => Len(q) < Count
<1>1. Len(q) \in 0..Count
  BY BuffersFinite, LengthBound
<1>2. ASSUME NEW b \in Buffers, b \notin Range(q)
      PROVE  Len(q) < Count
  <2>1. q \in Seq(Buffers \ {b})
    BY <1>2 DEF Range
  <2>2. IsFiniteSet(Buffers \ {b}) /\ Cardinality(Buffers \ {b}) = Count - 1
    BY BuffersFinite, FS_RemoveElement
  <2>3. Len(q) <= Count - 1
    BY <2>1, <2>2, LengthBound
  <2> QED BY <2>3, <1>1
<1> QED BY <1>1, <1>2

\* How a step of one buffer changes the set of buffers at some stages.
LEMMA MoveIn ==
  ASSUME stage \in [Buffers -> Stages], NEW b \in Buffers,
         NEW from, NEW to \in Stages, Move(b, from, to), NEW T
  PROVE  /\ stage' \in [Buffers -> Stages]
         /\ In(T)' = IF to \in T THEN In(T) \cup {b} ELSE In(T) \ {b}
         /\ b \in In(T) <=> from \in T
BY DEF Move, In

-----------------------------------------------------------------------------
(* The inductive invariant, one lemma per action.                          *)

\* BufferPool::new establishes it.
LEMMA PoolInitInv == PoolInit => PoolInv
<1> SUFFICES ASSUME PoolInit PROVE PoolInv
  OBVIOUS
<1>1. queue \in Seq(Buffers) /\ DOMAIN queue = Buffers
  BY DEF PoolInit, Buffers
<1>2. PoolTypeOK
  BY <1>1 DEF PoolInit, PoolTypeOK, Stages
<1>3. In({"free"}) = Buffers /\ Owned = {} /\ alive
  BY DEF PoolInit, In, Owned, Popping
<1>4. IsInjective(queue) /\ Range(queue) = Buffers
  BY <1>1 DEF PoolInit, IsInjective, Range
<1>5. ActiveCountsOwned /\ Cardinality(Owned) <= active
  BY <1>3, FS_EmptySet DEF PoolInit, ActiveCountsOwned
<1>6. ReportInv
  BY DEF PoolInit, ReportInv, StarvationShown, In, Buffers
<1> QED BY <1>2, <1>3, <1>4, <1>5, <1>6 DEF PoolInv

\* pop(): the head of the channel becomes owned, and empty.
LEMMA PopInv == ASSUME PoolInv, NEW b \in Buffers, Pop(b) PROVE PoolInv'
<1> USE DEF PoolInv
<1>1. Move(b, "free", "received") /\ alive /\ alive' /\ stage \in [Buffers -> Stages]
  BY DEF Pop, PoolTypeOK
<1>2. \A T : /\ In(T)' = IF "received" \in T THEN In(T) \cup {b} ELSE In(T) \ {b}
             /\ b \in In(T) <=> "free" \in T
  BY <1>1, MoveIn DEF Stages, Popping
<1>3. In({"free"})' = In({"free"}) \ {b}
  BY <1>2
<1>4. Owned' = Owned \cup {b} /\ b \notin Owned
  BY <1>2 DEF Owned, Popping
<1>5. queue' \in Seq(Buffers) /\ IsInjective(queue') /\ Range(queue') = In({"free"})'
  BY <1>3, TailLoses DEF Pop, PoolTypeOK
<1>6. Cardinality(Owned') = Cardinality(Owned) + 1 /\ Cardinality(Owned') \in 0..Count
  <2>1. Owned \in SUBSET Buffers /\ Owned' \in SUBSET Buffers
    BY DEF Owned, In
  <2> QED BY <2>1, <1>4, BuffersFinite, FS_AddElement
<1>7. active' = Cardinality(Owned')
  BY <1>1, <1>6 DEF Pop, ActiveCountsOwned
<1>8. PoolTypeOK'
  <2>1. stage' \in [Buffers -> Stages]
    BY <1>1, MoveIn DEF Stages, Popping
  <2>2. filled' \in [Buffers -> 0..BufSize] /\ written' \in [Buffers -> 0..BufSize]
    BY DEF Pop, PoolTypeOK
  <2>3. active' \in 0..Count
    BY <1>6, <1>7
  <2>4. UNCHANGED <<sample, gauge, alive>>
    BY DEF Pop
  <2> QED BY <2>1, <2>2, <2>3, <2>4, <1>5, Zenon DEF PoolTypeOK
<1>9. \A c \in Owned' : filled'[c] = written'[c]
  BY <1>4 DEF Pop, PoolTypeOK, Owned, In
<1>10. ReportInv'
  <2>1. b \in In(Popping \cup Dropping)'
    BY <1>2 DEF Popping
  <2>2. In({"pop_loaded"})' = {}
    BY <1>2 DEF Pop, In, Popping
  <2> QED BY <2>1, <2>2 DEF ReportInv, StarvationShown
<1> QED BY <1>1, <1>5, <1>6, <1>7, <1>8, <1>9, <1>10 DEF ActiveCountsOwned

\* A step of a buffer that stays among the owned ones, or outside them, and is
\* in the channel neither before nor after: the report, and a freed buffer.
LEMMA SidewaysInv ==
  ASSUME PoolInv, NEW b \in Buffers, NEW from, NEW to \in Stages, Move(b, from, to),
         from # "free", to # "free",
         from \in Popping \cup {"held"} <=> to \in Popping \cup {"held"},
         to \in Popping => from \in Popping,
         sample' \in [Buffers -> 0..Count], gauge' \in 0..Count, ReportInv',
         UNCHANGED <<queue, bytes, active, alive>>
  PROVE  PoolInv'
<1> USE DEF PoolInv
<1>1. /\ stage' \in [Buffers -> Stages]
      /\ \A T : /\ In(T)' = IF to \in T THEN In(T) \cup {b} ELSE In(T) \ {b}
                /\ b \in In(T) <=> from \in T
  BY MoveIn DEF PoolTypeOK
<1>2. In({"free"})' = In({"free"}) /\ Owned' = Owned
  <2>1. In({"free"})' = In({"free"}) \ {b} /\ b \notin In({"free"})
    BY <1>1
  <2> DEFINE O == Popping \cup {"held"}
  <2>2. /\ In(O)' = IF to \in O THEN In(O) \cup {b} ELSE In(O) \ {b}
        /\ b \in In(O) <=> from \in O
    BY <1>1
  <2>3. from \in O <=> to \in O
    OBVIOUS
  <2>4. Owned = In(O) /\ Owned' = In(O)'
    BY DEF Owned
  <2> HIDE DEF O
  <2> QED BY <2>1, <2>2, <2>3, <2>4
<1>3. PoolTypeOK'
  BY <1>1 DEF PoolTypeOK, bytes
<1>4. ~alive' => In({"free"} \cup Popping)' = {}
  BY <1>1
<1> QED BY <1>2, <1>3, <1>4 DEF ActiveCountsOwned, bytes

\* read_frame() and BufMut: the bytes written and the filled length grow together.
LEMMA FillInv ==
  ASSUME PoolInv, NEW b \in Buffers, NEW n \in 1..BufSize, Fill(b, n) PROVE PoolInv'
<1> USE DEF PoolInv
<1>1. Owned' = Owned /\ b \in Owned /\ \A T : In(T)' = In(T)
  BY DEF Fill, Advance, remaining_mut, Owned, In
<1>2. filled[b] \in 0..BufSize /\ n <= BufSize - filled[b]
  BY DEF Fill, Advance, remaining_mut, PoolTypeOK
<1>3. filled[b] + n \in 0..BufSize
  BY <1>2
<1>4. filled' \in [Buffers -> 0..BufSize] /\ written' \in [Buffers -> 0..BufSize]
  BY <1>3 DEF Fill, Advance, remaining_mut, PoolTypeOK
<1>5. \A c \in Owned' : filled'[c] = written'[c]
  BY <1>1 DEF Fill, Advance, remaining_mut, PoolTypeOK, Owned, In
<1>6. PoolTypeOK'
  BY <1>4 DEF Fill, Advance, remaining_mut, PoolTypeOK
<1>7. ReportInv'
  BY <1>1 DEF Fill, ReportInv, StarvationShown
<1> QED BY <1>1, <1>5, <1>6, <1>7 DEF Fill, Advance, remaining_mut, ActiveCountsOwned

\* Drop for PooledBuffer, first half: the buffer is counted out, or freed.
LEMMA BeginDropInv == ASSUME PoolInv, NEW b \in Buffers, BeginDrop(b) PROVE PoolInv'
<1> USE DEF PoolInv
<1>1. PICK to \in {"upgraded", "gone"} :
        /\ Move(b, "held", to)
        /\ \/ to = "upgraded" /\ active' = active - 1
           \/ to = "gone" /\ ~alive /\ active' = active
        /\ UNCHANGED <<queue, sample, bytes, gauge, alive>>
  BY DEF BeginDrop
<1>2. /\ stage' \in [Buffers -> Stages]
      /\ \A T : /\ In(T)' = IF to \in T THEN In(T) \cup {b} ELSE In(T) \ {b}
                /\ b \in In(T) <=> "held" \in T
  BY <1>1, MoveIn DEF PoolTypeOK, Stages, Dropping
<1>3. In({"free"})' = In({"free"})
  BY <1>2
<1>4. Owned' = Owned \ {b} /\ b \in Owned
  BY <1>2 DEF Owned, Popping
<1>5. /\ Cardinality(Owned') = Cardinality(Owned) - 1
      /\ Cardinality(Owned) \in 0..Count /\ Cardinality(Owned') \in 0..Count
  <2>1. Owned \in SUBSET Buffers /\ Owned' \in SUBSET Buffers
    BY DEF Owned, In
  <2> QED BY <2>1, <1>4, BuffersFinite, FS_RemoveElement
<1>6. active \in 0..Count /\ Cardinality(Owned) <= active
  BY DEF PoolTypeOK
<1>7. active' \in 0..Count /\ Cardinality(Owned') <= active'
  BY <1>1, <1>5, <1>6
<1>8. ActiveCountsOwned'
  BY <1>1, <1>5 DEF ActiveCountsOwned
<1>9. PoolTypeOK'
  BY <1>1, <1>2, <1>7 DEF PoolTypeOK, bytes
<1>10. ~alive' => In({"free"} \cup Popping)' = {}
  BY <1>1, <1>2 DEF Popping
<1>11. ReportInv'
  <2>1. In({"pop_loaded"})' = In({"pop_loaded"})
    BY <1>2
  <2>2. alive' => b \in In(Popping \cup Dropping)'
    BY <1>1, <1>2 DEF Dropping
  <2> QED BY <1>1, <2>1, <2>2 DEF ReportInv, StarvationShown
<1> QED BY <1>1, <1>3, <1>4, <1>7, <1>8, <1>9, <1>10, <1>11 DEF bytes

\* Drop for PooledBuffer, second half: the channel takes the buffer back.
LEMMA GiveBackInv ==
  ASSUME PoolInv, NEW b \in Buffers, alive, Move(b, "sending", "free"),
         queue' = Append(queue, b), UNCHANGED <<sample, bytes, gauge, active, alive>>
  PROVE  PoolInv'
<1> USE DEF PoolInv
<1>1. /\ stage' \in [Buffers -> Stages]
      /\ \A T : /\ In(T)' = IF "free" \in T THEN In(T) \cup {b} ELSE In(T) \ {b}
                /\ b \in In(T) <=> "sending" \in T
  BY MoveIn DEF PoolTypeOK, Stages
<1>2. In({"free"})' = In({"free"}) \cup {b} /\ b \notin In({"free"})
  BY <1>1
<1>3. Owned' = Owned
  BY <1>1 DEF Owned, Popping
<1>4. queue' \in Seq(Buffers) /\ IsInjective(queue') /\ Range(queue') = In({"free"})'
  <2>1. queue \in Seq(Buffers) /\ b \notin Range(queue) /\ IsInjective(queue)
    BY <1>2 DEF PoolTypeOK
  <2>2. /\ Append(queue, b) \in Seq(Buffers) /\ IsInjective(Append(queue, b))
        /\ Range(Append(queue, b)) = Range(queue) \cup {b}
    BY <2>1, AppendGains
  <2> QED BY <2>2, <1>2
<1>5. PoolTypeOK'
  BY <1>1, <1>4 DEF PoolTypeOK, bytes
<1>6. ReportInv'
  <2>1. Len(queue) \in Nat /\ queue \in Seq(Buffers)
    BY DEF PoolTypeOK
  <2>2. Len(queue') = Len(queue) + 1 /\ queue' # <<>>
    BY <2>1
  <2>3. In({"pop_loaded"})' = In({"pop_loaded"}) \ {b} /\ In({"pop_loaded"}) \subseteq Buffers
    BY <1>1 DEF In
  <2>4. \A c \in In({"pop_loaded"}) : sample[c] \in Nat /\ sample[c] <= Len(queue)
    BY <2>3 DEF ReportInv, PoolTypeOK
  <2> QED BY <2>1, <2>2, <2>3, <2>4 DEF ReportInv, StarvationShown
<1> QED BY <1>3, <1>4, <1>5, <1>6 DEF ActiveCountsOwned, bytes

\* The read task is dropped: the channel is emptied, owned buffers stay owned.
LEMMA DropPoolInv == ASSUME PoolInv, DropPool PROVE PoolInv'
<1> USE DEF PoolInv
<1>1. stage' \in [Buffers -> Stages]
  BY DEF DropPool, PoolTypeOK, Stages
<1>2. In({"free"} \cup Popping)' = {} /\ In({"free"})' = {}
  BY DEF DropPool, In, Popping
<1>3. Owned' = Owned
  BY DEF DropPool, Owned, In, Popping, PoolTypeOK
<1>4. queue' \in Seq(Buffers) /\ IsInjective(queue') /\ Range(queue') = {}
  BY DEF DropPool, IsInjective, Range
<1>5. PoolTypeOK'
  BY <1>1, <1>4 DEF DropPool, PoolTypeOK, bytes
<1>6. ReportInv'
  BY <1>2 DEF DropPool, ReportInv, StarvationShown, In, Popping
<1> QED BY <1>2, <1>3, <1>4, <1>5, <1>6 DEF DropPool, ActiveCountsOwned, bytes

-----------------------------------------------------------------------------
(* The theorems.                                                           *)

\* Every step of the pool, on whatever thread, keeps the invariant.
LEMMA PoolStepInv == PoolInv /\ [PoolNext]_poolVars => PoolInv'
<1> SUFFICES ASSUME PoolInv, [PoolNext]_poolVars PROVE PoolInv'
  OBVIOUS
<1>1. ASSUME NEW b \in Buffers, NEW from, NEW to, Load(b, from, to),
             <<from, to>> \in {<<"received", "pop_loaded">>, <<"upgraded", "drop_loaded">>}
      PROVE  PoolInv'
  <2>1. Len(queue) \in 0..Count
    BY RoomFor DEF PoolInv, PoolTypeOK
  <2>2. sample' \in [Buffers -> 0..Count] /\ gauge' \in 0..Count
    BY <1>1, <2>1 DEF Load, PoolInv, PoolTypeOK
  <2>3. Move(b, from, to) /\ UNCHANGED <<queue, bytes, active, alive>>
    BY <1>1 DEF Load
  <2>4. ReportInv'
    <3>1. \A T : In(T)' = IF to \in T THEN In(T) \cup {b} ELSE In(T) \ {b}
      BY <1>1, <2>3, MoveIn DEF PoolInv, PoolTypeOK, Stages, Popping, Dropping
    <3>2. StarvationShown'
      BY <1>1, <3>1 DEF StarvationShown, Popping, Dropping
    <3>3. sample' = [sample EXCEPT ![b] = Len(queue)] /\ sample \in [Buffers -> 0..Count]
      BY <1>1 DEF Load, PoolInv, PoolTypeOK
    <3>4. \A c \in In({"pop_loaded"})' : sample'[c] <= Len(queue)
      <4>1. In({"pop_loaded"})' \subseteq In({"pop_loaded"}) \cup {b} /\ In({"pop_loaded"}) \subseteq Buffers
        BY <3>1 DEF In
      <4>2. \A c \in In({"pop_loaded"}) : sample[c] <= Len(queue)
        BY DEF PoolInv, ReportInv
      <4> QED BY <2>1, <3>3, <4>1, <4>2
    <3> QED BY <2>3, <3>2, <3>4 DEF ReportInv
  <2> QED BY <1>1, <2>2, <2>3, <2>4, SidewaysInv DEF Stages, Popping, Dropping
<1>2. ASSUME NEW b \in Buffers, NEW from, NEW to, Store(b, from, to),
             <<from, to>> \in {<<"pop_loaded", "held">>, <<"drop_loaded", "sending">>}
      PROVE  PoolInv'
  <2>1. sample' \in [Buffers -> 0..Count] /\ gauge' \in 0..Count
    BY <1>2 DEF Store, PoolInv, PoolTypeOK
  <2>2. Move(b, from, to) /\ UNCHANGED <<queue, bytes, active, alive>>
    BY <1>2 DEF Store
  <2>3. ReportInv'
    <3>1. /\ \A T : In(T)' = IF to \in T THEN In(T) \cup {b} ELSE In(T) \ {b}
          /\ \A T : b \in In(T) <=> from \in T
      BY <1>2, <2>2, MoveIn DEF PoolInv, PoolTypeOK, Stages, Popping, Dropping
    <3>2. from = "pop_loaded" /\ queue = <<>> => gauge' = 0
      <4> SUFFICES ASSUME from = "pop_loaded", queue = <<>> PROVE gauge' = 0
        OBVIOUS
      <4>1. sample[b] <= Len(queue) /\ sample[b] \in 0..Count
        BY <3>1 DEF PoolInv, ReportInv, PoolTypeOK
      <4>2. Len(queue) = 0
        OBVIOUS
      <4> QED BY <1>2, <4>1, <4>2 DEF Store
    <3>3. from = "drop_loaded" => b \in In(Popping \cup Dropping)'
      BY <1>2, <3>1 DEF Dropping
    <3>4. StarvationShown'
      BY <1>2, <2>2, <3>2, <3>3 DEF StarvationShown
    <3>5. In({"pop_loaded"})' \subseteq In({"pop_loaded"}) /\ sample' = sample
      BY <1>2, <3>1 DEF Store
    <3> QED BY <2>2, <3>4, <3>5 DEF ReportInv, PoolInv
  <2> QED BY <1>2, <2>1, <2>2, <2>3, SidewaysInv DEF Stages, Popping, Dropping
<1>3. ASSUME NEW b \in Buffers, Report(b) PROVE PoolInv'
  BY <1>1, <1>2, <1>3 DEF Report
<1>4. ASSUME NEW b \in Buffers, Reclaim(b) PROVE PoolInv'
  <2>1. CASE alive
    BY <1>4, <2>1, GiveBackInv DEF Reclaim
  <2>2. CASE ~alive
    <3>1. /\ Move(b, "sending", "gone") /\ UNCHANGED <<queue, bytes, active, alive>>
          /\ sample' \in [Buffers -> 0..Count] /\ gauge' \in 0..Count
      BY <1>4, <2>2 DEF Reclaim, PoolInv, PoolTypeOK
    <3>2. ReportInv'
      BY <1>4, <2>2, <3>1 DEF Reclaim, Move, PoolInv, PoolTypeOK, ReportInv, StarvationShown, In
    <3> QED BY <3>1, <3>2, SidewaysInv DEF Stages, Popping
  <2> QED BY <2>1, <2>2
<1>5. CASE UNCHANGED poolVars
  BY <1>5 DEF poolVars, PoolInv, PoolTypeOK, ActiveCountsOwned, Owned, In, ReportInv, StarvationShown
<1> QED BY <1>3, <1>4, <1>5, PopInv, BeginDropInv, FillInv, DropPoolInv DEF PoolNext

\* The inductive invariant holds in every reachable state of the pool.
THEOREM PoolInvariant == PoolSpec => []PoolInv
BY PoolInitInv, PoolStepInv, PTL DEF PoolSpec

\* No packet shows bytes of an earlier one, for any number of buffers and any
\* threads that drop them (PooledBuffer::filled_len).
THEOREM PoolShowsNoForeignBytes == PoolSpec => []NoForeignBytes
<1>1. PoolInv => NoForeignBytes
  BY DEF PoolInv, PoolTypeOK, NoForeignBytes, Owned, In
<1> QED BY <1>1, PoolInvariant, PTL

\* The try_send in Drop for PooledBuffer never finds the channel full.
THEOREM PoolReclaimFindsRoom == PoolSpec => []ReclaimFindsRoom
<1>1. PoolInv => ReclaimFindsRoom
  <2> SUFFICES ASSUME PoolInv, NEW b \in In({"sending"}) PROVE Len(queue) < Count
    BY DEF ReclaimFindsRoom
  <2>1. b \in Buffers /\ b \notin Range(queue)
    BY DEF PoolInv, In
  <2> QED BY <2>1, RoomFor DEF PoolInv, PoolTypeOK
<1> QED BY <1>1, PoolInvariant, PTL

\* The gauge of active buffers counts the owned ones while the pool exists.
THEOREM PoolActiveCountsOwned == PoolSpec => []ActiveCountsOwned
<1>1. PoolInv => ActiveCountsOwned
  BY DEF PoolInv
<1> QED BY <1>1, PoolInvariant, PTL

\* An empty pool is shown as empty once no report is under way, in whatever order
\* the threads have stored their reports (report_available).
THEOREM PoolStarvationShown == PoolSpec => []StarvationShown
<1>1. PoolInv => StarvationShown
  BY DEF PoolInv, ReportInv
<1> QED BY <1>1, PoolInvariant, PTL
=============================================================================
