----------------------------- MODULE BufferPool -----------------------------
(***************************************************************************)
(* The pool of packet buffers (src/src/buffer_pool.rs).  The free buffers  *)
(* are the messages of a bounded channel.  The TUN read task pops one, the *)
(* packet in it may end up in a datagram queue of the QUIC stack, and the  *)
(* buffer goes back when its last owner drops it, on whatever thread that  *)
(* is.  Reporting the gauge is a load followed by a store, so two threads  *)
(* may interleave between the two.                                         *)
(***************************************************************************)
EXTENDS Naturals, Sequences, FiniteSets, Functions

CONSTANTS
  Count,   \* number of buffers
  BufSize  \* bytes in a buffer

ASSUME BufferPoolAssumption == Count \in Nat \ {0} /\ BufSize \in Nat

Buffers == 1..Count

VARIABLES
  queue,    \* the channel: free buffers, oldest first
  stage,    \* buffer -> where it is
  sample,   \* buffer -> the value its report has loaded and not yet stored
  filled,   \* buffer -> filled_len of its PooledBuffer
  written,  \* buffer -> leading bytes its present owner has written
  gauge,    \* capacity_gauge
  active,   \* the gauge p2p_vpn_buffer_pool_active
  alive     \* the BufferPool has not been dropped

poolVars == <<queue, stage, sample, filled, written, gauge, active, alive>>
bytes    == <<filled, written>>

\* In pop(): received, report loaded.  Owned.  In drop(): sender upgraded,
\* report loaded, reported.  Deallocated.
Popping  == {"received", "pop_loaded"}
Dropping == {"upgraded", "drop_loaded", "sending"}
Stages   == {"free", "held", "gone"} \cup Popping \cup Dropping

In(stages) == {b \in Buffers : stage[b] \in stages}

\* Popped and not being dropped: a PooledBuffer or the PooledSlice made of it has it,
\* and turning one into the other moves nothing.
Owned == In(Popping \cup {"held"})

PoolTypeOK ==
  /\ queue \in Seq(Buffers)
  /\ stage \in [Buffers -> Stages]
  /\ sample \in [Buffers -> 0..Count]
  /\ filled \in [Buffers -> 0..BufSize]
  /\ written \in [Buffers -> 0..BufSize]
  /\ gauge \in 0..Count
  /\ active \in 0..Count
  /\ alive \in BOOLEAN

\* BufferPool::new
PoolInit ==
  /\ queue = [b \in Buffers |-> b]
  /\ stage = [b \in Buffers |-> "free"]
  /\ sample = [b \in Buffers |-> 0]
  /\ filled = [b \in Buffers |-> 0]
  /\ written = [b \in Buffers |-> 0]
  /\ gauge = Count
  /\ active = 0
  /\ alive = TRUE

Move(b, from, to) ==
  /\ stage[b] = from
  /\ stage' = [stage EXCEPT ![b] = to]

-----------------------------------------------------------------------------

\* Mutant of Pop: the buffer is handed out without a report.
PopUnreported(b) ==
  /\ alive /\ In(Popping) = {}
  /\ queue # <<>> /\ b = Head(queue)
  /\ queue' = Tail(queue)
  /\ Move(b, "free", "held")
  /\ filled' = [filled EXCEPT ![b] = 0]
  /\ written' = [written EXCEPT ![b] = 0]
  /\ active' = active + 1
  /\ UNCHANGED <<sample, gauge, alive>>

\* pop() receives a buffer; it waits while the channel is empty.
Pop(b) ==
  /\ alive /\ In(Popping) = {}
  /\ queue # <<>> /\ b = Head(queue)
  /\ queue' = Tail(queue)
  /\ Move(b, "free", "received")
  /\ filled' = [filled EXCEPT ![b] = 0]
  /\ written' = [written EXCEPT ![b] = 0]
  /\ active' = active + 1
  /\ UNCHANGED <<sample, gauge, alive>>

\* report_available() loads max_capacity() - capacity(), the messages in the
\* channel ...
Load(b, from, to) ==
  /\ Move(b, from, to)
  /\ sample' = [sample EXCEPT ![b] = Len(queue)]
  /\ UNCHANGED <<queue, bytes, gauge, active, alive>>

\* ... and sets the gauge.
Store(b, from, to) ==
  /\ Move(b, from, to)
  /\ gauge' = sample[b]
  /\ UNCHANGED <<queue, sample, bytes, active, alive>>

\* Room behind the filled part; advance_mut() panics beyond it.
remaining_mut(b) == BufSize - filled[b]

\* UpdatingReadBuf adds what was filled when it goes out of scope.
Advance(b, n) == filled' = [filled EXCEPT ![b] = @ + n]

\* read_frame(): n bytes are written behind the filled part, which is advanced.
Fill(b, n) ==
  /\ stage[b] = "held" /\ n <= remaining_mut(b)
  /\ written' = [written EXCEPT ![b] = filled[b] + n]
  /\ Advance(b, n)
  /\ UNCHANGED <<queue, stage, sample, gauge, active, alive>>

\* Drop for PooledBuffer: the weak sender can be upgraded while the pool, or
\* another drop in progress, holds a sender; otherwise the buffer is freed.
BeginDrop(b) ==
  \/ /\ alive \/ In(Dropping) # {}
     /\ Move(b, "held", "upgraded")
     /\ active' = active - 1
     /\ UNCHANGED <<queue, sample, bytes, gauge, alive>>
  \/ /\ ~alive /\ In(Dropping) = {}
     /\ Move(b, "held", "gone")
     /\ UNCHANGED <<queue, sample, bytes, gauge, active, alive>>

\* Mutant of Reclaim: the buffer is not given back.
ReclaimNever(b) ==
  /\ Move(b, "sending", "gone")
  /\ UNCHANGED <<queue, sample, bytes, gauge, active, alive>>

\* try_send(buffer): back into the pool, or freed when the channel is closed.
Reclaim(b) ==
  \/ /\ alive
     /\ Move(b, "sending", "free")
     /\ queue' = Append(queue, b)
     /\ UNCHANGED <<sample, bytes, gauge, active, alive>>
  \/ /\ ~alive
     /\ Move(b, "sending", "gone")
     /\ UNCHANGED <<queue, sample, bytes, gauge, active, alive>>

\* The read task is dropped, at one of its awaits, with its pool: the receiver
\* goes, and the free buffers in the channel with it.
DropPool ==
  /\ alive /\ In(Popping) = {}
  /\ alive' = FALSE
  /\ queue' = <<>>
  /\ stage' = [b \in Buffers |-> IF stage[b] = "free" THEN "gone" ELSE stage[b]]
  /\ UNCHANGED <<sample, bytes, gauge, active>>

-----------------------------------------------------------------------------

Report(b) ==
  \/ Load(b, "received", "pop_loaded") \/ Store(b, "pop_loaded", "held")
  \/ Load(b, "upgraded", "drop_loaded") \/ Store(b, "drop_loaded", "sending")

PoolNext ==
  \/ \E b \in Buffers : \/ Pop(b) \/ Report(b) \/ BeginDrop(b) \/ Reclaim(b)
                        \/ \E n \in 1..BufSize : Fill(b, n)
  \/ DropPool

PoolSpec == PoolInit /\ [][PoolNext]_poolVars

\* Owners drop what they hold, and a drop that has begun is completed.
PoolFairness ==
  \A b \in Buffers : WF_poolVars(BeginDrop(b)) /\ WF_poolVars(Report(b) \/ Reclaim(b))

FairPoolSpec == PoolSpec /\ PoolFairness

-----------------------------------------------------------------------------
(* Properties.                                                             *)

\* What deref() shows of a recycled buffer was all written by its present owner:
\* no byte of an earlier packet is sent (PooledBuffer::filled_len).
NoForeignBytes == \A b \in In({"held"}) : filled[b] <= written[b]

\* "can't happen: `pool` is full": a buffer that is given back always finds room,
\* however many threads are dropping buffers.
ReclaimFindsRoom == \A b \in In({"sending"}) : Len(queue) < Count

\* While the pool exists p2p_vpn_buffer_pool_active is the number of buffers popped
\* and not being dropped; no drop is counted twice or forgotten.
ActiveCountsOwned == alive => active = Cardinality(Owned)

\* An empty pool does not stay empty: pop() waits only as long as the owners do.
StarvationEnds == alive /\ queue = <<>> ~> ~alive \/ queue # <<>>

\* "The capacity of the internal buffer pool; 0 means starvation" (Tun::control):
\* an empty pool is shown as 0 once the reports under way are made, although a late
\* report may store an older value.  (The converse does not hold: each drop reports
\* before it gives its buffer back, so 0 may stay while the pool has buffers.)
StarvationShown ==
  alive /\ queue = <<>> /\ In(Popping \cup Dropping) = {} => gauge = 0

-----------------------------------------------------------------------------
(* The inductive invariant behind the safety properties.                   *)

\* What pop() is about to report is still in the channel, as nobody else takes
\* from it, so the report of the pop that empties the channel is 0 and the last.
ReportInv ==
  /\ StarvationShown
  /\ \A b \in In({"pop_loaded"}) : sample[b] <= Len(queue)

\* The channel holds the free buffers, each once; owned buffers are counted, and
\* stay counted when the pool is gone; an owner's bytes start at the front.
PoolInv ==
  /\ PoolTypeOK
  /\ IsInjective(queue) /\ Range(queue) = In({"free"})
  /\ ActiveCountsOwned /\ Cardinality(Owned) <= active
  /\ \A b \in Owned : filled[b] = written[b]
  /\ ~alive => In({"free"} \cup Popping) = {}
  /\ ReportInv

=============================================================================
