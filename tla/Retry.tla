------------------------------- MODULE Retry --------------------------------
(***************************************************************************)
(* retry_on_windows_not_found (src/src/osal/retry.rs), called for one       *)
(* address of a TUN device that the OS finishes registering some time      *)
(* after its creation.  Time is in ticks; the OS answers at one instant of *)
(* an attempt that takes up to OpTime, and a sleep may end late.           *)
(***************************************************************************)
EXTENDS Naturals

CONSTANTS
  MaxElapsed,  \* max_elapsed_time
  MaxDelay,    \* the longest delay next_backoff() returns
  OpTime,      \* bound: the longest attempt
  MaxLate,     \* bound: how late a sleep ends
  Horizon      \* bound: the latest time the adapter becomes ready

ASSUME RetryAssumption ==
  /\ {MaxElapsed, MaxDelay, Horizon} \subseteq Nat \ {0}
  /\ {OpTime, MaxLate} \subseteq Nat

VARIABLES
  now,      \* time since the backoff was created
  ready,    \* when the OS has registered the adapter
  pc,       \* "call", "answered", "sleep" or "returned"
  until,    \* when the answer arrives, or the sleep may end
  result    \* of the last attempt

retryVars == <<now, ready, pc, until, result>>

NotFound == "ERROR_NOT_FOUND"
Results  == {"Ok", "other_error", NotFound}

RetryTypeOK ==
  /\ {now, until} \subseteq 0..(MaxElapsed + MaxLate + OpTime)
  /\ ready \in 0..Horizon
  /\ pc \in {"call", "answered", "sleep", "returned"}
  /\ result \in Results \cup {"none"}
  /\ pc = "returned" => result # "none"

RetryInit ==
  /\ now = 0 /\ ready \in 0..Horizon
  /\ pc = "call" /\ until = 0 /\ result = "none"

\* op().await: the adapter is looked up now, the answer is seen later.
Attempt ==
  /\ pc = "call"
  /\ \E t \in 0..OpTime : until' = now + t
  /\ result' \in IF now < ready THEN {NotFound} ELSE Results \ {NotFound}
  /\ pc' = "answered"
  /\ UNCHANGED <<now, ready>>

\* A delay, or None when it would end after max_elapsed_time.
next_backoff(delay) == now + delay <= MaxElapsed

\* Mutant of Match: the transient error is not told from others.
MatchFirstErrorEnds ==
  /\ pc = "answered" /\ until = now
  /\ pc' = "returned"
  /\ UNCHANGED <<now, ready, until, result>>

\* The match on the result.
Match ==
  /\ pc = "answered" /\ until = now
  /\ \/ /\ result # NotFound
        /\ pc' = "returned" /\ UNCHANGED until
     \/ \E delay \in 1..MaxDelay :
          /\ result = NotFound
          /\ IF next_backoff(delay)
             THEN pc' = "sleep" /\ until' = now + delay
             ELSE pc' = "returned" /\ UNCHANGED until
  /\ UNCHANGED <<now, ready, result>>

\* tokio::time::sleep(delay) ends, not before its time.
Wake ==
  /\ pc = "sleep" /\ until <= now
  /\ pc' = "call"
  /\ UNCHANGED <<now, ready, until, result>>

Tick ==
  /\ \/ pc = "answered" /\ now < until
     \/ pc = "sleep" /\ now < until + MaxLate
  /\ now' = now + 1
  /\ UNCHANGED <<ready, pc, until, result>>

RetryNext == Attempt \/ Match \/ Wake \/ Tick

RetrySpec == RetryInit /\ [][RetryNext]_retryVars
-----------------------------------------------------------------------------
\* The transient error reaches the caller only if the adapter was not ready
\* within the budget, less one delay and one attempt (osal/retry.rs: "exhausting
\* the backoff budget").
ReadyInTimeSucceeds ==
  pc = "returned" /\ ready + MaxDelay + OpTime <= MaxElapsed => result # NotFound

\* The inductive invariant behind it.  The transient error was seen by an attempt
\* begun before the adapter was ready, and the loop ends with it only when a delay
\* would exceed the budget; no sleep is meant to.
RetryInv ==
  /\ RetryTypeOK
  /\ pc = "call" => now <= MaxElapsed + MaxLate
  /\ pc = "answered" =>
       result # "none" /\ now <= until /\ until <= MaxElapsed + MaxLate + OpTime
  /\ pc = "sleep" => until <= MaxElapsed /\ now <= until + MaxLate
  /\ pc \in {"answered", "returned"} /\ result = NotFound => until < ready + OpTime
  /\ pc = "returned" => now = until
  /\ pc = "returned" /\ result = NotFound => MaxElapsed < now + MaxDelay
=============================================================================
