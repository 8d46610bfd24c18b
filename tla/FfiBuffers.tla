----------------------------- MODULE FfiBuffers -----------------------------
(***************************************************************************)
(* How the host takes events out of an engine handle                       *)
(* (crates/linguamesh-ffi/src/lib.rs): concurrent lm_engine_poll_event     *)
(* calls, the semaphore that bounds outstanding buffers, the allocation    *)
(* table and lm_engine_buffer_free.                                        *)
(*                                                                         *)
(* Events are numbered in the order in which they enter the queue; what    *)
(* puts them there is module FfiEngine.  An allocation identifier is a     *)
(* counter of finite width that wraps.                                     *)
(***************************************************************************)
EXTENDS Naturals, Sequences, FiniteSets

CONSTANTS
  Pollers,                  \* host threads
  NoPoller,                 \* nobody holds the receiver's lock
  MAX_OUTSTANDING_BUFFERS,  \* permits of the semaphore (64 in the code)
  QueueCapacity,            \* EVENT_QUEUE_CAPACITY (64 in the code)
  IdSpace,                  \* values of the allocation counter (2^64 in the code)
  MaxEvents                 \* bound on events produced

ASSUME BufferAssumption ==
  /\ NoPoller \notin Pollers
  /\ MAX_OUTSTANDING_BUFFERS \in Nat \ {0}
  /\ IdSpace \in Nat /\ MAX_OUTSTANDING_BUFFERS < IdSpace
  /\ QueueCapacity \in Nat \ {0} /\ MaxEvents \in Nat

VARIABLES
  events,    \* the bounded queue
  produced,  \* events ever enqueued
  slots,     \* permits left in buffer_slots
  holder,    \* owner of the Tokio mutex around the receiver
  pc, got,   \* the polls, and the event each has received (0: none)
  table,     \* buffer_allocations: identifier -> event
  next_id,   \* next_buffer_allocation_id
  freed,     \* history: events whose buffer the host gave back
  shutdown

vars == <<events, produced, slots, holder, pc, got, table, next_id, freed, shutdown>>

AllocIds == 0..(IdSpace - 1)
Numbers  == 1..MaxEvents

TypeOK ==
  /\ events \in Seq(Numbers) /\ Len(events) <= QueueCapacity
  /\ produced \in 0..MaxEvents
  /\ slots \in 0..MAX_OUTSTANDING_BUFFERS
  /\ holder \in Pollers \cup {NoPoller}
  /\ pc \in [Pollers -> {"idle", "zero", "lock", "recv", "write"}]
  /\ got \in [Pollers -> 0..MaxEvents]
  /\ DOMAIN table \subseteq AllocIds \ {0} /\ \A i \in DOMAIN table : table[i] \in Numbers
  /\ next_id \in AllocIds
  /\ freed \subseteq Numbers
  /\ shutdown \in BOOLEAN

Init ==
  /\ events = <<>> /\ produced = 0
  /\ slots = MAX_OUTSTANDING_BUFFERS
  /\ holder = NoPoller
  /\ pc = [p \in Pollers |-> "idle"] /\ got = [p \in Pollers |-> 0]
  /\ table = <<>> /\ next_id \in AllocIds
  /\ freed = {} /\ shutdown = FALSE

-----------------------------------------------------------------------------
Goto(p, label) == pc' = [pc EXCEPT ![p] = label]

Receive(p) ==
  /\ got' = [got EXCEPT ![p] = Head(events)]
  /\ events' = Tail(events)

\* An event enters the queue; its sender waits while the queue is full.
produce ==
  /\ produced < MaxEvents /\ Len(events) < QueueCapacity
  /\ produced' = produced + 1
  /\ events' = Append(events, produced + 1)
  /\ UNCHANGED <<slots, holder, pc, got, table, next_id, freed, shutdown>>

\* lm_engine_poll_event up to reserve_buffer_slot, which takes a permit or
\* makes the call return ResourceExhausted before it touches the queue.
lm_engine_poll_event(p, label) ==
  /\ pc[p] = "idle" /\ ~shutdown
  /\ slots > 0
  /\ slots' = slots - 1
  /\ Goto(p, label)
  /\ UNCHANGED <<events, produced, holder, got, table, next_id, freed, shutdown>>

\* timeout_ms = 0: try_lock and try_recv.
try_receive(p) ==
  /\ pc[p] = "zero"
  /\ IF holder = NoPoller /\ events # <<>> THEN Receive(p) ELSE UNCHANGED <<got, events>>
  /\ Goto(p, "write")
  /\ UNCHANGED <<produced, slots, holder, table, next_id, freed, shutdown>>

lock_events(p) ==
  /\ pc[p] = "lock" /\ holder = NoPoller
  /\ holder' = p
  /\ Goto(p, "recv")
  /\ UNCHANGED <<events, produced, slots, got, table, next_id, freed, shutdown>>

receive(p) ==
  /\ pc[p] = "recv" /\ events # <<>>
  /\ Receive(p)
  /\ holder' = NoPoller
  /\ Goto(p, "write")
  /\ UNCHANGED <<produced, slots, table, next_id, freed, shutdown>>

\* Mutant: the timer drops an event that was already on its way.
poll_timeout_drops(p) ==
  /\ pc[p] \in {"lock", "recv"}
  /\ holder' = IF holder = p THEN NoPoller ELSE holder
  /\ events' = IF pc[p] = "recv" /\ events # <<>> THEN Tail(events) ELSE events
  /\ Goto(p, "write")
  /\ UNCHANGED <<produced, slots, got, table, next_id, freed, shutdown>>

\* The timer covers the wait for the lock and the wait for an event; dropping
\* the receive future releases the lock and takes no event.
poll_timeout(p) ==
  /\ pc[p] \in {"lock", "recv"}
  /\ holder' = IF holder = p THEN NoPoller ELSE holder
  /\ Goto(p, "write")
  /\ UNCHANGED <<events, produced, slots, got, table, next_id, freed, shutdown>>

\* Mutant: the counter is used as it comes, occupied or zero.
AllocationId_unchecked == next_id

\* The first value of the counter that is neither zero nor in use.
AllocationId ==
  LET At(k) == (next_id + k) % IdSpace
      Fit(k) == At(k) # 0 /\ At(k) \notin DOMAIN table
  IN At(CHOOSE k \in 0..(IdSpace - 1) : Fit(k) /\ \A j \in 0..(k - 1) : ~Fit(j))

\* Mutant: a poll that times out keeps its permit.
write_output_buffer_leaks(p) ==
  /\ pc[p] = "write"
  /\ IF got[p] = 0 THEN UNCHANGED <<slots, table, next_id>>
     ELSE /\ table' = [i \in DOMAIN table \cup {AllocationId} |->
                         IF i = AllocationId THEN got[p] ELSE table[i]]
          /\ next_id' = (AllocationId + 1) % IdSpace
          /\ UNCHANGED slots
  /\ got' = [got EXCEPT ![p] = 0]
  /\ Goto(p, "idle")
  /\ UNCHANGED <<events, produced, holder, freed, shutdown>>

\* write_output_buffer: without an event the permit is dropped, otherwise it
\* is stored in the table together with the bytes.
write_output_buffer(p) ==
  /\ pc[p] = "write"
  /\ IF got[p] = 0 THEN slots' = slots + 1 /\ UNCHANGED <<table, next_id>>
     ELSE /\ table' = [i \in DOMAIN table \cup {AllocationId} |->
                         IF i = AllocationId THEN got[p] ELSE table[i]]
          /\ next_id' = (AllocationId + 1) % IdSpace
          /\ UNCHANGED slots
  /\ got' = [got EXCEPT ![p] = 0]
  /\ Goto(p, "idle")
  /\ UNCHANGED <<events, produced, holder, freed, shutdown>>

\* lm_engine_buffer_free: the entry and its permit go together.
lm_engine_buffer_free(i) ==
  /\ i \in DOMAIN table
  /\ freed' = freed \cup {table[i]}
  /\ table' = [j \in DOMAIN table \ {i} |-> table[j]]
  /\ slots' = slots + 1
  /\ UNCHANGED <<events, produced, holder, pc, got, next_id, shutdown>>

stop ==
  /\ shutdown' = TRUE
  /\ UNCHANGED <<events, produced, slots, holder, pc, got, table, next_id, freed>>

Poll(p) ==
  \/ \E label \in {"zero", "lock"} : lm_engine_poll_event(p, label)
  \/ try_receive(p) \/ lock_events(p) \/ receive(p) \/ poll_timeout(p)
  \/ write_output_buffer(p)

Next ==
  \/ produce \/ stop
  \/ \E p \in Pollers : Poll(p)
  \/ \E i \in AllocIds : lm_engine_buffer_free(i)

Spec == Init /\ [][Next]_vars

\* Timers fire, the calls of a host thread run on, a host that polls goes on
\* polling and gives its buffers back, and the Tokio mutex is first come first
\* served, so that a waiting poll is not passed over for ever.
Fairness ==
  /\ \A p \in Pollers :
       /\ WF_vars(try_receive(p) \/ lock_events(p) \/ receive(p) \/ write_output_buffer(p))
       /\ SF_vars(receive(p))
       /\ SF_vars(lock_events(p))
       /\ SF_vars(lm_engine_poll_event(p, "lock"))
  /\ \A i \in AllocIds : WF_vars(lm_engine_buffer_free(i))

FairSpec == Spec /\ Fairness

-----------------------------------------------------------------------------
(* Properties.                                                             *)

\* A permit is free, held by a running poll, or stored with a buffer: none is
\* lost when a poll times out and none is returned twice; the queue and the
\* permits stay within their limits.
SlotsConserved ==
  TypeOK /\ slots + Cardinality({p \in Pollers : pc[p] # "idle"}) + Cardinality(DOMAIN table)
    = MAX_OUTSTANDING_BUFFERS

Queued  == {events[i] : i \in 1..Len(events)}
InHand  == {got[p] : p \in Pollers} \ {0}
Buffers == {table[i] : i \in DOMAIN table}

\* Every event that entered the queue is queued, in the hand of one poll, in
\* one buffer or freed: no timeout, exhaustion or identifier clash loses or
\* duplicates an event.
NothingLost ==
  /\ Cardinality(Queued) = Len(events)
  /\ \A p, q \in Pollers : got[p] = got[q] /\ got[p] # 0 => p = q
  /\ \A i, j \in DOMAIN table : table[i] = table[j] => i = j
  /\ Queued \cup InHand \cup Buffers \cup freed = 1..produced
  /\ Queued \cap InHand = {} /\ Queued \cap Buffers = {} /\ InHand \cap Buffers = {}
  /\ freed \cap (Queued \cup InHand \cup Buffers) = {}

\* A host that polls with a timeout and frees its buffers gets every event.
EveryEventDelivered ==
  \A e \in Numbers : e \in Queued ~> e \in freed \/ shutdown
=============================================================================
