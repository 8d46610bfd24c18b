-------------------------- MODULE FfiBuffersProofs --------------------------
(***************************************************************************)
(* Theorems about polling and owned buffers, for any number of host        *)
(* threads, permits, queue places and events and any width of the          *)
(* allocation counter that exceeds the permits.                            *)
(***************************************************************************)
EXTENDS FfiBuffers, FiniteSetTheorems, WellFoundedInduction, TLAPS

-----------------------------------------------------------------------------
(* Arithmetic.                                                             *)

\* A set of naturals that is not empty has a least element.
LEMMA LeastNatural ==
  ASSUME NEW T \in SUBSET Nat, T # {}
  PROVE  \E x \in T : \A y \in T : ~(y < x)
<1> DEFINE R == {ss \in Nat \X Nat : ss[1] < ss[2]}
<1>1. OpToRel(<, Nat) = R
  BY Zenon DEF OpToRel
<1>2. IsWellFoundedOn(R, Nat)
  BY <1>1, NatLessThanWellFounded, Zenon
<1>3. PICK x \in T : \A y \in T : ~(<<y, x>> \in R)
  BY <1>2, WFMin, Zenon
<1>4. QED
  BY <1>3

LEMMA Remainder ==
  ASSUME NEW n \in Nat, n > 0, NEW x \in Nat
  PROVE  /\ x % n \in 0..(n - 1)
         /\ x < n => x % n = x
         /\ n <= x /\ x < 2 * n => x % n = x - n
  OBVIOUS

-----------------------------------------------------------------------------
(* The allocation counter.                                                 *)

At(k)  == (next_id + k) % IdSpace
Fit(k) == At(k) # 0 /\ At(k) \notin DOMAIN table

\* While an identifier other than zero is free, the counter finds one: it
\* passes every value before it returns to where it started.
LEMMA AllocationIdIsFree ==
  ASSUME next_id \in AllocIds, IsFiniteSet(DOMAIN table), Cardinality(DOMAIN table) < IdSpace - 1
  PROVE  AllocationId \in AllocIds \ {0} /\ AllocationId \notin DOMAIN table
<1>1. IdSpace \in Nat /\ IdSpace > 1
  BY FS_CardinalityType, BufferAssumption DEF BufferAssumption
<1>2. PICK x \in 1..(IdSpace - 1) : x \notin DOMAIN table
  <2>1. CASE 1..(IdSpace - 1) \subseteq DOMAIN table
    <3>1. Cardinality(1..(IdSpace - 1)) = IdSpace - 1
      BY <1>1, FS_Interval
    <3>2. Cardinality(1..(IdSpace - 1)) <= Cardinality(DOMAIN table)
      BY <2>1, FS_Subset
    <3>3. Cardinality(DOMAIN table) \in Nat
      BY FS_CardinalityType
    <3>4. QED
      BY <1>1, <3>1, <3>2, <3>3
  <2>2. QED
    BY <2>1
<1> DEFINE T == {k \in 0..(IdSpace - 1) : Fit(k)}
           Least(k) == Fit(k) /\ \A j \in 0..(k - 1) : ~Fit(j)
<1>3. T # {}
  <2>1. CASE next_id <= x
    <3>1. x - next_id \in 0..(IdSpace - 1) /\ next_id + (x - next_id) = x /\ x \in Nat /\ x < IdSpace
      BY <1>1, <2>1 DEF AllocIds
    <3>2. At(x - next_id) = x
      BY <1>1, <3>1, Remainder DEF At
    <3>3. QED
      BY <1>2, <3>1, <3>2 DEF Fit
  <2>2. CASE x < next_id
    <3>1. /\ x - next_id + IdSpace \in 0..(IdSpace - 1)
          /\ next_id + (x - next_id + IdSpace) = x + IdSpace /\ x + IdSpace \in Nat
          /\ IdSpace <= x + IdSpace /\ x + IdSpace < 2 * IdSpace /\ x + IdSpace - IdSpace = x
      BY <1>1, <2>2 DEF AllocIds
    <3>2. At(x - next_id + IdSpace) = x
      BY <1>1, <3>1, Remainder DEF At
    <3>3. QED
      BY <1>2, <3>1, <3>2 DEF Fit
  <2>3. QED
    BY <1>1, <2>1, <2>2 DEF AllocIds
<1>4. \E k \in 0..(IdSpace - 1) : Least(k)
  <2>0. T \in SUBSET Nat
    BY <1>1
  <2>1. PICK k \in T : \A j \in T : ~(j < k)
    <3> HIDE DEF T
    <3>1. QED
      BY <1>3, <2>0, LeastNatural
  <2>2. \A j \in 0..(k - 1) : j \in 0..(IdSpace - 1) /\ j < k
    BY <1>1
  <2>3. QED
    BY <2>1, <2>2
<1>5. AllocationId = At(CHOOSE k \in 0..(IdSpace - 1) : Least(k))
  BY Zenon DEF AllocationId, At, Fit
<1>6. PICK k \in 0..(IdSpace - 1) : AllocationId = At(k) /\ Fit(k)
  BY <1>4, <1>5, Zenon
<1>7. At(k) \in 0..(IdSpace - 1)
  BY <1>1, Remainder DEF At, AllocIds
<1>8. QED
  BY <1>6, <1>7 DEF Fit, AllocIds

-----------------------------------------------------------------------------
(***************************************************************************)
(* The inductive invariant: the permits are conserved, where finitely many *)
(* polls run; only a poll that is about to write has an event in its hand; *)
(* and every event is in one place.                                        *)
(***************************************************************************)
Busy == {p \in Pollers : pc[p] # "idle"}

Permits ==
  /\ IsFiniteSet(Busy) /\ IsFiniteSet(DOMAIN table)
  /\ slots + Cardinality(Busy) + Cardinality(DOMAIN table) = MAX_OUTSTANDING_BUFFERS

HandsAreWriting == \A p \in Pollers : got[p] # 0 => pc[p] = "write"

Distinct ==
  /\ \A i, j \in 1..Len(events) : events[i] = events[j] => i = j
  /\ \A p, q \in Pollers : got[p] = got[q] /\ got[p] # 0 => p = q
  /\ \A i, j \in DOMAIN table : table[i] = table[j] => i = j

\* Sets q, h, b and f divide the events up to n among them.
Divided(q, h, b, f, n) ==
  /\ q \cup h \cup b \cup f = 1..n
  /\ q \cap h = {} /\ q \cap b = {} /\ h \cap b = {} /\ f \cap (q \cup h \cup b) = {}

BuffersInv ==
  /\ TypeOK /\ Permits /\ HandsAreWriting /\ Distinct
  /\ Divided(Queued, InHand, Buffers, freed, produced)

LEMMA Constants ==
  /\ MAX_OUTSTANDING_BUFFERS \in Nat \ {0} /\ IdSpace \in Nat /\ MAX_OUTSTANDING_BUFFERS < IdSpace
  /\ QueueCapacity \in Nat \ {0} /\ MaxEvents \in Nat /\ NoPoller \notin Pollers
  BY BufferAssumption DEF BufferAssumption

LEMMA BuffersInit == Init => BuffersInv
<1> SUFFICES ASSUME Init PROVE BuffersInv
  OBVIOUS
<1> USE DEF Init
<1>1. TypeOK
  <2>1. events \in Seq(Numbers) /\ Len(events) = 0 /\ DOMAIN table = {}
    OBVIOUS
  <2>2. 0 \in 0..MaxEvents /\ slots \in 0..MAX_OUTSTANDING_BUFFERS /\ 0 <= QueueCapacity
    BY Constants
  <2>3. QED
    BY <2>1, <2>2 DEF TypeOK
<1>2. Busy = {} /\ DOMAIN table = {} /\ Queued = {} /\ InHand = {} /\ Buffers = {}
  BY DEF Busy, Queued, InHand, Buffers
<1>3. Permits
  BY <1>2, FS_EmptySet, Constants DEF Permits
<1>4. HandsAreWriting /\ Distinct
  BY <1>2 DEF HandsAreWriting, Distinct
<1>5. Divided(Queued, InHand, Buffers, freed, produced)
  BY <1>2 DEF Divided
<1>6. QED
  BY <1>1, <1>3, <1>4, <1>5 DEF BuffersInv

\* The numbers of permits, polls and buffers.
LEMMA Counts ==
  ASSUME BuffersInv
  PROVE  /\ slots \in Nat /\ Cardinality(Busy) \in Nat /\ Cardinality(DOMAIN table) \in Nat
         /\ \A p \in Busy : Cardinality(Busy) >= 1
<1>1. /\ IsFiniteSet(Busy) /\ IsFiniteSet(DOMAIN table) /\ slots \in Nat
  BY Constants DEF BuffersInv, Permits, TypeOK
<1>2. Cardinality(Busy) \in Nat /\ Cardinality(DOMAIN table) \in Nat
  BY <1>1, FS_CardinalityType
<1>3. ASSUME NEW p \in Busy PROVE Cardinality(Busy) # 0
  BY <1>1, FS_EmptySet
<1>4. QED
  BY <1>1, <1>2, <1>3

LEMMA ProduceStep ==
  ASSUME BuffersInv, produce
  PROVE  BuffersInv'
<1> DEFINE e == produced + 1
<1>1. /\ produced \in Nat /\ produced < MaxEvents /\ Len(events) < QueueCapacity
      /\ produced' = e /\ events' = Append(events, e)
      /\ UNCHANGED <<slots, holder, pc, got, table, next_id, freed, shutdown>>
  BY Constants DEF BuffersInv, TypeOK, produce
<1>2. e \in Numbers /\ e \in 0..MaxEvents /\ e \notin 1..produced /\ 1..e = 1..produced \cup {e}
  BY <1>1, Constants DEF Numbers
<1> HIDE DEF e
<1>3. events \in Seq(Numbers) /\ Len(events) \in Nat
  BY DEF BuffersInv, TypeOK
<1>4. /\ events' \in Seq(Numbers) /\ Len(events') = Len(events) + 1
      /\ \A i \in 1..Len(events) : events'[i] = events[i]
      /\ events'[Len(events) + 1] = e
  BY <1>1, <1>2, <1>3
<1>5. TypeOK'
  BY <1>1, <1>2, <1>3, <1>4, Constants DEF BuffersInv, TypeOK
<1>6. Permits' /\ HandsAreWriting'
  BY <1>1 DEF BuffersInv, Permits, Busy, HandsAreWriting
<1>7. Queued' = Queued \cup {e}
  BY <1>3, <1>4 DEF Queued
<1>8. InHand' = InHand /\ Buffers' = Buffers
  BY <1>1 DEF InHand, Buffers
<1>9. e \notin Queued
  BY <1>2 DEF BuffersInv, Divided
<1>10. \A i \in 1..Len(events) : events[i] # e
  BY <1>9 DEF Queued
<1>11. Distinct'
  <2>1. \A i, j \in 1..Len(events') : events'[i] = events'[j] => i = j
    BY <1>3, <1>4, <1>10 DEF BuffersInv, Distinct
  <2>2. QED
    BY <1>1, <2>1 DEF BuffersInv, Distinct
<1>12. Divided(Queued, InHand, Buffers, freed, produced)'
  BY <1>1, <1>2, <1>7, <1>8 DEF BuffersInv, Divided
<1>13. QED
  BY <1>5, <1>6, <1>11, <1>12 DEF BuffersInv

\* A poll takes the first event of the queue.
LEMMA ReceiveStep ==
  ASSUME BuffersInv, NEW p \in Pollers, pc[p] \in {"zero", "lock", "recv"}, events # <<>>, Receive(p),
         Goto(p, "write"), holder' \in Pollers \cup {NoPoller},
         UNCHANGED <<produced, slots, table, next_id, freed, shutdown>>
  PROVE  BuffersInv'
<1> DEFINE h == Head(events)
<1>1. /\ events \in Seq(Numbers) /\ Len(events) \in Nat /\ Len(events) > 0
      /\ pc \in [Pollers -> {"idle", "zero", "lock", "recv", "write"}]
      /\ got \in [Pollers -> 0..MaxEvents] /\ got[p] = 0
  BY DEF BuffersInv, TypeOK, HandsAreWriting
<1>2. /\ h = events[1] /\ h \in Numbers
      /\ events' = Tail(events) /\ events' \in Seq(Numbers) /\ Len(events') = Len(events) - 1
      /\ \A i \in 1..(Len(events) - 1) : events'[i] = events[i + 1]
  BY <1>1 DEF Receive
<1>3. h # 0 /\ h \in 0..MaxEvents
  BY <1>2, Constants DEF Numbers
<1>4. got' = [got EXCEPT ![p] = h] /\ pc' = [pc EXCEPT ![p] = "write"]
  BY DEF Receive, Goto
<1> HIDE DEF h
<1>5. /\ got'[p] = h /\ \A q \in Pollers \ {p} : got'[q] = got[q]
      /\ pc'[p] = "write" /\ \A q \in Pollers \ {p} : pc'[q] = pc[q]
  BY <1>1, <1>4
<1>6. TypeOK'
  <2>1. got' \in [Pollers -> 0..MaxEvents] /\ pc' \in [Pollers -> {"idle", "zero", "lock", "recv", "write"}]
    BY <1>1, <1>3, <1>4
  <2>2. QED
    BY <1>1, <1>2, <2>1, Constants DEF BuffersInv, TypeOK
<1>7. Busy' = Busy
  BY <1>5 DEF Busy
<1>8. Permits' /\ HandsAreWriting'
  BY <1>5, <1>7 DEF BuffersInv, Permits, HandsAreWriting
<1>9. \A i, j \in 1..Len(events) : events[i] = events[j] => i = j
  BY DEF BuffersInv, Distinct
<1>10. h \in Queued /\ Queued' = Queued \ {h}
  <2>1. h \in Queued
    BY <1>1, <1>2 DEF Queued
  <2>2. ASSUME NEW x \in Queued' PROVE x \in Queued \ {h}
    <3>1. PICK i \in 1..(Len(events) - 1) : x = events[i + 1]
      BY <1>2 DEF Queued
    <3>2. i + 1 \in 1..Len(events) /\ 1 \in 1..Len(events) /\ i + 1 # 1
      BY <1>1
    <3>3. QED
      BY <1>2, <1>9, <3>1, <3>2 DEF Queued
  <2>3. ASSUME NEW x \in Queued \ {h} PROVE x \in Queued'
    <3>1. PICK i \in 1..Len(events) : x = events[i]
      BY DEF Queued
    <3>2. i - 1 \in 1..(Len(events) - 1) /\ (i - 1) + 1 = i
      BY <1>1, <1>2, <3>1
    <3>3. QED
      BY <1>2, <3>1, <3>2 DEF Queued
  <2>4. QED
    BY <2>1, <2>2, <2>3
<1>11. InHand' = InHand \cup {h} /\ Buffers' = Buffers
  BY <1>1, <1>3, <1>5 DEF InHand, Buffers
<1>12. h \notin InHand
  BY <1>10 DEF BuffersInv, Divided
<1>13. Distinct'
  <2>1. ASSUME NEW i \in 1..Len(events'), NEW j \in 1..Len(events'), events'[i] = events'[j]
        PROVE  i = j
    <3>1. i + 1 \in 1..Len(events) /\ j + 1 \in 1..Len(events) /\ i \in Int /\ j \in Int
      BY <1>1, <1>2
    <3>2. events[i + 1] = events[j + 1]
      BY <1>1, <1>2, <2>1
    <3>3. i + 1 = j + 1
      BY <1>9, <3>1, <3>2
    <3>4. QED
      BY <3>1, <3>3
  <2>2. \A q \in Pollers : got[q] # h
    BY <1>3, <1>12 DEF InHand
  <2>3. \A q, r \in Pollers : got[q] = got[r] /\ got[q] # 0 => q = r
    BY DEF BuffersInv, Distinct
  <2>4. \A q, r \in Pollers : got'[q] = got'[r] /\ got'[q] # 0 => q = r
    BY <1>5, <2>2, <2>3
  <2>5. QED
    BY <2>1, <2>4 DEF BuffersInv, Distinct
<1>14. Divided(Queued, InHand, Buffers, freed, produced)'
  BY <1>10, <1>11 DEF BuffersInv, Divided
<1>15. QED
  BY <1>6, <1>8, <1>13, <1>14 DEF BuffersInv

\* A step that leaves the queue, the polls' events and the table alone.
LEMMA SamePlaces ==
  ASSUME BuffersInv, UNCHANGED <<events, got, table, freed, produced>>
  PROVE  Divided(Queued, InHand, Buffers, freed, produced)'
<1>1. Queued' = Queued /\ InHand' = InHand /\ Buffers' = Buffers
  BY DEF Queued, InHand, Buffers
<1>2. QED
  BY <1>1 DEF BuffersInv, Divided

\* A step of a poll that keeps its permit and takes no event.
LEMMA WaitStep ==
  ASSUME BuffersInv, NEW p \in Pollers, pc[p] # "idle", got[p] = 0,
         NEW label \in {"zero", "lock", "recv", "write"}, Goto(p, label),
         holder' \in Pollers \cup {NoPoller},
         UNCHANGED <<events, produced, slots, got, table, next_id, freed, shutdown>>
  PROVE  BuffersInv'
<1>1. pc' = [pc EXCEPT ![p] = label] /\ pc \in [Pollers -> {"idle", "zero", "lock", "recv", "write"}]
  BY DEF Goto, BuffersInv, TypeOK
<1>2. /\ pc'[p] = label /\ \A q \in Pollers \ {p} : pc'[q] = pc[q]
      /\ pc' \in [Pollers -> {"idle", "zero", "lock", "recv", "write"}]
  BY <1>1
<1>3. TypeOK'
  BY <1>2 DEF BuffersInv, TypeOK
<1>4. Busy' = Busy
  BY <1>2 DEF Busy
<1>5. Permits' /\ HandsAreWriting' /\ Distinct'
  BY <1>2, <1>4 DEF BuffersInv, Permits, HandsAreWriting, Distinct
<1>6. Divided(Queued, InHand, Buffers, freed, produced)'
  BY SamePlaces
<1>7. QED
  BY <1>3, <1>5, <1>6 DEF BuffersInv

LEMMA PollStep ==
  ASSUME BuffersInv, NEW p \in Pollers, NEW label \in {"zero", "lock"}, lm_engine_poll_event(p, label)
  PROVE  BuffersInv'
<1>1. /\ pc[p] = "idle" /\ slots > 0 /\ slots' = slots - 1 /\ pc' = [pc EXCEPT ![p] = label]
      /\ UNCHANGED <<events, produced, holder, got, table, next_id, freed, shutdown>>
  BY DEF lm_engine_poll_event, Goto
<1>2. /\ pc'[p] = label /\ \A q \in Pollers \ {p} : pc'[q] = pc[q]
      /\ pc' \in [Pollers -> {"idle", "zero", "lock", "recv", "write"}]
  BY <1>1 DEF BuffersInv, TypeOK
<1>3. TypeOK'
  BY <1>1, <1>2, Constants DEF BuffersInv, TypeOK
<1>4. Busy' = Busy \cup {p} /\ p \notin Busy
  BY <1>1, <1>2 DEF Busy
<1>5. Permits'
  <2>1. IsFiniteSet(Busy') /\ Cardinality(Busy') = Cardinality(Busy) + 1
    BY <1>4, FS_AddElement DEF BuffersInv, Permits
  <2>2. QED
    BY <1>1, <2>1, Counts, Constants DEF BuffersInv, Permits
<1>6. HandsAreWriting' /\ Distinct'
  BY <1>1, <1>2 DEF BuffersInv, HandsAreWriting, Distinct
<1>7. Divided(Queued, InHand, Buffers, freed, produced)'
  BY <1>1, SamePlaces
<1>8. QED
  BY <1>3, <1>5, <1>6, <1>7 DEF BuffersInv

\* A permit of a running poll is not in the semaphore.
LEMMA PermitsOut ==
  ASSUME BuffersInv
  PROVE  /\ slots + Cardinality(Busy) + Cardinality(DOMAIN table) = MAX_OUTSTANDING_BUFFERS
         /\ \A p \in Busy : /\ slots + 1 \in 0..MAX_OUTSTANDING_BUFFERS
                            /\ Cardinality(DOMAIN table) < IdSpace - 1
         /\ \A i \in DOMAIN table : slots + 1 \in 0..MAX_OUTSTANDING_BUFFERS
<1>1. slots + Cardinality(Busy) + Cardinality(DOMAIN table) = MAX_OUTSTANDING_BUFFERS
  BY DEF BuffersInv, Permits
<1>2. ASSUME NEW i \in DOMAIN table PROVE Cardinality(DOMAIN table) # 0
  BY FS_EmptySet DEF BuffersInv, Permits
<1>3. QED
  BY <1>1, <1>2, Counts, Constants

LEMMA EmptyPollStep ==
  ASSUME BuffersInv, NEW p \in Pollers, write_output_buffer(p), got[p] = 0
  PROVE  BuffersInv'
<1>1. /\ pc[p] = "write" /\ slots' = slots + 1 /\ pc' = [pc EXCEPT ![p] = "idle"]
      /\ got' = [got EXCEPT ![p] = 0]
      /\ UNCHANGED <<events, produced, holder, table, next_id, freed, shutdown>>
  BY DEF write_output_buffer, Goto
<1>2. /\ pc'[p] = "idle" /\ \A q \in Pollers \ {p} : pc'[q] = pc[q]
      /\ pc' \in [Pollers -> {"idle", "zero", "lock", "recv", "write"}] /\ got' = got
  BY <1>1 DEF BuffersInv, TypeOK
<1>3. Busy' = Busy \ {p} /\ p \in Busy
  BY <1>1, <1>2 DEF Busy
<1>4. TypeOK'
  BY <1>1, <1>2, <1>3, PermitsOut DEF BuffersInv, TypeOK
<1>5. Permits'
  <2>1. IsFiniteSet(Busy') /\ Cardinality(Busy') = Cardinality(Busy) - 1
    BY <1>3, FS_RemoveElement DEF BuffersInv, Permits
  <2>2. QED
    BY <1>1, <2>1, Counts, Constants DEF BuffersInv, Permits
<1>6. HandsAreWriting' /\ Distinct'
  BY <1>1, <1>2 DEF BuffersInv, HandsAreWriting, Distinct
<1>7. Divided(Queued, InHand, Buffers, freed, produced)'
  BY <1>1, <1>2, SamePlaces
<1>8. QED
  BY <1>4, <1>5, <1>6, <1>7 DEF BuffersInv

LEMMA FullPollStep ==
  ASSUME BuffersInv, NEW p \in Pollers, write_output_buffer(p), got[p] # 0
  PROVE  BuffersInv'
<1> DEFINE a == AllocationId
           g == got[p]
<1>1. /\ pc[p] = "write" /\ pc' = [pc EXCEPT ![p] = "idle"] /\ got' = [got EXCEPT ![p] = 0]
      /\ table' = [i \in DOMAIN table \cup {a} |-> IF i = a THEN g ELSE table[i]]
      /\ next_id' = (a + 1) % IdSpace
      /\ UNCHANGED <<events, produced, holder, slots, freed, shutdown>>
  BY DEF write_output_buffer, Goto
<1>2. /\ pc'[p] = "idle" /\ \A q \in Pollers \ {p} : pc'[q] = pc[q]
      /\ pc' \in [Pollers -> {"idle", "zero", "lock", "recv", "write"}]
      /\ got'[p] = 0 /\ \A q \in Pollers \ {p} : got'[q] = got[q]
      /\ got' \in [Pollers -> 0..MaxEvents] /\ g \in Numbers
  BY <1>1, Constants DEF BuffersInv, TypeOK, Numbers
<1>3. Busy' = Busy \ {p} /\ p \in Busy
  BY <1>1, <1>2 DEF Busy
<1>4. a \in AllocIds \ {0} /\ a \notin DOMAIN table
  BY <1>3, PermitsOut, AllocationIdIsFree DEF BuffersInv, TypeOK, Permits
<1> HIDE DEF a, g
<1>5. /\ DOMAIN table' = DOMAIN table \cup {a} /\ table'[a] = g
      /\ \A i \in DOMAIN table : table'[i] = table[i]
  BY <1>1, <1>4
<1>6. next_id' \in AllocIds
  <2>1. a + 1 \in Nat /\ IdSpace > 0
    BY <1>4, Constants DEF AllocIds
  <2>2. QED
    BY <1>1, <2>1, Remainder, Constants DEF AllocIds
<1>7. TypeOK'
  BY <1>1, <1>2, <1>4, <1>5, <1>6 DEF BuffersInv, TypeOK
<1>8. Permits'
  <2>1. IsFiniteSet(Busy') /\ Cardinality(Busy') = Cardinality(Busy) - 1
    BY <1>3, FS_RemoveElement DEF BuffersInv, Permits
  <2>2. IsFiniteSet(DOMAIN table') /\ Cardinality(DOMAIN table') = Cardinality(DOMAIN table) + 1
    BY <1>4, <1>5, FS_AddElement DEF BuffersInv, Permits
  <2>3. QED
    BY <1>1, <2>1, <2>2, Counts, Constants DEF BuffersInv, Permits
<1>9. HandsAreWriting'
  BY <1>1, <1>2 DEF BuffersInv, HandsAreWriting
<1>10. g \in InHand /\ InHand' = InHand \ {g}
  BY <1>2 DEF BuffersInv, Distinct, InHand, g
<1>11. Buffers' = Buffers \cup {g} /\ Queued' = Queued
  BY <1>1, <1>4, <1>5 DEF Buffers, Queued
<1>12. g \notin Buffers
  BY <1>10 DEF BuffersInv, Divided
<1>13. Distinct'
  <2>1. \A i \in DOMAIN table : table[i] # g
    BY <1>12 DEF Buffers
  <2>2. \A i, j \in DOMAIN table' : table'[i] = table'[j] => i = j
    BY <1>5, <2>1 DEF BuffersInv, Distinct
  <2>3. \A q, r \in Pollers : got'[q] = got'[r] /\ got'[q] # 0 => q = r
    BY <1>2 DEF BuffersInv, Distinct
  <2>4. QED
    BY <1>1, <2>2, <2>3, ZenonT(40) DEF BuffersInv, Distinct
<1>14. Divided(Queued, InHand, Buffers, freed, produced)'
  BY <1>1, <1>10, <1>11 DEF BuffersInv, Divided
<1>15. QED
  BY <1>7, <1>8, <1>9, <1>13, <1>14 DEF BuffersInv

LEMMA FreeStep ==
  ASSUME BuffersInv, NEW i \in AllocIds, lm_engine_buffer_free(i)
  PROVE  BuffersInv'
<1>1. /\ i \in DOMAIN table /\ freed' = freed \cup {table[i]}
      /\ table' = [j \in DOMAIN table \ {i} |-> table[j]] /\ slots' = slots + 1
      /\ UNCHANGED <<events, produced, holder, pc, got, next_id, shutdown>>
  BY DEF lm_engine_buffer_free
<1>2. /\ DOMAIN table' = DOMAIN table \ {i} /\ \A j \in DOMAIN table \ {i} : table'[j] = table[j]
  BY <1>1
<1>3. TypeOK'
  BY <1>1, <1>2, PermitsOut DEF BuffersInv, TypeOK
<1>4. Permits'
  <2>1. IsFiniteSet(DOMAIN table') /\ Cardinality(DOMAIN table') = Cardinality(DOMAIN table) - 1
    BY <1>1, <1>2, FS_RemoveElement DEF BuffersInv, Permits
  <2>2. Busy' = Busy
    BY <1>1 DEF Busy
  <2>3. QED
    BY <1>1, <2>1, <2>2, Counts, Constants DEF BuffersInv, Permits
<1>5. HandsAreWriting' /\ Distinct'
  BY <1>1, <1>2 DEF BuffersInv, HandsAreWriting, Distinct
<1>6. table[i] \in Buffers /\ Buffers' = Buffers \ {table[i]}
  BY <1>1, <1>2 DEF BuffersInv, Distinct, Buffers
<1>7. Queued' = Queued /\ InHand' = InHand
  BY <1>1 DEF Queued, InHand
<1>8. Divided(Queued, InHand, Buffers, freed, produced)'
  BY <1>1, <1>6, <1>7 DEF BuffersInv, Divided
<1>9. QED
  BY <1>3, <1>4, <1>5, <1>8 DEF BuffersInv

\* A step that changes neither the queue nor a poll nor the table.
LEMMA QuietStep ==
  ASSUME BuffersInv, shutdown' \in BOOLEAN,
         UNCHANGED <<events, produced, slots, holder, pc, got, table, next_id, freed>>
  PROVE  BuffersInv'
<1>1. TypeOK'
  BY DEF BuffersInv, TypeOK
<1>2. Permits' /\ HandsAreWriting' /\ Distinct'
  BY DEF BuffersInv, Permits, Busy, HandsAreWriting, Distinct
<1>3. Divided(Queued, InHand, Buffers, freed, produced)'
  BY SamePlaces
<1>4. QED
  BY <1>1, <1>2, <1>3 DEF BuffersInv

LEMMA BuffersStep == BuffersInv /\ [Next]_vars => BuffersInv'
<1> SUFFICES ASSUME BuffersInv, [Next]_vars PROVE BuffersInv'
  OBVIOUS
<1>1. CASE UNCHANGED vars \/ stop
  <2>1. shutdown \in BOOLEAN
    BY DEF BuffersInv, TypeOK
  <2>2. QED
    BY <1>1, <2>1, QuietStep DEF vars, stop
<1>2. CASE produce
  BY <1>2, ProduceStep
<1>3. ASSUME NEW i \in AllocIds, lm_engine_buffer_free(i) PROVE BuffersInv'
  BY <1>3, FreeStep
<1>4. ASSUME NEW p \in Pollers, Poll(p) PROVE BuffersInv'
  <2>1. ASSUME NEW label \in {"zero", "lock"}, lm_engine_poll_event(p, label) PROVE BuffersInv'
    BY <2>1, PollStep
  <2>2. holder \in Pollers \cup {NoPoller} /\ (pc[p] # "write" => got[p] = 0)
    BY DEF BuffersInv, TypeOK, HandsAreWriting
  <2>3. CASE try_receive(p)
    BY <2>2, <2>3, ReceiveStep, WaitStep DEF try_receive
  <2>4. CASE lock_events(p)
    BY <2>2, <2>4, WaitStep DEF lock_events
  <2>5. CASE receive(p)
    BY <2>2, <2>5, ReceiveStep DEF receive
  <2>6. CASE poll_timeout(p)
    <3>1. holder' \in Pollers \cup {NoPoller} /\ pc[p] # "idle" /\ pc[p] # "write"
      BY <2>2, <2>6 DEF poll_timeout
    <3>2. QED
      BY <2>2, <2>6, <3>1, WaitStep DEF poll_timeout
  <2>7. CASE write_output_buffer(p)
    BY <2>7, EmptyPollStep, FullPollStep
  <2>8. QED
    BY <1>4, <2>1, <2>3, <2>4, <2>5, <2>6, <2>7 DEF Poll
<1>5. QED
  BY <1>1, <1>2, <1>3, <1>4 DEF Next

LEMMA BuffersInvariant == Spec => []BuffersInv
  BY BuffersInit, BuffersStep, PTL DEF Spec

-----------------------------------------------------------------------------
\* A permit is free, held by one running poll or stored with one buffer,
\* whatever the order of polls, timeouts, exhaustion and frees.
THEOREM PermitsAreConserved == Spec => []SlotsConserved
<1>1. BuffersInv => SlotsConserved
  BY DEF BuffersInv, Permits, Busy, SlotsConserved
<1>2. QED
  BY <1>1, BuffersInvariant, PTL

\* Every event that entered the queue is in exactly one place: a wrapped
\* counter never overwrites a buffer and no poll drops or repeats an event.
THEOREM EventsAreNeverLost == Spec => []NothingLost
<1>1. BuffersInv => NothingLost
  <2> SUFFICES ASSUME BuffersInv PROVE NothingLost
    OBVIOUS
  <2>1. events \in Seq(Numbers) /\ Len(events) \in Nat
    BY DEF BuffersInv, TypeOK
  <2> DEFINE f == [i \in 1..Len(events) |-> events[i]]
  <2>2. f \in Bijection(1..Len(events), Queued)
    BY DEF Bijection, Injection, Surjection, IsInjective, Queued, BuffersInv, Distinct
  <2>3. ExistsBijection(1..Len(events), Queued)
    BY <2>2, Zenon DEF ExistsBijection
  <2>4. Cardinality(Queued) = Len(events)
    BY <2>1, <2>3, FS_CountingElements
  <2>5. QED
    BY <2>4 DEF NothingLost, BuffersInv, Distinct, Divided
<1>2. QED
  BY <1>1, BuffersInvariant, PTL
=============================================================================
