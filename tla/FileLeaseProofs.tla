-------------------------- MODULE FileLeaseProofs --------------------------
(***************************************************************************)
(* Theorems about file leases, for any number of concurrent consumptions,  *)
(* any registry bound and any number of leases.                            *)
(***************************************************************************)
EXTENDS FileLease, FiniteSetTheorems, TLAPS

\* Only a creation adds to the registry, one lease, and only below the bound.
LEMMA LeaseBoundStep ==
  ASSUME TypeOK, [Next]_vars
  PROVE  Cardinality(file_leases') <= MAX_FILE_LEASES
<1> USE LeaseAssumption DEF LeaseAssumption
<1>1. IsFiniteSet(file_leases)
  <2>1. IsFiniteSet(1..MaxId)
    BY FS_Interval
  <2>2. QED
    BY <2>1, FS_Subset DEF TypeOK, Ids
<1>2. Cardinality(file_leases) \in Nat /\ Cardinality(file_leases) <= MAX_FILE_LEASES
  BY <1>1, FS_CardinalityType DEF TypeOK
<1>3. ASSUME NEW k \in {"posix", "other"}, create_file_lease(k)
      PROVE  Cardinality(file_leases') <= MAX_FILE_LEASES
  <2>1. file_leases' = file_leases \cup {next_id} /\ Cardinality(file_leases) < MAX_FILE_LEASES
    BY <1>3 DEF create_file_lease
  <2>2. QED
    BY <1>1, <1>2, <2>1, FS_AddElement
<1>4. ASSUME NEW x, file_leases' = file_leases \ {x}
      PROVE  Cardinality(file_leases') <= MAX_FILE_LEASES
  BY <1>1, <1>2, <1>4, FS_RemoveElement
<1>5. \/ file_leases' = file_leases
      \/ \E k \in {"posix", "other"} : create_file_lease(k)
      \/ \E x : file_leases' = file_leases \ {x}
  <2>1. CASE Registry
    BY <2>1 DEF Registry, update_file_lease_state, lm_engine_file_lease_destroy, host_close
  <2>2. ASSUME NEW c \in Calls, Consume(c)
        PROVE  file_leases' = file_leases \/ \E x : file_leases' = file_leases \ {x}
    BY <2>2 DEF Consume, consume_document, consume_posix_document, posix_borrow, posix_read,
       consume_clone, consume_acquire, consume_parse, consume_check, consume_revoke,
       consume_remove, Goto, registryVars
  <2>3. CASE stop \/ UNCHANGED vars
    BY <2>3 DEF stop, vars
  <2>4. QED
    BY <2>1, <2>2, <2>3 DEF Next
<1>6. QED
  BY <1>2, <1>3, <1>4, <1>5

LEMMA LeaseTypeStep == TypeOK /\ [Next]_vars => TypeOK'
<1> SUFFICES ASSUME TypeOK, [Next]_vars PROVE TypeOK'
  OBVIOUS
<1>0. Cardinality(file_leases') <= MAX_FILE_LEASES
  BY LeaseBoundStep
<1> USE <1>0, LeaseAssumption DEF LeaseAssumption, TypeOK, Ids, Results, registryVars
<1>1. ASSUME NEW k \in {"posix", "other"}, create_file_lease(k) PROVE TypeOK'
  BY <1>1 DEF create_file_lease
<1>2. ASSUME NEW i \in Ids, NEW to \in {"expired", "revoked"}, update_file_lease_state(i, to)
      PROVE  TypeOK'
  BY <1>2 DEF update_file_lease_state, Invalidate
<1>3. ASSUME NEW i \in Ids, lm_engine_file_lease_destroy(i) PROVE TypeOK'
  BY <1>3 DEF lm_engine_file_lease_destroy, Invalidate
<1>4. ASSUME NEW i \in Ids, host_close(i) PROVE TypeOK'
  BY <1>4 DEF host_close
<1>5. CASE stop
  BY <1>5 DEF stop
<1>6. ASSUME NEW c \in Calls, Consume(c) PROVE TypeOK'
  <2>1. CASE consume_document(c) \/ consume_posix_document(c)
    <3>1. \E label \in {"clone", "borrow", "invalid_argument", "shutdown_code"} : Goto(c, label)
      BY <2>1, Zenon DEF consume_document, consume_posix_document
    <3>2. source' \in [Calls -> {"host", "descriptor", "foreign"}]
      BY <2>1 DEF consume_document, consume_posix_document
    <3>3. /\ UNCHANGED <<file_leases, next_id, state, kind, open, shutdown, id>>
          /\ pc' \in [Calls -> {"idle", "borrow", "dup", "clone", "acquire", "parse",
                                "check", "revoke", "remove"} \cup Results]
      BY <3>1 DEF Goto
    <3>4. QED
      BY <3>2, <3>3
  <2>2. CASE posix_borrow(c) \/ posix_read(c)
    BY <2>2 DEF posix_borrow, posix_read, Goto
  <2>3. CASE consume_clone(c) \/ consume_acquire(c) \/ consume_parse(c) \/ consume_check(c)
    <3>1. CASE consume_clone(c) \/ consume_acquire(c)
      BY <3>1 DEF consume_clone, consume_acquire, Goto
    <3>2. CASE consume_parse(c)
      BY <3>2 DEF consume_parse, Goto
    <3>3. CASE consume_check(c)
      BY <3>3 DEF consume_check, Goto
    <3>4. QED
      BY <2>3, <3>1, <3>2, <3>3, Zenon
  <2>4. CASE consume_revoke(c)
    BY <2>4 DEF consume_revoke, Invalidate
  <2>5. CASE consume_remove(c)
    BY <2>5 DEF consume_remove
  <2>6. QED
    BY <1>6, <2>1, <2>2, <2>3, <2>4, <2>5, Zenon DEF Consume
<1>7. CASE UNCHANGED vars
  BY <1>7 DEF vars
<1>8. QED
  BY <1>1, <1>2, <1>3, <1>4, <1>5, <1>6, <1>7 DEF Next, Registry

LEMMA LeaseTypeInit == Init => TypeOK
<1> SUFFICES ASSUME Init PROVE TypeOK
  OBVIOUS
<1>1. file_leases \subseteq Ids /\ next_id \in 1..(MaxId + 1) /\ open \subseteq Ids
  BY LeaseAssumption DEF LeaseAssumption, Init, Ids
<1>2. Cardinality(file_leases) <= MAX_FILE_LEASES
  BY LeaseAssumption, FS_EmptySet DEF LeaseAssumption, Init
<1>3. QED
  BY <1>1, <1>2 DEF Init, TypeOK

\* The type invariant of the lease registry and the calls on it.
THEOREM LeaseTypeCorrect == Spec => []TypeOK
  BY LeaseTypeInit, LeaseTypeStep, PTL DEF Spec

-----------------------------------------------------------------------------
(***************************************************************************)
(* The inductive invariant.  Identifiers at or above next_id are unused; a *)
(* lease outside the registry, or held by a call about to remove it, is    *)
(* inactive; a successful call's lease is gone for good; bytes of a        *)
(* foreign file imply an inactive lease, which the check then meets.  A    *)
(* used identifier has a state for ever.                                   *)
(***************************************************************************)

Unused == \A i \in Ids : i \in file_leases => i < next_id

BornOnce == \A i \in Ids : state[i] = "none" <=> i >= next_id

Removing == \A c \in Calls : pc[c] = "remove" => ~IsActive(id[c]) /\ id[c] < next_id

Consuming == \A c \in Calls : pc[c] \in {"acquire", "parse", "check", "revoke"} => id[c] < next_id

Consumed == \A c \in Calls : pc[c] = "ok" => id[c] \notin file_leases /\ id[c] < next_id

Foreign ==
  \A c \in Calls : source[c] = "foreign" =>
    ~IsActive(id[c]) /\ id[c] < next_id /\ pc[c] \notin {"revoke", "remove", "ok"}

Closed == \A i \in Ids : i < next_id /\ i \notin open => ~IsActive(i)

Borrowed == \A c \in Calls : pc[c] = "dup" => id[c] < next_id

LeaseInv ==
  /\ Unused /\ BornOnce /\ Removing /\ Consuming /\ Consumed /\ Foreign
  /\ Closed /\ Borrowed /\ OneShot /\ GoneIsInactive

LEMMA LeaseInvInit == Init => LeaseInv
  BY LeaseAssumption DEF LeaseAssumption, Init, LeaseInv, Unused, BornOnce, Removing,
     Consuming, Consumed, Foreign, Closed, Borrowed, OneShot, GoneIsInactive, IsActive, Ids

LEMMA LeaseInvRegistry ==
  ASSUME TypeOK, LeaseInv, Registry
  PROVE  LeaseInv'
<1> USE LeaseAssumption DEF LeaseAssumption, TypeOK, Ids, LeaseInv, IsActive
<1>1. ASSUME NEW k \in {"posix", "other"}, create_file_lease(k) PROVE LeaseInv'
  <2>1. Unused' /\ BornOnce'
    BY <1>1 DEF create_file_lease, Unused, BornOnce
  <2>2. Removing' /\ Consuming' /\ Consumed' /\ Borrowed'
    BY <1>1 DEF create_file_lease, Removing, Consuming, Consumed, Borrowed
  <2>3. Foreign'
    BY <1>1 DEF create_file_lease, Foreign
  <2>4. Closed' /\ GoneIsInactive'
    BY <1>1 DEF create_file_lease, Closed, GoneIsInactive
  <2>5. OneShot'
    BY <1>1 DEF create_file_lease, OneShot
  <2>6. QED
    BY <2>1, <2>2, <2>3, <2>4, <2>5
<1>2. ASSUME NEW i \in Ids, NEW to \in {"expired", "revoked"}, update_file_lease_state(i, to)
      PROVE  LeaseInv'
  <2>1. i < next_id
    BY <1>2 DEF update_file_lease_state, Unused
  <2>2. \A j \in Ids : state'[j] = state[j] \/ (j = i /\ state'[j] \in {"expired", "revoked"})
    BY <1>2 DEF update_file_lease_state, Invalidate
  <2>3. UNCHANGED <<file_leases, next_id, open, pc, id, source>>
    BY <1>2 DEF update_file_lease_state
  <2>4. Unused' /\ BornOnce' /\ Closed' /\ GoneIsInactive'
    BY <2>1, <2>2, <2>3 DEF Unused, BornOnce, Closed, GoneIsInactive
  <2>5. Removing' /\ Consuming' /\ Consumed' /\ Foreign' /\ Borrowed' /\ OneShot'
    BY <2>1, <2>2, <2>3 DEF Removing, Consuming, Consumed, Foreign, Borrowed, OneShot
  <2>6. QED
    BY <2>4, <2>5
<1>3. ASSUME NEW i \in Ids, lm_engine_file_lease_destroy(i) PROVE LeaseInv'
  <2>1. i < next_id
    BY <1>3 DEF lm_engine_file_lease_destroy, Unused
  <2>2. (\A j \in Ids : state'[j] = state[j] \/ (j = i /\ state'[j] \in {"expired", "revoked"})) /\ ~IsActive(i)'
    BY <1>3 DEF lm_engine_file_lease_destroy, Invalidate
  <2>3. UNCHANGED <<next_id, open, pc, id, source>> /\ file_leases' = file_leases \ {i}
    BY <1>3 DEF lm_engine_file_lease_destroy
  <2>4. Unused' /\ BornOnce' /\ Closed' /\ GoneIsInactive'
    BY <2>1, <2>2, <2>3 DEF Unused, BornOnce, Closed, GoneIsInactive
  <2>5. Removing' /\ Consuming' /\ Consumed' /\ Foreign' /\ Borrowed' /\ OneShot'
    BY <2>1, <2>2, <2>3 DEF Removing, Consuming, Consumed, Foreign, Borrowed, OneShot
  <2>6. QED
    BY <2>4, <2>5
<1>4. ASSUME NEW i \in Ids, host_close(i) PROVE LeaseInv'
  BY <1>4 DEF host_close, Unused, BornOnce, Removing, Consuming, Consumed, Foreign,
     Closed, Borrowed, OneShot, GoneIsInactive
<1>5. QED
  BY <1>1, <1>2, <1>3, <1>4 DEF Registry

LEMMA LeaseInvConsume ==
  ASSUME TypeOK, LeaseInv, NEW c \in Calls, Consume(c)
  PROVE  LeaseInv'
<1> USE LeaseAssumption DEF LeaseAssumption, TypeOK, Ids, LeaseInv, IsActive, registryVars
<1>1. ASSUME NEW label \in {"borrow", "dup", "clone", "acquire", "parse", "check", "revoke",
                             "invalid_argument", "malformed_message", "shutdown_code"},
             Goto(c, label),
             label \in {"acquire", "parse", "check", "revoke", "dup"} => id[c] < next_id,
             label = "revoke" => source'[c] # "foreign",
             \/ source' = source
             \/ source' = [source EXCEPT ![c] = "descriptor"]
             \/ /\ source' = [source EXCEPT ![c] = "foreign"]
                /\ ~IsActive(id[c]) /\ id[c] < next_id
      PROVE  LeaseInv'
  <2>1. UNCHANGED <<file_leases, next_id, state, open, id>> /\ pc' = [pc EXCEPT ![c] = label]
    BY <1>1 DEF Goto
  <2>2. Unused' /\ BornOnce' /\ Closed' /\ GoneIsInactive'
    BY <2>1 DEF Unused, BornOnce, Closed, GoneIsInactive
  <2>3. Removing' /\ Consuming' /\ Consumed' /\ Borrowed'
    BY <1>1, <2>1 DEF Removing, Consuming, Consumed, Borrowed
  <2>4. OneShot'
    BY <1>1, <2>1 DEF OneShot
  <2>5. Foreign'
    <3> SUFFICES ASSUME NEW d \in Calls, source'[d] = "foreign"
                 PROVE  /\ ~IsActive(id[d]) /\ id[d] < next_id
                        /\ pc'[d] \notin {"revoke", "remove", "ok"}
      BY <2>1 DEF Foreign
    <3>1. CASE d = c
      BY <1>1, <2>1, <3>1 DEF Foreign
    <3>2. CASE d # c
      BY <1>1, <2>1, <3>2 DEF Foreign
    <3>3. QED
      BY <3>1, <3>2
  <2>6. QED
    BY <2>2, <2>3, <2>4, <2>5
<1>2. CASE consume_document(c) \/ consume_posix_document(c)
  <2>1. \E label \in {"clone", "borrow", "invalid_argument", "shutdown_code"} : Goto(c, label)
    BY <1>2, Zenon DEF consume_document, consume_posix_document
  <2>2. source' = source \/ source' = [source EXCEPT ![c] = "descriptor"]
    BY <1>2 DEF consume_document, consume_posix_document
  <2>3. QED
    BY <2>1, <2>2, <1>1
<1>3. CASE posix_borrow(c) \/ consume_clone(c)
  BY <1>3, <1>1 DEF posix_borrow, consume_clone, Unused
<1>4. CASE posix_read(c)
  <2>1. id[c] < next_id
    BY <1>4 DEF posix_read, Borrowed
  <2>2. id[c] \notin open => ~IsActive(id[c])
    BY <2>1 DEF Closed
  <2>3. QED
    BY <1>4, <2>1, <2>2, <1>1 DEF posix_read
<1>5. CASE consume_acquire(c) \/ consume_parse(c) \/ consume_check(c)
  <2>1. id[c] < next_id
    BY <1>5 DEF consume_acquire, consume_parse, consume_check, Consuming
  <2>2. CASE consume_acquire(c)
    BY <2>1, <2>2, <1>1 DEF consume_acquire
  <2>3. CASE consume_parse(c)
    BY <2>1, <2>3, <1>1 DEF consume_parse
  <2>4. CASE consume_check(c)
    <3>1. IsActive(id[c]) => source[c] # "foreign"
      BY DEF Foreign
    <3>2. QED
      BY <2>1, <2>4, <3>1, <1>1 DEF consume_check
  <2>5. QED
    BY <1>5, <2>2, <2>3, <2>4
<1>6. CASE consume_revoke(c)
  <2>1. \A j \in Ids : state'[j] = state[j] \/ (j = id[c] /\ state'[j] \in {"expired", "revoked"})
    BY <1>6 DEF consume_revoke, Invalidate
  <2>2. ~IsActive(id[c])'
    BY <1>6 DEF consume_revoke, Invalidate
  <2>3. UNCHANGED <<file_leases, next_id, open, id, source>> /\ pc' = [pc EXCEPT ![c] = "remove"]
    BY <1>6 DEF consume_revoke
  <2>4. id[c] < next_id /\ source[c] # "foreign"
    BY <1>6 DEF consume_revoke, Consuming, Foreign
  <2>5. Unused' /\ BornOnce' /\ Closed' /\ GoneIsInactive' /\ OneShot'
    BY <2>1, <2>3, <2>4 DEF Unused, BornOnce, Closed, GoneIsInactive, OneShot
  <2>6. Removing' /\ Consuming' /\ Consumed' /\ Foreign' /\ Borrowed'
    BY <2>1, <2>2, <2>3, <2>4 DEF Removing, Consuming, Consumed, Foreign, Borrowed
  <2>7. QED
    BY <2>5, <2>6
<1>7. CASE consume_remove(c)
  <2>1. Unused' /\ BornOnce' /\ Closed' /\ GoneIsInactive'
    BY <1>7 DEF consume_remove, Unused, BornOnce, Closed, GoneIsInactive, Removing
  <2>2. Removing' /\ Consuming' /\ Consumed' /\ Foreign' /\ Borrowed'
    BY <1>7 DEF consume_remove, Removing, Consuming, Consumed, Foreign, Borrowed
  <2>3. OneShot'
    BY <1>7 DEF consume_remove, OneShot, Consumed
  <2>4. QED
    BY <2>1, <2>2, <2>3
<1>8. QED
  BY <1>1, <1>2, <1>3, <1>4, <1>5, <1>6, <1>7 DEF Consume

LEMMA LeaseInvStep == TypeOK /\ LeaseInv /\ [Next]_vars => LeaseInv'
<1> SUFFICES ASSUME TypeOK, LeaseInv, [Next]_vars PROVE LeaseInv'
  OBVIOUS
<1>1. CASE stop \/ UNCHANGED vars
  BY <1>1 DEF stop, vars, LeaseInv, Unused, BornOnce, Removing, Consuming, Consumed,
     Foreign, Closed, Borrowed, OneShot, GoneIsInactive, IsActive
<1>2. QED
  BY <1>1, LeaseInvRegistry, LeaseInvConsume DEF Next

LEMMA LeaseInvAlways == Spec => []LeaseInv
  BY LeaseInvInit, LeaseInvStep, LeaseTypeCorrect, PTL DEF Spec

\* At most one consumption of a lease succeeds, whatever the interleaving.
THEOREM LeaseIsOneShot == Spec => []OneShot
<1>1. LeaseInv => OneShot
  BY DEF LeaseInv
<1>2. QED
  BY <1>1, LeaseInvAlways, PTL

\* A lease outside the registry is inactive, so no clone of it can be used.
THEOREM RemovedLeaseIsInactive == Spec => []GoneIsInactive
<1>1. LeaseInv => GoneIsInactive
  BY DEF LeaseInv
<1>2. QED
  BY <1>1, LeaseInvAlways, PTL

\* Reading the descriptor outside the lock is harmless: the second look at
\* the lease refuses bytes that came from a file the host did not grant.
THEOREM ConsumptionUsesGrantedBytes == Spec => []GrantedBytes
<1>1. LeaseInv => GrantedBytes
  BY DEF LeaseInv, Foreign, GrantedBytes
<1>2. QED
  BY <1>1, LeaseInvAlways, PTL

\* The host's first reason for invalidating a lease is never overwritten.
THEOREM LeaseFirstReasonStays == Spec => FirstReasonStays
<1> DEFINE Keeps == \A i \in Ids : state[i] \in {"expired", "revoked"} => state'[i] = state[i]
<1>1. TypeOK /\ LeaseInv /\ [Next]_vars => [Keeps]_vars
  <2> SUFFICES ASSUME TypeOK, LeaseInv, Next PROVE Keeps
    OBVIOUS
  <2> USE DEF TypeOK, Keeps
  <2>1. ASSUME NEW k \in {"posix", "other"}, create_file_lease(k) PROVE Keeps
    <3>1. next_id \in Ids /\ state[next_id] = "none"
      BY <2>1, LeaseAssumption DEF create_file_lease, LeaseInv, BornOnce, Ids, LeaseAssumption
    <3>2. QED
      BY <2>1, <3>1 DEF create_file_lease
  <2>2. ASSUME NEW i \in Ids, NEW to \in {"expired", "revoked"}, Invalidate(i, to) PROVE Keeps
    BY <2>2 DEF Invalidate
  <2>3. ASSUME state' = state PROVE Keeps
    BY <2>3
  <2>4. CASE Registry
    BY <2>4, <2>1, <2>2, <2>3 DEF Registry, update_file_lease_state, lm_engine_file_lease_destroy,
       host_close
  <2>5. CASE stop
    BY <2>5, <2>3 DEF stop
  <2>6. ASSUME NEW c \in Calls, Consume(c) PROVE Keeps
    BY <2>6, <2>2, <2>3 DEF Consume, consume_document, consume_posix_document, posix_borrow,
       posix_read, consume_clone, consume_acquire, consume_parse, consume_check,
       consume_revoke, consume_remove, Goto, registryVars
  <2>7. QED
    BY <2>4, <2>5, <2>6 DEF Next
<1>2. QED
  BY <1>1, LeaseTypeCorrect, LeaseInvAlways, PTL DEF Spec, FirstReasonStays

-----------------------------------------------------------------------------
(***************************************************************************)
(* FileLease implements OneShotLease for every lease: a step of the engine *)
(* is one step of one lease and a stutter of the others.                   *)
(***************************************************************************)

\* A call that moves between labels the view of a lease does not tell apart.
LEMMA QuietMove ==
  ASSUME TypeOK, NEW c \in Calls, NEW label, pc' = [pc EXCEPT ![c] = label],
         UNCHANGED <<file_leases, state, id>>,
         pc[c] \in {"revoke", "remove"} <=> label \in {"revoke", "remove"},
         pc[c] = "ok" <=> label = "ok"
  PROVE  \A i \in Ids : UNCHANGED LeaseView(i)
<1> SUFFICES ASSUME NEW i \in Ids PROVE UNCHANGED LeaseView(i)
  OBVIOUS
<1>1. \A d \in Calls : /\ pc'[d] \in {"revoke", "remove"} <=> pc[d] \in {"revoke", "remove"}
                      /\ pc'[d] = "ok" <=> pc[d] = "ok"
  BY DEF TypeOK
<1>2. /\ CallsOn(i, {"revoke", "remove"})' = CallsOn(i, {"revoke", "remove"})
      /\ CallsOn(i, {"ok"})' = CallsOn(i, {"ok"})
  BY <1>1 DEF CallsOn
<1>3. QED
  BY <1>2 DEF LeaseView

\* The calls on the leases other than the one whose call moves.
LEMMA OtherLease ==
  ASSUME NEW c \in Calls, \A d \in Calls \ {c} : pc'[d] = pc[d],
         UNCHANGED id, NEW i, i # id[c], NEW labels
  PROVE  CallsOn(i, labels)' = CallsOn(i, labels)
  BY DEF CallsOn

LEMMA SameCalls ==
  ASSUME UNCHANGED <<pc, id>>, NEW i, NEW labels
  PROVE  CallsOn(i, labels)' = CallsOn(i, labels)
  BY DEF CallsOn

LEMMA RegistryImplements ==
  ASSUME TypeOK, LeaseInv, Registry, NEW i \in Ids
  PROVE  UNCHANGED LeaseView(i) \/ Lease(i)!Next
<1>0. UNCHANGED <<pc, id>>
  BY DEF Registry, create_file_lease, update_file_lease_state, lm_engine_file_lease_destroy,
     host_close
<1>a. /\ CallsOn(i, {"revoke", "remove"})' = CallsOn(i, {"revoke", "remove"})
      /\ CallsOn(i, {"ok"})' = CallsOn(i, {"ok"})
  BY <1>0, SameCalls
<1>1. ASSUME NEW k \in {"posix", "other"}, create_file_lease(k)
      PROVE  UNCHANGED LeaseView(i) \/ Lease(i)!Grant
  <2>1. /\ next_id \in Ids /\ file_leases' = file_leases \cup {next_id}
        /\ state' = [state EXCEPT ![next_id] = "active"]
    BY <1>1, LeaseAssumption DEF create_file_lease, TypeOK, Ids, LeaseAssumption
  <2>2. CASE i = next_id
    <3>1. state[i] = "none" /\ state'[i] = "active" /\ i \in file_leases'
      BY <2>1, <2>2 DEF LeaseInv, BornOnce, TypeOK, Ids
    <3>2. QED
      BY <1>a, <3>1 DEF Lease!Grant
  <2>3. CASE i # next_id
    BY <1>a, <2>1, <2>3 DEF LeaseView, TypeOK
  <2>4. QED
    BY <2>2, <2>3
<1>2. ASSUME NEW j \in Ids, NEW to \in {"expired", "revoked"}, update_file_lease_state(j, to)
      PROVE  UNCHANGED LeaseView(i) \/ Lease(i)!Invalidate
  <2>1. file_leases' = file_leases /\ state' = [state EXCEPT ![j] = IF @ = "active" THEN to ELSE @]
    BY <1>2 DEF update_file_lease_state, Invalidate
  <2>2. CASE i = j /\ state[i] = "active"
    BY <1>a, <2>1, <2>2 DEF Lease!Invalidate, Lease!Invalid, TypeOK
  <2>3. CASE ~(i = j /\ state[i] = "active")
    BY <1>a, <2>1, <2>3 DEF LeaseView, TypeOK
  <2>4. QED
    BY <2>2, <2>3
<1>3. ASSUME NEW j \in Ids, lm_engine_file_lease_destroy(j)
      PROVE  UNCHANGED LeaseView(i) \/ Lease(i)!Destroy
  <2>1. /\ j \in file_leases /\ file_leases' = file_leases \ {j}
        /\ state' = [state EXCEPT ![j] = IF @ = "active" THEN "revoked" ELSE @]
    BY <1>3 DEF lm_engine_file_lease_destroy, Invalidate
  <2>2. CASE i = j
    BY <1>a, <2>1, <2>2 DEF Lease!Destroy, Lease!Invalid, TypeOK
  <2>3. CASE i # j
    BY <1>a, <2>1, <2>3 DEF LeaseView, TypeOK
  <2>4. QED
    BY <2>2, <2>3
<1>4. ASSUME NEW j \in Ids, host_close(j) PROVE UNCHANGED LeaseView(i)
  BY <1>a, <1>4 DEF host_close, LeaseView
<1>5. QED
  BY <1>1, <1>2, <1>3, <1>4 DEF Registry, Lease!Next

LEMMA ConsumeImplements ==
  ASSUME TypeOK, LeaseInv, NEW c \in Calls, Consume(c), NEW i \in Ids
  PROVE  UNCHANGED LeaseView(i) \/ Lease(i)!Next
<1>0. pc \in [Calls -> {"idle", "borrow", "dup", "clone", "acquire", "parse",
                       "check", "revoke", "remove"} \cup Results]
  BY DEF TypeOK
<1>1. ASSUME NEW label, label \notin {"revoke", "remove", "ok"}, Goto(c, label),
             pc[c] \notin {"revoke", "remove", "ok"}
      PROVE  UNCHANGED LeaseView(i)
  BY <1>1, QuietMove DEF Goto, registryVars
<1>2. CASE consume_document(c) \/ consume_posix_document(c)
  <2>1. pc[c] = "idle" /\ \E label \in {"clone", "borrow", "invalid_argument", "shutdown_code"} :
                           Goto(c, label)
    BY <1>2, Zenon DEF consume_document, consume_posix_document
  <2>2. QED
    BY <2>1, <1>1
<1>3. CASE posix_borrow(c) \/ posix_read(c)
  BY <1>3, <1>1 DEF posix_borrow, posix_read
<1>4. CASE consume_clone(c) \/ consume_acquire(c) \/ consume_parse(c)
  BY <1>4, <1>1 DEF consume_clone, consume_acquire, consume_parse
<1>5. CASE consume_check(c)
  <2>1. CASE IsActive(id[c])
    <3>1. /\ pc[c] = "check" /\ pc' = [pc EXCEPT ![c] = "revoke"]
          /\ UNCHANGED <<file_leases, state, id>>
      BY <1>5, <2>1 DEF consume_check, Goto, registryVars
    <3>2. CASE i = id[c]
      <4>1. CallsOn(i, {"revoke", "remove"})' = CallsOn(i, {"revoke", "remove"}) \cup {c}
        BY <1>0, <3>1, <3>2 DEF CallsOn
      <4>2. CallsOn(i, {"ok"})' = CallsOn(i, {"ok"})
        BY <1>0, <3>1 DEF CallsOn
      <4>3. c \notin CallsOn(i, {"revoke", "remove"}) \cup CallsOn(i, {"ok"})
        BY <3>1 DEF CallsOn
      <4>4. Lease(i)!Admit(c)
        BY <2>1, <3>1, <3>2, <4>1, <4>2, <4>3 DEF Lease!Admit, IsActive
      <4>5. QED
        BY <4>4 DEF Lease!Next
    <3>3. CASE i # id[c]
      <4>1. \A d \in Calls \ {c} : pc'[d] = pc[d]
        BY <1>0, <3>1
      <4>2. QED
        BY <3>1, <3>3, <4>1, OtherLease DEF LeaseView
    <3>4. QED
      BY <3>2, <3>3
  <2>2. CASE ~IsActive(id[c])
    BY <1>5, <2>2, <1>1 DEF consume_check
  <2>3. QED
    BY <2>1, <2>2
<1>6. CASE consume_revoke(c)
  <2>1. /\ pc[c] = "revoke" /\ pc' = [pc EXCEPT ![c] = "remove"] /\ UNCHANGED <<file_leases, id>>
        /\ state' = [state EXCEPT ![id[c]] = IF @ = "active" THEN "revoked" ELSE @]
    BY <1>6 DEF consume_revoke, Invalidate
  <2>2. \A d \in Calls : /\ pc'[d] \in {"revoke", "remove"} <=> pc[d] \in {"revoke", "remove"}
                        /\ pc'[d] = "ok" <=> pc[d] = "ok"
    BY <1>0, <2>1
  <2>3. /\ CallsOn(i, {"revoke", "remove"})' = CallsOn(i, {"revoke", "remove"})
        /\ CallsOn(i, {"ok"})' = CallsOn(i, {"ok"})
    BY <2>1, <2>2 DEF CallsOn
  <2>4. CASE i = id[c] /\ state[i] = "active"
    <3>1. Lease(i)!Invalidate
      BY <2>1, <2>3, <2>4 DEF Lease!Invalidate, Lease!Invalid, TypeOK
    <3>2. QED
      BY <3>1 DEF Lease!Next
  <2>5. CASE ~(i = id[c] /\ state[i] = "active")
    BY <2>1, <2>3, <2>5 DEF LeaseView, TypeOK
  <2>6. QED
    BY <2>4, <2>5
<1>7. CASE consume_remove(c)
  <2>1. /\ pc[c] = "remove" /\ UNCHANGED <<state, id>> /\ file_leases' = file_leases \ {id[c]}
        /\ pc' = [pc EXCEPT ![c] = IF id[c] \in file_leases THEN "ok" ELSE "invalid_argument"]
    BY <1>7 DEF consume_remove
  <2>2. CASE i # id[c]
    <3>1. \A d \in Calls \ {c} : pc'[d] = pc[d]
      BY <1>0, <2>1
    <3>2. QED
      BY <2>1, <2>2, <3>1, OtherLease DEF LeaseView
  <2>3. CASE i = id[c]
    <3>1. c \in CallsOn(i, {"revoke", "remove"})
      BY <2>1, <2>3 DEF CallsOn
    <3>2. CallsOn(i, {"revoke", "remove"})' = CallsOn(i, {"revoke", "remove"}) \ {c}
      BY <1>0, <2>1, <2>3 DEF CallsOn
    <3>3. i \notin file_leases'
      BY <2>1, <2>3
    <3>4. CASE i \in file_leases
      <4>1. CallsOn(i, {"ok"})' = CallsOn(i, {"ok"}) \cup {c}
        BY <1>0, <2>1, <2>3, <3>4 DEF CallsOn
      <4>2. state[i] \in {"expired", "revoked"}
        BY <2>1, <2>3 DEF LeaseInv, Removing, BornOnce, IsActive, TypeOK, Ids
      <4>3. Lease(i)!Win(c)
        BY <2>1, <3>1, <3>2, <3>3, <3>4, <4>1, <4>2 DEF Lease!Win, Lease!Invalid
      <4>4. QED
        BY <4>3 DEF Lease!Next
    <3>5. CASE i \notin file_leases
      <4>1. CallsOn(i, {"ok"})' = CallsOn(i, {"ok"})
        BY <1>0, <2>1, <2>3, <3>5 DEF CallsOn
      <4>2. Lease(i)!Lose(c)
        BY <2>1, <3>1, <3>2, <3>3, <3>5, <4>1 DEF Lease!Lose
      <4>3. QED
        BY <4>2 DEF Lease!Next
    <3>6. QED
      BY <3>4, <3>5
  <2>4. QED
    BY <2>2, <2>3
<1>8. QED
  BY <1>2, <1>3, <1>4, <1>5, <1>6, <1>7 DEF Consume

\* Every lease implements the one-shot lease, for any number of concurrent
\* consumptions, leases and any registry bound.
THEOREM LeasesAreImplemented == Spec => LeasesImplemented
<1>1. Init => \A i \in Ids : Lease(i)!Init
  BY DEF Init, Lease!Init, CallsOn
<1>2. TypeOK /\ LeaseInv /\ [Next]_vars =>
        [\A i \in Ids : UNCHANGED LeaseView(i) \/ Lease(i)!Next]_vars
  <2> SUFFICES ASSUME TypeOK, LeaseInv, Next, NEW i \in Ids
               PROVE  UNCHANGED LeaseView(i) \/ Lease(i)!Next
    OBVIOUS
  <2>1. CASE stop
    BY <2>1, SameCalls DEF stop, LeaseView
  <2>2. QED
    BY <2>1, RegistryImplements, ConsumeImplements DEF Next
<1>3. QED
  BY <1>1, <1>2, LeaseTypeCorrect, LeaseInvAlways, PTL DEF LeasesImplemented, Spec
=============================================================================
