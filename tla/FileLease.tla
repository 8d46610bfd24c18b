----------------------------- MODULE FileLease -----------------------------
(***************************************************************************)
(* File leases of one engine handle: the registry LmEngine.file_leases and *)
(* its ABI calls (crates/linguamesh-ffi/src/lib.rs) over the shared state  *)
(* of a lease (crates/linguamesh-domain/src/file_lease.rs).                *)
(*                                                                         *)
(* Every clone of a FileLease shares one atomic state, so a lease here is  *)
(* an identifier with a state and a place in the registry.  Creating,      *)
(* expiring, revoking and destroying hold the registry's lock throughout   *)
(* and are one step; a consumption takes and drops the lock several times  *)
(* and is one step per critical section or atomic access.                  *)
(***************************************************************************)
EXTENDS Naturals, FiniteSets

CONSTANTS
  Calls,            \* consumption calls the host threads make
  MAX_FILE_LEASES,  \* registry bound (64 in the code)
  MaxId             \* bound on the leases ever created

ASSUME LeaseAssumption == MAX_FILE_LEASES \in Nat \ {0} /\ MaxId \in Nat

VARIABLES
  file_leases,  \* identifiers in the registry
  next_id,      \* next_file_lease_id
  state,        \* AtomicU8 of each lease; "none" before creation
  kind,         \* the FileLeaseResource: a POSIX descriptor or not
  open,         \* leases whose descriptor the host has not closed
  shutdown,     \* LmEngine.shutdown
  pc,           \* consumption calls
  id,           \* the lease each call names
  source        \* where a call's bytes come from

vars == <<file_leases, next_id, state, kind, open, shutdown, pc, id, source>>

registryVars == <<file_leases, next_id, state, kind, open, shutdown>>

Ids     == 1..MaxId
Results == {"ok", "invalid_argument", "malformed_message", "shutdown_code"}

TypeOK ==
  /\ file_leases \subseteq Ids /\ Cardinality(file_leases) <= MAX_FILE_LEASES
  /\ next_id \in 1..(MaxId + 1)
  /\ state \in [Ids -> {"none", "active", "expired", "revoked"}]
  /\ kind \in [Ids -> {"posix", "other"}]
  /\ open \subseteq Ids
  /\ shutdown \in BOOLEAN
  /\ pc \in [Calls -> {"idle", "borrow", "dup", "clone", "acquire", "parse",
                       "check", "revoke", "remove"} \cup Results]
  /\ id \in [Calls -> Ids]
  /\ source \in [Calls -> {"host", "descriptor", "foreign"}]

Init ==
  /\ file_leases = {} /\ next_id = 1
  /\ state = [i \in Ids |-> "none"]
  /\ kind = [i \in Ids |-> "other"]
  /\ open = {}
  /\ shutdown = FALSE
  /\ pc = [c \in Calls |-> "idle"]
  /\ id \in [Calls -> Ids]
  /\ source = [c \in Calls |-> "host"]

-----------------------------------------------------------------------------
(* FileLease.                                                              *)

\* Mutant: only a revocation counts.
IsActive_though_expired(i) == state[i] \in {"active", "expired"}

IsActive(i) == state[i] = "active"

\* expire and revoke: a compare-and-exchange from ACTIVE, so that the first
\* reason stays.
Invalidate(i, to) ==
  state' = [state EXCEPT ![i] = IF @ = "active" THEN to ELSE @]

-----------------------------------------------------------------------------
(* ABI calls under one hold of the lock.                                   *)

create_file_lease(k) ==
  /\ ~shutdown
  /\ Cardinality(file_leases) < MAX_FILE_LEASES
  /\ next_id <= MaxId
  /\ file_leases' = file_leases \cup {next_id}
  /\ state' = [state EXCEPT ![next_id] = "active"]
  /\ kind' = [kind EXCEPT ![next_id] = k]
  /\ open' = open \cup {next_id}
  /\ next_id' = next_id + 1
  /\ UNCHANGED <<shutdown, pc, id, source>>

update_file_lease_state(i, to) ==
  /\ i \in file_leases
  /\ Invalidate(i, to)
  /\ UNCHANGED <<file_leases, next_id, kind, open, shutdown, pc, id, source>>

lm_engine_file_lease_destroy(i) ==
  /\ i \in file_leases
  /\ file_leases' = file_leases \ {i}
  /\ Invalidate(i, "revoked")
  /\ UNCHANGED <<next_id, kind, open, shutdown, pc, id, source>>

\* The host closes a descriptor only once its lease is no longer active.
host_close(i) ==
  /\ i \in open /\ state[i] \in {"expired", "revoked"}
  /\ open' = open \ {i}
  /\ UNCHANGED <<file_leases, next_id, state, kind, shutdown, pc, id, source>>

\* lm_engine_shutdown, as far as the lease calls read it.
stop ==
  /\ shutdown' = TRUE
  /\ UNCHANGED <<file_leases, next_id, state, kind, open, pc, id, source>>

-----------------------------------------------------------------------------
(* lm_engine_file_lease_consume_document, which brings the bytes, and      *)
(* lm_engine_file_lease_consume_posix_document, which reads them.          *)

Goto(c, label) == pc' = [pc EXCEPT ![c] = label] /\ UNCHANGED <<id, registryVars>>

consume_document(c) ==
  /\ pc[c] = "idle"
  /\ \E label \in {"clone", "invalid_argument"} :
       Goto(c, IF shutdown THEN "shutdown_code" ELSE label)
  /\ UNCHANGED source

consume_posix_document(c) ==
  /\ pc[c] = "idle"
  /\ \E label \in {"borrow", "invalid_argument"} :
       Goto(c, IF shutdown THEN "shutdown_code" ELSE label)
  /\ source' = [source EXCEPT ![c] = "descriptor"]

\* With the lock: the lease is registered, active and a POSIX descriptor; its
\* number is copied and the lock dropped.
posix_borrow(c) ==
  /\ pc[c] = "borrow"
  /\ Goto(c, IF id[c] \in file_leases /\ IsActive(id[c]) /\ kind[id[c]] = "posix"
               THEN "dup" ELSE "invalid_argument")
  /\ UNCHANGED source

\* Without the lock: the number is duplicated and read.  A number the host has
\* closed meanwhile is refused by the system or names another file by now.
posix_read(c) ==
  /\ pc[c] = "dup"
  /\ \/ /\ Goto(c, "clone")
        /\ source' = IF id[c] \in open THEN source ELSE [source EXCEPT ![c] = "foreign"]
     \/ Goto(c, "invalid_argument") /\ UNCHANGED source

\* consume_document_bytes: the lease is cloned out of the registry.
consume_clone(c) ==
  /\ pc[c] = "clone"
  /\ Goto(c, IF id[c] \in file_leases THEN "acquire" ELSE "invalid_argument")
  /\ UNCHANGED source

consume_acquire(c) ==
  /\ pc[c] = "acquire"
  /\ Goto(c, IF IsActive(id[c]) THEN "parse" ELSE "invalid_argument")
  /\ UNCHANGED source

\* DocumentJob::from_utf8 accepts the bytes or not.
consume_parse(c) ==
  /\ pc[c] = "parse"
  /\ \E label \in {"check", "malformed_message"} : Goto(c, label)
  /\ UNCHANGED source

consume_check(c) ==
  /\ pc[c] = "check"
  /\ Goto(c, IF IsActive(id[c]) THEN "revoke" ELSE "invalid_argument")
  /\ UNCHANGED source

consume_revoke(c) ==
  /\ pc[c] = "revoke"
  /\ Invalidate(id[c], "revoked")
  /\ pc' = [pc EXCEPT ![c] = "remove"]
  /\ UNCHANGED <<file_leases, next_id, kind, open, shutdown, id, source>>

\* Mutant: success without finding the lease.
consume_remove_unconditional(c) ==
  /\ pc[c] = "remove"
  /\ file_leases' = file_leases \ {id[c]}
  /\ pc' = [pc EXCEPT ![c] = "ok"]
  /\ UNCHANGED <<next_id, state, kind, open, shutdown, id, source>>

\* With the lock again: whoever finds the lease removes it and succeeds.
consume_remove(c) ==
  /\ pc[c] = "remove"
  /\ file_leases' = file_leases \ {id[c]}
  /\ pc' = [pc EXCEPT ![c] = IF id[c] \in file_leases THEN "ok" ELSE "invalid_argument"]
  /\ UNCHANGED <<next_id, state, kind, open, shutdown, id, source>>

-----------------------------------------------------------------------------
Consume(c) ==
  \/ consume_document(c) \/ consume_posix_document(c)
  \/ posix_borrow(c) \/ posix_read(c)
  \/ consume_clone(c) \/ consume_acquire(c) \/ consume_parse(c)
  \/ consume_check(c) \/ consume_revoke(c) \/ consume_remove(c)

Registry ==
  \/ \E k \in {"posix", "other"} : create_file_lease(k)
  \/ \E i \in Ids :
       \/ \E to \in {"expired", "revoked"} : update_file_lease_state(i, to)
       \/ lm_engine_file_lease_destroy(i)
       \/ host_close(i)

Next == Registry \/ stop \/ \E c \in Calls : Consume(c)

Spec == Init /\ [][Next]_vars

-----------------------------------------------------------------------------
(* Properties.                                                             *)

\* One-shot: of all the calls that name a lease, on however many threads, at
\* most one reports success.
OneShot == \A c, d \in Calls : pc[c] = "ok" /\ pc[d] = "ok" /\ id[c] = id[d] => c = d

\* A lease that has left the registry is no longer active, so that a call
\* which still holds a clone of it cannot go on borrowing.
GoneIsInactive == \A i \in Ids : i < next_id /\ i \notin file_leases => state[i] # "active"

\* An invalidated lease never becomes active again and keeps its first reason.
FirstReasonStays ==
  [][\A i \in Ids : state[i] \in {"expired", "revoked"} => state'[i] = state[i]]_vars

\* A successful call never used the bytes of a file the host did not grant,
\* although the descriptor is read after the lock has been dropped.
GrantedBytes == \A c \in Calls : pc[c] = "ok" => source[c] # "foreign"

CallsOn(i, labels) == {c \in Calls : id[c] = i /\ pc[c] \in labels}

\* A lease with the calls that are past their last look at it.
Lease(i) ==
  INSTANCE OneShotLease WITH
    status <- state[i], registered <- i \in file_leases,
    admitted <- CallsOn(i, {"revoke", "remove"}), winners <- CallsOn(i, {"ok"})

LeaseView(i) ==
  <<state[i], i \in file_leases, CallsOn(i, {"revoke", "remove"}), CallsOn(i, {"ok"})>>

\* Every lease implements OneShotLease, however the critical sections of the
\* calls interleave: a call that has not passed its second look when the lease
\* is invalidated does not succeed, one that finds the lease gone from the
\* registry does not either, and the first reason stays.
LeasesImplemented ==
  /\ \A i \in Ids : Lease(i)!Init
  /\ [][\A i \in Ids : UNCHANGED LeaseView(i) \/ Lease(i)!Next]_vars
=============================================================================
