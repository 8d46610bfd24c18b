----------------------------- MODULE MCRouting -----------------------------
(***************************************************************************)
(* Inputs for Routing: five candidates that differ in every property a     *)
(* check or a score reads, and constraints with at most two restrictions.  *)
(***************************************************************************)
EXTENDS Routing

Base == [provider |-> 1, model |-> 1, local |-> TRUE, streaming |-> TRUE, document |-> TRUE,
         capacity |-> 2, quality |-> 1, latency |-> 1, cost |-> 1, sources |-> {}, targets |-> {}]

MCCandidates ==
  { Base,
    [Base EXCEPT !.model = 2, !.local = FALSE, !.quality = 2, !.latency = 0, !.cost = Absent],
    [Base EXCEPT !.provider = 2, !.streaming = FALSE, !.capacity = 1, !.latency = I64Max + 1,
                 !.sources = {1}],
    [Base EXCEPT !.provider = 2, !.model = 2, !.local = FALSE, !.document = FALSE,
                 !.latency = Absent, !.cost = 3, !.targets = {2}],
    [Base EXCEPT !.provider = 3, !.quality = 0, !.cost = 0, !.targets = {1, 2}, !.sources = {2}] }

Restrictions == {"local_only", "no_remote", "provider_allow", "provider_deny", "model_allow",
                 "model_deny", "streaming", "document", "quality", "size", "private"}

Constrained(f, preference, fallback) ==
  [local_only |-> "local_only" \in f, allow_remote |-> "no_remote" \notin f,
   provider_allowlist |-> IF "provider_allow" \in f THEN {1, 2} ELSE {},
   provider_denylist |-> IF "provider_deny" \in f THEN {2} ELSE {},
   model_allowlist |-> IF "model_allow" \in f THEN {1} ELSE {},
   model_denylist |-> IF "model_deny" \in f THEN {1} ELSE {},
   require_streaming |-> "streaming" \in f, require_document |-> "document" \in f,
   minimum_quality_tier |-> IF "quality" \in f THEN 1 ELSE Absent,
   max_request_bytes |-> IF "size" \in f THEN 1 ELSE Absent,
   preference |-> preference, privacy_sensitive |-> "private" \in f,
   explicit_fallback_allowed |-> fallback]

MCConstraints ==
  {Constrained(f, p, b) : f \in {g \in SUBSET Restrictions : Cardinality(g) <= 2},
                          p \in {"none", "local", "quality", "latency", "cost"},
                          b \in BOOLEAN}

MCContexts ==
  {[source_locale |-> s, target_locale |-> 1, request_bytes |-> n,
    require_streaming |-> (s = Absent) = (n = 1), require_document |-> FALSE,
    privacy_sensitive |-> (s = Absent) # (n = 1)] : s \in {Absent, 1}, n \in {1, 2}}
=============================================================================
