------------------------------- MODULE Routing -------------------------------
(***************************************************************************)
(* RoutingProfile::select (crates/linguamesh-domain/src/routing.rs): the   *)
(* candidates of a validated profile are filtered by the profile's         *)
(* constraints and the request's context, ranked in automatic mode, and    *)
(* one of them is selected.                                                *)
(*                                                                         *)
(* Identifiers are numbers in their sort order, sizes and estimates small  *)
(* numbers; I64Max stands for i64::MAX, where the scores saturate.         *)
(***************************************************************************)
EXTENDS Integers, Sequences, FiniteSets

CONSTANTS
  Candidates,   \* RoutingCandidate values with distinct provider and model
  Constraints,  \* RoutingConstraints values
  Contexts,     \* RoutingContext values
  MaxLength,    \* bound on the candidates of a profile (MAX_ROUTING_CANDIDATES)
  I64Max

\* An absent Option.
Absent == -1

Optional == Nat \cup {Absent}

Preferences == {"none", "local", "quality", "latency", "cost"}

ASSUME RoutingAssumption ==
  /\ I64Max \in Nat /\ MaxLength \in Nat
  /\ Candidates \subseteq
       [provider : Nat, model : Nat, local : BOOLEAN, streaming : BOOLEAN, document : BOOLEAN,
        capacity : Nat, quality : Nat, latency : Optional, cost : Optional,
        sources : SUBSET Nat, targets : SUBSET Nat]
  /\ \A c, d \in Candidates : c.provider = d.provider /\ c.model = d.model => c = d
  /\ \A k \in Constraints :
       /\ k.preference \in Preferences
       /\ k.minimum_quality_tier \in Optional /\ k.max_request_bytes \in Optional
  /\ \A x \in Contexts : x.request_bytes \in Nat

VARIABLES
  profile,   \* mode, candidates, constraints
  context,
  decision   \* the result of select, once there is one

vars == <<profile, context, decision>>

\* Sequences of different candidates, as validate demands.
CandidateLists ==
  {s \in UNION {[1..n -> Candidates] : n \in 1..MaxLength} :
     \A i, j \in 1..Len(s) : s[i] = s[j] => i = j}

Profiles ==
  [mode : {"manual", "ordered", "automatic"}, candidates : CandidateLists,
   constraints : Constraints]

Init ==
  /\ profile \in Profiles
  /\ context \in Contexts
  /\ decision = [result |-> "none"]

-----------------------------------------------------------------------------
\* Mutant: the profile's privacy flag is not consulted.
Sensitive_without_profile(k, x) == x.privacy_sensitive

\* Text that must stay on this machine.
Sensitive(k, x) == k.privacy_sensitive /\ x.privacy_sensitive

\* The reasons in the order in which the code looks for them.
Reasons ==
  <<"provider_not_allowed", "provider_denied", "model_not_allowed", "model_denied",
    "remote_disallowed", "privacy_remote_disallowed", "streaming_unsupported",
    "document_unsupported", "context_too_small", "request_too_large", "quality_too_low",
    "source_locale_unsupported", "target_locale_unsupported">>

Refuses(reason, k, c, x) ==
  \/ /\ reason = "provider_not_allowed"
     /\ k.provider_allowlist # {} /\ c.provider \notin k.provider_allowlist
  \/ reason = "provider_denied" /\ c.provider \in k.provider_denylist
  \/ /\ reason = "model_not_allowed"
     /\ k.model_allowlist # {} /\ c.model \notin k.model_allowlist
  \/ reason = "model_denied" /\ c.model \in k.model_denylist
  \/ /\ reason = "remote_disallowed"
     /\ ~c.local /\ (k.local_only \/ (~k.allow_remote /\ ~Sensitive(k, x)))
  \/ reason = "privacy_remote_disallowed" /\ ~c.local /\ Sensitive(k, x)
  \/ /\ reason = "streaming_unsupported"
     /\ ~c.streaming /\ (k.require_streaming \/ x.require_streaming)
  \/ /\ reason = "document_unsupported"
     /\ ~c.document /\ (k.require_document \/ x.require_document)
  \/ reason = "context_too_small" /\ x.request_bytes > c.capacity
  \/ /\ reason = "request_too_large"
     /\ k.max_request_bytes # Absent /\ x.request_bytes > k.max_request_bytes
  \/ /\ reason = "quality_too_low"
     /\ k.minimum_quality_tier # Absent /\ c.quality < k.minimum_quality_tier
  \/ /\ reason = "source_locale_unsupported"
     /\ x.source_locale # Absent /\ c.sources # {} /\ x.source_locale \notin c.sources
  \/ /\ reason = "target_locale_unsupported"
     /\ c.targets # {} /\ x.target_locale \notin c.targets

\* rejection_reason: the first reason that refuses the candidate.
rejection_reason(p, c, x) ==
  LET at == {i \in 1..Len(Reasons) : Refuses(Reasons[i], p.constraints, c, x)}
  IN IF at = {} THEN "none" ELSE Reasons[CHOOSE i \in at : \A j \in at : i <= j]

Flag(b) == IF b THEN 1 ELSE 0

\* Mutant: an unknown estimate counts as zero.
Estimate_unknown_is_zero(value) ==
  IF value = Absent THEN 0 ELSE IF value > I64Max THEN -I64Max ELSE -value

\* An estimate as a score: i64::MIN when unknown, saturating otherwise.
Estimate(value) ==
  IF value = Absent THEN -I64Max - 1 ELSE IF value > I64Max THEN -I64Max ELSE -value

score_components(p, c) ==
  CASE p.constraints.preference = "local"   -> <<Flag(c.local), c.quality>>
    [] p.constraints.preference = "quality" -> <<c.quality, Flag(c.local)>>
    [] p.constraints.preference = "latency" -> <<Estimate(c.latency), Flag(c.local)>>
    [] p.constraints.preference = "cost"    -> <<Estimate(c.cost), Flag(c.local)>>
    [] p.constraints.preference = "none"    -> <<Flag(c.local)>>

\* Lexicographic order of sequences of the same length.
Less(a, b) ==
  \E i \in 1..Len(a) : a[i] < b[i] /\ \A j \in 1..(i - 1) : a[j] = b[j]

\* key: provider and model.
Key(c) == <<c.provider, c.model>>

\* Mutant: candidates with equal scores stay in the order they came in.
RanksBefore_without_key(p, c, d) == Less(score_components(p, d), score_components(p, c))

\* The comparison of sort_by: higher scores first, then the key.
RanksBefore(p, c, d) ==
  \/ Less(score_components(p, d), score_components(p, c))
  \/ score_components(p, c) = score_components(p, d) /\ Less(Key(c), Key(d))

\* The fallback chain, in the modes that have one.
FallbackOrder(p, eligible) ==
  IF p.constraints.explicit_fallback_allowed /\ p.mode # "manual" THEN Tail(eligible) ELSE <<>>

\* The places in the profile of the candidates that nothing refuses.
Kept(p, x) == {i \in 1..Len(p.candidates) : rejection_reason(p, p.candidates[i], x) = "none"}

\* The candidate of place i comes before that of place j: sort_by is stable,
\* and only the automatic mode sorts.
Before(p, i, j) ==
  LET c == p.candidates[i]
      d == p.candidates[j]
  IN IF p.mode = "automatic" THEN RanksBefore(p, c, d) \/ (~RanksBefore(p, d, c) /\ i < j)
     ELSE i < j

\* The place in S of the n-th candidate, as a set.
AtRank(p, S, n) == {i \in S : Cardinality({j \in S : j = i \/ Before(p, j, i)}) = n}

\* The candidates of the places kept, in that order.
Eligible(p, kept) ==
  [n \in 1..Cardinality(kept) |-> p.candidates[CHOOSE i \in AtRank(p, kept, n) : TRUE]]

\* select, with what it returns; the refused candidates by their places.
Selected(p, x) ==
  LET kept     == Kept(p, x)
      eligible == Eligible(p, kept)
      rejected == [i \in (1..Len(p.candidates)) \ kept |->
                     rejection_reason(p, p.candidates[i], x)]
  IN IF kept = {} THEN [result |-> "no_eligible_candidates", rejected |-> rejected]
     ELSE [result |-> "selected", selected |-> eligible[1], eligible |-> eligible,
           rejected |-> rejected, fallback |-> FallbackOrder(p, eligible)]

select ==
  /\ decision.result = "none"
  /\ decision' = Selected(profile, context)
  /\ UNCHANGED <<profile, context>>

Next == select

Spec == Init /\ [][Next]_vars

-----------------------------------------------------------------------------
(* Properties.                                                             *)

Elements(s) == {s[i] : i \in 1..Len(s)}

Decided == decision.result = "selected"

\* What a candidate must satisfy, whatever the order of the checks.
Admissible(c) ==
  LET k == profile.constraints IN
  /\ k.provider_allowlist = {} \/ c.provider \in k.provider_allowlist
  /\ k.model_allowlist = {} \/ c.model \in k.model_allowlist
  /\ c.provider \notin k.provider_denylist /\ c.model \notin k.model_denylist
  /\ c.local \/ (~k.local_only /\ k.allow_remote
                 /\ ~(k.privacy_sensitive /\ context.privacy_sensitive))
  /\ c.streaming \/ (~k.require_streaming /\ ~context.require_streaming)
  /\ c.document \/ (~k.require_document /\ ~context.require_document)
  /\ context.request_bytes <= c.capacity
  /\ k.max_request_bytes \in {Absent} \/ context.request_bytes <= k.max_request_bytes
  /\ k.minimum_quality_tier <= c.quality
  /\ context.source_locale = Absent \/ c.sources = {} \/ context.source_locale \in c.sources
  /\ c.targets = {} \/ context.target_locale \in c.targets

\* Filtering fails closed and is complete: exactly the admissible candidates
\* are eligible, so neither the selected candidate nor a fallback ever breaks a
\* constraint, and an error means that there was no admissible one.
FailClosed ==
  decision.result # "none" =>
    {c \in Elements(profile.candidates) : Admissible(c)} =
      IF Decided THEN Elements(decision.eligible) ELSE {}

\* An automatic decision does not depend on the order in which the profile
\* lists its candidates.
OrderIndependent ==
  Decided /\ profile.mode = "automatic" =>
    \A s \in CandidateLists : Elements(s) = Elements(profile.candidates) =>
      Selected([profile EXCEPT !.candidates = s], context).eligible = decision.eligible

\* A candidate with a lower estimate comes before one whose estimate is higher
\* or unknown, up to the value at which scores saturate.
LowerEstimateFirst ==
  Decided /\ profile.mode = "automatic" /\ profile.constraints.preference \in {"latency", "cost"} =>
    LET Value(c) == IF profile.constraints.preference = "latency" THEN c.latency ELSE c.cost
        e == decision.eligible
    IN \A i, j \in 1..Len(e) :
         /\ Value(e[i]) # Absent /\ Value(e[i]) < I64Max
         /\ Value(e[j]) = Absent \/ Value(e[j]) > Value(e[i])
         => i < j
=============================================================================
