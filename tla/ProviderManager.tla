--------------------------- MODULE ProviderManager ---------------------------
(***************************************************************************)
(* ProviderManager and its host-secret broker                              *)
(* (crates/linguamesh-application/src/lib.rs): connecting a profile asks   *)
(* the host for up to four secrets one after the other, builds an adapter  *)
(* session, lists its models and only then replaces the active session.    *)
(*                                                                         *)
(* connect and disconnect take the manager exclusively, so attempts follow *)
(* one another; what interleaves with an attempt is its cancellation, the  *)
(* host's side of the secret channel and the dropping of the future.  A    *)
(* request of an attempt that is gone stays in the channel.                *)
(***************************************************************************)
EXTENDS Naturals, Sequences, FiniteSets

CONSTANTS
  Attempts,  \* connect calls, each with a profile of its own
  None,      \* no active session
  Capacity,  \* capacity given to host_secret_channel
  MaxRefs    \* secret references of a profile (4 in the code)

ASSUME ManagerAssumption ==
  /\ None \notin Attempts
  /\ Capacity \in Nat \ {0}
  /\ MaxRefs \in Nat

VARIABLES
  refs,       \* how many secret references the attempt's profile has
  manual,     \* attempts whose profile names a model
  pc,         \* the connect calls
  stage,      \* secrets resolved so far
  cancelled,  \* cancelled tokens
  channel,    \* queued SecretRequestLeases
  held,       \* leases the host has received
  answer,     \* resolution of the request the attempt is waiting for
  listening,  \* the host has not dropped HostSecretRequests
  active,     \* ProviderManager.active
  open,       \* sessions built and not yet closed or dropped
  granted,    \* history: requests the host answered with a secret
  before      \* history: the active session when the attempt began

vars == <<refs, manual, pc, stage, cancelled, channel, held, answer, listening,
          active, open, granted, before>>

profileVars == <<refs, manual>>
brokerVars  == <<channel, held, answer, listening, granted>>
sessionVars == <<active, open>>

Leases      == Attempts \X (1..MaxRefs)
Resolutions == {"provided", "unavailable", "secure_storage_unavailable", "lost"}
Failures    == {"invalid_configuration", "cancelled", "secret_unavailable",
                "secure_storage_unavailable", "list_failed", "model_unavailable", "dropped"}
Running     == {"next", "wait", "build", "list"}

TypeOK ==
  /\ refs \in [Attempts -> 0..MaxRefs] /\ manual \subseteq Attempts
  /\ pc \in [Attempts -> {"idle", "ok"} \cup Running \cup Failures]
  /\ stage \in [Attempts -> 0..MaxRefs]
  /\ cancelled \subseteq Attempts
  /\ channel \in Seq(Leases) /\ Len(channel) <= Capacity
  /\ held \subseteq Leases /\ granted \subseteq Leases
  /\ answer \in [Attempts -> Resolutions \cup {"none"}]
  /\ listening \in BOOLEAN
  /\ active \in Attempts \cup {None}
  /\ open \subseteq Attempts
  /\ before \in [Attempts -> Attempts \cup {None}]

Init ==
  /\ refs \in [Attempts -> 0..MaxRefs] /\ manual \in SUBSET Attempts
  /\ pc = [c \in Attempts |-> "idle"]
  /\ stage = [c \in Attempts |-> 0]
  /\ cancelled = {}
  /\ channel = <<>> /\ held = {} /\ listening = TRUE /\ granted = {}
  /\ answer = [c \in Attempts |-> "none"]
  /\ active = None /\ open = {}
  /\ before = [c \in Attempts |-> None]

-----------------------------------------------------------------------------
Goto(c, label) == pc' = [pc EXCEPT ![c] = label]

Idle == \A c \in Attempts : pc[c] \notin Running

\* The request an attempt is waiting for; is_active of a lease: its receiver
\* still exists.
Request(c)  == <<c, stage[c] + 1>>
IsActive(l) == pc[l[1]] = "wait" /\ Request(l[1]) = l

-----------------------------------------------------------------------------
(* The attempt.                                                            *)

\* Mutant: the old session is given up before the new one is known to work.
connect_disconnects_first(c) ==
  /\ pc[c] = "idle" /\ Idle
  /\ \E label \in {"next", "invalid_configuration"} : Goto(c, label)
  /\ before' = [before EXCEPT ![c] = active]
  /\ active' = None /\ open' = open \ {active}
  /\ UNCHANGED <<profileVars, stage, cancelled, brokerVars>>

\* Disabled profiles, unknown adapters, unusable endpoints and missing manual
\* models are refused before any secret is requested.
connect(c) ==
  /\ pc[c] = "idle" /\ Idle
  /\ \E label \in {"next", "invalid_configuration"} : Goto(c, label)
  /\ before' = [before EXCEPT ![c] = active]
  /\ UNCHANGED <<profileVars, stage, cancelled, brokerVars, sessionVars>>

\* Mutant: the token is not watched while the request waits for its place.
resolve_send_waits(c) ==
  /\ pc[c] = "next" /\ stage[c] < refs[c]
  /\ \/ ~listening /\ Goto(c, "secret_unavailable") /\ UNCHANGED channel
     \/ /\ listening /\ Len(channel) < Capacity
        /\ channel' = Append(channel, Request(c))
        /\ Goto(c, "wait")
  /\ answer' = [answer EXCEPT ![c] = "none"]
  /\ UNCHANGED <<profileVars, stage, cancelled, held, listening, granted, sessionVars, before>>

\* resolve, first select: cancellation, then a place in the bounded channel; a
\* host that has gone makes the secret unavailable.
resolve_send(c) ==
  /\ pc[c] = "next" /\ stage[c] < refs[c]
  /\ \/ c \in cancelled /\ Goto(c, "cancelled") /\ UNCHANGED channel
     \/ c \notin cancelled /\ ~listening /\ Goto(c, "secret_unavailable") /\ UNCHANGED channel
     \/ /\ c \notin cancelled /\ listening /\ Len(channel) < Capacity
        /\ channel' = Append(channel, Request(c))
        /\ Goto(c, "wait")
  /\ answer' = [answer EXCEPT ![c] = "none"]
  /\ UNCHANGED <<profileVars, stage, cancelled, held, listening, granted, sessionVars, before>>

\* Mutant: a secret the host does not have is left out.
resolve_receive_optional(c) ==
  /\ pc[c] = "wait"
  /\ \/ c \in cancelled /\ Goto(c, "cancelled") /\ UNCHANGED stage
     \/ /\ c \notin cancelled /\ answer[c] # "none"
        /\ Goto(c, "next") /\ stage' = [stage EXCEPT ![c] = @ + 1]
  /\ UNCHANGED <<profileVars, cancelled, brokerVars, sessionVars, before>>

\* resolve, second select; a client certificate identity, which comes last, is
\* also parsed.
resolve_receive(c) ==
  /\ pc[c] = "wait"
  /\ \/ c \in cancelled /\ Goto(c, "cancelled") /\ UNCHANGED stage
     \/ /\ c \notin cancelled /\ answer[c] = "provided"
        /\ \/ Goto(c, "next") /\ stage' = [stage EXCEPT ![c] = @ + 1]
           \/ stage[c] + 1 = refs[c] /\ Goto(c, "invalid_configuration") /\ UNCHANGED stage
     \/ /\ c \notin cancelled /\ answer[c] \in {"unavailable", "lost"}
        /\ Goto(c, "secret_unavailable") /\ UNCHANGED stage
     \/ /\ c \notin cancelled /\ answer[c] = "secure_storage_unavailable"
        /\ Goto(c, "secure_storage_unavailable") /\ UNCHANGED stage
  /\ UNCHANGED <<profileVars, cancelled, brokerVars, sessionVars, before>>

\* All secrets are there: a last look at the token, then the adapter.
secrets_resolved(c) ==
  /\ pc[c] = "next" /\ stage[c] = refs[c]
  /\ Goto(c, IF c \in cancelled THEN "cancelled" ELSE "build")
  /\ UNCHANGED <<profileVars, stage, cancelled, brokerVars, sessionVars, before>>

build_provider(c) ==
  /\ pc[c] = "build"
  /\ \/ Goto(c, "list") /\ open' = open \cup {c}
     \/ Goto(c, "invalid_configuration") /\ UNCHANGED open
  /\ UNCHANGED <<profileVars, stage, cancelled, brokerVars, active, before>>

\* The candidate is dropped with the error; the active session stays.
list_models_fails(c) ==
  /\ pc[c] = "list"
  /\ \/ c \in cancelled /\ Goto(c, "cancelled")
     \/ c \notin cancelled /\ Goto(c, "list_failed")
     \/ c \notin cancelled /\ c \notin manual /\ Goto(c, "model_unavailable")
  /\ open' = open \ {c}
  /\ UNCHANGED <<profileVars, stage, cancelled, brokerVars, active, before>>

\* Mutant: the replaced session is forgotten, not closed.
list_models_keeps_old(c) ==
  /\ pc[c] = "list" /\ c \notin cancelled
  /\ Goto(c, "ok")
  /\ active' = c
  /\ UNCHANGED <<profileVars, stage, cancelled, brokerVars, open, before>>

\* Models were listed, or the profile's own model stands in for an empty or
\* unavailable list: the session replaces the active one, whose drop closes it.
list_models(c) ==
  /\ pc[c] = "list" /\ c \notin cancelled
  /\ Goto(c, "ok")
  /\ open' = open \ {active}
  /\ active' = c
  /\ UNCHANGED <<profileVars, stage, cancelled, brokerVars, before>>

\* The future is dropped at an await, and all it holds with it.
drop_connect(c) ==
  /\ pc[c] \in {"next", "wait", "list"}
  /\ Goto(c, "dropped")
  /\ open' = open \ {c}
  /\ UNCHANGED <<profileVars, stage, cancelled, brokerVars, active, before>>

cancel(c) ==
  /\ pc[c] \in Running
  /\ cancelled' = cancelled \cup {c}
  /\ UNCHANGED <<profileVars, pc, stage, brokerVars, sessionVars, before>>

disconnect ==
  /\ Idle /\ active # None
  /\ active' = None
  /\ open' = open \ {active}
  /\ UNCHANGED <<profileVars, pc, stage, cancelled, brokerVars, before>>

-----------------------------------------------------------------------------
(* The host's side of the channel.                                         *)

\* Mutant: a request that was given up ends the host's loop.
recv_stops ==
  /\ listening /\ channel # <<>>
  /\ IsActive(Head(channel))
  /\ channel' = Tail(channel)
  /\ held' = held \cup {Head(channel)}
  /\ UNCHANGED <<profileVars, pc, stage, cancelled, answer, listening, granted, sessionVars, before>>

\* HostSecretRequests::recv: a request nobody waits for any more is discarded.
recv ==
  /\ listening /\ channel # <<>>
  /\ channel' = Tail(channel)
  /\ held' = IF IsActive(Head(channel)) THEN held \cup {Head(channel)} ELSE held
  /\ UNCHANGED <<profileVars, pc, stage, cancelled, answer, listening, granted, sessionVars, before>>

\* respond, or a lease dropped without an answer: it reaches the attempt that
\* still waits for exactly this request, and nobody otherwise.
respond(l, r) ==
  /\ l \in held
  /\ held' = held \ {l}
  /\ answer' = IF IsActive(l) THEN [answer EXCEPT ![l[1]] = r] ELSE answer
  /\ granted' = IF r = "provided" THEN granted \cup {l} ELSE granted
  /\ UNCHANGED <<profileVars, pc, stage, cancelled, channel, listening, sessionVars, before>>

\* The host drops HostSecretRequests; queued leases are dropped with it.
stop_listening ==
  /\ listening
  /\ listening' = FALSE
  /\ channel' = <<>>
  /\ answer' = [c \in Attempts |->
       IF \E i \in 1..Len(channel) : channel[i][1] = c /\ IsActive(channel[i]) THEN "lost" ELSE answer[c]]
  /\ UNCHANGED <<profileVars, pc, stage, cancelled, held, granted, sessionVars, before>>

-----------------------------------------------------------------------------
Connect(c) ==
  \/ resolve_send(c) \/ resolve_receive(c) \/ secrets_resolved(c)
  \/ build_provider(c) \/ list_models_fails(c) \/ list_models(c)

Host ==
  \/ recv \/ stop_listening
  \/ \E l \in Leases, r \in Resolutions : respond(l, r)

\* Every attempt has been made.
Finished == Idle /\ (\A c \in Attempts : pc[c] # "idle") /\ UNCHANGED vars

Next ==
  \/ \E c \in Attempts : connect(c) \/ Connect(c) \/ drop_connect(c) \/ cancel(c)
  \/ disconnect \/ Host \/ Finished

Spec == Init /\ [][Next]_vars

\* The runtime polls the attempt and the request timeout ends the listing; of
\* the host, which may stop at any point, nothing is assumed.
Fairness == \A c \in Attempts : WF_vars(Connect(c))

FairSpec == Spec /\ Fairness

-----------------------------------------------------------------------------
(* Properties.                                                             *)

\* A failed, cancelled or abandoned switch leaves the session that was active
\* when it began active and open.
FailedSwitchKeepsActive ==
  [][\A c \in Attempts : pc[c] \in Running /\ pc'[c] \in Failures =>
       active' = before[c] /\ (before[c] # None => before[c] \in open')]_vars

\* Besides the active session only the candidate of a running attempt holds a
\* credential: no path through connect or disconnect leaves a session behind, and
\* the channel of requests stays within its capacity.
OneOpenSession ==
  TypeOK /\ \A c \in open : c = active \/ pc[c] = "list"

\* The active session was built from secrets the host granted to its attempt,
\* one for each reference: a refusal, a lost request or a dropped channel in
\* the middle of several secrets never lets the attempt go on without one.
ActiveIsGranted ==
  active # None => \A k \in 1..refs[active] : <<active, k>> \in granted

\* A cancelled attempt ends without any help of the host: whether it waits for
\* a place in the channel, full of requests of attempts that are gone, for an
\* answer that never comes (neither wait has a timeout) or for the listing.
CancelledAttemptEnds ==
  \A c \in Attempts : pc[c] \in Running /\ c \in cancelled ~> pc[c] \notin Running

\* The host, as long as it listens, receives requests and answers or drops
\* what it received.
HostKeepsServing ==
  WF_vars(recv) /\ \A l \in Leases : WF_vars(\E r \in Resolutions : respond(l, r))

\* With such a host every attempt ends, cancelled or not, although requests of
\* attempts that are gone fill the channel.
EveryAttemptEnds ==
  HostKeepsServing => \A c \in Attempts : pc[c] \in Running ~> pc[c] \notin Running
=============================================================================
