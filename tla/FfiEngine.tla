----------------------------- MODULE FfiEngine -----------------------------
(***************************************************************************)
(* One engine handle of the C ABI (crates/linguamesh-ffi/src/lib.rs): the  *)
(* operation slot `active', the cancellation tokens, the host-secret       *)
(* exchange, the Tokio tasks an accepted submission starts, the event      *)
(* queue the host polls, and shutdown and destruction of the handle.       *)
(*                                                                         *)
(* A submission o goes through                                             *)
(*   call[o]    the host thread inside lm_engine_submit,                   *)
(*   req[o]     request_task, which forwards secret requests to the host,  *)
(*   run[o]     the task that carries the operation to its terminal event: *)
(*              run_host_secret_translation followed by forward_events for *)
(*              a command with a secret_ref, forward_events alone without, *)
(*   worker[o]  the task spawned by TranslationEngine::translate.          *)
(*                                                                         *)
(* A Mutex critical section, an atomic store and a channel operation are   *)
(* one step each, and the steps of different threads interleave; the load  *)
(* of `shutdown' at the head of a call is one step with what follows it    *)
(* where the call takes no decision in between.                            *)
(***************************************************************************)
EXTENDS Naturals, Sequences, FiniteSets

CONSTANTS
  Ops,            \* submissions the host may make
  SecretOps,      \* those whose command carries a secret_ref
  OpIds,          \* operation identifiers the host may choose
  OpId,           \* the identifier each submission carries
  NoOp,           \* the empty operation slot
  QueueCapacity,  \* EVENT_QUEUE_CAPACITY of the ABI (64 in the code)
  EventCapacity,  \* EVENT_CAPACITY of the engine channel (32 in the code)
  MaxDeltas       \* bound on text deltas per operation

ASSUME FfiAssumption ==
  /\ SecretOps \subseteq Ops
  /\ OpId \in [Ops -> OpIds]
  /\ NoOp \notin Ops
  /\ QueueCapacity \in Nat \ {0}
  /\ EventCapacity \in Nat \ {0}
  /\ MaxDeltas \in Nat

VARIABLES
  registered,   \* the handle is in ENGINE_REGISTRY
  shutdown,     \* LmEngine.shutdown
  alive,        \* the LmEngine value, and with it its runtime, still exists
  stopCall,     \* the host thread inside lm_engine_shutdown or _destroy
  active,       \* owner of the slot LmEngine.active, or NoOp
  activeToken,  \* which of the owner's tokens the slot holds
  cancelled,    \* cancelled tokens, as <<operation, token>>
  call, req, run, worker,
  lease,        \* where the response sender of the operation's secret is
  answer,       \* the resolution sent through it
  outcome,      \* the error broker.resolve or the adapter returned
  chan,         \* events between worker and forward_events
  nextSeq,      \* sequence the worker gives its next event
  log,          \* every event ever put in the ABI queue, in queue order
  polled,       \* how many of them the host has received
  response,     \* the host thread inside lm_engine_send_host_response
  asked         \* history: operations whose cancellation was requested

vars == <<registered, shutdown, alive, stopCall, active, activeToken, cancelled,
          call, req, run, worker, lease, answer, outcome, chan, nextSeq, log,
          polled, response, asked>>

hostVars  == <<registered, shutdown, alive, stopCall>>
slotVars  == <<active, activeToken, cancelled, asked>>
leaseVars == <<lease, answer, response>>
eventVars == <<log, polled>>
workVars  == <<worker, chan, nextSeq>>

Tokens      == {"host", "engine"}
Resolutions == {"provided", "unavailable", "secure_storage_unavailable"}
Errors      == {"cancelled", "secret_unavailable", "secure_storage_unavailable",
                "invalid_endpoint"}
Terminals   == {"completed", "cancelled", "failed"}
Types       == {"secret_required", "started", "text_delta"} \cup Terminals
Events      == [op : Ops, type : Types, seq : Nat]

Returned == {"ok", "busy", "shutdown", "invalid_argument"}
CallPc   == {"idle", "entered", "checked"} \cup Returned
ReqPc    == {"none", "recv", "leased", "send", "done"}
RunPc    == {"none", "resolve", "wait", "resolved", "swap", "forward",
             "sweep", "failed", "clear", "release", "done"}
WorkerPc == {"none", "start", "open", "stream", "done"} \cup Terminals

TypeOK ==
  /\ registered \in BOOLEAN /\ shutdown \in BOOLEAN /\ alive \in BOOLEAN
  /\ stopCall \in {"idle", "unregistered", "flagged"}
  /\ active \in Ops \cup {NoOp}
  /\ activeToken \in Tokens
  /\ cancelled \subseteq Ops \X Tokens
  /\ call \in [Ops -> CallPc]
  /\ req \in [Ops -> ReqPc]
  /\ run \in [Ops -> RunPc]
  /\ worker \in [Ops -> WorkerPc]
  /\ lease \in [Ops -> {"none", "channel", "task", "map", "gone"}]
  /\ answer \in [Ops -> Resolutions \cup {"none"}]
  /\ outcome \in [Ops -> Errors \cup {"none"}]
  /\ chan \in [Ops -> Seq(Events)]
  /\ nextSeq \in [Ops -> Nat]
  /\ log \in Seq(Events)
  /\ polled \in Nat
  /\ response \in [Ops -> {"idle", "checked"}]
  /\ asked \subseteq Ops

Init ==
  /\ registered = TRUE /\ shutdown = FALSE /\ alive = TRUE /\ stopCall = "idle"
  /\ active = NoOp /\ activeToken = "host" /\ cancelled = {} /\ asked = {}
  /\ call = [o \in Ops |-> "idle"]
  /\ req = [o \in Ops |-> "none"]
  /\ run = [o \in Ops |-> "none"]
  /\ worker = [o \in Ops |-> "none"]
  /\ lease = [o \in Ops |-> "none"]
  /\ answer = [o \in Ops |-> "none"]
  /\ response = [o \in Ops |-> "idle"]
  /\ outcome = [o \in Ops |-> "none"]
  /\ chan = [o \in Ops |-> <<>>]
  /\ nextSeq = [o \in Ops |-> 0]
  /\ log = <<>> /\ polled = 0

-----------------------------------------------------------------------------
(* Helpers.                                                                *)

Event(o, type, seq) == [op |-> o, type |-> type, seq |-> seq]

\* event_sender.send: waits while the bounded queue is full.
SendEvent(e) ==
  /\ Len(log) - polled < QueueCapacity
  /\ log' = Append(log, e)
  /\ UNCHANGED polled

\* The response receiver lives as long as broker.resolve is running.
ReceiverAlive(o) == run[o] \in {"resolve", "wait"}

\* Every HostSecretBroker clone of o has been dropped.
BrokerDropped(o) == call[o] = "busy" \/ run[o] = "done"

\* Cancels the token in the slot, if an operation owns it.
CancelActive ==
  /\ cancelled' = cancelled \cup
       (IF active = NoOp THEN {} ELSE {<<active, activeToken>>})
  /\ asked' = asked \cup (IF active = NoOp THEN {} ELSE {active})

\* clear_active, also inlined at the end of forward_events: an owner is
\* recognised by its operation_id, which the host chose.
clear_active(o) ==
  active' = IF active # NoOp /\ OpId[active] = OpId[o] THEN NoOp ELSE active

-----------------------------------------------------------------------------
(* Host threads: lm_engine_submit.                                         *)

Return(o, code) == call' = [call EXCEPT ![o] = code]

\* decode_protocol_input: the handle is looked up and shutdown is read.
lm_engine_submit(o) ==
  /\ call[o] = "idle"
  /\ Return(o, IF ~registered THEN "invalid_argument"
               ELSE IF shutdown THEN "shutdown" ELSE "entered")
  /\ UNCHANGED <<hostVars, slotVars, leaseVars, eventVars, workVars, req, run, outcome>>

\* submit, or submit_with_host_secret after it, refuses the command, its
\* endpoint or its provider metadata without touching the slot.
submit_invalid(o) ==
  /\ call[o] \in {"entered", "checked"}
  /\ Return(o, "invalid_argument")
  /\ UNCHANGED <<hostVars, slotVars, leaseVars, eventVars, workVars, req, run, outcome>>

\* Mutant: shutdown is not read again once the slot is locked.
submit_without_shutdown_check(o) ==
  /\ call[o] = "entered"
  /\ \/ /\ \/ active # NoOp /\ Return(o, "busy")
           \/ active = NoOp /\ o \in SecretOps /\ Return(o, "checked")
        /\ UNCHANGED <<slotVars, workVars, run>>
     \/ /\ active = NoOp /\ o \notin SecretOps
        /\ Return(o, "ok")
        /\ active' = o /\ activeToken' = "engine"
        /\ worker' = [worker EXCEPT ![o] = "start"]
        /\ run' = [run EXCEPT ![o] = "forward"]
        /\ UNCHANGED <<cancelled, asked, chan, nextSeq>>
  /\ UNCHANGED <<hostVars, leaseVars, eventVars, req, outcome>>

\* submit, with the slot locked: shutdown and busy checks; without a secret
\* the engine task is spawned and the slot taken before the lock is dropped,
\* with a secret the lock is dropped and the slot is still free.
submit(o) ==
  /\ call[o] = "entered"
  /\ \/ /\ \/ shutdown /\ Return(o, "shutdown")
           \/ ~shutdown /\ active # NoOp /\ Return(o, "busy")
           \/ ~shutdown /\ active = NoOp /\ o \in SecretOps /\ Return(o, "checked")
        /\ UNCHANGED <<slotVars, workVars, run>>
     \/ /\ ~shutdown /\ active = NoOp /\ o \notin SecretOps
        /\ Return(o, "ok")
        /\ active' = o /\ activeToken' = "engine"
        /\ worker' = [worker EXCEPT ![o] = "start"]
        /\ run' = [run EXCEPT ![o] = "forward"]
        /\ UNCHANGED <<cancelled, asked, chan, nextSeq>>
  /\ UNCHANGED <<hostVars, leaseVars, eventVars, req, outcome>>

\* Mutant: the slot is taken without looking whether it is still free.
submit_with_host_secret_unguarded(o) ==
  /\ call[o] = "checked"
  /\ req' = [req EXCEPT ![o] = "recv"]
  /\ Return(o, "ok")
  /\ active' = o /\ activeToken' = "host"
  /\ run' = [run EXCEPT ![o] = "resolve"]
  /\ UNCHANGED <<hostVars, leaseVars, eventVars, workVars, outcome, cancelled, asked>>

\* submit_with_host_secret: request_task is spawned, then the slot is locked
\* a second time; a busy slot refuses the call and drops its broker.
submit_with_host_secret(o) ==
  /\ call[o] = "checked"
  /\ req' = [req EXCEPT ![o] = "recv"]
  /\ \/ /\ active # NoOp
        /\ Return(o, "busy")
        /\ UNCHANGED <<slotVars, run>>
     \/ /\ active = NoOp
        /\ Return(o, "ok")
        /\ active' = o /\ activeToken' = "host"
        /\ run' = [run EXCEPT ![o] = "resolve"]
        /\ UNCHANGED <<cancelled, asked>>
  /\ UNCHANGED <<hostVars, leaseVars, eventVars, workVars, outcome>>

-----------------------------------------------------------------------------
(* Host threads: the other calls.                                          *)

\* lm_engine_cancel cancels the token the slot holds.
lm_engine_cancel ==
  /\ registered /\ ~shutdown
  /\ CancelActive
  /\ UNCHANGED <<hostVars, leaseVars, eventVars, workVars, active, activeToken,
                 call, req, run, outcome>>

\* lm_engine_poll_event: one event leaves the queue.
lm_engine_poll_event ==
  /\ registered /\ ~shutdown
  /\ polled < Len(log)
  /\ polled' = polled + 1
  /\ UNCHANGED <<hostVars, slotVars, leaseVars, workVars, call, req, run, outcome, log>>

\* The host knows the request_id of o once it has polled secret_required.
RequestKnown(o) ==
  \E i \in 1..polled : log[i].op = o /\ log[i].type = "secret_required"

\* send_host_response, first critical section: the envelope must name the
\* operation that owns the slot.
send_host_response(o) ==
  /\ response[o] = "idle"
  /\ registered /\ ~shutdown
  /\ RequestKnown(o)
  /\ active # NoOp /\ OpId[active] = OpId[o]
  /\ response' = [response EXCEPT ![o] = "checked"]
  /\ UNCHANGED <<hostVars, slotVars, eventVars, workVars, call, req, run, outcome,
                 lease, answer>>

\* Second critical section: the pending entry is removed and its one-shot
\* sender used; the send fails when broker.resolve has already returned.
respond(o, r) ==
  /\ response[o] = "checked"
  /\ response' = [response EXCEPT ![o] = "idle"]
  /\ IF lease[o] = "map"
       THEN /\ answer' = [answer EXCEPT ![o] = IF ReceiverAlive(o) THEN r ELSE @]
            /\ lease' = [lease EXCEPT ![o] = "gone"]
       ELSE UNCHANGED <<lease, answer>>
  /\ UNCHANGED <<hostVars, slotVars, eventVars, workVars, call, req, run, outcome>>

\* lm_engine_shutdown stores the flag ...
lm_engine_shutdown ==
  /\ stopCall = "idle" /\ registered
  /\ shutdown' = TRUE /\ stopCall' = "flagged"
  /\ UNCHANGED <<registered, alive, slotVars, leaseVars, eventVars, workVars,
                 call, req, run, outcome>>

\* ... lm_engine_destroy first removes the handle from the registry ...
lm_engine_destroy ==
  /\ stopCall = "idle" /\ registered
  /\ registered' = FALSE /\ stopCall' = "unregistered"
  /\ UNCHANGED <<shutdown, alive, slotVars, leaseVars, eventVars, workVars,
                 call, req, run, outcome>>

lm_engine_destroy_flag ==
  /\ stopCall = "unregistered"
  /\ shutdown' = TRUE /\ stopCall' = "flagged"
  /\ UNCHANGED <<registered, alive, slotVars, leaseVars, eventVars, workVars,
                 call, req, run, outcome>>

\* ... and both then cancel the token the slot holds.
stop_cancel ==
  /\ stopCall = "flagged"
  /\ CancelActive
  /\ stopCall' = "idle"
  /\ UNCHANGED <<registered, shutdown, alive, leaseVars, eventVars, workVars,
                 active, activeToken, call, req, run, outcome>>

\* The last Arc is dropped, and the runtime aborts its tasks: the handle is
\* unregistered and no host call is inside the engine.
drop_engine ==
  /\ alive /\ ~registered /\ stopCall = "idle"
  /\ \A o \in Ops : call[o] \notin {"entered", "checked"} /\ response[o] = "idle"
  /\ alive' = FALSE
  /\ UNCHANGED <<registered, shutdown, stopCall, slotVars, leaseVars, eventVars,
                 workVars, call, req, run, outcome>>

-----------------------------------------------------------------------------
(* request_task.                                                           *)

\* HostSecretRequests::recv hands out a lease whose receiver is still alive
\* and drops any other.
request_task_recv(o) ==
  /\ req[o] = "recv" /\ lease[o] = "channel"
  /\ IF ReceiverAlive(o)
       THEN /\ req' = [req EXCEPT ![o] = "leased"]
            /\ lease' = [lease EXCEPT ![o] = "task"]
       ELSE /\ lease' = [lease EXCEPT ![o] = "gone"]
            /\ UNCHANGED req
  /\ UNCHANGED <<hostVars, slotVars, eventVars, workVars, call, run, outcome,
                 answer, response>>

\* The lease is stored in pending_host_requests under its request_id.
request_task_insert(o) ==
  /\ req[o] = "leased"
  /\ req' = [req EXCEPT ![o] = "send"]
  /\ lease' = [lease EXCEPT ![o] = "map"]
  /\ UNCHANGED <<hostVars, slotVars, eventVars, workVars, call, run, outcome,
                 answer, response>>

\* The secret_required event, always sequence 0, enters the queue.
request_task_send(o) ==
  /\ req[o] = "send"
  /\ SendEvent(Event(o, "secret_required", 0))
  /\ req' = [req EXCEPT ![o] = "recv"]
  /\ UNCHANGED <<hostVars, slotVars, leaseVars, workVars, call, run, outcome>>

\* recv returns None once the broker is dropped and the channel is empty.
request_task_end(o) ==
  /\ req[o] = "recv" /\ lease[o] # "channel"
  /\ BrokerDropped(o)
  /\ req' = [req EXCEPT ![o] = "done"]
  /\ UNCHANGED <<hostVars, slotVars, leaseVars, eventVars, workVars, call, run, outcome>>

-----------------------------------------------------------------------------
(* run_host_secret_translation and forward_events.                         *)

Fail(o, error) ==
  /\ run' = [run EXCEPT ![o] = "failed"]
  /\ outcome' = [outcome EXCEPT ![o] = error]

HostCancelled(o) == <<o, "host">> \in cancelled

\* broker.resolve, first select: cancellation is preferred to queueing.
resolve_queue(o) ==
  /\ run[o] = "resolve"
  /\ IF HostCancelled(o)
       THEN Fail(o, "cancelled") /\ lease' = [lease EXCEPT ![o] = "gone"]
       ELSE /\ run' = [run EXCEPT ![o] = "wait"]
            /\ lease' = [lease EXCEPT ![o] = "channel"]
            /\ UNCHANGED outcome
  /\ UNCHANGED <<hostVars, slotVars, eventVars, workVars, call, req, answer, response>>

\* Mutant: a response that is already there wins over cancellation.
resolve_wait_unbiased(o) ==
  /\ run[o] = "wait"
  /\ \/ answer[o] = "provided"
        /\ run' = [run EXCEPT ![o] = "resolved"] /\ UNCHANGED outcome
     \/ answer[o] = "unavailable" /\ Fail(o, "secret_unavailable")
     \/ answer[o] = "secure_storage_unavailable" /\ Fail(o, "secure_storage_unavailable")
     \/ answer[o] = "none" /\ lease[o] = "gone" /\ Fail(o, "secret_unavailable")
     \/ HostCancelled(o) /\ Fail(o, "cancelled")
  /\ UNCHANGED <<hostVars, slotVars, leaseVars, eventVars, workVars, call, req>>

\* broker.resolve, second select: cancellation is preferred to the response;
\* a sender dropped without a response is an unavailable secret.
resolve_wait(o) ==
  /\ run[o] = "wait"
  /\ IF HostCancelled(o) THEN Fail(o, "cancelled")
     ELSE \/ answer[o] = "provided"
             /\ run' = [run EXCEPT ![o] = "resolved"] /\ UNCHANGED outcome
          \/ answer[o] = "unavailable" /\ Fail(o, "secret_unavailable")
          \/ answer[o] = "secure_storage_unavailable"
             /\ Fail(o, "secure_storage_unavailable")
          \/ answer[o] = "none" /\ lease[o] = "gone" /\ Fail(o, "secret_unavailable")
  /\ UNCHANGED <<hostVars, slotVars, leaseVars, eventVars, workVars, call, req>>

\* The adapter cannot be built with the secret.
build_provider_fails(o) ==
  /\ run[o] = "resolved"
  /\ Fail(o, "invalid_endpoint")
  /\ UNCHANGED <<hostVars, slotVars, leaseVars, eventVars, workVars, call, req>>

\* translate_with_sequence_offset(request, 1): the worker starts with a token
\* of its own.
start_translation(o) ==
  /\ run[o] = "resolved"
  /\ run' = [run EXCEPT ![o] = "swap"]
  /\ worker' = [worker EXCEPT ![o] = "start"]
  /\ nextSeq' = [nextSeq EXCEPT ![o] = 1]
  /\ UNCHANGED <<hostVars, slotVars, leaseVars, eventVars, chan, call, req, outcome>>

\* The slot's token is replaced by the worker's token.
install_operation_token(o) ==
  /\ run[o] = "swap"
  /\ run' = [run EXCEPT ![o] = "forward"]
  /\ IF active # NoOp /\ OpId[active] = OpId[o]
       THEN active' = o /\ activeToken' = "engine"
       ELSE UNCHANGED <<active, activeToken>>
  /\ UNCHANGED <<hostVars, leaseVars, eventVars, workVars, cancelled, asked,
                 call, req, outcome>>

\* forward_events moves one event of the engine channel to the ABI queue.
forward_events(o) ==
  /\ run[o] = "forward" /\ chan[o] # <<>>
  /\ SendEvent(Head(chan[o]))
  /\ chan' = [chan EXCEPT ![o] = Tail(@)]
  /\ UNCHANGED <<hostVars, slotVars, leaseVars, worker, nextSeq, call, req, run, outcome>>

\* Mutant: the slot is released while events are still in the channel.
forward_events_end_early(o) ==
  /\ run[o] = "forward" /\ worker[o] = "done"
  /\ clear_active(o)
  /\ run' = [run EXCEPT ![o] = IF o \in SecretOps THEN "sweep" ELSE "done"]
  /\ UNCHANGED <<hostVars, leaseVars, eventVars, workVars, activeToken, cancelled,
                 asked, call, req, outcome>>

\* Mutant: every operation sweeps pending_host_requests after its release.
forward_events_end_sweeps(o) ==
  /\ run[o] = "forward" /\ chan[o] = <<>> /\ worker[o] = "done"
  /\ clear_active(o)
  /\ run' = [run EXCEPT ![o] = "sweep"]
  /\ UNCHANGED <<hostVars, leaseVars, eventVars, workVars, activeToken, cancelled,
                 asked, call, req, outcome>>

\* The channel is closed and empty: forward_events releases the slot.
forward_events_end(o) ==
  /\ run[o] = "forward" /\ chan[o] = <<>> /\ worker[o] = "done"
  /\ clear_active(o)
  /\ run' = [run EXCEPT ![o] = IF o \in SecretOps THEN "sweep" ELSE "done"]
  /\ UNCHANGED <<hostVars, leaseVars, eventVars, workVars, activeToken, cancelled,
                 asked, call, req, outcome>>

\* pending_host_requests.clear() drops every lease in the map.
ClearPending == lease' = [p \in Ops |-> IF lease[p] = "map" THEN "gone" ELSE lease[p]]

\* After forward_events, run_host_secret_translation clears the map.
sweep_pending(o) ==
  /\ run[o] = "sweep"
  /\ ClearPending
  /\ run' = [run EXCEPT ![o] = "done"]
  /\ UNCHANGED <<hostVars, slotVars, eventVars, workVars, call, req, outcome,
                 answer, response>>

\* An error before the translation: the terminal event, sequence 1 ...
fail_send(o) ==
  /\ run[o] = "failed"
  /\ SendEvent(Event(o, IF outcome[o] = "cancelled" THEN "cancelled" ELSE "failed", 1))
  /\ run' = [run EXCEPT ![o] = "clear"]
  /\ UNCHANGED <<hostVars, slotVars, leaseVars, workVars, call, req, outcome>>

\* ... then the map is cleared ...
fail_clear_pending(o) ==
  /\ run[o] = "clear"
  /\ ClearPending
  /\ run' = [run EXCEPT ![o] = "release"]
  /\ UNCHANGED <<hostVars, slotVars, eventVars, workVars, call, req, outcome,
                 answer, response>>

\* Mutant: the failed operation keeps the slot.
fail_release_missing(o) ==
  /\ run[o] = "release"
  /\ run' = [run EXCEPT ![o] = "done"]
  /\ UNCHANGED <<hostVars, slotVars, leaseVars, eventVars, workVars, call, req, outcome>>

\* ... and the slot released.
fail_release(o) ==
  /\ run[o] = "release"
  /\ clear_active(o)
  /\ run' = [run EXCEPT ![o] = "done"]
  /\ UNCHANGED <<hostVars, leaseVars, eventVars, workVars, activeToken, cancelled,
                 asked, call, req, outcome>>

-----------------------------------------------------------------------------
(* The task of TranslationEngine::translate, as seen from its channel (its *)
(* provider side is module TranslationEngine).                             *)

EngineCancelled(o) == <<o, "engine">> \in cancelled

Emit(o, type) ==
  /\ Len(chan[o]) < EventCapacity
  /\ chan' = [chan EXCEPT ![o] = Append(@, Event(o, type, nextSeq[o]))]
  /\ nextSeq' = [nextSeq EXCEPT ![o] = @ + 1]

WorkerMoves(o, pc) ==
  /\ worker' = [worker EXCEPT ![o] = pc]
  /\ UNCHANGED <<hostVars, slotVars, leaseVars, eventVars, call, req, run, outcome>>

worker_started(o) ==
  /\ worker[o] = "start"
  /\ Emit(o, "started")
  /\ WorkerMoves(o, "open")

\* provider.translate_stream: the response stream, an error, or cancellation.
worker_open(o) ==
  /\ worker[o] = "open"
  /\ \E pc \in {"stream", "failed"} \cup (IF EngineCancelled(o) THEN {"cancelled"} ELSE {}) :
       WorkerMoves(o, pc)
  /\ UNCHANGED <<chan, nextSeq>>

worker_delta(o) ==
  /\ worker[o] = "stream"
  /\ nextSeq[o] <= MaxDeltas + (IF o \in SecretOps THEN 1 ELSE 0)
  /\ Emit(o, "text_delta")
  /\ WorkerMoves(o, "stream")

\* The stream ends: complete, with an error, or by cancellation.
worker_end(o) ==
  /\ worker[o] = "stream"
  /\ \E pc \in {"completed", "failed"} \cup (IF EngineCancelled(o) THEN {"cancelled"} ELSE {}) :
       WorkerMoves(o, pc)
  /\ UNCHANGED <<chan, nextSeq>>

\* Mutant: the task goes on after its terminal event.
worker_terminal_again(o) ==
  /\ worker[o] \in Terminals
  /\ Emit(o, worker[o])
  /\ \E pc \in {"stream", "done"} : WorkerMoves(o, pc)

\* The terminal event is sent and the sender dropped.
worker_terminal(o) ==
  /\ worker[o] \in Terminals
  /\ Emit(o, worker[o])
  /\ WorkerMoves(o, "done")

-----------------------------------------------------------------------------
RequestTask(o) ==
  \/ request_task_recv(o) \/ request_task_insert(o)
  \/ request_task_send(o) \/ request_task_end(o)

RunTask(o) ==
  \/ resolve_queue(o) \/ resolve_wait(o)
  \/ build_provider_fails(o) \/ start_translation(o) \/ install_operation_token(o)
  \/ forward_events(o) \/ forward_events_end(o) \/ sweep_pending(o)
  \/ fail_send(o) \/ fail_clear_pending(o) \/ fail_release(o)

Worker(o) ==
  \/ worker_started(o) \/ worker_open(o) \/ worker_delta(o)
  \/ worker_end(o) \/ worker_terminal(o)

SubmitCall(o) ==
  \/ lm_engine_submit(o) \/ submit_invalid(o)
  \/ submit(o) \/ submit_with_host_secret(o)

ResponseCall(o) ==
  \/ send_host_response(o)
  \/ \E r \in Resolutions : respond(o, r)

\* Destroyed: nothing is left to do.
Destroyed == ~alive /\ UNCHANGED vars

Next ==
  \/ alive /\ \E o \in Ops :
       \/ SubmitCall(o) \/ ResponseCall(o)
       \/ RequestTask(o) \/ RunTask(o) \/ Worker(o)
  \/ alive /\ (lm_engine_cancel \/ lm_engine_poll_event)
  \/ alive /\ (lm_engine_shutdown \/ lm_engine_destroy \/ lm_engine_destroy_flag \/ stop_cancel)
  \/ drop_engine
  \/ Destroyed

Spec == Init /\ [][Next]_vars

\* Tokio runs every task that can move, the provider's idle timeout ends a
\* silent stream, and the host polls and answers the requests it has seen.
Fairness ==
  /\ \A o \in Ops :
       /\ WF_vars(alive /\ RequestTask(o))
       /\ WF_vars(alive /\ RunTask(o))
       /\ WF_vars(alive /\ Worker(o))
       /\ WF_vars(alive /\ send_host_response(o))
       /\ WF_vars(alive /\ \E r \in Resolutions : respond(o, r))
       /\ WF_vars(alive /\ (submit(o) \/ submit_with_host_secret(o)))
  /\ WF_vars(alive /\ lm_engine_poll_event)

FairSpec == Spec /\ Fairness

-----------------------------------------------------------------------------
(* Properties.                                                             *)

\* The operation has a task between taking and releasing the slot.
InFlight(o) == run[o] \notin {"none", "sweep", "done"}

\* The slot and the tasks agree: an operation whose task still has events to
\* deliver owns the slot, so there is at most one, and the slot is never left
\* with an owner that has ended, which would make every later submission Busy.
SlotExclusion == \A o \in Ops : InFlight(o) <=> active = o

\* Where the translation events of o are in the queue, secret_required left out.
Positions(o) == {i \in 1..Len(log) : log[i].op = o /\ log[i].type # "secret_required"}

\* The n-th smallest of a set of positions, as a set.
AtRank(S, n) == {i \in S : Cardinality({j \in S : j <= i}) = n}

\* The translation events of o in queue order.
TranslationEvents(o) ==
  LET mine == Positions(o)
      Nth(n) == log[CHOOSE i \in AtRank(mine, n) : TRUE]
      Item(e) == [type |-> e.type, seq |-> e.seq]
  IN [n \in 1..Cardinality(mine) |-> Item(Nth(n))]

StopRequested(o) == \E t \in Tokens : <<o, t>> \in cancelled

\* What the host receives of one operation is an EventStream from 0, or from 1
\* behind a secret request, stopped by a cancelled token.
Stream(o) ==
  INSTANCE EventStream WITH Offset <- IF o \in SecretOps THEN 1 ELSE 0,
                            sent <- TranslationEvents(o), stop <- StopRequested(o)

\* Every operation implements the abstract event stream: no gap, no event
\* behind the terminal one, no `cancelled' nobody asked for.
StreamsImplemented ==
  /\ \A o \in Ops : Stream(o)!Init
  /\ [][\A o \in Ops : UNCHANGED <<TranslationEvents(o), StopRequested(o)>> \/ Stream(o)!Next]_vars

\* The streams of two operations share the queue without mixing: an event of
\* a translation enters it only when every other operation seen there has
\* already delivered its terminal event.
StreamsDoNotMix ==
  \A j \in 1..Len(log) : log[j].type # "secret_required" =>
    \A i \in 1..(j - 1) : log[i].op # log[j].op =>
      \E k \in 1..(j - 1) : log[k].op = log[i].op /\ log[k].type \in Terminals

\* lm_engine_cancel or lm_engine_shutdown while broker.resolve is running keeps
\* the operation from ever reaching the provider, whatever the host answers.
CancelledWaitNeverStarts ==
  \A o \in Ops :
    [](run[o] \in {"resolve", "wait"} /\ HostCancelled(o) => [](worker[o] = "none"))

\* An operation fails with secret_unavailable only because the host said so.
HostDecides ==
  \A o \in Ops : outcome[o] = "secret_unavailable" => answer[o] = "unavailable"

\* Once lm_engine_shutdown or lm_engine_destroy has returned, an operation
\* without a secret that still owns the slot is cancelled, whichever of its
\* steps the submitting thread was at.  (With a secret it need not be:
\* submit_with_host_secret does not read the flag again.)
StoppedIsCancelled ==
  shutdown /\ stopCall = "idle" /\ active \in Ops \ SecretOps =>
    <<active, activeToken>> \in cancelled

\* An operation whose cancellation was requested stays cancelled: the token
\* its current stage watches is a cancelled one.
CancelSticks ==
  \A o \in Ops : o \in asked /\ active = o => <<o, activeToken>> \in cancelled

\* Every accepted operation gives the slot back, unless the engine is stopped.
SlotIsReleased ==
  \A o \in Ops : active = o ~> active # o \/ shutdown \/ ~registered
=============================================================================
