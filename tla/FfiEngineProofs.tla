-------------------------- MODULE FfiEngineProofs --------------------------
(***************************************************************************)
(* Theorems about the C ABI engine handle, for every set of submissions,   *)
(* every choice of operation identifiers and every queue capacity.         *)
(***************************************************************************)
EXTENDS FfiEngine, FiniteSetTheorems, TLAPS

LEMMA TypeInit == Init => TypeOK
<1> SUFFICES ASSUME Init PROVE TypeOK
  OBVIOUS
<1>1. chan \in [Ops -> Seq(Events)] /\ nextSeq \in [Ops -> Nat] /\ log \in Seq(Events)
  BY DEF Init
<1>2. QED
  BY <1>1 DEF Init, TypeOK, Tokens, CallPc, Returned, ReqPc, RunPc, WorkerPc

LEMMA SubmitType ==
  ASSUME TypeOK, NEW o \in Ops, SubmitCall(o)
  PROVE  TypeOK'
<1> USE DEF TypeOK, hostVars, slotVars, leaseVars, eventVars, workVars,
        CallPc, Returned, ReqPc, RunPc, WorkerPc, Tokens, Return
<1>1. CASE lm_engine_submit(o)
  BY <1>1 DEF lm_engine_submit
<1>2. CASE submit_invalid(o)
  BY <1>2 DEF submit_invalid
<1>3. CASE submit(o)
  <2>1. /\ \E c \in {"shutdown", "busy", "checked", "ok"} : Return(o, c)
        /\ \/ UNCHANGED <<slotVars, workVars, run>>
           \/ /\ active' = o /\ activeToken' = "engine"
              /\ worker' = [worker EXCEPT ![o] = "start"]
              /\ run' = [run EXCEPT ![o] = "forward"]
              /\ UNCHANGED <<cancelled, asked, chan, nextSeq>>
        /\ UNCHANGED <<hostVars, leaseVars, eventVars, req, outcome>>
    BY <1>3, Zenon DEF submit
  <2>2. QED
    BY <2>1
<1>4. CASE submit_with_host_secret(o)
  <2>1. /\ \E c \in {"busy", "ok"} : Return(o, c)
        /\ req' = [req EXCEPT ![o] = "recv"]
        /\ \/ UNCHANGED <<slotVars, run>>
           \/ /\ active' = o /\ activeToken' = "host"
              /\ run' = [run EXCEPT ![o] = "resolve"]
              /\ UNCHANGED <<cancelled, asked>>
        /\ UNCHANGED <<hostVars, leaseVars, eventVars, workVars, outcome>>
    BY <1>4, Zenon DEF submit_with_host_secret
  <2>2. call' \in [Ops -> CallPc] /\ req' \in [Ops -> ReqPc]
    BY <2>1
  <2>3. /\ active' \in Ops \cup {NoOp} /\ activeToken' \in Tokens
        /\ cancelled' = cancelled /\ asked' = asked /\ run' \in [Ops -> RunPc]
    BY <2>1, ZenonT(40)
  <2>4. QED
    BY <2>1, <2>2, <2>3
<1>5. QED
  BY <1>1, <1>2, <1>3, <1>4 DEF SubmitCall

LEMMA HostCallType ==
  ASSUME TypeOK,
         \/ lm_engine_cancel \/ lm_engine_poll_event
         \/ lm_engine_shutdown \/ lm_engine_destroy \/ lm_engine_destroy_flag \/ stop_cancel
         \/ drop_engine
  PROVE  TypeOK'
<1> USE DEF TypeOK, hostVars, slotVars, leaseVars, eventVars, workVars
<1>1. ASSUME CancelActive PROVE cancelled' \subseteq Ops \X Tokens /\ asked' \subseteq Ops
  BY <1>1 DEF CancelActive
<1>2. CASE lm_engine_cancel
  BY <1>1, <1>2 DEF lm_engine_cancel
<1>3. CASE lm_engine_poll_event
  BY <1>3 DEF lm_engine_poll_event
<1>4. CASE lm_engine_shutdown
  BY <1>4 DEF lm_engine_shutdown
<1>5. CASE lm_engine_destroy
  BY <1>5 DEF lm_engine_destroy
<1>6. CASE lm_engine_destroy_flag
  BY <1>6 DEF lm_engine_destroy_flag
<1>7. CASE stop_cancel
  BY <1>1, <1>7 DEF stop_cancel
<1>8. CASE drop_engine
  BY <1>8 DEF drop_engine
<1>9. QED
  BY <1>2, <1>3, <1>4, <1>5, <1>6, <1>7, <1>8

LEMMA ResponseType ==
  ASSUME TypeOK, NEW o \in Ops, ResponseCall(o)
  PROVE  TypeOK'
<1> USE DEF TypeOK, hostVars, slotVars, leaseVars, eventVars, workVars, Resolutions
<1>1. CASE send_host_response(o)
  BY <1>1 DEF send_host_response
<1>2. ASSUME NEW r \in Resolutions, respond(o, r) PROVE TypeOK'
  BY <1>2, ZenonT(40) DEF respond
<1>3. QED
  BY <1>1, <1>2 DEF ResponseCall

LEMMA SendEventType ==
  ASSUME log \in Seq(Events), polled \in Nat, NEW e \in Events, SendEvent(e)
  PROVE  log' \in Seq(Events) /\ polled' \in Nat
  BY DEF SendEvent

LEMMA EventIsEvent ==
  ASSUME NEW o \in Ops, NEW type \in Types, NEW seq \in Nat
  PROVE  Event(o, type, seq) \in Events
  BY DEF Event, Events

LEMMA RequestTaskType ==
  ASSUME TypeOK, NEW o \in Ops, RequestTask(o)
  PROVE  TypeOK'
<1> USE DEF TypeOK, hostVars, slotVars, leaseVars, eventVars, workVars, ReqPc
<1>1. CASE request_task_recv(o)
  BY <1>1 DEF request_task_recv
<1>2. CASE request_task_insert(o)
  BY <1>2 DEF request_task_insert
<1>3. CASE request_task_send(o)
  <2>1. Event(o, "secret_required", 0) \in Events
    BY EventIsEvent DEF Types
  <2>2. log' \in Seq(Events) /\ polled' \in Nat
    BY <1>3, <2>1, SendEventType DEF request_task_send
  <2>3. QED
    BY <1>3, <2>2 DEF request_task_send
<1>4. CASE request_task_end(o)
  BY <1>4 DEF request_task_end
<1>5. QED
  BY <1>1, <1>2, <1>3, <1>4 DEF RequestTask

LEMMA RunTaskType ==
  ASSUME TypeOK, NEW o \in Ops, RunTask(o)
  PROVE  TypeOK'
<1> USE DEF TypeOK, hostVars, slotVars, leaseVars, eventVars, workVars, RunPc
<1>1. ASSUME NEW e \in Errors, Fail(o, e)
      PROVE  run' \in [Ops -> RunPc] /\ outcome' \in [Ops -> Errors \cup {"none"}]
  BY <1>1 DEF Fail
<1>2. ASSUME clear_active(o) PROVE active' \in Ops \cup {NoOp}
  BY <1>2 DEF clear_active
<1>3. ASSUME ClearPending
      PROVE  lease' \in [Ops -> {"none", "channel", "task", "map", "gone"}]
  BY <1>3 DEF ClearPending
<1>4. CASE resolve_queue(o)
  BY <1>4, <1>1, ZenonT(40) DEF resolve_queue, Errors
<1>5. CASE resolve_wait(o)
  <2>1. run' \in [Ops -> RunPc] /\ outcome' \in [Ops -> Errors \cup {"none"}]
    BY <1>5, <1>1 DEF resolve_wait, Errors
  <2>2. QED
    BY <1>5, <2>1 DEF resolve_wait
<1>6. CASE build_provider_fails(o)
  BY <1>6, <1>1 DEF build_provider_fails, Errors
<1>7. CASE start_translation(o)
  BY <1>7 DEF start_translation, WorkerPc
<1>8. CASE install_operation_token(o)
  BY <1>8 DEF install_operation_token, Tokens
<1>9. CASE forward_events(o)
  <2>1. Head(chan[o]) \in Events /\ Tail(chan[o]) \in Seq(Events)
    BY <1>9 DEF forward_events
  <2>2. log' \in Seq(Events) /\ polled' \in Nat
    BY <1>9, <2>1, SendEventType DEF forward_events
  <2>3. QED
    BY <1>9, <2>1, <2>2 DEF forward_events
<1>10. CASE forward_events_end(o)
  BY <1>10, <1>2 DEF forward_events_end
<1>11. CASE sweep_pending(o)
  BY <1>11, <1>3 DEF sweep_pending
<1>12. CASE fail_send(o)
  <2> DEFINE t == IF outcome[o] = "cancelled" THEN "cancelled" ELSE "failed"
  <2>1. Event(o, t, 1) \in Events
    BY EventIsEvent DEF Types, Terminals
  <2>2. log' \in Seq(Events) /\ polled' \in Nat
    BY <1>12, <2>1, SendEventType DEF fail_send
  <2>3. QED
    BY <1>12, <2>2 DEF fail_send
<1>13. CASE fail_clear_pending(o)
  BY <1>13, <1>3 DEF fail_clear_pending
<1>14. CASE fail_release(o)
  BY <1>14, <1>2 DEF fail_release
<1>15. QED
  BY <1>4, <1>5, <1>6, <1>7, <1>8, <1>9, <1>10, <1>11, <1>12, <1>13, <1>14 DEF RunTask

LEMMA WorkerType ==
  ASSUME TypeOK, NEW o \in Ops, Worker(o)
  PROVE  TypeOK'
<1> USE DEF TypeOK, hostVars, slotVars, leaseVars, eventVars, workVars
<1>1. ASSUME NEW type \in Types, Emit(o, type)
      PROVE  chan' \in [Ops -> Seq(Events)] /\ nextSeq' \in [Ops -> Nat]
  <2>1. Append(chan[o], Event(o, type, nextSeq[o])) \in Seq(Events)
    BY EventIsEvent
  <2>2. QED
    BY <1>1, <2>1 DEF Emit
<1>2. ASSUME NEW pc \in WorkerPc, WorkerMoves(o, pc),
             chan' \in [Ops -> Seq(Events)], nextSeq' \in [Ops -> Nat]
      PROVE  TypeOK'
  BY <1>2 DEF WorkerMoves
<1>3. CASE worker_started(o)
  BY <1>3, <1>1, <1>2 DEF worker_started, WorkerPc, Types
<1>4. CASE worker_open(o)
  <2>1. PICK pc \in WorkerPc : WorkerMoves(o, pc)
    BY <1>4 DEF worker_open, WorkerPc, Terminals
  <2>2. QED
    BY <1>4, <2>1, <1>2 DEF worker_open
<1>5. CASE worker_delta(o)
  BY <1>5, <1>1, <1>2 DEF worker_delta, WorkerPc, Types
<1>6. CASE worker_end(o)
  <2>1. PICK pc \in WorkerPc : WorkerMoves(o, pc)
    BY <1>6 DEF worker_end, WorkerPc, Terminals
  <2>2. QED
    BY <1>6, <2>1, <1>2 DEF worker_end
<1>7. CASE worker_terminal(o)
  BY <1>7, <1>1, <1>2 DEF worker_terminal, WorkerPc, Types
<1>8. QED
  BY <1>3, <1>4, <1>5, <1>6, <1>7 DEF Worker

\* The type invariant: every variable of the handle, its tasks and its queue
\* keeps its domain through every interleaving of host threads and tasks.
THEOREM TypeCorrect == Spec => []TypeOK
<1>1. TypeOK /\ [Next]_vars => TypeOK'
  <2> SUFFICES ASSUME TypeOK, [Next]_vars PROVE TypeOK'
    OBVIOUS
  <2>1. CASE UNCHANGED vars
    BY <2>1 DEF TypeOK, vars
  <2>2. CASE Next
    <3>1. CASE Destroyed
      BY <3>1, <2>1 DEF Destroyed
    <3>2. QED
      BY <2>2, <3>1, SubmitType, HostCallType, ResponseType, RequestTaskType,
         RunTaskType, WorkerType DEF Next
  <2>3. QED
    BY <2>1, <2>2
<1>2. QED
  BY <1>1, TypeInit, PTL DEF Spec

-----------------------------------------------------------------------------
(***************************************************************************)
(* The operation slot.  SlotExclusion is inductive together with TypeOK:   *)
(* only a submission that found the slot empty puts an owner in it, and    *)
(* only the owner's task can empty it, even when identifiers are reused.   *)
(***************************************************************************)

LEMMA SlotUnchanged ==
  ASSUME SlotExclusion, UNCHANGED <<active, run>>
  PROVE  SlotExclusion'
  BY DEF SlotExclusion, InFlight

LEMMA SlotSubmit ==
  ASSUME TypeOK, SlotExclusion, NEW o \in Ops, SubmitCall(o)
  PROVE  SlotExclusion'
<1> USE DEF slotVars, workVars
<1>1. CASE UNCHANGED <<active, run>>
  BY <1>1, SlotUnchanged
<1>2. CASE ~UNCHANGED <<active, run>>
  <2>1. /\ active = NoOp /\ active' = o
        /\ \E pc \in {"resolve", "forward"} : run' = [run EXCEPT ![o] = pc]
    BY <1>2 DEF SubmitCall, lm_engine_submit, submit_invalid, submit, submit_with_host_secret
  <2>2. \A p \in Ops : ~InFlight(p)
    BY <2>1, FfiAssumption DEF SlotExclusion, FfiAssumption
  <2>3. QED
    BY <2>1, <2>2 DEF SlotExclusion, InFlight, TypeOK
<1>3. QED
  BY <1>1, <1>2

LEMMA SlotRunTask ==
  ASSUME TypeOK, SlotExclusion, NEW o \in Ops, RunTask(o)
  PROVE  SlotExclusion'
<1> USE DEF slotVars, TypeOK
<1>1. ASSUME active' = active, NEW pc \in RunPc, run' = [run EXCEPT ![o] = pc],
             InFlight(o) <=> pc \notin {"none", "sweep", "done"}
      PROVE  SlotExclusion'
  BY <1>1 DEF SlotExclusion, InFlight
<1>2. ASSUME clear_active(o), InFlight(o), NEW pc \in {"sweep", "done"},
             run' = [run EXCEPT ![o] = pc]
      PROVE  SlotExclusion'
  <2>1. active = o /\ active' = NoOp
    BY <1>2, FfiAssumption DEF SlotExclusion, clear_active, FfiAssumption
  <2>2. \A p \in Ops \ {o} : ~InFlight(p)
    BY <2>1 DEF SlotExclusion
  <2>3. QED
    BY <1>2, <2>1, <2>2, FfiAssumption DEF SlotExclusion, InFlight, FfiAssumption
<1>3. CASE resolve_queue(o)
  BY <1>3, <1>1 DEF resolve_queue, Fail, RunPc, InFlight
<1>4. CASE resolve_wait(o)
  <2>1. \E pc \in {"resolved", "failed"} : run' = [run EXCEPT ![o] = pc]
    BY <1>4 DEF resolve_wait, Fail
  <2>2. QED
    BY <1>4, <2>1, <1>1 DEF resolve_wait, RunPc, InFlight
<1>5. CASE build_provider_fails(o) \/ start_translation(o)
  BY <1>5, <1>1 DEF build_provider_fails, start_translation, Fail, RunPc, InFlight
<1>6. CASE install_operation_token(o)
  <2>1. active = o
    BY <1>6 DEF install_operation_token, SlotExclusion, InFlight
  <2>2. QED
    BY <1>6, <2>1, <1>1 DEF install_operation_token, RunPc, InFlight
<1>7. CASE forward_events(o)
  BY <1>7, SlotUnchanged DEF forward_events
<1>8. CASE forward_events_end(o)
  BY <1>8, <1>2 DEF forward_events_end, InFlight
<1>9. CASE sweep_pending(o)
  BY <1>9, <1>1 DEF sweep_pending, RunPc, InFlight
<1>10. CASE fail_send(o) \/ fail_clear_pending(o)
  BY <1>10, <1>1 DEF fail_send, fail_clear_pending, RunPc, InFlight
<1>11. CASE fail_release(o)
  BY <1>11, <1>2 DEF fail_release, InFlight
<1>12. QED
  BY <1>3, <1>4, <1>5, <1>6, <1>7, <1>8, <1>9, <1>10, <1>11 DEF RunTask

LEMMA SlotOther ==
  ASSUME SlotExclusion,
         \/ \E o \in Ops : ResponseCall(o) \/ RequestTask(o) \/ Worker(o)
         \/ lm_engine_cancel \/ lm_engine_poll_event
         \/ lm_engine_shutdown \/ lm_engine_destroy \/ lm_engine_destroy_flag \/ stop_cancel
         \/ drop_engine \/ Destroyed \/ UNCHANGED vars
  PROVE  UNCHANGED <<active, activeToken, run>>
<1> USE DEF slotVars
<1>1. ASSUME NEW o \in Ops, ResponseCall(o) PROVE UNCHANGED <<active, activeToken, run>>
  BY <1>1 DEF ResponseCall, send_host_response, respond
<1>2. ASSUME NEW o \in Ops, RequestTask(o) PROVE UNCHANGED <<active, activeToken, run>>
  BY <1>2 DEF RequestTask, request_task_recv, request_task_insert, request_task_send,
              request_task_end
<1>3. ASSUME NEW o \in Ops, Worker(o) PROVE UNCHANGED <<active, activeToken, run>>
  BY <1>3 DEF Worker, worker_started, worker_open, worker_delta, worker_end,
              worker_terminal, WorkerMoves
<1>4. QED
  BY <1>1, <1>2, <1>3 DEF lm_engine_cancel, lm_engine_poll_event, lm_engine_shutdown,
     lm_engine_destroy, lm_engine_destroy_flag, stop_cancel, drop_engine, Destroyed, vars

\* One operation at a time and no leaked slot, for any number of submitting
\* threads and any reuse of operation identifiers.
THEOREM SlotIsExclusive == Spec => []SlotExclusion
<1>1. Init => SlotExclusion
  <2> SUFFICES ASSUME Init, NEW o \in Ops PROVE ~InFlight(o) /\ active # o
    BY DEF SlotExclusion
  <2>1. run[o] = "none" /\ active = NoOp
    BY DEF Init
  <2>2. QED
    BY <2>1, FfiAssumption DEF InFlight, FfiAssumption
<1>2. TypeOK /\ SlotExclusion /\ [Next]_vars => SlotExclusion'
  <2> SUFFICES ASSUME TypeOK, SlotExclusion, [Next]_vars PROVE SlotExclusion'
    OBVIOUS
  <2>1. CASE \E o \in Ops : SubmitCall(o)
    BY <2>1, SlotSubmit
  <2>2. CASE \E o \in Ops : RunTask(o)
    BY <2>2, SlotRunTask
  <2>3. QED
    BY <2>1, <2>2, SlotOther, SlotUnchanged DEF Next
<1>3. QED
  BY <1>1, <1>2, TypeCorrect, PTL DEF Spec

-----------------------------------------------------------------------------
(***************************************************************************)
(* Shutdown.  Two parts strengthen StoppedIsCancelled: only submissions    *)
(* with a secret are on the host-secret path, so only those can take the   *)
(* slot behind the flag; and a finished stop call is not undone while a    *)
(* second one is at its first step.                                        *)
(***************************************************************************)

SecretPath ==
  \A o \in Ops : call[o] = "checked" \/ run[o] \notin {"none", "forward", "done"} => o \in SecretOps

StoppedInv ==
  shutdown /\ stopCall # "flagged" /\ active \in Ops \ SecretOps =>
    <<active, activeToken>> \in cancelled

LEMMA SecretPathStep ==
  ASSUME TypeOK, SecretPath, [Next]_vars
  PROVE  SecretPath'
<1> USE DEF SecretPath, TypeOK
<1>1. CASE \E o \in Ops : SubmitCall(o)
  <2>1. PICK o \in Ops : SubmitCall(o)
    BY <1>1
  <2>2. CASE lm_engine_submit(o) \/ submit_invalid(o)
    BY <2>2 DEF lm_engine_submit, submit_invalid, Return
  <2>3. CASE submit(o)
    <3>1. /\ \/ run' = run \/ run' = [run EXCEPT ![o] = "forward"]
          /\ \E c \in CallPc : call' = [call EXCEPT ![o] = c] /\ (c = "checked" => o \in SecretOps)
      BY <2>3 DEF submit, Return, CallPc, Returned
    <3>2. QED
      BY <3>1
  <2>4. CASE submit_with_host_secret(o)
    <3>1. o \in SecretOps
      BY <2>4 DEF submit_with_host_secret
    <3>2. /\ \/ run' = run \/ run' = [run EXCEPT ![o] = "resolve"]
          /\ \E c \in CallPc : call' = [call EXCEPT ![o] = c]
      BY <2>4 DEF submit_with_host_secret, Return, CallPc, Returned, slotVars
    <3>3. QED
      BY <3>1, <3>2
  <2>5. QED
    BY <2>1, <2>2, <2>3, <2>4 DEF SubmitCall
<1>2. CASE \E o \in Ops : RunTask(o)
  <2>1. PICK o \in Ops : RunTask(o)
    BY <1>2
  <2>2. CASE run' = run \/ run' = [run EXCEPT ![o] = "done"]
    <3>1. call' = call
      BY <2>1 DEF RunTask, resolve_queue, resolve_wait, build_provider_fails,
         start_translation, install_operation_token, forward_events, forward_events_end,
         sweep_pending, fail_send, fail_clear_pending, fail_release
    <3>2. QED
      BY <2>2, <3>1
  <2>3. CASE ~(run' = run \/ run' = [run EXCEPT ![o] = "done"])
    <3>1. /\ call' = call /\ o \in SecretOps
          /\ \E pc \in RunPc : run' = [run EXCEPT ![o] = pc]
      BY <2>1, <2>3 DEF RunTask, resolve_queue, resolve_wait, build_provider_fails,
         start_translation, install_operation_token, forward_events, forward_events_end,
         sweep_pending, fail_send, fail_clear_pending, fail_release, Fail, RunPc
    <3>2. QED
      BY <3>1
  <2>4. QED
    BY <2>2, <2>3
<1>3. CASE \E o \in Ops : ResponseCall(o)
  BY <1>3 DEF ResponseCall, send_host_response, respond
<1>4. CASE \E o \in Ops : RequestTask(o)
  BY <1>4 DEF RequestTask, request_task_recv, request_task_insert, request_task_send,
              request_task_end
<1>5. CASE \E o \in Ops : Worker(o)
  BY <1>5 DEF Worker, worker_started, worker_open, worker_delta, worker_end,
              worker_terminal, WorkerMoves
<1>6. QED
  BY <1>1, <1>2, <1>3, <1>4, <1>5 DEF Next, lm_engine_cancel, lm_engine_poll_event,
     lm_engine_shutdown, lm_engine_destroy, lm_engine_destroy_flag, stop_cancel,
     drop_engine, Destroyed, vars

LEMMA StoppedStep ==
  ASSUME TypeOK, SecretPath, SlotExclusion, StoppedInv, [Next]_vars
  PROVE  StoppedInv'
<1> USE DEF StoppedInv, hostVars, slotVars
<1>1. CASE \E o \in Ops : SubmitCall(o)
  BY <1>1 DEF SubmitCall, lm_engine_submit, submit_invalid, submit,
     submit_with_host_secret, SecretPath
<1>2. CASE \E o \in Ops : RunTask(o)
  <2>1. PICK o \in Ops : RunTask(o)
    BY <1>2
  <2>2. CASE install_operation_token(o)
    <3>1. active = o /\ o \in SecretOps
      BY <2>2 DEF install_operation_token, SlotExclusion, InFlight, SecretPath
    <3>2. active' = o
      BY <2>2, <3>1 DEF install_operation_token
    <3>3. QED
      BY <3>1, <3>2
  <2>3. CASE ~install_operation_token(o)
    <3>1. /\ UNCHANGED <<shutdown, stopCall, activeToken, cancelled>>
          /\ active' = active \/ active' = NoOp
      BY <2>1, <2>3 DEF RunTask, resolve_queue, resolve_wait, build_provider_fails,
         start_translation, forward_events, forward_events_end,
         sweep_pending, fail_send, fail_clear_pending, fail_release, clear_active
    <3>2. QED
      BY <3>1, FfiAssumption DEF FfiAssumption
  <2>4. QED
    BY <2>2, <2>3
<1>3. CASE \E o \in Ops : ResponseCall(o)
  BY <1>3 DEF ResponseCall, send_host_response, respond
<1>4. CASE \E o \in Ops : RequestTask(o)
  BY <1>4 DEF RequestTask, request_task_recv, request_task_insert, request_task_send,
              request_task_end
<1>5. CASE \E o \in Ops : Worker(o)
  BY <1>5 DEF Worker, worker_started, worker_open, worker_delta, worker_end,
              worker_terminal, WorkerMoves
<1>6. CASE lm_engine_cancel \/ stop_cancel
  BY <1>6, FfiAssumption DEF lm_engine_cancel, stop_cancel, CancelActive, FfiAssumption
<1>7. CASE lm_engine_shutdown \/ lm_engine_destroy_flag
  BY <1>7 DEF lm_engine_shutdown, lm_engine_destroy_flag
<1>8. CASE lm_engine_destroy
  BY <1>8 DEF lm_engine_destroy
<1>9. CASE lm_engine_poll_event \/ drop_engine \/ Destroyed \/ UNCHANGED vars
  <2>1. UNCHANGED <<shutdown, stopCall, active, activeToken, cancelled>>
    BY <1>9 DEF lm_engine_poll_event, drop_engine, Destroyed, vars
  <2>2. QED
    BY <2>1
<1>10. QED
  BY <1>1, <1>2, <1>3, <1>4, <1>5, <1>6, <1>7, <1>8, <1>9 DEF Next

\* Once lm_engine_shutdown or lm_engine_destroy has returned, no uncancelled
\* operation without a secret owns the slot, on an engine of any mix of
\* operations: for those the second read of the flag under the lock is enough.
THEOREM StopCancelsPlainOperations == Spec => []StoppedIsCancelled
<1>1. Init => SecretPath /\ StoppedInv
  BY DEF Init, SecretPath, StoppedInv
<1>2. TypeOK /\ SlotExclusion /\ SecretPath /\ StoppedInv /\ [Next]_vars
        => SecretPath' /\ StoppedInv'
  BY SecretPathStep, StoppedStep
<1>3. StoppedInv => StoppedIsCancelled
  BY DEF StoppedInv, StoppedIsCancelled
<1>4. QED
  BY <1>1, <1>2, <1>3, TypeCorrect, SlotIsExclusive, PTL DEF Spec

-----------------------------------------------------------------------------
(***************************************************************************)
(* What one step can touch.  A step of the threads and tasks of o leaves   *)
(* every other operation where it was, except that it may clear the map of *)
(* pending secret requests; the other host calls move no operation.        *)
(***************************************************************************)

OpStep(o) ==
  SubmitCall(o) \/ ResponseCall(o) \/ RequestTask(o) \/ RunTask(o) \/ Worker(o)

HostStep ==
  \/ lm_engine_cancel \/ lm_engine_poll_event
  \/ lm_engine_shutdown \/ lm_engine_destroy \/ lm_engine_destroy_flag \/ stop_cancel
  \/ drop_engine \/ Destroyed \/ UNCHANGED vars

LEMMA StepKinds ==
  ASSUME [Next]_vars
  PROVE  HostStep \/ \E o \in Ops : OpStep(o)
  BY DEF Next, HostStep, OpStep

LEMMA HostFrame ==
  ASSUME HostStep
  PROVE  UNCHANGED <<call, req, run, worker, lease, answer, outcome, chan, nextSeq, log>>
  BY DEF HostStep, lm_engine_cancel, lm_engine_poll_event, lm_engine_shutdown,
     lm_engine_destroy, lm_engine_destroy_flag, stop_cancel, drop_engine, Destroyed, vars,
     leaseVars, eventVars, workVars

LEMMA HostCancels ==
  ASSUME HostStep
  PROVE  cancelled \subseteq cancelled'
  BY DEF HostStep, lm_engine_cancel, lm_engine_poll_event, lm_engine_shutdown,
     lm_engine_destroy, lm_engine_destroy_flag, stop_cancel, drop_engine, Destroyed, vars,
     slotVars, CancelActive

LEMMA OpKeepsTokens ==
  ASSUME NEW o \in Ops, OpStep(o)
  PROVE  cancelled' = cancelled
<1> USE DEF slotVars
<1>1. CASE SubmitCall(o)
  BY <1>1 DEF SubmitCall, lm_engine_submit, submit_invalid, submit, submit_with_host_secret
<1>2. CASE ResponseCall(o)
  BY <1>2 DEF ResponseCall, send_host_response, respond
<1>3. CASE RequestTask(o)
  BY <1>3 DEF RequestTask, request_task_recv, request_task_insert, request_task_send,
              request_task_end
<1>4. CASE RunTask(o)
  BY <1>4 DEF RunTask, resolve_queue, resolve_wait, build_provider_fails,
     start_translation, install_operation_token, forward_events, forward_events_end,
     sweep_pending, fail_send, fail_clear_pending, fail_release
<1>5. CASE Worker(o)
  BY <1>5 DEF Worker, worker_started, worker_open, worker_delta, worker_end,
              worker_terminal, WorkerMoves
<1>6. QED
  BY <1>1, <1>2, <1>3, <1>4, <1>5 DEF OpStep

LEMMA OpFrame ==
  ASSUME TypeOK, NEW o \in Ops, OpStep(o), NEW p \in Ops, p # o
  PROVE  /\ call'[p] = call[p] /\ req'[p] = req[p] /\ run'[p] = run[p]
         /\ worker'[p] = worker[p] /\ answer'[p] = answer[p] /\ outcome'[p] = outcome[p]
         /\ chan'[p] = chan[p] /\ nextSeq'[p] = nextSeq[p]
<1> USE DEF TypeOK, leaseVars, workVars
<1>1. CASE SubmitCall(o)
  BY <1>1 DEF SubmitCall, lm_engine_submit, submit_invalid, submit,
     submit_with_host_secret, Return
<1>2. CASE ResponseCall(o)
  BY <1>2 DEF ResponseCall, send_host_response, respond
<1>3. CASE RequestTask(o)
  BY <1>3 DEF RequestTask, request_task_recv, request_task_insert, request_task_send,
              request_task_end
<1>4. CASE RunTask(o)
  BY <1>4 DEF RunTask, resolve_queue, resolve_wait, build_provider_fails,
     start_translation, install_operation_token, forward_events, forward_events_end,
     sweep_pending, fail_send, fail_clear_pending, fail_release, Fail
<1>5. CASE Worker(o)
  BY <1>5 DEF Worker, worker_started, worker_open, worker_delta, worker_end,
              worker_terminal, WorkerMoves, Emit
<1>6. QED
  BY <1>1, <1>2, <1>3, <1>4, <1>5 DEF OpStep

-----------------------------------------------------------------------------
(***************************************************************************)
(* The stages of one operation, across the thread that submits it and its  *)
(* three tasks.                                                            *)
(***************************************************************************)

Stage(o) ==
  /\ call[o] \in {"idle", "entered", "checked"} => run[o] = "none"
  /\ run[o] \in {"none", "resolve", "wait"} => outcome[o] = "none"
  /\ run[o] \in {"none", "resolve", "wait", "resolved", "failed", "clear", "release"} =>
       worker[o] = "none"
  /\ req[o] \in {"leased", "send"} => run[o] # "none"

Stages == \A o \in Ops : Stage(o)

LEMMA StagesStep ==
  ASSUME TypeOK, Stages, [Next]_vars
  PROVE  Stages'
<1>1. CASE HostStep
  BY <1>1, HostFrame DEF Stages, Stage
<1>2. ASSUME NEW o \in Ops, OpStep(o) PROVE Stages'
  <2> USE DEF TypeOK, Stage, leaseVars, workVars
  <2>0. Stage(o)
    BY DEF Stages
  <2>1. ASSUME NEW p \in Ops, p # o PROVE Stage(p)'
    BY <1>2, <2>1, OpFrame DEF Stages
  <2>2. CASE SubmitCall(o)
    <3>1. CASE lm_engine_submit(o) \/ submit_invalid(o)
      BY <2>0, <2>1, <3>1 DEF lm_engine_submit, submit_invalid, Return, Stages
    <3>2. CASE submit(o)
      BY <2>0, <2>1, <3>2 DEF submit, Return, Stages, slotVars
    <3>3. CASE submit_with_host_secret(o)
      BY <2>0, <2>1, <3>3 DEF submit_with_host_secret, Return, Stages, slotVars
    <3>4. QED
      BY <2>2, <3>1, <3>2, <3>3 DEF SubmitCall
  <2>3. CASE ResponseCall(o)
    BY <2>0, <2>1, <2>3 DEF ResponseCall, send_host_response, respond, Stages
  <2>4. CASE RequestTask(o)
    BY <2>0, <2>1, <2>4 DEF RequestTask, request_task_recv, request_task_insert,
       request_task_send, request_task_end, ReceiverAlive, Stages
  <2>5. CASE RunTask(o)
    BY <2>0, <2>1, <2>5 DEF RunTask, resolve_queue, resolve_wait, build_provider_fails,
       start_translation, install_operation_token, forward_events, forward_events_end,
       sweep_pending, fail_send, fail_clear_pending, fail_release, Fail, Stages
  <2>6. CASE Worker(o)
    <3>1. UNCHANGED <<call, req, run, outcome>> /\ worker[o] # "none"
      BY <2>6 DEF Worker, worker_started, worker_open, worker_delta, worker_end,
         worker_terminal, WorkerMoves, Terminals
    <3>2. QED
      BY <2>0, <2>1, <3>1 DEF Stages
  <2>7. QED
    BY <1>2, <2>2, <2>3, <2>4, <2>5, <2>6 DEF OpStep
<1>3. QED
  BY <1>1, <1>2, StepKinds

LEMMA StagesAlways == Spec => []Stages
<1>1. Init => Stages
  BY DEF Init, Stages, Stage
<1>2. QED
  BY <1>1, StagesStep, TypeCorrect, PTL DEF Spec

\* A cancelled operation that has not gone past broker.resolve stays on the
\* failing path, and nobody is left who could start its worker.
Stranded(o) ==
  /\ HostCancelled(o)
  /\ run[o] \in {"resolve", "wait", "failed", "clear", "release", "done"}
  /\ worker[o] = "none"
  /\ call[o] \notin {"idle", "entered", "checked"}

LEMMA StrandedStep ==
  ASSUME TypeOK, Stages, [Next]_vars, NEW o \in Ops, Stranded(o)
  PROVE  Stranded(o)'
<1> USE DEF Stranded, HostCancelled
<1>1. CASE HostStep
  BY <1>1, HostFrame, HostCancels
<1>2. ASSUME NEW p \in Ops, OpStep(p), p # o PROVE Stranded(o)'
  BY <1>2, OpFrame, OpKeepsTokens
<1>3. CASE OpStep(o)
  <2> USE DEF TypeOK
  <2>1. cancelled' = cancelled
    BY <1>3, OpKeepsTokens
  <2>2. CASE SubmitCall(o)
    BY <2>2 DEF SubmitCall, lm_engine_submit, submit_invalid, submit, submit_with_host_secret
  <2>3. CASE ResponseCall(o)
    BY <2>1, <2>3 DEF ResponseCall, send_host_response, respond, workVars
  <2>4. CASE RequestTask(o)
    BY <2>1, <2>4 DEF RequestTask, request_task_recv, request_task_insert,
       request_task_send, request_task_end, workVars
  <2>5. CASE RunTask(o)
    BY <2>1, <2>5 DEF RunTask, resolve_queue, resolve_wait, build_provider_fails,
       start_translation, install_operation_token, forward_events, forward_events_end,
       sweep_pending, fail_send, fail_clear_pending, fail_release, Fail, workVars
  <2>6. CASE Worker(o)
    BY <2>6 DEF Worker, worker_started, worker_open, worker_delta, worker_end,
       worker_terminal, Terminals
  <2>7. QED
    BY <1>3, <2>2, <2>3, <2>4, <2>5, <2>6 DEF OpStep
<1>4. QED
  BY <1>1, <1>2, <1>3, StepKinds

\* A stop that reaches an operation while broker.resolve is running keeps it
\* from the provider for ever: whatever the host answers and whatever other
\* operations do afterwards, its worker is never started.
THEOREM CancelledWaitIsFinal == Spec => CancelledWaitNeverStarts
<1> SUFFICES ASSUME NEW o \in Ops
             PROVE  Spec => [](run[o] \in {"resolve", "wait"} /\ HostCancelled(o) =>
                               [](worker[o] = "none"))
  BY DEF CancelledWaitNeverStarts
<1>1. Stages /\ run[o] \in {"resolve", "wait"} /\ HostCancelled(o) => Stranded(o)
  BY DEF Stages, Stage, Stranded
<1>2. TypeOK /\ Stages /\ [Next]_vars /\ Stranded(o) => Stranded(o)'
  BY StrandedStep
<1>3. Stranded(o) => worker[o] = "none"
  BY DEF Stranded
<1>4. QED
  BY <1>1, <1>2, <1>3, TypeCorrect, StagesAlways, PTL DEF Spec

-----------------------------------------------------------------------------
(***************************************************************************)
(* The host's answer.  pending_host_requests is one map for the whole      *)
(* handle, so an operation with a secret that ends clears it for others:   *)
(* apart from that, a lease is only gone once it has been answered.        *)
(***************************************************************************)

\* Another operation with a secret has cleared the map.
ClearedBehind(o) == \E p \in SecretOps \ {o} : run[p] \in {"release", "done"}

Answered(o) ==
  /\ run[o] = "wait" /\ lease[o] = "gone" /\ answer[o] = "none" => ClearedBehind(o)
  /\ outcome[o] = "secret_unavailable" => answer[o] = "unavailable" \/ ClearedBehind(o)
  /\ outcome[o] # "none" => o \in SecretOps

HostDecidesOrCleared == \A o \in Ops : Answered(o)

LEMMA ClearedStays ==
  ASSUME TypeOK, NEW q \in Ops, OpStep(q), NEW p \in Ops, run[p] \in {"release", "done"},
         Stages
  PROVE  run'[p] \in {"release", "done"}
<1>1. CASE p # q
  BY <1>1, OpFrame
<1>2. CASE p = q
  <2> USE DEF TypeOK
  <2>1. CASE SubmitCall(q)
    BY <1>2, <2>1 DEF SubmitCall, lm_engine_submit, submit_invalid, submit,
       submit_with_host_secret, Stages, Stage
  <2>2. CASE ResponseCall(q) \/ RequestTask(q) \/ Worker(q)
    <3>1. run' = run
      BY <2>2 DEF ResponseCall, send_host_response, respond, RequestTask,
         request_task_recv, request_task_insert, request_task_send, request_task_end,
         Worker, worker_started, worker_open, worker_delta, worker_end,
         worker_terminal, WorkerMoves
    <3>2. QED
      BY <3>1
  <2>3. CASE RunTask(q)
    BY <1>2, <2>3 DEF RunTask, resolve_queue, resolve_wait, build_provider_fails,
       start_translation, install_operation_token, forward_events, forward_events_end,
       sweep_pending, fail_send, fail_clear_pending, fail_release
  <2>4. QED
    BY <2>1, <2>2, <2>3 DEF OpStep
<1>3. QED
  BY <1>1, <1>2

LEMMA LeaseFrame ==
  ASSUME TypeOK, NEW p \in Ops, OpStep(p), NEW o \in Ops, p # o
  PROVE  \/ lease'[o] = lease[o]
         \/ run[p] \in {"clear", "sweep"} /\ run'[p] \in {"release", "done"}
<1> USE DEF TypeOK, leaseVars
<1>1. CASE SubmitCall(p)
  BY <1>1 DEF SubmitCall, lm_engine_submit, submit_invalid, submit, submit_with_host_secret
<1>2. CASE ResponseCall(p)
  BY <1>2 DEF ResponseCall, send_host_response, respond
<1>3. CASE RequestTask(p)
  BY <1>3 DEF RequestTask, request_task_recv, request_task_insert, request_task_send,
              request_task_end
<1>4. CASE RunTask(p)
  BY <1>4 DEF RunTask, resolve_queue, resolve_wait, build_provider_fails,
     start_translation, install_operation_token, forward_events, forward_events_end,
     sweep_pending, fail_send, fail_clear_pending, fail_release, Fail
<1>5. CASE Worker(p)
  BY <1>5 DEF Worker, worker_started, worker_open, worker_delta, worker_end,
              worker_terminal, WorkerMoves
<1>6. QED
  BY <1>1, <1>2, <1>3, <1>4, <1>5 DEF OpStep

LEMMA AnsweredStep ==
  ASSUME TypeOK, SecretPath, Stages, HostDecidesOrCleared, [Next]_vars
  PROVE  HostDecidesOrCleared'
<1> SUFFICES ASSUME NEW o \in Ops PROVE Answered(o)'
  BY DEF HostDecidesOrCleared
<1>0. Answered(o) /\ Stage(o)
  BY DEF HostDecidesOrCleared, Stages
<1>1. CASE HostStep
  BY <1>0, <1>1, HostFrame DEF Answered, ClearedBehind
<1>2. ASSUME NEW q \in Ops, OpStep(q), ClearedBehind(o) PROVE ClearedBehind(o)'
  BY <1>2, ClearedStays, FfiAssumption DEF ClearedBehind, FfiAssumption
<1>3. ASSUME NEW p \in Ops, OpStep(p), p # o PROVE Answered(o)'
  <2>1. /\ run'[o] = run[o] /\ answer'[o] = answer[o] /\ outcome'[o] = outcome[o]
    BY <1>3, OpFrame
  <2>2. CASE lease'[o] = lease[o]
    BY <1>0, <1>2, <1>3, <2>1, <2>2 DEF Answered
  <2>3. CASE run[p] \in {"clear", "sweep"} /\ run'[p] \in {"release", "done"}
    <3>1. p \in SecretOps
      BY <2>3 DEF SecretPath
    <3>2. ClearedBehind(o)'
      BY <1>3, <2>3, <3>1 DEF ClearedBehind
    <3>3. QED
      BY <1>0, <2>1, <3>2 DEF Answered
  <2>4. QED
    BY <1>3, <2>2, <2>3, LeaseFrame
<1>4. CASE OpStep(o)
  <2> USE DEF TypeOK
  <2>1. ClearedBehind(o) => ClearedBehind(o)'
    BY <1>2, <1>4
  <2>2. CASE SubmitCall(o)
    <3>1. UNCHANGED <<lease, answer, outcome>> /\ run'[o] \in {run[o], "resolve", "forward"}
      BY <2>2 DEF SubmitCall, lm_engine_submit, submit_invalid, submit,
         submit_with_host_secret, leaseVars
    <3>2. QED
      BY <1>0, <2>1, <3>1 DEF Answered
  <2>3. CASE ResponseCall(o)
    BY <1>0, <2>1, <2>3 DEF ResponseCall, send_host_response, respond, Answered,
       Stage, ReceiverAlive, Resolutions
  <2>4. CASE RequestTask(o)
    BY <1>0, <2>1, <2>4 DEF RequestTask, request_task_recv, request_task_insert,
       request_task_send, request_task_end, Answered, ReceiverAlive, leaseVars
  <2>5. CASE RunTask(o)
    <3>1. CASE resolve_queue(o)
      <4>1. o \in SecretOps /\ outcome[o] = "none" /\ answer' = answer
        BY <1>0, <3>1 DEF resolve_queue, Stage, SecretPath
      <4>2. \/ run'[o] = "failed" /\ outcome'[o] = "cancelled"
            \/ lease'[o] = "channel" /\ outcome'[o] = "none"
        BY <3>1, <4>1 DEF resolve_queue, Fail
      <4>3. QED
        BY <4>1, <4>2 DEF Answered
    <3>2. CASE resolve_wait(o)
      BY <1>0, <2>1, <3>2 DEF resolve_wait, Fail, Answered, Stage, SecretPath, leaseVars
    <3>3. CASE build_provider_fails(o)
      BY <1>0, <2>1, <3>3 DEF build_provider_fails, Fail, Answered, SecretPath, leaseVars
    <3>4. CASE ~(resolve_queue(o) \/ resolve_wait(o) \/ build_provider_fails(o))
      <4>1. /\ UNCHANGED <<answer, outcome>> /\ run[o] # "wait" /\ run'[o] # "wait"
        BY <2>5, <3>4 DEF RunTask, start_translation, install_operation_token,
           forward_events, forward_events_end, sweep_pending, fail_send,
           fail_clear_pending, fail_release, leaseVars
      <4>2. QED
        BY <1>0, <2>1, <4>1 DEF Answered
    <3>5. QED
      BY <3>1, <3>2, <3>3, <3>4
  <2>6. CASE Worker(o)
    <3>1. UNCHANGED <<run, lease, answer, outcome>>
      BY <2>6 DEF Worker, worker_started, worker_open, worker_delta, worker_end,
         worker_terminal, WorkerMoves, leaseVars
    <3>2. QED
      BY <1>0, <2>1, <3>1 DEF Answered
  <2>7. QED
    BY <1>4, <2>2, <2>3, <2>4, <2>5, <2>6 DEF OpStep
<1>5. QED
  BY <1>1, <1>3, <1>4, StepKinds

LEMMA AnsweredAlways == Spec => []HostDecidesOrCleared
<1>1. Init => SecretPath /\ HostDecidesOrCleared
  BY DEF Init, SecretPath, HostDecidesOrCleared, Answered
<1>2. TypeOK /\ Stages /\ SecretPath /\ HostDecidesOrCleared /\ [Next]_vars
        => SecretPath' /\ HostDecidesOrCleared'
  BY SecretPathStep, AnsweredStep
<1>3. QED
  BY <1>1, <1>2, TypeCorrect, StagesAlways, PTL DEF Spec

\* For any mix of submissions: secret_unavailable is the host's word, unless
\* another operation with a secret has ended and cleared the shared map.
THEOREM OnlyClearingOverrulesTheHost ==
  Spec => [](\A o \in Ops : outcome[o] = "secret_unavailable" =>
               answer[o] = "unavailable" \/ ClearedBehind(o))
<1>1. HostDecidesOrCleared => \A o \in Ops : outcome[o] = "secret_unavailable" =>
        answer[o] = "unavailable" \/ ClearedBehind(o)
  BY DEF HostDecidesOrCleared, Answered
<1>2. QED
  BY <1>1, AnsweredAlways, PTL

\* On a handle with a single operation that needs a secret, the host alone
\* decides; with two it does not, which FfiEngine_foreign_sweep.cfg shows.
THEOREM HostDecidesAlone ==
  ASSUME \A o, p \in SecretOps : o = p
  PROVE  Spec => []HostDecides
<1>1. HostDecidesOrCleared => HostDecides
  BY DEF HostDecidesOrCleared, Answered, ClearedBehind, HostDecides
<1>2. QED
  BY <1>1, AnsweredAlways, PTL

-----------------------------------------------------------------------------
(***************************************************************************)
(* The events of one operation in the queue.  An event that enters the     *)
(* queue is the last of its operation's, and leaves the others in place.   *)
(***************************************************************************)

\* Every rank up to the number of positions is taken.
Ranked(S) == \A n \in 1..Cardinality(S) : AtRank(S, n) # {}

LEMMA RankOfNext ==
  ASSUME NEW m \in Nat, NEW S \in SUBSET (1..m), Ranked(S)
  PROVE  LET T == S \cup {m + 1}
         IN  /\ Cardinality(S) \in Nat /\ Cardinality(T) = Cardinality(S) + 1
             /\ \A n \in 1..Cardinality(S) : AtRank(T, n) = AtRank(S, n)
             /\ AtRank(T, Cardinality(T)) = {m + 1}
             /\ Ranked(T)
<1> DEFINE T == S \cup {m + 1}
           Below(X, i) == {j \in X : j <= i}
<1>1. IsFiniteSet(S) /\ Cardinality(S) \in Nat
  <2>1. IsFiniteSet(1..m)
    BY FS_Interval
  <2>2. QED
    BY <2>1, FS_Subset, FS_CardinalityType
<1>2. m + 1 \notin S
  OBVIOUS
<1>3. Cardinality(T) = Cardinality(S) + 1
  BY <1>1, <1>2, FS_AddElement
<1>4. \A i \in S : Below(T, i) = Below(S, i)
  <2>1. \A i \in S : ~(m + 1 <= i)
    OBVIOUS
  <2>2. QED
    BY <2>1
<1>5. Below(T, m + 1) = T
  <2>1. \A j \in T : j <= m + 1
    OBVIOUS
  <2>2. QED
    BY <2>1
<1>6. ASSUME NEW i \in S PROVE Cardinality(Below(S, i)) <= Cardinality(S)
  BY <1>1, FS_Subset
<1>7. ASSUME NEW n \in 1..Cardinality(S) PROVE AtRank(T, n) = AtRank(S, n)
  <2>1. \A i \in S : i \in AtRank(T, n) <=> i \in AtRank(S, n)
    BY <1>4 DEF AtRank
  <2>2. m + 1 \notin AtRank(T, n)
    BY <1>1, <1>3, <1>5 DEF AtRank
  <2>3. AtRank(T, n) \subseteq T /\ AtRank(S, n) \subseteq S
    BY DEF AtRank
  <2>4. QED
    BY <2>1, <2>2, <2>3
<1>8. AtRank(T, Cardinality(T)) = {m + 1}
  <2>1. \A i \in S : i \notin AtRank(T, Cardinality(T))
    BY <1>1, <1>3, <1>4, <1>6 DEF AtRank
  <2>2. m + 1 \in AtRank(T, Cardinality(T))
    BY <1>5 DEF AtRank
  <2>3. AtRank(T, Cardinality(T)) \subseteq T
    BY DEF AtRank
  <2>4. QED
    BY <2>1, <2>2, <2>3
<1>9. Ranked(T)
  <2> SUFFICES ASSUME NEW n \in 1..Cardinality(T) PROVE AtRank(T, n) # {}
    BY DEF Ranked
  <2>1. n \in 1..Cardinality(S) \/ n = Cardinality(T)
    BY <1>1, <1>3
  <2>2. QED
    BY <2>1, <1>7, <1>8 DEF Ranked
<1>10. QED
  BY <1>1, <1>3, <1>7, <1>8, <1>9

Item(e) == [type |-> e.type, seq |-> e.seq]

Mine(o, e) == e.op = o /\ e.type # "secret_required"

At(S, n) == CHOOSE i \in AtRank(S, n) : TRUE

LEMMA AtIsPosition ==
  ASSUME NEW S, Ranked(S), NEW n \in 1..Cardinality(S)
  PROVE  At(S, n) \in S
  BY DEF Ranked, At, AtRank

LEMMA StreamIs ==
  ASSUME NEW o
  PROVE  TranslationEvents(o) =
           [n \in 1..Cardinality(Positions(o)) |-> Item(log[At(Positions(o), n)])]
  BY DEF TranslationEvents, At, Item

LEMMA LengthZero ==
  ASSUME NEW X, NEW f \in Seq(X), Len(f) = 0
  PROVE  f = <<>>
  OBVIOUS

LEMMA FunctionIsSequence ==
  ASSUME NEW X, NEW n \in Nat, NEW f \in [1..n -> X]
  PROVE  f \in Seq(X) /\ Len(f) = n
  OBVIOUS

LEMMA AppendIs ==
  ASSUME NEW X, NEW n \in Nat, NEW f \in [1..n -> X], NEW g \in [1..(n + 1) -> X],
         \A i \in 1..n : g[i] = f[i]
  PROVE  g = Append(f, g[n + 1])
<1>1. f \in Seq(X) /\ Len(f) = n /\ g \in Seq(X) /\ Len(g) = n + 1
  BY FunctionIsSequence
<1>2. Append(f, g[n + 1]) \in Seq(X) /\ Len(Append(f, g[n + 1])) = n + 1
  BY <1>1
<1>3. \A i \in 1..(n + 1) : Append(f, g[n + 1])[i] = g[i]
  BY <1>1
<1>4. QED
  BY <1>1, <1>2, <1>3

LEMMA StreamType ==
  ASSUME TypeOK, NEW o \in Ops, Ranked(Positions(o))
  PROVE  /\ TranslationEvents(o) \in Seq([type : Types, seq : Nat])
         /\ Cardinality(Positions(o)) \in Nat
         /\ Len(TranslationEvents(o)) = Cardinality(Positions(o))
<1> DEFINE S == Positions(o)
<1>1. Len(log) \in Nat /\ S \in SUBSET (1..Len(log))
  BY DEF Positions, TypeOK
<1>2. Cardinality(S) \in Nat
  BY <1>1, RankOfNext
<1>3. ASSUME NEW n \in 1..Cardinality(S) PROVE Item(log[At(S, n)]) \in [type : Types, seq : Nat]
  <2>1. At(S, n) \in 1..Len(log)
    BY <1>1, <1>3, AtIsPosition
  <2>2. log[At(S, n)] \in Events
    BY <2>1 DEF TypeOK
  <2>3. QED
    BY <2>2 DEF Item, Events
<1> HIDE DEF S
<1>4. TranslationEvents(o) \in [1..Cardinality(S) -> [type : Types, seq : Nat]]
  BY <1>3, StreamIs DEF S
<1>5. QED
  BY <1>2, <1>4, FunctionIsSequence DEF S

LEMMA StreamAppend ==
  ASSUME TypeOK, NEW o \in Ops, Ranked(Positions(o)), NEW e \in Events, log' = Append(log, e)
  PROVE  /\ Ranked(Positions(o)')
         /\ Mine(o, e) => TranslationEvents(o)' = Append(TranslationEvents(o), Item(e))
         /\ ~Mine(o, e) => TranslationEvents(o)' = TranslationEvents(o)
<1> DEFINE m == Len(log)
           S == Positions(o)
           T == Positions(o)'
<1>1. m \in Nat /\ S \in SUBSET (1..m)
  BY DEF Positions, TypeOK
<1>2. /\ Len(log') = m + 1 /\ log'[m + 1] = e
      /\ \A i \in 1..m : log'[i] = log[i]
  BY <1>1 DEF TypeOK
<1>3. TranslationEvents(o)' = [n \in 1..Cardinality(T) |-> Item(log'[At(T, n)])]
  BY DEF TranslationEvents, At, Item
<1>4. TranslationEvents(o) = [n \in 1..Cardinality(S) |-> Item(log[At(S, n)])]
  BY StreamIs
<1>5. \A n \in 1..Cardinality(S) : At(S, n) \in 1..m
  BY <1>1, AtIsPosition
<1>6. CASE Mine(o, e)
  <2>1. T = S \cup {m + 1}
    BY <1>1, <1>2, <1>6 DEF Positions, Mine
  <2> HIDE DEF m, S, T
  <2>2. /\ Cardinality(S) \in Nat /\ Cardinality(T) = Cardinality(S) + 1
        /\ \A n \in 1..Cardinality(S) : AtRank(T, n) = AtRank(S, n)
        /\ AtRank(T, Cardinality(T)) = {m + 1}
        /\ Ranked(T)
    BY <1>1, <2>1, RankOfNext DEF S
  <2>3. \A n \in 1..Cardinality(S) : log'[At(T, n)] = log[At(S, n)]
    BY <1>2, <1>5, <2>2 DEF At
  <2>4. log'[At(T, Cardinality(T))] = e
    BY <1>2, <2>2 DEF At
  <2>5. TranslationEvents(o)' = Append(TranslationEvents(o), Item(e))
    <3> DEFINE c == Cardinality(S)
               X == {Item(log[At(S, n)]) : n \in 1..c} \cup {Item(e)}
               F(n) == Item(log[At(S, n)])
               G(n) == Item(log'[At(T, n)])
    <3>1. c \in Nat /\ Cardinality(T) = c + 1
      BY <2>2
    <3>2. /\ TranslationEvents(o) = [n \in 1..c |-> F(n)]
          /\ TranslationEvents(o)' = [n \in 1..(c + 1) |-> G(n)]
      BY <1>3, <1>4, <3>1
    <3>3. (\A n \in 1..c : G(n) = F(n)) /\ G(c + 1) = Item(e)
      BY <2>3, <2>4, <3>1
    <3>4. \A n \in 1..c : F(n) \in X
      OBVIOUS
    <3> HIDE DEF c, X, F, G
    <3>5. Item(e) \in X
      BY DEF X
    <3>6. TranslationEvents(o) \in [1..c -> X]
      BY <3>2, <3>4
    <3>7. \A n \in 1..(c + 1) : G(n) \in X
      BY <3>1, <3>3, <3>4, <3>5
    <3>8. TranslationEvents(o)' \in [1..(c + 1) -> X]
      BY <3>2, <3>7
    <3>9. /\ \A n \in 1..c : TranslationEvents(o)'[n] = TranslationEvents(o)[n]
          /\ TranslationEvents(o)'[c + 1] = Item(e)
      BY <3>1, <3>2, <3>3
    <3>10. QED
      BY <3>6, <3>8, <3>9, <3>1, AppendIs
  <2>6. QED
    BY <1>6, <2>2, <2>5 DEF T
<1>7. CASE ~Mine(o, e)
  <2>1. T = S
    BY <1>1, <1>2, <1>7 DEF Positions, Mine
  <2> HIDE DEF m, S, T
  <2>2. QED
    BY <1>2, <1>3, <1>4, <1>5, <1>7, <2>1, ZenonT(40) DEF S, T
<1>8. QED
  BY <1>6, <1>7

-----------------------------------------------------------------------------
(***************************************************************************)
(* The end of an operation.  Its terminal event waits in its channel until *)
(* forward_events has moved it, and the slot is only released behind it.   *)
(***************************************************************************)

\* The queue holds a terminal event of o.
Delivered(o) == \E k \in 1..Len(log) : log[k].op = o /\ log[k].type \in Terminals

Ending(o) ==
  /\ \A i \in 1..Len(chan[o]) : chan[o][i].op = o /\ chan[o][i].type # "secret_required"
  /\ worker[o] = "done" =>
       Delivered(o) \/ \E i \in 1..Len(chan[o]) : chan[o][i].type \in Terminals
  /\ run[o] \in {"clear", "release", "sweep", "done"} => Delivered(o)
  /\ \A i \in 1..Len(log) : log[i].op = o => run[o] # "none"

Endings == \A o \in Ops : Ending(o)

LEMMA LogQuiet ==
  ASSUME NEW o \in Ops, OpStep(o),
         ~request_task_send(o), ~forward_events(o), ~fail_send(o)
  PROVE  log' = log
<1> USE DEF eventVars
<1>1. CASE SubmitCall(o)
  BY <1>1 DEF SubmitCall, lm_engine_submit, submit_invalid, submit, submit_with_host_secret
<1>2. CASE ResponseCall(o)
  BY <1>2 DEF ResponseCall, send_host_response, respond
<1>3. CASE RequestTask(o)
  BY <1>3 DEF RequestTask, request_task_recv, request_task_insert, request_task_end
<1>4. CASE RunTask(o)
  BY <1>4 DEF RunTask, resolve_queue, resolve_wait, build_provider_fails,
     start_translation, install_operation_token, forward_events_end,
     sweep_pending, fail_clear_pending, fail_release
<1>5. CASE Worker(o)
  BY <1>5 DEF Worker, worker_started, worker_open, worker_delta, worker_end,
              worker_terminal, WorkerMoves
<1>6. QED
  BY <1>1, <1>2, <1>3, <1>4, <1>5 DEF OpStep

LEMMA Logged ==
  ASSUME TypeOK, NEW e \in Events, log' = Append(log, e)
  PROVE  /\ Len(log) \in Nat /\ Len(log') = Len(log) + 1
         /\ log'[Len(log) + 1] = e
         /\ \A i \in 1..Len(log) : log'[i] = log[i]
  BY DEF TypeOK

LEMMA DeliveredGrows ==
  ASSUME TypeOK, NEW e \in Events, log' = Append(log, e), NEW p \in Ops
  PROVE  /\ Delivered(p) => Delivered(p)'
         /\ e.op = p /\ e.type \in Terminals => Delivered(p)'
<1>1. /\ Len(log) \in Nat /\ Len(log') = Len(log) + 1
      /\ log'[Len(log) + 1] = e
      /\ \A i \in 1..Len(log) : log'[i] = log[i]
  BY Logged
<1>2. QED
  BY <1>1 DEF Delivered

\* The three steps of o that put an event in the queue, and what they put there.
LEMMA LogStep ==
  ASSUME TypeOK, Endings, NEW o \in Ops, OpStep(o), log' # log
  PROVE  \E e \in Events :
           /\ log' = Append(log, e) /\ e.op = o
           /\ \/ e.type = "secret_required" /\ req[o] = "send"
              \/ e.type # "secret_required" /\ run[o] \in {"forward", "failed"}
<1>1. CASE request_task_send(o)
  <2>1. Event(o, "secret_required", 0) \in Events
    BY EventIsEvent DEF Types
  <2>2. QED
    BY <1>1, <2>1 DEF request_task_send, SendEvent, Event
<1>2. CASE forward_events(o)
  <2>1. chan[o] \in Seq(Events) /\ chan[o] # <<>> /\ run[o] = "forward"
    BY <1>2 DEF forward_events, TypeOK
  <2>2. Head(chan[o]) = chan[o][1] /\ 1 \in 1..Len(chan[o]) /\ Head(chan[o]) \in Events
    BY <2>1
  <2>3. Head(chan[o]).op = o /\ Head(chan[o]).type # "secret_required"
    BY <2>2 DEF Endings, Ending
  <2>4. QED
    BY <1>2, <2>1, <2>2, <2>3 DEF forward_events, SendEvent
<1>3. CASE fail_send(o)
  <2> DEFINE t == IF outcome[o] = "cancelled" THEN "cancelled" ELSE "failed"
  <2>1. Event(o, t, 1) \in Events /\ t # "secret_required"
    BY EventIsEvent DEF Types, Terminals
  <2>2. log' = Append(log, Event(o, t, 1)) /\ run[o] = "failed"
    BY <1>3 DEF fail_send, SendEvent
  <2>3. QED
    BY <2>1, <2>2 DEF Event
<1>4. QED
  BY <1>1, <1>2, <1>3, LogQuiet

LEMMA EndingOther ==
  ASSUME TypeOK, Stages, Endings, NEW o \in Ops, OpStep(o), NEW p \in Ops, p # o
  PROVE  Ending(p)'
<1>1. /\ worker'[p] = worker[p] /\ run'[p] = run[p] /\ chan'[p] = chan[p]
  BY OpFrame
<1>2. Ending(p)
  BY DEF Endings
<1>3. CASE log' = log
  BY <1>1, <1>2, <1>3 DEF Ending, Delivered
<1>4. CASE log' # log
  <2>1. PICK e \in Events : log' = Append(log, e) /\ e.op = o
    BY <1>4, LogStep
  <2>2. Delivered(p) => Delivered(p)'
    BY <2>1, DeliveredGrows
  <2>3. /\ Len(log) \in Nat /\ Len(log') = Len(log) + 1
        /\ log'[Len(log) + 1] = e
        /\ \A i \in 1..Len(log) : log'[i] = log[i]
    BY <2>1, Logged
  <2>4. \A i \in 1..Len(log') : log'[i].op = p => run[p] # "none"
    BY <1>2, <2>1, <2>3 DEF Ending
  <2>5. QED
    BY <1>1, <1>2, <2>2, <2>4 DEF Ending
<1>5. QED
  BY <1>3, <1>4

LEMMA EndingOwn ==
  ASSUME TypeOK, Stages, Endings, NEW o \in Ops, OpStep(o)
  PROVE  Ending(o)'
<1>0. Ending(o) /\ Stage(o) /\ chan[o] \in Seq(Events)
  BY DEF Endings, Stages, TypeOK
<1>1. ASSUME UNCHANGED <<chan, log>>,
             worker'[o] = "done" => worker[o] = "done",
             run'[o] \in {"clear", "release", "sweep", "done"} =>
               run[o] \in {"clear", "release", "sweep", "done"},
             run[o] # "none" => run'[o] # "none"
      PROVE  Ending(o)'
  BY <1>0, <1>1 DEF Ending, Delivered
<1>2. CASE SubmitCall(o)
  <2>1. /\ UNCHANGED <<chan, log>>
        /\ worker'[o] \in {worker[o], "start"}
        /\ run'[o] \in {run[o], "resolve", "forward"}
    BY <1>2 DEF SubmitCall, lm_engine_submit, submit_invalid, submit,
       submit_with_host_secret, TypeOK, workVars, eventVars
  <2>2. QED
    BY <1>1, <2>1
<1>3. CASE ResponseCall(o)
  <2>1. UNCHANGED <<chan, log, worker, run>>
    BY <1>3 DEF ResponseCall, send_host_response, respond, workVars, eventVars
  <2>2. QED
    BY <1>1, <2>1
<1>4. CASE RequestTask(o)
  <2>1. UNCHANGED <<chan, worker, run>>
    BY <1>4 DEF RequestTask, request_task_recv, request_task_insert, request_task_send,
       request_task_end, workVars
  <2>2. CASE log' = log
    BY <1>1, <2>1, <2>2
  <2>3. CASE log' # log
    <3>1. request_task_send(o)
      BY <1>4, <2>3 DEF RequestTask, request_task_recv, request_task_insert,
         request_task_end, eventVars
    <3>2. run[o] # "none"
      BY <1>0, <3>1 DEF request_task_send, Stage
    <3>3. PICK e \in Events : log' = Append(log, e)
      BY <2>3, LogStep
    <3>4. Delivered(o) => Delivered(o)'
      BY <3>3, DeliveredGrows
    <3>5. QED
      BY <1>0, <2>1, <3>2, <3>4 DEF Ending
  <2>4. QED
    BY <2>2, <2>3
<1>5. CASE RunTask(o)
  <2>1. CASE forward_events(o)
    <3>1. /\ chan[o] # <<>> /\ log' = Append(log, Head(chan[o])) /\ chan'[o] = Tail(chan[o])
          /\ UNCHANGED <<worker, run>> /\ run[o] = "forward"
      BY <2>1 DEF forward_events, SendEvent, TypeOK
    <3>2. /\ Head(chan[o]) = chan[o][1] /\ Head(chan[o]) \in Events
          /\ Len(Tail(chan[o])) = Len(chan[o]) - 1
          /\ \A i \in 1..Len(Tail(chan[o])) : Tail(chan[o])[i] = chan[o][i + 1]
      BY <1>0, <3>1
    <3>3. /\ Delivered(o) => Delivered(o)'
          /\ chan[o][1].type \in Terminals => Delivered(o)'
      <4>1. chan[o][1].op = o
        BY <1>0, <3>1 DEF Ending
      <4>2. QED
        BY <3>1, <3>2, <4>1, DeliveredGrows
    <3>4. \A i \in 1..Len(chan'[o]) : chan'[o][i] = chan[o][i + 1] /\ i + 1 \in 1..Len(chan[o])
      BY <1>0, <3>1, <3>2
    <3>5. \A i \in 1..Len(chan'[o]) : chan'[o][i].op = o /\ chan'[o][i].type # "secret_required"
      BY <1>0, <3>4 DEF Ending
    <3>6. worker[o] = "done" =>
            Delivered(o)' \/ \E i \in 1..Len(chan'[o]) : chan'[o][i].type \in Terminals
      <4> SUFFICES ASSUME worker[o] = "done", ~Delivered(o)'
                   PROVE  \E i \in 1..Len(chan'[o]) : chan'[o][i].type \in Terminals
        OBVIOUS
      <4>1. PICK i \in 1..Len(chan[o]) : chan[o][i].type \in Terminals
        BY <1>0, <3>3 DEF Ending
      <4>2. i # 1
        BY <3>3, <4>1
      <4>3. i - 1 \in 1..Len(chan'[o]) /\ chan'[o][i - 1] = chan[o][i]
        BY <1>0, <3>1, <3>2, <4>2
      <4>4. QED
        BY <4>1, <4>3
    <3>7. QED
      BY <3>1, <3>5, <3>6 DEF Ending
  <2>2. CASE fail_send(o)
    <3> DEFINE t == IF outcome[o] = "cancelled" THEN "cancelled" ELSE "failed"
    <3>1. Event(o, t, 1) \in Events /\ t \in Terminals
      BY EventIsEvent DEF Types, Terminals
    <3>2. log' = Append(log, Event(o, t, 1)) /\ UNCHANGED <<chan, worker>> /\ run'[o] = "clear"
      BY <2>2 DEF fail_send, SendEvent, TypeOK, workVars
    <3>3. Delivered(o)'
      BY <3>1, <3>2, DeliveredGrows DEF Event
    <3>4. QED
      BY <1>0, <3>2, <3>3 DEF Ending
  <2>3. CASE forward_events_end(o)
    <3>1. /\ UNCHANGED <<chan, log, worker>> /\ chan[o] = <<>> /\ worker[o] = "done"
          /\ run'[o] \in {"sweep", "done"}
      BY <2>3 DEF forward_events_end, TypeOK, workVars, eventVars
    <3>2. Delivered(o)
      BY <1>0, <3>1 DEF Ending
    <3>3. QED
      BY <1>0, <3>1, <3>2 DEF Ending, Delivered
  <2>4. CASE ~(forward_events(o) \/ fail_send(o) \/ forward_events_end(o))
    <3>1. /\ UNCHANGED <<chan, log>>
          /\ worker'[o] \in {worker[o], "start"} /\ run'[o] # "none"
          /\ run'[o] \in {"clear", "release", "sweep", "done"} =>
               run[o] \in {"clear", "release", "sweep", "done"}
      BY <1>5, <2>4 DEF RunTask, resolve_queue, resolve_wait, build_provider_fails,
         start_translation, install_operation_token, sweep_pending, fail_clear_pending,
         fail_release, Fail, TypeOK, workVars, eventVars
    <3>2. QED
      BY <1>1, <3>1
  <2>5. QED
    BY <2>1, <2>2, <2>3, <2>4
<1>6. CASE Worker(o)
  <2>1. UNCHANGED <<run, log>>
    BY <1>6 DEF Worker, worker_started, worker_open, worker_delta, worker_end,
       worker_terminal, WorkerMoves, eventVars
  <2>2. CASE worker_open(o) \/ worker_end(o)
    <3>1. chan' = chan /\ worker'[o] # "done"
      BY <2>2 DEF worker_open, worker_end, WorkerMoves, TypeOK
    <3>2. QED
      BY <1>1, <2>1, <3>1
  <2>3. CASE ~(worker_open(o) \/ worker_end(o))
    <3>1. PICK type \in Types \ {"secret_required"} :
            Emit(o, type) /\ (worker'[o] = "done" => type \in Terminals)
      BY <1>6, <2>3 DEF Worker, worker_started, worker_delta, worker_terminal, WorkerMoves,
         Types, Terminals, TypeOK
    <3> DEFINE e == Event(o, type, nextSeq[o])
    <3>2. e \in Events /\ e.op = o /\ e.type = type
      BY EventIsEvent DEF Event, TypeOK
    <3>3. chan'[o] = Append(chan[o], e)
      BY <3>1 DEF Emit, TypeOK
    <3> HIDE DEF e
    <3>4. /\ Len(chan'[o]) = Len(chan[o]) + 1 /\ chan'[o][Len(chan[o]) + 1] = e
          /\ \A i \in 1..Len(chan[o]) : chan'[o][i] = chan[o][i]
          /\ Len(chan[o]) \in Nat
      BY <1>0, <3>2, <3>3
    <3>5. \A i \in 1..Len(chan'[o]) : chan'[o][i].op = o /\ chan'[o][i].type # "secret_required"
      BY <1>0, <3>2, <3>4 DEF Ending
    <3>6. worker'[o] = "done" => \E i \in 1..Len(chan'[o]) : chan'[o][i].type \in Terminals
      BY <3>1, <3>2, <3>4
    <3>7. QED
      BY <1>0, <2>1, <3>5, <3>6 DEF Ending, Delivered
  <2>4. QED
    BY <2>2, <2>3
<1>7. QED
  BY <1>2, <1>3, <1>4, <1>5, <1>6 DEF OpStep

LEMMA EndingsAlways == Spec => []Endings
<1>1. Init => Endings
  BY DEF Init, Endings, Ending
<1>2. TypeOK /\ Stages /\ Endings /\ [Next]_vars => Endings'
  <2> SUFFICES ASSUME TypeOK, Stages, Endings, [Next]_vars PROVE Endings'
    OBVIOUS
  <2>1. CASE HostStep
    BY <2>1, HostFrame DEF Endings, Ending, Delivered
  <2>2. ASSUME NEW o \in Ops, OpStep(o) PROVE Endings'
    BY <2>2, EndingOther, EndingOwn DEF Endings
  <2>3. QED
    BY <2>1, <2>2, StepKinds
<1>3. QED
  BY <1>1, <1>2, TypeCorrect, StagesAlways, PTL DEF Spec

\* The owner of the slot is the only operation whose events can still enter the
\* queue, and every operation seen there before it has been delivered whole.
LEMMA MixStep ==
  ASSUME TypeOK, SlotExclusion, Endings, StreamsDoNotMix, [Next]_vars
  PROVE  StreamsDoNotMix'
<1>1. CASE log' = log
  BY <1>1 DEF StreamsDoNotMix
<1>2. CASE log' # log
  <2>1. PICK o \in Ops : OpStep(o)
    BY <1>2, StepKinds, HostFrame
  <2>2. PICK e \in Events :
          /\ log' = Append(log, e) /\ e.op = o
          /\ \/ e.type = "secret_required" /\ req[o] = "send"
             \/ e.type # "secret_required" /\ run[o] \in {"forward", "failed"}
    BY <1>2, <2>1, LogStep
  <2>3. /\ Len(log) \in Nat /\ Len(log') = Len(log) + 1
        /\ log'[Len(log) + 1] = e
        /\ \A i \in 1..Len(log) : log'[i] = log[i]
    BY <2>2, Logged
  <2>4. SUFFICES ASSUME NEW j \in 1..Len(log'), log'[j].type # "secret_required",
                        NEW i \in 1..(j - 1), log'[i].op # log'[j].op
                 PROVE  \E k \in 1..(j - 1) :
                          log'[k].op = log'[i].op /\ log'[k].type \in Terminals
    BY DEF StreamsDoNotMix
  <2>5. CASE j \in 1..Len(log)
    <3>1. /\ log[j].type # "secret_required" /\ log[i].op # log[j].op
          /\ log'[i] = log[i] /\ \A k \in 1..(j - 1) : log'[k] = log[k]
      BY <2>3, <2>4, <2>5
    <3>2. PICK k \in 1..(j - 1) : log[k].op = log[i].op /\ log[k].type \in Terminals
      BY <2>5, <3>1 DEF StreamsDoNotMix
    <3>3. QED
      BY <3>1, <3>2
  <2>6. CASE j = Len(log) + 1
    <3> DEFINE p == log[i].op
    <3>1. i \in 1..Len(log) /\ log'[i] = log[i] /\ log[i] \in Events
      BY <2>3, <2>6 DEF TypeOK
    <3>2. p \in Ops /\ p # o
      BY <2>2, <2>3, <2>4, <2>6, <3>1 DEF Events
    <3>3. ~InFlight(p)
      BY <2>2, <2>3, <2>4, <2>6, <3>2 DEF SlotExclusion, InFlight
    <3>4. run[p] # "none"
      BY <3>1, <3>2 DEF Endings, Ending
    <3>5. Delivered(p)
      BY <3>2, <3>3, <3>4 DEF Endings, Ending, InFlight
    <3>6. QED
      BY <2>3, <2>6, <3>1, <3>5 DEF Delivered
  <2>7. QED
    BY <2>3, <2>5, <2>6
<1>3. QED
  BY <1>1, <1>2

\* What the host polls is a sequence of whole translations: an event of one
\* enters the queue only behind the terminal event of every other seen there,
\* on a handle of any number of submissions and under any reuse of identifiers.
THEOREM QueueDoesNotMix == Spec => []StreamsDoNotMix
<1>1. Init => StreamsDoNotMix
  BY DEF Init, StreamsDoNotMix
<1>2. QED
  BY <1>1, MixStep, TypeCorrect, SlotIsExclusive, EndingsAlways, PTL DEF Spec

-----------------------------------------------------------------------------
(***************************************************************************)
(* The host receives event streams.  Between the worker and the queue the  *)
(* numbers run on without a gap, `started' is the first of them, only the  *)
(* last can be terminal, and `cancelled' follows a cancelled token.        *)
(***************************************************************************)

First(o) == IF o \in SecretOps THEN 1 ELSE 0

Ended(o) ==
  /\ TranslationEvents(o) # <<>>
  /\ TranslationEvents(o)[Len(TranslationEvents(o))].type \in Terminals

Numbered(o) ==
  /\ worker[o] = "none" => nextSeq[o] = 0 /\ chan[o] = <<>>
  /\ worker[o] # "none" =>
       nextSeq[o] = First(o) + Len(TranslationEvents(o)) + Len(chan[o])
  /\ worker[o] = "start" => nextSeq[o] = First(o)
  /\ worker[o] \notin {"none", "start"} => nextSeq[o] > First(o)
  /\ worker[o] = "none" /\ TranslationEvents(o) # <<>> =>
       run[o] \in {"clear", "release", "done"}

Ordered(o) ==
  /\ Ended(o) => chan[o] = <<>> /\ worker[o] \in {"none", "done"}
  /\ \A i \in 1..Len(chan[o]) :
       /\ chan[o][i].seq = First(o) + Len(TranslationEvents(o)) + i - 1
       /\ chan[o][i].type = "started" <=> Len(TranslationEvents(o)) + i = 1
       /\ chan[o][i].type \in Terminals => i = Len(chan[o]) /\ worker[o] = "done"
       /\ chan[o][i].type = "cancelled" => StopRequested(o)

Flow(o) ==
  /\ Ranked(Positions(o))
  /\ Numbered(o)
  /\ Ordered(o)
  /\ worker[o] = "cancelled" \/ outcome[o] = "cancelled" => StopRequested(o)

Flows == \A o \in Ops : Flow(o)

LEMMA StopStays ==
  ASSUME NEW o, cancelled \subseteq cancelled', StopRequested(o)
  PROVE  StopRequested(o)'
  BY DEF StopRequested

LEMMA FlowKept ==
  ASSUME NEW o, Flow(o), cancelled \subseteq cancelled',
         TranslationEvents(o)' = TranslationEvents(o), Ranked(Positions(o)'),
         chan'[o] = chan[o], worker'[o] = worker[o], nextSeq'[o] = nextSeq[o],
         outcome'[o] = "cancelled" => outcome[o] = "cancelled" \/ StopRequested(o),
         worker[o] = "none" /\ TranslationEvents(o) # <<>> =>
           run'[o] \in {"clear", "release", "done"}
  PROVE  Flow(o)'
<1>1. Numbered(o)'
  BY DEF Flow, Numbered
<1>2. StopRequested(o) => StopRequested(o)'
  BY StopStays
<1>3. Ordered(o)'
  BY <1>2 DEF Flow, Ordered, Ended
<1>4. QED
  BY <1>1, <1>2, <1>3 DEF Flow

LEMMA QuietStream ==
  ASSUME NEW o, log' = log
  PROVE  /\ TranslationEvents(o)' = TranslationEvents(o)
         /\ Positions(o)' = Positions(o)
  BY DEF TranslationEvents, Positions

\* Steps of another operation leave the stream of p alone.
LEMMA FlowOther ==
  ASSUME TypeOK, Endings, Flows, NEW o \in Ops, OpStep(o), NEW p \in Ops, p # o
  PROVE  Flow(p)' /\ TranslationEvents(p)' = TranslationEvents(p)
<1>1. /\ chan'[p] = chan[p] /\ worker'[p] = worker[p] /\ nextSeq'[p] = nextSeq[p]
      /\ outcome'[p] = outcome[p] /\ run'[p] = run[p] /\ cancelled' = cancelled
  BY OpFrame, OpKeepsTokens
<1>2. Flow(p)
  BY DEF Flows
<1>3. TranslationEvents(p)' = TranslationEvents(p) /\ Ranked(Positions(p)')
  <2>1. CASE log' = log
    BY <1>2, <2>1, QuietStream DEF Flow
  <2>2. CASE log' # log
    <3>1. PICK e \in Events : log' = Append(log, e) /\ e.op = o
      BY <2>2, LogStep
    <3>2. ~Mine(p, e)
      BY <3>1 DEF Mine
    <3>3. QED
      BY <1>2, <3>1, <3>2, StreamAppend DEF Flow
  <2>3. QED
    BY <2>1, <2>2
<1>4. worker[p] = "none" /\ TranslationEvents(p) # <<>> => run'[p] \in {"clear", "release", "done"}
  BY <1>1, <1>2 DEF Flow, Numbered
<1>5. QED
  BY <1>1, <1>2, <1>3, <1>4, FlowKept

\* The worker puts the next event in its channel.
LEMMA FlowEmit ==
  ASSUME TypeOK, NEW o \in Ops, Flow(o), NEW type \in Types, Emit(o, type),
         UNCHANGED <<log, cancelled, outcome>>,
         worker[o] \notin {"none", "done"}, worker'[o] \notin {"none", "start", "cancelled"},
         type = "started" <=> worker[o] = "start",
         type \in Terminals => worker'[o] = "done",
         type = "cancelled" => StopRequested(o)
  PROVE  Flow(o)'
<1> DEFINE e == Event(o, type, nextSeq[o])
           c == Len(TranslationEvents(o))
<1>1. /\ TranslationEvents(o)' = TranslationEvents(o) /\ Positions(o)' = Positions(o)
      /\ Ranked(Positions(o)) /\ StopRequested(o)' = StopRequested(o)
  BY QuietStream DEF Flow, StopRequested
<1>2. c \in Nat /\ First(o) \in Nat /\ nextSeq[o] \in Nat /\ chan[o] \in Seq(Events)
      /\ Len(chan[o]) \in Nat
  BY <1>1, StreamType DEF First, TypeOK
<1>3. e \in Events /\ e.type = type /\ e.seq = nextSeq[o]
  BY <1>2, EventIsEvent DEF Event
<1>4. chan'[o] = Append(chan[o], e) /\ nextSeq'[o] = nextSeq[o] + 1
  BY DEF Emit, TypeOK
<1> HIDE DEF e, c
<1>5. /\ Len(chan'[o]) = Len(chan[o]) + 1 /\ chan'[o][Len(chan[o]) + 1] = e
      /\ \A i \in 1..Len(chan[o]) : chan'[o][i] = chan[o][i]
  BY <1>2, <1>3, <1>4
<1>6. nextSeq[o] = First(o) + c + Len(chan[o])
  BY DEF Flow, Numbered, c
<1>7. /\ worker[o] = "start" => nextSeq[o] = First(o)
      /\ worker[o] # "start" => nextSeq[o] > First(o)
  BY DEF Flow, Numbered
<1>8. Numbered(o)'
  <2>1. PICK f \in Nat, l \in Nat : f = First(o) /\ l = Len(chan[o])
    BY <1>2
  <2>2. nextSeq'[o] = f + c + l + 1 /\ Len(chan'[o]) = l + 1
    BY <1>4, <1>5, <1>6, <2>1, Zenon
  <2>3. f + c + l + 1 = f + c + (l + 1) /\ f + c + l + 1 > f
    BY ONLY f \in Nat, l \in Nat, <1>2
  <2>4. nextSeq'[o] = First(o) + c + Len(chan'[o]) /\ nextSeq'[o] > First(o)
    BY <2>1, <2>2, <2>3, Zenon
  <2>5. QED
    BY <1>1, <2>4 DEF Numbered, First, c
<1>9. Ordered(o)'
  <2>1. ~Ended(o)
    BY DEF Flow, Ordered
  <2>2. ASSUME NEW i \in 1..Len(chan'[o])
        PROVE  /\ chan'[o][i].seq = First(o) + c + i - 1
               /\ chan'[o][i].type = "started" <=> c + i = 1
               /\ chan'[o][i].type \in Terminals => i = Len(chan'[o]) /\ worker'[o] = "done"
               /\ chan'[o][i].type = "cancelled" => StopRequested(o)
    <3>1. CASE i \in 1..Len(chan[o])
      <4>1. chan'[o][i] = chan[o][i]
        BY <1>5, <3>1
      <4>2. QED
        BY <3>1, <4>1 DEF Flow, Ordered, c
    <3>2. CASE i = Len(chan[o]) + 1
      <4>1. chan'[o][i] = e
        BY <1>5, <3>2
      <4>2. e.seq = First(o) + c + i - 1
        BY <1>2, <1>3, <1>6, <3>2
      <4>3. worker[o] = "start" <=> c + i = 1
        BY <1>2, <1>6, <1>7, <3>2
      <4>4. QED
        BY <1>3, <1>5, <3>2, <4>1, <4>2, <4>3
    <3>3. QED
      BY <1>2, <1>5, <3>1, <3>2
  <2>3. ~Ended(o)'
    BY <1>1, <2>1 DEF Ended
  <2>4. QED
    BY <1>1, <2>2, <2>3 DEF Ordered, First, c
<1>10. QED
  BY <1>1, <1>8, <1>9 DEF Flow

\* A step of o on its abstract stream.
StreamStep(o) == UNCHANGED <<TranslationEvents(o), StopRequested(o)>> \/ Stream(o)!Next

\* An event that continues the stream is a step of EventStream.
LEMMA StreamTakes ==
  ASSUME NEW o \in Ops, NEW e,
         TranslationEvents(o)' = Append(TranslationEvents(o), Item(e)),
         StopRequested(o)' = StopRequested(o),
         e.seq = First(o) + Len(TranslationEvents(o)),
         e.type \in {"started", "text_delta"} \cup Terminals,
         ~Ended(o),
         e.type = "started" => TranslationEvents(o) = <<>>,
         e.type \in {"text_delta", "completed"} => TranslationEvents(o) # <<>>,
         e.type = "cancelled" => StopRequested(o)
  PROVE  Stream(o)!Next
<1>1. TranslationEvents(o) = <<>> \/ Stream(o)!Open
  BY DEF Ended, Stream!Open, Stream!Terminals, Terminals
<1>2. Stream(o)!Emit(e.type)
  BY DEF Stream!Emit, Item, First
<1>3. CASE e.type = "started"
  BY <1>2, <1>3 DEF Stream!Next, Stream!Start
<1>4. CASE e.type = "text_delta"
  BY <1>1, <1>2, <1>4 DEF Stream!Next, Stream!Delta
<1>5. CASE e.type \in Terminals
  BY <1>1, <1>2, <1>5 DEF Stream!Next, Stream!End, Terminals
<1>6. QED
  BY <1>3, <1>4, <1>5

LEMMA FlowForward ==
  ASSUME TypeOK, Endings, NEW o \in Ops, Flow(o), forward_events(o)
  PROVE  Flow(o)' /\ StreamStep(o)
<1> DEFINE e == Head(chan[o])
           c == Len(TranslationEvents(o))
<1>1. /\ chan[o] # <<>> /\ log' = Append(log, e) /\ chan'[o] = Tail(chan[o])
      /\ UNCHANGED <<worker, nextSeq, run, outcome, cancelled>>
  BY DEF forward_events, SendEvent, TypeOK, slotVars
<1>2. /\ chan[o] \in Seq(Events) /\ Len(chan[o]) \in Nat \ {0} /\ e = chan[o][1] /\ e \in Events
      /\ Len(Tail(chan[o])) = Len(chan[o]) - 1
      /\ \A i \in 1..Len(Tail(chan[o])) : Tail(chan[o])[i] = chan[o][i + 1]
      /\ Len(chan[o]) = 1 => Tail(chan[o]) = <<>>
  <2>1. chan[o] \in Seq(Events) /\ chan[o] # <<>>
    BY <1>1 DEF TypeOK
  <2>2. Tail(chan[o]) \in Seq(Events) /\ Len(Tail(chan[o])) = Len(chan[o]) - 1
    BY <2>1
  <2>3. Len(chan[o]) \in Nat \ {0} /\ e = chan[o][1] /\ e \in Events
    BY <2>1
  <2>4. \A i \in 1..Len(Tail(chan[o])) : Tail(chan[o])[i] = chan[o][i + 1]
    BY <2>1
  <2>5. Len(chan[o]) = 1 => Tail(chan[o]) = <<>>
    <3> SUFFICES ASSUME Len(chan[o]) = 1 PROVE Tail(chan[o]) = <<>>
      OBVIOUS
    <3>1. Len(Tail(chan[o])) = 0
      BY <2>2
    <3>2. QED
      BY ONLY <2>2, <3>1, LengthZero, Zenon
  <2>6. QED
    BY <2>1, <2>2, <2>3, <2>4, <2>5
<1>3. TranslationEvents(o) \in Seq([type : Types, seq : Nat]) /\ c \in Nat /\ First(o) \in Nat
  BY StreamType DEF Flow, First
<1>4. Mine(o, e)
  BY <1>1, <1>2 DEF Endings, Ending, Mine
<1>5. /\ TranslationEvents(o)' = Append(TranslationEvents(o), Item(e))
      /\ Ranked(Positions(o)') /\ StopRequested(o)' = StopRequested(o)
  BY <1>1, <1>2, <1>4, StreamAppend DEF Flow, StopRequested
<1>6. /\ e.seq = First(o) + c /\ (e.type = "started" <=> c = 0)
      /\ e.type \in Terminals => Len(chan[o]) = 1 /\ worker[o] = "done"
      /\ e.type = "cancelled" => StopRequested(o)
  <2>1. 1 \in 1..Len(chan[o])
    BY <1>2
  <2>2. /\ e.seq = First(o) + c + 1 - 1 /\ (e.type = "started" <=> c + 1 = 1)
        /\ e.type \in Terminals => 1 = Len(chan[o]) /\ worker[o] = "done"
        /\ e.type = "cancelled" => StopRequested(o)
    BY <1>2, <2>1 DEF Flow, Ordered
  <2>3. QED
    BY <1>3, <2>2
<1>7. ~Ended(o) /\ worker[o] # "none"
  BY <1>1 DEF Flow, Ordered, Numbered
<1>8. Item(e) \in [type : Types, seq : Nat]
  BY <1>2 DEF Item, Events
<1>9. /\ Len(TranslationEvents(o)') = c + 1
      /\ TranslationEvents(o)' # <<>>
      /\ TranslationEvents(o)'[c + 1] = Item(e)
  BY <1>3, <1>5, <1>8
<1>10. c = 0 <=> TranslationEvents(o) = <<>>
  BY <1>3
<1>11. e.type \in {"started", "text_delta"} \cup Terminals
  BY <1>2, <1>4 DEF Mine, Events, Types
<1> HIDE DEF e, c
<1>12. Numbered(o)'
  <2>1. nextSeq[o] = First(o) + c + Len(chan[o])
    BY <1>7 DEF Flow, Numbered, c
  <2>2. nextSeq'[o] = First(o) + Len(TranslationEvents(o)') + Len(chan'[o])
    BY <1>1, <1>2, <1>3, <1>9, <2>1
  <2>3. worker[o] # "start"
    BY <1>2, <1>3, <2>1 DEF Flow, Numbered
  <2>4. nextSeq'[o] > First(o)
    BY <1>1, <1>7, <2>3 DEF Flow, Numbered
  <2>5. QED
    BY <1>1, <1>7, <2>2, <2>3, <2>4 DEF Numbered, First
<1>13. Ordered(o)'
  <2>1. ASSUME NEW i \in 1..Len(chan'[o])
        PROVE  /\ chan'[o][i].seq = First(o) + (c + 1) + i - 1
               /\ chan'[o][i].type = "started" <=> (c + 1) + i = 1
               /\ chan'[o][i].type \in Terminals => i = Len(chan'[o]) /\ worker[o] = "done"
               /\ chan'[o][i].type = "cancelled" => StopRequested(o)
    <3>1. i \in Nat /\ i + 1 \in 1..Len(chan[o]) /\ chan'[o][i] = chan[o][i + 1]
      BY <1>1, <1>2, <2>1
    <3>2. /\ chan[o][i + 1].seq = First(o) + c + (i + 1) - 1
          /\ chan[o][i + 1].type = "started" <=> c + (i + 1) = 1
          /\ chan[o][i + 1].type \in Terminals => i + 1 = Len(chan[o]) /\ worker[o] = "done"
          /\ chan[o][i + 1].type = "cancelled" => StopRequested(o)
      BY <3>1 DEF Flow, Ordered, c
    <3>3. Len(chan'[o]) = Len(chan[o]) - 1
      BY <1>1, <1>2
    <3>4. chan'[o][i].seq = First(o) + (c + 1) + i - 1
      BY <1>3, <3>1, <3>2
    <3>5. chan'[o][i].type = "started" <=> (c + 1) + i = 1
      <4>1. c + (i + 1) = (c + 1) + i
        BY <1>3, <3>1
      <4>2. QED
        BY <3>1, <3>2, <4>1
    <3>6. chan'[o][i].type \in Terminals => i = Len(chan'[o]) /\ worker[o] = "done"
      BY <1>2, <3>1, <3>2, <3>3
    <3>7. QED
      BY <3>1, <3>2, <3>4, <3>5, <3>6
  <2>2. Ended(o)' => chan'[o] = <<>> /\ worker'[o] \in {"none", "done"}
    BY <1>1, <1>2, <1>6, <1>9 DEF Ended, Item
  <2>3. QED
    BY <1>1, <1>5, <1>9, <2>1, <2>2 DEF Ordered, First
<1>14. Flow(o)'
  BY <1>1, <1>5, <1>12, <1>13 DEF Flow
<1>15. Stream(o)!Next
  BY <1>5, <1>6, <1>7, <1>10, <1>11, StreamTakes DEF Terminals, c
<1>16. QED
  BY <1>14, <1>15 DEF StreamStep

LEMMA FlowFail ==
  ASSUME TypeOK, SecretPath, Stages, NEW o \in Ops, Flow(o), fail_send(o)
  PROVE  Flow(o)' /\ StreamStep(o)
<1> DEFINE t == IF outcome[o] = "cancelled" THEN "cancelled" ELSE "failed"
           e == Event(o, t, 1)
<1>1. /\ log' = Append(log, e) /\ run[o] = "failed" /\ run'[o] = "clear"
      /\ UNCHANGED <<worker, nextSeq, chan, outcome, cancelled>>
  BY DEF fail_send, SendEvent, TypeOK, slotVars, workVars
<1>2. worker[o] = "none" /\ First(o) = 1
  BY <1>1 DEF Stages, Stage, SecretPath, First
<1>3. TranslationEvents(o) = <<>> /\ chan[o] = <<>> /\ nextSeq[o] = 0
  BY <1>1, <1>2 DEF Flow, Numbered
<1>4. e \in Events /\ e.type = t /\ e.seq = 1 /\ e.op = o
  BY EventIsEvent DEF Event, Types, Terminals
<1>5. Mine(o, e)
  BY <1>4 DEF Mine
<1>6. /\ TranslationEvents(o)' = Append(TranslationEvents(o), Item(e))
      /\ Ranked(Positions(o)') /\ StopRequested(o)' = StopRequested(o)
  BY <1>1, <1>4, <1>5, StreamAppend DEF Flow, StopRequested
<1>7. t \in {"failed", "cancelled"} /\ (t = "cancelled" => StopRequested(o))
  BY DEF Flow
<1> HIDE DEF t, e
<1>8. Numbered(o)'
  BY <1>1, <1>2, <1>3 DEF Numbered
<1>9. Ordered(o)'
  BY <1>1, <1>2, <1>3 DEF Ordered
<1>10. Flow(o)'
  BY <1>1, <1>6, <1>8, <1>9 DEF Flow
<1>11. Len(TranslationEvents(o)) = 0 /\ ~Ended(o)
  BY <1>3 DEF Ended
<1>12. /\ e.seq = First(o) + Len(TranslationEvents(o))
       /\ e.type \in {"failed", "cancelled"} /\ (e.type = "cancelled" => StopRequested(o))
  BY <1>2, <1>4, <1>7, <1>11
<1>13. Stream(o)!Next
  BY <1>6, <1>11, <1>12, StreamTakes DEF Terminals
<1>14. QED
  BY <1>10, <1>13 DEF StreamStep

\* Every other step of o: its stream does not move, and the numbers still fit.
LEMMA FlowQuiet ==
  ASSUME TypeOK, SecretPath, Stages, Endings, NEW o \in Ops, Flow(o), OpStep(o),
         ~forward_events(o), ~fail_send(o)
  PROVE  Flow(o)' /\ TranslationEvents(o)' = TranslationEvents(o)
<1>1. cancelled' = cancelled
  BY OpKeepsTokens
<1>2. TranslationEvents(o)' = TranslationEvents(o) /\ Ranked(Positions(o)')
  <2>1. CASE log' = log
    BY <2>1, QuietStream DEF Flow
  <2>2. CASE log' # log
    <3>1. request_task_send(o)
      BY <2>2, LogQuiet
    <3>2. Event(o, "secret_required", 0) \in Events
      BY EventIsEvent DEF Types
    <3>3. ~Mine(o, Event(o, "secret_required", 0))
      BY DEF Mine, Event
    <3>4. log' = Append(log, Event(o, "secret_required", 0))
      BY <3>1 DEF request_task_send, SendEvent
    <3>5. QED
      BY <3>2, <3>3, <3>4, StreamAppend DEF Flow
  <2>3. QED
    BY <2>1, <2>2
<1>3. /\ Stage(o) /\ Len(TranslationEvents(o)) \in Nat
      /\ TranslationEvents(o) = <<>> => Len(TranslationEvents(o)) = 0
  BY StreamType DEF Stages, Flow
\* The worker starts on an empty stream.
<1>4. ASSUME worker[o] = "none", worker'[o] = "start", TranslationEvents(o) = <<>>,
             chan' = chan, nextSeq'[o] = First(o), outcome' = outcome
      PROVE  Flow(o)'
  <2>1. chan[o] = <<>> /\ Len(TranslationEvents(o)) = 0
    BY <1>3, <1>4 DEF Flow, Numbered
  <2>2. Numbered(o)'
    <3>1. First(o) \in Nat
      BY DEF First
    <3>2. nextSeq'[o] = First(o) + Len(TranslationEvents(o)') + Len(chan'[o])
      BY <1>2, <1>4, <2>1, <3>1
    <3>3. QED
      BY <1>4, <3>2 DEF Numbered, First
  <2>3. Ordered(o)'
    BY <1>2, <1>4, <2>1 DEF Ordered, Ended
  <2>4. QED
    BY <1>1, <1>2, <1>4, <2>2, <2>3 DEF Flow, StopRequested
<1>5. CASE SubmitCall(o)
  <2>1. /\ UNCHANGED <<chan, nextSeq, outcome>>
        /\ \/ UNCHANGED <<worker, run>>
           \/ call[o] = "checked" /\ worker' = worker
           \/ /\ call[o] = "entered" /\ o \notin SecretOps
              /\ worker' = [worker EXCEPT ![o] = "start"]
    BY <1>5 DEF SubmitCall, lm_engine_submit, submit_invalid, submit,
       submit_with_host_secret, workVars, slotVars
  <2>2. CASE UNCHANGED <<worker, run>>
    BY <1>1, <1>2, <2>1, <2>2, FlowKept DEF Flow, Numbered
  <2>3. CASE call[o] = "checked" /\ worker' = worker
    <3>1. ~(worker[o] = "none" /\ TranslationEvents(o) # <<>>)
      BY <1>3, <2>3 DEF Stage, Flow, Numbered
    <3>2. QED
      BY <1>1, <1>2, <2>1, <2>3, <3>1, FlowKept
  <2>4. CASE /\ call[o] = "entered" /\ o \notin SecretOps
             /\ worker' = [worker EXCEPT ![o] = "start"]
    <3>1. worker[o] = "none" /\ run[o] = "none" /\ worker'[o] = "start"
      BY <1>3, <2>4 DEF Stage, TypeOK
    <3>2. TranslationEvents(o) = <<>> /\ nextSeq[o] = 0 /\ First(o) = 0
      BY <2>4, <3>1 DEF Flow, Numbered, First
    <3>3. chan' = chan /\ nextSeq'[o] = First(o) /\ outcome' = outcome
      BY <2>1, <3>2
    <3>4. QED
      BY <1>2, <1>4, <3>1, <3>2, <3>3
  <2>5. QED
    BY <2>1, <2>2, <2>3, <2>4
<1>6. CASE ResponseCall(o) \/ RequestTask(o)
  <2>1. UNCHANGED <<chan, nextSeq, outcome, worker, run>>
    BY <1>6 DEF ResponseCall, send_host_response, respond, RequestTask,
       request_task_recv, request_task_insert, request_task_send, request_task_end, workVars
  <2>2. QED
    BY <1>1, <1>2, <2>1, FlowKept DEF Flow, Numbered
<1>7. CASE RunTask(o)
  <2>1. CASE start_translation(o)
    <3>1. /\ run[o] = "resolved" /\ worker'[o] = "start" /\ nextSeq'[o] = 1
          /\ UNCHANGED <<chan, outcome>>
      BY <2>1 DEF start_translation, TypeOK
    <3>2. worker[o] = "none" /\ First(o) = 1
      BY <1>3, <3>1 DEF Stage, SecretPath, First
    <3>3. TranslationEvents(o) = <<>>
      BY <3>1, <3>2 DEF Flow, Numbered
    <3>4. chan' = chan /\ nextSeq'[o] = First(o) /\ outcome' = outcome
      BY <3>1, <3>2
    <3>5. QED
      BY <1>2, <1>4, <3>1, <3>2, <3>3, <3>4
  <2>2. CASE ~start_translation(o)
    <3>1. /\ UNCHANGED <<chan, nextSeq, worker>>
          /\ outcome'[o] = "cancelled" => outcome[o] = "cancelled" \/ HostCancelled(o)
          /\ run[o] \in {"clear", "release", "done"} => run'[o] \in {"clear", "release", "done"}
      BY <1>7, <2>2 DEF RunTask, resolve_queue, resolve_wait, build_provider_fails,
         install_operation_token, forward_events_end, sweep_pending, fail_clear_pending,
         fail_release, Fail, TypeOK, workVars
    <3>2. HostCancelled(o) => StopRequested(o)
      BY DEF HostCancelled, StopRequested, Tokens
    <3>3. worker[o] = "none" /\ TranslationEvents(o) # <<>> =>
            run'[o] \in {"clear", "release", "done"}
      BY <3>1 DEF Flow, Numbered
    <3>4. QED
      BY <1>1, <1>2, <3>1, <3>2, <3>3, FlowKept
  <2>3. QED
    BY <2>1, <2>2
<1>8. CASE Worker(o)
  <2>1. UNCHANGED <<log, outcome, run>>
    BY <1>8 DEF Worker, worker_started, worker_open, worker_delta, worker_end,
       worker_terminal, WorkerMoves, eventVars
  <2>2. CASE worker_open(o) \/ worker_end(o)
    <3>1. /\ UNCHANGED <<chan, nextSeq>>
          /\ worker[o] \in {"open", "stream"}
          /\ worker'[o] \in {"stream", "completed", "failed", "cancelled"}
          /\ worker'[o] = "cancelled" => EngineCancelled(o)
      BY <2>2 DEF worker_open, worker_end, WorkerMoves, TypeOK
    <3>2. EngineCancelled(o) => StopRequested(o)
      BY DEF EngineCancelled, StopRequested, Tokens
    <3>3. Numbered(o)'
      BY <1>2, <3>1 DEF Flow, Numbered, First
    <3>4. Ordered(o)'
      <4>1. ~Ended(o) /\ ~Ended(o)'
        BY <1>2, <3>1 DEF Flow, Ordered, Ended
      <4>2. StopRequested(o)' = StopRequested(o)
        BY <1>1 DEF StopRequested
      <4>3. QED
        BY <1>2, <3>1, <4>1, <4>2 DEF Flow, Ordered, First
    <3>5. QED
      BY <1>1, <1>2, <2>1, <3>1, <3>2, <3>3, <3>4 DEF Flow, StopRequested
  <2>3. CASE worker_started(o)
    <3>1. worker[o] = "start" /\ worker'[o] = "open" /\ Emit(o, "started")
      BY <2>3 DEF worker_started, WorkerMoves, TypeOK
    <3>2. "started" \in Types /\ "started" \notin Terminals /\ "started" # "cancelled"
      BY DEF Types, Terminals
    <3>3. QED
      BY <1>1, <1>2, <2>1, <3>1, <3>2, FlowEmit
  <2>4. CASE worker_delta(o)
    <3>1. worker[o] = "stream" /\ worker'[o] = "stream" /\ Emit(o, "text_delta")
      BY <2>4 DEF worker_delta, WorkerMoves, TypeOK
    <3>2. "text_delta" \in Types \ {"started"} /\ "text_delta" \notin Terminals
      BY DEF Types, Terminals
    <3>3. QED
      BY <1>1, <1>2, <2>1, <3>1, <3>2, FlowEmit
  <2>5. CASE worker_terminal(o)
    <3>1. worker[o] \in Terminals /\ worker'[o] = "done" /\ Emit(o, worker[o])
      BY <2>5 DEF worker_terminal, WorkerMoves, TypeOK
    <3>2. worker[o] = "cancelled" => StopRequested(o)
      BY DEF Flow
    <3>3. worker[o] \in Types \ {"started"} /\ worker[o] # "start"
      BY <3>1 DEF Types, Terminals
    <3>4. worker[o] \notin {"none", "done"}
      BY <3>1 DEF Terminals
    <3>5. QED
      BY <1>1, <1>2, <2>1, <3>1, <3>2, <3>3, <3>4, FlowEmit
  <2>6. QED
    BY <1>8, <2>2, <2>3, <2>4, <2>5 DEF Worker
<1>9. QED
  BY <1>2, <1>5, <1>6, <1>7, <1>8 DEF OpStep

LEMMA FlowsStep ==
  ASSUME TypeOK, SecretPath, Stages, Endings, Flows, [Next]_vars
  PROVE  Flows' /\ \A o \in Ops : StreamStep(o)
<1>1. CASE HostStep
  <2>1. /\ UNCHANGED <<run, worker, outcome, chan, nextSeq, log>>
        /\ cancelled \subseteq cancelled'
    BY <1>1, HostFrame, HostCancels
  <2>2. ASSUME NEW o \in Ops PROVE Flow(o)' /\ StreamStep(o)
    <3>1. Flow(o) /\ TranslationEvents(o)' = TranslationEvents(o) /\ Ranked(Positions(o)')
      BY <2>1, QuietStream DEF Flows, Flow
    <3>2. Flow(o)'
      BY <2>1, <3>1, FlowKept DEF Flow, Numbered
    <3>3. StopRequested(o) \in BOOLEAN /\ StopRequested(o)' \in BOOLEAN
      BY DEF StopRequested
    <3>4. CASE StopRequested(o)' = StopRequested(o)
      BY <3>1, <3>2, <3>4, Zenon DEF StreamStep
    <3>5. CASE ~StopRequested(o) /\ StopRequested(o)'
      <4>1. StopRequested(o)' = TRUE
        BY <3>3, <3>5
      <4>2. Stream(o)!RequestStop
        BY <3>1, <3>5, <4>1, Zenon DEF Stream!RequestStop
      <4>3. QED
        BY <3>2, <4>2, Zenon DEF StreamStep, Stream!Next
    <3>6. StopRequested(o) => StopRequested(o)'
      BY <2>1, StopStays
    <3>7. QED
      BY <3>2, <3>3, <3>4, <3>5, <3>6
  <2>3. QED
    BY <2>2 DEF Flows
<1>2. ASSUME NEW o \in Ops, OpStep(o) PROVE Flows' /\ \A p \in Ops : StreamStep(p)
  <2>1. \A p \in Ops : StopRequested(p)' = StopRequested(p)
    BY <1>2, OpKeepsTokens DEF StopRequested
  <2>2. ASSUME NEW p \in Ops, p # o PROVE Flow(p)' /\ StreamStep(p)
    BY <1>2, <2>1, <2>2, FlowOther DEF StreamStep
  <2>3. Flow(o)' /\ StreamStep(o)
    <3>1. Flow(o)
      BY DEF Flows
    <3>2. CASE forward_events(o)
      BY <3>1, <3>2, FlowForward
    <3>3. CASE fail_send(o)
      BY <3>1, <3>3, FlowFail
    <3>4. CASE ~forward_events(o) /\ ~fail_send(o)
      BY <1>2, <2>1, <3>1, <3>4, FlowQuiet DEF StreamStep
    <3>5. QED
      BY <3>2, <3>3, <3>4
  <2>4. QED
    BY <2>2, <2>3 DEF Flows
<1>3. QED
  BY <1>1, <1>2, StepKinds

LEMMA FlowsInit ==
  ASSUME Init
  PROVE  Flows /\ \A o \in Ops : Stream(o)!Init
<1> SUFFICES ASSUME NEW o \in Ops PROVE Flow(o) /\ Stream(o)!Init
  BY DEF Flows
<1>1. Positions(o) = {}
  BY DEF Init, Positions
<1>2. Cardinality(Positions(o)) = 0
  BY <1>1, FS_EmptySet
<1>3. TranslationEvents(o) = <<>> /\ Ranked(Positions(o))
  BY <1>2 DEF TranslationEvents, Ranked
<1>4. Flow(o)
  BY <1>3 DEF Init, Flow, Numbered, Ordered, Ended
<1>5. Stream(o)!Init
  BY <1>3 DEF Stream!Init, StopRequested
<1>6. QED
  BY <1>4, <1>5

\* The C ABI engine implements the abstract event stream for every operation at
\* once: each step of the whole system, threads, tasks and queue, is for each
\* operation a step of EventStream or leaves what the host can receive alone.
THEOREM EngineImplementsStreams == Spec => StreamsImplemented
<1>1. Init => SecretPath /\ Flows /\ \A o \in Ops : Stream(o)!Init
  BY FlowsInit DEF Init, SecretPath
<1>2. TypeOK /\ Stages /\ Endings /\ SecretPath /\ Flows /\ [Next]_vars
        => SecretPath' /\ Flows'
  BY SecretPathStep, FlowsStep
<1>3. TypeOK /\ Stages /\ Endings /\ SecretPath /\ Flows /\ [Next]_vars
        => [\A o \in Ops : UNCHANGED <<TranslationEvents(o), StopRequested(o)>>
                             \/ Stream(o)!Next]_vars
  BY FlowsStep DEF StreamStep
<1>4. QED
  BY <1>1, <1>2, <1>3, TypeCorrect, StagesAlways, EndingsAlways, PTL
     DEF Spec, StreamsImplemented
=============================================================================
