------------------------- MODULE TranslationEngine -------------------------
(***************************************************************************)
(* The worker task of TranslationEngine::translate                         *)
(* (crates/linguamesh-engine/src/lib.rs) driving one of the adapters       *)
(* (crates/linguamesh-provider-{openai,anthropic,gemini,ollama}): several  *)
(* operations share one adapter session with its credential, each sends    *)
(* the chunks of its source one request after the other and turns the      *)
(* server's stream into events on a bounded channel.  close_session ends   *)
(* the session underneath them.  The adapters differ in how they read the  *)
(* server's events, in what the end of the body means and in whether they  *)
(* look at the session again behind the credential lock.                   *)
(*                                                                         *)
(* The server is the environment: a read yields any list of its events, an *)
(* error, silence or the end of the body.                                  *)
(***************************************************************************)
EXTENDS Naturals, Sequences, SequencesExt

CONSTANTS
  Ops,            \* operations on the session
  Chunks,         \* provider requests per operation (chunks of the source)
  EventCapacity,  \* EVENT_CAPACITY of the event channel (32 in the code)
  MaxReads,       \* reads until MAX_RESPONSE_BYTES is exceeded
  MaxBatch        \* messages decoded from one read

ASSUME EngineAssumption ==
  /\ Chunks \in Nat \ {0}
  /\ EventCapacity \in Nat \ {0}
  /\ MaxReads \in Nat
  /\ MaxBatch \in Nat

VARIABLES
  adapter,     \* the adapter and protocol of the session
  blank,       \* operations whose source is only white space
  session,     \* session_cancellation: "open" or "closed"
  credential,  \* CredentialState
  closing,     \* the thread inside close_session
  pc,          \* worker tasks
  token,       \* cancelled operation tokens
  chunk,       \* the request being made, 1..Chunks
  reads,       \* reads of its response
  inbox,       \* decoded messages not yet handled
  text,        \* the operation has produced output
  events,      \* the bounded channel
  sent,        \* history: every event put into it
  marked,      \* history: requests whose completion marker was read
  dropped      \* operations whose receiver is gone

vars == <<adapter, blank, session, credential, closing, pc, token, chunk, reads, inbox,
          text, events, sent, marked, dropped>>

sessionVars == <<adapter, blank, session, credential, closing>>
chanVars    == <<events, sent>>
requestVars == <<chunk, reads, inbox, text, marked>>

Terminals == {"completed", "cancelled", "failed"}
EventSet  == [type : {"started", "text_delta"} \cup Terminals, seq : Nat]

Pcs == {"start", "validate", "request", "locked", "send", "read", "messages", "final",
        "tail", "output", "done"} \cup Terminals

Adapters == {"chat", "responses", "anthropic", "gemini", "ollama"}

-----------------------------------------------------------------------------
(* What the adapters make of the server's events.                          *)

\* An event of the server as it comes over the wire: does it hold text, a usage
\* record, the end of the answer?
Wire == [text : BOOLEAN, usage : BOOLEAN, end : BOOLEAN]

\* What the read loop sees: text for the restorer, the completion marker.
Messages == [text : BOOLEAN, done : BOOLEAN]

\* parse_event of chat completions: usage hides the text beside it.
ChatParse(w) ==
  IF w.end THEN "Done" ELSE IF w.usage THEN "Usage" ELSE IF w.text THEN "Delta" ELSE "Empty"

\* parse_responses_event: events have one type, the last one may hold usage.
ResponsesParse(w) ==
  CASE w.end /\ w.usage -> "UsageAndDone"
    [] w.end /\ ~w.usage -> "Done"
    [] ~w.end -> IF w.text THEN "Delta" ELSE "Empty"

\* The match over SseMessage in the OpenAI-compatible read loop.
OpenAiMessage(sse) == [text |-> sse = "Delta", done |-> sse \in {"UsageAndDone", "Done"}]

\* parse_event of Anthropic: usage is looked for before the type of the event.
AnthropicParse(w) ==
  IF w.usage THEN "Usage" ELSE IF w.end THEN "Done" ELSE IF w.text THEN "Delta" ELSE "Empty"

AnthropicMessage(sse) == [text |-> sse = "Delta", done |-> sse = "Done"]

\* parse_event of Gemini: text, usage and finishReason may come in one event.
GeminiParse(w) ==
  CASE w.end /\ w.usage -> IF w.text THEN "DeltaAndUsageAndDone" ELSE "UsageAndDone"
    [] w.end /\ ~w.usage -> IF w.text THEN "DeltaAndDone" ELSE "Done"
    [] ~w.end -> IF w.text THEN "Delta" ELSE IF w.usage THEN "Usage" ELSE "Empty"

GeminiMessage(sse) ==
  [text |-> sse \in {"Delta", "DeltaAndDone", "DeltaAndUsageAndDone"},
   done |-> sse \in {"DeltaAndDone", "DeltaAndUsageAndDone", "UsageAndDone", "Done"}]

\* parse_line of Ollama: a line may hold text and the end.
OllamaMessage(w) == [text |-> w.text, done |-> w.end]

Decoded ==
  CASE adapter = "chat"      -> {OpenAiMessage(ChatParse(w)) : w \in Wire}
    [] adapter = "responses" -> {OpenAiMessage(ResponsesParse(w)) : w \in Wire}
    [] adapter = "anthropic" -> {AnthropicMessage(AnthropicParse(w)) : w \in Wire}
    [] adapter = "gemini"    -> {GeminiMessage(GeminiParse(w)) : w \in Wire}
    [] adapter = "ollama"    -> {OllamaMessage(w) : w \in Wire}

-----------------------------------------------------------------------------

TypeOK ==
  /\ adapter \in Adapters
  /\ blank \subseteq Ops
  /\ session \in {"open", "closed"}
  /\ credential \in {"not_required", "available", "cleared"}
  /\ closing \in {"idle", "cancelled", "returned"}
  /\ pc \in [Ops -> Pcs]
  /\ token \subseteq Ops
  /\ chunk \in [Ops -> 1..Chunks]
  /\ reads \in [Ops -> Nat]
  /\ inbox \in [Ops -> Seq(Messages)]
  /\ text \in [Ops -> BOOLEAN]
  /\ events \in [Ops -> Seq(EventSet)]
  /\ \A o \in Ops : Len(events[o]) <= EventCapacity
  /\ sent \in [Ops -> Seq(EventSet)]
  /\ marked \in [Ops -> 0..Chunks]
  /\ dropped \subseteq Ops

Init ==
  /\ adapter \in Adapters
  /\ blank \in SUBSET Ops
  /\ session = "open" /\ credential \in {"not_required", "available"} /\ closing = "idle"
  /\ pc = [o \in Ops |-> "start"]
  /\ token = {} /\ dropped = {}
  /\ chunk = [o \in Ops |-> 1]
  /\ reads = [o \in Ops |-> 0]
  /\ inbox = [o \in Ops |-> <<>>]
  /\ text = [o \in Ops |-> FALSE]
  /\ events = [o \in Ops |-> <<>>]
  /\ sent = [o \in Ops |-> <<>>]
  /\ marked = [o \in Ops |-> 0]

-----------------------------------------------------------------------------
Goto(o, label) == pc' = [pc EXCEPT ![o] = label]

\* An event enters the channel, which may have to wait for room.
Push(o, type) ==
  LET e == [type |-> type, seq |-> Len(sent[o])] IN
  /\ o \notin dropped /\ Len(events[o]) < EventCapacity
  /\ events' = [events EXCEPT ![o] = Append(@, e)]
  /\ sent' = [sent EXCEPT ![o] = Append(@, e)]

\* sender.send: the event is queued and the worker goes on, or the receiver is
\* gone and the worker cancels its own token and returns.
Send(o, type, label) ==
  \/ Push(o, type) /\ Goto(o, label) /\ UNCHANGED token
  \/ /\ o \in dropped
     /\ token' = token \cup {o}
     /\ Goto(o, "done")
     /\ UNCHANGED chanVars

-----------------------------------------------------------------------------
(* The caller and the session.                                             *)

\* next_event
receive(o) ==
  /\ o \notin dropped /\ events[o] # <<>>
  /\ events' = [events EXCEPT ![o] = Tail(@)]
  /\ UNCHANGED <<sessionVars, pc, token, requestVars, sent, dropped>>

\* TranslationOperation::cancel, or CancellationHandle::cancel.
cancel(o) ==
  /\ token' = token \cup {o}
  /\ UNCHANGED <<sessionVars, pc, requestVars, chanVars, dropped>>

\* The operation value is dropped and its receiver with it.
drop_operation(o) ==
  /\ dropped' = dropped \cup {o}
  /\ events' = [events EXCEPT ![o] = <<>>]
  /\ UNCHANGED <<sessionVars, pc, token, requestVars, sent>>

\* close_session first cancels the session ...
close_session ==
  /\ closing = "idle"
  /\ session' = "closed"
  /\ closing' = "cancelled"
  /\ UNCHANGED <<adapter, blank, credential, pc, token, requestVars, chanVars, dropped>>

\* ... and then clears the credential under its lock.
clear_credential ==
  /\ closing = "cancelled"
  /\ credential' = IF credential = "available" THEN "cleared" ELSE credential
  /\ closing' = "returned"
  /\ UNCHANGED <<adapter, blank, session, pc, token, requestVars, chanVars, dropped>>

-----------------------------------------------------------------------------
(* The worker.                                                             *)

worker_started(o) ==
  /\ pc[o] = "start"
  /\ Send(o, "started", "validate")
  /\ UNCHANGED <<sessionVars, requestVars, dropped>>

\* TranslationRequest::validate, glossary and chunking before any request.
worker_validate(o) ==
  /\ pc[o] = "validate"
  /\ \E label \in {"request", "failed"} : Goto(o, label)
  /\ UNCHANGED <<sessionVars, token, requestVars, chanVars, dropped>>

\* request: the session is looked at before the credential is locked ...
request(o) ==
  /\ pc[o] = "request"
  /\ Goto(o, IF session = "closed" THEN "cancelled" ELSE "locked")
  /\ UNCHANGED <<sessionVars, token, requestVars, chanVars, dropped>>

\* Mutant: ... and not again behind the lock.
request_locked_unchecked(o) ==
  /\ pc[o] = "locked" /\ adapter # "ollama"
  /\ Goto(o, IF credential = "cleared" THEN "failed" ELSE "send")
  /\ UNCHANGED <<sessionVars, token, requestVars, chanVars, dropped>>

\* ... and again once it is; a cleared credential is an error.
request_locked(o) ==
  /\ pc[o] = "locked" /\ adapter # "ollama"
  /\ Goto(o, IF session = "closed" THEN "cancelled"
             ELSE IF credential = "cleared" THEN "failed" ELSE "send")
  /\ UNCHANGED <<sessionVars, token, requestVars, chanVars, dropped>>

\* Ollama only looks at the credential behind the lock.
ollama_request_locked(o) ==
  /\ pc[o] = "locked" /\ adapter = "ollama"
  /\ Goto(o, IF credential = "cleared" THEN "failed" ELSE "send")
  /\ UNCHANGED <<sessionVars, token, requestVars, chanVars, dropped>>

Interrupted(o) == o \in token \/ session = "closed"

\* Waiting for the response head: cancellation of the operation or of the
\* session is preferred; otherwise a successful head, a status or an error.
send_request(o) ==
  /\ pc[o] = "send"
  /\ \/ Interrupted(o) /\ Goto(o, "cancelled")
     \/ ~Interrupted(o) /\ \E label \in {"read", "failed"} : Goto(o, label)
  /\ UNCHANGED <<sessionVars, token, requestVars, chanVars, dropped>>

\* Mutant: the end of the body is taken for the completion marker.
read_stream_end_completes(o) ==
  /\ pc[o] = "read"
  /\ \/ /\ Goto(o, IF Interrupted(o) THEN "cancelled" ELSE "tail")
        /\ UNCHANGED <<reads, inbox>>
     \/ /\ ~Interrupted(o)
        /\ reads[o] < MaxReads
        /\ reads' = [reads EXCEPT ![o] = @ + 1]
        /\ \E batch \in BoundedSeq(Decoded, MaxBatch) : inbox' = [inbox EXCEPT ![o] = batch]
        /\ Goto(o, "messages")
  /\ UNCHANGED <<sessionVars, token, chunk, text, marked, chanVars, dropped>>

\* Mutant: a silent server is waited for without a timeout.
read_stream_no_timeout(o) ==
  /\ pc[o] = "read"
  /\ \/ Interrupted(o) /\ Goto(o, "cancelled") /\ UNCHANGED <<reads, inbox>>
     \/ /\ ~Interrupted(o)
        /\ reads[o] < MaxReads
        /\ reads' = [reads EXCEPT ![o] = @ + 1]
        /\ \E batch \in BoundedSeq(Decoded, MaxBatch) : inbox' = [inbox EXCEPT ![o] = batch]
        /\ Goto(o, "messages")
  /\ UNCHANGED <<sessionVars, token, chunk, text, marked, chanVars, dropped>>

\* One turn of the read loop: cancellation first; then silence (idle timeout),
\* a transport error, a malformed message or the body's end before the
\* completion marker, all failures; or a batch of messages within the limit.
read_stream(o) ==
  /\ pc[o] = "read"
  /\ \/ /\ Goto(o, IF Interrupted(o) THEN "cancelled" ELSE "failed")
        /\ UNCHANGED <<reads, inbox>>
     \/ /\ ~Interrupted(o)
        /\ reads[o] < MaxReads
        /\ reads' = [reads EXCEPT ![o] = @ + 1]
        /\ \E batch \in BoundedSeq(Decoded, MaxBatch) : inbox' = [inbox EXCEPT ![o] = batch]
        /\ Goto(o, "messages")
  /\ UNCHANGED <<sessionVars, token, chunk, text, marked, chanVars, dropped>>

\* Ollama's decoder is asked for an unterminated last line when the body ends.
ollama_body_end(o) ==
  /\ pc[o] = "read" /\ adapter = "ollama" /\ ~Interrupted(o)
  /\ \E message \in Decoded : inbox' = [inbox EXCEPT ![o] = <<message>>]
  /\ Goto(o, "final")
  /\ UNCHANGED <<sessionVars, token, chunk, reads, text, marked, chanVars, dropped>>

\* The messages of one read are all handled, up to the marker, before
\* cancellation is looked at again; after the last line there is no more read.
batch_done(o) ==
  /\ pc[o] \in {"messages", "final"} /\ inbox[o] = <<>>
  /\ Goto(o, IF pc[o] = "messages" THEN "read" ELSE "failed")
  /\ UNCHANGED <<sessionVars, token, requestVars, chanVars, dropped>>

\* A message is taken; what is behind the completion marker is discarded.
TakeMessage(o, message) ==
  /\ pc[o] \in {"messages", "final"} /\ inbox[o] # <<>> /\ message = Head(inbox[o])
  /\ inbox' = [inbox EXCEPT ![o] = IF message.done THEN <<>> ELSE Tail(@)]
  /\ marked' = [marked EXCEPT ![o] = IF message.done THEN @ + 1 ELSE @]
  /\ UNCHANGED <<sessionVars, chunk, reads, dropped>>

AfterMessage(o, message) == IF message.done THEN "tail" ELSE pc[o]

\* Text goes through the restorer, which fails, holds it back or lets text
\* through; that is sent as an event.
message_text(o) ==
  \E message \in Messages :
    /\ TakeMessage(o, message) /\ message.text
    /\ \/ /\ \E label \in {AfterMessage(o, message), "failed"} : Goto(o, label)
          /\ UNCHANGED <<token, chanVars, text>>
       \/ /\ Send(o, "text_delta", AfterMessage(o, message))
          /\ text' = [text EXCEPT ![o] = TRUE]

\* Usage records and empty deltas produce no event.
message_no_text(o) ==
  \E message \in Messages :
    /\ TakeMessage(o, message) /\ ~message.text
    /\ Goto(o, AfterMessage(o, message))
    /\ UNCHANGED <<token, text, chanVars>>

NextLabel(o) == IF chunk[o] < Chunks THEN "request" ELSE "output"

\* The restorer's rest may fail or be text; then comes the next chunk.
restorer_finish(o) ==
  /\ pc[o] = "tail"
  /\ \/ Goto(o, "failed") /\ UNCHANGED <<token, chanVars, requestVars>>
     \/ /\ \/ Goto(o, NextLabel(o)) /\ UNCHANGED <<token, chanVars, text>>
           \/ /\ Send(o, "text_delta", NextLabel(o))
              /\ text' = [text EXCEPT ![o] = TRUE]
        /\ chunk' = [chunk EXCEPT ![o] = IF @ < Chunks THEN @ + 1 ELSE @]
        /\ reads' = [reads EXCEPT ![o] = 0]
        /\ UNCHANGED <<inbox, marked>>
  /\ UNCHANGED <<sessionVars, dropped>>

\* validate_translation_output: no output, or damaged text, is a failure,
\* except for a blank source, where anything is accepted.
validate_translation_output(o) ==
  /\ pc[o] = "output"
  /\ \/ o \notin blank /\ Goto(o, "failed")
     \/ (text[o] \/ o \in blank) /\ Goto(o, "completed")
  /\ UNCHANGED <<sessionVars, token, requestVars, chanVars, dropped>>

\* Mutant: a dropped terminal event is sent again.
send_terminal_twice(o) ==
  /\ pc[o] \in Terminals
  /\ \/ Push(o, pc[o]) /\ \E label \in {pc[o], "done"} : Goto(o, label)
     \/ o \in dropped /\ UNCHANGED chanVars /\ Goto(o, "done")
  /\ UNCHANGED <<sessionVars, token, requestVars, dropped>>

\* send_error_terminal, and the last send of a completed translation: whether
\* the event still has a receiver makes no difference.
send_terminal(o) ==
  /\ pc[o] \in Terminals
  /\ \/ Push(o, pc[o])
     \/ o \in dropped /\ UNCHANGED chanVars
  /\ Goto(o, "done")
  /\ UNCHANGED <<sessionVars, token, requestVars, dropped>>

-----------------------------------------------------------------------------
Worker(o) ==
  \/ worker_started(o) \/ worker_validate(o)
  \/ request(o) \/ request_locked(o) \/ ollama_request_locked(o) \/ send_request(o)
  \/ read_stream(o) \/ ollama_body_end(o) \/ batch_done(o)
  \/ message_text(o) \/ message_no_text(o)
  \/ restorer_finish(o) \/ validate_translation_output(o) \/ send_terminal(o)

Next ==
  \/ \E o \in Ops : Worker(o) \/ receive(o) \/ cancel(o) \/ drop_operation(o)
  \/ close_session \/ clear_credential

Spec == Init /\ [][Next]_vars

\* Tasks run, request and idle timeouts end every wait for the server, and a
\* caller that has not dropped its operation receives what is there.
Fairness == \A o \in Ops : WF_vars(Worker(o)) /\ WF_vars(receive(o))

FairSpec == Spec /\ Fairness

-----------------------------------------------------------------------------
(* Properties.                                                             *)

\* Seen through its channel an operation is an EventStream that starts at 0
\* and may be stopped by its own token or by the session.
Stream(o) == INSTANCE EventStream WITH Offset <- 0, sent <- sent[o], stop <- Interrupted(o)

\* Every operation implements the abstract event stream: its specification,
\* with the quantifier over the operations moved inside the temporal operator.
StreamsImplemented ==
  /\ \A o \in Ops : Stream(o)!Init
  /\ [][\A o \in Ops : [Stream(o)!Next]_<<sent[o], Interrupted(o)>>]_vars

\* `completed' means the whole source was translated: every request of the
\* operation was answered up to its completion marker and there is output,
\* unless there was nothing to translate.
CompletedMeansWhole ==
  TypeOK /\ \A o \in Ops : (\E i \in 1..Len(sent[o]) : sent[o][i].type = "completed") =>
    /\ marked[o] = Chunks
    /\ o \in blank \/ \E i \in 1..Len(sent[o]) : sent[o][i].type = "text_delta"

\* Once close_session has returned no new request is built: not one that waits
\* for the credential lock, not the next chunk, not a session without a
\* credential.  Only Ollama without a credential may still build one.
NoRequestAfterClose ==
  [][\A o \in Ops : pc[o] # "send" /\ pc'[o] = "send" /\ closing = "returned" =>
       adapter = "ollama" /\ credential = "not_required"]_vars

\* Every operation ends: completed, failed, cancelled or dropped, whatever the
\* server does and whenever the session is closed.
EveryOperationEnds == \A o \in Ops : <>(pc[o] = "done")
=============================================================================
