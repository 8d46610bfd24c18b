----------------------- MODULE TranslationEngineProofs -----------------------
(***************************************************************************)
(* Theorems about the worker of a translation and the adapters' sessions,  *)
(* for any number of operations, chunks, reads and messages.               *)
(***************************************************************************)
EXTENDS TranslationEngine, TLAPS

LEMMA DecodedAreMessages == TypeOK => Decoded \subseteq Messages
<1> SUFFICES ASSUME TypeOK PROVE Decoded \subseteq Messages
  OBVIOUS
<1>1. \A sse : OpenAiMessage(sse) \in Messages
  BY DEF OpenAiMessage, Messages
<1>2. \A sse : AnthropicMessage(sse) \in Messages
  BY DEF AnthropicMessage, Messages
<1>3. \A sse : GeminiMessage(sse) \in Messages
  BY DEF GeminiMessage, Messages
<1>4. \A w \in Wire : OllamaMessage(w) \in Messages
  BY DEF OllamaMessage, Messages, Wire
<1>5. QED
  BY <1>1, <1>2, <1>3, <1>4 DEF Decoded, TypeOK, Adapters

LEMMA BatchesAreMessages ==
  ASSUME TypeOK, NEW batch \in BoundedSeq(Decoded, MaxBatch)
  PROVE  batch \in Seq(Messages)
<1>1. PICK m \in 0..MaxBatch : batch \in [1..m -> Decoded]
  BY DEF BoundedSeq, SeqOf
<1>2. m \in Nat /\ batch \in [1..m -> Messages]
  BY <1>1, DecodedAreMessages, EngineAssumption DEF EngineAssumption
<1>3. QED
  BY <1>2

(***************************************************************************)
(* The inductive invariant, in parts.  Requests are answered one after the *)
(* other: while one is made, every earlier one has its marker.  A worker   *)
(* that is still running has sent `started' and no terminal event, and its *)
(* `cancelled' has a reason.  close_session leaves no credential behind.   *)
(***************************************************************************)
Requesting == {"start", "validate", "request", "locked", "send", "read", "messages", "final"}

HasDelta(o) == \E i \in 1..Len(sent[o]) : sent[o][i].type = "text_delta"

Marks ==
  \A o \in Ops :
    /\ pc[o] \in Requesting => marked[o] + 1 = chunk[o]
    /\ pc[o] = "tail" => marked[o] = chunk[o]
    /\ pc[o] \in {"output", "completed"} => marked[o] = Chunks

Output ==
  \A o \in Ops :
    /\ text[o] /\ pc[o] # "done" => HasDelta(o)
    /\ pc[o] = "completed" => o \in blank \/ HasDelta(o)

Ended ==
  \A o \in Ops : \A i \in 1..Len(sent[o]) : sent[o][i].type \in Terminals => pc[o] = "done"

Started ==
  \A o \in Ops :
    /\ pc[o] = "start" => sent[o] = <<>>
    /\ pc[o] \notin {"start", "done"} => sent[o] # <<>>

Whole ==
  \A o \in Ops : (\E i \in 1..Len(sent[o]) : sent[o][i].type = "completed") =>
    marked[o] = Chunks /\ (o \in blank \/ HasDelta(o))

Stopped == \A o \in Ops : pc[o] = "cancelled" => Interrupted(o)

Closed ==
  /\ closing # "idle" => session = "closed"
  /\ closing = "returned" => credential # "available"

EngineInv ==
  TypeOK /\ Marks /\ Output /\ Ended /\ Started /\ Whole /\ Stopped /\ Closed

LEMMA EngineInit == Init => EngineInv
<1> SUFFICES ASSUME Init PROVE EngineInv
  OBVIOUS
<1>1. events \in [Ops -> Seq(EventSet)] /\ sent \in [Ops -> Seq(EventSet)]
  BY DEF Init
<1>2. inbox \in [Ops -> Seq(Messages)]
  BY DEF Init
<1>3. TypeOK
  BY <1>1, <1>2, EngineAssumption DEF EngineAssumption, Init, TypeOK, Pcs
<1>4. \A o \in Ops : sent[o] = <<>>
  BY DEF Init
<1>5. Marks /\ Closed /\ Started /\ Stopped
  BY <1>4, EngineAssumption DEF EngineAssumption, Init, Marks, Closed, Started, Stopped
<1>6. Output /\ Ended /\ Whole
  BY <1>4 DEF Init, Output, Ended, Whole
<1>7. QED
  BY <1>3, <1>5, <1>6 DEF EngineInv

\* The label a worker goes to, when it does nothing but go there, keeps the
\* invariant under these conditions.
LEMMA QuietStep ==
  ASSUME EngineInv, NEW o \in Ops, NEW label \in Pcs, Goto(o, label),
         UNCHANGED <<adapter, blank, session, credential, closing, token, chunk,
                     text, events, sent, marked, dropped>>,
         reads' \in [Ops -> Nat], inbox' \in [Ops -> Seq(Messages)],
         pc[o] \notin {"start", "done"}, label \notin {"start", "tail", "output", "done"},
         label \in Requesting => pc[o] \in Requesting,
         label = "completed" => pc[o] = "output" /\ (text[o] \/ o \in blank),
         label = "cancelled" => Interrupted(o)
  PROVE  EngineInv'
<1> USE DEF EngineInv, TypeOK, Goto
<1>1. TypeOK'
  OBVIOUS
<1>2. pc' = [pc EXCEPT ![o] = label] /\ \A p \in Ops : pc'[p] = IF p = o THEN label ELSE pc[p]
  OBVIOUS
<1>3. Marks'
  BY <1>2 DEF Marks, Requesting
<1>4. Output' /\ Whole'
  <2>1. \A p \in Ops : HasDelta(p)' <=> HasDelta(p)
    BY DEF HasDelta
  <2>2. (o \in blank \/ text[o]) /\ label = "completed" => o \in blank \/ HasDelta(o)
    BY DEF Output
  <2>3. Output'
    BY <1>2, <2>1, <2>2 DEF Output
  <2>4. Whole'
    BY <2>1 DEF Whole
  <2>5. QED
    BY <2>3, <2>4
<1>5. Ended' /\ Started'
  BY <1>2 DEF Ended, Started
<1>6. Stopped' /\ Closed'
  BY <1>2 DEF Stopped, Closed, Interrupted
<1>7. QED
  BY <1>1, <1>3, <1>4, <1>5, <1>6

LEMMA RequestStep ==
  ASSUME EngineInv, NEW o \in Ops,
         \/ worker_validate(o) \/ request(o) \/ request_locked(o) \/ ollama_request_locked(o)
         \/ send_request(o) \/ batch_done(o) \/ validate_translation_output(o)
  PROVE  EngineInv'
<1> USE DEF sessionVars, requestVars, chanVars, Pcs, Requesting, Terminals
<1>1. reads \in [Ops -> Nat] /\ inbox \in [Ops -> Seq(Messages)]
  BY DEF EngineInv, TypeOK
<1>2. CASE worker_validate(o)
  BY <1>1, <1>2, QuietStep DEF worker_validate
<1>3. CASE request(o)
  BY <1>1, <1>3, QuietStep DEF request, Interrupted
<1>4. CASE request_locked(o)
  BY <1>1, <1>4, QuietStep DEF request_locked, Interrupted
<1>5. CASE ollama_request_locked(o)
  BY <1>1, <1>5, QuietStep DEF ollama_request_locked
<1>6. CASE send_request(o)
  BY <1>1, <1>6, QuietStep DEF send_request
<1>7. CASE batch_done(o)
  BY <1>1, <1>7, QuietStep DEF batch_done
<1>8. CASE validate_translation_output(o)
  BY <1>1, <1>8, QuietStep DEF validate_translation_output
<1>9. QED
  BY <1>2, <1>3, <1>4, <1>5, <1>6, <1>7, <1>8

LEMMA ReadStep ==
  ASSUME EngineInv, NEW o \in Ops, read_stream(o) \/ ollama_body_end(o)
  PROVE  EngineInv'
<1> USE DEF sessionVars, chanVars, Pcs, Requesting, Terminals
<1>0. TypeOK /\ reads \in [Ops -> Nat] /\ inbox \in [Ops -> Seq(Messages)]
  BY DEF EngineInv, TypeOK
<1>1. CASE read_stream(o) /\ UNCHANGED <<reads, inbox>>
  BY <1>0, <1>1, QuietStep DEF read_stream
<1>2. ASSUME read_stream(o), reads' = [reads EXCEPT ![o] = @ + 1], Goto(o, "messages"),
             NEW batch \in BoundedSeq(Decoded, MaxBatch), inbox' = [inbox EXCEPT ![o] = batch]
      PROVE  EngineInv'
  <2>1. reads' \in [Ops -> Nat] /\ inbox' \in [Ops -> Seq(Messages)]
    BY <1>0, <1>2, BatchesAreMessages
  <2>2. QED
    BY <1>2, <2>1, QuietStep DEF read_stream
<1>3. CASE ollama_body_end(o)
  <2>1. PICK message \in Messages : inbox' = [inbox EXCEPT ![o] = <<message>>]
    BY <1>0, <1>3, DecodedAreMessages DEF ollama_body_end
  <2>2. reads' \in [Ops -> Nat] /\ inbox' \in [Ops -> Seq(Messages)]
    BY <1>0, <1>3, <2>1 DEF ollama_body_end
  <2>3. QED
    BY <1>3, <2>2, QuietStep DEF ollama_body_end
<1>4. QED
  BY <1>1, <1>2, <1>3 DEF read_stream

\* What an event put into the channel changes: one more at the end.
LEMMA PushFacts ==
  ASSUME TypeOK, NEW o \in Ops, NEW type \in {"started", "text_delta"} \cup Terminals,
         Push(o, type)
  PROVE  /\ events' \in [Ops -> Seq(EventSet)] /\ sent' \in [Ops -> Seq(EventSet)]
         /\ \A p \in Ops : Len(events'[p]) <= EventCapacity
         /\ \A p \in Ops \ {o} : sent'[p] = sent[p]
         /\ sent'[o] = Append(sent[o], [type |-> type, seq |-> Len(sent[o])])
         /\ Len(sent'[o]) = Len(sent[o]) + 1 /\ Len(sent[o]) \in Nat
         /\ \A i \in 1..Len(sent[o]) : sent'[o][i] = sent[o][i]
         /\ sent'[o][Len(sent[o]) + 1].type = type
<1> DEFINE e == [type |-> type, seq |-> Len(sent[o])]
<1>1. sent[o] \in Seq(EventSet) /\ events[o] \in Seq(EventSet) /\ e \in EventSet
  <2>1. sent[o] \in Seq(EventSet) /\ events[o] \in Seq(EventSet)
    BY DEF TypeOK
  <2>2. Len(sent[o]) \in Nat
    BY <2>1
  <2>3. QED
    BY <2>1, <2>2 DEF EventSet
<1>2. Len(sent[o]) \in Nat /\ Len(events[o]) \in Nat
  BY <1>1
<1>3. /\ Len(events[o]) < EventCapacity
      /\ events' = [events EXCEPT ![o] = Append(events[o], e)]
      /\ sent' = [sent EXCEPT ![o] = Append(sent[o], e)]
  BY DEF Push
<1> HIDE DEF e
<1>4. /\ Append(sent[o], e) \in Seq(EventSet) /\ Len(Append(sent[o], e)) = Len(sent[o]) + 1
      /\ \A i \in 1..Len(sent[o]) : Append(sent[o], e)[i] = sent[o][i]
      /\ Append(sent[o], e)[Len(sent[o]) + 1] = e
  BY <1>1
<1>5. Append(events[o], e) \in Seq(EventSet) /\ Len(Append(events[o], e)) <= EventCapacity
  <2>1. Append(events[o], e) \in Seq(EventSet) /\ Len(Append(events[o], e)) = Len(events[o]) + 1
    BY <1>1
  <2>2. EventCapacity \in Nat
    BY EngineAssumption DEF EngineAssumption
  <2>3. QED
    BY <1>2, <1>3, <2>1, <2>2
<1>6. sent' \in [Ops -> Seq(EventSet)] /\ sent'[o] = Append(sent[o], e)
  BY <1>3, <1>4 DEF TypeOK
<1>7. /\ events' \in [Ops -> Seq(EventSet)]
      /\ \A p \in Ops : Len(events'[p]) <= EventCapacity
  BY <1>3, <1>5 DEF TypeOK
<1>8. \A p \in Ops \ {o} : sent'[p] = sent[p]
  BY <1>3 DEF TypeOK
<1>9. e.type = type
  BY DEF e
<1>10. QED
  BY <1>2, <1>4, <1>6, <1>7, <1>8, <1>9 DEF e

\* What happens to the parts of the invariant that speak of the events when an
\* event that is not terminal is sent by a worker that goes on.
LEMMA PushKeeps ==
  ASSUME EngineInv, NEW o \in Ops, NEW label \in Pcs \ {"done"}, pc[o] # "done",
         NEW type \in {"started", "text_delta"}, Push(o, type), Goto(o, label),
         type = "started" => pc[o] = "start", label # "start",
         blank' = blank, label = "completed" => FALSE,
         \A p \in Ops \ {o} : text'[p] = text[p] /\ marked'[p] = marked[p],
         text'[o] => type = "text_delta" \/ text[o]
  PROVE  Output' /\ Ended' /\ Started' /\ Whole'
<1> USE DEF EngineInv, Goto
<1>0. TypeOK /\ type \in {"started", "text_delta"} \cup Terminals
  BY Zenon
<1>1. /\ \A p \in Ops \ {o} : sent'[p] = sent[p] /\ pc'[p] = pc[p]
      /\ Len(sent'[o]) = Len(sent[o]) + 1 /\ Len(sent[o]) \in Nat
      /\ \A i \in 1..Len(sent[o]) : sent'[o][i] = sent[o][i]
      /\ sent'[o][Len(sent[o]) + 1].type = type
      /\ pc'[o] = label
  <2>1. /\ \A p \in Ops \ {o} : sent'[p] = sent[p]
        /\ Len(sent'[o]) = Len(sent[o]) + 1 /\ Len(sent[o]) \in Nat
        /\ \A i \in 1..Len(sent[o]) : sent'[o][i] = sent[o][i]
        /\ sent'[o][Len(sent[o]) + 1].type = type
    BY <1>0, PushFacts, Zenon
  <2>2. pc'[o] = label /\ \A p \in Ops \ {o} : pc'[p] = pc[p]
    BY <1>0 DEF TypeOK
  <2>3. QED
    BY <2>1, <2>2, Zenon
<1>2. \A i \in 1..Len(sent'[o]) : sent'[o][i].type \notin Terminals
  <2>1. \A i \in 1..Len(sent[o]) : sent[o][i].type \notin Terminals
    BY Zenon DEF Ended
  <2>2. type \notin Terminals
    BY DEF Terminals
  <2>3. \A i \in 1..Len(sent'[o]) : i \in 1..Len(sent[o]) \/ i = Len(sent[o]) + 1
    BY <1>1
  <2>4. QED
    BY <1>1, <2>1, <2>2, <2>3, Zenon
<1>3. /\ \A p \in Ops \ {o} : HasDelta(p)' <=> HasDelta(p)
      /\ HasDelta(o) \/ type = "text_delta" => HasDelta(o)'
  BY <1>1 DEF HasDelta
<1>4. Output'
  BY <1>1, <1>3 DEF Output
<1>5. Ended'
  BY <1>1, <1>2 DEF Ended
<1>6. Started'
  BY <1>1 DEF Started
<1>7. Whole'
  BY <1>1, <1>2, <1>3 DEF Whole, Terminals
<1>8. QED
  BY <1>4, <1>5, <1>6, <1>7

\* The same for a worker that moves on, or ends, without an event.
LEMMA SilentKeeps ==
  ASSUME EngineInv, NEW o \in Ops, NEW label \in Pcs \ {"start", "completed"},
         pc[o] \notin {"start", "done"} \/ (pc[o] = "start" /\ label = "done"),
         UNCHANGED <<sent, blank>>, Goto(o, label),
         \A p \in Ops \ {o} : text'[p] = text[p] /\ marked'[p] = marked[p],
         text'[o] => label = "done" \/ text[o]
  PROVE  Output' /\ Ended' /\ Started' /\ Whole'
<1> USE DEF EngineInv, Goto
<1>1. pc'[o] = label /\ \A p \in Ops \ {o} : pc'[p] = pc[p]
  BY DEF TypeOK
<1>2. \A p \in Ops : HasDelta(p)' <=> HasDelta(p)
  BY DEF HasDelta
<1>3. Output'
  BY <1>1, <1>2 DEF Output
<1>4. Ended' /\ Started'
  BY <1>1 DEF Ended, Started
<1>5. Whole'
  BY <1>1, <1>2 DEF Whole, Ended, Terminals
<1>6. QED
  BY <1>3, <1>4, <1>5

LEMMA StartedStep ==
  ASSUME EngineInv, NEW o \in Ops, worker_started(o)
  PROVE  EngineInv'
<1> USE DEF worker_started, sessionVars, requestVars, chanVars
<1>0. pc[o] = "start"
  OBVIOUS
<1>1. CASE Push(o, "started") /\ Goto(o, "validate") /\ UNCHANGED token
  <2>1. TypeOK'
    BY <1>1, PushFacts DEF EngineInv, TypeOK, Goto, Pcs
  <2>2. Output' /\ Ended' /\ Started' /\ Whole'
    BY <1>0, <1>1, PushKeeps DEF Pcs
  <2>3. Marks' /\ Stopped' /\ Closed'
    BY <1>1 DEF EngineInv, TypeOK, Marks, Stopped, Closed, Interrupted, Goto, Requesting
  <2>4. QED
    BY <2>1, <2>2, <2>3 DEF EngineInv
<1>2. CASE token' = token \cup {o} /\ Goto(o, "done") /\ UNCHANGED chanVars
  <2>1. TypeOK'
    BY <1>2 DEF EngineInv, TypeOK, Goto, Pcs
  <2>2. Output' /\ Ended' /\ Started' /\ Whole'
    BY <1>0, <1>2, SilentKeeps DEF Pcs
  <2>3. Marks' /\ Stopped' /\ Closed'
    BY <1>2 DEF EngineInv, TypeOK, Marks, Stopped, Closed, Interrupted, Goto, Requesting
  <2>4. QED
    BY <2>1, <2>2, <2>3 DEF EngineInv
<1>3. QED
  BY <1>1, <1>2 DEF Send

\* What taking a message does to the marks.
LEMMA TakeFacts ==
  ASSUME EngineInv, NEW o \in Ops, NEW message \in Messages, TakeMessage(o, message)
  PROVE  /\ pc[o] \in {"messages", "final"} /\ inbox' \in [Ops -> Seq(Messages)]
         /\ marked' \in [Ops -> 0..Chunks]
         /\ \A p \in Ops \ {o} : marked'[p] = marked[p]
         /\ marked'[o] = IF message.done THEN chunk[o] ELSE marked[o]
         /\ marked[o] + 1 = chunk[o]
         /\ UNCHANGED <<adapter, blank, session, credential, closing, chunk, reads, dropped>>
<1> USE DEF EngineInv, TypeOK, sessionVars
<1>1. pc[o] \in {"messages", "final"} /\ marked[o] + 1 = chunk[o]
  BY DEF TakeMessage, Marks, Requesting
<1>2. inbox' \in [Ops -> Seq(Messages)]
  <2>1. inbox[o] \in Seq(Messages) /\ inbox[o] # <<>>
    BY DEF TakeMessage
  <2>2. Tail(inbox[o]) \in Seq(Messages) /\ <<>> \in Seq(Messages)
    BY <2>1
  <2>3. QED
    BY <2>2 DEF TakeMessage
<1>3. marked' = [marked EXCEPT ![o] = IF message.done THEN marked[o] + 1 ELSE marked[o]]
  BY DEF TakeMessage
<1>4. chunk[o] \in 1..Chunks /\ marked[o] \in 0..Chunks /\ Chunks \in Nat
  BY EngineAssumption DEF EngineAssumption
<1>5. QED
  BY <1>1, <1>2, <1>3, <1>4 DEF TakeMessage

LEMMA MessageStep ==
  ASSUME EngineInv, NEW o \in Ops, message_text(o) \/ message_no_text(o)
  PROVE  EngineInv'
<1> USE DEF sessionVars, requestVars, chanVars
<1>1. PICK message \in Messages :
        /\ TakeMessage(o, message)
        /\ \/ /\ \E label \in {AfterMessage(o, message), "failed"} : Goto(o, label)
              /\ UNCHANGED <<token, chanVars, text>>
           \/ /\ Send(o, "text_delta", AfterMessage(o, message))
              /\ text' = [text EXCEPT ![o] = TRUE]
  BY DEF message_text, message_no_text
<1> DEFINE next == AfterMessage(o, message)
<1>2. /\ pc[o] \in {"messages", "final"} /\ inbox' \in [Ops -> Seq(Messages)]
      /\ marked' \in [Ops -> 0..Chunks]
      /\ \A p \in Ops \ {o} : marked'[p] = marked[p]
      /\ marked'[o] = IF message.done THEN chunk[o] ELSE marked[o]
      /\ marked[o] + 1 = chunk[o]
      /\ UNCHANGED <<adapter, blank, session, credential, closing, chunk, reads, dropped>>
  BY <1>1, TakeFacts
<1>3. next = IF message.done THEN "tail" ELSE pc[o]
  BY DEF AfterMessage
<1>4. next \in {"tail", "messages", "final"}
  BY <1>2, <1>3
<1>5. Closed'
  BY <1>2 DEF EngineInv, Closed
<1>6. ASSUME NEW label \in {next, "failed", "done"}, Goto(o, label), token \subseteq token'
      PROVE  Marks' /\ Stopped'
  <2>1. pc'[o] = label /\ \A p \in Ops \ {o} : pc'[p] = pc[p]
    BY <1>6 DEF EngineInv, TypeOK, Goto
  <2>2. Marks'
    BY <1>2, <1>3, <1>4, <2>1 DEF EngineInv, Marks, Requesting
  <2>3. Stopped'
    BY <1>2, <1>4, <1>6, <2>1 DEF EngineInv, Stopped, Interrupted
  <2>4. QED
    BY <2>2, <2>3
<1> HIDE DEF next
<1>7. ASSUME NEW label \in {next, "failed"}, Goto(o, label), UNCHANGED <<token, events, sent, text>>
      PROVE  EngineInv'
  <2>1. label \in Pcs \ {"start", "completed", "done"}
    BY <1>4 DEF Pcs, Terminals
  <2>2. TypeOK'
    BY <1>2, <1>7, <2>1 DEF EngineInv, TypeOK, Goto
  <2>3. Output' /\ Ended' /\ Started' /\ Whole'
    BY <1>2, <1>7, <2>1, SilentKeeps
  <2>4. QED
    BY <1>5, <1>6, <1>7, <2>2, <2>3 DEF EngineInv
<1>8. ASSUME Push(o, "text_delta"), Goto(o, next), UNCHANGED token, text' = [text EXCEPT ![o] = TRUE]
      PROVE  EngineInv'
  <2>1. next \in Pcs \ {"start", "completed", "done"}
    BY <1>4 DEF Pcs, Terminals
  <2>2. TypeOK'
    BY <1>2, <1>8, <2>1, PushFacts DEF EngineInv, TypeOK, Goto
  <2>3. \A p \in Ops \ {o} : text'[p] = text[p]
    BY <1>8 DEF EngineInv, TypeOK
  <2>4. Output' /\ Ended' /\ Started' /\ Whole'
    BY <1>2, <1>8, <2>1, <2>3, PushKeeps
  <2>5. QED
    BY <1>5, <1>6, <1>8, <2>2, <2>4 DEF EngineInv
<1>9. ASSUME token' = token \cup {o}, Goto(o, "done"), UNCHANGED <<events, sent>>,
             text' = [text EXCEPT ![o] = TRUE]
      PROVE  EngineInv'
  <2>1. TypeOK'
    BY <1>2, <1>9 DEF EngineInv, TypeOK, Goto, Pcs
  <2>2. \A p \in Ops \ {o} : text'[p] = text[p]
    BY <1>9 DEF EngineInv, TypeOK
  <2>3. Output' /\ Ended' /\ Started' /\ Whole'
    BY <1>2, <1>9, <2>2, SilentKeeps DEF Pcs, Terminals
  <2>4. QED
    BY <1>5, <1>6, <1>9, <2>1, <2>3 DEF EngineInv
<1>10. QED
  BY <1>1, <1>7, <1>8, <1>9 DEF Send, next

LEMMA FinishStep ==
  ASSUME EngineInv, NEW o \in Ops, restorer_finish(o)
  PROVE  EngineInv'
<1> USE DEF sessionVars, requestVars, chanVars
<1>1. /\ pc[o] = "tail" /\ marked[o] = chunk[o] /\ chunk[o] \in 1..Chunks /\ Chunks \in Nat
      /\ UNCHANGED <<adapter, blank, session, credential, closing, dropped>>
  BY EngineAssumption DEF EngineAssumption, restorer_finish, EngineInv, Marks, TypeOK
<1>2. Closed'
  BY <1>1 DEF EngineInv, Closed
<1>3. CASE Goto(o, "failed") /\ UNCHANGED <<token, events, sent, chunk, reads, inbox, text, marked>>
  BY <1>1, <1>3, QuietStep DEF Pcs, Terminals, Requesting, EngineInv, TypeOK
<1>4. ASSUME chunk' = [chunk EXCEPT ![o] = IF @ < Chunks THEN @ + 1 ELSE @],
             reads' = [reads EXCEPT ![o] = 0], UNCHANGED <<inbox, marked>>,
             \/ Goto(o, NextLabel(o)) /\ UNCHANGED <<token, events, sent, text>>
             \/ Send(o, "text_delta", NextLabel(o)) /\ text' = [text EXCEPT ![o] = TRUE]
      PROVE  EngineInv'
  <2> DEFINE next == NextLabel(o)
  <2>1. next = IF chunk[o] < Chunks THEN "request" ELSE "output"
    BY DEF NextLabel
  <2>2. next \in Pcs \ {"start", "completed", "done", "cancelled", "tail"}
    BY <2>1 DEF Pcs, Terminals
  <2>3. chunk' \in [Ops -> 1..Chunks] /\ reads' \in [Ops -> Nat]
    BY <1>1, <1>4 DEF EngineInv, TypeOK
  <2>4. ASSUME NEW label \in {next, "done"}, Goto(o, label), token \subseteq token'
        PROVE  Marks' /\ Stopped'
    <3>1. pc'[o] = label /\ \A p \in Ops \ {o} : pc'[p] = pc[p]
      BY <2>4 DEF EngineInv, TypeOK, Goto
    <3>2. /\ \A p \in Ops \ {o} : chunk'[p] = chunk[p] /\ marked'[p] = marked[p]
          /\ chunk'[o] = IF chunk[o] < Chunks THEN chunk[o] + 1 ELSE chunk[o]
          /\ marked'[o] = chunk[o]
      BY <1>1, <1>4 DEF EngineInv, TypeOK
    <3>3. Marks'
      BY <1>1, <2>1, <3>1, <3>2 DEF EngineInv, Marks, Requesting
    <3>4. Stopped'
      BY <1>1, <2>2, <2>4, <3>1 DEF EngineInv, Stopped, Interrupted
    <3>5. QED
      BY <3>3, <3>4
  <2>5. \A p \in Ops \ {o} : marked'[p] = marked[p]
    BY <1>4
  <2> HIDE DEF next
  <2>6. CASE Goto(o, next) /\ UNCHANGED <<token, events, sent, text>>
    <3>1. TypeOK'
      BY <1>1, <1>4, <2>2, <2>3, <2>6 DEF EngineInv, TypeOK, Goto
    <3>2. Output' /\ Ended' /\ Started' /\ Whole'
      BY <1>1, <2>2, <2>5, <2>6, SilentKeeps
    <3>3. QED
      BY <1>2, <2>4, <2>6, <3>1, <3>2 DEF EngineInv
  <2>7. CASE Push(o, "text_delta") /\ Goto(o, next) /\ UNCHANGED token
             /\ text' = [text EXCEPT ![o] = TRUE]
    <3>1. TypeOK'
      BY <1>1, <1>4, <2>2, <2>3, <2>7, PushFacts DEF EngineInv, TypeOK, Goto
    <3>2. \A p \in Ops \ {o} : text'[p] = text[p]
      BY <2>7 DEF EngineInv, TypeOK
    <3>3. Output' /\ Ended' /\ Started' /\ Whole'
      BY <1>1, <2>2, <2>5, <2>7, <3>2, PushKeeps
    <3>4. QED
      BY <1>2, <2>4, <2>7, <3>1, <3>3 DEF EngineInv
  <2>8. CASE token' = token \cup {o} /\ Goto(o, "done") /\ UNCHANGED <<events, sent>>
             /\ text' = [text EXCEPT ![o] = TRUE]
    <3>1. TypeOK'
      BY <1>1, <1>4, <2>3, <2>8 DEF EngineInv, TypeOK, Goto, Pcs
    <3>2. \A p \in Ops \ {o} : text'[p] = text[p]
      BY <2>8 DEF EngineInv, TypeOK
    <3>3. Output' /\ Ended' /\ Started' /\ Whole'
      BY <1>1, <2>5, <2>8, <3>2, SilentKeeps DEF Pcs, Terminals
    <3>4. QED
      BY <1>2, <2>4, <2>8, <3>1, <3>3 DEF EngineInv
  <2>9. QED
    BY <1>4, <2>6, <2>7, <2>8 DEF Send, next
<1>5. QED
  BY <1>3, <1>4 DEF restorer_finish

\* The terminal event: the completed translation is whole because the worker
\* got to `completed' with every marker and some output.
LEMMA TerminalStep ==
  ASSUME EngineInv, NEW o \in Ops, send_terminal(o)
  PROVE  EngineInv'
<1> USE DEF sessionVars, requestVars, chanVars
<1>1. /\ pc[o] \in Terminals /\ Goto(o, "done")
      /\ UNCHANGED <<adapter, blank, session, credential, closing, token, chunk, reads, inbox,
                     text, marked, dropped>>
  BY DEF send_terminal
<1>2. pc'[o] = "done" /\ \A p \in Ops \ {o} : pc'[p] = pc[p]
  BY <1>1 DEF EngineInv, TypeOK, Goto
<1>3. Marks' /\ Stopped' /\ Closed'
  BY <1>1, <1>2 DEF EngineInv, Marks, Stopped, Closed, Interrupted, Requesting
<1>4. CASE Push(o, pc[o])
  <2>1. /\ \A p \in Ops \ {o} : sent'[p] = sent[p]
        /\ Len(sent'[o]) = Len(sent[o]) + 1 /\ Len(sent[o]) \in Nat
        /\ \A i \in 1..Len(sent[o]) : sent'[o][i] = sent[o][i]
        /\ sent'[o][Len(sent[o]) + 1].type = pc[o]
    BY <1>1, <1>4, PushFacts DEF EngineInv
  <2>2. TypeOK'
    BY <1>1, <1>4, PushFacts DEF EngineInv, TypeOK, Goto, Pcs
  <2>3. \A p \in Ops : HasDelta(p) => HasDelta(p)'
    BY <2>1 DEF HasDelta
  <2>4. Output'
    BY <1>1, <1>2, <2>3 DEF EngineInv, Output
  <2>5. Ended' /\ Started'
    <3>1. Ended'
      BY <1>2, <2>1 DEF EngineInv, Ended
    <3>2. sent'[o] # <<>>
      BY <2>1
    <3>3. Started'
      BY <1>2, <2>1, <3>2 DEF EngineInv, Started
    <3>4. QED
      BY <3>1, <3>3
  <2>6. \A i \in 1..Len(sent[o]) : sent[o][i].type # "completed"
    BY <1>1 DEF EngineInv, Ended, Terminals
  <2>7. Whole'
    <3>1. pc[o] = "completed" => marked[o] = Chunks /\ (o \in blank \/ HasDelta(o))
      BY DEF EngineInv, Output, Marks
    <3>2. (\E i \in 1..Len(sent'[o]) : sent'[o][i].type = "completed") => pc[o] = "completed"
      BY <2>1, <2>6, SMTT(20)
    <3>3. \A p \in Ops : (\E i \in 1..Len(sent'[p]) : sent'[p][i].type = "completed") =>
            marked[p] = Chunks /\ (p \in blank \/ HasDelta(p))
      BY <2>1, <3>1, <3>2 DEF EngineInv, Whole
    <3>4. QED
      BY <1>1, <2>3, <3>3 DEF Whole
  <2>8. QED
    BY <1>3, <2>2, <2>4, <2>5, <2>7 DEF EngineInv
<1>5. CASE UNCHANGED <<events, sent>>
  <2>1. TypeOK'
    BY <1>1, <1>5 DEF EngineInv, TypeOK, Goto, Pcs
  <2>2. Output' /\ Ended' /\ Started' /\ Whole'
    BY <1>1, <1>5, SilentKeeps DEF Pcs, Terminals
  <2>3. QED
    BY <1>3, <2>1, <2>2 DEF EngineInv
<1>6. QED
  BY <1>4, <1>5 DEF send_terminal

LEMMA CallerStep ==
  ASSUME EngineInv,
         \/ \E o \in Ops : receive(o) \/ cancel(o) \/ drop_operation(o)
         \/ close_session \/ clear_credential \/ UNCHANGED vars
  PROVE  EngineInv'
<1> USE DEF sessionVars, requestVars, chanVars, vars, EngineInv
<1>1. /\ UNCHANGED <<adapter, blank, pc, chunk, reads, inbox, text, marked, sent>>
      /\ token \subseteq token' /\ (session = "closed" => session' = "closed")
  BY DEF receive, cancel, drop_operation, close_session, clear_credential
<1>2. TypeOK'
  <2>1. ASSUME NEW o \in Ops, receive(o) PROVE TypeOK'
    <3>1. events[o] \in Seq(EventSet) /\ events[o] # <<>> /\ Len(events[o]) <= EventCapacity
      BY <2>1 DEF receive, TypeOK
    <3>2. Tail(events[o]) \in Seq(EventSet) /\ Len(Tail(events[o])) = Len(events[o]) - 1
          /\ Len(events[o]) \in Nat
      BY <3>1
    <3>3. EventCapacity \in Nat
      BY EngineAssumption DEF EngineAssumption
    <3>4. events' \in [Ops -> Seq(EventSet)]
      BY <2>1, <3>2 DEF receive, TypeOK
    <3>5. \A p \in Ops : events'[p] = IF p = o THEN Tail(events[o]) ELSE events[p]
      BY <2>1 DEF receive, TypeOK
    <3>6. Len(Tail(events[o])) <= EventCapacity
      BY <3>1, <3>2, <3>3
    <3>7. \A p \in Ops : Len(events'[p]) <= EventCapacity
      BY <3>5, <3>6 DEF TypeOK
    <3>8. QED
      BY <2>1, <3>4, <3>7 DEF receive, TypeOK
  <2>2. ASSUME NEW o \in Ops, drop_operation(o) PROVE TypeOK'
    <3>1. <<>> \in Seq(EventSet) /\ Len(<<>>) <= EventCapacity
      BY EngineAssumption DEF EngineAssumption
    <3>2. events' \in [Ops -> Seq(EventSet)]
      BY <2>2, <3>1 DEF drop_operation, TypeOK
    <3>3. \A p \in Ops : events'[p] = IF p = o THEN <<>> ELSE events[p]
      BY <2>2 DEF drop_operation, TypeOK
    <3>4. \A p \in Ops : Len(events'[p]) <= EventCapacity
      BY <3>1, <3>3 DEF TypeOK
    <3>5. QED
      BY <2>2, <3>2, <3>4 DEF drop_operation, TypeOK
  <2>3. ASSUME NEW o \in Ops, cancel(o) PROVE TypeOK'
    BY <2>3 DEF cancel, TypeOK
  <2>4. CASE close_session \/ clear_credential \/ UNCHANGED vars
    BY <2>4 DEF close_session, clear_credential, TypeOK
  <2>5. QED
    BY <2>1, <2>2, <2>3, <2>4
<1>3. Marks' /\ Output' /\ Ended' /\ Started' /\ Whole'
  BY <1>1 DEF Marks, Output, Ended, Started, Whole, HasDelta
<1>4. Stopped'
  BY <1>1 DEF Stopped, Interrupted
<1>5. Closed'
  BY DEF Closed, TypeOK, receive, cancel, drop_operation, close_session, clear_credential
<1>6. QED
  BY <1>2, <1>3, <1>4, <1>5

LEMMA EngineStep == EngineInv /\ [Next]_vars => EngineInv'
  BY RequestStep, ReadStep, StartedStep, MessageStep, FinishStep, TerminalStep, CallerStep
     DEF Next, Worker

LEMMA EngineInvariant == Spec => []EngineInv
  BY EngineInit, EngineStep, PTL DEF Spec

\* `completed' is sent only when each request was answered up to its marker and
\* there is output, for any number of chunks and whatever the server sends.
THEOREM CompletedIsWhole == Spec => []CompletedMeansWhole
<1>1. EngineInv => CompletedMeansWhole
  BY DEF EngineInv, Whole, CompletedMeansWhole, HasDelta
<1>2. QED
  BY <1>1, EngineInvariant, PTL

\* After close_session has returned no request is built, except by Ollama
\* without a credential.
THEOREM ClosedSessionBuildsNothing == Spec => NoRequestAfterClose
<1> DEFINE Refused == \A o \in Ops : pc[o] # "send" /\ pc'[o] = "send" /\ closing = "returned" =>
                        adapter = "ollama" /\ credential = "not_required"
<1>1. ASSUME EngineInv, [Next]_vars, NEW o \in Ops,
             pc[o] # "send", pc'[o] = "send", closing = "returned"
      PROVE  adapter = "ollama" /\ credential = "not_required"
  <2>1. request_locked(o) \/ ollama_request_locked(o)
    <3> USE <1>1 DEF EngineInv, TypeOK
    <3>1. ASSUME NEW p \in Ops, NEW label, Goto(p, label) PROVE p = o /\ label = "send"
      BY <3>1 DEF Goto
    <3>2. PICK p \in Ops : Worker(p)
      BY DEF Next, vars, receive, cancel, drop_operation, close_session, clear_credential
    <3>3. ASSUME worker_started(p) \/ message_text(p) \/ message_no_text(p) \/ restorer_finish(p)
                 \/ send_terminal(p)
          PROVE  FALSE
      BY <3>1, <3>3 DEF worker_started, message_text, message_no_text, TakeMessage, AfterMessage,
         restorer_finish, NextLabel, send_terminal, Send
    <3>4. ASSUME worker_validate(p) \/ request(p) \/ send_request(p) \/ read_stream(p)
                 \/ ollama_body_end(p) \/ batch_done(p) \/ validate_translation_output(p)
          PROVE  FALSE
      BY <3>1, <3>4, SMTT(20) DEF worker_validate, request, send_request, read_stream, ollama_body_end,
         batch_done, validate_translation_output
    <3>5. CASE request_locked(p) \/ ollama_request_locked(p)
      BY <3>1, <3>5 DEF request_locked, ollama_request_locked
    <3>6. QED
      BY <3>2, <3>3, <3>4, <3>5 DEF Worker
  <2>2. QED
    BY <1>1, <2>1 DEF EngineInv, TypeOK, Closed, request_locked, ollama_request_locked, Goto
<1>2. EngineInv /\ [Next]_vars => [Refused]_vars
  BY <1>1
<1>3. QED
  BY <1>2, EngineInvariant, PTL DEF NoRequestAfterClose, Spec

-----------------------------------------------------------------------------
(* The refinement of EventStream.                                          *)

\* A worker that has started and not ended is an open stream.
LEMMA RunningIsOpen ==
  ASSUME EngineInv, NEW o \in Ops, pc[o] \notin {"start", "done"}
  PROVE  Stream(o)!Open
<1>1. sent[o] \in Seq(EventSet) /\ sent[o] # <<>>
  BY DEF EngineInv, TypeOK, Started
<1>2. Len(sent[o]) \in 1..Len(sent[o])
  BY <1>1
<1>3. sent[o][Len(sent[o])].type \notin Terminals
  BY <1>2 DEF EngineInv, Ended
<1>4. QED
  BY <1>1, <1>3 DEF Stream!Open, Stream!Terminals, Terminals

\* What a step does to the events of operation o: nothing, while a stop stays
\* requested, or one event that fits the worker's place.
LEMMA StepEvents ==
  ASSUME EngineInv, [Next]_vars, NEW o \in Ops
  PROVE  \/ sent'[o] = sent[o] /\ (Interrupted(o) => Interrupted(o)')
         \/ /\ UNCHANGED <<token, session>>
            /\ \E type \in {"started", "text_delta"} \cup Terminals :
                 /\ sent'[o] = Append(sent[o], [type |-> type, seq |-> Len(sent[o])])
                 /\ \/ type = "started" /\ pc[o] = "start"
                    \/ type = "text_delta" /\ pc[o] \notin {"start", "done"}
                    \/ type = pc[o] /\ pc[o] \in Terminals
<1> USE DEF sessionVars, requestVars, chanVars, vars
<1>1. ASSUME UNCHANGED sent, token \subseteq token', session = "closed" => session' = "closed"
      PROVE  sent'[o] = sent[o] /\ (Interrupted(o) => Interrupted(o)')
  BY <1>1 DEF Interrupted
<1>2. ASSUME NEW p \in Ops, NEW type \in {"started", "text_delta"} \cup Terminals, Push(p, type),
             UNCHANGED <<token, session>>
      PROVE  \/ p # o /\ sent'[o] = sent[o] /\ (Interrupted(o) => Interrupted(o)')
             \/ p = o /\ sent'[o] = Append(sent[o], [type |-> type, seq |-> Len(sent[o])])
  BY <1>2, PushFacts, ZenonT(40) DEF EngineInv, Interrupted
<1>3. ASSUME NEW p \in Ops, worker_started(p)
      PROVE  \/ UNCHANGED <<sent, session>> /\ token \subseteq token'
             \/ Push(p, "started") /\ UNCHANGED <<token, session>> /\ pc[p] = "start"
  BY <1>3 DEF worker_started, Send
<1>4. ASSUME NEW p \in Ops, message_text(p) \/ message_no_text(p) \/ restorer_finish(p)
      PROVE  \/ UNCHANGED <<sent, session>> /\ token \subseteq token'
             \/ Push(p, "text_delta") /\ UNCHANGED <<token, session>> /\ pc[p] \notin {"start", "done"}
  <2>1. CASE message_text(p) \/ message_no_text(p)
    BY <2>1 DEF message_text, message_no_text, TakeMessage, Send
  <2>2. CASE restorer_finish(p)
    BY <2>2 DEF restorer_finish, Send
  <2>3. QED
    BY <1>4, <2>1, <2>2
<1>5. ASSUME NEW p \in Ops, send_terminal(p)
      PROVE  /\ pc[p] \in Terminals /\ UNCHANGED <<token, session>>
             /\ Push(p, pc[p]) \/ UNCHANGED sent
  BY <1>5 DEF send_terminal
<1>6. ASSUME NEW p \in Ops,
             \/ worker_validate(p) \/ request(p) \/ request_locked(p) \/ ollama_request_locked(p)
             \/ send_request(p) \/ read_stream(p) \/ ollama_body_end(p) \/ batch_done(p)
             \/ validate_translation_output(p)
      PROVE  UNCHANGED <<sent, session, token>>
  BY <1>6 DEF worker_validate, request, request_locked, ollama_request_locked, send_request,
     read_stream, ollama_body_end, batch_done, validate_translation_output
<1>7. ASSUME \/ \E p \in Ops : receive(p) \/ cancel(p) \/ drop_operation(p)
             \/ close_session \/ clear_credential \/ UNCHANGED vars
      PROVE  UNCHANGED sent /\ token \subseteq token' /\ (session = "closed" => session' = "closed")
  BY <1>7 DEF receive, cancel, drop_operation, close_session, clear_credential
<1>8. \/ UNCHANGED sent /\ token \subseteq token' /\ (session = "closed" => session' = "closed")
      \/ /\ UNCHANGED <<token, session>>
         /\ \E p \in Ops, type \in {"started", "text_delta"} \cup Terminals :
              /\ Push(p, type)
              /\ \/ type = "started" /\ pc[p] = "start"
                 \/ type = "text_delta" /\ pc[p] \notin {"start", "done"}
                 \/ type = pc[p] /\ pc[p] \in Terminals
  BY <1>3, <1>4, <1>5, <1>6, <1>7 DEF Next, Worker
<1>9. QED
  BY <1>1, <1>2, <1>8

LEMMA StreamStep ==
  ASSUME EngineInv, [Next]_vars, NEW o \in Ops
  PROVE  [Stream(o)!Next]_<<sent[o], Interrupted(o)>>
<1>1. CASE sent'[o] = sent[o] /\ (Interrupted(o) => Interrupted(o)')
  BY <1>1 DEF Stream!Next, Stream!RequestStop, Interrupted
<1>2. ASSUME NEW type \in {"started", "text_delta"} \cup Terminals, UNCHANGED <<token, session>>,
             sent'[o] = Append(sent[o], [type |-> type, seq |-> Len(sent[o])]),
             \/ type = "started" /\ pc[o] = "start"
             \/ type = "text_delta" /\ pc[o] \notin {"start", "done"}
             \/ type = pc[o] /\ pc[o] \in Terminals
      PROVE  Stream(o)!Next
  <2>1. Len(sent[o]) \in Nat
    BY DEF EngineInv, TypeOK
  <2>2. Stream(o)!Emit(type) /\ Interrupted(o)' = Interrupted(o)
    BY <1>2, <2>1 DEF Stream!Emit, Interrupted
  <2>3. CASE type = "started" /\ pc[o] = "start"
    BY <2>2, <2>3 DEF Stream!Next, Stream!Start, EngineInv, Started
  <2>4. CASE type = "text_delta" /\ pc[o] \notin {"start", "done"}
    BY <2>2, <2>4, RunningIsOpen DEF Stream!Next, Stream!Delta
  <2>5. CASE type = pc[o] /\ pc[o] \in Terminals
    <3>1. Stream(o)!Open /\ sent[o] # <<>>
      BY <2>5, RunningIsOpen DEF Stream!Open, Terminals
    <3>2. pc[o] = "cancelled" => Interrupted(o)
      BY DEF EngineInv, Stopped
    <3>3. QED
      BY <2>2, <2>5, <3>1, <3>2 DEF Stream!Next, Stream!End, Terminals
  <2>6. QED
    BY <1>2, <2>3, <2>4, <2>5
<1>3. QED
  BY <1>1, <1>2, StepEvents

\* Every operation of a session implements the abstract event stream, for any
\* number of operations, chunks and messages.
THEOREM WorkerImplementsStream == Spec => StreamsImplemented
<1>1. Init => \A o \in Ops : Stream(o)!Init
  BY DEF Init, Stream!Init, Interrupted
<1>2. EngineInv /\ [Next]_vars =>
        [\A o \in Ops : [Stream(o)!Next]_<<sent[o], Interrupted(o)>>]_vars
  BY StreamStep
<1>3. QED
  BY <1>1, <1>2, EngineInvariant, PTL DEF StreamsImplemented, Spec
=============================================================================
