---------------------------- MODULE EventStream ----------------------------
(***************************************************************************)
(* What a translation promises to whoever receives its events: `started',  *)
(* any number of text deltas, then exactly one terminal event, numbered    *)
(* without gaps from Offset, where `cancelled' only answers a request to   *)
(* stop.  The order is that of TranslationEvent                            *)
(* (crates/linguamesh-domain/src/lib.rs) as the engine and the ABI use it. *)
(***************************************************************************)
EXTENDS Naturals, Sequences

CONSTANT Offset   \* sequence of the first event

VARIABLES
  sent,   \* the events, in order
  stop    \* a stop has been requested

Terminals == {"completed", "cancelled", "failed"}

Open == sent # <<>> /\ sent[Len(sent)].type \notin Terminals

Emit(type) == sent' = Append(sent, [type |-> type, seq |-> Offset + Len(sent)])

Init == sent = <<>> /\ stop \in BOOLEAN

Start == sent = <<>> /\ Emit("started") /\ UNCHANGED stop

Delta == Open /\ Emit("text_delta") /\ UNCHANGED stop

\* A terminal event; an operation may fail or be stopped before it starts.
End ==
  /\ sent = <<>> \/ Open
  /\ \/ Emit("completed") /\ sent # <<>>
     \/ Emit("failed")
     \/ Emit("cancelled") /\ stop
  /\ UNCHANGED stop

RequestStop == ~stop /\ stop' = TRUE /\ UNCHANGED sent

Next == Start \/ Delta \/ End \/ RequestStop

Spec == Init /\ [][Next]_<<sent, stop>>
=============================================================================
