---------------------------- MODULE ProtectedText ----------------------------
(***************************************************************************)
(* A source text on its way through a provider                             *)
(* (crates/linguamesh-domain/src/lib.rs): a glossary is imported, the text  *)
(* is protected with it, and ProtectedTextRestorer puts the protected spans *)
(* back while the model's answer arrives in deltas cut at arbitrary places, *)
(* straight or through the decoder of a provider's protocol, whose chunks   *)
(* are cut at arbitrary places too.  The restorer's actions are those of    *)
(* Restorer.                                                               *)
(***************************************************************************)
EXTENDS ProtectedSource, StreamDecoder, Restorer

CONSTANTS
  Files,      \* glossary files: a kind ("csv", "tbx") and the content, or "none"
  SourcesFor(_),  \* the source texts to protect with the glossary of a file
  Drilled,    \* the source texts for which every answer is tried
  Framings,   \* how a server may send an answer: protocol and separators
  MaxPieces,  \* bound on the pieces of such an answer
  MaxChunk    \* bound on the chunk sizes to try

ASSUME PiecesAssumption == MaxPieces \in Nat /\ MaxChunk \in Nat

VARIABLES
  file,       \* the glossary file
  glossary,   \* the rules read from it
  source,     \* the text to translate
  answer,     \* the model's answer, in pieces
  stream,     \* the response: its framing, the body that has not arrived, the
              \* decoder's buffer, whether the end and a usage record were
              \* seen, and all text so far
  rest        \* characters of the answer that the restorer has not got

\* Before the restorer is made, pc is at the import or the protection.

vars == <<file, glossary, source, protected, answer, stream, rest, received, pending, seen, output, pc>>

\* The languages of the request.
SourceLocale == Ok(<<"en">>)
TargetLocale == Ok(<<"fr">>)

\* A piece of an answer is a character, the marker of a span, or a marker the
\* model made up.
Markers  == <<"marker 0", "marker 1", "marker 2", "marker 3">>
Invented == "invented"
Plain    == {"a", "_"}

Letters(p) ==
  IF p = Invented THEN PROTECTED_TOKEN_PREFIX \o <<"9">> \o PROTECTED_TOKEN_SUFFIX
  ELSE IF p \in ToSet(Markers) THEN protected.spans[CHOOSE k \in Spans : Markers[k] = p].token
  ELSE <<p>>

Spell(f(_), pieces) == FlattenSeq([i \in DOMAIN pieces |-> f(pieces[i])])

\* The answer that repeats the protected text, and all short ones.
EchoOf(p) ==
  FlattenSeq([k \in DOMAIN p.plain |-> p.plain[k] \o (IF k \in DOMAIN p.spans THEN <<Markers[k]>> ELSE <<>>)])

Answers ==
  LET pieces == Plain \cup {Invented} \cup {Markers[k] : k \in Spans}
  IN UNION {[1..n -> pieces] : n \in 0..MaxPieces}

\* The answer as a body: a message for each piece, the usage and the end where
\* the protocol has them; the separators are used in turn, the framing's last
\* one behind the end.  Where the protocol allows it (joined) the last piece
\* is in the message of the end.
Body(pieces, framing) ==
  LET Frame(members) == IF framing.protocol = "ndjson" THEN <<"{">> \o members \o <<"}">>
                        ELSE <<"data:", Space, "{">> \o members \o <<"}">>
      own    == framing.usage /\ framing.protocol \in {"chat", "anthropic"}
      beside == framing.usage /\ framing.protocol \in {"responses", "gemini"}
      joined == framing.protocol \in {"gemini", "ndjson"} /\ pieces # <<>>
      texts  == [i \in 1..(Len(pieces) - (IF joined THEN 1 ELSE 0)) |-> Frame(<<pieces[i]>>)]
      end    == IF framing.protocol = "chat" THEN <<"data:", "[DONE]">>
                ELSE Frame((IF joined THEN <<Last(pieces)>> ELSE <<>>) \o (IF beside THEN <<"usage">> ELSE <<>>) \o <<"done">>)
      events == Append(texts \o (IF own THEN <<Frame(<<"usage">>)>> ELSE <<>>), end)
      End(i) == IF i = Len(events) THEN framing.last ELSE framing.ends[1 + (i % Len(framing.ends))]
  IN framing.lead \o FlattenSeq([i \in DOMAIN events |-> events[i] \o End(i)])

NoStream == [framing |-> [protocol |-> "none"], wire |-> <<>>, buffer |-> <<>>, done |-> TRUE, usage |-> FALSE, text |-> <<>>]

Init ==
  /\ stream = NoStream
  /\ file \in Files
  /\ glossary = <<>> /\ source = <<>> /\ answer = <<>> /\ rest = <<>>
  /\ protected = [plain |-> <<<<>>>>, spans |-> <<>>, text |-> <<>>]
  /\ received = <<>> /\ pending = <<>> /\ seen = {} /\ output = <<>>
  /\ pc = "import"

-----------------------------------------------------------------------------
\* from_csv or from_tbx: the rules, or the file is refused.
import_glossary ==
  /\ pc = "import"
  /\ \E read \in {CASE file.kind = "csv" -> from_csv(file.content)
                    [] file.kind = "tbx" -> from_tbx(file.content)
                    [] OTHER -> Ok(<<>>)} :
       IF IsOk(read) THEN glossary' = read[1] /\ pc' = "protect"
       ELSE pc' = "refused" /\ UNCHANGED glossary
  /\ UNCHANGED <<file, source, protected, answer, stream, rest, received, pending, seen, output>>

\* protect_source_text_with_glossary; the marked text goes to the model.
protect_source_text(text) ==
  /\ pc = "protect"
  /\ source' = text
  /\ protected' = build_protected_source(text, SourceLocale, TargetLocale, glossary)
  /\ pc' = "ask"
  /\ UNCHANGED <<file, glossary, answer, stream, rest, received, pending, seen, output>>

\* The model answers; restorer makes the ProtectedTextRestorer.
restorer(pieces) ==
  /\ pc = "ask"
  /\ answer' = pieces
  /\ rest' = Spell(Letters, pieces)
  /\ pc' = "idle"
  /\ UNCHANGED <<file, glossary, source, protected, stream, received, pending, seen, output>>

\* The same over a protocol: the head of the response has come.
open_stream(pieces, framing) ==
  /\ pc = "ask"
  /\ answer' = pieces
  /\ stream' = [NoStream EXCEPT !.framing = framing, !.wire = Body(pieces, framing), !.done = FALSE]
  /\ pc' = "idle"
  /\ UNCHANGED <<file, glossary, source, protected, rest, received, pending, seen, output>>

\* The decoded messages up to the end go to the restorer; malformed data ends
\* the answer, and so does a body that ends too early.
Decode(result, wire) ==
  IF ~IsOk(result) THEN pc' = "malformed" /\ UNCHANGED <<stream, rest>>
  ELSE \E messages \in {result[1].messages} :
       \E end  \in {FirstOf({i \in DOMAIN messages : messages[i].done}, Len(messages))} :
       \E text \in {FlattenSeq([i \in 1..end |-> Spell(Letters, messages[i].words)])} :
          /\ stream' = [stream EXCEPT !.wire = wire, !.buffer = result[1].buffer, !.text = @ \o text,
                                      !.done = \E i \in DOMAIN messages : messages[i].done,
                                      !.usage = @ \/ \E i \in 1..end : messages[i].usage]
          /\ rest' = text
          /\ UNCHANGED pc

\* A chunk of n symbols of the body arrives.
read(n) ==
  /\ pc = "idle" /\ rest = <<>> /\ ~stream.done
  /\ Decode(DecoderPush(stream.framing.protocol, stream.buffer, SubSeq(stream.wire, 1, n)),
            SubSeq(stream.wire, n + 1, Len(stream.wire)))
  /\ UNCHANGED <<file, glossary, source, protected, answer, received, pending, seen, output>>

\* The body ends without the end of the answer: the Ollama decoder has its
\* last line left, the others have failed.
body_end ==
  /\ pc = "idle" /\ rest = <<>> /\ ~stream.done /\ stream.wire = <<>>
  /\ IF stream.framing.protocol = "ndjson" /\ stream.buffer # <<>>
       THEN Decode(drain_lines(stream.buffer, TRUE), <<>>)
       ELSE pc' = "disconnected" /\ UNCHANGED <<stream, rest>>
  /\ UNCHANGED <<file, glossary, source, protected, answer, received, pending, seen, output>>

-----------------------------------------------------------------------------
Fixed == UNCHANGED <<file, glossary, source, answer, stream>>

\* A delta of n characters.
receive(n) ==
  /\ push(SubSeq(rest, 1, n))
  /\ rest' = From(rest, n + 1)
  /\ Fixed

end_of_answer == finish /\ rest = <<>> /\ stream.done /\ UNCHANGED rest /\ Fixed

Restoring == restore /\ UNCHANGED rest /\ Fixed

Next ==
  \/ import_glossary
  \/ \E text \in SourcesFor(file) : protect_source_text(text)
  \/ \E pieces \in {EchoOf(protected)} \cup (IF source \in Drilled THEN Answers ELSE {}) : restorer(pieces)
  \/ \E framing \in Framings : source \in Drilled /\ open_stream(EchoOf(protected), framing)
  \/ \E n \in 1..Len(stream.wire) : read(n)
  \/ body_end
  \/ \E n \in 1..Len(rest) : receive(n)
  \/ end_of_answer \/ Restoring

Spec == Init /\ [][Next]_vars

-----------------------------------------------------------------------------
(* Properties.                                                             *)

\* The answer holds each marker it was given exactly once, and no other.
Faithful ==
  \A m \in ToSet(Markers) \cup {Invented} :
    Cardinality({i \in DOMAIN answer : answer[i] = m}) = Cardinality({k \in Spans : Markers[k] = m})

\* The text the answer stands for.
Expected ==
  LET Restored(p) == IF p \in ToSet(Markers) THEN protected.spans[CHOOSE k \in Spans : Markers[k] = p].replacement ELSE <<p>>
  IN Spell(Restored, answer)

Result == pc \in {"ok", "duplicate", "missing", "invalid"}

Asked == pc \notin {"import", "refused", "protect", "ask"}

\* The text to translate has nothing that looks like a marker.
Unmarked == ~Occurs(PROTECTED_TOKEN_PREFIX, source)

\* A marker of the source's own right before a span: with the first character
\* of the span's marker it can read as that marker.
Touching ==
  \E k \in Spans : LET plain == protected.plain[k]
                  IN Occurs(PROTECTED_TOKEN_PREFIX, plain) /\ Last(plain) = "_"

\* A faithful answer is restored wherever its deltas are cut.
FaithfulIsRestored == Result /\ Faithful => pc = "ok"

\* What the user is shown is never wrong.  Of a faithful answer the emitted
\* text is at any time the beginning of the restored text, and success means,
\* when there was anything to protect, that the answer was faithful and all
\* of it was restored: the whole source with its terms replaced when the
\* answer repeats the source, also when the source has markers of its own
\* that do not run into a span.  With one protected span, or none, a faithful
\* answer is never refused.
ShownIsRestored ==
  /\ Asked /\ Faithful /\ Unmarked => Len(output) <= Len(Expected) /\ output = SubSeq(Expected, 1, Len(output))
  /\ pc = "ok" /\ Spans # {} /\ ~Touching => Faithful /\ output = Expected
  /\ Len(protected.spans) <= 1 /\ Unmarked => FaithfulIsRestored

\* The protected text is the source: its stretches of plain text with the
\* protected spans between them, whose markers have the shape the restorer
\* depends on.  Cut into chunks of any size it is still all
\* there, no chunk is larger than asked, every marker is in one chunk, and
\* the cut is refused only when a marker or a character does not fit.
ChunksAreWhole ==
  pc = "ask" =>
    /\ source = FlattenSeq([k \in DOMAIN protected.plain |->
                  protected.plain[k] \o (IF k \in Spans THEN protected.spans[k].source ELSE <<>>)])
    /\ WellMarked(protected.spans)
    /\ Unmarked => \A max \in 1..MaxChunk :
         LET fits == /\ \A k \in Spans : Len(Marker(k)) <= max
                     /\ \A i \in DOMAIN protected.text : Width(protected.text[i]) <= max
         IN \E cut \in {chunks(protected, max)} :
            IF fits
              THEN /\ IsOk(cut)
                   /\ FlattenSeq([p \in DOMAIN cut[1] |-> cut[1][p].text]) = protected.text
                   /\ FlattenSeq([p \in DOMAIN cut[1] |-> cut[1][p].spans]) = protected.spans
                   /\ \A p \in DOMAIN cut[1] : Bytes(cut[1][p].text) <= max
              ELSE Bytes(protected.text) > max => ~IsOk(cut)

\* Whatever chunks the body comes in, the decoded text is the beginning of what
\* the server sent, and all of it, with the usage record if there was one,
\* once the end is seen.  Separators of one
\* kind are always understood; mixed ones may make the answer fail, but never
\* change or lose a part of it.
DecodedIsSent ==
  stream.framing.protocol # "none" =>
    LET sent == Spell(Letters, answer) IN
    /\ Len(stream.text) <= Len(sent) /\ stream.text = SubSeq(sent, 1, Len(stream.text))
    /\ stream.done => stream.text = sent /\ (stream.usage <=> stream.framing.usage)
    /\ stream.framing.uniform => pc \notin {"malformed", "disconnected"}

\* The terms of a TBX file by their entry and language.
TbxTerms(xml) ==
  LET Count(name, i) == Cardinality({j \in 1..i : xml[j].shape = "open" /\ xml[j].name = name})
      Entry(i) == Count("termEntry", i)
      Lang(i)  == Count("langSet", i) - Count("langSet", FirstOf({j \in DOMAIN xml : Entry(j) = Entry(i)}, 1))
      Texts(i) == SubSeq(xml, i + 1, FirstOf({j \in i..Len(xml) : xml[j] = Close("term")}, i) - 1)
  IN {[entry |-> Entry(i), lang |-> Lang(i), at |-> i,
       text |-> Trim(FlattenSeq([j \in DOMAIN Texts(i) |-> IF Texts(i)[j].shape = "text" THEN unescape(Texts(i)[j].text)[1] ELSE <<>>]))] :
        i \in {j \in DOMAIN xml : xml[j].shape = "open" /\ xml[j].name = "term"}}

\* A glossary that was imported is exported to a CSV file that gives it back,
\* whatever commas, quotes and line ends its terms have; and of a TBX file
\* every entry gives a rule from the first term of its first language to each
\* term of its other languages, and nothing else.
GlossaryRoundTrip ==
  pc = "protect" =>
    /\ from_csv(to_csv(glossary)) = Ok(glossary)
    /\ file.kind = "tbx" =>
         LET First(e, terms) ==
               CHOOSE t \in terms : t.entry = e /\ t.lang = 1 /\ \A u \in terms : u.entry = e => t.at <= u.at
         IN \E terms \in {TbxTerms(file.content)} :
            \E targets \in {SetToSortSeq({t \in terms : t.lang > 1}, LAMBDA t, u : t.at < u.at)} :
              [k \in DOMAIN glossary |-> <<glossary[k].source_term, glossary[k].target_term>>]
                = [k \in DOMAIN targets |-> <<First(targets[k].entry, terms).text, targets[k].text>>]
=============================================================================
