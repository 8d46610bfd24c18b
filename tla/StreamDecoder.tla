--------------------------- MODULE StreamDecoder ---------------------------
(***************************************************************************)
(* The decoders between a provider's response body and its messages: server *)
(* sent events of four kinds (crates/linguamesh-provider-openai/src/lib.rs  *)
(* with Chat Completions and Responses, and the Anthropic and Gemini        *)
(* adapters) and lines of JSON (crates/linguamesh-provider-ollama).  A body *)
(* is a sequence of symbols; a JSON message is its members between braces:  *)
(* words of text, "usage", "done" (its completion marker) or "error".       *)
(***************************************************************************)
EXTENDS LineFormats

\* What a decoder makes of a message: text, a usage record, the end.
Message(words, usage, done) == [words |-> words, usage |-> usage, done |-> done]

\* serde_json::from_str: one object, white space between its symbols.
Json(data) ==
  LET Members(symbols) ==
        IF Len(symbols) >= 2 /\ symbols[1] = "{" /\ Last(symbols) = "}" /\ ~\E i \in 2..(Len(symbols) - 1) : symbols[i] \in {"{", "}"}
          THEN Ok(SubSeq(symbols, 2, Len(symbols) - 1)) ELSE Err
  IN Members(SelectSeq(data, LAMBDA c : c \notin WhiteSpace))

WordsOf(json) == SelectSeq(json, LAMBDA c : c \notin {"usage", "done", "error"})

\* Mutant: the first separator counts only if nothing but LF is in it.
find_event_boundary_lf(buffer) ==
  LET lf == FirstOf({i \in DOMAIN buffer : OccursAt(<<LF, LF>>, buffer, i)}, 0)
  IN IF lf # 0 THEN Ok([at |-> lf, size |-> 2]) ELSE Err

\* find_event_boundary: a separator of LFs anywhere in the buffer, before any
\* of CRLFs is looked for.
find_event_boundary(buffer) ==
  LET First(separator) == FirstOf({i \in DOMAIN buffer : OccursAt(separator, buffer, i)}, 0)
      Either(lf, crlf) == IF lf # 0 THEN Ok([at |-> lf, size |-> 2])
                          ELSE IF crlf # 0 THEN Ok([at |-> crlf, size |-> 4])
                          ELSE Err
  IN Either(First(<<LF, LF>>), First(<<CR, LF, CR, LF>>))

\* The data lines of an event are joined, each without leading white space.
EventData(event) ==
  LET Data(text) == From(text, FirstOf(Inked(text), Len(text) + 1))
      Joined(lines) == FlattenSeq([k \in DOMAIN lines |-> (IF k = 1 THEN <<>> ELSE <<LF>>) \o Data(Tail(lines[k].text))])
  IN Joined(SelectSeq(split_lines(event), LAMBDA l : l.text # <<>> /\ l.text[1] = "data:"))

\* parse_event of Chat Completions: a message with usage gives nothing else.
ChatMessage(json) ==
  Ok(<<IF Has(json, "usage") THEN Message(<<>>, TRUE, FALSE) ELSE Message(WordsOf(json), FALSE, FALSE)>>)

\* parse_responses_event: the completion may hold usage; an error event fails.
ResponsesMessage(json) ==
  IF Has(json, "error") THEN Err
  ELSE IF Has(json, "done") THEN Ok(<<Message(<<>>, Has(json, "usage"), TRUE)>>)
  ELSE IF WordsOf(json) # <<>> THEN Ok(<<Message(WordsOf(json), FALSE, FALSE)>>)
  ELSE Ok(<<>>)

\* parse_event of the Anthropic adapter: usage first, then the type of event.
AnthropicMessage(json) ==
  IF Has(json, "usage") THEN Ok(<<Message(<<>>, TRUE, FALSE)>>)
  ELSE IF Has(json, "done") THEN Ok(<<Message(<<>>, FALSE, TRUE)>>)
  ELSE IF WordsOf(json) # <<>> THEN Ok(<<Message(WordsOf(json), FALSE, FALSE)>>)
  ELSE Ok(<<>>)

\* parse_event of the Gemini adapter: a message may hold all three; usage
\* beside text is kept only with the end.
GeminiMessage(json) ==
  LET Said(words, done) == Ok(<<Message(words, Has(json, "usage") /\ (done \/ words = <<>>), done)>>)
  IN Said(WordsOf(json), Has(json, "done"))

\* parse_event: Err for malformed data, or the messages of the event, none or
\* one.
parse_event(protocol, event) ==
  LET Read(json) == CASE protocol = "chat"      -> ChatMessage(json)
                      [] protocol = "responses" -> ResponsesMessage(json)
                      [] protocol = "anthropic" -> AnthropicMessage(json)
                      [] protocol = "gemini"    -> GeminiMessage(json)
      Parsed(data) == IF data = <<>> THEN Ok(<<>>)
                      ELSE IF protocol = "chat" /\ data = <<"[DONE]">> THEN Ok(<<Message(<<>>, FALSE, TRUE)>>)
                      ELSE Then(Json(data), Read)
  IN Parsed(EventData(event))

\* SseDecoder::push: Err, or the messages of all complete events, and what
\* stays in the buffer.
RECURSIVE sse_push(_, _)
sse_push(protocol, buffer) ==
  LET Event(boundary) ==
        IF ~IsOk(boundary) THEN Ok([messages |-> <<>>, buffer |-> buffer])
        ELSE Then(parse_event(protocol, Upto(buffer, 1, boundary[1].at)), LAMBDA message :
               Then(sse_push(protocol, From(buffer, boundary[1].at + boundary[1].size)), LAMBDA rest :
                 Ok([rest EXCEPT !.messages = message \o @])))
  IN Event(find_event_boundary(buffer))

\* parse_line of the Ollama adapter: text beside the end counts, and the end
\* is the usage record.
parse_line(line) ==
  Then(Json(line), LAMBDA json : Ok(<<Message(WordsOf(json), Has(json, "done"), Has(json, "done"))>>))

\* NdjsonDecoder::drain_lines: complete lines, and at the end of the body the
\* one without an end; blank lines are skipped.
RECURSIVE drain_lines(_, _)
drain_lines(buffer, final_line) ==
  LET Line(text) == IF Blank(text) THEN Ok(<<>>) ELSE parse_line(text)
      EndAt(at) ==
        IF at # 0
          THEN Then(Line(Upto(buffer, 1, at)), LAMBDA message :
                 Then(drain_lines(From(buffer, at + 1), final_line), LAMBDA rest :
                   Ok([rest EXCEPT !.messages = message \o @])))
        ELSE IF final_line /\ buffer # <<>>
          THEN Then(parse_line(buffer), LAMBDA message : Ok([messages |-> message, buffer |-> <<>>]))
        ELSE Ok([messages |-> <<>>, buffer |-> buffer])
  IN EndAt(FirstOf({i \in DOMAIN buffer : buffer[i] = LF}, 0))

\* What the decoder of the protocol makes of its buffer with a new chunk.
DecoderPush(protocol, buffer, chunk) ==
  IF protocol = "ndjson" THEN drain_lines(buffer \o chunk, FALSE) ELSE sse_push(protocol, buffer \o chunk)
=============================================================================
