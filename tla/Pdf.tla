-------------------------------- MODULE Pdf --------------------------------
(***************************************************************************)
(* Text PDFs (crates/linguamesh-document/src/pdf.rs).  A file is a sequence *)
(* of objects; a page refers to its content streams, and a content stream   *)
(* is a sequence of operators, numbers, separators and the characters of    *)
(* its string literals.                                                     *)
(***************************************************************************)
EXTENDS Xml, Integers

Escape == "escape"   \* the backslash of a literal

\* Objects: pages with their references and box, and streams with their
\* filter ("none", "flate" or one that is not supported).
Page(array, refs, box) == [type |-> "page", array |-> array, refs |-> refs, box |-> box]
Stream(filter, data)   == [type |-> "stream", filter |-> filter, data |-> data, length |-> TRUE]
Object(id, body)       == [id |-> id, body |-> body]

\* object_by_id: the first object with that number.
object_by_id(pdf, id) ==
  LET Found(at) == IF at = 0 THEN Err ELSE Ok(at) IN Found(FirstOf({i \in DOMAIN pdf : pdf[i].id = id}, 0))

Distance(a, b) == IF a > b THEN a - b ELSE b - a

\* media_box: a page's size, whichever corners its box names, or the default
\* when the box is missing or odd.
media_box(page) ==
  LET Size(width, height) == IF Len(page.box) = 4 /\ width \in 1..20000 /\ height \in 1..20000
                               THEN <<width, height>> ELSE <<612, 792>>
  IN Size(Distance(page.box[1], page.box[3]), Distance(page.box[2], page.box[4]))

\* referenced_objects: the references up to the first that is none, only one
\* when they are not in an array.
referenced_objects(page) ==
  LET Good(r) == r.generation = 0 /\ r.id \in 1..4096
      Before(end) == [i \in 1..(IF end > Len(page.refs) THEN Len(page.refs) ELSE end - 1) |-> page.refs[i].id]
  IN Before(FirstOf({i \in DOMAIN page.refs : ~Good(page.refs[i])} \cup (IF page.array THEN {} ELSE {2}),
                    Len(page.refs) + 1))

\* pdf_literal: Err, or the text of the literal that opens at i and the
\* position behind it.
RECURSIVE LiteralFrom(_, _, _)
LiteralFrom(data, i, depth) ==
  LET Rest(symbol, step, inner) ==
        Then(LiteralFrom(data, i + step, inner), LAMBDA rest : Ok([rest EXCEPT !.text = <<symbol>> \o @]))
  IN IF i > Len(data) THEN Err
     ELSE CASE data[i] = Escape -> IF i = Len(data) THEN Err
                                   ELSE Rest(IF data[i + 1] = "n" THEN LF ELSE data[i + 1], 2, depth)
            [] data[i] = "("    -> Rest("(", 1, depth + 1)
            [] data[i] = ")"    -> IF depth = 1 THEN Ok([text |-> <<>>, end |-> i + 1]) ELSE Rest(")", 1, depth - 1)
            [] OTHER            -> Rest(data[i], 1, depth)

pdf_literal(data, i) == LiteralFrom(data, i + 1, 1)

\* extract_stream_spans: the strings between BT and ET with the position the
\* text cursor has; "hex" is a hexadecimal string of one character.  Behind a
\* literal one character is skipped; an operator that loses its first
\* character this way is one the scanner does not know.
Operators == {"BT", "ET", "Td", "Tm", "T*", "Tj"}
Numbers   == [zero |-> 0, five |-> 5, nine |-> 9]

\* Where an operator moves the text cursor to.
Moved(s, symbol) ==
  LET n == Len(s.numbers) IN
  CASE symbol = "Td" /\ n >= 2 -> <<s.at[1] + s.numbers[n - 1], s.at[2] + s.numbers[n]>>
    [] symbol = "Tm" /\ n >= 6 -> <<s.numbers[n - 1], s.numbers[n]>>
    [] symbol = "T*" -> <<s.at[1], s.at[2] - 12>>
    [] OTHER -> s.at

\* The scanner behind a symbol that starts no string.
AfterSymbol(s, symbol) ==
  [in_text |-> (s.in_text \/ symbol = "BT") /\ symbol # "ET",
   at      |-> Moved(s, symbol),
   numbers |-> IF symbol \in DOMAIN Numbers THEN Append(s.numbers, Numbers[symbol])
               ELSE IF symbol \in {Space, "[", "]", ")", "BT"} THEN s.numbers ELSE <<>>]

RECURSIVE SpansFrom(_, _, _)
SpansFrom(data, i, s) ==
  LET Lost(end) == end <= Len(data) /\ data[end] \in Operators
      Span(text, end) == IF s.in_text /\ text # <<>>
                           THEN <<[start |-> i, end |-> end, text |-> text, at |-> s.at]>> ELSE <<>>
      Kept(spans, next, after) == Then(SpansFrom(data, next, after), LAMBDA rest : Ok(spans \o rest))
      Literal(literal) == Kept(Span(literal.text, literal.end), literal.end + 1,
                               [s EXCEPT !.numbers = IF Lost(literal.end) THEN <<>> ELSE @])
  IN IF i > Len(data) THEN Ok(<<>>)
     ELSE CASE data[i] = "("   -> Then(pdf_literal(data, i), Literal)
            [] data[i] = "hex" -> Kept(Span(<<"x">>, i + 1), i + 1, s)
            [] OTHER           -> Kept(<<>>, i + 1, AfterSymbol(s, data[i]))

extract_stream_spans(data) == SpansFrom(data, 1, [in_text |-> FALSE, at |-> <<0, 0>>, numbers |-> <<>>])

-----------------------------------------------------------------------------
\* The objects that are pages, in file order.
Pages(pdf) == SelectSeq([i \in DOMAIN pdf.objects |-> i], LAMBDA i : pdf.objects[i].body.type = "page")

\* Each page's content streams, as the places of their objects.
StreamRefs(pdf) ==
  LET Refs(page, ids) == [j \in DOMAIN ids |-> [page |-> page, at |-> object_by_id(pdf.objects, ids[j])]]
      Of(pages) == FlattenSeq([k \in DOMAIN pages |-> Refs(k, referenced_objects(pdf.objects[pages[k]].body))])
  IN Of(Pages(pdf))

\* stream_data and decode_stream: a stream with a known filter.
Decodable(body) == body.type = "stream" /\ body.filter \in {"none", "flate"}

\* parse_pdf: Err, or the spans of all pages with their page and object.
parse_pdf(pdf) ==
  LET Body(r) == pdf.objects[r.at[1]].body
      Spans(r) == IF IsOk(r.at) /\ Decodable(Body(r)) THEN extract_stream_spans(Body(r).data) ELSE Err
      Placed(r, spans) == [j \in DOMAIN spans |-> [page |-> r.page, object |-> r.at[1], span |-> spans[j]]]
      All(refs, spans) == IF \E k \in DOMAIN refs : ~IsOk(spans[k]) THEN Err
                          ELSE Ok(FlattenSeq([k \in DOMAIN refs |-> Placed(refs[k], spans[k][1])]))
      Of(refs) == All(refs, [k \in DOMAIN refs |-> Spans(refs[k])])
  IN IF ~pdf.marked \/ pdf.encrypted \/ Pages(pdf) = <<>> THEN Err ELSE Of(StreamRefs(pdf))

\* inspect: a span per segment, with a line end where the next one is on
\* another page, on another line or further left.
pdf_inspect(pdf) ==
  LET Ends(this, next) == \/ next.page # this.page
                          \/ Distance(this.span.at[2], next.span.at[2]) > 4
                          \/ next.span.at[1] + 1 < this.span.at[1]
  IN Then(parse_pdf(pdf), LAMBDA spans :
       Ok([k \in DOMAIN spans |->
             Segment(IF Blank(spans[k].span.text) THEN "verbatim" ELSE "prose", spans[k].span.text,
                     IF k < Len(spans) /\ Ends(spans[k], spans[k + 1]) THEN <<LF>> ELSE <<>>)]))

\* warnings: pages without text, and pages with two texts in one place.
pdf_warnings(pdf) ==
  LET Of(page, spans) ==
        (IF spans = <<>> THEN {<<"PdfImageOnlyPage", page>>} ELSE {})
        \cup (IF \E k \in 1..(Len(spans) - 1) : spans[k].span.at = spans[k + 1].span.at
                THEN {<<"PdfUncertainReadingOrder", page>>} ELSE {})
  IN Then(parse_pdf(pdf), LAMBDA spans :
       Ok({<<"PdfReconstructionLimited", 0>>}
          \cup UNION {Of(p, SelectSeq(spans, LAMBDA s : s.page = p)) : p \in DOMAIN Pages(pdf)}))

-----------------------------------------------------------------------------
\* pdf_escape: brackets, backslashes and line ends; text that is not ASCII
\* cannot be written.
IsAscii(text) == ~Has(text, "wide")

pdf_escape(text) ==
  FlattenSeq([i \in DOMAIN text |-> CASE text[i] \in {"(", ")", Escape} -> <<Escape, text[i]>>
                                      [] text[i] = LF -> <<Escape, "n">>
                                      [] OTHER -> <<text[i]>>])

\* rewrite_stream copies the data between the spans it is given.
rewrite_stream(data, spans, segments) ==
  LET Step(s, k) == [cursor |-> spans[k].span.end,
                     out |-> s.out \o Upto(data, s.cursor, spans[k].span.start)
                               \o (IF segments[k].kind = "prose"
                                     THEN <<"(">> \o pdf_escape(segments[k].translated_text[1]) \o <<")">>
                                     ELSE Upto(data, spans[k].span.start, spans[k].span.end))]
      Tailed(last) == last.out \o From(data, last.cursor)
  IN Tailed(FoldLeft(Step, [cursor |-> 1, out |-> <<>>], [k \in DOMAIN spans |-> k]))

\* rewrite_object, by how it ends: it stops the program by slicing backwards
\* where a span begins before the previous one has ended (the spans of a
\* stream come twice when two pages, or two references of one page, share it),
\* and fails on a segment that does not fit its span or a stream without a
\* length, whichever is met first.
rewrite_end(object, spans, segments) ==
  LET Fits(segment, span) ==
        /\ segment.source_text = span.text
        /\ segment.kind = "prose" => IsOk(segment.translated_text) /\ IsAscii(segment.translated_text[1])
      Backwards(k) == k > 1 /\ spans[k].span.start < spans[k - 1].span.end
      Ending(k) == IF k = 0 THEN IF object.body.length THEN "ok" ELSE "error"
                   ELSE IF Backwards(k) THEN "panic" ELSE "error"
  IN Ending(FirstOf({k \in DOMAIN spans : Backwards(k) \/ ~Fits(segments[k], spans[k].span)}, 0))

\* The segments of each object that has some.
Replacements(spans) ==
  [o \in {spans[k].object : k \in DOMAIN spans} |-> SelectSeq([k \in DOMAIN spans |-> k], LAMBDA k : spans[k].object = o)]

Chosen(sequence, places) == [j \in DOMAIN places |-> sequence[places[j]]]

\* How the rewriting of the objects may end: they come in the order of a hash
\* map, and the first that cannot be rewritten ends it.
rewrite_ends(pdf, segments) ==
  LET Bad(spans, mine) ==
        {rewrite_end(pdf.objects[o], Chosen(spans, mine[o]), Chosen(segments, mine[o])) : o \in DOMAIN mine} \ {"ok"}
      Of(parsed) == IF ~IsOk(parsed) \/ Len(parsed[1]) # Len(segments) THEN {"error"}
                    ELSE Bad(parsed[1], Replacements(parsed[1]))
      Or(bad) == IF bad = {} THEN {"ok"} ELSE bad
  IN Or(Of(parse_pdf(pdf)))

\* reconstruct, of objects that can be rewritten: every stream with text is
\* rewritten in its place and the result has to be readable.
pdf_reconstruct(pdf, segments) ==
  LET Rewritten(object, spans, mine) ==
        [object EXCEPT !.body.data = rewrite_stream(@, Chosen(spans, mine), Chosen(segments, mine))]
      Out(spans, mine) ==
        [pdf EXCEPT !.objects = [o \in DOMAIN @ |-> IF o \in DOMAIN mine THEN Rewritten(@[o], spans, mine[o]) ELSE @[o]]]
      Checked(out) == Then(parse_pdf(out), LAMBDA again : Ok(out))
  IN Then(parse_pdf(pdf), LAMBDA spans :
       IF segments = <<>> THEN Ok(pdf) ELSE Checked(Out(spans, Replacements(spans))))

html_escape(text) == Replace(escape(text), Quote, <<"&", "quot;">>)

\* alternative_html: a section for each run of spans of one page, a paragraph
\* for each span.
alternative_html(pdf, segments) ==
  LET Text(segment) == IF segment.kind = "prose" THEN segment.translated_text ELSE Ok(segment.source_text)
      Section(page) == [page |-> page, size |-> media_box(pdf.objects[Pages(pdf)[page]].body), texts |-> <<>>]
      Added(sections, text) == [sections EXCEPT ![Len(sections)].texts = Append(@, html_escape(text))]
      Placed(s, page, text) ==
        Added(IF s # <<>> /\ Last(s).page = page THEN s ELSE Append(s, Section(page)), text)
      Sections(spans) == FoldLeft(LAMBDA s, k : Placed(s, spans[k].page, Text(segments[k])[1]),
                                  <<>>, [k \in DOMAIN segments |-> k])
  IN Then(parse_pdf(pdf), LAMBDA spans :
       IF Len(spans) = Len(segments) /\ \A k \in DOMAIN segments : IsOk(Text(segments[k]))
         THEN Ok(Sections(spans)) ELSE Err)
=============================================================================
