------------------------------ MODULE Documents ------------------------------
(***************************************************************************)
(* DocumentJob (crates/linguamesh-document/src/lib.rs): a document is read  *)
(* into segments, the prose segments get their translations one by one, and *)
(* the document is written again around them.  What reading and writing     *)
(* mean is the codec of the format.                                         *)
(***************************************************************************)
EXTENDS LineFormats, CsvText, HtmlText, JsonText, Ooxml, Epub, Pdf

CONSTANTS
  Formats,      \* the formats of the instance
  Sources(_),   \* the documents of each format
  ReadOptions(_), \* the options they are read with
  Wordings(_),  \* translations to try besides the segment's own text
  MaxDocument   \* MAX_DOCUMENT_BYTES, in symbols

ASSUME DocumentAssumption == MaxDocument \in Nat

VARIABLES
  format,     \* DocumentJob.format
  source,     \* what was given: a text, an archive or a PDF
  options,    \* the caller's choices: columns, pointers, range, locale
  segments,   \* DocumentJob.segments
  given,      \* the translation of each segment as it was given, if it was
  output,     \* the reconstructed document
  pc          \* "start", "select", "open", or how the job ended

vars == <<format, source, options, segments, given, output, pc>>

TextFormats == {"txt", "md", "srt", "vtt", "csv", "html", "json"}
OoxmlKinds  == {"docx", "pptx", "xlsx"}

NoOptions == [columns |-> Err, include |-> Err, exclude |-> Err, selection |-> Err, locale |-> Err]

\* The text without a byte order mark.
Stripped(text) == IF text # <<>> /\ text[1] = "BOM" THEN Tail(text) ELSE text

\* validate_structure_with_delimiter.
validate_structure(form, text, delimiter) ==
  CASE form = "html" -> IsOk(parse_html_tokens(text))
    [] form = "json" -> IsOk(parse_json_tokens(text))
    [] form = "csv"  -> IsOk(parse_csv_records(text, delimiter))
    [] form \in {"srt", "vtt"} -> valid_subtitles(form, text)
    [] OTHER -> TRUE

\* from_utf8 and its variants with columns or pointers.
ReadText(form, text, opt) ==
  LET Checked(body) ==
        IF ~validate_structure(form, body, detect_csv_delimiter(body)) THEN Err
        ELSE CASE form = "json" -> from_json_text(body, opt.include, opt.exclude)
               [] form = "csv"  -> from_csv_text(body, opt.columns)
               [] form = "html" -> from_html_text(body)
               [] OTHER -> Ok(from_text(form, body))
  IN IF Len(text) > MaxDocument \/ Has(text, "bad") THEN Err ELSE Checked(Stripped(text))

\* from_ooxml_bytes, from_epub_bytes and from_pdf_bytes.
ReadPackage(form, doc) ==
  CASE form \in OoxmlKinds -> inspect_kind(doc, form, Err)
    [] form = "epub"       -> epub_inspect(doc)
    [] form = "pdf"        -> pdf_inspect(doc)

Read(form, doc, opt) == IF form \in TextFormats THEN ReadText(form, doc, opt) ELSE ReadPackage(form, doc)

-----------------------------------------------------------------------------
\* translation_source_text of a prose segment: what is sent to a provider.
translation_source_text(i) ==
  CASE format = "csv"  -> decode_csv_field(segments[i].source_text, detect_csv_delimiter(SourceText(segments)))
    [] format = "json" -> decode_json_string(segments[i].source_text)
    [] OTHER           -> Ok(segments[i].source_text)

\* How apply_translation stores a translation.
Encoded(i, text) ==
  CASE format = "csv"  -> encode_csv_field(segments[i].source_text, text, detect_csv_delimiter(SourceText(segments)))
    [] format = "json" -> encode_json_string(text)
    [] format = "html" -> encode_html_text(text)
    [] OTHER           -> text

pending_count == Cardinality({i \in DOMAIN segments : segments[i].kind = "prose" /\ segments[i].translated_text = <<>>})

\* The segments' output texts with their line ends.
OutputText ==
  FlattenSeq([i \in DOMAIN segments |->
    (IF segments[i].kind = "prose" THEN segments[i].translated_text[1] ELSE segments[i].source_text)
      \o segments[i].line_ending])

\* reconstruct_bytes_with_target_locale of a job whose segments are complete.
Written ==
  LET Checked(text) == IF Len(text) <= MaxDocument
                          /\ validate_structure(format, text, detect_csv_delimiter(SourceText(segments)))
                         THEN Ok(text) ELSE Err
  IN CASE format \in TextFormats -> Checked(OutputText)
       [] format \in OoxmlKinds  -> reconstruct_kind(source, format, segments)
       [] format = "epub"        -> epub_reconstruct(source, segments, options.locale)
       [] format = "pdf"         -> pdf_reconstruct(source, segments)

-----------------------------------------------------------------------------
\* from_utf8: the document is read or refused.
from_utf8 ==
  /\ pc = "start"
  /\ \E result \in {Read(format, source, options)} :
       \/ /\ IsOk(result)
          /\ segments' = result[1]
          /\ given' = [i \in DOMAIN result[1] |-> <<>>]
          /\ pc' = IF IsOk(options.selection) THEN "select" ELSE "open"
       \/ /\ ~IsOk(result)
          /\ pc' = "refused" /\ UNCHANGED <<segments, given>>
  /\ UNCHANGED <<format, source, options, output>>

\* select_xlsx_range: only the strings of the range stay prose; the selection
\* has to find the same segments.
select_xlsx_range ==
  /\ pc = "select"
  /\ \E selected \in {inspect_xlsx_with_selection(source, options.selection[1])} :
       IF /\ format = "xlsx" /\ IsOk(selected)
          /\ Len(selected[1]) = Len(segments)
          /\ \A i \in DOMAIN segments : selected[1][i].source_text = segments[i].source_text
         THEN /\ segments' = [i \in DOMAIN segments |-> [segments[i] EXCEPT !.kind = selected[1][i].kind]]
              /\ pc' = "open"
         ELSE pc' = "refused" /\ UNCHANGED segments
  /\ UNCHANGED <<format, source, options, given, output>>

\* apply_translation: a prose segment that exists.
apply_translation(i, text) ==
  /\ pc = "open"
  /\ i \in DOMAIN segments /\ segments[i].kind = "prose"
  /\ segments' = [segments EXCEPT ![i].translated_text = Ok(Encoded(i, text))]
  /\ given' = [given EXCEPT ![i] = Ok(text)]
  /\ UNCHANGED <<format, source, options, output, pc>>

\* How the rewriting of the document's parts may end before the output is put
\* together and looked at.
Rewriting == IF format = "pdf" THEN rewrite_ends(source, segments) ELSE {"ok"}

\* reconstruct: refused while a translation is missing; a PDF whose pages
\* share a stream stops the program.
reconstruct ==
  /\ pc = "open"
  /\ pending_count = 0
  /\ \E ending \in Rewriting :
       \E written \in IF ending = "ok" THEN {Written} ELSE {Err} :
         IF ending = "panic" THEN pc' = "panic" /\ UNCHANGED output
         ELSE IF ~IsOk(written) THEN pc' = "failed" /\ UNCHANGED output
         ELSE pc' = "ready" /\ output' = written[1]
  /\ UNCHANGED <<format, source, options, segments, given>>

Init ==
  /\ format \in Formats
  /\ source \in Sources(format)
  /\ options \in ReadOptions(format)
  /\ segments = <<>> /\ given = <<>> /\ output = <<>>
  /\ pc = "start"

\* A translation touches its own segment only, so one order is enough: the
\* next pending one.
NextPending(i) ==
  /\ segments[i].kind = "prose" /\ given[i] = <<>>
  /\ \A j \in 1..(i - 1) : segments[j].kind = "prose" => given[j] # <<>>

Next ==
  \/ from_utf8 \/ select_xlsx_range \/ reconstruct
  \/ \E i \in DOMAIN segments :
       /\ NextPending(i)
       /\ \E text \in Wordings(format) \cup ToSet(translation_source_text(i)) : apply_translation(i, text)

Spec == Init /\ [][Next]_vars

-----------------------------------------------------------------------------
(* Properties.                                                             *)

Accepted == pc \in {"open", "ready", "failed", "panic"}
Ended    == pc \in {"ready", "failed", "panic"}

\* Every prose segment was given back its own text.
Untouched ==
  \A i \in DOMAIN segments : segments[i].kind = "prose" => given[i] = translation_source_text(i)

\* Text that HTML escapes change.
Escaped(text) == \E c \in {"&", ">", "-->"} : Has(text, c)

\* Reading cuts a text into segments without losing any of it, and writing a
\* document whose texts were given back as they are gives that document: the
\* same text, or the same members.  HTML text with an ampersand or a bracket
\* is escaped again by encode_html_text and is left out.
IdentityRoundTrip ==
  /\ Accepted /\ format \in TextFormats => SourceText(segments) = Stripped(source)
  /\ Ended /\ Untouched /\ format # "pdf" /\ ~IsOk(options.locale) /\ (format = "html" => ~Escaped(source)) =>
       /\ pc = "ready"
       /\ IF format \in TextFormats THEN output = Stripped(source)
          ELSE /\ NamesOf(output) = NamesOf(source)
               /\ \A name \in NamesOf(source) : ContentOf(output, name) = ContentOf(source, name)

-----------------------------------------------------------------------------
\* What each segment should read as after the translation.
Expected(i) == IF segments[i].kind = "prose" THEN given[i] ELSE translation_source_text(i)

\* The cells of a CSV text, decoded, record by record.
Cells(text, delimiter) ==
  LET Decoded(records) ==
        [r \in DOMAIN records |->
           [c \in DOMAIN records[r].fields |-> decode_csv_field(records[r].fields[c], delimiter)]]
  IN Decoded(parse_csv_records(text, delimiter)[1])

CsvLands ==
  LET Lengths(cells) == [r \in DOMAIN cells |-> Len(cells[r])]
      FieldsOf(delimiter) ==
        SelectSeq([i \in DOMAIN segments |-> i], LAMBDA i : segments[i].source_text # <<delimiter>>)
      Wanted(i, delimiter) == IF segments[i].kind = "prose" THEN given[i]
                              ELSE decode_csv_field(segments[i].source_text, delimiter)
  IN \E delimiter \in {detect_csv_delimiter(Stripped(source))} :
     \E fields \in {FieldsOf(delimiter)}, after \in {Cells(output, delimiter)} :
       /\ Lengths(after) = Lengths(Cells(Stripped(source), delimiter))
       /\ FlattenSeq(after) = [k \in DOMAIN fields |-> Wanted(fields[k], delimiter)]

\* The comment delimiters symbol by symbol.
Spelled(text) == Replace(Replace(text, "<!--", <<"<", "!", "--">>), "-->", <<"--", ">">>)

HtmlLands ==
  \E again \in {from_html_text(output)[1]} :
     /\ Len(again) = Len(segments)
     /\ \A i \in DOMAIN again :
          IF segments[i].kind = "prose" THEN again[i].kind = "prose" /\ html_text(again[i].source_text) = Spelled(given[i][1])
          ELSE again[i] = segments[i]

JsonLands ==
  \E old \in {parse_json_tokens(Stripped(source))[1]}, new \in {parse_json_tokens(output)[1]},
     strings \in {SelectSeq([i \in DOMAIN segments |-> i], LAMBDA i : segments[i].source_text[1] = Quote)} :
     /\ [k \in DOMAIN old |-> <<old[k].path, old[k].is_key>>] = [k \in DOMAIN new |-> <<new[k].path, new[k].is_key>>]
     /\ \A k \in DOMAIN new :
          decode_json_string(Upto(output, new[k].start, new[k].end))
            = IF segments[strings[k]].kind = "prose" THEN given[strings[k]]
              ELSE decode_json_string(segments[strings[k]].source_text)

PdfLands ==
  \E old \in {parse_pdf(source)[1]}, new \in {parse_pdf(output)[1]} :
     /\ Len(old) = Len(new)
     /\ \A k \in DOMAIN new :
          /\ new[k].page = old[k].page /\ new[k].span.at = old[k].span.at
          /\ new[k].span.text = Expected(k)[1]
     /\ pdf_warnings(output) = pdf_warnings(source)
     /\ LET Texts(on) == [j \in DOMAIN on |-> html_escape(on[j].span.text)]
        IN \A section \in ToSet(alternative_html(source, segments)[1]) :
             section.texts = Texts(SelectSeq(new, LAMBDA s : s.page = section.page))

\* A package reads as its translations, and every other text as before.
PackageLands ==
  \E again \in {ReadPackage(format, output)[1]} :
     /\ Len(again) = Len(segments)
     /\ \A i \in DOMAIN again :
          again[i].source_text = IF segments[i].kind = "prose" THEN given[i][1] ELSE segments[i].source_text

\* A translation that is not blank, on one line.
SingleLine(text) == ~Blank(text) /\ ~Has(text, LF) /\ ~Has(text, CR)

\* The blocks of nonblank lines of a subtitle file, as line numbers.
Blocks(lines) ==
  LET Inky(i) == ~Blank(lines[i].text)
  IN {b \in (1..Len(lines)) \X (1..Len(lines)) :
        /\ b[1] <= b[2] /\ \A i \in b[1]..b[2] : Inky(i)
        /\ b[1] > 1 => ~Inky(b[1] - 1)
        /\ b[2] < Len(lines) => ~Inky(b[2] + 1)}

\* The line of a cue block that has its times.
StampLine(lines, b) == IF valid_timestamp_line(Trim(lines[b[1]].text), format) THEN b[1] ELSE b[1] + 1

CueBlocks(lines) ==
  {b \in Blocks(lines) : format = "vtt" => b[1] # 1 /\ ~IsMetadata(Trim(lines[b[1]].text))}

SubtitlesLand ==
  LET Stamps(lines) == {<<i, lines[i].text>> : i \in {StampLine(lines, b) : b \in CueBlocks(lines)}}
  IN Stamps(split_lines(output)) = Stamps(split_lines(Stripped(source)))

\* A document that could be written reads as its translations: in every
\* format with an encoding of its own each translation is found where its
\* segment was, whatever characters it has, and everything else is as before.
\* Subtitle lines have no escape, so their translations are single lines.
TranslationsLand ==
  pc = "ready" /\ (\A i \in DOMAIN given : IsOk(given[i]) => ~Blank(given[i][1])) =>
    CASE format = "csv"  -> CsvLands
      [] format = "html" -> HtmlLands
      [] format = "json" -> JsonLands
      [] format = "pdf"  -> PdfLands
      [] format \in OoxmlKinds \cup {"epub"} -> PackageLands
      [] format \in {"srt", "vtt"} ->
           (\A i \in DOMAIN given : IsOk(given[i]) => SingleLine(given[i][1])) => SubtitlesLand
      [] OTHER -> TRUE

-----------------------------------------------------------------------------
\* The texts that a text element holds between two nodes of a member.
TextsWithin(xml, first, last) ==
  {xml[i + 1].text : i \in {j \in first..last : xml[j].shape = "open" /\ xml[j].name = "t"}}

\* What a reader of the spreadsheet sees in the cell at node i: its own text,
\* or the shared string with its number.
Shown(archive, xml, i) ==
  LET Number(end) == xml[FirstOf({j \in i..end : xml[j].shape = "open" /\ xml[j].name = "v"}, 0) + 1].text[1]
      Item(strings, at) ==
        TextsWithin(strings, at, FirstOf({j \in at..Len(strings) : strings[j] = Close("si")}, at))
      String(strings, number) ==
        Item(strings, SetToSortSeq({j \in DOMAIN strings : strings[j] = Open("si")}, <)[number + 1])
      Upto1(end) == IF xml_attribute(xml[i], "t") = Ok("s")
                      THEN String(ContentOf(archive, "xl/sharedStrings.xml"), Number(end))
                      ELSE TextsWithin(xml, i, end)
  IN Upto1(FirstOf({j \in i..Len(xml) : xml[j] = Close("c")}, Len(xml)))

\* The cells of a sheet, with their references; a cell of shared type has its
\* closing tag (the scanner takes one without for the cell behind it).
CellTags(xml) == {i \in DOMAIN xml : xml[i].shape \in {"open", "empty"} /\ xml[i].name = "c"}
Closed(xml)   == \A i \in CellTags(xml) : xml[i].shape = "empty" => xml_attribute(xml[i], "t") # Ok("s")

\* Is the cell one the caller asked for?
Asked(part, ref) ==
  /\ [name |-> options.selection[1].sheet_name, part |-> part] \in ToSet(WorkbookSheets(source))
  /\ xlsx_cell_in_range(ref, parse_xlsx_range(options.selection[1].cells)[1])

OtherCellsKept ==
  \A part \in NamesOf(source) \cap Sheets :
    \E old \in {ContentOf(source, part)}, new \in {ContentOf(output, part)} :
    Closed(old) => \A i \in CellTags(old) :
      ~Asked(part, old[i].attributes["r"]) => Shown(source, old, i) = Shown(output, new, i)

\* A written package has the members it had, in the order its format wants,
\* and changes none that holds no text, apart from the language an EPUB
\* states; in a spreadsheet of which a range was chosen every cell outside it
\* shows what it showed, also where it shares its string with one inside.
PackageKept ==
  pc = "ready" /\ format \in OoxmlKinds \cup {"epub"} =>
    /\ NamesOf(output) = NamesOf(source) /\ Len(output) = Len(source)
    /\ format = "epub" => \A k \in DOMAIN output : output[k].name = source[k].name
    /\ \A name \in NamesOf(source) :
         ~(IF format = "epub" THEN epub_translatable_part(name) ELSE translatable_part(name, format)) =>
           LET old == ContentOf(source, name) new == ContentOf(output, name)
               Languages(xml) == SelectSeq(xml, LAMBDA n : IsTag(n, "dc:language"))
           IN IF format = "epub" /\ name = PackageDocument /\ IsOk(options.locale)
                THEN Languages(new) = Languages(old)
                     /\ (Languages(old) # <<>> => Chars(options.locale[1]) \in ToSet(new))
                ELSE new = old
    /\ IsOk(options.selection) => OtherCellsKept

-----------------------------------------------------------------------------
\* A JSON Pointer read as RFC 6901 says: its parts between slashes, in which
\* ~1 is a slash and ~0 a tilde.
RECURSIVE PointerPart(_)
PointerPart(text) ==
  IF text = <<>> THEN <<>>
  ELSE IF text[1] = "~" /\ Len(text) >= 2 /\ text[2] \in {"0", "1"}
    THEN <<IF text[2] = "1" THEN "/" ELSE "~">> \o PointerPart(From(text, 3))
  ELSE <<text[1]>> \o PointerPart(Tail(text))

PointerPath(pointer) ==
  LET Keys(parts) == [k \in DOMAIN parts |-> PointerPart(parts[k])] IN Keys(Tail(SplitAt(pointer, "/")))

\* Which strings of a JSON document are translated: the values, never a key,
\* that an included pointer names and no excluded one, whatever slashes and
\* tildes their keys have.
JsonSelection ==
  Accepted /\ format = "json" =>
    LET Names(pointers, path) == \E q \in pointers : PointerPath(q) = path
    IN \E tokens \in {parse_json_tokens(Stripped(source))[1]},
          strings \in {SelectSeq(segments, LAMBDA s : s.source_text[1] = Quote)} :
       \A k \in DOMAIN tokens :
         strings[k].kind = "prose" <=>
           /\ ~tokens[k].is_key
           /\ IsOk(options.include) => Names(options.include[1], tokens[k].path)
           /\ IsOk(options.exclude) => ~Names(options.exclude[1], tokens[k].path)

-----------------------------------------------------------------------------
\* Files in which the scanners' known differences do not show: metadata only
\* at the head of a block, the header word only in the first line, and a
\* header block of at most two lines.
OrdinaryVtt(lines) ==
  /\ \A b \in Blocks(lines) : \A i \in (b[1] + 1)..b[2] : ~IsMetadata(Trim(lines[i].text))
  /\ \A b \in Blocks(lines) : b[1] = 1 => b[2] <= 2
  /\ \A i \in 2..Len(lines) : ~IsHeader(Trim(lines[i].text))

\* The three scanners of a subtitle file agree on what they accept: the lines
\* that are translated are the texts of the cues and nothing else, and the
\* warnings count the same cues.
ScannersAgree ==
  Accepted /\ format \in {"srt", "vtt"} =>
    \E lines \in {split_lines(Stripped(source))} : \E cues \in {CueBlocks(lines)} :
      OrdinaryVtt(lines) =>
        /\ {i \in DOMAIN segments : segments[i].kind = "prose"}
             = UNION {(StampLine(lines, b) + 1)..b[2] : b \in cues}
        /\ \E warned \in ToSet(subtitle_warnings(format, Stripped(source), 1, 1)) : Len(warned) = Cardinality(cues)
=============================================================================
