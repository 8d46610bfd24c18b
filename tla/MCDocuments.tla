----------------------------- MODULE MCDocuments -----------------------------
(***************************************************************************)
(* Documents of every format: all short texts over an alphabet of the       *)
(* symbols the codec reads, larger ones built from the codec's own pieces,  *)
(* and packages and PDFs chosen for their structure.                        *)
(***************************************************************************)
EXTENDS Documents

CONSTANTS TextLength, LineCount, PieceCount

\* All sequences over a set up to a length.
UpTo(S, n) == UNION {[1..k -> S] : k \in 0..n}

\* Lines joined by their ends; the last may be without.
Joined(lines, end) == FlattenSeq([i \in DOMAIN lines |-> lines[i] \o (IF i < Len(lines) THEN <<LF>> ELSE end)])

PlainTexts == UpTo({"x", Space, CR, LF, "fence"}, TextLength)
              \cup {<<"BOM", "x", LF>>, <<"x", "bad">>, <<"x", "x", "x", "x", "x", "x", "x", "x", "x">>}

SrtTexts == {Joined(l, e) : l \in UpTo({<<>>, <<"1">>, <<"x">>, <<"t,">>}, LineCount), e \in {<<>>, <<LF>>}}
            \cup {Joined(<<<<"t,">>, <<"x", "x">>, <<>>, <<"1">>, <<"t,">>, <<"x">>, <<"1">>>>, <<CR, LF>>)}

VttTexts == {Joined(<<<<"WEBVTT">>>> \o l, e) : l \in UpTo({<<>>, <<"x">>, <<"t.">>, <<"NOTE">>}, LineCount), e \in {<<>>, <<LF>>}}
            \cup {Joined(<<<<"WEBVTT">>, <<>>, <<"t60">>, <<"x">>>>, <<>>), <<"x">>}

CsvFields == {<<>>, <<"1">>, <<"id">>, <<Quote, "a", ",", Quote>>, <<Quote, Quote, Quote, LF, Quote>>}
CsvRecords == UNION {[1..n -> CsvFields] : n \in 1..2}
CsvLine(r, d) == FlattenSeq([i \in DOMAIN r |-> r[i] \o (IF i < Len(r) THEN <<d>> ELSE <<>>)])

CsvTexts == UpTo({",", ";", Quote, LF, CR, "a"}, TextLength)
            \cup {CsvLine(r, d) \o <<LF>> \o f : r \in CsvRecords, f \in CsvFields, d \in {",", ";"}}

HtmlPieces == {<<"x">>, <<Space>>, <<"<", "b", ">">>, <<"<", "/", "b", ">">>, <<"<", "br", ">">>,
               <<"<", "b", "/", ">">>, <<"<", "script", ">">>, <<"<", "/", "script", ">">>, <<"<!--">>, <<"-->">>,
               <<"<", "b", Space, Quote, ">", Quote, ">">>, <<"<", "!", "b", ">">>, <<"<">>, <<"&">>}
HtmlTexts == {FlattenSeq(l) : l \in UpTo(HtmlPieces, PieceCount)}
             \cup {FlattenSeq(<<<<"<", "script", ">">>, p, q, <<"<", "/", "script", ">">>>>) : p, q \in HtmlPieces}
             \cup {FlattenSeq(<<<<"<", "b", ">">>, p, <<"x">>, <<"<", "/", "b", ">">>, q>>) : p, q \in HtmlPieces}

JsonString(s) == <<Quote>> \o s \o <<Quote>>
JsonKeys == {<<"k">>, <<"/">>, <<"~", "1">>}
JsonLeaves == {JsonString(<<>>), JsonString(<<"k">>), JsonString(<<Backslash, Quote>>), <<"1">>}
JsonMember(k, v) == JsonString(k) \o <<":">> \o v
JsonNested == {<<"{">> \o JsonMember(k, v) \o <<"}">> : k \in JsonKeys, v \in JsonLeaves}
              \cup {<<"[">> \o v \o <<",", Space>> \o w \o <<"]">> : v, w \in JsonLeaves}
JsonTexts == UpTo({"{", "[", "]", "}", ",", ":", Quote, "1"}, TextLength - 1)
             \cup JsonNested
             \cup {<<"{">> \o JsonMember(j, v) \o <<",", LF>> \o JsonMember(k, w) \o <<"}">> :
                     j, k \in JsonKeys, v \in {JsonString(<<"k">>), <<"[", "]">>}, w \in JsonNested}
             \cup {<<"[">> \o v \o <<",">> \o w \o <<"]">> : v \in JsonNested, w \in {JsonString(<<"k">>)}}

-----------------------------------------------------------------------------
\* Packages.
Run(name, text) == <<Open(name), Chars(text), Close(name)>>
Types == Member("[Content_Types].xml", <<Empty("Types")>>)

\* Two runs of one paragraph, an entity, a tab and a second paragraph.
Body == <<Open("w:p")>> \o Run("w:t", <<"x">>) \o Run("w:t", <<"&", "lt;">>) \o <<Empty("w:tab"), Close("w:p"), Open("w:p")>>
          \o Run("w:t", <<Space>>) \o <<Close("w:p")>>
DocxParts == {Body, <<>>, Run("w:t", <<>>), Run("w:t", <<"&">>), <<Open("w:t"), Open("w:t")>>, <<Open("w:p"), Close("w:t")>>,
              <<DocType>> \o Body, <<Open("w:p")>> \o Run("w:t", <<"x">>)}
DocxPackages ==
  {<<Member("word/header1.xml", Run("w:t", <<"y">>)), Member("word/styles.xml", Run("w:t", <<"s">>)),
     Member("word/document.xml", part), Types>> : part \in DocxParts}
  \cup {<<Types>>, <<Types, Member("word/document.xml", Body), Member("word/vbaProject.bin", <<>>)>>,
        <<Types, Types, Member("word/document.xml", Body)>>,
        <<Types, [Member("word/document.xml", Body) EXCEPT !.fault = "symlink"]>>}

Slide(text) == <<Open("a:p")>> \o Run("a:t", text) \o <<Close("a:p")>>
PptxPackages ==
  LET main == Member("ppt/presentation.xml", Run("a:t", <<"p">>)) IN
  {<<main, Member("ppt/slides/slide2.xml", Slide(<<"y">>)), Member("ppt/media/image1.png", <<>>), Types,
     Member("ppt/slides/slide1.xml", Slide(t))>> : t \in {<<"x">>, <<"&", "amp;">>}}
  \cup {<<main, Types>>}

\* A spreadsheet: four cells with the shared strings they show, or with a text
\* of their own, on two sheets.
At1(column, row) == Cell(<<column>>, row)
SharedCell(ref, n) == <<OpenWith("c", [r |-> ref, t |-> "s"]), Open("v"), Chars(<<n>>), Close("v"), Close("c")>>
InlineCell(ref) == <<OpenWith("c", [r |-> ref, t |-> "inlineStr"]), Open("is")>> \o Run("t", <<"i">>) \o <<Close("is"), Close("c")>>
SheetCell(ref, n) == IF n = 2 THEN InlineCell(ref) ELSE SharedCell(ref, n)
Item(text) == <<Open("si")>> \o Run("t", text) \o <<Close("si")>>

Workbook(cells, targets) ==
  <<Types,
    Member("xl/workbook.xml", <<EmptyWith("sheet", [name |-> "one", id |-> "r1", sheetId |-> "xl/worksheets/sheet1.xml"]),
                                EmptyWith("sheet", [name |-> "two", id |-> "r2", sheetId |-> "xl/worksheets/sheet2.xml"])>>),
    Member("xl/_rels/workbook.xml.rels", targets),
    Member("xl/worksheets/sheet1.xml", SheetCell(At1(1, 1), cells[1]) \o SheetCell(At1(2, 1), cells[2]) \o cells[4]),
    Member("xl/worksheets/sheet2.xml", SheetCell(At1(1, 1), cells[3])),
    Member("xl/sharedStrings.xml", Item(<<"x">>) \o Item(<<"y">>))>>

Related(id, target) == EmptyWith("Relationship", [Id |-> id, Target |-> target])
XlsxPackages ==
  LET sheet1 == "worksheets/sheet1.xml" sheet2 == "worksheets/sheet2.xml"
      straight == <<Related("r1", <<"/", "xl/", sheet1>>), Related("r2", <<sheet2>>)>>
      crossed  == <<Related("r2", <<"../", "xl/", sheet1>>), Related("r1", <<sheet2>>)>>
      selfClosing == <<EmptyWith("c", [r |-> At1(1, 2), t |-> "s"])>> \o SharedCell(At1(2, 2), 1)
  IN {Workbook(<<a, b, c, <<>>>>, rels) : a, b, c \in 0..2, rels \in {straight, crossed, <<>>}}
     \cup {Workbook(<<0, 0, 0, selfClosing>>, straight)}
     \cup {Workbook(<<0, 0, 0, <<>>>>, <<Related("r1", <<"missing">>)>>)}

Chapter(text) == <<Open("html"), Comment, Open("script"), Chars(<<"s">>), Close("script"), Open("p"), Chars(text),
                   Close("p"), Chars(<<LF>>), Close("html")>>
EpubPackages ==
  LET type == Member("mimetype", <<"application/epub+zip">>)
      container == Member(Container, <<Empty("rootfile")>>)
      Opf(language) == Member(PackageDocument, <<Open("metadata")>> \o language)
      Book(language, chapter) == <<type, Member("chapter2.xhtml", chapter), container, Opf(language),
                                   Member("chapter1.xhtml", Chapter(<<"y">>))>>
      Language == <<Open("dc:language"), Chars(<<"en">>), Close("dc:language")>>
      parts == {Chapter(<<"x">>), Chapter(<<"&", "gt;">>), Chapter(<<"&">>), <<>>, <<Open("p"), Chars(<<"x">>)>>}
  IN {Book(Language, part) : part \in parts}
     \cup {Book(<<>>, Chapter(<<"x">>)), Book(<<Open("dc:language")>>, Chapter(<<"x">>))}
     \cup {<<container, type, Opf(Language), Member("chapter1.xhtml", Chapter(<<"x">>))>>,
           <<type, container, Opf(Language), Member(Hidden, Chapter(<<"x">>))>>}

\* A PDF of two pages and up to two streams.
Ref(id) == [id |-> id, generation |-> 0]
PdfStreams ==
  {<<"BT", "five", Space, "nine", Space, "Td", "(", "x", Escape, ")", ")", Space, "Tj", "T*", "(", "x", ")", Space, "Tj", "ET">>,
   <<"BT", "[", "(", "x", ")", "(", "x", ")", "]", "hex", "ET">>,
   <<"(", "x", ")", "BT", "(", "(", "x", ")", Escape, "n", ")", "Tj", "ET">>,
   <<"BT", "(", Space, ")", Space, "Tj", "zero", Space, "zero", Space, "Td", "(", "x", ")", Space, "ET">>,
   <<"BT", "(", "x">>, <<>>}
Pdf(objects) == [marked |-> TRUE, encrypted |-> FALSE, objects |-> objects]
PdfFiles ==
  {Pdf(<<Object(1, Page(TRUE, <<Ref(3), Ref(4)>>, <<0, 0, 100, 200>>)), Object(2, Page(FALSE, <<Ref(r), Ref(3)>>, <<>>)),
         Object(3, Stream(filter, a)), Object(4, Stream("none", b)), Object(5, Stream("none", <<"BT", "(", "x", ")", "ET">>))>>) :
     r \in {4, 5, 6}, filter \in {"flate", "jpx"}, a, b \in PdfStreams}
  \cup {[Pdf(<<Object(1, Page(FALSE, <<Ref(3)>>, <<>>)), Object(3, Stream("none", <<"BT", "(", "x", ")", "ET">>))>>) EXCEPT !.encrypted = e] :
          e \in BOOLEAN}

-----------------------------------------------------------------------------
MCSources(f) ==
  CASE f \in {"txt", "md"} -> PlainTexts
    [] f = "srt"  -> SrtTexts
    [] f = "vtt"  -> VttTexts
    [] f = "csv"  -> CsvTexts
    [] f = "html" -> HtmlTexts
    [] f = "json" -> JsonTexts
    [] f = "docx" -> DocxPackages
    [] f = "pptx" -> PptxPackages
    [] f = "xlsx" -> XlsxPackages
    [] f = "epub" -> EpubPackages
    [] f = "pdf"  -> PdfFiles

Pointers == {<<"/", "~", "1">>, <<"/", "~", "0", "1">>, <<"/", "k", "/", "k">>}
Selection(sheet, cells) == Ok([sheet_name |-> sheet, cells |-> cells])

MCReadOptions(f) ==
  {NoOptions} \cup
  CASE f = "csv"  -> {[NoOptions EXCEPT !.columns = Ok(c)] : c \in {<<1>>, <<2, 1>>, <<1, 1>>}}
    [] f = "json" -> {[NoOptions EXCEPT !.include = i, !.exclude = e] :
                        i \in {Err, Ok(Pointers), Ok({<<"/", "~", "1">>})}, e \in {Err, Ok({<<"/", "~", "0", "1">>, <<"/", "1">>})}}
    [] f = "xlsx" -> {[NoOptions EXCEPT !.selection = s] :
                        s \in {Selection("one", <<At1(1, 1)>>), Selection("one", <<At1(2, 1), Cell(<<1, 1>>, 2)>>),
                               Selection("two", <<At1(1, 1), At1(2, 2)>>), Selection("one", <<At1(2, 1), At1(1, 2)>>),
                               Selection("three", <<At1(1, 1)>>)}}
    [] f = "epub" -> {[NoOptions EXCEPT !.locale = Ok(<<"fr">>)]}
    [] OTHER -> {}

MCWordings(f) ==
  CASE f \in {"txt", "md"} -> {<<"y">>}
    [] f \in {"srt", "vtt"} -> {<<"y">>, <<>>}
    [] f = "csv"  -> {<<",", Quote>>, <<"a", LF>>}
    [] f = "html" -> {<<"<", "b", ">", "&">>}
    [] f = "json" -> {<<Quote, Backslash, LF>>}
    [] f = "pdf"  -> {<<")", Escape>>, <<"wide">>}
    [] OTHER -> {<<"<", "y">>}
=============================================================================
