------------------------------- MODULE Ooxml -------------------------------
(***************************************************************************)
(* DOCX, PPTX and XLSX packages (crates/linguamesh-document/src/docx.rs):   *)
(* which members hold text, which text nodes they hold, which of them a     *)
(* spreadsheet range selects, and the package written back.                 *)
(***************************************************************************)
EXTENDS Xml

\* The member names the model uses, in the byte order archive_names sorts by.
NameOrder ==
  <<"[Content_Types].xml", "_xmlsignatures/sig1.xml", "ppt/media/image1.png", "ppt/presentation.xml",
    "ppt/slides/slide1.xml", "ppt/slides/slide2.xml", "word/document.xml", "word/header1.xml",
    "word/styles.xml", "word/vbaProject.bin", "xl/_rels/workbook.xml.rels", "xl/sharedStrings.xml",
    "xl/workbook.xml", "xl/worksheets/sheet1.xml", "xl/worksheets/sheet2.xml">>

Rank(name) == CHOOSE i \in DOMAIN NameOrder : NameOrder[i] = name

MainPart == [docx |-> "word/document.xml", pptx |-> "ppt/presentation.xml", xlsx |-> "xl/workbook.xml"]
TextElement == [docx |-> "w:t", pptx |-> "a:t", xlsx |-> "t"]
Paragraph == [docx |-> "w:p", pptx |-> "a:p", xlsx |-> ""]

\* Elements whose tag begins like that of a text element.
TextLike == [docx |-> {"w:t", "w:tab"}, pptx |-> {"a:t", "a:tab"}, xlsx |-> {"t"}]

\* unsupported_package_part: macros and signatures.
unsupported_package_part(name) == name \in {"word/vbaProject.bin", "_xmlsignatures/sig1.xml"}

Slides == {"ppt/slides/slide1.xml", "ppt/slides/slide2.xml"}
Sheets == {"xl/worksheets/sheet1.xml", "xl/worksheets/sheet2.xml"}

\* translatable_part.
translatable_part(name, kind) ==
  name \in CASE kind = "docx" -> {"word/document.xml", "word/header1.xml"}
             [] kind = "pptx" -> Slides
             [] kind = "xlsx" -> Sheets \cup {"xl/sharedStrings.xml"}

\* archive_names: a package that is not refused has its members sorted.
ValidPackage(archive, kind) ==
  /\ Sound(archive)
  /\ \A name \in NamesOf(archive) : ~unsupported_package_part(name)
  /\ {"[Content_Types].xml", MainPart[kind]} \subseteq NamesOf(archive)
  /\ kind = "pptx" => NamesOf(archive) \cap Slides # {}
  /\ kind = "xlsx" => NamesOf(archive) \cap Sheets # {}

archive_names(archive) == SetToSortSeq(NamesOf(archive), LAMBDA a, b : Rank(a) < Rank(b))

-----------------------------------------------------------------------------
\* text_spans: Err, or the positions of the text nodes of text elements.
text_spans(xml, kind) ==
  LET Whole(i) == /\ i + 2 <= Len(xml) /\ xml[i + 1].shape = "text"
                  /\ xml[i + 2] = Close(TextElement[kind])
      Texts(opened) == IF \A i \in opened : Whole(i) THEN Ok({i + 1 : i \in opened}) ELSE Err
  IN IF validate_xml(xml)
       THEN Texts({i \in DOMAIN xml : xml[i].shape = "open" /\ xml[i].name = TextElement[kind]}) ELSE Err

\* The last tag of that name before position p.
LastTag(xml, p, name) ==
  LET Latest(tags) == IF tags = {} THEN Err ELSE Ok(xml[CHOOSE i \in tags : \A j \in tags : j <= i])
  IN Latest({i \in 1..(p - 1) : IsTag(xml[i], name)})

\* xlsx_cell_ref of a span: the reference of the cell tag before it.
xlsx_cell_ref(xml, p) ==
  Then(LastTag(xml, p, "c"), LAMBDA tag : IF tag.shape # "close" THEN xml_attribute(tag, "r") ELSE Err)

\* xlsx_shared_index of a span: the number of the string item it is in.
xlsx_shared_index(xml, p) ==
  Then(LastTag(xml, p, "si"), LAMBDA tag :
    IF tag.shape # "close"
      THEN Ok(Cardinality({i \in 1..(p - 1) : IsTag(xml[i], "si") /\ xml[i].shape # "close"}) - 1)
      ELSE Err)

-----------------------------------------------------------------------------
(* Cell references: column letters (1 to 26) and a row.                     *)
Cell(letters, row) == [letters |-> letters, row |-> row]

\* parse_xlsx_cell_ref: column and row, within the limits of a sheet.
parse_xlsx_cell_ref(cell) ==
  LET Digit(n, letter) == 26 * n + letter
      At(column) == IF column \in 1..16384 /\ cell.row \in 1..1048576 THEN Ok(<<column, cell.row>>) ELSE Err
  IN At(FoldLeft(Digit, 0, cell.letters))

\* parse_xlsx_range: one cell, or two of which none is behind the other.
parse_xlsx_range(cells) ==
  IF Len(cells) \notin {1, 2} THEN Err
  ELSE Then(parse_xlsx_cell_ref(cells[1]), LAMBDA start :
         Then(parse_xlsx_cell_ref(cells[Len(cells)]), LAMBDA end :
           IF start[1] > end[1] \/ start[2] > end[2] THEN Err ELSE Ok([start |-> start, end |-> end])))

xlsx_cell_in_range(cell, range) ==
  \E at \in ToSet(parse_xlsx_cell_ref(cell)) :
    \A k \in {1, 2} : range.start[k] <= at[k] /\ at[k] <= range.end[k]

\* normalize_xlsx_part of a relationship's target, written as the prefixes in
\* front of the path below xl/: slashes, then steps up, then xl/ at most once.
normalize_xlsx_part(target) ==
  LET Without(path, prefix) == From(path, FirstOf({i \in 1..Len(path) : path[i] # prefix}, Len(path) + 1))
      Below(path) == IF path # <<>> /\ path[1] = "xl/" THEN path ELSE <<"xl/">> \o path
  IN Below(Without(Without(target, "/"), "../"))

\* The member a normalised target names.
PartName(path) ==
  CASE path = <<"xl/", "worksheets/sheet1.xml">> -> "xl/worksheets/sheet1.xml"
    [] path = <<"xl/", "worksheets/sheet2.xml">> -> "xl/worksheets/sheet2.xml"
    [] OTHER -> "missing"

\* scan_xlsx_cells: the cells of the range, and the shared strings used inside
\* and outside it.  A cell of shared type takes everything up to the next
\* closing tag of a cell for its body.
NoCells == [cells |-> {}, selected |-> {}, unselected |-> {}]

RECURSIVE scan_xlsx_cells(_, _, _, _)
scan_xlsx_cells(xml, cursor, selected_sheet, range) ==
  LET FirstValue(values) == {xml[i + 1].text[1] : i \in {j \in values : \A k \in values : j <= k}}
      Inside(start) ==
        selected_sheet /\ \E ref \in ToSet(xml_attribute(xml[start], "r")) : xlsx_cell_in_range(ref, range)
      Cell1(start, used, end) ==
        Then(scan_xlsx_cells(xml, end + 1, selected_sheet, range), LAMBDA rest :
          IF Inside(start)
            THEN Ok([rest EXCEPT !.cells = @ \cup {xml[start].attributes["r"]}, !.selected = @ \cup used])
            ELSE Ok([rest EXCEPT !.unselected = @ \cup used]))
      Shared(start, close) == IF close = 0 THEN Err ELSE 
        Cell1(start, FirstValue({i \in (start + 1)..close : xml[i].name = "v" /\ xml[i].shape = "open"}), close)
      CellAt(start) ==
        IF start = 0 THEN Ok(NoCells)
        ELSE IF xml_attribute(xml[start], "t") = Ok("s")
          THEN Shared(start, FirstOf({i \in (start + 1)..Len(xml) : xml[i] = Close("c")}, 0))
          ELSE Cell1(start, {}, start)
  IN CellAt(FirstOf({i \in cursor..Len(xml) : IsTag(xml[i], "c") /\ xml[i].shape # "close"}, 0))

\* The sheets of the workbook with the members that hold them: through their
\* relationship, or by their number.
WorkbookSheets(archive) ==
  LET Latest(S) == CHOOSE r \in S : \A q \in S : q <= r
      Part(tag, rels, related) ==
        IF related # {} THEN PartName(normalize_xlsx_part(rels[Latest(related)].attributes["Target"]))
        ELSE tag.attributes["sheetId"]
      Related(tag, rels) ==
        {r \in DOMAIN rels : /\ IsTag(rels[r], "Relationship")
                             /\ xml_attribute(tag, "id") # Err
                             /\ xml_attribute(rels[r], "Id") = xml_attribute(tag, "id")}
      Sheets1(tags, rels) ==
        [k \in DOMAIN tags |-> [name |-> tags[k].attributes["name"],
                                part |-> Part(tags[k], rels, Related(tags[k], rels))]]
  IN Sheets1(SelectSeq(ContentOf(archive, "xl/workbook.xml"), LAMBDA n : IsTag(n, "sheet")),
             ContentOf(archive, "xl/_rels/workbook.xml.rels"))

\* Mutant: a shared string that is also used outside the range stays selected.
SelectedShared_all(scans) == UNION {scans[k][1].selected : k \in DOMAIN scans}

\* A shared string is translated when every cell that shows it is selected.
SelectedShared(scans) ==
  UNION {scans[k][1].selected : k \in DOMAIN scans} \ UNION {scans[k][1].unselected : k \in DOMAIN scans}

\* xlsx_selection_context: Err, or the selected cells of each member and the
\* selected shared strings.
xlsx_selection_context(archive, selection) ==
  LET Scanned(sheets, scans) ==
        IF \E k \in DOMAIN scans : ~IsOk(scans[k]) THEN Err
        ELSE Ok([cells |-> [name \in {sheets[k].part : k \in DOMAIN sheets} |->
                              scans[CHOOSE k \in DOMAIN sheets :
                                      /\ sheets[k].part = name
                                      /\ \A j \in DOMAIN sheets : sheets[j].part = name => j <= k][1].cells],
                 shared |-> SelectedShared(scans)])
      Scan(sheets, range) ==
        IF ~\E k \in DOMAIN sheets : sheets[k].name = selection.sheet_name THEN Err
        ELSE IF \E k \in DOMAIN sheets : sheets[k].part \notin NamesOf(archive) THEN Err
        ELSE Scanned(sheets, [k \in DOMAIN sheets |->
               scan_xlsx_cells(ContentOf(archive, sheets[k].part), 1,
                               sheets[k].name = selection.sheet_name, range)])
  IN Then(parse_xlsx_range(selection.cells), LAMBDA range :
       IF {"xl/workbook.xml", "xl/_rels/workbook.xml.rels"} \subseteq NamesOf(archive)
         THEN Scan(WorkbookSheets(archive), range) ELSE Err)

-----------------------------------------------------------------------------
\* Does the paragraph end before the next text element begins?
EndsParagraph(xml, p, kind) ==
  LET Before(close, next) == kind # "xlsx" /\ close # 0 /\ close < next
  IN Before(FirstOf({i \in (p + 1)..Len(xml) : xml[i] = Close(Paragraph[kind])}, 0),
            FirstOf({i \in (p + 1)..Len(xml) : xml[i].shape \in {"open", "empty"}
                                               /\ xml[i].name \in TextLike[kind]}, Len(xml) + 1))

\* Is the span one the caller of a spreadsheet selected?
SelectedSpan(xml, name, p, context) ==
  IF ~IsOk(context) THEN TRUE
  ELSE IF name = "xl/sharedStrings.xml"
    THEN \E index \in ToSet(xlsx_shared_index(xml, p)) : index \in context[1].shared
    ELSE \E ref \in ToSet(xlsx_cell_ref(xml, p)) :
           name \in DOMAIN context[1].cells /\ ref \in context[1].cells[name]

\* The segments of one member: Err, or one for each of its text nodes.
PartSegments(xml, name, kind, context) ==
  LET SegmentAt(p, text) ==
        Segment(IF SelectedSpan(xml, name, p, context) /\ ~Blank(text) THEN "prose" ELSE "verbatim",
                text, IF EndsParagraph(xml, p, kind) THEN <<LF>> ELSE <<>>)
      At(spans) ==
        IF \E k \in DOMAIN spans : ~IsOk(unescape(xml[spans[k]].text)) THEN Err
        ELSE Ok([k \in DOMAIN spans |-> SegmentAt(spans[k], unescape(xml[spans[k]].text)[1])])
  IN Then(text_spans(xml, kind), LAMBDA spans : At(SetToSortSeq(spans, <)))

Texted(archive, kind) == SelectSeq(archive_names(archive), LAMBDA name : translatable_part(name, kind))

\* inspect_kind: the segments of all members with text, in the order of their
\* names; context is the spreadsheet selection, if there is one.
inspect_kind(archive, kind, context) ==
  LET All(parts) == IF \E k \in DOMAIN parts : ~IsOk(parts[k]) THEN Err
                    ELSE Ok(FlattenSeq([k \in DOMAIN parts |-> parts[k][1]]))
      Named(names) == All([k \in DOMAIN names |->
                             PartSegments(ContentOf(archive, names[k]), names[k], kind, context)])
  IN IF ValidPackage(archive, kind) THEN Named(Texted(archive, kind)) ELSE Err

inspect_xlsx_with_selection(archive, selection) ==
  Then(xlsx_selection_context(archive, selection), LAMBDA context : inspect_kind(archive, "xlsx", Ok(context)))

\* reconstruct_kind: every member in the order of names, those with text
\* rewritten from the segments, which have to be used up.
reconstruct_kind(archive, kind, segments) ==
  LET Spans(name) == IF translatable_part(name, kind) THEN text_spans(ContentOf(archive, name), kind)[1] ELSE {}
      Written(names) == WriteMembers([k \in DOMAIN names |-> Member(names[k], ContentOf(archive, names[k]))],
                                     [k \in DOMAIN names |-> Spans(names[k])], segments)
  IN Then(inspect_kind(archive, kind, Err), LAMBDA found : Written(archive_names(archive)))
=============================================================================
