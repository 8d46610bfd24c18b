---------------------------- MODULE GlossaryText ----------------------------
(***************************************************************************)
(* Glossaries and their files (crates/linguamesh-domain/src/lib.rs): the    *)
(* rules, their validation, the CSV file in both directions and the import  *)
(* of TBX.  Symbols are the characters the CSV reader tells apart, the      *)
(* words of the header, and the words of the values.                        *)
(***************************************************************************)
EXTENDS Xml, Integers

CONSTANTS
  MaxEntries,  \* MAX_GLOSSARY_ENTRIES
  MaxTerm      \* MAX_GLOSSARY_TERM_BYTES and the other field limits, in symbols

ASSUME GlossaryAssumption == MaxEntries \in Nat /\ MaxTerm \in Nat

\* GlossaryEntry; an optional field is one element or none.
NewEntry(source_term, target_term) ==
  [source_term |-> source_term, target_term |-> target_term, source_locale |-> Err, target_locale |-> Err,
   case_sensitive |-> TRUE, whole_word |-> TRUE, immutable |-> FALSE, domain |-> Err,
   priority |-> 0, notes |-> Err, enabled |-> TRUE]

\* validate_glossary_text.
validate_glossary_text(value) == ~Blank(value) /\ Len(value) <= MaxTerm /\ ~Has(value, "credential")

\* GlossaryEntry::validate.
ValidEntry(entry) ==
  /\ validate_glossary_text(entry.source_term) /\ validate_glossary_text(entry.target_term)
  /\ \A field \in {"source_locale", "target_locale", "domain", "notes"} :
       IsOk(entry[field]) => validate_glossary_text(entry[field][1])

\* Two enabled rules for the same matches with different targets.
Conflict(left, right) ==
  /\ left.enabled /\ right.enabled
  /\ \A field \in {"source_term", "case_sensitive", "source_locale", "target_locale", "domain"} : left[field] = right[field]
  /\ left.target_term # right.target_term

\* Glossary::validate.
ValidGlossary(entries) ==
  /\ Len(entries) <= MaxEntries
  /\ \A k \in DOMAIN entries : ValidEntry(entries[k])
  /\ \A j, k \in DOMAIN entries : j < k => ~Conflict(entries[j], entries[k])

-----------------------------------------------------------------------------
\* GLOSSARY_CSV_HEADER.
Header ==
  <<"source_term", "target_term", "source_locale", "target_locale", "case_sensitive", "whole_word",
    "immutable", "domain", "priority", "notes", "enabled">>

\* The values a field of a type can spell.
Booleans   == [true |-> TRUE, false |-> FALSE]
Priorities == ("0" :> 0) @@ ("7" :> 7) @@ ("-" :> -1)

\* A field that is one word of the table, read as its value.
Word(table, field) == IF Len(field) = 1 /\ field[1] \in DOMAIN table THEN Ok(table[field[1]]) ELSE Err
Spelling(table, value) == <<CHOOSE w \in DOMAIN table : table[w] = value>>

\* parse_csv_records from position i on, where a field begins: the records
\* before, and the fields of the record before.  A quoted field ends at its
\* first quote that no other one follows or precedes as its pair.
RECURSIVE GlossaryRecords(_, _, _, _)
GlossaryRecords(source, i, records, record) ==
  LET At(symbol, j) == OccursAt(<<symbol>>, source, j)
      Pairs(j) == Cardinality({k \in (i + 1)..j : source[k] = Quote})
      Taken(places) == Append(record, [k \in DOMAIN places |-> source[places[k]]])
      Behind(stop, fields) ==
        IF stop > Len(source) THEN Ok(IF Last(fields) # <<>> \/ record # <<>> THEN Append(records, fields) ELSE records)
        ELSE IF At(",", stop) THEN GlossaryRecords(source, stop + 1, records, fields)
        ELSE IF At(LF, stop) THEN GlossaryRecords(source, stop + 1, Append(records, fields), <<>>)
        ELSE IF At(CR, stop) /\ At(LF, stop + 1) THEN GlossaryRecords(source, stop + 2, Append(records, fields), <<>>)
        ELSE Err
      Kept(close) == SelectSeq([k \in 1..(close - i - 1) |-> i + k], LAMBDA j : source[j] = Quote => Pairs(j) % 2 = 1)
      Field(quoted, stop) ==
        IF quoted /\ stop = 1 THEN Err
        ELSE Behind(stop, Taken(IF quoted THEN Kept(stop - 1) ELSE [k \in 1..(stop - i) |-> i + k - 1]))
  IN IF At(Quote, i)
       THEN Field(TRUE, FirstOf({j \in (i + 1)..Len(source) : source[j] = Quote /\ Pairs(j) % 2 = 1 /\ ~At(Quote, j + 1)}, 0) + 1)
       ELSE Field(FALSE, FirstOf({j \in i..Len(source) : source[j] \in {",", LF, CR, Quote}}, Len(source) + 1))

parse_csv_records(source) ==
  GlossaryRecords(IF OccursAt(<<"BOM">>, source, 1) THEN Tail(source) ELSE source, 1, <<>>, <<>>)

\* parse_glossary_entry: Err, or the rule of a row.
parse_glossary_entry(record) ==
  LET Option(c) == IF record[c] = <<>> THEN Err ELSE Ok(record[c])
      Entry(flags, priority) ==
        [source_term |-> record[1], target_term |-> record[2],
         source_locale |-> Option(3), target_locale |-> Option(4),
         case_sensitive |-> flags[5][1], whole_word |-> flags[6][1], immutable |-> flags[7][1],
         domain |-> Option(8), priority |-> priority, notes |-> Option(10), enabled |-> flags[11][1]]
      Valid(entry) == IF ValidEntry(entry) THEN Ok(entry) ELSE Err
      Flagged(flags) == IF \E c \in DOMAIN flags : ~IsOk(flags[c]) THEN Err
                        ELSE Then(Word(Priorities, record[9]), LAMBDA priority : Valid(Entry(flags, priority)))
  IN Flagged([c \in {5, 6, 7, 11} |-> Word(Booleans, record[c])])

\* Glossary::from_csv.
from_csv(source) ==
  LET Valid(glossary) == IF ValidGlossary(glossary) THEN Ok(glossary) ELSE Err
      Entries(entries) == IF \E k \in DOMAIN entries : ~IsOk(entries[k]) THEN Err
                          ELSE Valid([k \in DOMAIN entries |-> entries[k][1]])
      Rows(rows) == IF Len(rows) > MaxEntries \/ \E k \in DOMAIN rows : Len(rows[k]) # Len(Header) THEN Err
                    ELSE Entries([k \in DOMAIN rows |-> parse_glossary_entry(rows[k])])
  IN Then(parse_csv_records(source), LAMBDA records :
       IF records = <<>> THEN Err
       ELSE IF records[1] # [c \in DOMAIN Header |-> <<Header[c]>>] THEN Err
       ELSE Rows(Tail(records)))

\* Mutant: only a comma or a quote makes a field quoted.
append_csv_field_bare(value) ==
  IF Has(value, ",") \/ Has(value, Quote)
    THEN <<Quote>> \o Replace(value, Quote, <<Quote, Quote>>) \o <<Quote>> ELSE value

append_csv_field(value) ==
  IF \E c \in {",", Quote, LF, CR} : Has(value, c)
    THEN <<Quote>> \o Replace(value, Quote, <<Quote, Quote>>) \o <<Quote>> ELSE value

\* Glossary::to_csv.
Row(fields) ==
  FlattenSeq([c \in DOMAIN fields |-> (IF c = 1 THEN <<>> ELSE <<",">>) \o append_csv_field(fields[c])]) \o <<LF>>

Fields(e) ==
  LET Option(value) == IF IsOk(value) THEN value[1] ELSE <<>>
  IN <<e.source_term, e.target_term, Option(e.source_locale), Option(e.target_locale),
       Spelling(Booleans, e.case_sensitive), Spelling(Booleans, e.whole_word),
       Spelling(Booleans, e.immutable), Option(e.domain), Spelling(Priorities, e.priority),
       Option(e.notes), Spelling(Booleans, e.enabled)>>

to_csv(entries) ==
  Row([c \in DOMAIN Header |-> <<Header[c]>>]) \o FlattenSeq([k \in DOMAIN entries |-> Row(Fields(entries[k]))])

-----------------------------------------------------------------------------
(* TBX: the reader goes through the XML once.  Its state holds the term and *)
(* the note being read, and the language sets of the entry being read.      *)
TbxStart == [valid |-> TRUE, depth |-> 0, root_seen |-> FALSE, root_closed |-> FALSE,
             entry |-> Err, current_lang |-> 0, term |-> Err, note |-> Err, note_depth |-> 0, entries |-> <<>>]

NoEntry == [lang_sets |-> <<>>, note |-> Err]

\* append_tbx_entries: a rule from the first term of the first language to
\* every term of the others; Err without terms.
append_tbx_entries(entry) ==
  LET sets == entry.lang_sets
      Rule(target, t) ==
        [NewEntry(sets[1].terms[1], t) EXCEPT !.source_locale = sets[1].locale, !.target_locale = target.locale,
           !.notes = IF IsOk(entry.note) /\ ~Blank(entry.note[1]) THEN Ok(Trim(entry.note[1])) ELSE Err]
      Valid(rules) == IF \A k \in DOMAIN rules : /\ validate_glossary_text(rules[k].source_term)
                                                 /\ validate_glossary_text(rules[k].target_term)
                        THEN Ok(rules) ELSE Err
  IN IF sets = <<>> \/ Len(sets) < 2 THEN Err
     ELSE IF \E k \in DOMAIN sets : sets[k].terms = <<>> THEN Err
     ELSE Valid(FlattenSeq([k \in 1..(Len(sets) - 1) |->
                  [j \in DOMAIN sets[k + 1].terms |-> Rule(sets[k + 1], sets[k + 1].terms[j])]]))

\* A start tag.
TbxOpen(s, node) ==
  LET deeper == [s EXCEPT !.depth = @ + 1, !.root_seen = TRUE, !.valid = @ /\ (s.depth = 0 => ~s.root_seen)]
      Refuse(condition, state) == [state EXCEPT !.valid = @ /\ ~condition]
      set == [locale |-> xml_attribute(node, "lang"), terms |-> <<>>]
  IN CASE node.name = "termEntry" -> Refuse(IsOk(s.entry), [deeper EXCEPT !.entry = Ok(NoEntry)])
       [] node.name = "langSet" ->
            IF ~IsOk(s.entry) THEN Refuse(TRUE, deeper)
            ELSE [deeper EXCEPT !.entry[1].lang_sets = Append(@, set),
                                !.current_lang = Len(s.entry[1].lang_sets) + 1]
       [] node.name = "term" -> Refuse(s.current_lang = 0 \/ IsOk(s.term), [deeper EXCEPT !.term = Ok(<<>>)])
       [] node.name = "descrip" ->
            Refuse(~IsOk(s.entry) \/ IsOk(s.term) \/ s.note_depth > 0,
                   [deeper EXCEPT !.note = Ok(<<>>), !.note_depth = 1])
       [] OTHER -> [deeper EXCEPT !.note_depth = IF @ > 0 THEN @ + 1 ELSE 0]

\* An end tag.
TbxClose(s, node) ==
  LET Refuse(condition, state) == [state EXCEPT !.valid = @ /\ ~condition]
      up == [s EXCEPT !.depth = @ - 1, !.root_closed = @ \/ s.depth = 1]
      Ruled(rules) == IF ~IsOk(rules) THEN Refuse(TRUE, up)
                      ELSE Refuse(Len(s.entries) + Len(rules[1]) > MaxEntries,
                                  [up EXCEPT !.entry = Err, !.entries = @ \o rules[1]])
  IN IF s.depth = 0 THEN Refuse(TRUE, s)
     ELSE CASE node.name = "term" ->
                 IF ~IsOk(s.term) \/ s.current_lang = 0 \/ ~IsOk(s.entry) THEN Refuse(TRUE, up)
                 ELSE IF Blank(s.term[1]) THEN Refuse(TRUE, up)
                 ELSE [up EXCEPT !.term = Err, !.entry[1].lang_sets[s.current_lang].terms = Append(@, Trim(s.term[1]))]
            [] node.name = "langSet" -> [up EXCEPT !.current_lang = 0]
            [] node.name = "descrip" /\ s.note_depth > 0 ->
                 IF s.note_depth > 1 THEN [up EXCEPT !.note_depth = @ - 1]
                 ELSE IF ~IsOk(s.entry) THEN Refuse(TRUE, up)
                 ELSE [up EXCEPT !.note_depth = 0, !.note = Err, !.entry[1].note = s.note]
            [] node.name = "termEntry" ->
                 IF IsOk(s.term) \/ s.note_depth > 0 \/ ~IsOk(s.entry) THEN Refuse(TRUE, up)
                 ELSE Ruled(append_tbx_entries(s.entry[1]))
            [] OTHER -> [up EXCEPT !.note_depth = IF @ > 0 THEN @ - 1 ELSE 0]

\* append_tbx_text: text belongs to the term, else to the note, if to any.
append_tbx_text(s, text) ==
  IF IsOk(s.term) THEN [s EXCEPT !.term[1] = @ \o text]
  ELSE IF s.note_depth > 0 /\ IsOk(s.note) THEN [s EXCEPT !.note[1] = @ \o text]
  ELSE [s EXCEPT !.valid = @ /\ s.note_depth = 0]

TbxEvent(s, node) ==
  IF ~s.valid THEN s
  ELSE CASE node.shape = "open"    -> TbxOpen(s, node)
         [] node.shape = "close"   -> TbxClose(s, node)
         [] node.shape = "empty"   -> [s EXCEPT !.valid = node.name \notin {"term", "langSet", "termEntry"}]
         [] node.shape = "text"    -> LET Read(text) == IF IsOk(text) THEN append_tbx_text(s, text[1]) ELSE [s EXCEPT !.valid = FALSE]
                                      IN Read(unescape(node.text))
         [] node.shape = "comment" -> s
         [] OTHER                  -> [s EXCEPT !.valid = FALSE]

\* Glossary::from_tbx; end tags match (quick_xml).
from_tbx(xml) ==
  LET Complete(end) ==
        IF ~IsOk(StackAfter(xml, Len(xml))) \/ ~end.valid THEN Err
        ELSE IF ~end.root_seen \/ ~end.root_closed \/ end.depth # 0 \/ IsOk(end.entry) \/ IsOk(end.term) THEN Err
        ELSE IF end.entries = <<>> \/ ~ValidGlossary(end.entries) THEN Err
        ELSE Ok(end.entries)
  IN Complete(FoldLeft(TbxEvent, TbxStart, xml))
=============================================================================
