------------------------------ MODULE CsvText ------------------------------
(***************************************************************************)
(* The CSV codec of crates/linguamesh-document/src/lib.rs: the delimiter is *)
(* guessed from the first record, fields keep their raw text, and a         *)
(* translation is quoted when the field was or when it has to be.           *)
(***************************************************************************)
EXTENDS Texts, FiniteSets, Functions

\* CSV_DELIMITER_CANDIDATES, the ones the model uses, by preference.
CSV_DELIMITER_CANDIDATES == <<",", ";">>

\* The positions outside quotes: a doubled quote inside quotes is skipped.
RECURSIVE OutsideQuotes(_, _, _)
OutsideQuotes(text, i, in_quotes) ==
  IF i > Len(text) THEN {}
  ELSE IF text[i] = Quote
    THEN IF in_quotes /\ OccursAt(<<Quote>>, text, i + 1)
           THEN OutsideQuotes(text, i + 2, TRUE)
           ELSE OutsideQuotes(text, i + 1, ~in_quotes)
  ELSE (IF in_quotes THEN {} ELSE {i}) \cup OutsideQuotes(text, i + 1, in_quotes)

\* detect_csv_delimiter: the most frequent candidate of the first record, the
\* earlier one when they are equal.
detect_csv_delimiter(text) ==
  LET Counts(outside, end) ==
        [p \in DOMAIN CSV_DELIMITER_CANDIDATES |->
           Cardinality({i \in outside : i < end /\ text[i] = CSV_DELIMITER_CANDIDATES[p]})]
      Record(outside) == Counts(outside, FirstOf({i \in outside : text[i] \in {CR, LF}}, Len(text) + 1))
      Best(counts) == FirstOf({p \in DOMAIN counts : \A q \in DOMAIN counts : counts[q] <= counts[p]}, 1)
  IN CSV_DELIMITER_CANDIDATES[Best(Record(OutsideQuotes(text, 1, FALSE)))]

-----------------------------------------------------------------------------
\* parse_csv_records, as the state of its loop: the finished records, the
\* fields of the record being read, where its current field starts, and
\* whether the cursor is inside or just behind quotes.
RECURSIVE ScanCsv(_, _, _, _)
ScanCsv(text, delimiter, i, s) ==
  LET Field     == Upto(text, s.field_start, i)
      symbol    == text[i]
      crlf      == symbol = CR /\ OccursAt(<<LF>>, text, i + 1)
      ending    == IF crlf THEN <<CR, LF>> ELSE <<symbol>>
  IN IF i > Len(text) THEN
       IF s.in_quotes THEN Err
       ELSE IF s.fields # <<>> \/ s.field_start <= Len(text) \/ s.records = <<>>
         THEN Ok(Append(s.records, [fields |-> Append(s.fields, From(text, s.field_start)), line_ending |-> <<>>]))
       ELSE Ok(s.records)
     ELSE IF s.in_quotes THEN
       IF symbol # Quote THEN ScanCsv(text, delimiter, i + 1, s)
       ELSE IF OccursAt(<<Quote>>, text, i + 1) THEN ScanCsv(text, delimiter, i + 2, s)
       ELSE ScanCsv(text, delimiter, i + 1, [s EXCEPT !.in_quotes = FALSE, !.after_quote = TRUE])
     ELSE IF symbol = Quote THEN
       IF i = s.field_start THEN ScanCsv(text, delimiter, i + 1, [s EXCEPT !.in_quotes = TRUE]) ELSE Err
     ELSE IF symbol = delimiter THEN
       ScanCsv(text, delimiter, i + 1,
               [s EXCEPT !.fields = Append(@, Field), !.field_start = i + 1, !.after_quote = FALSE])
     ELSE IF symbol \in {CR, LF} THEN
       ScanCsv(text, delimiter, i + Len(ending),
               [s EXCEPT !.records = Append(@, [fields |-> Append(s.fields, Field), line_ending |-> ending]),
                         !.fields = <<>>, !.field_start = i + Len(ending), !.after_quote = FALSE])
     ELSE IF s.after_quote THEN Err
     ELSE ScanCsv(text, delimiter, i + 1, s)

parse_csv_records(text, delimiter) ==
  IF text = <<>> THEN Err
  ELSE ScanCsv(text, delimiter, 1, [records |-> <<>>, fields |-> <<>>, field_start |-> 1,
                                    in_quotes |-> FALSE, after_quote |-> FALSE])

-----------------------------------------------------------------------------
\* The text between the quotes, with its doubled quotes made single.
RECURSIVE Undouble(_)
Undouble(inner) ==
  IF inner = <<>> THEN Ok(<<>>)
  ELSE IF inner[1] # Quote
    THEN Then(Undouble(Tail(inner)), LAMBDA rest : Ok(<<inner[1]>> \o rest))
  ELSE IF Len(inner) >= 2 /\ inner[2] = Quote
    THEN Then(Undouble(From(inner, 3)), LAMBDA rest : Ok(<<Quote>> \o rest))
  ELSE Err

\* decode_csv_field: what a translator is given.
decode_csv_field(raw, delimiter) ==
  IF raw # <<>> /\ raw[1] = Quote
    THEN IF Len(raw) >= 2 /\ Last(raw) = Quote THEN Undouble(SubSeq(raw, 2, Len(raw) - 1)) ELSE Err
  ELSE IF Has(raw, Quote) \/ Has(raw, delimiter) THEN Err ELSE Ok(raw)

\* Mutant: a line end alone does not make the field quoted.
encode_csv_field_bare(raw, translated, delimiter) ==
  IF (raw # <<>> /\ raw[1] = Quote) \/ Has(translated, delimiter) \/ Has(translated, Quote)
    THEN <<Quote>> \o Replace(translated, Quote, <<Quote, Quote>>) \o <<Quote>>
    ELSE translated

\* encode_csv_field: what is written for a translation.
encode_csv_field(raw, translated, delimiter) ==
  IF (raw # <<>> /\ raw[1] = Quote) \/ \E c \in {delimiter, Quote, CR, LF} : Has(translated, c)
    THEN <<Quote>> \o Replace(translated, Quote, <<Quote, Quote>>) \o <<Quote>>
    ELSE translated

-----------------------------------------------------------------------------
looks_like_identifier_header(header) == Trim(header) = <<"id">>

\* value.trim().parse::<f64>(): of the symbols only digits are a number.
IsNumeric(value) == ~Blank(value) /\ ToSet(Trim(value)) = {"1"}

Columns(records) == {c \in 1..Len(FlattenSeq([r \in DOMAIN records |-> records[r].fields])) :
                       \E r \in DOMAIN records : c <= Len(records[r].fields)}

\* default_csv_columns: not an identifier by its header, and not only numbers
\* below it.
default_csv_columns(records, delimiter) ==
  LET Decoded(field) == FlattenSeq(decode_csv_field(field, delimiter))   \* or else empty
      Value(r, c)    == IF c <= Len(records[r].fields) THEN Decoded(records[r].fields[c]) ELSE <<>>
      Texts(values)  == values = {} \/ \E value \in values : ~IsNumeric(value)
  IN {c \in Columns(records) :
        /\ ~looks_like_identifier_header(Value(1, c))
        /\ Texts({v \in {Value(r, c) : r \in 2..Len(records)} : ~Blank(v)})}

\* from_csv_text: fields, delimiters and line ends as segments; columns is the
\* caller's choice of columns (a sequence), or none for the default.
from_csv_text(text, columns) ==
  LET Selected(records, delimiter) ==
        IF ~IsOk(columns) THEN Ok(default_csv_columns(records, delimiter))
        ELSE IF IsInjective(columns[1]) /\ ToSet(columns[1]) \subseteq Columns(records) THEN Ok(ToSet(columns[1]))
        ELSE Err
      Field(r, c, selected, delimiter) ==
        IF c < Len(r.fields)
          THEN <<Segment(IF c \in selected THEN "prose" ELSE "verbatim", r.fields[c], <<>>), Verbatim(<<delimiter>>)>>
          ELSE <<Segment(IF c \in selected THEN "prose" ELSE "verbatim", r.fields[c], r.line_ending)>>
      Segments(delimiter) ==
        Then(parse_csv_records(text, delimiter), LAMBDA records :
          Then(Selected(records, delimiter), LAMBDA selected :
            Ok(FlattenSeq([r \in DOMAIN records |->
                 FlattenSeq([c \in DOMAIN records[r].fields |-> Field(records[r], c, selected, delimiter)])]))))
  IN Segments(detect_csv_delimiter(text))
=============================================================================
