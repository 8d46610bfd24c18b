------------------------------- MODULE Texts -------------------------------
(***************************************************************************)
(* Texts as the document codecs see them: a text is a sequence of symbols, *)
(* a symbol being a character the codecs tell apart, a word, or a lexeme   *)
(* such as a timing line that a codec reads as a whole.  Also the results  *)
(* and the segments that the codecs of                                     *)
(* crates/linguamesh-document/src/lib.rs share.                            *)
(***************************************************************************)
EXTENDS Matching, SequencesExt

LF    == "LF"
CR    == "CR"
Space == " "
Quote == "quote"

WhiteSpace == {LF, CR, Space}

\* A result, and a value that may be absent: one element or none.
Ok(value) == <<value>>
Err       == <<>>
IsOk(r)   == r # <<>>

\* The code's ?: an error is passed on, a value is taken further.
Then(r, F(_)) == IF IsOk(r) THEN F(r[1]) ELSE Err

Upto(text, i, j) == SubSeq(text, i, j - 1)
From(text, i)    == SubSeq(text, i, Len(text))

Has(text, symbol) == Contains(text, symbol)

\* The parts of a text between the occurrences of a symbol.
SplitAt(text, symbol) ==
  LET Cut(ends) == [k \in 1..(Len(ends) + 1) |->
        SubSeq(text, IF k = 1 THEN 1 ELSE ends[k - 1] + 1,
                     IF k > Len(ends) THEN Len(text) ELSE ends[k] - 1)]
  IN Cut(SetToSortSeq({i \in 1..Len(text) : text[i] = symbol}, <))

\* Positions of the text that are no white space.
Inked(text) == {i \in 1..Len(text) : text[i] \notin WhiteSpace}

Blank(text) == Inked(text) = {}

\* str::trim.
Trim(text) ==
  LET Between(ink) == IF ink = {} THEN <<>>
                      ELSE SubSeq(text, CHOOSE i \in ink : \A j \in ink : i <= j,
                                        CHOOSE i \in ink : \A j \in ink : i >= j)
  IN Between(Inked(text))

\* str::replace of one symbol by a text.
Replace(text, symbol, by) ==
  FlattenSeq([i \in 1..Len(text) |-> IF text[i] = symbol THEN by ELSE <<text[i]>>])

-----------------------------------------------------------------------------
\* DocumentSegment; its index is its place in the sequence of segments.
Segment(kind, text, ending) ==
  [kind |-> kind, source_text |-> text, translated_text |-> <<>>, line_ending |-> ending]

Prose(text)    == Segment("prose", text, <<>>)
Verbatim(text) == Segment("verbatim", text, <<>>)

\* DocumentJob::source_text.
SourceText(segments) ==
  FlattenSeq([i \in 1..Len(segments) |-> segments[i].source_text \o segments[i].line_ending])
=============================================================================
