---------------------------- MODULE LineFormats ----------------------------
(***************************************************************************)
(* The line based formats of crates/linguamesh-document/src/lib.rs: TXT,   *)
(* Markdown, SRT and WebVTT.  Three scanners read a subtitle file, each    *)
(* with its own idea of where a cue begins: one decides which lines are    *)
(* translated, one accepts or refuses the file, one counts the cues for    *)
(* the readability warnings.                                               *)
(***************************************************************************)
EXTENDS Texts, FiniteSets

\* The lines that the parts between line feeds are; what is behind the last
\* line feed is a line unless it is empty.
Lines(parts, Line(_)) ==
  [k \in 1..(Len(parts) - 1) |-> Line(parts[k])]
    \o (IF Last(parts) # <<>> \/ Len(parts) = 1 THEN <<[text |-> Last(parts), ending |-> <<>>]>> ELSE <<>>)

\* Mutant: a CR before LF is lost.
split_lines_unix(text) ==
  Lines(SplitAt(text, LF), LAMBDA raw : [text |-> SelectSeq(raw, LAMBDA c : c # CR), ending |-> <<LF>>])

\* split_lines: each line with the end it had; a CR counts only before LF.
split_lines(text) ==
  Lines(SplitAt(text, LF), LAMBDA raw :
    IF raw # <<>> /\ Last(raw) = CR THEN [text |-> Front(raw), ending |-> <<CR, LF>>]
    ELSE [text |-> raw, ending |-> <<LF>>])

-----------------------------------------------------------------------------
(* Timing lines.  A symbol that is a timing line stands for its two         *)
(* stamps; a stamp has its clock fields, its separator and its fraction.    *)
Stamp(fields, separator, digits) == [fields |-> fields, separator |-> separator, digits |-> digits]

TimingLines ==
  [s \in {"t,", "t.", "t60"} |->
     CASE s = "t,"  -> <<Stamp(<<0, 0, 1>>, ",", <<0, 0, 0>>), Stamp(<<0, 2>>, ",", <<5, 0, 0>>)>>
       [] s = "t."  -> <<Stamp(<<0, 1>>, ".", <<0, 0, 0>>), Stamp(<<0, 1>>, ".", <<0, 0, 0>>)>>
       [] s = "t60" -> <<Stamp(<<0, 1>>, ".", <<0, 0, 0>>), Stamp(<<60, 1>>, ".", <<0, 0, 0>>)>>]

\* timestamp_millis.
timestamp_millis(stamp, format) ==
  LET n == Len(stamp.fields)
      Millis(hour, minute, second) ==
        IF /\ stamp.separator = (IF format = "srt" THEN "," ELSE ".")
           /\ Len(stamp.digits) = 3 /\ n \in {2, 3}
           /\ minute < 60 /\ second < 60
          THEN Ok(3600000 * hour + 60000 * minute + 1000 * second
                    + 100 * stamp.digits[1] + 10 * stamp.digits[2] + stamp.digits[3])
          ELSE Err
  IN Millis(IF n = 3 THEN stamp.fields[1] ELSE 0, stamp.fields[n - 1], stamp.fields[n])

\* subtitle_timestamp_range: the two ends of a timing line.
subtitle_timestamp_range(line, format) ==
  LET Both(start, end) == IF IsOk(start) /\ IsOk(end) THEN Ok(<<start[1], end[1]>>) ELSE Err
      Read(timings) ==
        IF Len(line) = 1 /\ line[1] \in DOMAIN timings
          THEN Both(timestamp_millis(timings[line[1]][1], format),
                    timestamp_millis(timings[line[1]][2], format))
          ELSE Err
  IN Read(TimingLines)

valid_timestamp_line(line, format) == IsOk(subtitle_timestamp_range(line, format))

\* What the scanners ask of a line.
IsHeader(line)   == line # <<>> /\ line[1] = "WEBVTT"
IsMetadata(line) == line = <<"NOTE">>
IsNumber(line)   == \A i \in 1..Len(line) : line[i] = "1"

-----------------------------------------------------------------------------
\* The state of subtitle_line_kinds: whether a block begins, whether a line
\* of it has to be a timing line, whether it is metadata.
IsVttHeader(s, line, format) == format = "vtt" /\ s.kinds = <<>> /\ IsHeader(line)

\* Mutant: the timing line behind a cue's number is not kept.
KeptLine_late(s, line, format) ==
  \/ line = <<>> \/ s.metadata \/ IsVttHeader(s, line, format) \/ (format = "vtt" /\ IsMetadata(line))
  \/ s.cue_start /\ (format = "vtt" \/ valid_timestamp_line(line, format) \/ IsNumber(line))

\* Is the line kept as it is?  Blank lines, the header, metadata, and at the
\* start of a block its timing line, its number or its identifier.
KeptLine(s, line, format) ==
  \/ line = <<>> \/ s.metadata \/ IsVttHeader(s, line, format) \/ (format = "vtt" /\ IsMetadata(line))
  \/ s.expecting_timestamp
  \/ s.cue_start /\ (format = "vtt" \/ valid_timestamp_line(line, format) \/ IsNumber(line))

\* subtitle_line_kinds: TRUE for a line that is kept.
subtitle_line_kinds(format, text) ==
  LET After(s, line, note) ==
        [kinds |-> Append(s.kinds, KeptLine(s, line, format)),
         cue_start |-> line = <<>>,
         metadata |-> line # <<>> /\ (note \/ s.metadata),
         expecting_timestamp |->
           /\ line # <<>>
           /\ IF note \/ s.metadata THEN s.expecting_timestamp
              ELSE ~s.expecting_timestamp /\ s.cue_start /\ ~valid_timestamp_line(line, format)]
      Trimmed(s, line) == After(s, line, format = "vtt" /\ IsMetadata(line))
      Step(s, raw) == Trimmed(s, Trim(raw.text))
  IN FoldLeft(Step, [kinds |-> <<>>, cue_start |-> TRUE, expecting_timestamp |-> FALSE,
                     metadata |-> FALSE], split_lines(text)).kinds

\* The subtitle part of validate_structure: what each line is taken for ...
LineRole(s, line, format) ==
  IF line = <<>> THEN "blank"
  ELSE IF format = "vtt" /\ s.cue_start /\ IsMetadata(line) THEN "note"
  ELSE IF s.metadata THEN "metadata"
  ELSE IF format = "vtt" /\ s.cues = 0 /\ IsHeader(line) THEN "header"
  ELSE IF s.expecting_timestamp \/ (s.cue_start /\ valid_timestamp_line(line, format)) THEN "timing"
  ELSE IF s.cue_start THEN "number"
  ELSE "text"

\* ... and what follows from it; each cue needs a timing line and some text.
ValidateLine(s, line, format) ==
  LET Taken(role) ==
        CASE role = "blank"    -> [s EXCEPT !.valid = @ /\ (s.metadata \/ ~(s.expecting_timestamp \/ (s.cues > 0 /\ ~s.has_text))),
                                     !.metadata = FALSE, !.cue_start = TRUE,
                                     !.expecting_timestamp = FALSE, !.has_text = FALSE]
          [] role = "note"     -> [s EXCEPT !.metadata = TRUE, !.cue_start = FALSE]
          [] role = "metadata" -> s
          [] role = "header"   -> [s EXCEPT !.cue_start = FALSE]
          [] role = "timing"   -> [s EXCEPT !.valid = @ /\ valid_timestamp_line(line, format), !.cues = @ + 1,
                                     !.cue_start = FALSE, !.expecting_timestamp = FALSE, !.has_text = FALSE]
          [] role = "number"   -> [s EXCEPT !.valid = @ /\ (format = "vtt" \/ IsNumber(line)),
                                     !.expecting_timestamp = TRUE]
          [] role = "text"     -> [s EXCEPT !.has_text = TRUE]
  IN Taken(LineRole(s, line, format))

valid_subtitles(format, text) ==
  LET Step(s, raw) == ValidateLine(s, Trim(raw.text), format)
      Scanned(lines) ==
        FoldLeft(Step, [valid |-> format = "vtt" => IsHeader(Trim(lines[1].text)), cue_start |-> TRUE,
                        expecting_timestamp |-> FALSE, cues |-> 0, has_text |-> FALSE,
                        metadata |-> FALSE], lines)
      Complete(end) == /\ end.valid /\ ~end.expecting_timestamp /\ end.cues > 0
                       /\ end.metadata \/ end.cue_start \/ end.has_text
  IN Complete(Scanned(split_lines(text)))

-----------------------------------------------------------------------------
\* The warnings of one cue: its lines, and how fast they have to be read.
CueWarnings(texts, range, max_line_chars, max_reading_speed) ==
  LET duration == IF range[2] > range[1] THEN range[2] - range[1] ELSE 0
      chars    == Cardinality(Inked(FlattenSeq(texts)))
  IN (IF \E i \in DOMAIN texts : Len(texts[i]) > max_line_chars
        THEN {"SubtitleLineLengthExceeded"} ELSE {})
     \cup (IF duration > 0 /\ chars * 1000 > max_reading_speed * duration
             THEN {"SubtitleReadingSpeedHigh"} ELSE {})

\* subtitle_warnings: Err, or the warnings of each cue in order.
RECURSIVE warnings_from(_, _, _, _, _)
warnings_from(format, lines, cursor, max_line_chars, max_reading_speed) ==
  LET n        == Len(lines)
      After(i) == FirstOf({j \in i..n : Blank(lines[j].text)}, n + 1)
      Warn(i)  == warnings_from(format, lines, i, max_line_chars, max_reading_speed)
      Cue(stamp, end) ==
        IF stamp > n \/ end = stamp + 1 THEN Err
        ELSE Then(subtitle_timestamp_range(Trim(lines[stamp].text), format), LAMBDA range :
               Then(Warn(end), LAMBDA rest :
                 Ok(<<CueWarnings([i \in 1..(end - stamp - 1) |-> lines[stamp + i].text], range,
                                  max_line_chars, max_reading_speed)>> \o rest)))
      Timed(stamp) == Cue(stamp, After(stamp + 1))
      Block(start, line) ==
        IF start > n THEN Ok(<<>>)
        ELSE IF format = "vtt" /\ ((start = 1 /\ IsHeader(line)) \/ IsMetadata(line))
          THEN Warn(After(start + 1))
        ELSE Timed(IF valid_timestamp_line(line, format) THEN start ELSE start + 1)
      At(start) == Block(start, Trim(lines[start].text))
  IN At(FirstOf({i \in cursor..n : ~Blank(lines[i].text)}, n + 1))

subtitle_warnings(format, text, max_line_chars, max_reading_speed) ==
  warnings_from(format, split_lines(text), 1, max_line_chars, max_reading_speed)

-----------------------------------------------------------------------------
\* DocumentJob::from_text for the line formats: Markdown keeps its fences,
\* what is between them and blank lines.
from_text(format, text) ==
  LET IsFence(line) == format = "md" /\ line # <<>> /\ line[1] = "fence"
      Kept(lines, i, kept) ==
        \/ format \in {"srt", "vtt"} /\ kept
        \/ format = "md" /\ \/ Blank(lines[i].text) \/ IsFence(Trim(lines[i].text))
                            \/ Cardinality({j \in 1..(i - 1) : IsFence(Trim(lines[j].text))}) % 2 = 1
      Segments(lines, kinds) ==
        [i \in 1..Len(lines) |->
           Segment(IF Kept(lines, i, kinds[i]) THEN "verbatim" ELSE "prose", lines[i].text, lines[i].ending)]
  IN Segments(split_lines(text), subtitle_line_kinds(format, text))
=============================================================================
