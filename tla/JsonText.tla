------------------------------ MODULE JsonText ------------------------------
(***************************************************************************)
(* The JSON codec of crates/linguamesh-document/src/lib.rs: a recursive     *)
(* descent over the text that records every string with the path of its     *)
(* value, and the choice of the values to translate by JSON Pointer.        *)
(***************************************************************************)
EXTENDS Texts

Backslash == "backslash"

\* Symbols of a number or a literal; "1" and "t" (true) are complete.
Primitives == {"1", "t"}

\* encode_json_string and decode_json_string (serde_json): quote, backslash
\* and line feed are escaped, no other escape occurs in the model's texts.
encode_json_string(value) ==
  LET Escape(c) == CASE c = Quote     -> <<Backslash, Quote>>
                     [] c = Backslash -> <<Backslash, Backslash>>
                     [] c = LF        -> <<Backslash, "n">>
                     [] OTHER         -> <<c>>
  IN <<Quote>> \o FlattenSeq([i \in DOMAIN value |-> Escape(value[i])]) \o <<Quote>>

RECURSIVE Unescape(_)
Unescape(body) ==
  LET Rest(symbol, n) == Then(Unescape(From(body, n)), LAMBDA rest : Ok(<<symbol>> \o rest))
  IN IF body = <<>> THEN Ok(<<>>)
     ELSE IF body[1] = LF \/ body[1] = CR THEN Err
     ELSE IF body[1] # Backslash THEN Rest(body[1], 2)
     ELSE IF Len(body) >= 2 /\ body[2] \in {Quote, Backslash, "n", "/"}
       THEN Rest(IF body[2] = "n" THEN LF ELSE body[2], 3)
     ELSE Err

decode_json_string(raw) ==
  IF Len(raw) >= 2 /\ raw[1] = Quote /\ Last(raw) = Quote
    THEN Unescape(SubSeq(raw, 2, Len(raw) - 1)) ELSE Err

-----------------------------------------------------------------------------
(* JsonParser.  A parser state is the index and the tokens recorded so far; *)
(* Err is a parse error.                                                    *)

skip_whitespace(text, i) ==
  FirstOf({j \in i..Len(text) : text[j] \notin WhiteSpace}, Len(text) + 1)

At(text, i, symbol) == i <= Len(text) /\ text[i] = symbol

\* expect_byte after optional white space: the position behind the symbol.
Expect(text, i, symbol) ==
  LET Behind(j) == IF At(text, j, symbol) THEN Ok(j + 1) ELSE Err IN Behind(skip_whitespace(text, i))

\* Where the string that starts before i ends: an escaped symbol is skipped.
RECURSIVE StringEnd(_, _)
StringEnd(text, i) ==
  IF i > Len(text) THEN Err
  ELSE IF text[i] = Quote THEN Ok(i + 1)
  ELSE IF text[i] = Backslash THEN StringEnd(text, i + 2)
  ELSE IF text[i] \in {LF, CR} THEN Err
  ELSE StringEnd(text, i + 1)

Token(start, end, path, is_key) == [start |-> start, end |-> end, path |-> path, is_key |-> is_key]

\* parse_string at i, where the text has a quote.
parse_string(text, i, path, is_key, tokens) ==
  Then(StringEnd(text, i + 1), LAMBDA end :
    Then(decode_json_string(Upto(text, i, end)), LAMBDA value :
      Ok([index |-> end, value |-> value, tokens |-> Append(tokens, Token(i, end, path, is_key))])))

\* parse_primitive: everything up to a delimiter has to be one literal.
parse_primitive(text, i, tokens) ==
  LET Literal(end) == IF end = i + 1 /\ text[i] \in Primitives THEN Ok([index |-> end, tokens |-> tokens]) ELSE Err
  IN Literal(FirstOf({j \in i..Len(text) : text[j] \in {",", "]", "}"} \cup WhiteSpace}, Len(text) + 1))

RECURSIVE parse_value(_, _, _, _), parse_members(_, _, _, _), parse_items(_, _, _, _, _)

parse_value(text, i, path, tokens) ==
  LET Object(first) == IF At(text, first, "}") THEN Ok([index |-> first + 1, tokens |-> tokens])
                       ELSE parse_members(text, first, path, tokens)
      Array(first)  == IF At(text, first, "]") THEN Ok([index |-> first + 1, tokens |-> tokens])
                       ELSE parse_items(text, first, path, 0, tokens)
      ValueAt(start) ==
        IF start > Len(text) THEN Err
        ELSE CASE text[start] = "{" -> Object(skip_whitespace(text, start + 1))
               [] text[start] = "[" -> Array(skip_whitespace(text, start + 1))
               [] text[start] = Quote -> parse_string(text, start, path, FALSE, tokens)
               [] text[start] \in Primitives -> parse_primitive(text, start, tokens)
               [] OTHER -> Err
  IN ValueAt(skip_whitespace(text, i))

\* Behind a member or an item: the end of its list, or the next one.
AfterValue(text, value, end, More(_)) ==
  LET Closed(close) == IF IsOk(close) THEN Ok([index |-> close[1], tokens |-> value.tokens])
                       ELSE Then(Expect(text, value.index, ","), More)
  IN Closed(Expect(text, value.index, end))

\* parse_object behind its opening bracket.
parse_members(text, i, path, tokens) ==
  LET Member(key, colon) ==
        Then(parse_value(text, colon, Append(path, key.value), key.tokens), LAMBDA value :
          AfterValue(text, value, "}", LAMBDA next : parse_members(text, next, path, value.tokens)))
      KeyAt(start) ==
        IF ~At(text, start, Quote) THEN Err
        ELSE Then(parse_string(text, start, path, TRUE, tokens), LAMBDA key :
               Then(Expect(text, key.index, ":"), LAMBDA colon : Member(key, colon)))
  IN KeyAt(skip_whitespace(text, i))

\* parse_array behind its opening bracket; the index of an item as a symbol.
parse_items(text, i, path, n, tokens) ==
  Then(parse_value(text, i, Append(path, <<IF n = 0 THEN "0" ELSE "1">>), tokens), LAMBDA value :
    AfterValue(text, value, "]", LAMBDA next : parse_items(text, next, path, n + 1, value.tokens)))

\* JsonParser::parse: one value and nothing behind it.
parse_json_tokens(text) ==
  Then(parse_value(text, 1, <<>>, <<>>), LAMBDA value :
    IF skip_whitespace(text, value.index) = Len(text) + 1 THEN Ok(value.tokens) ELSE Err)

-----------------------------------------------------------------------------
\* Mutant: the two escapes of a pointer in the other order.
json_pointer_swapped(path) ==
  FlattenSeq([k \in DOMAIN path |-> <<"/">> \o Replace(Replace(path[k], "/", <<"~", "1">>), "~", <<"~", "0">>)])

\* json_pointer of a path of keys and indices.
json_pointer(path) ==
  FlattenSeq([k \in DOMAIN path |-> <<"/">> \o Replace(Replace(path[k], "~", <<"~", "0">>), "/", <<"~", "1">>)])

\* json_path_selected; a list of pointers may be absent.
json_path_selected(path, include_paths, exclude_paths) ==
  LET Chosen(pointer) == /\ IsOk(exclude_paths) => pointer \notin exclude_paths[1]
                         /\ IsOk(include_paths) => pointer \in include_paths[1]
  IN Chosen(json_pointer(path))

\* from_json_text: the tokens, and the text between them, as segments.
from_json_text(text, include_paths, exclude_paths) ==
  LET Kind(t) == IF ~t.is_key /\ json_path_selected(t.path, include_paths, exclude_paths)
                   THEN "prose" ELSE "verbatim"
      Step(s, t) ==
        [cursor |-> t.end,
         segments |-> s.segments
           \o (IF s.cursor < t.start THEN <<Verbatim(Upto(text, s.cursor, t.start))>> ELSE <<>>)
           \o <<Segment(Kind(t), Upto(text, t.start, t.end), <<>>)>>]
      Tailed(last) == last.segments \o (IF last.cursor <= Len(text) THEN <<Verbatim(From(text, last.cursor))>> ELSE <<>>)
  IN Then(parse_json_tokens(text), LAMBDA tokens :
       Ok(Tailed(FoldLeft(Step, [cursor |-> 1, segments |-> <<>>], tokens))))
=============================================================================
