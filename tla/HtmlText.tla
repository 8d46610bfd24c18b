------------------------------ MODULE HtmlText ------------------------------
(***************************************************************************)
(* The HTML codec of crates/linguamesh-document/src/lib.rs: a scan with a   *)
(* stack of open tags separates the visible text from markup, comments and  *)
(* the contents of raw text tags.  The symbols are <, >, /, !, the comment  *)
(* delimiters, quotes, names and words.                                     *)
(***************************************************************************)
EXTENDS Texts

\* The names the model uses, of the code's two lists.
HTML_VOID_TAGS     == {<<"br">>}
HTML_RAW_TEXT_TAGS == {<<"script">>}

\* What html_tag_name takes for a name.
NameSymbols == {"b", "br", "script", "x", "--"}

\* html_tag_end: the position behind the first > outside quotes.
RECURSIVE html_tag_end(_, _, _)
html_tag_end(text, i, quoted) ==
  IF i > Len(text) THEN Err
  ELSE IF text[i] = Quote THEN html_tag_end(text, i + 1, ~quoted)
  ELSE IF text[i] \in {">", "-->"} /\ ~quoted THEN Ok(i + 1)
  ELSE html_tag_end(text, i + 1, quoted)

\* html_tag_name of the text between the brackets: Err, or the name with what
\* kind of tag it is; declarations have no name.
html_tag_name(inner) ==
  LET Tag(name, closing, body) ==
        IF body # <<>> /\ body[1] = "!" THEN Ok([name |-> <<>>, closing |-> closing, self_closing |-> FALSE])
        ELSE IF name = <<>> \/ \E i \in DOMAIN name : name[i] \notin NameSymbols THEN Err
        ELSE Ok([name |-> name, closing |-> closing, self_closing |-> ~closing /\ Last(body) = "/"])
      Named(closing, body) ==
        Tag(Upto(body, 1, FirstOf({i \in DOMAIN body : body[i] \in WhiteSpace \cup {"/"}}, Len(body) + 1)),
            closing, body)
      Trimmed(text) == IF text = <<>> THEN Err
                       ELSE IF text[1] = "/" THEN Named(TRUE, Trim(Tail(text)))
                       ELSE Named(FALSE, text)
  IN Trimmed(Trim(inner))

\* What a tag does to the stack of open tags.
TagStack(stack, tag) ==
  IF tag.name = <<>> \/ tag.self_closing \/ (~tag.closing /\ tag.name \in HTML_VOID_TAGS) THEN Ok(stack)
  ELSE IF ~tag.closing THEN Ok(Append(stack, tag.name))
  ELSE IF stack # <<>> /\ Last(stack) = tag.name THEN Ok(Front(stack))
  ELSE Err

IsRaw(name) == name \in HTML_RAW_TEXT_TAGS

\* html_find_case_insensitive: the next closing tag of that name.
ClosingTag(text, name, i) == FirstOf({j \in i..Len(text) : OccursAt(<<"<", "/">> \o name, text, j)}, 0)

\* The text between the brackets of the tag that ends before end.
TagInner(text, cursor, end) ==
  Upto(text, cursor + 1, end - 1) \o (IF text[end - 1] = "-->" THEN <<"--">> ELSE <<>>)

\* The token at the cursor: Err, or its segment, the position behind it and
\* the stack of open tags there.
HtmlToken(text, cursor, stack) ==
  LET Token(segment, end, open) == Ok([segment |-> segment, end |-> end, stack |-> open])
      RawText(close)   == IF close = 0 THEN Err ELSE Token(Verbatim(Upto(text, cursor, close)), close, stack)
      CommentTo(end)   == IF end = 0 THEN Err ELSE Token(Verbatim(SubSeq(text, cursor, end)), end + 1, stack)
      TagTo(end)       == Then(html_tag_name(TagInner(text, cursor, end)), LAMBDA tag :
                            Then(TagStack(stack, tag), LAMBDA open : Token(Verbatim(Upto(text, cursor, end)), end, open)))
      Content(shown, end) ==
        IF Blank(shown) \/ \E k \in DOMAIN stack : IsRaw(stack[k]) THEN Token(Verbatim(shown), end, stack)
        ELSE Token(Prose(shown), end, stack)
      ContentTo(end)   == Content(Upto(text, cursor, end), end)
  IN IF stack # <<>> /\ IsRaw(Last(stack)) /\ ~OccursAt(<<"<", "/">> \o Last(stack), text, cursor)
       THEN RawText(ClosingTag(text, Last(stack), cursor))
     ELSE IF text[cursor] = "<!--" THEN CommentTo(FirstOf({j \in (cursor + 1)..Len(text) : text[j] = "-->"}, 0))
     ELSE IF text[cursor] = "<" THEN Then(html_tag_end(text, cursor + 1, FALSE), TagTo)
     ELSE ContentTo(FirstOf({j \in cursor..Len(text) : text[j] \in {"<", "<!--"}}, Len(text) + 1))

\* parse_html_tokens: Err, or the segments of the text from cursor on.
RECURSIVE ParseHtml(_, _, _)
ParseHtml(text, cursor, stack) ==
  IF cursor > Len(text) THEN IF stack = <<>> THEN Ok(<<>>) ELSE Err
  ELSE Then(HtmlToken(text, cursor, stack), LAMBDA token :
         Then(ParseHtml(text, token.end, token.stack), LAMBDA rest : Ok(<<token.segment>> \o rest)))

parse_html_tokens(text) == IF text = <<>> THEN Err ELSE ParseHtml(text, 1, <<>>)

from_html_text(text) == parse_html_tokens(text)

\* encode_html_text; the comment delimiters hold an angle bracket too.
encode_html_text(translated) ==
  LET ampersands == Replace(translated, "&", <<"&", "amp;">>)
      comments   == Replace(Replace(ampersands, "<!--", <<"&", "lt;", "!", "--">>), "-->", <<"--", "&", "gt;">>)
  IN Replace(Replace(comments, "<", <<"&", "lt;">>), ">", <<"&", "gt;">>)

\* What a browser shows for escaped text.
RECURSIVE html_text(_)
html_text(text) ==
  LET entity == CASE text[2] = "amp;" -> "&" [] text[2] = "lt;" -> "<" [] text[2] = "gt;" -> ">"
  IN IF Len(text) < 2 THEN text
     ELSE IF text[1] = "&" /\ text[2] \in {"amp;", "lt;", "gt;"} THEN <<entity>> \o html_text(From(text, 3))
     ELSE <<text[1]>> \o html_text(Tail(text))
=============================================================================
