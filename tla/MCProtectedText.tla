--------------------------- MODULE MCProtectedText ---------------------------
(***************************************************************************)
(* Every short source text over the pieces the collectors look for, sources *)
(* with none, one and two spans for which every answer is tried, and        *)
(* glossary files in both formats.                                          *)
(***************************************************************************)
EXTENDS ProtectedText

CONSTANT SourceLength  \* pieces of a source text

Code == <<"tick", "b", "tick">>
SourcePieces ==
  {<<"tick">>, <<"a">>, <<Space>>, <<"_">>, <<"wide">>, <<"{">>, <<"}">>, <<"%", "s">>, <<"@">>, <<".">>,
   <<"https://">>, Code, <<"_", "_", "P", "_", "0", "_", "_">>, <<"_", "_", "P", "_", "1", "_">>}

MCDrilled == {<<"a">>, Code, <<"%", "s">> \o Code}

\* Longer texts: fences, placeholders inside code, addresses, two markers in
\* a row, markers of the source's own between spans.
Longer ==
  {<<"tick", "tick", "tick", "a", "tick", "tick", "tick", "tick", "a", "tick">>,
   <<"tick", "{", "a", "}", "tick", "{", "a", "tick", "}">>,
   <<"$", "{", "tick", "}", "tick", "a">>, <<"{", "{", "a", "}", "}", "}">>,
   <<"a", "@", "b", ".", "b", Space, "A", "a">>, <<"%", "(", "a", ")", "s", "%", "%", "s">>,
   <<"https://", "a", ".", "{", "a", "}", ".">>,
   <<"_", "_", "P", "_", "1", "_">> \o Code \o <<"a">> \o Code,
   Code \o <<"_", "_", "P", "_", "0", "_">> \o Code,
   Code \o <<"_">> \o Code \o <<Space, "a">> \o Code \o <<".", "wide", "wide">>}

Texts1 == {FlattenSeq(p) : p \in UNION {[1..n -> SourcePieces] : n \in 0..SourceLength}} \cup Longer

\* What glossary rules are tried on.
TermTexts == {<<"a">>, <<"A", Space, "a", "b">>, <<"tick", "a", "tick", "a", ".">>, <<"a", "a", "wide">>}

Terms == {<<"a">>, <<"A", ",">>, <<Quote, "a">>, <<"a", LF>>, <<Space>>, <<"credential">>, <<"a", CR>>}
Rule1 == {[NewEntry(s, <<"t">>) EXCEPT !.case_sensitive = c, !.whole_word = w, !.immutable = ~c, !.priority = IF c THEN 7 ELSE -1] :
            s \in Terms, c, w \in BOOLEAN}
Rule2 == [NewEntry(<<"a">>, <<"b", Space>>) EXCEPT !.target_locale = Ok(<<"fr">>), !.priority = 7]
Rule3 == [NewEntry(<<"a", "b">>, <<"t", "t">>) EXCEPT !.source_locale = Ok(<<"de">>), !.notes = Ok(<<Space, LF>>), !.domain = Ok(<<"a">>)]
Rule4 == [NewEntry(<<"a">>, <<"A">>) EXCEPT !.enabled = FALSE, !.notes = Ok(<<"a", Quote>>)]
Glossaries == {<<r>> : r \in Rule1} \cup {<<r, Rule2>> : r \in Rule1} \cup {<<Rule2, Rule4>>, <<Rule3>>, <<Rule2, Rule2, Rule4>>, <<>>}

File(kind, content) == [kind |-> kind, content |-> content]
Line(fields) == FlattenSeq([c \in DOMAIN fields |-> (IF c = 1 THEN <<>> ELSE <<",">>) \o fields[c]])
Quoted(f) == <<Quote>> \o Replace(f, Quote, <<Quote, Quote>>) \o <<Quote>>
HeaderLine == Line([c \in DOMAIN Header |-> <<Header[c]>>])
SomeRow == <<<<"a">>, <<"t">>, <<>>, <<"fr">>, <<"true">>, <<"false">>, <<"true">>, <<>>, <<"0">>, <<>>, <<"true">>>>
CsvFiles ==
  {HeaderLine \o <<LF>> \o FlattenSeq([k \in DOMAIN g |-> Line([c \in 1..11 |-> Quoted(Fields(g[k])[c])]) \o <<LF>>]) : g \in Glossaries}
  \cup {HeaderLine \o end \o Line([SomeRow EXCEPT ![c] = f]) :
          end \in {<<LF>>, <<CR, LF>>}, c \in {2, 5, 9, 10}, f \in {<<Quote, "t", Quote>>, <<"t", Quote>>, <<"true">>, <<"t", CR>>, <<>>}}
  \cup {<<>>, <<"BOM">> \o HeaderLine, <<LF>> \o HeaderLine, HeaderLine \o <<LF, LF>>,
        HeaderLine \o <<LF, Quote, "t">>, HeaderLine \o <<LF>> \o Line(Tail(SomeRow)),
        HeaderLine \o <<LF>> \o Line(SomeRow) \o <<LF>> \o Line([SomeRow EXCEPT ![2] = <<"b">>])}

Tagged(name, content) == <<Open(name)>> \o content \o <<Close(name)>>
Lang(locale, content) == <<OpenWith("langSet", [lang |-> locale])>> \o content \o <<Close("langSet")>>
Term(text) == Tagged("term", <<Chars(text)>>)
Note == Tagged("descrip", <<Chars(<<"a">>)>> \o Tagged("b", <<Chars(<<"b">>)>>))
TbxParts ==
  {Lang(<<"en">>, Term(<<Space, "a">>)), Lang(<<"fr">>, Term(<<"t">>)), Lang(<<"fr">>, Term(<<"&", "lt;">>) \o Term(<<"b">>)),
   Tagged("langSet", Tagged("tig", Term(<<"b">>))), Lang(<<>>, Term(<<"b">>)), Note, Tagged("langSet", <<>>),
   Lang(<<"fr">>, Tagged("term", Note)), Tagged("descrip", Lang(<<"de">>, Term(<<"A">>))), Term(<<"a">>), <<Empty("langSet")>>}
Entries == {Tagged("termEntry", p \o q \o r) : p, q \in TbxParts, r \in TbxParts \cup {<<>>}}
TbxFiles ==
  {Tagged("martif", e) : e \in Entries}
  \cup {Tagged("martif", Tagged("termEntry", Lang(<<"en">>, Term(<<"a">>)) \o Lang(<<"fr">>, Term(<<"t">>)))
          \o <<Comment>> \o Tagged("termEntry", Lang(<<"en">>, Term(<<"b">>)) \o p)) : p \in TbxParts}
  \cup {<<>>, <<DocType>> \o Tagged("martif", <<>>), Tagged("martif", <<>>) \o Tagged("martif", <<>>),
        Tagged("martif", Tagged("termEntry", Tagged("termEntry", <<>>))), <<Open("martif")>>, <<Close("martif")>>,
        Tagged("martif", Lang(<<"en">>, <<>>))}

MCFiles == {File("none", <<>>)} \cup {File("csv", f) : f \in CsvFiles} \cup {File("tbx", f) : f \in TbxFiles}

\* Bodies with separators of one kind, of both kinds, with a comment before,
\* with a message over two data lines, and with the end missing or
\* unterminated.
SseProtocols == {"chat", "responses", "anthropic", "gemini"}
MCFramings ==
  LET lf == <<LF, LF>> crlf == <<CR, LF, CR, LF>>
      Framing(protocol, uniform, lead, ends, last) ==
        [protocol |-> protocol, uniform |-> uniform, usage |-> TRUE, lead |-> lead, ends |-> ends, last |-> last]
  IN {Framing(p, TRUE, <<>>, <<lf>>, lf) : p \in SseProtocols}
     \cup {[Framing(p, TRUE, <<":", "ping", CR, LF, CR, LF>>, <<crlf>>, crlf) EXCEPT !.usage = FALSE] : p \in SseProtocols}
     \cup {Framing("chat", FALSE, <<>>, <<lf, crlf>>, lf), Framing("gemini", FALSE, <<":", "ping", LF, LF>>, <<crlf, crlf, lf>>, crlf),
           Framing("anthropic", FALSE, <<>>, <<lf>>, <<LF>>), Framing("anthropic", FALSE, <<"data:", "{", LF, "data:", "}", LF, LF>>, <<lf>>, lf),
           Framing("responses", FALSE, <<"data:", "{", "error", "}", LF, LF>>, <<lf>>, lf),
           Framing("ndjson", TRUE, <<LF>>, <<<<LF>>>>, <<LF>>), Framing("ndjson", TRUE, <<>>, <<<<CR, LF>>, <<LF, LF>>>>, <<>>)}

MCSourcesFor(f) == IF f.kind = "none" THEN Texts1 ELSE TermTexts
=============================================================================
