-------------------------------- MODULE Xml --------------------------------
(***************************************************************************)
(* XML parts of a document package as the package codecs cut them up        *)
(* (crates/linguamesh-document/src/docx.rs and epub.rs): tags with their    *)
(* attributes, and the texts between them.                                  *)
(***************************************************************************)
EXTENDS Texts, TLC, FiniteSets

NoAttributes == <<>>

Node(shape, name, attributes, text) ==
  [shape |-> shape, name |-> name, attributes |-> attributes, text |-> text]

Open(name)         == Node("open", name, NoAttributes, <<>>)
OpenWith(name, at) == Node("open", name, at, <<>>)
Empty(name)        == Node("empty", name, NoAttributes, <<>>)
EmptyWith(name, at) == Node("empty", name, at, <<>>)
Close(name)        == Node("close", name, NoAttributes, <<>>)
\* A text element holds a text node, which may have no characters.
Chars(text)        == Node("text", "", NoAttributes, text)
Comment            == Node("comment", "", NoAttributes, <<>>)
DocType            == Node("doctype", "", NoAttributes, <<>>)

IsTag(node, name) == node.shape \in {"open", "empty", "close"} /\ node.name = name

\* xml_attribute: the value, if the tag has one.
xml_attribute(node, name) ==
  IF name \in DOMAIN node.attributes THEN Ok(node.attributes[name]) ELSE Err

\* What the tags up to and including node i leave open; Err after a mismatch.
RECURSIVE StackAfter(_, _)
StackAfter(xml, i) ==
  IF i = 0 THEN Ok(<<>>)
  ELSE Then(StackAfter(xml, i - 1), LAMBDA open :
         IF xml[i].shape = "open" THEN Ok(Append(open, xml[i].name))
         ELSE IF xml[i].shape # "close" THEN Ok(open)
         ELSE IF open # <<>> /\ Last(open) = xml[i].name THEN Ok(Front(open))
         ELSE Err)

\* validate_xml (quick_xml): end tags match, and there is no document type.
\* An element may still be open at the end.
validate_xml(xml) ==
  IsOk(StackAfter(xml, Len(xml))) /\ \A i \in DOMAIN xml : xml[i].shape # "doctype"

\* escape and unescape (quick_xml) of the symbols the model uses.
escape(text) ==
  Replace(Replace(Replace(text, "&", <<"&", "amp;">>), "<", <<"&", "lt;">>), ">", <<"&", "gt;">>)

\* An ampersand that begins no entity is an error.
RECURSIVE unescape(_)
unescape(text) ==
  LET Rest(symbol, n) == Then(unescape(From(text, n)), LAMBDA rest : Ok(<<symbol>> \o rest))
  IN IF text = <<>> THEN Ok(<<>>)
     ELSE IF text[1] # "&" THEN Rest(text[1], 2)
     ELSE IF Len(text) = 1 \/ text[2] \notin {"amp;", "lt;", "gt;"} THEN Err
     ELSE Rest(CASE text[2] = "amp;" -> "&" [] text[2] = "lt;" -> "<" [] text[2] = "gt;" -> ">", 3)

-----------------------------------------------------------------------------
(* Archives: a sequence of members; fault is what a reader of the archive   *)
(* holds against a member.                                                  *)
Member(name, content) == [name |-> name, fault |-> "none", content |-> content]

NamesOf(archive) == {archive[i].name : i \in DOMAIN archive}

\* A member a codec refuses whatever the format: encrypted, a link, a path
\* that leaves the package or holds a backslash, a name used twice; and sizes
\* beyond the limits.
MemberFaults == {"encrypted", "symlink", "escapes", "backslash", "too_large"}

Sound(archive) ==
  /\ archive # <<>>
  /\ \A i \in DOMAIN archive : archive[i].fault \notin MemberFaults
  /\ \A i, j \in DOMAIN archive : archive[i].name = archive[j].name => i = j

ContentOf(archive, name) == archive[CHOOSE i \in DOMAIN archive : archive[i].name = name].content

\* The text nodes of a part are replaced by those of the job's segments, which
\* must still be the ones that were extracted: rewrite_xml and rewrite_xhtml.
\* A span is the position of its text node; cursor counts the segments used.
Rewrite(xml, spans, segments, cursor) ==
  LET Fits(p, segment) == /\ unescape(xml[p].text) = Ok(segment.source_text)
                          /\ segment.kind = "prose" => IsOk(segment.translated_text)
      Nth(p) == segments[cursor + Cardinality({q \in spans : q <= p})]
      Text(node, segment) == IF segment.kind = "prose" THEN Chars(escape(segment.translated_text[1])) ELSE node
  IN IF cursor + Cardinality(spans) <= Len(segments) /\ \A p \in spans : Fits(p, Nth(p))
       THEN Ok([i \in DOMAIN xml |-> IF i \in spans THEN Text(xml[i], Nth(i)) ELSE xml[i]])
       ELSE Err

\* The members of a package written from the segments, which have to be used
\* up: the spans of each member take the segments behind those before it.
WriteMembers(members, spans, segments) ==
  LET Used(k) == FoldLeft(LAMBDA n, s : n + Cardinality(s), 0, SubSeq(spans, 1, k))
      All(written) == IF \A k \in DOMAIN written : IsOk(written[k])
                        THEN Ok([k \in DOMAIN written |-> Member(members[k].name, written[k][1])]) ELSE Err
  IN IF Used(Len(spans)) # Len(segments) THEN Err
     ELSE All([k \in DOMAIN members |-> Rewrite(members[k].content, spans[k], segments, Used(k - 1))])
=============================================================================
