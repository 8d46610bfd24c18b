-------------------------------- MODULE Epub --------------------------------
(***************************************************************************)
(* EPUB packages (crates/linguamesh-document/src/epub.rs): the members keep *)
(* their order, the mimetype first, and the package document gets the       *)
(* target language.                                                         *)
(***************************************************************************)
EXTENDS Xml

Chapters == {"chapter1.xhtml", "chapter2.xhtml"}
PackageDocument == "content.opf"
Container == "META-INF/container.xml"
\* An XHTML member that holds no text to translate.
Hidden == "META-INF/cover.xhtml"

epub_translatable_part(name) == name \in Chapters

\* archive_names: what has to be there, and in which place.
ValidEpub(archive) ==
  /\ Sound(archive)
  /\ archive[1].name = "mimetype" /\ archive[1].content = <<"application/epub+zip">>
  /\ {Container, PackageDocument} \subseteq NamesOf(archive)
  /\ NamesOf(archive) \cap (Chapters \cup {Hidden}) # {}
  /\ validate_xml(ContentOf(archive, Container))
  /\ validate_xml(ContentOf(archive, PackageDocument))

\* scan_xhtml: Err, or the positions of the text nodes that are shown.  All
\* elements have to be closed.
scan_xhtml(xml) ==
  LET Raw(i) == ToSet(StackAfter(xml, i)[1]) \cap {"script", "style"} # {}
      Shown(texts) == IF \E i \in texts : ~IsOk(unescape(xml[i].text)) THEN Err
                      ELSE Ok({i \in texts : ~Blank(unescape(xml[i].text)[1])})
  IN IF ~validate_xml(xml) \/ xml = <<>> \/ StackAfter(xml, Len(xml)) # Ok(<<>>) THEN Err
     ELSE Shown({i \in DOMAIN xml : xml[i].shape = "text" /\ ~Raw(i)})

EpubTexted(archive) == SelectSeq([k \in DOMAIN archive |-> archive[k].name], epub_translatable_part)

\* inspect: every text that is shown, in archive order; at least one.
epub_inspect(archive) ==
  LET Part(xml) == Then(scan_xhtml(xml), LAMBDA spans :
                     LET Texts(at) == [k \in DOMAIN at |-> Prose(unescape(xml[at[k]].text)[1])]
                     IN Ok(Texts(SetToSortSeq(spans, <))))
      Some(all) == IF all = <<>> THEN Err ELSE Ok(all)
      All(parts) == IF \E k \in DOMAIN parts : ~IsOk(parts[k]) THEN Err
                    ELSE Some(FlattenSeq([k \in DOMAIN parts |-> parts[k][1]]))
      Named(names) == All([k \in DOMAIN names |-> Part(ContentOf(archive, names[k]))])
  IN IF ValidEpub(archive) THEN Named(EpubTexted(archive)) ELSE Err

\* rewrite_language: the text of the first dc:language element, if a target
\* locale is given; without its closing tag the package is refused.
rewrite_language(xml, target_locale) ==
  LET Between(open, close) == IF close = 0 THEN Err
                              ELSE Ok(SubSeq(xml, 1, open) \o <<Chars(escape(target_locale[1]))>> \o From(xml, close))
      Opened(open) == IF open = 0 THEN Ok(xml)
                      ELSE Between(open, FirstOf({i \in (open + 1)..Len(xml) : xml[i] = Close("dc:language")}, 0))
  IN IF ~IsOk(target_locale) THEN Ok(xml)
     ELSE Opened(FirstOf({i \in DOMAIN xml : xml[i].shape = "open" /\ xml[i].name = "dc:language"}, 0))

\* reconstruct: the members in their order.
epub_reconstruct(archive, segments, target_locale) ==
  LET Spans(member) == IF epub_translatable_part(member.name) THEN scan_xhtml(member.content)[1] ELSE {}
      Relabelled(language) ==
        [k \in DOMAIN archive |-> IF archive[k].name = PackageDocument THEN Member(PackageDocument, language)
                                  ELSE archive[k]]
      Written(language) == WriteMembers(Relabelled(language), [k \in DOMAIN archive |-> Spans(archive[k])], segments)
  IN Then(epub_inspect(archive), LAMBDA found :
       Then(rewrite_language(ContentOf(archive, PackageDocument), target_locale), Written))
=============================================================================
