--------------------------- MODULE ProtectedSource ---------------------------
(***************************************************************************)
(* What of a source text is protected (crates/linguamesh-domain/src/lib.rs): *)
(* code, placeholders, URLs, addresses and glossary terms compete for the   *)
(* text, the chosen ones are replaced by markers, and a long text is cut    *)
(* into chunks between them.                                                *)
(***************************************************************************)
EXTENDS GlossaryText

\* A text is a sequence of characters; "https://" is one symbol, and "wide" a
\* character of three bytes.
Letter == {"a", "A", "b", "s", "P", "t", "0", "1"}
Width(c) == IF c = "wide" THEN 3 ELSE 1
Bytes(text) == FoldLeft(LAMBDA n, c : n + Width(c), 0, text)

\* ProtectedCandidate: first and last position, and who asks for it.
Candidate(start, end, replacement, priority, rule) ==
  [start |-> start, end |-> end, replacement |-> replacement, priority |-> priority, rule |-> rule]

Tick  == <<"tick">>
Fence == <<"tick", "tick", "tick">>

-----------------------------------------------------------------------------
(* The collectors return pairs of the first position and the one behind.    *)

RECURSIVE collect_fenced_code_candidates(_, _)
collect_fenced_code_candidates(source, cursor) ==
  LET Closed(open, close) ==
        IF close = 0 THEN {}
        ELSE {<<open, close + 3>>} \cup collect_fenced_code_candidates(source, close + 3)
      Opened(open) == IF open = 0 THEN {} ELSE Closed(open, Find(source, Fence, open + 3))
  IN Opened(Find(source, Fence, cursor))

\* Three ticks are passed over, whether or not they open a fence.
RECURSIVE collect_inline_code_candidates(_, _)
collect_inline_code_candidates(source, cursor) ==
  LET Closed(open, close) ==
        IF close = 0 THEN {}
        ELSE {<<open, close + 1>>} \cup collect_inline_code_candidates(source, close + 1)
      Opened(open) ==
        IF open = 0 THEN {}
        ELSE IF OccursAt(Fence, source, open) THEN collect_inline_code_candidates(source, open + 3)
        ELSE Closed(open, Find(source, Tick, open + 1))
  IN Opened(Find(source, Tick, cursor))

is_placeholder_body(body) == body # <<>> /\ ToSet(body) \subseteq Letter \cup {"_", ".", "-"}

\* Where a placeholder that begins at i ends; 0 if none begins there.
PlaceholderEnd(source, i) ==
  LET Behind(at, size)  == IF at = 0 THEN 0 ELSE at + size
      BehindBody(brace) == IF brace # 0 /\ is_placeholder_body(Upto(source, i + 1, brace)) THEN brace + 1 ELSE 0
      BehindName(close) == IF close > i + 2 THEN close + 2 ELSE 0
  IN IF OccursAt(<<"{", "{">>, source, i) THEN Behind(Find(source, <<"}", "}">>, i), 2)
     ELSE IF OccursAt(<<"$", "{">>, source, i) THEN Behind(Find(source, <<"}">>, i), 1)
     ELSE IF source[i] = "{" THEN BehindBody(Find(source, <<"}">>, i))
     ELSE IF source[i] # "%" THEN 0
     ELSE IF i < Len(source) /\ source[i + 1] \in {"s", "%", "@"} THEN i + 2
     ELSE IF OccursAt(<<"%", "(">>, source, i) THEN BehindName(Find(source, <<")", "s">>, i))
     ELSE 0

collect_placeholder_candidates(source) ==
  {c \in {<<i, PlaceholderEnd(source, i)>> : i \in DOMAIN source} : c[2] # 0}

\* A URL ends before white space or a bracket, without closing punctuation.
collect_url_candidates(source) ==
  LET Stop(i) == FirstOf({j \in i..Len(source) : source[j] \in WhiteSpace \cup {"<", ">", "[", "]", "{", "}", Quote}},
                         Len(source) + 1)
      End(i, stop) == FirstOf({j \in (i + 1)..stop : \A k \in j..(stop - 1) : source[k] \in {".", ",", "!"}}, i)
  IN {<<i, End(i, Stop(i))>> : i \in {j \in DOMAIN source : source[j] = "https://"}}

\* An address: the longest run of its characters on both sides of the sign,
\* with a dot behind it.
collect_email_candidates(source) ==
  LET Run(S, i, j) == \A k \in i..j : source[k] \in S
      left  == Letter \cup {".", "_", "+", "-"}
      right == Letter \cup {".", "_", "-"}
      Start(at) == FirstOf({i \in 1..at : Run(left, i, at - 1)}, at)
      End(at)   == FirstOf({j \in (at + 1)..(Len(source) + 1) :
                              Run(right, at + 1, j - 1) /\ (j <= Len(source) => source[j] \notin right)}, at + 1)
  IN {<<Start(at), End(at)>> :
        at \in {i \in DOMAIN source : source[i] = "@" /\ Start(i) < i /\ Has(Upto(source, i + 1, End(i)), ".")}}

AutomaticCandidates(source) ==
  collect_fenced_code_candidates(source, 1) \cup collect_inline_code_candidates(source, 1)
    \cup collect_placeholder_candidates(source) \cup collect_url_candidates(source)
    \cup collect_email_candidates(source)

-----------------------------------------------------------------------------
locale_matches(configured, requested) == IsOk(configured) => configured = requested

is_word_character(c) == c \in Letter \cup {"_", "wide"}

is_whole_word_match(source, start, end) ==
  /\ start > 1 => ~is_word_character(source[start - 1])
  /\ end <= Len(source) => ~is_word_character(source[end])

\* eq_ignore_ascii_case.
Lower(text) == [i \in DOMAIN text |-> IF text[i] = "A" THEN "a" ELSE text[i]]

\* collect_glossary_candidates: every match of every rule for the languages.
collect_glossary_candidates(source, source_locale, target_locale, glossary) ==
  LET Applies(e) == e.enabled /\ locale_matches(e.source_locale, source_locale) /\ locale_matches(e.target_locale, target_locale)
      Part(e, i) == SubSeq(source, i, i + Len(e.source_term) - 1)
      Matches(e, i) ==
        LET end == i + Len(e.source_term) IN
        /\ end - 1 <= Len(source)
        /\ IF e.case_sensitive THEN Part(e, i) = e.source_term ELSE Lower(Part(e, i)) = Lower(e.source_term)
        /\ e.whole_word => is_whole_word_match(source, i, end)
  IN UNION {LET e == glossary[k] IN
              {Candidate(i, i + Len(e.source_term), IF e.immutable THEN Part(e, i) ELSE e.target_term, e.priority, k) :
                 i \in {j \in DOMAIN source : Applies(e) /\ Matches(e, j)}} : k \in DOMAIN glossary}

\* i32::MIN: below every priority the model uses.
AutomaticPriority == -100

\* The order of the candidates: by place, priority and length; the sort is
\* stable, so equal ones stay in the order they were collected in.
Before(a, b) ==
  IF a.start # b.start THEN a.start < b.start
  ELSE IF a.priority # b.priority THEN a.priority > b.priority
  ELSE IF a.end # b.end THEN a.end > b.end
  ELSE a.rule < b.rule

\* The candidates that begin behind the last one taken.
SelectCandidates(sorted) ==
  FoldLeft(LAMBDA s, c : IF c.start < c.end /\ (s = <<>> \/ c.start >= Last(s).end) THEN Append(s, c) ELSE s,
           <<>>, sorted)

-----------------------------------------------------------------------------
\* The index of each span as a character.
Digit == <<"0", "1", "2", "3">>

\* A marker grows by underscores until the source does not have it.
Token(source, k) ==
  LET Grown(n) == PROTECTED_TOKEN_PREFIX \o <<Digit[k]>> \o PROTECTED_TOKEN_SUFFIX \o [i \in 1..n |-> "_"]
  IN Grown(FirstOf({n \in 0..Len(source) : ~Occurs(Grown(n), source)}, 0))

\* build_protected_source: the spans, and the text between them; the text has
\* the marker of span k behind the k-th stretch of plain text.
build_protected_source(source, source_locale, target_locale, glossary) ==
  LET automatic == {Candidate(c[1], c[2], Upto(source, c[1], c[2]), AutomaticPriority, 0) : c \in AutomaticCandidates(source)}
      Plain(selected) == [k \in 1..(Len(selected) + 1) |->
        Upto(source, IF k = 1 THEN 1 ELSE selected[k - 1].end,
                     IF k > Len(selected) THEN Len(source) + 1 ELSE selected[k].start)]
      Spanned(selected) == [k \in DOMAIN selected |->
        [token |-> Token(source, k), source |-> Upto(source, selected[k].start, selected[k].end),
         replacement |-> selected[k].replacement]]
      Joined(plain, spans) ==
        [plain |-> plain, spans |-> spans,
         text |-> FlattenSeq([k \in DOMAIN plain |-> plain[k] \o (IF k \in DOMAIN spans THEN spans[k].token ELSE <<>>)])]
      Built(selected) == Joined(Plain(selected), Spanned(selected))
  IN Built(SelectCandidates(SetToSortSeq(automatic \cup
             collect_glossary_candidates(source, source_locale, target_locale, glossary), Before)))

-----------------------------------------------------------------------------
\* Mutant: a chunk may end inside a marker.
CrossingSpan_none(text, start, limit, spans) == Err

\* The first span whose marker, where it occurs next, begins before the limit
\* and ends behind it.
CrossingSpan(text, start, limit, spans) ==
  LET Place(token, at) == IF at # 0 /\ at < limit /\ at + Len(token) > limit THEN <<<<at, at + Len(token)>>>> ELSE Err
      First(over) == IF over = <<>> THEN Err ELSE Ok(over[1])
  IN First(FlattenSeq([k \in DOMAIN spans |-> Place(spans[k].token, Find(text, spans[k].token, start))]))

\* semantic_boundary: behind the last white space or full stop before the
\* limit, or at the limit.
semantic_boundary(text, start, limit) ==
  LET Latest(ends) == IF ends = {} THEN limit ELSE CHOOSE i \in ends : \A j \in ends : j <= i
  IN Latest({i + 1 : i \in {j \in start..(limit - 1) : text[j] \in WhiteSpace \cup {".", "!"}}})

\* split_protected_text from a position on.
RECURSIVE SplitFrom(_, _, _, _)
SplitFrom(text, start, max_bytes, spans) ==
  LET CutAt(end) ==
        IF end <= start THEN Err
        ELSE Then(SplitFrom(text, end, max_bytes, spans), LAMBDA rest : Ok(<<Upto(text, start, end)>> \o rest))
      Crossed(cross, limit) ==
        IF IsOk(cross) /\ (cross[1][1] = start \/ cross[1][2] - cross[1][1] > max_bytes) THEN Err
        ELSE CutAt(semantic_boundary(text, start, IF IsOk(cross) THEN cross[1][1] ELSE limit))
      Limited(limit) == Crossed(CrossingSpan(text, start, limit, spans), limit)
      Latest(fits)   == CHOOSE i \in fits : \A j \in fits : j <= i
  IN IF start > Len(text) THEN Ok(<<>>)
     ELSE Limited(Latest({i \in start..(Len(text) + 1) : Bytes(Upto(text, start, i)) <= max_bytes}))

split_protected_text(text, max_bytes, spans) ==
  IF max_bytes = 0 THEN Err
  ELSE IF Bytes(text) <= max_bytes THEN Ok(<<text>>)
  ELSE SplitFrom(text, 1, max_bytes, spans)

\* ProtectedSource::chunks: each piece with the spans whose markers it has;
\* every span belongs to exactly one.
chunks(protected, max_bytes) ==
  LET In(piece) == SelectSeq(protected.spans, LAMBDA s : Occurs(s.token, piece))
      Holders(token, pieces) == {p \in DOMAIN pieces : Occurs(token, pieces[p])}
  IN Then(split_protected_text(protected.text, max_bytes, protected.spans), LAMBDA pieces :
       IF \E s \in ToSet(protected.spans) : Cardinality(Holders(s.token, pieces)) # 1 THEN Err
       ELSE Ok([p \in DOMAIN pieces |-> [text |-> pieces[p], spans |-> In(pieces[p])]]))
=============================================================================
