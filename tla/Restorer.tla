------------------------------ MODULE Restorer ------------------------------
(***************************************************************************)
(* ProtectedTextRestorer (crates/linguamesh-domain/src/lib.rs): it gets a  *)
(* model's answer in deltas cut at arbitrary places and puts the protected *)
(* spans back for their markers.  A delta may end inside a marker, whose   *)
(* beginning is then held back.                                            *)
(*                                                                         *)
(* The specification lets any text arrive in any deltas.  ProtectedText    *)
(* takes the actions from here and brings the answers of a provider.       *)
(***************************************************************************)
EXTENDS Matching

VARIABLES
  protected,  \* ProtectedSource: its spans have a token and a replacement
  received,   \* the answer so far; nothing the restorer keeps
  pending,    \* ProtectedTextRestorer.pending
  seen,       \* spans whose marker has been replaced
  output,     \* everything emitted so far
  pc          \* between calls, inside push, inside finish, or a result

Spans == DOMAIN protected.spans

Marker(k)      == protected.spans[k].token
Replacement(k) == protected.spans[k].replacement

restorerVars == <<protected, received, pending, seen, output, pc>>

\* The shape of the markers, on which the restorer depends: the prefix, then
\* an index and underscores, and none begins as another one does.
WellMarked(spans) ==
  \A k \in DOMAIN spans :
    LET token == spans[k].token
        size  == Len(PROTECTED_TOKEN_PREFIX)
    IN /\ size < Len(token) /\ OccursAt(PROTECTED_TOKEN_PREFIX, token, 1)
       /\ token[size + 1] # "_"
       /\ \A i \in (size + 1)..Len(token) : token[i] # "P"
       /\ \A l \in DOMAIN spans \ {k} : ~OccursAt(token, spans[l].token, 1)

\* ProtectedSource::restorer.
RestorerInit ==
  /\ protected.spans \in Seq([token : Seq(STRING), source : Seq(STRING), replacement : Seq(STRING)])
  /\ WellMarked(protected.spans)
  /\ received = <<>> /\ pending = <<>> /\ seen = {} /\ output = <<>>
  /\ pc = "idle"

-----------------------------------------------------------------------------
\* The first marker in pending, with its span.
IsNextMarker(i, k) ==
  /\ OccursAt(Marker(k), pending, i)
  /\ \A j \in 1..(i - 1), l \in Spans : ~OccursAt(Marker(l), pending, j)

\* Sizes of the beginnings of marker k that pending ends with.
Overlaps(k) ==
  {n \in 1..Len(Marker(k)) : n <= Len(pending)
     /\ SubSeq(pending, Len(pending) - n + 1, Len(pending)) = SubSeq(Marker(k), 1, n)}

\* Mutant: nothing is held back.
longest_marker_prefix_suffix_none == 0

\* Mutant: the shortest overlap is held back.
longest_marker_prefix_suffix_shortest ==
  LET sizes == UNION {Overlaps(k) : k \in Spans} IN FirstOf(sizes, 0)

\* longest_marker_prefix_suffix: the spans are tried in order, and the first
\* one with an overlap gives its longest.
longest_marker_prefix_suffix ==
  IF \E k \in Spans : Overlaps(k) # {}
    THEN LET first == CHOOSE k \in Spans :
                        Overlaps(k) # {} /\ \A l \in 1..(k - 1) : Overlaps(l) = {}
         IN CHOOSE n \in Overlaps(first) : \A m \in Overlaps(first) : m <= n
    ELSE 0

\* append_plain_text: text that holds a marker prefix is refused.
append_plain_text(plain, label) ==
  IF Occurs(PROTECTED_TOKEN_PREFIX, plain)
    THEN pc' = "invalid" /\ UNCHANGED output
    ELSE output' = output \o plain /\ pc' = label

-----------------------------------------------------------------------------
\* push: a delta of any length is appended ...
push(delta) ==
  /\ pc = "idle"
  /\ received' = received \o delta
  /\ pending' = pending \o delta
  /\ pc' = "push"
  /\ UNCHANGED <<protected, seen, output>>

\* ... without spans everything pending is passed on as it is ...
push_unprotected ==
  /\ pc \in {"push", "finish"} /\ Spans = {}
  /\ output' = output \o pending
  /\ pending' = <<>>
  /\ pc' = IF pc = "push" THEN "idle" ELSE "tail"
  /\ UNCHANGED <<protected, received, seen>>

\* finish begins with push("") ...
finish ==
  /\ pc = "idle"
  /\ pc' = "finish"
  /\ UNCHANGED <<protected, received, pending, seen, output>>

\* ... each complete marker is replaced, with the text before it, once.
replace_marker ==
  /\ pc \in {"push", "finish"}
  /\ \E i \in 1..Len(pending), k \in Spans :
       /\ IsNextMarker(i, k)
       /\ IF k \in seen
            THEN pc' = "duplicate" /\ UNCHANGED <<pending, seen, output>>
          ELSE IF Occurs(PROTECTED_TOKEN_PREFIX, SubSeq(pending, 1, i - 1))
            THEN pc' = "invalid" /\ UNCHANGED <<pending, seen, output>>
          ELSE /\ output' = output \o SubSeq(pending, 1, i - 1) \o Replacement(k)
               /\ pending' = SubSeq(pending, i + Len(Marker(k)), Len(pending))
               /\ seen' = seen \cup {k}
               /\ UNCHANGED pc
  /\ UNCHANGED <<protected, received>>

\* ... and of what is left the possible beginning of a marker is held back.
hold_back ==
  /\ pc \in {"push", "finish"} /\ Spans # {}
  /\ ~\E i \in 1..Len(pending), k \in Spans : OccursAt(Marker(k), pending, i)
  /\ LET split == Len(pending) - longest_marker_prefix_suffix IN
       /\ append_plain_text(SubSeq(pending, 1, split), IF pc = "push" THEN "idle" ELSE "tail")
       /\ pending' = SubSeq(pending, split + 1, Len(pending))
  /\ UNCHANGED <<protected, received, seen>>

\* Mutant: a span without its marker is not missed.
finish_tail_incomplete ==
  /\ pc = "tail"
  /\ append_plain_text(pending, "ok")
  /\ pending' = <<>>
  /\ UNCHANGED <<protected, received, seen>>

\* finish emits what was held back and wants every span replaced.
finish_tail ==
  /\ pc = "tail"
  /\ append_plain_text(pending, IF seen = Spans THEN "ok" ELSE "missing")
  /\ pending' = <<>>
  /\ UNCHANGED <<protected, received, seen>>

\* The rest of a call of push or finish.
restore == push_unprotected \/ replace_marker \/ hold_back \/ finish_tail

RestorerNext == (\E delta \in Seq(STRING) : push(delta)) \/ finish \/ restore

RestorerSpec == RestorerInit /\ [][RestorerNext]_restorerVars

-----------------------------------------------------------------------------
(* Properties.                                                             *)

MarkersAt(spans, text, i) == {k \in DOMAIN spans : OccursAt(spans[k].token, text, i)}

\* What a text read from the left becomes behind its first a symbols: a marker
\* at the reader's place is replaced, any other symbol is copied; with the
\* spans whose markers are met, and whether each of them is met once.
ScanFrom(spans, text, scan, a) ==
  IF a = Len(text) THEN [text |-> <<>>, spans |-> {}, once |-> TRUE]
  ELSE IF MarkersAt(spans, text, a + 1) = {}
    THEN [scan[a + 1] EXCEPT !.text = <<text[a + 1]>> \o @]
  ELSE LET k    == CHOOSE k \in MarkersAt(spans, text, a + 1) : TRUE
           tail == scan[a + Len(spans[k].token)]
       IN [text  |-> spans[k].replacement \o tail.text,
           spans |-> tail.spans \cup {k},
           once  |-> tail.once /\ k \notin tail.spans]

Scan(spans, text) ==
  LET scan[a \in 0..Len(text)] == ScanFrom(spans, text, scan, a) IN scan[0]

\* How the answer was cut into deltas does not matter, and nothing shown is
\* ever taken back: what has been emitted is the beginning of what the text
\* received so far becomes when it is read at once, and on success it is all
\* of it, every span having had its marker exactly once.
DeltasDoNotMatter ==
  \E whole \in {Scan(protected.spans, received)} :
    /\ Len(output) <= Len(whole.text) /\ output = SubSeq(whole.text, 1, Len(output))
    /\ pc = "ok" => output = whole.text /\ whole.spans = Spans /\ whole.once

\* Every marker differs at i from the text, within what is there of it.
Barred(spans, text, i) ==
  \A k \in DOMAIN spans :
    \E n \in 1..Len(spans[k].token) : i + n - 1 <= Len(text) /\ text[i + n - 1] # spans[k].token[n]

\* The prefix of a marker at i, but no marker ...
NoMarker(spans, text, i) == OccursAt(PROTECTED_TOKEN_PREFIX, text, i) /\ MarkersAt(spans, text, i) = {}

\* ... and none that could still come, whatever follows.
NeverMarker(spans, text, i) == OccursAt(PROTECTED_TOKEN_PREFIX, text, i) /\ Barred(spans, text, i)

\* An answer is refused only for what is wrong with it: as duplicate when a
\* marker stands in it twice, as incomplete when reading it at once does not
\* meet every marker, and as invalid when it has a prefix where no marker is.
\* A refusal before the answer's end is final in the sense that no marker could
\* have come there, with one protected span; with several a marker that is just
\* arriving may be refused, because longest_marker_prefix_suffix decides for the
\* first span that overlaps.
RefusalIsRight ==
  /\ pc' = "duplicate" =>
       \E k \in Spans, i \in 1..Len(received) :
         OccursAt(Marker(k), received, i) /\ \E j \in 1..(i - 1) : OccursAt(Marker(k), received, j)
  /\ pc' = "missing" => Scan(protected.spans, received).spans # Spans
  /\ pc' = "invalid" => \E i \in 1..Len(received) : NoMarker(protected.spans, received, i)
  /\ pc' = "invalid" /\ pc = "push" /\ Len(protected.spans) <= 1 =>
       \E i \in 1..Len(received) : NeverMarker(protected.spans, received, i)

RefusalsAreRight == [][RefusalIsRight]_restorerVars
=============================================================================
