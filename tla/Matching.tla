------------------------------ MODULE Matching ------------------------------
(***************************************************************************)
(* Where a text has a part, and what the markers of protected spans begin  *)
(* and end with (crates/linguamesh-domain/src/lib.rs).  A text is a        *)
(* sequence of symbols.  The prefix keeps what the restorer depends on: it *)
(* begins with two underscores and ends in one.                            *)
(***************************************************************************)
EXTENDS Naturals, Sequences

PROTECTED_TOKEN_PREFIX == <<"_", "_", "P", "_">>
PROTECTED_TOKEN_SUFFIX == <<"_", "_">>

\* The smallest member of a set of positions, or the given default.
FirstOf(S, default) == IF S = {} THEN default ELSE CHOOSE i \in S : \A j \in S : i <= j

\* part occurs in the text at position i.
OccursAt(part, text, i) == i + Len(part) - 1 <= Len(text) /\ SubSeq(text, i, i + Len(part) - 1) = part

\* Where part occurs next, from position i on; 0 when it does not.
Find(text, part, i) == FirstOf({j \in i..Len(text) : OccursAt(part, text, j)}, 0)

Occurs(part, text) == \E i \in 1..Len(text) : OccursAt(part, text, i)
=============================================================================
