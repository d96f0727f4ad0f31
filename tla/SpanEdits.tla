------------------------------ MODULE SpanEdits ------------------------------
(***************************************************************************)
(* How the patchers change a part of a file: every edit becomes the        *)
(* replacement of a span whose position was found in the part as it was    *)
(* read, and all of them are applied from the last position to the first,  *)
(* so that none moves another.  A part is a sequence of tokens.            *)
(***************************************************************************)
EXTENDS Integers, Sequences, SequencesExt, FiniteSetsExt

(* The tokens first .. last give way to `value`; last = first - 1 inserts. *)
Replacement(first, last, value) == [first |-> first, last |-> last, value |-> value]

Later(r, s) == r.first > s.first \/ (r.first = s.first /\ r.last > s.last)

(* The sort is stable: of two equal places the earlier replacement is      *)
(* applied first, and stands behind the other one.                         *)
ApplyReplacements(source, replacements) ==
  LET Before(i, j) == \/ Later(replacements[i], replacements[j])
                      \/ ~Later(replacements[j], replacements[i]) /\ i < j
      Put(text, i) == LET r == replacements[i]
                      IN SubSeq(text, 1, r.first - 1) \o r.value
                           \o SubSeq(text, r.last + 1, Len(text))
  IN FoldLeft(Put, source, SetToSortSeq(DOMAIN replacements, Before))
=============================================================================
