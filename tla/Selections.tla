----------------------------- MODULE Selections -----------------------------
(***************************************************************************)
(* Selecting from a sequence. SelectSeq takes a test; Among takes the set  *)
(* of those that pass it, so that one lemma serves every selection.        *)
(***************************************************************************)
EXTENDS SequencesExt

\* The elements of a sequence that are in a set, in their order.
Among(s, S) == FoldLeft(LAMBDA kept, x : IF x \in S THEN Append(kept, x) ELSE kept, <<>>, s)
=============================================================================
