----------------------------- MODULE Selection ------------------------------
(****************************************************************************)
(* What a filter keeps of a sequence, as a fold over its positions.         *)
(* SelectSeq does the same; the proof system has no theory of it.           *)
(****************************************************************************)
EXTENDS Sequences, FiniteSetsExt

\* The elements of s that are in keep, in order: std::erase_if of the others,
\* a comprehension with a condition.
Select(s, keep) ==
  MapThenFoldSet(LAMBDA x, t : IF x \in keep THEN Append(t, x) ELSE t, <<>>,
                 LAMBDA k : s[k], Max, DOMAIN s)
=============================================================================
