------------------------------- MODULE Sublists -------------------------------
(* What the code writes as a list comprehension with a condition.           *)
EXTENDS Naturals, SequencesExt

(* [e for e in s if e in S]                                                 *)
Only(s, S) == FoldLeft(LAMBDA kept, e : IF e \in S THEN Append(kept, e) ELSE kept, <<>>, s)
================================================================================
