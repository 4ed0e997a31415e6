------------------------------ MODULE FoldSeqs ------------------------------
(***************************************************************************)
(* Folding and filtering a sequence with a function and a set, where the   *)
(* library's operators take an operator: these can be reasoned about for   *)
(* every function and every set.                                           *)
(***************************************************************************)
EXTENDS Naturals, Sequences

\* f[...f[f[base][s[1]]][s[2]]...][s[n]].
Folded(f, base, s) ==
  LET upto[k \in 0..Len(s)] == IF k = 0 THEN base ELSE f[upto[k - 1]][s[k]]
  IN  upto[Len(s)]

\* The elements of s that are in S, in their order.
Kept(s, S) ==
  LET elements == {s[i] : i \in DOMAIN s}
      keep == [kept \in Seq(S) |->
                [x \in elements |-> IF x \in S THEN Append(kept, x) ELSE kept]]
  IN  Folded(keep, <<>>, s)
=============================================================================
