------------------------------ MODULE SeqFilter ------------------------------
(***************************************************************************)
(* Array.prototype.filter on a list of names, in a form that can be proved *)
(* about: SelectSeq is a fold over the indices, so nothing can be shown of *)
(* it without induction; Filter numbers the surviving indices by their     *)
(* rank.  MCQueueScheduler checks that the two agree, ListProofs proves    *)
(* what the scheduler needs of it.                                         *)
(***************************************************************************)
EXTENDS Naturals, FiniteSets, Sequences

\* The indices of s that survive: those holding a member of keep.
Kept(s, keep) == {i \in 1..Len(s) : s[i] \in keep}

\* The position index i gets in the filtered list.
Rank(s, keep, i) == Cardinality({k \in Kept(s, keep) : k <= i})

\* s.filter(function(x) { return x in keep; })
Filter(s, keep) ==
  [n \in 1..Cardinality(Kept(s, keep)) |->
     s[CHOOSE i \in Kept(s, keep) : Rank(s, keep, i) = n]]
=============================================================================
