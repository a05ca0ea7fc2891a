---------------------------- MODULE OrderedSeqs ----------------------------
(***************************************************************************)
(* Order-preserving selection, written without recursion so that the proof *)
(* modules can reason about it (OrderedSeqsProofs).  The runtime keeps its *)
(* request ids in a deque and a vector and edits them with std::erase,     *)
(* push_front and push_back; all it needs is "the elements of this set in  *)
(* increasing order" and "the elements of this sequence that are in that   *)
(* set, in their order".                                                   *)
(***************************************************************************)
EXTENDS Integers, Sequences, FiniteSets, Functions

\* The elements of a finite set S of naturals as a sequence, smallest first.
Sorted(S) ==
  [k \in 1..Cardinality(S) |->
     CHOOSE i \in S : Cardinality({j \in S : j <= i}) = k]

\* The subsequence of s that keeps exactly the positions in the set I.
AtPositions(s, I) == LET at == Sorted(I) IN [k \in DOMAIN at |-> s[at[k]]]

\* The subsequence of s whose elements are in S.
Filter(s, S) == AtPositions(s, {i \in DOMAIN s : s[i] \in S})

\* std::erase of every element of S from s.
Erase(s, S) == AtPositions(s, {i \in DOMAIN s : s[i] \notin S})

\* The sum of f over the finite set S, a subset of its domain.
SumOver(f, S) == FoldFunctionOnSet(+, 0, f, S)

\* s has no element twice.
NoDuplicates(s) == \A i, j \in DOMAIN s : s[i] = s[j] => i = j
=============================================================================
