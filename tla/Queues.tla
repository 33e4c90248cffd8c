------------------------------- MODULE Queues -------------------------------
(***************************************************************************)
(* Deques from which elements are removed: deque.remove of Python, one     *)
(* element after the other.                                                *)
(***************************************************************************)
EXTENDS Integers, SequencesExt

(* The elements of q that are not in S, in the order of q.                 *)
Kept(q, S)    == {i \in DOMAIN q : q[i] \notin S}
Rank(q, S, i) == Cardinality({j \in Kept(q, S) : j <= i})
Without(q, S) ==
  [k \in 1 .. Cardinality(Kept(q, S)) |->
     q[CHOOSE i \in Kept(q, S) : Rank(q, S, i) = k]]
=============================================================================
