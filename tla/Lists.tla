-------------------------------- MODULE Lists --------------------------------
(* What QList::removeOne() and removeAll() leave of a list.                 *)
EXTENDS Integers, Sequences, FiniteSets

(* The list q without the elements of S, in the order they had.  (SelectSeq *)
(* is recursive, which keeps it out of proofs.)                              *)
Rank(K, i)    == Cardinality({j \in K : j <= i})
Kept(q, S)    == {i \in DOMAIN q : q[i] \notin S}
Without(q, S) == [k \in 1 .. Cardinality(Kept(q, S)) |->
                    q[CHOOSE i \in Kept(q, S) : Rank(Kept(q, S), i) = k]]
=============================================================================
