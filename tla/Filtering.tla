------------------------------ MODULE Filtering ------------------------------
(***************************************************************************)
(* Array.prototype.filter: the code keeps lists, filters them in place and *)
(* relies on the order that is left.  The kept entries are given by their  *)
(* positions; an entry's new position is its rank among them.              *)
(***************************************************************************)
EXTENDS Integers, Sequences, FiniteSets

UpTo(kept, i) == {j \in kept : j <= i}

Rank(kept, i) == Cardinality(UpTo(kept, i))

\* The position of the k-th kept entry.
Position(kept, k) == CHOOSE i \in kept : Rank(kept, i) = k

Filter(list, kept) == [k \in 1..Cardinality(kept) |-> list[Position(kept, k)]]
=============================================================================
