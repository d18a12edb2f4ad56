------------------------------- MODULE Queues -------------------------------
(***************************************************************************)
(* Filtering a queue: the elements of q that are in S, in their order.     *)
(* The value is that of SelectSeq with the test x \in S; it is written     *)
(* without recursion, so that proofs can expand it.                        *)
(***************************************************************************)
EXTENDS Integers, Sequences, FiniteSets

Places(q, S) == {i \in DOMAIN q : q[i] \in S}

Rank(P, i) == Cardinality({j \in P : j <= i})

Keep(q, S) ==
  LET P == Places(q, S)
  IN  [k \in 1..Cardinality(P) |-> q[CHOOSE i \in P : Rank(P, i) = k]]
=============================================================================
