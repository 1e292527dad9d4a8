--------------------------------- MODULE Places ---------------------------------
(***************************************************************************)
(* The entries of a sequence by their places.                              *)
(***************************************************************************)
EXTENDS Integers, Sequences, FiniteSets

\* Those entries of a sequence whose places are in S, in their order.
Kept(s, S) ==
  [k \in 1..Cardinality(S) |-> s[CHOOSE i \in S : Cardinality({j \in S : j < i}) = k - 1]]
================================================================================
