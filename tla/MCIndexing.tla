----------------------------- MODULE MCIndexing -----------------------------
(* Instances of Indexing for TLC: three versions of two articles each, one *)
(* of which every other version lacks.                                     *)
EXTENDS Indexing

CONSTANTS p, q, s

MCContents == [v \in 1..MaxChanges |-> IF v % 2 = 1 THEN <<p, q>> ELSE <<p, s>>]
MCContentKey == [v \in 1..MaxChanges |-> v]

Symmetry == Permutations(Runners)
=============================================================================
