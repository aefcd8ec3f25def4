----------------------------- MODULE MCCatalog ------------------------------
(* Instances of ZimCatalog for TLC.                                        *)
EXTENDS ZimCatalog

Symmetry == Permutations(Names) \cup Permutations(Callers)
=============================================================================
