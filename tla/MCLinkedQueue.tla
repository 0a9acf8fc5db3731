--------------------------- MODULE MCLinkedQueue ----------------------------
(* LinkedQueue on a small heap.                                            *)
EXTENDS LinkedQueue

\* The addresses are interchangeable.
Symmetry == Permutations(Node)
=============================================================================
