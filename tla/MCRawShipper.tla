---------------------------- MODULE MCRawShipper ----------------------------
(* Small instances of RawShipper for TLC. *)
EXTENDS RawShipper, TLC

CONSTANTS p1, p2, c1, c2

\* Paths and contents are interchangeable.
Symmetry == Permutations(Paths) \cup Permutations(Contents)
=============================================================================
