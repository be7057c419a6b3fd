----------------------------- MODULE MCShipping -----------------------------
(* A small instance of Shipping for TLC. *)
EXTENDS Shipping, TLC

CONSTANTS p1, c1, c2, r1, r2, r3, desktop, alice

MCOwnerOf == desktop :> alice

MCSizeOf == c1 :> 1 @@ c2 :> 2

\* Two contents of different months, so of different directories.
MCMonthOf == c1 :> "2026-04" @@ c2 :> "2026-05"

\* A bound: the server dies once or the agent starts a second time, not both.
OneDies == crashes + starts <= 2

\* The two contents, with their months and sizes, play the same part: only one
\* of them need be there at first.
C1First == writes = 0 => disk[p1] # c2

Symmetry == Permutations(Requests)
=============================================================================
