---------------------------- MODULE MCMatchWatch ----------------------------
(* Small instances of MatchWatch for TLC. *)
EXTENDS MatchWatch

CONSTANTS p1, p2, rival

\* A log that says nothing yet, one of a match that is lost, and the same
\* one when the opponent's name and the end of a later match are in it.
Empty == [wins |-> FALSE, loses |-> FALSE, format |-> None, opponent |-> None]
Lost == [Empty EXCEPT !.loses = TRUE]
Later == [Lost EXCEPT !.wins = TRUE, !.opponent = rival]

MCContents == {Empty, Lost, Later}
=============================================================================
