-------------------------- MODULE MCGameLogArchive --------------------------
(* Small instances of GameLogArchive for TLC. *)
EXTENDS GameLogArchive, TLC

CONSTANTS r1, r2, r3, desktop, phone, alice, bob, c1, c2

\* One device of each of two users.
MCTwoUsers == desktop :> alice @@ phone :> bob

MCOneUser == desktop :> alice

MCSizeOf == c1 :> 1 @@ c2 :> 2

MCOneSize == c1 :> 1

\* The requests may be exchanged, and the two users with their devices.
Symmetry ==
    Permutations(Requests) \cup
    {desktop :> phone @@ phone :> desktop @@ alice :> bob @@ bob :> alice}
=============================================================================
