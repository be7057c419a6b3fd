---------------------------- MODULE MCSelfUpdate ----------------------------
(* Small instances of SelfUpdate for TLC. *)
EXTENDS SelfUpdate

CONSTANTS m1, m2, loop
=============================================================================
