----------------------------- MODULE MCTrayApp ------------------------------
(* A small instance of TrayApp for TLC. *)
EXTENDS TrayApp

CONSTANTS t1, t2, d1

\* A bound: reloads overlap in the first run of the agent only, together with
\* an edit of the file or a revocation, and with neither a lost request nor a
\* pause.
OverlapOnce ==
    overlapped =>
        /\ starts = 1 /\ troubles = 0 /\ ~paused
        /\ edits = 0 \/ revoked = {}

=============================================================================
