---------------------------- MODULE MCSecondBot ----------------------------
(* Two bot processes on one workspace, on small instances.                 *)
EXTENDS SecondBot, TLC

CONSTANTS j1, j2, r1, r2, timed, untimed, a1, chat

OneChat == [f \in Fingerprints |-> chat]

Symmetry == Permutations({j1, j2}) \cup Permutations({r1, r2})
=============================================================================
