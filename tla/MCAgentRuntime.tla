--------------------------- MODULE MCAgentRuntime ---------------------------
(* Instances of AgentRuntime for TLC: one fingerprint whose profile has a   *)
(* timeout and one without, in one chat.                                    *)
EXTENDS AgentRuntime, TLC

CONSTANTS j1, j2, r1, r2, timed, untimed, a1, chat

OneChat == [f \in Fingerprints |-> chat]

\* Job ids and coroutine slots are interchangeable.
Symmetry == Permutations({j1, j2}) \cup Permutations({r1, r2})
=============================================================================
