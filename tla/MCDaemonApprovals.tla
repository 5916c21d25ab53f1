------------------------- MODULE MCDaemonApprovals --------------------------
(* Instances of DaemonApprovals for TLC. *)
EXTENDS DaemonApprovals, TLC

\* Actions and replies are interchangeable (they are ordered by `created').
MCSymmetry == Permutations(Signals) \cup Permutations(Replies)
                \cup Permutations(Daemons)
=============================================================================
