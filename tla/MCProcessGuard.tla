--------------------------- MODULE MCProcessGuard ---------------------------
(* Instances of ProcessGuard for TLC. *)
EXTENDS ProcessGuard, TLC

MCBotServices == <<"bot", "daemon", "telegram_mcp">>
MCSymmetry == Permutations(Bots) \cup Permutations(Pids)
=============================================================================
