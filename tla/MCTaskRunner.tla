----------------------------- MODULE MCTaskRunner -----------------------------
(* Instances of TaskRunner for TLC. *)
EXTENDS TaskRunner

CONSTANTS a1, a2, manual1, daily, nothing, games, bbs
===============================================================================
