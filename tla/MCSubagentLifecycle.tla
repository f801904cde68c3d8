---------------------- MODULE MCSubagentLifecycle ----------------------
(* SubagentLifecycle for TLC. Agents share nothing but the order in which *)
(* their manager and registry reach them, so one agent, with every caller *)
(* that may end it, already meets every interleaving of its own.          *)
EXTENDS SubagentLifecycle
=============================================================================
