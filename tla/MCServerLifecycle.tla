-------------------------- MODULE MCServerLifecycle --------------------------
(* ServerLifecycle with two clients, for TLC.                                *)
EXTENDS ServerLifecycle
===============================================================================
