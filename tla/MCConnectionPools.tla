--------------------------- MODULE MCConnectionPools ---------------------------
(* ConnectionPools with more threads than MySQL slots or Redis clients.         *)
EXTENDS ConnectionPools
===============================================================================
