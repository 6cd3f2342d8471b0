------------------------- MODULE MCPlayerPersistence -------------------------
(* PlayerPersistence with one character and two connections, for TLC.        *)
EXTENDS PlayerPersistence
===============================================================================
