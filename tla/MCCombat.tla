-------------------------------- MODULE MCCombat --------------------------------
(***************************************************************************)
(* Two characters against an archer and a boss that two hits kill.  The boss *)
(* is worth two levels at once, exactly two for bea; the archer takes ann to  *)
(* the second level, where a death costs two and she can pay for two.        *)
(***************************************************************************)
EXTENDS Combat, TLC

CONSTANTS ann, bea, archer, guardian, strike, swing

Table == <<9, 20, 0>>
Worth == archer :> 6 @@ guardian :> 29
Exps == ann :> 7 @@ bea :> 0
Costs == strike :> 0 @@ swing :> 0
================================================================================
