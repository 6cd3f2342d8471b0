--------------------------------- MODULE MCMaps ---------------------------------
(***************************************************************************)
(* Two characters, a village that is persistent and a cave that is not: a    *)
(* portal each way, and one in the cave that leads back into the cave.       *)
(***************************************************************************)
EXTENDS Maps, TLC

CONSTANTS ann, bea, village, cave

Portals == {<<village, cave>>, <<cave, village>>, <<cave, cave>>}
Homes == ann :> village @@ bea :> cave
================================================================================
