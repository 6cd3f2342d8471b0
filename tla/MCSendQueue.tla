----------------------------- MODULE MCSendQueue -----------------------------
(* Three packets of one and two bytes, a socket buffer of two.               *)
EXTENDS SendQueue

CONSTANTS p1, p2, p3

MCPacket == {p1, p2, p3}
MCLength == [p \in MCPacket |-> IF p = p2 THEN 2 ELSE 1]
===============================================================================
