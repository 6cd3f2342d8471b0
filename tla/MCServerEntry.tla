----------------------------- MODULE MCServerEntry -----------------------------
(* ServerEntry with two accounts and two channel servers.                       *)
EXTENDS ServerEntry, TLC

CONSTANTS a1, a2, p1, p2, ch1, ch2

MCServes == (p1 :> ch1) @@ (p2 :> ch2)

Symmetric == Permutations(Account) \cup Permutations(WorldTicket)
             \cup Permutations(ChannelTicket)
===============================================================================
