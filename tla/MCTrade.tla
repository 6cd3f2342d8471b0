-------------------------------- MODULE MCTrade --------------------------------
(***************************************************************************)
(* Three characters and two addresses: who logs in may get the address of    *)
(* another, or of its own past self.  Two slots, an item that stacks to two  *)
(* and one that does not stack.                                              *)
(***************************************************************************)
EXTENDS Trade, TLC

CONSTANTS ann, bea, cal, potion, sword, x1, x2, t1, t2

Stacks == potion :> 2 @@ sword :> 1
Prices == potion :> 1 @@ sword :> 2
SellPrices == potion :> 1 @@ sword :> 1
Rows == ann :> (0 :> [item |-> potion, count |-> 1])
     @@ bea :> (1 :> [item |-> sword, count |-> 1])
     @@ cal :> [s \in {} |-> Vacant]
Gold == ann :> 1 @@ bea :> 2 @@ cal :> 0
Addresses == Permutations(Address) \cup Permutations(TradeId)
================================================================================
