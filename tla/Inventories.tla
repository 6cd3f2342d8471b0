------------------------------ MODULE Inventories ------------------------------
(***************************************************************************)
(* The inventory of a character: in memory (domain/Inventory.cpp), where     *)
(* every slot below MaxSlot exists and an empty one holds item 0, and in     *)
(* MySQL (character_inventory), where only slots that hold something are     *)
(* rows.  Operators only: a changed inventory, or Refused when the code      *)
(* returns false and leaves what it was given alone.                         *)
(*                                                                          *)
(* One inventory type stands for the four the server keeps: the type is a    *)
(* function of the item and nothing moves between types.                     *)
(***************************************************************************)
EXTENDS Integers, Sequences, FiniteSets, SequencesExt, FiniteSetsExt

CONSTANTS
  Item,       \* the rows of the item table
  NoItem,     \* itemId 0
  MaxSlot,    \* m_maxSlot
  MaxStack    \* ItemInitData::max_stack; 1 stands for an item that is not stackable

ASSUME InventoryAssumption ==
  /\ MaxSlot \in Nat \ {0}
  /\ MaxStack \in [Item -> Nat \ {0}]
  /\ NoItem \notin Item

Slot == [item : Item \cup {NoItem}, count : Nat]
Vacant == [item |-> NoItem, count |-> 0]

\* An inventory in memory: all slots below MaxSlot, and what rows have added.
IsInventory(inv) ==
  /\ inv \in [DOMAIN inv -> Slot]
  /\ IsFiniteSet(DOMAIN inv) /\ DOMAIN inv \subseteq Nat /\ 0 .. MaxSlot - 1 \subseteq DOMAIN inv
  /\ \A s \in DOMAIN inv : inv[s].item = NoItem <=> inv[s].count = 0

\* The rows of a character.
IsRows(rows) ==
  /\ rows \in [DOMAIN rows -> [item : Item, count : Nat \ {0}]]
  /\ IsFiniteSet(DOMAIN rows) /\ DOMAIN rows \subseteq Nat

\* What stands for a change that is refused: no inventory has a slot before the first.
Refused == [s \in {-1} |-> Vacant]

\* What the constructor makes: all slots, all empty.
NewInventory == [s \in 0 .. MaxSlot - 1 |-> Vacant]

\* How many of an item a slot holds, and an inventory, in memory or in the rows.
Held(inv, i) == [s \in DOMAIN inv |-> IF inv[s].item = i THEN inv[s].count ELSE 0]
Count(inv, i) == MapThenSumSet(LAMBDA s : Held(inv, i)[s], DOMAIN inv)

HasItemBySlot(inv, s, i, n) ==
  s \in DOMAIN inv /\ inv[s].item = i /\ inv[s].count >= n

\* A slot after n pieces have left it.
Remaining(held, n) == IF held.count = n THEN Vacant ELSE [held EXCEPT !.count = @ - n]

RemoveItemBySlot(inv, s, i, n) ==
  IF ~HasItemBySlot(inv, s, i, n) THEN Refused
  ELSE [inv EXCEPT ![s] = Remaining(@, n)]

\* MoveItemSlot exchanges two slots; it does not merge stacks.
MoveItemSlot(inv, from, to) ==
  IF from = to \/ {from, to} \ DOMAIN inv # {} \/ inv[from].item = NoItem THEN Refused
  ELSE [inv EXCEPT ![from] = inv[to], ![to] = inv[from]]

-------------------------------------------------------------------------------
(* AddItem: one pass over the slots that hold the item and have room, one    *)
(* over the empty slots; "rest" is remainCount.                              *)
Smaller(m, n) == IF m < n THEN m ELSE n

FillStack(acc, s, i) ==
  LET held == acc.slots[s] IN
  IF held.item = i /\ held.count < MaxStack[i]
  THEN LET k == Smaller(MaxStack[i] - held.count, acc.rest)
       IN  [slots |-> [acc.slots EXCEPT ![s].count = @ + k], rest |-> acc.rest - k]
  ELSE acc

OpenSlot(acc, s, i) ==
  IF acc.slots[s].item = NoItem /\ acc.rest > 0
  THEN LET k == Smaller(MaxStack[i], acc.rest)
       IN  [slots |-> [acc.slots EXCEPT ![s] = [item |-> i, count |-> k]],
            rest  |-> acc.rest - k]
  ELSE acc

InOrder == [s \in 1 .. MaxSlot |-> s - 1]

Filled(inv, i, n) ==
  LET stacked == FoldLeft(LAMBDA acc, s : FillStack(acc, s, i),
                          [slots |-> inv, rest |-> n], InOrder)
  IN  FoldLeft(LAMBDA acc, s : OpenSlot(acc, s, i), stacked, InOrder)

\* Mutant: the original is filled instead of a copy.
AddItemInPlace(inv, i, n) == Filled(inv, i, n).slots

\* A copy is filled and takes the place of the original only when all fits.
AddItem(inv, i, n) ==
  LET candidate == Filled(inv, i, n)
  IN  IF candidate.rest = 0 THEN candidate.slots ELSE Refused

\* The reference: how many of an item a slot takes, and an inventory.
Free(inv, i) ==
  [s \in 0 .. MaxSlot - 1 |->
     IF inv[s].item = NoItem THEN MaxStack[i]
     ELSE IF inv[s].item = i /\ inv[s].count < MaxStack[i] THEN MaxStack[i] - inv[s].count
     ELSE 0]
Room(inv, i) == MapThenSumSet(LAMBDA s : Free(inv, i)[s], 0 .. MaxSlot - 1)

-------------------------------------------------------------------------------
(* Memory and rows.                                                          *)

\* MakeItemInfos: the rows a save writes.
ItemInfos(inv) == [s \in {x \in DOMAIN inv : inv[x].item # NoItem} |-> inv[s]]

\* LoadInventory: SetSlotItem for every row that is fetched.  A slot without
\* a row keeps what memory had in it.
SetSlotItems(inv, rows) ==
  [s \in DOMAIN inv \cup DOMAIN rows |-> IF s \in DOMAIN rows THEN rows[s] ELSE inv[s]]

\* UPDATE ... SET item_count = item_count - n WHERE slot, item and count >= n
\* must change one row.
updateInventoryItemCountMinus(rows, s, i, n) ==
  IF HasItemBySlot(rows, s, i, n) THEN [rows EXCEPT ![s].count = @ - n] ELSE Refused

\* DELETE ... WHERE slot, item and count <= 0.
DeleteInventoryItem(rows, s, i) ==
  [x \in {y \in DOMAIN rows : y = s /\ rows[y].item = i => rows[y].count > 0} |-> rows[x]]

DecreaseItem(rows, s, i, n) ==
  LET less == updateInventoryItemCountMinus(rows, s, i, n)
  IN  IF less = Refused THEN Refused ELSE DeleteInventoryItem(less, s, i)

\* ORDER BY slot_pos LIMIT 1, of the rows that hold the item, whatever their
\* stack: none, or the lowest.
SelectInventoryItemSlot(rows, i) ==
  LET held == {s \in DOMAIN rows : rows[s].item = i}
  IN  IF held = {} THEN {} ELSE {Min(held)}

UpdateInventoryItemCountPlus(rows, s, n) == [rows EXCEPT ![s].count = @ + n]

\* COALESCE(MAX(slot_pos) + 1, 0), whatever MaxSlot.
SelectNextInventorySlotPos(rows) == Max(DOMAIN rows \cup {-1}) + 1

InsertInventoryItem(rows, s, i, n) ==
  [x \in DOMAIN rows \cup {s} |-> IF x = s THEN [item |-> i, count |-> n] ELSE rows[x]]

IncreaseItem(rows, i, n) ==
  LET held == SelectInventoryItemSlot(rows, i)
  IN  IF held = {} THEN InsertInventoryItem(rows, SelectNextInventorySlotPos(rows), i, n)
      ELSE UpdateInventoryItemCountPlus(rows, CHOOSE s \in held : TRUE, n)
================================================================================
