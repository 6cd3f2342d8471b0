------------------------------ MODULE TradeProofs ------------------------------
(***************************************************************************)
(* Proofs about Trade and Inventories for any characters, addresses, items,  *)
(* stacks, slots, prices and bounds: sessions pair their characters, AddItem *)
(* puts in all or nothing, a trade moves what both had seen, and gold is     *)
(* paid for goods.                                                           *)
(*                                                                          *)
(* The first half is about the operators: what AddItem, RemoveItemBySlot and *)
(* the statements of a trade do to the count of every item.  The second is   *)
(* about the steps: IInv is inductive, and gives those lemmas the         *)
(* inventories, rows and offers that they ask for.                           *)
(***************************************************************************)
EXTENDS Trade, FoldTheorems

-------------------------------------------------------------------------------
(* Counting what slots hold.                                                 *)

\* Something whose slots can be counted, in memory or in the rows.
Counted(inv) ==
  /\ IsFiniteSet(DOMAIN inv)
  /\ \A s \in DOMAIN inv : inv[s].count \in Nat

\* The count of an item is the sum over the slots.
LEMMA CountIsSum ==
  ASSUME NEW inv, Counted(inv), NEW i
  PROVE  /\ Held(inv, i) \in [DOMAIN inv -> Nat]
         /\ Count(inv, i) = SumOf(Held(inv, i), DOMAIN inv)
         /\ Count(inv, i) \in Nat
<1>1. Held(inv, i) \in [DOMAIN inv -> Nat]
  BY DEF Held, Counted
<1>2. Count(inv, i) = SumOf(Held(inv, i), DOMAIN inv)
  BY DEF Count, SumOf
<1>3. SumOf(Held(inv, i), DOMAIN inv) \in Nat
  BY <1>1, SumFacts DEF Counted
<1> QED
  BY <1>1, <1>2, <1>3

\* One slot is changed.
SlotChanged(inv, new, s) ==
  /\ Counted(inv) /\ Counted(new)
  /\ DOMAIN new = DOMAIN inv /\ s \in DOMAIN inv
  /\ \A x \in DOMAIN inv \ {s} : new[x] = inv[x]

\* The count of every item when one slot changes.
LEMMA CountChanged ==
  ASSUME NEW inv, NEW new, NEW s, SlotChanged(inv, new, s), NEW i
  PROVE  Count(new, i) + Held(inv, i)[s] = Count(inv, i) + Held(new, i)[s]
<1> DEFINE D == DOMAIN inv
           f == Held(inv, i)
           h == Held(new, i)
<1>1. /\ f \in [D -> Nat] /\ Count(inv, i) = SumOf(f, D)
      /\ h \in [D -> Nat] /\ Count(new, i) = SumOf(h, D)
  <2>1. Counted(inv) /\ Counted(new) /\ DOMAIN new = D
    BY DEF SlotChanged
  <2>2. /\ h \in [DOMAIN new -> Nat] /\ Count(new, i) = SumOf(h, DOMAIN new)
    BY <2>1, CountIsSum
  <2> QED
    BY <2>1, <2>2, CountIsSum
<1>2. IsFiniteSet(D) /\ s \in D /\ \A x \in D \ {s} : f[x] = h[x]
  BY DEF SlotChanged, Counted, Held
<1> HIDE DEF f, h, D
<1>3. SumOf(h, D) + f[s] = SumOf(f, D) + h[s]
  BY <1>1, <1>2, SumBut
<1> QED
  BY <1>1, <1>3 DEF f, h

\* One slot is added.
SlotAdded(inv, new, s) ==
  /\ Counted(inv) /\ Counted(new)
  /\ s \notin DOMAIN inv /\ DOMAIN new = DOMAIN inv \cup {s}
  /\ \A x \in DOMAIN inv : new[x] = inv[x]

\* The count of every item when a slot is added.
LEMMA CountAdded ==
  ASSUME NEW inv, NEW new, NEW s, SlotAdded(inv, new, s), NEW i
  PROVE  Count(new, i) = Count(inv, i) + Held(new, i)[s]
<1> DEFINE D == DOMAIN inv
           E == DOMAIN new
           f == Held(inv, i)
           h == Held(new, i)
<1>1. Counted(inv) /\ Counted(new)
  BY DEF SlotAdded
<1>2. f \in [D -> Nat] /\ Count(inv, i) = SumOf(f, D)
  BY <1>1, CountIsSum
<1>3. h \in [E -> Nat] /\ Count(new, i) = SumOf(h, E)
  BY <1>1, CountIsSum
<1>4. /\ IsFiniteSet(D) /\ IsFiniteSet(E) /\ D \in SUBSET E /\ E \ {s} = D /\ s \in E
      /\ \A x \in D : f[x] = h[x]
  BY <1>1 DEF SlotAdded, Counted, Held
<1> HIDE DEF f, h, D, E
<1>5. SumOf(f, D) = SumOf(h, D) /\ SumOf(f, D) \in Nat
  BY <1>2, <1>3, <1>4, SumSame, SumFacts
<1>6. SumOf(h, E) = h[s] + SumOf(h, E \ {s}) /\ h[s] \in Nat
  BY <1>3, <1>4, SumFacts
<1>7. SumOf(h, E \ {s}) = SumOf(f, D)
  BY <1>4, <1>5
<1>8. Count(new, i) = h[s] + Count(inv, i) /\ Count(inv, i) \in Nat
  BY <1>2, <1>3, <1>5, <1>6, <1>7
<1> QED
  BY <1>6, <1>8 DEF h

\* A slot that holds none of an item may go.
LEMMA CountRemoved ==
  ASSUME NEW inv, NEW new, NEW s, SlotAdded(new, inv, s), inv[s].count = 0, NEW i
  PROVE  Count(new, i) = Count(inv, i)
<1>1. Count(inv, i) = Count(new, i) + Held(inv, i)[s]
  BY CountAdded
<1>2. Held(inv, i)[s] = 0
  BY DEF Held, SlotAdded
<1>3. Count(new, i) \in Nat
  BY CountIsSum DEF SlotAdded
<1> QED
  BY <1>1, <1>2, <1>3

-------------------------------------------------------------------------------
(* Inventories and rows, and what changes one slot.                          *)

\* Inventories and rows can be counted.
LEMMA InventoryIsCounted == \A inv : IsInventory(inv) \/ IsRows(inv) => Counted(inv)
BY DEF IsInventory, IsRows, Counted, Slot

\* An inventory is not what stands for a refusal, and neither are rows.
LEMMA RefusedIsNone == ~IsInventory(Refused) /\ ~IsRows(Refused)
<1>1. -1 \in DOMAIN Refused /\ -1 \notin Nat
  BY DEF Refused
<1> QED
  BY <1>1 DEF IsInventory, IsRows

\* What a login makes of the rows is an inventory.
LEMMA NewInventoryIsInventory == IsInventory(NewInventory)
<1>1. DOMAIN NewInventory = 0 .. MaxSlot - 1 /\ \A s \in 0 .. MaxSlot - 1 : NewInventory[s] = Vacant
  BY DEF NewInventory
<1>2. Vacant \in Slot /\ Vacant.item = NoItem /\ Vacant.count = 0
  BY DEF Vacant, Slot
<1>3. IsFiniteSet(0 .. MaxSlot - 1) /\ 0 .. MaxSlot - 1 \subseteq Nat
  BY InventoryAssumption, FS_Interval
<1>4. NewInventory \in [DOMAIN NewInventory -> Slot]
  BY <1>2 DEF NewInventory
<1> QED
  BY <1>1, <1>2, <1>3, <1>4 DEF IsInventory

\* Rows laid over an inventory leave one.
LEMMA SetSlotItemsIsInventory ==
  ASSUME NEW inv, IsInventory(inv), NEW kept, IsRows(kept)
  PROVE  IsInventory(SetSlotItems(inv, kept))
<1> DEFINE new == SetSlotItems(inv, kept)
<1>1. /\ DOMAIN new = DOMAIN inv \cup DOMAIN kept
      /\ \A s \in DOMAIN new : new[s] = IF s \in DOMAIN kept THEN kept[s] ELSE inv[s]
      /\ new = [s \in DOMAIN new |-> new[s]]
  BY DEF SetSlotItems
<1>2. \A s \in DOMAIN kept : kept[s] \in Slot /\ kept[s].item # NoItem /\ kept[s].count # 0
  BY InventoryAssumption DEF IsRows, Slot
<1>3. IsFiniteSet(DOMAIN inv \cup DOMAIN kept)
  BY FS_Union DEF IsInventory, IsRows
<1> HIDE DEF new
<1>4. \A s \in DOMAIN new : new[s] \in Slot /\ (new[s].item = NoItem <=> new[s].count = 0)
  BY <1>1, <1>2 DEF IsInventory
<1>5. DOMAIN new \subseteq Nat /\ 0 .. MaxSlot - 1 \subseteq DOMAIN new /\ IsFiniteSet(DOMAIN new)
  BY <1>1, <1>3 DEF IsInventory, IsRows
<1>6. new \in [DOMAIN new -> Slot]
  BY <1>1, <1>4
<1>7. IsInventory(new)
  BY <1>4, <1>5, <1>6 DEF IsInventory
<1> QED
  BY <1>7 DEF new

\* A slot of an inventory is changed to another one that is well-formed.
LEMMA ChangedSlot ==
  ASSUME NEW inv, IsInventory(inv), NEW s \in DOMAIN inv, NEW r \in Slot,
         r.item = NoItem <=> r.count = 0
  PROVE  /\ IsInventory([inv EXCEPT ![s] = r])
         /\ SlotChanged(inv, [inv EXCEPT ![s] = r], s)
<1> DEFINE new == [inv EXCEPT ![s] = r]
<1>1. /\ DOMAIN new = DOMAIN inv /\ new \in [DOMAIN new -> Slot] /\ new[s] = r
      /\ \A x \in DOMAIN inv \ {s} : new[x] = inv[x]
  BY DEF IsInventory
<1> HIDE DEF new
<1>2. IsInventory(new)
  BY <1>1 DEF IsInventory
<1>3. SlotChanged(inv, new, s)
  BY <1>1, <1>2, InventoryIsCounted DEF SlotChanged
<1> QED
  BY <1>2, <1>3 DEF new

\* What is taken out of a slot is gone from it, and nothing else is.
LEMMA RemoveItemBySlotFacts ==
  ASSUME NEW inv, IsInventory(inv), NEW s, NEW i \in Item, NEW n \in Nat \ {0},
         HasItemBySlot(inv, s, i, n)
  PROVE  /\ IsInventory(RemoveItemBySlot(inv, s, i, n))
         /\ Count(RemoveItemBySlot(inv, s, i, n), i) = Count(inv, i) - n
         /\ Count(inv, i) \in Nat
         /\ \A j \in Item \ {i} : Count(RemoveItemBySlot(inv, s, i, n), j) = Count(inv, j)
<1> DEFINE r == Remaining(inv[s], n)
           new == [inv EXCEPT ![s] = r]
<1>1. /\ s \in DOMAIN inv /\ inv[s] \in Slot /\ inv[s].item = i
      /\ inv[s].count \in Nat /\ inv[s].count >= n
  BY DEF HasItemBySlot, IsInventory, Slot
<1>2. RemoveItemBySlot(inv, s, i, n) = new
  BY Zenon DEF RemoveItemBySlot
<1>3. /\ r \in Slot /\ (r.item = NoItem <=> r.count = 0)
      /\ r.count = inv[s].count - n /\ (r.item = i \/ r = Vacant)
  <2>1. i # NoItem
    BY InventoryAssumption
  <2>2. CASE inv[s].count = n
    BY <2>2, <1>1 DEF Remaining, Vacant, Slot
  <2>3. CASE inv[s].count # n
    <3>1. r = [item |-> i, count |-> inv[s].count - n]
      BY <2>3, <1>1 DEF Remaining, Slot
    <3>2. inv[s].count - n \in Nat /\ inv[s].count - n # 0
      BY <2>3, <1>1
    <3> HIDE DEF r
    <3> QED
      BY <2>1, <3>1, <3>2 DEF Slot
  <2> QED
    BY <2>2, <2>3
<1> HIDE DEF r
<1>4. IsInventory(new) /\ SlotChanged(inv, new, s) /\ new[s] = r
  BY <1>1, <1>3, ChangedSlot
<1> HIDE DEF new
<1>5. \A j \in Item : /\ Count(new, j) + Held(inv, j)[s] = Count(inv, j) + Held(new, j)[s]
                      /\ Count(inv, j) \in Nat /\ Count(new, j) \in Nat
  BY <1>4, CountChanged, CountIsSum, InventoryIsCounted
<1>6. Held(inv, i)[s] = inv[s].count /\ Held(new, i)[s] = r.count
  <2>1. s \in DOMAIN new
    BY <1>4 DEF SlotChanged
  <2>2. r.item # i => r.count = 0
    BY <1>3 DEF Vacant
  <2> QED
    BY <1>1, <1>4, <2>1, <2>2 DEF Held
<1>7. \A j \in Item \ {i} : Held(inv, j)[s] = 0 /\ Held(new, j)[s] = 0
  <2>1. s \in DOMAIN new
    BY <1>4 DEF SlotChanged
  <2>2. \A j \in Item \ {i} : r.item = j => r.count = 0
    BY <1>3 DEF Vacant
  <2> QED
    BY <1>1, <1>4, <2>1, <2>2 DEF Held
<1>8. Count(new, i) = Count(inv, i) - n
  BY <1>1, <1>3, <1>5, <1>6
<1>9. \A j \in Item \ {i} : Count(new, j) = Count(inv, j)
  BY <1>5, <1>7
<1> QED
  BY <1>2, <1>4, <1>5, <1>8, <1>9

\* Two slots change places.
LEMMA MoveItemSlotFacts ==
  ASSUME NEW inv, IsInventory(inv), NEW from, NEW to, MoveItemSlot(inv, from, to) # Refused
  PROVE  IsInventory(MoveItemSlot(inv, from, to))
<1> DEFINE new == [inv EXCEPT ![from] = inv[to], ![to] = inv[from]]
<1>1. from \in DOMAIN inv /\ to \in DOMAIN inv /\ MoveItemSlot(inv, from, to) = new
  BY DEF MoveItemSlot
<1>2. /\ DOMAIN new = DOMAIN inv /\ new = [x \in DOMAIN new |-> new[x]]
      /\ \A x \in DOMAIN new : \E y \in DOMAIN inv : new[x] = inv[y]
  BY <1>1 DEF IsInventory
<1> HIDE DEF new
<1>3. \A x \in DOMAIN new : new[x] \in Slot /\ (new[x].item = NoItem <=> new[x].count = 0)
  BY <1>2 DEF IsInventory
<1>4. new \in [DOMAIN new -> Slot]
  BY <1>2, <1>3
<1> QED
  BY <1>1, <1>2, <1>3, <1>4 DEF IsInventory

\* What a save writes are rows.
LEMMA ItemInfosAreRows ==
  ASSUME NEW inv, IsInventory(inv)
  PROVE  IsRows(ItemInfos(inv))
<1> DEFINE new == ItemInfos(inv)
           D == {x \in DOMAIN inv : inv[x].item # NoItem}
<1>1. DOMAIN new = D /\ \A s \in D : new[s] = inv[s] /\ new = [x \in D |-> inv[x]]
  BY DEF ItemInfos
<1>2. \A s \in D : inv[s] \in [item : Item, count : Nat \ {0}]
  BY DEF IsInventory, Slot
<1>3. IsFiniteSet(D) /\ D \subseteq Nat
  <2>1. D \subseteq DOMAIN inv
    OBVIOUS
  <2> HIDE DEF D
  <2> QED
    BY <2>1, FS_Subset DEF IsInventory
<1>4. new \in [D -> [item : Item, count : Nat \ {0}]]
  BY <1>2 DEF ItemInfos
<1> QED
  BY <1>1, <1>3, <1>4 DEF IsRows

-------------------------------------------------------------------------------
(* AddItem: one slot of a pass.                                              *)

\* What AddItem carries along: the slots, of which there stay the same, and what is left.
Carried(D) == [slots : [D -> Slot], rest : Nat]

\* The slots that AddItem goes through.
LEMMA InOrderFacts ==
  /\ InOrder \in Seq(0 .. MaxSlot - 1) /\ Len(InOrder) = MaxSlot
  /\ \A k \in 1 .. MaxSlot : InOrder[k] = k - 1
<1>1. MaxSlot \in Nat
  BY InventoryAssumption
<1>2. InOrder \in [1 .. MaxSlot -> 0 .. MaxSlot - 1]
  <2>1. \A k \in 1 .. MaxSlot : k - 1 \in 0 .. MaxSlot - 1
    BY <1>1
  <2> QED
    BY <2>1 DEF InOrder
<1>3. \A k \in 1 .. MaxSlot : InOrder[k] = k - 1
  BY DEF InOrder
<1> QED
  BY <1>1, <1>2, <1>3

\* How much the smaller of two numbers is.
LEMMA SmallerFacts ==
  \A m, n \in Nat : /\ Smaller(m, n) \in Nat /\ Smaller(m, n) <= m /\ Smaller(m, n) <= n
                    /\ Smaller(m, n) = m \/ Smaller(m, n) = n
BY DEF Smaller

\* One slot of the first pass.
LEMMA FillStackFacts ==
  ASSUME NEW D, NEW acc \in Carried(D), NEW s \in D, NEW i \in Item
  PROVE  /\ FillStack(acc, s, i) \in Carried(D)
         /\ FillStack(acc, s, i) = acc
            \/ \E k \in Nat \ {0} :
                 /\ acc.slots[s].item = i /\ acc.slots[s].count + k <= MaxStack[i]
                 /\ FillStack(acc, s, i).rest + k = acc.rest
                 /\ FillStack(acc, s, i).slots
                      = [acc.slots EXCEPT ![s] = [item |-> i, count |-> acc.slots[s].count + k]]
         /\ FillStack(acc, s, i).rest > 0 =>
              /\ FillStack(acc, s, i).slots[s].item = acc.slots[s].item
              /\ acc.slots[s].item = i => FillStack(acc, s, i).slots[s].count >= MaxStack[i]
<1> DEFINE held == acc.slots[s]
           k == Smaller(MaxStack[i] - held.count, acc.rest)
           new == [slots |-> [acc.slots EXCEPT ![s] = [item |-> i, count |-> held.count + k]],
                   rest |-> acc.rest - k]
<1>1. /\ acc.slots \in [D -> Slot] /\ acc.rest \in Nat /\ held \in Slot
      /\ held.count \in Nat /\ MaxStack[i] \in Nat \ {0}
  BY InventoryAssumption DEF Carried, Slot
<1>2. CASE ~(held.item = i /\ held.count < MaxStack[i])
  <2>1. FillStack(acc, s, i) = acc
    BY <1>2 DEF FillStack
  <2> HIDE DEF held, new, k
  <2> QED
    BY <1>1, <1>2, <2>1 DEF held
<1>3. CASE held.item = i /\ held.count < MaxStack[i]
  <2>1. FillStack(acc, s, i) = new
    <3>1. [acc.slots EXCEPT ![s].count = @ + k]
            = [acc.slots EXCEPT ![s] = [held EXCEPT !.count = @ + k]]
      OBVIOUS
    <3>2. [held EXCEPT !.count = @ + k] = [item |-> i, count |-> held.count + k]
      <4> HIDE DEF k, held
      <4> QED
        BY <1>1, <1>3 DEF Slot
    <3>3. FillStack(acc, s, i)
            = [slots |-> [acc.slots EXCEPT ![s].count = @ + k], rest |-> acc.rest - k]
      BY <1>3 DEF FillStack
    <3> HIDE DEF k, held
    <3> QED
      BY <3>1, <3>2, <3>3
  <2>2. /\ k \in Nat /\ held.count + k <= MaxStack[i] /\ acc.rest - k \in Nat
        /\ k = acc.rest \/ held.count + k = MaxStack[i]
    <3>1. MaxStack[i] - held.count \in Nat
      BY <1>1, <1>3
    <3>2. /\ k \in Nat /\ k <= MaxStack[i] - held.count /\ k <= acc.rest
          /\ k = MaxStack[i] - held.count \/ k = acc.rest
      BY <1>1, <3>1, SmallerFacts
    <3> HIDE DEF k, held
    <3> QED
      BY <1>1, <3>2
  <2> HIDE DEF k
  <2>3. [item |-> i, count |-> held.count + k] \in Slot /\ held.count + k \in Nat
    BY <1>1, <2>2 DEF Slot
  <2>4. new \in Carried(D)
    <3>1. [acc.slots EXCEPT ![s] = [item |-> i, count |-> held.count + k]] \in [D -> Slot]
      BY <1>1, <2>3
    <3> QED
      BY <2>2, <3>1 DEF Carried
  <2>5. new.rest + k = acc.rest /\ new.slots[s] = [item |-> i, count |-> held.count + k]
    <3>1. new.rest = acc.rest - k
      OBVIOUS
    <3>2. new.slots[s] = [item |-> i, count |-> held.count + k]
      BY <1>1
    <3> QED
      BY <1>1, <2>2, <3>1, <3>2
  <2>6. CASE k = 0
    <3>1. [item |-> i, count |-> held.count + k] = held
      <4>1. held.count + k = held.count
        BY <1>1, <2>6
      <4> HIDE DEF held
      <4> QED
        BY <1>1, <1>3, <4>1 DEF Slot
    <3>2. [acc.slots EXCEPT ![s] = held] = acc.slots
      BY <1>1
    <3>3. acc.rest - k = acc.rest
      BY <1>1, <2>6
    <3>4. acc = [slots |-> acc.slots, rest |-> acc.rest]
      BY DEF Carried
    <3>5. new = acc
      BY <3>1, <3>2, <3>3, <3>4
    <3>6. acc.rest > 0 => held.count >= MaxStack[i]
      BY <1>1, <2>2, <2>6
    <3> HIDE DEF new, held
    <3> QED
      BY <2>1, <3>5, <3>6, <1>3 DEF held
  <2>7. CASE k # 0
    <3>1. new.rest > 0 => new.slots[s].count >= MaxStack[i]
      BY <1>1, <2>2, <2>5
    <3>2. new.slots = [acc.slots EXCEPT ![s] = [item |-> i, count |-> held.count + k]]
      OBVIOUS
    <3>3. new.slots[s].item = held.item
      BY <2>5, <1>3
    <3>4. k \in Nat \ {0} /\ held.item = i /\ held.count + k <= MaxStack[i]
      BY <2>2, <2>7, <1>3
    <3> HIDE DEF new
    <3> QED
      BY <2>1, <2>4, <2>5, <3>1, <3>2, <3>3, <3>4
  <2> QED
    BY <2>6, <2>7
<1> QED
  BY <1>2, <1>3

\* One slot of the second pass.
LEMMA OpenSlotFacts ==
  ASSUME NEW D, NEW acc \in Carried(D), NEW s \in D, NEW i \in Item
  PROVE  /\ OpenSlot(acc, s, i) \in Carried(D)
         /\ OpenSlot(acc, s, i) = acc
            \/ \E k \in Nat \ {0} :
                 /\ acc.slots[s].item = NoItem /\ k <= MaxStack[i]
                 /\ OpenSlot(acc, s, i).rest + k = acc.rest
                 /\ OpenSlot(acc, s, i).slots
                      = [acc.slots EXCEPT ![s] = [item |-> i, count |-> k]]
         /\ OpenSlot(acc, s, i).rest > 0 =>
              /\ OpenSlot(acc, s, i).slots[s].item # NoItem
              /\ acc.slots[s].item = NoItem => OpenSlot(acc, s, i).slots[s].count >= MaxStack[i]
<1> DEFINE held == acc.slots[s]
           k == Smaller(MaxStack[i], acc.rest)
           new == [slots |-> [acc.slots EXCEPT ![s] = [item |-> i, count |-> k]],
                   rest |-> acc.rest - k]
<1>1. /\ acc.slots \in [D -> Slot] /\ acc.rest \in Nat /\ held \in Slot
      /\ held.count \in Nat /\ MaxStack[i] \in Nat \ {0} /\ i # NoItem
  BY InventoryAssumption DEF Carried, Slot
<1>2. CASE ~(held.item = NoItem /\ acc.rest > 0)
  <2>1. OpenSlot(acc, s, i) = acc
    BY <1>2 DEF OpenSlot
  <2> HIDE DEF held, new, k
  <2> QED
    BY <1>1, <1>2, <2>1 DEF held
<1>3. CASE held.item = NoItem /\ acc.rest > 0
  <2>1. OpenSlot(acc, s, i) = new
    BY <1>3 DEF OpenSlot
  <2>2. /\ k \in Nat \ {0} /\ k <= MaxStack[i] /\ acc.rest - k \in Nat
        /\ k = acc.rest \/ k = MaxStack[i]
    <3>1. /\ k \in Nat /\ k <= MaxStack[i] /\ k <= acc.rest
          /\ k = MaxStack[i] \/ k = acc.rest
      BY <1>1, SmallerFacts
    <3> HIDE DEF k, held
    <3> QED
      BY <1>1, <1>3, <3>1
  <2> HIDE DEF k
  <2>3. [item |-> i, count |-> k] \in Slot
    BY <2>2 DEF Slot
  <2>4. new \in Carried(D)
    <3>1. [acc.slots EXCEPT ![s] = [item |-> i, count |-> k]] \in [D -> Slot]
      BY <1>1, <2>3
    <3> QED
      BY <2>2, <3>1 DEF Carried
  <2>5. /\ new.rest + k = acc.rest /\ new.slots[s] = [item |-> i, count |-> k]
        /\ new.slots = [acc.slots EXCEPT ![s] = [item |-> i, count |-> k]]
    <3>1. new.rest = acc.rest - k
      OBVIOUS
    <3>2. new.slots[s] = [item |-> i, count |-> k]
      BY <1>1
    <3> QED
      BY <1>1, <2>2, <3>1, <3>2
  <2>6. new.rest > 0 => new.slots[s].count >= MaxStack[i]
    BY <1>1, <2>2, <2>5
  <2>7. new.slots[s].item # NoItem
    BY <1>1, <2>5
  <2> HIDE DEF new
  <2> QED
    BY <1>3, <2>1, <2>2, <2>4, <2>5, <2>6, <2>7
<1> QED
  BY <1>2, <1>3

-------------------------------------------------------------------------------
(* AddItem: a pass as a chain of slots.                                      *)

\* The two passes of AddItem.
Stacked(base, i) == FoldLeft(LAMBDA acc, s : FillStack(acc, s, i), base, InOrder)
Opened(base, i) == FoldLeft(LAMBDA acc, s : OpenSlot(acc, s, i), base, InOrder)

\* The first pass of AddItem, slot by slot.
LEMMA FillStackFold ==
  ASSUME NEW D, 0 .. MaxSlot - 1 \subseteq D, NEW base \in Carried(D), NEW i \in Item
  PROVE  \E F : /\ F \in [0 .. MaxSlot -> Carried(D)] /\ F[0] = base
                /\ \A k \in 1 .. MaxSlot : F[k] = FillStack(F[k - 1], k - 1, i)
                /\ F[MaxSlot] = Stacked(base, i)
<1> DEFINE A == Carried(D)
           B == 0 .. MaxSlot - 1
           g == [x \in A \X B |-> FillStack(x[1], x[2], i)]
           S == SUBSET DOMAIN InOrder
           Eq(e) == e = [T \in S |->
             IF T = {} THEN base
             ELSE LET x == Max(T) IN FillStack(e[T \ {x}], InOrder[x], i)]
           all == Stacked(base, i)
<1>1. g \in [A \X B -> A]
  <2>1. \A x \in A \X B : FillStack(x[1], x[2], i) \in A
    BY FillStackFacts
  <2> QED
    BY <2>1
<1>2. /\ InOrder \in Seq(B) /\ Len(InOrder) = MaxSlot /\ DOMAIN InOrder = 1 .. MaxSlot
      /\ \A k \in 1 .. MaxSlot : InOrder[k] = k - 1 /\ InOrder[k] \in B
  BY InOrderFacts, InventoryAssumption
<1>3. all = (CHOOSE e : Eq(e))[DOMAIN InOrder]
  BY DEF Stacked, FoldLeft, MapThenFoldSet
<1> HIDE DEF A, B, all
<1>4. PICK h : IsFoldLeft(h, InOrder, A, base, g)
  <2>1. base \in A
    BY DEF A
  <2> HIDE DEF g
  <2> QED
    BY <1>1, <1>2, <2>1, FoldLeftExists
<1>5. \A T \in S : T # {} => /\ Max(T) = Greatest(T) /\ Greatest(T) \in 1 .. MaxSlot
                               /\ InOrder[Greatest(T)] \in B
  <2>1. IsFiniteSet(DOMAIN InOrder) /\ DOMAIN InOrder \subseteq Int
    BY <1>2, InventoryAssumption, FS_Interval
  <2> QED
    BY <1>2, <2>1, GreatestExists DEF Max, Greatest
<1>6. Eq(h)
  <2> DEFINE e == [T \in S |->
               IF T = {} THEN base
               ELSE LET x == Max(T) IN FillStack(h[T \ {x}], InOrder[x], i)]
  <2>1. ASSUME NEW T \in S PROVE h[T] = e[T]
    <3>1. CASE T = {}
      BY <1>4, <3>1 DEF IsFoldLeft
    <3>2. CASE T # {}
      <4>1. h[T \ {Max(T)}] \in A /\ InOrder[Max(T)] \in B
        BY <1>4, <1>5, <3>2 DEF IsFoldLeft
      <4>2. h[T] = g[<<h[T \ {Max(T)}], InOrder[Max(T)]>>]
        BY <1>4, <1>5, <3>2 DEF IsFoldLeft
      <4> QED
        BY <3>2, <4>1, <4>2
    <3> QED
      BY <3>1, <3>2
  <2>2. h = [T \in S |-> h[T]] /\ e = [T \in S |-> e[T]]
    BY <1>4 DEF IsFoldLeft
  <2>3. h = e
    <3> HIDE DEF e
    <3> QED
      BY <2>1, <2>2
  <2> QED
    BY <2>3
<1>7. PICK e : Eq(e) /\ all = e[DOMAIN InOrder]
  <2> HIDE DEF Eq
  <2> QED
    BY <1>3, <1>6
<1>8. e[{}] = base
  BY <1>7
<1>9. ASSUME NEW T \in S, T # {}, e[T \ {Greatest(T)}] \in A
      PROVE  e[T] = g[<<e[T \ {Greatest(T)}], InOrder[Greatest(T)]>>]
  <2>1. e[T] = FillStack(e[T \ {Greatest(T)}], InOrder[Greatest(T)], i)
    BY <1>5, <1>7, <1>9
  <2> QED
    BY <1>5, <1>9, <2>1
<1>10. PICK F : IsChain(F, InOrder, A, base, g, e[DOMAIN InOrder])
  <2>1. base \in A
    BY DEF A
  <2> HIDE DEF g, Eq
  <2>2. FoldsLeft(e, InOrder, A, base, g)
    BY <1>8, <1>9 DEF FoldsLeft
  <2> QED
    BY <1>1, <1>2, <2>1, <2>2, FoldLeftChain
<1>11. ASSUME NEW k \in 1 .. MaxSlot PROVE F[k] = FillStack(F[k - 1], k - 1, i)
  <2>1. F[k - 1] \in A /\ InOrder[k] \in B /\ InOrder[k] = k - 1
    BY <1>2, <1>10 DEF IsChain
  <2>2. F[k] = g[<<F[k - 1], InOrder[k]>>]
    BY <1>2, <1>10 DEF IsChain
  <2> QED
    BY <2>1, <2>2
<1>12. F \in [0 .. MaxSlot -> A] /\ F[0] = base /\ F[MaxSlot] = all
  BY <1>2, <1>7, <1>10 DEF IsChain
<1> QED
  BY <1>11, <1>12 DEF A, all

\* The second pass of AddItem, slot by slot.
LEMMA OpenSlotFold ==
  ASSUME NEW D, 0 .. MaxSlot - 1 \subseteq D, NEW base \in Carried(D), NEW i \in Item
  PROVE  \E F : /\ F \in [0 .. MaxSlot -> Carried(D)] /\ F[0] = base
                /\ \A k \in 1 .. MaxSlot : F[k] = OpenSlot(F[k - 1], k - 1, i)
                /\ F[MaxSlot] = Opened(base, i)
<1> DEFINE A == Carried(D)
           B == 0 .. MaxSlot - 1
           g == [x \in A \X B |-> OpenSlot(x[1], x[2], i)]
           S == SUBSET DOMAIN InOrder
           Eq(e) == e = [T \in S |->
             IF T = {} THEN base
             ELSE LET x == Max(T) IN OpenSlot(e[T \ {x}], InOrder[x], i)]
           all == Opened(base, i)
<1>1. g \in [A \X B -> A]
  <2>1. \A x \in A \X B : OpenSlot(x[1], x[2], i) \in A
    BY OpenSlotFacts
  <2> QED
    BY <2>1
<1>2. /\ InOrder \in Seq(B) /\ Len(InOrder) = MaxSlot /\ DOMAIN InOrder = 1 .. MaxSlot
      /\ \A k \in 1 .. MaxSlot : InOrder[k] = k - 1 /\ InOrder[k] \in B
  BY InOrderFacts, InventoryAssumption
<1>3. all = (CHOOSE e : Eq(e))[DOMAIN InOrder]
  BY DEF Opened, FoldLeft, MapThenFoldSet
<1> HIDE DEF A, B, all
<1>4. PICK h : IsFoldLeft(h, InOrder, A, base, g)
  <2>1. base \in A
    BY DEF A
  <2> HIDE DEF g
  <2> QED
    BY <1>1, <1>2, <2>1, FoldLeftExists
<1>5. \A T \in S : T # {} => /\ Max(T) = Greatest(T) /\ Greatest(T) \in 1 .. MaxSlot
                               /\ InOrder[Greatest(T)] \in B
  <2>1. IsFiniteSet(DOMAIN InOrder) /\ DOMAIN InOrder \subseteq Int
    BY <1>2, InventoryAssumption, FS_Interval
  <2> QED
    BY <1>2, <2>1, GreatestExists DEF Max, Greatest
<1>6. Eq(h)
  <2> DEFINE e == [T \in S |->
               IF T = {} THEN base
               ELSE LET x == Max(T) IN OpenSlot(h[T \ {x}], InOrder[x], i)]
  <2>1. ASSUME NEW T \in S PROVE h[T] = e[T]
    <3>1. CASE T = {}
      BY <1>4, <3>1 DEF IsFoldLeft
    <3>2. CASE T # {}
      <4>1. h[T \ {Max(T)}] \in A /\ InOrder[Max(T)] \in B
        BY <1>4, <1>5, <3>2 DEF IsFoldLeft
      <4>2. h[T] = g[<<h[T \ {Max(T)}], InOrder[Max(T)]>>]
        BY <1>4, <1>5, <3>2 DEF IsFoldLeft
      <4> QED
        BY <3>2, <4>1, <4>2
    <3> QED
      BY <3>1, <3>2
  <2>2. h = [T \in S |-> h[T]] /\ e = [T \in S |-> e[T]]
    BY <1>4 DEF IsFoldLeft
  <2>3. h = e
    <3> HIDE DEF e
    <3> QED
      BY <2>1, <2>2
  <2> QED
    BY <2>3
<1>7. PICK e : Eq(e) /\ all = e[DOMAIN InOrder]
  <2> HIDE DEF Eq
  <2> QED
    BY <1>3, <1>6
<1>8. e[{}] = base
  BY <1>7
<1>9. ASSUME NEW T \in S, T # {}, e[T \ {Greatest(T)}] \in A
      PROVE  e[T] = g[<<e[T \ {Greatest(T)}], InOrder[Greatest(T)]>>]
  <2>1. e[T] = OpenSlot(e[T \ {Greatest(T)}], InOrder[Greatest(T)], i)
    BY <1>5, <1>7, <1>9
  <2> QED
    BY <1>5, <1>9, <2>1
<1>10. PICK F : IsChain(F, InOrder, A, base, g, e[DOMAIN InOrder])
  <2>1. base \in A
    BY DEF A
  <2> HIDE DEF g, Eq
  <2>2. FoldsLeft(e, InOrder, A, base, g)
    BY <1>8, <1>9 DEF FoldsLeft
  <2> QED
    BY <1>1, <1>2, <2>1, <2>2, FoldLeftChain
<1>11. ASSUME NEW k \in 1 .. MaxSlot PROVE F[k] = OpenSlot(F[k - 1], k - 1, i)
  <2>1. F[k - 1] \in A /\ InOrder[k] \in B /\ InOrder[k] = k - 1
    BY <1>2, <1>10 DEF IsChain
  <2>2. F[k] = g[<<F[k - 1], InOrder[k]>>]
    BY <1>2, <1>10 DEF IsChain
  <2> QED
    BY <2>1, <2>2
<1>12. F \in [0 .. MaxSlot -> A] /\ F[0] = base /\ F[MaxSlot] = all
  BY <1>2, <1>7, <1>10 DEF IsChain
<1> QED
  BY <1>11, <1>12 DEF A, all

-------------------------------------------------------------------------------
(* AddItem: the room, and what a pass keeps.                                 *)

\* The room for an item is the sum of what each slot takes.
LEMMA RoomIsSum ==
  ASSUME NEW inv, IsInventory(inv), NEW i \in Item
  PROVE  /\ Free(inv, i) \in [0 .. MaxSlot - 1 -> Nat]
         /\ IsFiniteSet(0 .. MaxSlot - 1)
         /\ Room(inv, i) = SumOf(Free(inv, i), 0 .. MaxSlot - 1)
         /\ Room(inv, i) \in Nat
<1>1. Free(inv, i) \in [0 .. MaxSlot - 1 -> Nat]
  <2>1. \A s \in 0 .. MaxSlot - 1 : inv[s] \in Slot /\ inv[s].count \in Nat
    BY DEF IsInventory, Slot
  <2>2. MaxStack[i] \in Nat
    BY InventoryAssumption
  <2> QED
    BY <2>1, <2>2 DEF Free
<1>2. IsFiniteSet(0 .. MaxSlot - 1)
  BY InventoryAssumption, FS_Interval
<1>3. Room(inv, i) = SumOf(Free(inv, i), 0 .. MaxSlot - 1)
  BY DEF Room, SumOf
<1>4. SumOf(Free(inv, i), 0 .. MaxSlot - 1) \in Nat
  BY <1>1, <1>2, SumFacts
<1> QED
  BY <1>1, <1>2, <1>3, <1>4

\* What AddItem has done when rest pieces are left: what has been added is counted, is
\* missing in the room, and is where the item was or nothing was.
Adds(acc, inv, i, n) ==
  /\ acc \in Carried(DOMAIN inv) /\ IsInventory(acc.slots)
  /\ Count(acc.slots, i) + acc.rest = Count(inv, i) + n
  /\ Room(acc.slots, i) + n = Room(inv, i) + acc.rest
  /\ \A j \in Item \ {i} : Count(acc.slots, j) = Count(inv, j)
  /\ \A s \in DOMAIN inv : acc.slots[s] # inv[s] =>
       acc.slots[s].item = i /\ acc.slots[s].count <= MaxStack[i]

\* Two inventories that differ in one slot differ by it in what they have room for.
LEMMA RoomOfOneSlot ==
  ASSUME NEW old, IsInventory(old), NEW slots, IsInventory(slots), NEW i \in Item
  PROVE  \A s \in 0 .. MaxSlot - 1 :
           /\ Free(old, i)[s] \in Nat /\ Free(slots, i)[s] \in Nat
           /\ (\A x \in 0 .. MaxSlot - 1 : x # s => slots[x] = old[x]) =>
                Room(slots, i) + Free(old, i)[s] = Room(old, i) + Free(slots, i)[s]
<1> DEFINE f == Free(old, i)
           h == Free(slots, i)
           S == 0 .. MaxSlot - 1
<1>1. /\ f \in [S -> Nat] /\ Room(old, i) = SumOf(f, S)
      /\ h \in [S -> Nat] /\ Room(slots, i) = SumOf(h, S) /\ IsFiniteSet(S)
  BY RoomIsSum
<1>2. \A x \in S : slots[x] = old[x] => f[x] = h[x]
  BY DEF Free
<1> HIDE DEF f, h, S
<1>3. ASSUME NEW s \in S, \A x \in S : x # s => slots[x] = old[x]
      PROVE  SumOf(h, S) + f[s] = SumOf(f, S) + h[s]
  BY <1>1, <1>2, <1>3, SumBut
<1>4. \A s \in S :
        /\ f[s] \in Nat /\ h[s] \in Nat
        /\ (\A x \in S : x # s => slots[x] = old[x]) =>
             Room(slots, i) + f[s] = Room(old, i) + h[s]
  BY <1>1, <1>3
<1> QED
  BY <1>4 DEF f, h, S

\* Some of it is put into one more slot.
LEMMA AddsMore ==
  ASSUME NEW inv, IsInventory(inv), NEW i \in Item, NEW n \in Nat,
         NEW acc, Adds(acc, inv, i, n), NEW new \in Carried(DOMAIN inv),
         NEW s \in 0 .. MaxSlot - 1, NEW k \in Nat \ {0},
         acc.slots[s].item \in {i, NoItem}, acc.slots[s].count + k <= MaxStack[i],
         new.rest + k = acc.rest,
         new.slots = [acc.slots EXCEPT ![s] = [item |-> i, count |-> acc.slots[s].count + k]]
  PROVE  Adds(new, inv, i, n)
<1> DEFINE old == acc.slots
           slots == new.slots
           c == old[s].count + k
           r == [item |-> i, count |-> c]
<1>1. /\ IsInventory(old) /\ old \in [DOMAIN inv -> Slot] /\ s \in DOMAIN inv
      /\ DOMAIN old = DOMAIN inv /\ acc.rest \in Nat /\ new.rest \in Nat
  BY DEF Adds, Carried, IsInventory
<1>2. /\ old[s].count \in Nat /\ c \in Nat \ {0} /\ MaxStack[i] \in Nat /\ i # NoItem
      /\ c <= MaxStack[i] /\ (old[s].item = NoItem => old[s].count = 0)
  BY <1>1, InventoryAssumption DEF IsInventory, Slot
<1>3. r \in Slot /\ (r.item = NoItem <=> r.count = 0)
  BY <1>2 DEF Slot
<1>4. /\ IsInventory(slots) /\ SlotChanged(old, slots, s) /\ slots[s] = r
      /\ \A x \in DOMAIN inv \ {s} : slots[x] = old[x]
  <2> HIDE DEF r, c, old
  <2>1. slots = [old EXCEPT ![s] = r]
    BY DEF r, c, old
  <2>2. IsInventory(slots) /\ SlotChanged(old, slots, s)
    <3>1. s \in DOMAIN old
      BY <1>1
    <3>2. IsInventory([old EXCEPT ![s] = r]) /\ SlotChanged(old, [old EXCEPT ![s] = r], s)
      BY <1>1, <1>3, <3>1, ChangedSlot
    <3> QED
      BY <2>1, <3>2
  <2>3. slots[s] = r /\ \A x \in DOMAIN inv \ {s} : slots[x] = old[x]
    BY <1>1, <2>1
  <2> QED
    BY <2>2, <2>3
<1>5. \A j \in Item : /\ Count(slots, j) + Held(old, j)[s] = Count(old, j) + Held(slots, j)[s]
                      /\ Count(slots, j) \in Nat /\ Count(old, j) \in Nat
                      /\ Count(inv, j) \in Nat
  BY <1>1, <1>4, CountChanged, CountIsSum, InventoryIsCounted
<1>6. /\ s \in DOMAIN slots /\ s \in DOMAIN old
  BY <1>1, <1>4 DEF SlotChanged
<1>7. Held(slots, i)[s] = Held(old, i)[s] + k
  <2>1. Held(slots, i)[s] = c
    BY <1>4, <1>6 DEF Held
  <2>2. Held(old, i)[s] = old[s].count
    BY <1>2, <1>6 DEF Held
  <2> QED
    BY <2>1, <2>2
<1>8. \A j \in Item \ {i} : Held(slots, j)[s] = 0 /\ Held(old, j)[s] = 0
  <2>1. \A j \in Item \ {i} : j # NoItem
    BY InventoryAssumption
  <2> QED
    BY <1>4, <1>6, <2>1 DEF Held
<1>9. Free(slots, i)[s] + k = Free(old, i)[s]
  <2>1. Free(slots, i)[s] = MaxStack[i] - c
    <3>1. Free(slots, i)[s] = IF c < MaxStack[i] THEN MaxStack[i] - c ELSE 0
      BY <1>2, <1>4 DEF Free
    <3>2. ~(c < MaxStack[i]) => MaxStack[i] - c = 0
      BY <1>2
    <3> QED
      BY <3>1, <3>2
  <2>2. Free(old, i)[s] = MaxStack[i] - old[s].count
    <3>1. old[s].count < MaxStack[i]
      BY <1>2
    <3>2. CASE old[s].item = NoItem
      <4>1. Free(old, i)[s] = MaxStack[i] /\ old[s].count = 0
        BY <3>2, <1>2 DEF Free
      <4> QED
        BY <4>1, <1>2
    <3>3. CASE old[s].item = i
      BY <3>1, <3>3, <1>2 DEF Free
    <3> QED
      BY <3>2, <3>3
  <2> QED
    BY <1>2, <2>1, <2>2
<1>10. /\ Room(slots, i) + Free(old, i)[s] = Room(old, i) + Free(slots, i)[s]
       /\ Room(slots, i) \in Nat /\ Room(old, i) \in Nat /\ Room(inv, i) \in Nat
       /\ Free(old, i)[s] \in Nat /\ Free(slots, i)[s] \in Nat
  <2>1. IsInventory(old) /\ IsInventory(slots)
    BY <1>1, <1>4
  <2>2. \A x \in 0 .. MaxSlot - 1 : x # s => slots[x] = old[x]
    BY <1>4 DEF IsInventory
  <2>3. /\ Free(old, i)[s] \in Nat /\ Free(slots, i)[s] \in Nat
        /\ Room(slots, i) + Free(old, i)[s] = Room(old, i) + Free(slots, i)[s]
    <3> HIDE DEF old, slots
    <3> QED
      BY <2>1, <2>2, RoomOfOneSlot
  <2>4. Room(slots, i) \in Nat /\ Room(old, i) \in Nat /\ Room(inv, i) \in Nat
    BY <2>1, RoomIsSum
  <2> QED
    BY <2>3, <2>4
<1>11. Count(slots, i) + new.rest = Count(inv, i) + n
  <2>1. Count(old, i) + acc.rest = Count(inv, i) + n
    BY DEF Adds
  <2>2. Held(old, i)[s] \in Nat
    BY <1>2, <1>6 DEF Held
  <2>3. Count(slots, i) = Count(old, i) + k
    BY <1>5, <1>7, <2>2
  <2> HIDE DEF old, slots
  <2> QED
    BY <1>1, <1>5, <2>1, <2>3
<1>12. Room(slots, i) + n = Room(inv, i) + new.rest
  <2>1. Room(old, i) + n = Room(inv, i) + acc.rest
    BY DEF Adds
  <2>2. Room(slots, i) + k = Room(old, i)
    BY <1>9, <1>10
  <2> HIDE DEF old, slots
  <2> QED
    BY <1>1, <1>10, <2>1, <2>2
<1>13. \A j \in Item \ {i} : Count(slots, j) = Count(inv, j)
  <2>1. \A j \in Item \ {i} : Count(old, j) = Count(inv, j)
    BY DEF Adds
  <2> HIDE DEF old, slots
  <2> QED
    BY <1>5, <1>8, <2>1
<1>14. \A x \in DOMAIN inv : slots[x] # inv[x] =>
         slots[x].item = i /\ slots[x].count <= MaxStack[i]
  <2>1. \A x \in DOMAIN inv : old[x] # inv[x] =>
          old[x].item = i /\ old[x].count <= MaxStack[i]
    BY DEF Adds
  <2>2. slots[s].item = i /\ slots[s].count <= MaxStack[i]
    BY <1>2, <1>4
  <2> QED
    BY <1>4, <2>1, <2>2
<1> QED
  BY <1>4, <1>11, <1>12, <1>13, <1>14 DEF Adds

-------------------------------------------------------------------------------
(* AddItem: the two passes.                                                  *)

\* The stacks of an item below slot m are full; the slots below m hold something.
Full(slots, i, m) ==
  \A s \in 0 .. MaxSlot - 1 : s < m /\ slots[s].item = i => slots[s].count >= MaxStack[i]
Taken(slots, m) == \A s \in 0 .. MaxSlot - 1 : s < m => slots[s].item # NoItem

\* One slot of either pass.
LEMMA PassStep ==
  ASSUME NEW inv, IsInventory(inv), NEW i \in Item, NEW n \in Nat,
         NEW acc, Adds(acc, inv, i, n), NEW s \in 0 .. MaxSlot - 1
  PROVE  /\ Adds(FillStack(acc, s, i), inv, i, n)
         /\ (acc.rest > 0 => Full(acc.slots, i, s)) =>
              (FillStack(acc, s, i).rest > 0 => Full(FillStack(acc, s, i).slots, i, s + 1))
         /\ Adds(OpenSlot(acc, s, i), inv, i, n)
         /\ (acc.rest > 0 => Full(acc.slots, i, MaxSlot) /\ Taken(acc.slots, s)) =>
              (OpenSlot(acc, s, i).rest > 0 =>
                 /\ Full(OpenSlot(acc, s, i).slots, i, MaxSlot)
                 /\ Taken(OpenSlot(acc, s, i).slots, s + 1))
<1> DEFINE D == DOMAIN inv
           filled == FillStack(acc, s, i)
           opened == OpenSlot(acc, s, i)
<1>1. acc \in Carried(D) /\ s \in D /\ MaxSlot \in Nat /\ s \in Nat /\ s < MaxSlot
  BY InventoryAssumption DEF Adds, IsInventory
<1>2. /\ acc.slots \in [D -> Slot] /\ acc.rest \in Nat /\ acc.slots[s].count \in Nat
      /\ \A x \in 0 .. MaxSlot - 1 : x \in D /\ x \in Nat
      /\ i # NoItem /\ MaxStack[i] \in Nat
      /\ acc.slots[s].item = NoItem => acc.slots[s].count = 0
  BY <1>1, InventoryAssumption DEF Carried, Slot, IsInventory, Adds
<1>3. /\ filled \in Carried(D)
      /\ filled = acc
         \/ \E k \in Nat \ {0} :
              /\ acc.slots[s].item = i /\ acc.slots[s].count + k <= MaxStack[i]
              /\ filled.rest + k = acc.rest
              /\ filled.slots
                   = [acc.slots EXCEPT ![s] = [item |-> i, count |-> acc.slots[s].count + k]]
      /\ filled.rest > 0 =>
           /\ filled.slots[s].item = acc.slots[s].item
           /\ acc.slots[s].item = i => filled.slots[s].count >= MaxStack[i]
  BY <1>1, FillStackFacts
<1>4. /\ opened \in Carried(D)
      /\ opened = acc
         \/ \E k \in Nat \ {0} :
              /\ acc.slots[s].item = NoItem /\ k <= MaxStack[i]
              /\ opened.rest + k = acc.rest
              /\ opened.slots = [acc.slots EXCEPT ![s] = [item |-> i, count |-> k]]
      /\ opened.rest > 0 =>
           /\ opened.slots[s].item # NoItem
           /\ acc.slots[s].item = NoItem => opened.slots[s].count >= MaxStack[i]
  BY <1>1, OpenSlotFacts
<1> HIDE DEF filled, opened, D
<1>5. Adds(filled, inv, i, n)
  <2>1. CASE filled = acc
    BY <2>1
  <2>2. CASE filled # acc
    <3>1. PICK k \in Nat \ {0} :
              /\ acc.slots[s].item = i /\ acc.slots[s].count + k <= MaxStack[i]
              /\ filled.rest + k = acc.rest
              /\ filled.slots
                   = [acc.slots EXCEPT ![s] = [item |-> i, count |-> acc.slots[s].count + k]]
      BY <1>3, <2>2
    <3> QED
      BY <1>3, <3>1, AddsMore DEF D
  <2> QED
    BY <2>1, <2>2
<1>6. Adds(opened, inv, i, n)
  <2>1. CASE opened = acc
    BY <2>1
  <2>2. CASE opened # acc
    <3>1. PICK k \in Nat \ {0} :
              /\ acc.slots[s].item = NoItem /\ k <= MaxStack[i]
              /\ opened.rest + k = acc.rest
              /\ opened.slots = [acc.slots EXCEPT ![s] = [item |-> i, count |-> k]]
      BY <1>4, <2>2
    <3>2. acc.slots[s].count + k = k
      BY <1>2, <3>1
    <3> QED
      BY <1>4, <3>1, <3>2, AddsMore DEF D
  <2> QED
    BY <2>1, <2>2
<1>7. /\ filled.rest > 0 => acc.rest > 0
      /\ \A x \in D \ {s} : filled.slots[x] = acc.slots[x]
  <2>1. CASE filled = acc
    BY <2>1
  <2>2. CASE filled # acc
    <3>1. PICK k \in Nat \ {0} :
              /\ filled.rest + k = acc.rest
              /\ filled.slots
                   = [acc.slots EXCEPT ![s] = [item |-> i, count |-> acc.slots[s].count + k]]
      BY <1>3, <2>2
    <3>2. filled.rest \in Nat
      BY <1>3 DEF Carried
    <3>3. filled.rest > 0 => acc.rest > 0
      BY <1>2, <3>1, <3>2
    <3> QED
      BY <1>2, <3>1, <3>3
  <2> QED
    BY <2>1, <2>2
<1>8. /\ opened.rest > 0 => acc.rest > 0
      /\ \A x \in D \ {s} : opened.slots[x] = acc.slots[x]
      /\ opened.rest > 0 /\ opened.slots[s].item = i =>
           \/ acc.slots[s].item = i /\ opened.slots[s] = acc.slots[s]
           \/ acc.slots[s].item = NoItem
  <2>1. CASE opened = acc
    BY <2>1
  <2>2. CASE opened # acc
    <3>1. PICK k \in Nat \ {0} :
              /\ acc.slots[s].item = NoItem /\ opened.rest + k = acc.rest
              /\ opened.slots = [acc.slots EXCEPT ![s] = [item |-> i, count |-> k]]
      BY <1>4, <2>2
    <3>2. opened.rest \in Nat
      BY <1>4 DEF Carried
    <3>3. opened.rest > 0 => acc.rest > 0
      BY <1>2, <3>1, <3>2
    <3> QED
      BY <1>2, <3>1, <3>3
  <2> QED
    BY <2>1, <2>2
<1>9. ASSUME acc.rest > 0 => Full(acc.slots, i, s), filled.rest > 0
      PROVE  Full(filled.slots, i, s + 1)
  <2> SUFFICES ASSUME NEW x \in 0 .. MaxSlot - 1, x < s + 1, filled.slots[x].item = i
               PROVE  filled.slots[x].count >= MaxStack[i]
    BY DEF Full
  <2>1. CASE x = s
    BY <1>3, <1>9, <2>1
  <2>2. CASE x # s
    <3>1. x < s /\ x \in D \ {s}
      BY <1>1, <1>2, <2>2
    <3>2. filled.slots[x] = acc.slots[x] /\ Full(acc.slots, i, s)
      BY <1>7, <1>9, <3>1
    <3> QED
      BY <3>1, <3>2 DEF Full
  <2> QED
    BY <2>1, <2>2
<1>10. ASSUME acc.rest > 0 => Full(acc.slots, i, MaxSlot) /\ Taken(acc.slots, s), opened.rest > 0
       PROVE  Full(opened.slots, i, MaxSlot) /\ Taken(opened.slots, s + 1)
  <2>1. Full(acc.slots, i, MaxSlot) /\ Taken(acc.slots, s)
    BY <1>8, <1>10
  <2>2. Full(opened.slots, i, MaxSlot)
    <3> SUFFICES ASSUME NEW x \in 0 .. MaxSlot - 1, opened.slots[x].item = i
                 PROVE  opened.slots[x].count >= MaxStack[i]
      BY DEF Full
    <3>1. CASE x = s
      BY <1>1, <1>4, <1>8, <1>10, <2>1, <3>1 DEF Full
    <3>2. CASE x # s
      <4>1. opened.slots[x] = acc.slots[x] /\ x < MaxSlot
        BY <1>1, <1>2, <1>8, <3>2
      <4> QED
        BY <2>1, <4>1 DEF Full
    <3> QED
      BY <3>1, <3>2
  <2>3. Taken(opened.slots, s + 1)
    <3> SUFFICES ASSUME NEW x \in 0 .. MaxSlot - 1, x < s + 1
                 PROVE  opened.slots[x].item # NoItem
      BY DEF Taken
    <3>1. CASE x = s
      BY <1>4, <1>10, <3>1
    <3>2. CASE x # s
      <4>1. x < s /\ opened.slots[x] = acc.slots[x]
        BY <1>1, <1>2, <1>8, <3>2
      <4> QED
        BY <2>1, <4>1 DEF Taken
    <3> QED
      BY <3>1, <3>2
  <2> QED
    BY <2>2, <2>3
<1> QED
  BY <1>5, <1>6, <1>9, <1>10 DEF filled, opened

\* Both passes: what does not fit is left, and then no slot takes any more of it.
LEMMA FilledFacts ==
  ASSUME NEW inv, IsInventory(inv), NEW i \in Item, NEW n \in Nat
  PROVE  /\ Adds(Filled(inv, i, n), inv, i, n)
         /\ Filled(inv, i, n).rest > 0 => Room(Filled(inv, i, n).slots, i) = 0
<1> DEFINE D == DOMAIN inv
           base == [slots |-> inv, rest |-> n]
           stacked == Stacked(base, i)
           filled == Opened(stacked, i)
<1>1. Filled(inv, i, n) = filled
  BY DEF Filled, Stacked, Opened
<1>2. 0 .. MaxSlot - 1 \subseteq D /\ MaxSlot \in Nat \ {0}
  BY InventoryAssumption DEF IsInventory
<1>3. Adds(base, inv, i, n)
  <2>1. base.slots = inv /\ base.rest = n /\ base \in Carried(D)
    BY DEF Carried, IsInventory
  <2>2. /\ Count(inv, i) \in Nat /\ Room(inv, i) \in Nat
    BY CountIsSum, RoomIsSum, InventoryIsCounted
  <2> HIDE DEF base
  <2> QED
    BY <2>1, <2>2 DEF Adds
<1>4. base \in Carried(D) /\ base.rest = n /\ base.slots = inv
  BY <1>3 DEF Adds
<1> HIDE DEF base
<1>5. PICK F : /\ F \in [0 .. MaxSlot -> Carried(D)] /\ F[0] = base
               /\ \A k \in 1 .. MaxSlot : F[k] = FillStack(F[k - 1], k - 1, i)
               /\ F[MaxSlot] = stacked
  BY <1>2, <1>4, FillStackFold
<1> HIDE DEF D, stacked
<1>6. Adds(stacked, inv, i, n) /\ (stacked.rest > 0 => Full(stacked.slots, i, MaxSlot))
  <2> DEFINE N == {k \in Nat : k <= MaxSlot =>
                     Adds(F[k], inv, i, n) /\ (F[k].rest > 0 => Full(F[k].slots, i, k))}
  <2>1. 0 \in N
    <3>1. Full(F[0].slots, i, 0)
      BY DEF Full
    <3> QED
      BY <1>3, <1>5, <3>1
  <2>2. ASSUME NEW k \in N PROVE k + 1 \in N
    <3> SUFFICES ASSUME k + 1 <= MaxSlot
                 PROVE  /\ Adds(F[k + 1], inv, i, n)
                        /\ F[k + 1].rest > 0 => Full(F[k + 1].slots, i, k + 1)
      OBVIOUS
    <3>1. k \in 0 .. MaxSlot - 1 /\ k + 1 \in 1 .. MaxSlot /\ (k + 1) - 1 = k /\ k <= MaxSlot
      BY <1>2
    <3>2. Adds(F[k], inv, i, n) /\ (F[k].rest > 0 => Full(F[k].slots, i, k))
      BY <3>1
    <3>3. F[k + 1] = FillStack(F[k], k, i)
      BY <1>5, <3>1
    <3> HIDE DEF N
    <3> QED
      BY <3>1, <3>2, <3>3, PassStep
  <2>3. N = Nat
    <3>1. N \in SUBSET Nat
      OBVIOUS
    <3> HIDE DEF N
    <3> QED
      BY <2>1, <2>2, <3>1, NatSetInduction
  <2>4. MaxSlot \in N
    BY <1>2, <2>3
  <2> QED
    BY <1>2, <1>5, <2>4
<1>7. stacked \in Carried(D)
  BY <1>6 DEF Adds, D
<1>8. PICK G : /\ G \in [0 .. MaxSlot -> Carried(D)] /\ G[0] = stacked
               /\ \A k \in 1 .. MaxSlot : G[k] = OpenSlot(G[k - 1], k - 1, i)
               /\ G[MaxSlot] = filled
  BY <1>2, <1>7, OpenSlotFold
<1> HIDE DEF filled
<1>9. /\ Adds(filled, inv, i, n)
      /\ filled.rest > 0 => Full(filled.slots, i, MaxSlot) /\ Taken(filled.slots, MaxSlot)
  <2> DEFINE N == {k \in Nat : k <= MaxSlot =>
                     /\ Adds(G[k], inv, i, n)
                     /\ G[k].rest > 0 => Full(G[k].slots, i, MaxSlot) /\ Taken(G[k].slots, k)}
  <2>1. 0 \in N
    <3>1. Taken(G[0].slots, 0)
      BY DEF Taken
    <3> QED
      BY <1>6, <1>8, <3>1
  <2>2. ASSUME NEW k \in N PROVE k + 1 \in N
    <3> SUFFICES ASSUME k + 1 <= MaxSlot
                 PROVE  /\ Adds(G[k + 1], inv, i, n)
                        /\ G[k + 1].rest > 0 =>
                             Full(G[k + 1].slots, i, MaxSlot) /\ Taken(G[k + 1].slots, k + 1)
      OBVIOUS
    <3>1. k \in 0 .. MaxSlot - 1 /\ k + 1 \in 1 .. MaxSlot /\ (k + 1) - 1 = k /\ k <= MaxSlot
      BY <1>2
    <3>2. /\ Adds(G[k], inv, i, n)
          /\ G[k].rest > 0 => Full(G[k].slots, i, MaxSlot) /\ Taken(G[k].slots, k)
      BY <3>1
    <3>3. G[k + 1] = OpenSlot(G[k], k, i)
      BY <1>8, <3>1
    <3> HIDE DEF N
    <3> QED
      BY <3>1, <3>2, <3>3, PassStep
  <2>3. N = Nat
    <3>1. N \in SUBSET Nat
      OBVIOUS
    <3> HIDE DEF N
    <3> QED
      BY <2>1, <2>2, <3>1, NatSetInduction
  <2>4. MaxSlot \in N
    BY <1>2, <2>3
  <2> QED
    BY <1>2, <1>8, <2>4
<1>10. ASSUME filled.rest > 0 PROVE Room(filled.slots, i) = 0
  <2>1. /\ IsInventory(filled.slots)
        /\ Full(filled.slots, i, MaxSlot) /\ Taken(filled.slots, MaxSlot)
    BY <1>9, <1>10 DEF Adds
  <2>2. /\ Free(filled.slots, i) \in [0 .. MaxSlot - 1 -> Nat] /\ IsFiniteSet(0 .. MaxSlot - 1)
        /\ Room(filled.slots, i) = SumOf(Free(filled.slots, i), 0 .. MaxSlot - 1)
    BY <2>1, RoomIsSum
  <2>3. \A s \in 0 .. MaxSlot - 1 : Free(filled.slots, i)[s] = 0
    <3> SUFFICES ASSUME NEW s \in 0 .. MaxSlot - 1 PROVE Free(filled.slots, i)[s] = 0
      OBVIOUS
    <3>1. s < MaxSlot /\ MaxStack[i] \in Nat /\ filled.slots[s].count \in Nat
      BY <1>2, <2>1, InventoryAssumption DEF IsInventory, Slot
    <3>2. filled.slots[s].item # NoItem
      BY <2>1, <3>1 DEF Taken
    <3>3. filled.slots[s].item = i => ~(filled.slots[s].count < MaxStack[i])
      BY <2>1, <3>1 DEF Full
    <3> QED
      BY <3>2, <3>3 DEF Free
  <2> QED
    BY <2>2, <2>3, SumZero
<1> QED
  BY <1>1, <1>9, <1>10

\* AddItem takes all that fits and nothing of what does not.
LEMMA AddItemFacts ==
  ASSUME NEW inv, IsInventory(inv), NEW i \in Item, NEW n \in Nat
  PROVE  /\ Room(inv, i) \in Nat /\ Count(inv, i) \in Nat
         /\ n > Room(inv, i) <=> AddItem(inv, i, n) = Refused
         /\ n <= Room(inv, i) =>
              /\ IsInventory(AddItem(inv, i, n)) /\ DOMAIN AddItem(inv, i, n) = DOMAIN inv
              /\ Count(AddItem(inv, i, n), i) = Count(inv, i) + n
              /\ \A j \in Item \ {i} : Count(AddItem(inv, i, n), j) = Count(inv, j)
              /\ \A s \in DOMAIN inv : AddItem(inv, i, n)[s] # inv[s] =>
                   /\ AddItem(inv, i, n)[s].item = i
                   /\ AddItem(inv, i, n)[s].count <= MaxStack[i]
<1> DEFINE f == Filled(inv, i, n)
<1>1. Adds(f, inv, i, n) /\ (f.rest > 0 => Room(f.slots, i) = 0)
  BY FilledFacts
<1>2. AddItem(inv, i, n) = IF f.rest = 0 THEN f.slots ELSE Refused
  BY DEF AddItem
<1> HIDE DEF f
<1>3. /\ f.rest \in Nat /\ IsInventory(f.slots) /\ DOMAIN f.slots = DOMAIN inv
  BY <1>1 DEF Adds, Carried
<1>4. /\ Room(inv, i) \in Nat /\ Count(inv, i) \in Nat
      /\ Room(f.slots, i) \in Nat /\ Count(f.slots, i) \in Nat
  BY <1>3, CountIsSum, RoomIsSum, InventoryIsCounted
<1>5. /\ Count(f.slots, i) + f.rest = Count(inv, i) + n
      /\ Room(f.slots, i) + n = Room(inv, i) + f.rest
  BY <1>1 DEF Adds
<1>6. n > Room(inv, i) <=> f.rest > 0
  BY <1>1, <1>3, <1>4, <1>5
<1>7. f.slots # Refused
  BY <1>3, RefusedIsNone
<1>8. CASE f.rest > 0
  BY <1>2, <1>3, <1>4, <1>6, <1>8
<1>9. CASE f.rest = 0
  <2>1. AddItem(inv, i, n) = f.slots /\ ~(n > Room(inv, i))
    BY <1>2, <1>6, <1>9
  <2>2. Count(f.slots, i) = Count(inv, i) + n
    BY <1>4, <1>5, <1>9
  <2>3. /\ \A j \in Item \ {i} : Count(f.slots, j) = Count(inv, j)
        /\ \A s \in DOMAIN inv : f.slots[s] # inv[s] =>
             f.slots[s].item = i /\ f.slots[s].count <= MaxStack[i]
    BY <1>1 DEF Adds
  <2> QED
    BY <1>3, <1>4, <1>7, <2>1, <2>2, <2>3
<1> QED
  BY <1>3, <1>8, <1>9

-------------------------------------------------------------------------------
(* The statements of a trade on the rows.                                    *)

Row == [item : Item, count : Nat \ {0}]

\* All that the rows of a character can be.
AllRows == {r \in UNION {[E -> Row] : E \in SUBSET Nat} : IsFiniteSet(DOMAIN r)}

\* These are the rows.
LEMMA AllRowsAreRows == \A r : r \in AllRows <=> IsRows(r)
<1>1. ASSUME NEW r \in AllRows PROVE IsRows(r)
  <2>1. PICK E \in SUBSET Nat : r \in [E -> Row]
    BY DEF AllRows
  <2>2. DOMAIN r = E /\ IsFiniteSet(DOMAIN r)
    BY <2>1 DEF AllRows
  <2> QED
    BY <2>1, <2>2 DEF IsRows, Row
<1>2. ASSUME NEW r, IsRows(r) PROVE r \in AllRows
  <2>1. r \in [DOMAIN r -> Row] /\ DOMAIN r \in SUBSET Nat /\ IsFiniteSet(DOMAIN r)
    BY <1>2 DEF IsRows, Row
  <2> QED
    BY <2>1 DEF AllRows
<1> QED
  BY <1>1, <1>2

\* How much of item j an amount n of item i is.
Part(i, n, j) == IF j = i THEN n ELSE 0

\* DecreaseItem takes what it is told to, when it is there.
LEMMA DecreaseItemFacts ==
  ASSUME NEW kept, IsRows(kept), NEW s, NEW i \in Item, NEW n \in Nat \ {0},
         DecreaseItem(kept, s, i, n) # Refused
  PROVE  /\ IsRows(DecreaseItem(kept, s, i, n))
         /\ \A j \in Item :
              /\ Count(kept, j) \in Nat
              /\ Count(DecreaseItem(kept, s, i, n), j) + Part(i, n, j) = Count(kept, j)
<1> DEFINE less == [kept EXCEPT ![s].count = @ - n]
           E == {y \in DOMAIN less : y = s /\ less[y].item = i => less[y].count > 0}
           res == [x \in E |-> less[x]]
<1>1. HasItemBySlot(kept, s, i, n)
  BY DEF DecreaseItem, updateInventoryItemCountMinus
<1>2. /\ s \in DOMAIN kept /\ s \in Nat /\ kept[s].item = i
      /\ kept[s].count \in Nat /\ kept[s].count - n \in Nat
  BY <1>1 DEF HasItemBySlot, IsRows
<1>3. /\ DOMAIN less = DOMAIN kept /\ less[s] = [item |-> i, count |-> kept[s].count - n]
      /\ \A x \in DOMAIN kept \ {s} : less[x] = kept[x]
  <2>1. kept[s] \in Row
    BY <1>2 DEF IsRows, Row
  <2>2. less = [kept EXCEPT ![s] = [kept[s] EXCEPT !.count = @ - n]]
    OBVIOUS
  <2>3. [kept[s] EXCEPT !.count = @ - n] = [item |-> i, count |-> kept[s].count - n]
    BY <1>2, <2>1 DEF Row
  <2> HIDE DEF less
  <2> QED
    BY <1>2, <2>2, <2>3 DEF IsRows
<1>4. DecreaseItem(kept, s, i, n) = res
  <2>1. updateInventoryItemCountMinus(kept, s, i, n) = less
    BY <1>1 DEF updateInventoryItemCountMinus
  <2>2. less # Refused
    <3>1. -1 \in DOMAIN Refused /\ -1 \notin DOMAIN kept
      BY DEF Refused, IsRows
    <3> QED
      BY <1>3, <3>1
  <2>3. DeleteInventoryItem(less, s, i) = res
    BY DEF DeleteInventoryItem
  <2> HIDE DEF less, res
  <2> QED
    BY <2>1, <2>2, <2>3 DEF DecreaseItem
<1>5. DOMAIN res = E /\ res = [x \in E |-> res[x]] /\ \A x \in E : res[x] = less[x]
  OBVIOUS
<1>6. \A x \in DOMAIN kept : x \in E <=> (x # s \/ kept[s].count - n > 0)
  BY <1>2, <1>3
<1>7. E \subseteq DOMAIN kept
  BY <1>3
<1> HIDE DEF less, E, res
<1>8. \A x \in E : res[x] \in Row
  <2> SUFFICES ASSUME NEW x \in E PROVE res[x] \in Row
    OBVIOUS
  <2>1. CASE x = s
    <3>1. kept[s].count - n \in Nat \ {0}
      BY <1>2, <1>6, <2>1
    <3> QED
      BY <1>3, <1>5, <2>1, <3>1 DEF Row
  <2>2. CASE x # s
    BY <1>3, <1>5, <1>7, <2>2 DEF IsRows, Row
  <2> QED
    BY <2>1, <2>2
<1>9. IsRows(res)
  <2>1. IsFiniteSet(E) /\ E \subseteq Nat
    BY <1>7, FS_Subset DEF IsRows
  <2>2. res \in [E -> Row]
    BY <1>5, <1>8
  <2> QED
    BY <1>5, <2>1, <2>2 DEF IsRows, Row
<1>10. SlotChanged(kept, less, s)
  <2>1. Counted(kept)
    BY InventoryIsCounted
  <2>2. Counted(less)
    BY <1>2, <1>3, <2>1 DEF Counted
  <2> QED
    BY <1>2, <1>3, <2>1, <2>2 DEF SlotChanged
<1>11. \A j \in Item : /\ Count(less, j) + Held(kept, j)[s] = Count(kept, j) + Held(less, j)[s]
                       /\ Count(less, j) \in Nat /\ Count(kept, j) \in Nat
  BY <1>10, CountChanged, CountIsSum DEF SlotChanged
<1>12. \A j \in Item : Held(less, j)[s] + Part(i, n, j) = Held(kept, j)[s]
                       /\ Held(less, j)[s] \in Nat
  BY <1>2, <1>3 DEF Held, Part
<1>13. \A j \in Item : Count(less, j) + Part(i, n, j) = Count(kept, j)
  <2> SUFFICES ASSUME NEW j \in Item PROVE Count(less, j) + Part(i, n, j) = Count(kept, j)
    OBVIOUS
  <2>1. Part(i, n, j) \in Nat
    BY DEF Part
  <2> QED
    BY <1>11, <1>12, <2>1
<1>14. \A j \in Item : Count(res, j) = Count(less, j)
  <2>1. CASE kept[s].count - n > 0
    <3>1. E = DOMAIN less
      BY <1>3, <1>6, <1>7, <2>1
    <3>2. res = less
      BY <1>5, <3>1 DEF res, less
    <3> QED
      BY <3>2
  <2>2. CASE ~(kept[s].count - n > 0)
    <3>1. less[s].count = 0 /\ s \notin E /\ DOMAIN less = E \cup {s}
      <4>1. kept[s].count - n = 0
        BY <1>2, <2>2
      <4>2. less[s].count = 0 /\ s \in DOMAIN kept /\ ~(kept[s].count - n > 0)
        BY <1>2, <1>3, <4>1
      <4>3. s \notin E
        BY <1>6, <4>2
      <4>4. \A x \in DOMAIN kept : x \in E \/ x = s
        BY <1>6
      <4>5. DOMAIN kept = E \cup {s}
        BY <1>7, <4>2, <4>4
      <4> QED
        BY <1>3, <4>2, <4>3, <4>5
    <3>2. SlotAdded(res, less, s)
      BY <1>5, <1>9, <1>10, <3>1, InventoryIsCounted DEF SlotAdded, SlotChanged
    <3> QED
      BY <3>1, <3>2, CountRemoved
  <2> QED
    BY <2>1, <2>2
<1> QED
  BY <1>4, <1>9, <1>11, <1>13, <1>14

\* A set of numbers has a least one.
LEMMA MinExists == \A T \in SUBSET Nat : T # {} => Min(T) \in T
<1> SUFFICES ASSUME NEW T \in SUBSET Nat, T # {} PROVE Min(T) \in T
  OBVIOUS
<1> DEFINE R == OpToRel(<, Nat)
<1>1. IsWellFoundedOn(R, Nat)
  BY NatLessThanWellFounded
<1> HIDE DEF R
<1>2. PICK x \in T : \A y \in T : ~(<<y, x>> \in R)
  BY <1>1, WFMin
<1>3. ASSUME NEW y \in T PROVE x <= y
  <2>1. x \in Nat /\ y \in Nat
    OBVIOUS
  <2>2. y < x => <<y, x>> \in R
    BY <2>1 DEF R, OpToRel
  <2> QED
    BY <1>2, <2>1, <2>2
<1> QED
  BY <1>3 DEF Min

\* IncreaseItem adds what it is told to.
LEMMA IncreaseItemFacts ==
  ASSUME NEW kept, IsRows(kept), NEW i \in Item, NEW n \in Nat \ {0}
  PROVE  /\ IsRows(IncreaseItem(kept, i, n))
         /\ \A j \in Item :
              /\ Count(kept, j) \in Nat
              /\ Count(IncreaseItem(kept, i, n), j) = Count(kept, j) + Part(i, n, j)
<1> DEFINE held == {s \in DOMAIN kept : kept[s].item = i}
<1>1. Counted(kept) /\ DOMAIN kept \in SUBSET Nat /\ \A x \in DOMAIN kept : kept[x] \in Row
  BY InventoryIsCounted DEF IsRows, Row
<1>2. \A j \in Item : Count(kept, j) \in Nat
  BY <1>1, CountIsSum
<1>3. CASE held = {}
  <2> DEFINE s == SelectNextInventorySlotPos(kept)
             new == InsertInventoryItem(kept, s, i, n)
  <2>1. s \in Nat /\ s \notin DOMAIN kept
    <3> DEFINE T == DOMAIN kept \cup {-1}
    <3>1. IsFiniteSet(T) /\ T \subseteq Int /\ T # {} /\ -1 \in T
      BY FS_AddElement DEF IsRows
    <3>2. \A U \in SUBSET T : U # {} => Greatest(U) \in U /\ \A y \in U : Greatest(U) >= y
      BY <3>1, GreatestExists
    <3>3. Max(T) \in T /\ \A y \in T : Max(T) >= y
      BY <3>1, <3>2 DEF Max, Greatest
    <3>4. s = Max(T) + 1
      BY DEF SelectNextInventorySlotPos
    <3> HIDE DEF T, s
    <3>7. PICK m \in Int : m \in T /\ s = m + 1 /\ \A y \in T : m >= y
      BY <3>1, <3>3, <3>4
    <3>5. ASSUME NEW y \in T PROVE y < s
      <4>1. y \in Int /\ m >= y
        BY <3>1, <3>7
      <4> QED
        BY <3>7, <4>1
    <3>6. s \in Int /\ -1 < s /\ ~(s < s)
      BY <3>1, <3>5, <3>7
    <3> QED
      BY <3>5, <3>6 DEF T
  <2>2. IncreaseItem(kept, i, n) = new
    BY <1>3 DEF IncreaseItem, SelectInventoryItemSlot
  <2> HIDE DEF s
  <2>3. /\ DOMAIN new = DOMAIN kept \cup {s} /\ new[s] = [item |-> i, count |-> n]
        /\ \A x \in DOMAIN kept : new[x] = kept[x]
        /\ new = [x \in DOMAIN new |-> new[x]]
    BY <2>1 DEF InsertInventoryItem
  <2> HIDE DEF new
  <2>4. \A x \in DOMAIN new : new[x] \in Row
    BY <1>1, <2>3 DEF Row
  <2>5. IsFiniteSet(DOMAIN new) /\ DOMAIN new \subseteq Nat
    BY <1>1, <2>1, <2>3, FS_AddElement DEF IsRows
  <2>6. IsRows(new)
    <3>1. new \in [DOMAIN new -> Row]
      BY <2>3, <2>4
    <3> QED
      BY <2>5, <3>1 DEF IsRows, Row
  <2>7. SlotAdded(kept, new, s)
    BY <1>1, <2>1, <2>3, <2>6, InventoryIsCounted DEF SlotAdded
  <2>8. \A j \in Item : Held(new, j)[s] = Part(i, n, j)
    BY <2>3 DEF Held, Part
  <2> QED
    BY <1>2, <2>2, <2>6, <2>7, <2>8, CountAdded
<1>4. CASE held # {}
  <2> DEFINE s == Min(held)
             new == UpdateInventoryItemCountPlus(kept, s, n)
  <2>1. s \in held
    BY <1>1, <1>4, MinExists
  <2>2. IncreaseItem(kept, i, n) = new
    <3>1. SelectInventoryItemSlot(kept, i) = {s}
      BY <1>4 DEF SelectInventoryItemSlot
    <3> HIDE DEF s
    <3>2. (CHOOSE x \in {s} : TRUE) = s
      OBVIOUS
    <3> QED
      BY <3>1, <3>2 DEF IncreaseItem
  <2> HIDE DEF s
  <2>3. s \in DOMAIN kept /\ kept[s].item = i /\ kept[s].count \in Nat /\ kept[s] \in Row
    BY <1>1, <2>1 DEF Row
  <2>4. /\ DOMAIN new = DOMAIN kept /\ new[s] = [item |-> i, count |-> kept[s].count + n]
        /\ \A x \in DOMAIN kept \ {s} : new[x] = kept[x]
        /\ new = [x \in DOMAIN new |-> new[x]]
    <3>1. new = [kept EXCEPT ![s] = [kept[s] EXCEPT !.count = @ + n]]
      BY DEF UpdateInventoryItemCountPlus
    <3>2. [kept[s] EXCEPT !.count = @ + n] = [item |-> i, count |-> kept[s].count + n]
      BY <2>3 DEF Row
    <3> HIDE DEF new
    <3> QED
      BY <2>3, <3>1, <3>2 DEF IsRows
  <2> HIDE DEF new
  <2>5. \A x \in DOMAIN new : new[x] \in Row
    <3>1. kept[s].count + n \in Nat \ {0}
      BY <2>3
    <3> QED
      BY <1>1, <2>4, <3>1 DEF Row
  <2>6. IsRows(new)
    <3>1. new \in [DOMAIN new -> Row]
      BY <2>4, <2>5
    <3> QED
      BY <2>4, <3>1 DEF IsRows, Row
  <2>7. SlotChanged(kept, new, s)
    BY <1>1, <2>3, <2>4, <2>6, InventoryIsCounted DEF SlotChanged
  <2>8. \A j \in Item : Held(new, j)[s] = Held(kept, j)[s] + Part(i, n, j)
                        /\ Held(kept, j)[s] \in Nat
    BY <2>3, <2>4 DEF Held, Part
  <2>9. \A j \in Item : /\ Count(new, j) + Held(kept, j)[s] = Count(kept, j) + Held(new, j)[s]
                        /\ Count(new, j) \in Nat
    BY <2>7, CountChanged, CountIsSum DEF SlotChanged
  <2>10. \A j \in Item : Count(new, j) = Count(kept, j) + Part(i, n, j)
    <3> SUFFICES ASSUME NEW j \in Item PROVE Count(new, j) = Count(kept, j) + Part(i, n, j)
      OBVIOUS
    <3>1. Part(i, n, j) \in Nat
      BY DEF Part
    <3> QED
      BY <1>2, <2>8, <2>9, <3>1
  <2> QED
    BY <1>2, <2>2, <2>6, <2>10
<1> QED
  BY <1>3, <1>4

-------------------------------------------------------------------------------
(* Execute: the items of one side as a chain.                                *)

\* What the rows of all characters can be in the course of a transaction.
Transaction == [Character -> AllRows] \cup {RolledBack}

\* A transaction that is rolled back is not one with rows.
LEMMA RolledBackHasNoRows ==
  ASSUME NEW c \in Character, NEW r \in [Character -> AllRows]
  PROVE  r # RolledBack
<1>1. r[c] # Refused
  BY AllRowsAreRows, RefusedIsNone
<1>2. RolledBack[c] = Refused
  BY DEF RolledBack
<1> QED
  BY <1>1, <1>2

\* One of the items changes hands.
LEMMA GiveItemFacts ==
  ASSUME NEW from \in Character, NEW to \in Character, from # to,
         NEW r \in Transaction, NEW o \in Offer
  PROVE  /\ GiveItem(r, from, to, o) \in Transaction
         /\ GiveItem(r, from, to, o) # RolledBack =>
              /\ r # RolledBack
              /\ \A c \in Character \ {from, to} : GiveItem(r, from, to, o)[c] = r[c]
              /\ \A j \in Item :
                   /\ Count(r[from], j) \in Nat /\ Count(r[to], j) \in Nat
                   /\ Count(GiveItem(r, from, to, o)[from], j) + Part(o.item, o.count, j)
                        = Count(r[from], j)
                   /\ Count(GiveItem(r, from, to, o)[to], j)
                        = Count(r[to], j) + Part(o.item, o.count, j)
<1> DEFINE left == DecreaseItem(r[from], o.slot, o.item, o.count)
           new == GiveItem(r, from, to, o)
<1>1. /\ o.slot \in Nat /\ o.item \in Item /\ o.count \in Nat \ {0}
  BY DEF Offer
<1>2. new = IF r = RolledBack \/ left = Refused THEN RolledBack
            ELSE [r EXCEPT ![from] = left, ![to] = IncreaseItem(r[to], o.item, o.count)]
  BY DEF GiveItem
<1> HIDE DEF new
<1>3. CASE r = RolledBack \/ left = Refused
  BY <1>2, <1>3 DEF Transaction, new
<1>4. CASE ~(r = RolledBack \/ left = Refused)
  <2> DEFINE more == IncreaseItem(r[to], o.item, o.count)
  <2>1. r \in [Character -> AllRows]
    BY <1>4 DEF Transaction
  <2>2. IsRows(r[from]) /\ IsRows(r[to])
    BY <2>1, AllRowsAreRows
  <2>3. /\ IsRows(left)
        /\ \A j \in Item :
             /\ Count(r[from], j) \in Nat
             /\ Count(left, j) + Part(o.item, o.count, j) = Count(r[from], j)
    BY <1>1, <1>4, <2>2, DecreaseItemFacts
  <2>4. /\ IsRows(more)
        /\ \A j \in Item :
             /\ Count(r[to], j) \in Nat
             /\ Count(more, j) = Count(r[to], j) + Part(o.item, o.count, j)
    BY <1>1, <2>2, IncreaseItemFacts
  <2>5. new = [r EXCEPT ![from] = left, ![to] = more]
    BY <1>2, <1>4
  <2> HIDE DEF left, more
  <2>6. left \in AllRows /\ more \in AllRows
    BY <2>3, <2>4, AllRowsAreRows
  <2>7. /\ new \in [Character -> AllRows] /\ new[from] = left /\ new[to] = more
        /\ \A c \in Character \ {from, to} : new[c] = r[c]
    BY <2>1, <2>5, <2>6
  <2>8. r # RolledBack
    BY <1>4
  <2> QED
    BY <2>3, <2>4, <2>7, <2>8 DEF Transaction, new
<1> QED
  BY <1>3, <1>4

\* The items of one side, one after the other.
LEMMA GiveFold ==
  ASSUME NEW from \in Character, NEW to \in Character, from # to, NEW r \in Transaction,
         NEW offers \in Seq(Offer)
  PROVE  \E F : /\ F \in [0 .. Len(offers) -> Transaction] /\ F[0] = r
                /\ \A k \in 1 .. Len(offers) : F[k] = GiveItem(F[k - 1], from, to, offers[k])
                /\ F[Len(offers)] = Give(r, from, to, offers)
<1> DEFINE A == Transaction
           g == [x \in A \X Offer |-> GiveItem(x[1], from, to, x[2])]
           S == SUBSET DOMAIN offers
           Eq(e) == e = [T \in S |->
             IF T = {} THEN r
             ELSE LET x == Max(T) IN GiveItem(e[T \ {x}], from, to, offers[x])]
           all == Give(r, from, to, offers)
<1>1. r \in A /\ g \in [A \X Offer -> A]
  <2>1. \A x \in A \X Offer : GiveItem(x[1], from, to, x[2]) \in A
    BY GiveItemFacts
  <2> QED
    BY <2>1
<1>2. /\ DOMAIN offers = 1 .. Len(offers) /\ Len(offers) \in Nat
      /\ \A k \in 1 .. Len(offers) : offers[k] \in Offer
  OBVIOUS
<1>3. all = (CHOOSE e : Eq(e))[DOMAIN offers]
  BY DEF Give, FoldLeft, MapThenFoldSet
<1> HIDE DEF A, all
<1>4. PICK h : IsFoldLeft(h, offers, A, r, g)
  <2> HIDE DEF g
  <2> QED
    BY <1>1, FoldLeftExists
<1>5. \A T \in S : T # {} => /\ Max(T) = Greatest(T) /\ Greatest(T) \in 1 .. Len(offers)
                             /\ offers[Greatest(T)] \in Offer
  <2>1. IsFiniteSet(DOMAIN offers) /\ DOMAIN offers \subseteq Int
    BY <1>2, FS_Interval
  <2> QED
    BY <1>2, <2>1, GreatestExists DEF Max, Greatest
<1>6. Eq(h)
  <2> DEFINE e == [T \in S |->
               IF T = {} THEN r
               ELSE LET x == Max(T) IN GiveItem(h[T \ {x}], from, to, offers[x])]
  <2>1. ASSUME NEW T \in S PROVE h[T] = e[T]
    <3>1. CASE T = {}
      BY <1>4, <3>1 DEF IsFoldLeft
    <3>2. CASE T # {}
      <4>1. h[T \ {Max(T)}] \in A /\ offers[Max(T)] \in Offer
        BY <1>4, <1>5, <3>2 DEF IsFoldLeft
      <4>2. h[T] = g[<<h[T \ {Max(T)}], offers[Max(T)]>>]
        BY <1>4, <1>5, <3>2 DEF IsFoldLeft
      <4> QED
        BY <3>2, <4>1, <4>2
    <3> QED
      BY <3>1, <3>2
  <2>2. h = [T \in S |-> h[T]] /\ e = [T \in S |-> e[T]]
    BY <1>4 DEF IsFoldLeft
  <2>3. h = e
    <3> HIDE DEF e
    <3> QED
      BY <2>1, <2>2
  <2> QED
    BY <2>3
<1>7. PICK e : Eq(e) /\ all = e[DOMAIN offers]
  <2> HIDE DEF Eq
  <2> QED
    BY <1>3, <1>6
<1>8. e[{}] = r
  BY <1>7
<1>9. ASSUME NEW T \in S, T # {}, e[T \ {Greatest(T)}] \in A
      PROVE  e[T] = g[<<e[T \ {Greatest(T)}], offers[Greatest(T)]>>]
  <2>1. e[T] = GiveItem(e[T \ {Greatest(T)}], from, to, offers[Greatest(T)])
    BY <1>5, <1>7, <1>9
  <2> QED
    BY <1>5, <1>9, <2>1
<1>10. PICK F : IsChain(F, offers, A, r, g, e[DOMAIN offers])
  <2> HIDE DEF g, Eq
  <2>1. FoldsLeft(e, offers, A, r, g)
    BY <1>8, <1>9 DEF FoldsLeft
  <2> QED
    BY <1>1, <2>1, FoldLeftChain
<1>11. ASSUME NEW k \in 1 .. Len(offers)
       PROVE  F[k] = GiveItem(F[k - 1], from, to, offers[k])
  <2>1. F[k - 1] \in A /\ offers[k] \in Offer
    BY <1>2, <1>10 DEF IsChain
  <2>2. F[k] = g[<<F[k - 1], offers[k]>>]
    BY <1>10 DEF IsChain
  <2> QED
    BY <2>1, <2>2
<1>12. F \in [0 .. Len(offers) -> A] /\ F[0] = r /\ F[Len(offers)] = all
  BY <1>7, <1>10 DEF IsChain
<1> QED
  BY <1>11, <1>12 DEF A, all

\* What they are of one item, one after the other.
LEMMA OfferedFold ==
  ASSUME NEW i \in Item, NEW offers \in Seq(Offer)
  PROVE  \E F : /\ F \in [0 .. Len(offers) -> Nat] /\ F[0] = 0
                /\ \A k \in 1 .. Len(offers) : F[k] =
                     (IF offers[k].item = i THEN F[k - 1] + offers[k].count ELSE F[k - 1])
                /\ F[Len(offers)] = OfferedOf(offers, i)
<1> DEFINE A == Nat
           g == [x \in A \X Offer |-> (IF x[2].item = i THEN x[1] + x[2].count ELSE x[1])]
           S == SUBSET DOMAIN offers
           Eq(e) == e = [T \in S |->
             IF T = {} THEN 0
             ELSE LET x == Max(T)
                  IN  (IF offers[x].item = i THEN e[T \ {x}] + offers[x].count
                       ELSE e[T \ {x}])]
           all == OfferedOf(offers, i)
<1>1. 0 \in A /\ g \in [A \X Offer -> A]
  <2>1. \A x \in A \X Offer : (IF x[2].item = i THEN x[1] + x[2].count ELSE x[1]) \in A
    BY DEF Offer
  <2> QED
    BY <2>1
<1>2. /\ DOMAIN offers = 1 .. Len(offers) /\ Len(offers) \in Nat
      /\ \A k \in 1 .. Len(offers) : offers[k] \in Offer
  OBVIOUS
<1>3. all = (CHOOSE e : Eq(e))[DOMAIN offers]
  BY DEF OfferedOf, FoldLeft, MapThenFoldSet
<1> HIDE DEF A, all
<1>4. PICK h : IsFoldLeft(h, offers, A, 0, g)
  <2> HIDE DEF g
  <2> QED
    BY <1>1, FoldLeftExists
<1>5. \A T \in S : T # {} => /\ Max(T) = Greatest(T) /\ Greatest(T) \in 1 .. Len(offers)
                             /\ offers[Greatest(T)] \in Offer
  <2>1. IsFiniteSet(DOMAIN offers) /\ DOMAIN offers \subseteq Int
    BY <1>2, FS_Interval
  <2> QED
    BY <1>2, <2>1, GreatestExists DEF Max, Greatest
<1>6. Eq(h)
  <2> DEFINE e == [T \in S |->
               IF T = {} THEN 0
               ELSE LET x == Max(T)
                    IN  (IF offers[x].item = i THEN h[T \ {x}] + offers[x].count
                         ELSE h[T \ {x}])]
  <2>1. ASSUME NEW T \in S PROVE h[T] = e[T]
    <3>1. CASE T = {}
      BY <1>4, <3>1 DEF IsFoldLeft
    <3>2. CASE T # {}
      <4>1. h[T \ {Max(T)}] \in A /\ offers[Max(T)] \in Offer
        BY <1>4, <1>5, <3>2 DEF IsFoldLeft
      <4>2. h[T] = g[<<h[T \ {Max(T)}], offers[Max(T)]>>]
        BY <1>4, <1>5, <3>2 DEF IsFoldLeft
      <4> QED
        BY <3>2, <4>1, <4>2
    <3> QED
      BY <3>1, <3>2
  <2>2. h = [T \in S |-> h[T]] /\ e = [T \in S |-> e[T]]
    BY <1>4 DEF IsFoldLeft
  <2>3. h = e
    <3> HIDE DEF e
    <3> QED
      BY <2>1, <2>2
  <2> QED
    BY <2>3
<1>7. PICK e : Eq(e) /\ all = e[DOMAIN offers]
  <2> HIDE DEF Eq
  <2> QED
    BY <1>3, <1>6
<1>8. e[{}] = 0
  BY <1>7
<1>9. ASSUME NEW T \in S, T # {}, e[T \ {Greatest(T)}] \in A
      PROVE  e[T] = g[<<e[T \ {Greatest(T)}], offers[Greatest(T)]>>]
  <2>1. e[T] = (IF offers[Greatest(T)].item = i
                THEN e[T \ {Greatest(T)}] + offers[Greatest(T)].count
                ELSE e[T \ {Greatest(T)}])
    BY <1>5, <1>7, <1>9
  <2> QED
    BY <1>5, <1>9, <2>1
<1>10. PICK F : IsChain(F, offers, A, 0, g, e[DOMAIN offers])
  <2> HIDE DEF g, Eq
  <2>1. FoldsLeft(e, offers, A, 0, g)
    BY <1>8, <1>9 DEF FoldsLeft
  <2> QED
    BY <1>1, <2>1, FoldLeftChain
<1>11. ASSUME NEW k \in 1 .. Len(offers)
       PROVE  F[k] =
                     (IF offers[k].item = i THEN F[k - 1] + offers[k].count ELSE F[k - 1])
  <2>1. F[k - 1] \in A /\ offers[k] \in Offer
    BY <1>2, <1>10 DEF IsChain
  <2>2. F[k] = g[<<F[k - 1], offers[k]>>]
    BY <1>10 DEF IsChain
  <2> QED
    BY <2>1, <2>2
<1>12. F \in [0 .. Len(offers) -> A] /\ F[0] = 0 /\ F[Len(offers)] = all
  BY <1>7, <1>10 DEF IsChain
<1> QED
  BY <1>11, <1>12 DEF A, all

-------------------------------------------------------------------------------
(* Execute: both sides.                                                      *)

\* One side gives what it has offered, or the transaction is rolled back.
LEMMA GiveFacts ==
  ASSUME NEW from \in Character, NEW to \in Character, from # to,
         NEW r \in [Character -> AllRows], NEW offers \in Seq(Offer)
  PROVE  /\ Give(r, from, to, offers) \in Transaction
         /\ Give(r, from, to, offers) # RolledBack =>
              /\ \A c \in Character \ {from, to} : Give(r, from, to, offers)[c] = r[c]
              /\ \A j \in Item :
                   /\ Count(Give(r, from, to, offers)[from], j) + OfferedOf(offers, j)
                        = Count(r[from], j)
                   /\ Count(Give(r, from, to, offers)[to], j)
                        = Count(r[to], j) + OfferedOf(offers, j)
<1> DEFINE n == Len(offers)
           res == Give(r, from, to, offers)
<1>1. r \in Transaction /\ n \in Nat
  BY DEF Transaction
<1>2. PICK F : /\ F \in [0 .. n -> Transaction] /\ F[0] = r
               /\ \A k \in 1 .. n : F[k] = GiveItem(F[k - 1], from, to, offers[k])
               /\ F[n] = res
  BY <1>1, GiveFold
<1>3. \A k \in 1 .. n : offers[k] \in Offer
  OBVIOUS
<1> HIDE DEF n, res
<1>4. \A j \in Item : Count(r[from], j) \in Nat /\ Count(r[to], j) \in Nat
  <2>1. Counted(r[from]) /\ Counted(r[to])
    BY AllRowsAreRows, InventoryIsCounted
  <2> QED
    BY <2>1, CountIsSum
<1>5. ASSUME NEW j \in Item
      PROVE  res # RolledBack =>
               /\ Count(res[from], j) + OfferedOf(offers, j) = Count(r[from], j)
               /\ Count(res[to], j) = Count(r[to], j) + OfferedOf(offers, j)
  <2>1. PICK G : /\ G \in [0 .. n -> Nat] /\ G[0] = 0
                 /\ \A k \in 1 .. n :
                      G[k] = IF offers[k].item = j THEN G[k - 1] + offers[k].count ELSE G[k - 1]
                 /\ G[n] = OfferedOf(offers, j)
    BY OfferedFold DEF n
  <2> DEFINE Given(k) == F[k] # RolledBack =>
                    /\ Count(F[k][from], j) + G[k] = Count(r[from], j)
                    /\ Count(F[k][to], j) = Count(r[to], j) + G[k]
             N == {k \in Nat : k <= n => Given(k)}
  <2>2. 0 \in N
    BY <1>2, <1>4, <2>1
  <2>3. ASSUME NEW k \in N PROVE k + 1 \in N
    <3> SUFFICES ASSUME k + 1 <= n, F[k + 1] # RolledBack
                 PROVE  /\ Count(F[k + 1][from], j) + G[k + 1] = Count(r[from], j)
                        /\ Count(F[k + 1][to], j) = Count(r[to], j) + G[k + 1]
      OBVIOUS
    <3> DEFINE o == offers[k + 1]
               p == Part(o.item, o.count, j)
    <3>1. /\ k \in 0 .. n /\ k + 1 \in 1 .. n /\ (k + 1) - 1 = k /\ k <= n /\ k \in Nat
      BY <1>1
    <3>2. F[k] \in Transaction /\ o \in Offer /\ F[k + 1] = GiveItem(F[k], from, to, o)
      BY <1>2, <1>3, <3>1
    <3>3. /\ F[k] # RolledBack
          /\ Count(F[k][from], j) \in Nat /\ Count(F[k][to], j) \in Nat
          /\ Count(F[k + 1][from], j) + p = Count(F[k][from], j)
          /\ Count(F[k + 1][to], j) = Count(F[k][to], j) + p
      <4> DEFINE new == F[k + 1]
                 old == F[k]
      <4>1. /\ old \in Transaction /\ o \in Offer
            /\ new = GiveItem(old, from, to, o) /\ new # RolledBack
        BY <3>2
      <4> HIDE DEF new, old, o, N
      <4>2. /\ old # RolledBack
            /\ \A i \in Item :
                 /\ Count(old[from], i) \in Nat /\ Count(old[to], i) \in Nat
                 /\ Count(new[from], i) + Part(o.item, o.count, i) = Count(old[from], i)
                 /\ Count(new[to], i) = Count(old[to], i) + Part(o.item, o.count, i)
        BY <4>1, GiveItemFacts
      <4> QED
        BY <4>2 DEF new, old
    <3>4. p \in Nat /\ G[k] \in Nat /\ G[k + 1] = G[k] + p
      <4>1. o.count \in Nat
        BY <3>2 DEF Offer
      <4>2. G[k + 1] = IF o.item = j THEN G[k] + o.count ELSE G[k]
        BY <2>1, <3>1
      <4>3. G[k] \in Nat
        BY <2>1, <3>1
      <4>4. p = IF j = o.item THEN o.count ELSE 0
        BY DEF Part
      <4> HIDE DEF p, o, N
      <4> QED
        BY <4>1, <4>2, <4>3, <4>4
    <3>5. /\ Count(F[k][from], j) + G[k] = Count(r[from], j)
          /\ Count(F[k][to], j) = Count(r[to], j) + G[k]
      BY <3>1, <3>3
    <3> HIDE DEF p, o, N
    <3>9. Count(F[k + 1][from], j) \in Nat
      <4>1. F[k + 1] \in [Character -> AllRows]
        BY <1>2, <3>1 DEF Transaction
      <4>2. Counted(F[k + 1][from])
        BY <4>1, AllRowsAreRows, InventoryIsCounted
      <4> QED
        BY <4>2, CountIsSum
    <3>7. Count(F[k + 1][from], j) + G[k + 1] = Count(r[from], j)
      BY <1>4, <3>3, <3>4, <3>5, <3>9
    <3>8. Count(F[k + 1][to], j) = Count(r[to], j) + G[k + 1]
      BY <1>4, <3>3, <3>4, <3>5
    <3> QED
      BY <3>7, <3>8
  <2>4. N = Nat
    <3>1. N \in SUBSET Nat
      OBVIOUS
    <3> HIDE DEF N
    <3> QED
      BY <2>2, <2>3, <3>1, NatSetInduction
  <2>5. Given(n)
    BY <1>1, <2>4
  <2> QED
    BY <1>2, <2>1, <2>5
<1>6. res \in Transaction
  BY <1>1, <1>2
<1>7. \A c \in Character \ {from, to} : res # RolledBack => res[c] = r[c]
  <2> SUFFICES ASSUME NEW c \in Character \ {from, to}, res # RolledBack PROVE res[c] = r[c]
    OBVIOUS
  <2> DEFINE N == {k \in Nat : k <= n => (F[k] # RolledBack => F[k][c] = r[c])}
  <2>1. 0 \in N
    BY <1>2
  <2>2. ASSUME NEW k \in N PROVE k + 1 \in N
    <3> SUFFICES ASSUME k + 1 <= n, F[k + 1] # RolledBack PROVE F[k + 1][c] = r[c]
      OBVIOUS
    <3>1. /\ k \in 0 .. n /\ k + 1 \in 1 .. n /\ (k + 1) - 1 = k /\ k <= n /\ k \in Nat
      BY <1>1
    <3>2. /\ F[k] \in Transaction /\ offers[k + 1] \in Offer
          /\ F[k + 1] = GiveItem(F[k], from, to, offers[k + 1])
      BY <1>2, <1>3, <3>1
    <3>3. F[k] # RolledBack /\ F[k + 1][c] = F[k][c]
      <4> DEFINE new == F[k + 1]
                 old == F[k]
                 o == offers[k + 1]
      <4>1. /\ old \in Transaction /\ o \in Offer
            /\ new = GiveItem(old, from, to, o) /\ new # RolledBack
        BY <3>2
      <4> HIDE DEF new, old, o, N
      <4>2. old # RolledBack /\ new[c] = old[c]
        BY <4>1, GiveItemFacts
      <4> QED
        BY <4>2 DEF new, old
    <3> QED
      BY <3>1, <3>3
  <2>3. N = Nat
    <3>1. N \in SUBSET Nat
      OBVIOUS
    <3> HIDE DEF N
    <3> QED
      BY <2>1, <2>2, <3>1, NatSetInduction
  <2>4. n \in N
    BY <1>1, <2>3
  <2> QED
    BY <1>1, <1>2, <2>4
<1> QED
  BY <1>5, <1>6, <1>7 DEF res

\* What is offered of an item is a number.
LEMMA OfferedIsNat ==
  ASSUME NEW offers \in Seq(Offer), NEW i \in Item PROVE OfferedOf(offers, i) \in Nat
<1>1. PICK F : F \in [0 .. Len(offers) -> Nat] /\ F[Len(offers)] = OfferedOf(offers, i)
  BY OfferedFold
<1> QED
  BY <1>1

\* The session of two characters, with what both have offered.
IsExchange(t) ==
  /\ t.a \in Character /\ t.b \in Character /\ t.a # t.b
  /\ t.items[t.a] \in Seq(Offer) /\ t.items[t.b] \in Seq(Offer)

\* After the transaction each has what the other has offered, and the others what they had.
LEMMA ExecuteFacts ==
  ASSUME rows \in [Character -> AllRows], NEW t, IsExchange(t), Execute(t) # RolledBack
  PROVE  /\ Execute(t) \in [Character -> AllRows]
         /\ \A c \in Character \ {t.a, t.b} : Execute(t)[c] = rows[c]
         /\ \A j \in Item :
              /\ Count(Execute(t)[t.a], j)
                   = Count(rows[t.a], j) - OfferedOf(t.items[t.a], j)
                                         + OfferedOf(t.items[t.b], j)
              /\ Count(Execute(t)[t.b], j)
                   = Count(rows[t.b], j) - OfferedOf(t.items[t.b], j)
                                         + OfferedOf(t.items[t.a], j)
<1> DEFINE a == t.a
           b == t.b
           p == t.items[a]
           q == t.items[b]
           mid == Give(rows, a, b, p)
           res == Give(mid, b, a, q)
<1>1. /\ a \in Character /\ b \in Character /\ a # b /\ p \in Seq(Offer) /\ q \in Seq(Offer)
  BY DEF IsExchange
<1>2. Execute(t) = IF mid = RolledBack THEN RolledBack ELSE res
  BY DEF Execute
<1>3. mid # RolledBack /\ Execute(t) = res /\ res # RolledBack
  BY <1>2
<1> HIDE DEF mid, res, p, q, a, b
<1>4. /\ mid \in [Character -> AllRows]
      /\ \A c \in Character \ {a, b} : mid[c] = rows[c]
      /\ \A j \in Item : /\ Count(mid[a], j) + OfferedOf(p, j) = Count(rows[a], j)
                         /\ Count(mid[b], j) = Count(rows[b], j) + OfferedOf(p, j)
  BY <1>1, <1>3, GiveFacts DEF mid, Transaction
<1>5. /\ res \in [Character -> AllRows]
      /\ \A c \in Character \ {a, b} : res[c] = mid[c]
      /\ \A j \in Item : /\ Count(res[b], j) + OfferedOf(q, j) = Count(mid[b], j)
                         /\ Count(res[a], j) = Count(mid[a], j) + OfferedOf(q, j)
  BY <1>1, <1>3, <1>4, GiveFacts DEF res, Transaction
<1>6. \A j \in Item :
        /\ OfferedOf(p, j) \in Nat /\ OfferedOf(q, j) \in Nat
        /\ Count(rows[a], j) \in Nat /\ Count(rows[b], j) \in Nat
        /\ Count(mid[a], j) \in Nat /\ Count(mid[b], j) \in Nat
        /\ Count(res[a], j) \in Nat /\ Count(res[b], j) \in Nat
  <2>1. \A c \in Character : Counted(rows[c]) /\ Counted(mid[c]) /\ Counted(res[c])
    BY <1>4, <1>5, AllRowsAreRows, InventoryIsCounted
  <2> QED
    BY <1>1, <2>1, CountIsSum, OfferedIsNat
<1>7. ASSUME NEW j \in Item
      PROVE  /\ Count(res[a], j) = Count(rows[a], j) - OfferedOf(p, j) + OfferedOf(q, j)
             /\ Count(res[b], j) = Count(rows[b], j) - OfferedOf(q, j) + OfferedOf(p, j)
  BY <1>4, <1>5, <1>6
<1>8. \A c \in Character \ {a, b} : res[c] = rows[c]
  BY <1>4, <1>5
<1> QED
  BY <1>3, <1>5, <1>7, <1>8 DEF a, b, p, q

-------------------------------------------------------------------------------
(* The sessions.                                                             *)

\* A session is for two characters; an address without one holds NoTrade.
IsSession(r) ==
  /\ {"a", "b", "executing"} \subseteq DOMAIN r
  /\ r # NoTrade => r.a \in Character /\ r.b \in Character

SessionsTyped ==
  /\ inTrade \in [Character -> TradeId \cup {Null}]
  /\ trade = [t \in TradeId |-> trade[t]]
  /\ \A t \in TradeId : IsSession(trade[t])

\* The handler that executes a trade has its session, which says so.
HandlerHasSession ==
  ~GateFree => handler.trade \in TradeId /\ trade[handler.trade] # NoTrade

PairedInv == SessionsTyped /\ TradeIsPaired /\ HandlerHasSession

-------------------------------------------------------------------------------
(* The pieces of the handlers.                                               *)

\* A free address is a session to nobody.
LEMMA NoTradeIsSession == IsSession(NoTrade) /\ ~NoTrade.executing /\ NoTrade.a = Null
BY DEF IsSession, NoTrade

\* No handler, no trade of it.
LEMMA IdleHasNoTrade == Idle.trade \notin TradeId
BY TradeAssumption DEF Idle

\* What CreateTradeSession makes.
LEMMA NewTradeIsSession ==
  ASSUME NEW a \in Character, NEW b \in Character
  PROVE  /\ IsSession(NewTrade(a, b)) /\ NewTrade(a, b) # NoTrade
         /\ NewTrade(a, b).a = a /\ NewTrade(a, b).b = b
         /\ ~NewTrade(a, b).executing
<1>1. /\ {"a", "b", "executing"} \subseteq DOMAIN NewTrade(a, b)
      /\ NewTrade(a, b).a = a /\ NewTrade(a, b).b = b
      /\ ~NewTrade(a, b).executing
  BY DEF NewTrade
<1>2. NewTrade(a, b) # NoTrade
  BY <1>1, NoTradeIsSession, TradeAssumption
<1> QED
  BY <1>1, <1>2 DEF IsSession

\* A session that has gone from r to s is the session of the same two.
SameSides(r, s) == IsSession(s) /\ s # NoTrade /\ s.a = r.a /\ s.b = r.b

\* Uploading an item, declaring oneself ready and executing keep the two.
LEMMA KeepsSides ==
  ASSUME NEW r, IsSession(r), r # NoTrade, NEW s,
         {"a", "b", "executing"} \subseteq DOMAIN s, s.a = r.a, s.b = r.b
  PROVE  SameSides(r, s)
<1>1. s # NoTrade
  BY NoTradeIsSession, TradeAssumption DEF IsSession
<1> QED
  BY <1>1 DEF SameSides, IsSession

\* Declaring oneself ready does.
LEMMA DeclaredKeepsSides ==
  ASSUME NEW r, IsSession(r), r # NoTrade, NEW c
  PROVE  SameSides(r, Declared(r, c)) /\ Declared(r, c).executing = r.executing
<1>1. /\ {"a", "b", "executing"} \subseteq DOMAIN Declared(r, c)
      /\ Declared(r, c).a = r.a /\ Declared(r, c).b = r.b
      /\ Declared(r, c).executing = r.executing
  BY DEF Declared, IsSession
<1> QED
  BY <1>1, KeepsSides

\* A character that is in no trade is no side of one.
LEMMA SidesAreInTrade ==
  ASSUME PairedInv, NEW t \in TradeId, trade[t] # NoTrade
  PROVE  /\ trade[t].a \in Character /\ trade[t].b \in Character
         /\ trade[t].a # trade[t].b
         /\ inTrade[trade[t].a] = t /\ inTrade[trade[t].b] = t
BY DEF PairedInv, SessionsTyped, IsSession, TradeIsPaired, Sides

\* A session of the same two takes the place of the one at t.
LEMMA SessionGoesOn ==
  ASSUME PairedInv, NEW t \in TradeId, trade[t] # NoTrade, NEW s, SameSides(trade[t], s),
         trade' = [trade EXCEPT ![t] = s], inTrade' = inTrade,
         GateFree, handler' = Idle \/ handler'.trade = t,
         s.executing => handler'.trade = t
  PROVE  PairedInv'
<1>1. /\ trade'[t] = s
      /\ \A u \in TradeId : u # t => trade'[u] = trade[u]
      /\ trade' = [u \in TradeId |-> trade'[u]]
  BY DEF PairedInv, SessionsTyped
<1>2. SessionsTyped'
  BY <1>1 DEF PairedInv, SessionsTyped, SameSides
<1>3. \A u \in TradeId : trade'[u] # NoTrade <=> trade[u] # NoTrade
  BY <1>1 DEF SameSides
<1>4. \A u \in TradeId : trade'[u].a = trade[u].a /\ trade'[u].b = trade[u].b
  BY <1>1 DEF SameSides
<1>5. \A u \in TradeId : Sides(u)' = Sides(u)
  BY <1>4 DEF Sides
<1>6. \A u \in TradeId : u # t /\ trade[u] # NoTrade =>
        (trade[u].executing => Oversized(trade[u]))
  BY IdleHasNoTrade DEF PairedInv, TradeIsPaired, GateFree
<1>7. TradeIsPaired'
  <2>1. ASSUME NEW c \in Character, inTrade'[c] # Null
        PROVE  trade'[inTrade'[c]] # NoTrade /\ c \in Sides(inTrade[c])'
    <3>1. inTrade'[c] = inTrade[c] /\ inTrade[c] \in TradeId
      BY <2>1 DEF PairedInv, SessionsTyped
    <3>2. trade[inTrade[c]] # NoTrade /\ c \in {trade[inTrade[c]].a, trade[inTrade[c]].b}
      BY <2>1, <3>1 DEF PairedInv, TradeIsPaired, Sides
    <3>3. /\ trade'[inTrade[c]] # NoTrade
          /\ trade'[inTrade[c]].a = trade[inTrade[c]].a
          /\ trade'[inTrade[c]].b = trade[inTrade[c]].b
      BY <3>1, <3>2, <1>3, <1>4
    <3> QED
      BY <3>1, <3>2, <3>3 DEF Sides
  <2>2. ASSUME NEW u \in TradeId, trade'[u] # NoTrade
        PROVE  /\ trade'[u].a # trade'[u].b
               /\ \A c \in Sides(u)' : inTrade'[c] = u
               /\ trade'[u].executing => handler'.trade = u \/ Oversized(trade'[u])
    BY <2>2, <1>1, <1>3, <1>4, <1>5, <1>6 DEF PairedInv, TradeIsPaired
  <2> QED
    BY <2>1, <2>2 DEF TradeIsPaired
<1>8. HandlerHasSession'
  BY <1>1 DEF HandlerHasSession, GateFree, SameSides
<1> QED
  BY <1>2, <1>7, <1>8 DEF PairedInv

\* DeleteTradeSession leaves nothing behind.
LEMMA SessionEnds ==
  ASSUME PairedInv, NEW t \in TradeId, trade[t] # NoTrade, Deleted(t),
         GateFree \/ handler.trade = t, handler' = Idle
  PROVE  PairedInv'
<1>1. /\ trade'[t] = NoTrade
      /\ \A u \in TradeId : u # t => trade'[u] = trade[u]
      /\ trade' = [u \in TradeId |-> trade'[u]]
  BY DEF PairedInv, SessionsTyped, Deleted
<1>2. \A c \in Character :
        /\ c \in Sides(t) => inTrade'[c] = Null
        /\ c \notin Sides(t) => inTrade'[c] = inTrade[c]
  BY DEF Deleted
<1>3. inTrade' \in [Character -> TradeId \cup {Null}]
  BY DEF PairedInv, SessionsTyped, Deleted
<1>4. SessionsTyped'
  BY <1>1, <1>3, NoTradeIsSession DEF PairedInv, SessionsTyped
<1>5. \A u \in TradeId : u # t => Sides(u)' = Sides(u)
  BY <1>1 DEF Sides
<1>6. \A u \in TradeId : u # t /\ trade[u] # NoTrade =>
        (trade[u].executing => Oversized(trade[u]))
  BY IdleHasNoTrade DEF PairedInv, TradeIsPaired, GateFree
<1>7. \A u \in TradeId, c \in Character :
        u # t /\ trade[u] # NoTrade /\ c \in Sides(u) => c \notin Sides(t)
  BY DEF PairedInv, TradeIsPaired
<1>8. TradeIsPaired'
  <2>1. ASSUME NEW c \in Character, inTrade'[c] # Null
        PROVE  trade'[inTrade'[c]] # NoTrade /\ c \in Sides(inTrade[c])'
    <3>1. inTrade'[c] = inTrade[c] /\ inTrade[c] \in TradeId
      BY <2>1, <1>2, <1>3
    <3>2. inTrade[c] # t
      BY <2>1, <3>1, <1>2 DEF PairedInv, TradeIsPaired
    <3> QED
      BY <2>1, <3>1, <3>2, <1>1, <1>5 DEF PairedInv, TradeIsPaired
  <2>2. ASSUME NEW u \in TradeId, trade'[u] # NoTrade
        PROVE  /\ trade'[u].a # trade'[u].b
               /\ \A c \in Sides(u)' : inTrade'[c] = u
               /\ trade'[u].executing => handler'.trade = u \/ Oversized(trade'[u])
    <3>1. u # t /\ trade'[u] = trade[u] /\ Sides(u)' = Sides(u)
      BY <2>2, <1>1, <1>5
    <3>2. \A c \in Sides(u) : c \in Character /\ inTrade[c] = u
      BY <2>2, <3>1, SidesAreInTrade DEF Sides
    <3>3. \A c \in Sides(u) : inTrade'[c] = u
      BY <2>2, <3>1, <3>2, <1>2, <1>7
    <3> QED
      BY <2>2, <3>1, <3>3, <1>6, SidesAreInTrade
  <2> QED
    BY <2>1, <2>2 DEF TradeIsPaired
<1> QED
  BY <1>4, <1>8 DEF PairedInv, HandlerHasSession, GateFree

\* A session for two characters that are in none.
LEMMA SessionBegins ==
  ASSUME PairedInv, NEW a \in Character, NEW b \in Character, a # b, NEW t \in TradeId,
         CreateTradeSession(a, b, t), GateFree, handler' = Idle
  PROVE  PairedInv'
<1> DEFINE r == NewTrade(a, b)
<1>1. IsSession(r) /\ r # NoTrade /\ r.a = a /\ r.b = b /\ ~r.executing
  BY NewTradeIsSession
<1>2. trade' = [trade EXCEPT ![t] = r] /\ trade[t] = NoTrade
  BY DEF CreateTradeSession
<1> HIDE DEF r
<1>3. /\ trade'[t] = r
      /\ \A u \in TradeId : u # t => trade'[u] = trade[u]
      /\ trade' = [u \in TradeId |-> trade'[u]]
  BY <1>2 DEF PairedInv, SessionsTyped
<1>4. /\ inTrade[a] = Null /\ inTrade[b] = Null
      /\ inTrade' \in [Character -> TradeId \cup {Null}]
      /\ inTrade'[a] = t /\ inTrade'[b] = t
      /\ \A c \in Character \ {a, b} : inTrade'[c] = inTrade[c]
  BY DEF PairedInv, SessionsTyped, CreateTradeSession
<1>5. SessionsTyped'
  BY <1>1, <1>3, <1>4 DEF PairedInv, SessionsTyped
<1>6. /\ Sides(t)' = {a, b}
      /\ \A u \in TradeId : u # t => Sides(u)' = Sides(u)
  BY <1>1, <1>3 DEF Sides
<1>7. TradeIsPaired'
  <2>1. ASSUME NEW c \in Character, inTrade'[c] # Null
        PROVE  trade'[inTrade'[c]] # NoTrade /\ c \in Sides(inTrade[c])'
    <3>1. CASE c \in {a, b}
      <4>1. inTrade'[c] = t
        BY <3>1, <1>4
      <4>2. Sides(inTrade[c])' = {trade'[t].a, trade'[t].b}
        BY <4>1 DEF Sides
      <4> QED
        BY <3>1, <4>1, <4>2, <1>1, <1>3
    <3>2. CASE c \notin {a, b}
      <4>1. inTrade'[c] = inTrade[c] /\ inTrade[c] \in TradeId
        BY <2>1, <3>2, <1>4
      <4>2. trade[inTrade[c]] # NoTrade /\ c \in Sides(inTrade[c])
        BY <2>1, <4>1 DEF PairedInv, TradeIsPaired
      <4>3. inTrade[c] # t
        BY <4>2, <1>2
      <4>4. Sides(inTrade[c])' = Sides(inTrade[c])
        BY <4>1, <4>3, <1>3 DEF Sides
      <4> QED
        BY <4>1, <4>2, <4>3, <4>4, <1>3
    <3> QED
      BY <3>1, <3>2
  <2>2. ASSUME NEW u \in TradeId, trade'[u] # NoTrade
        PROVE  /\ trade'[u].a # trade'[u].b
               /\ \A c \in Sides(u)' : inTrade'[c] = u
               /\ trade'[u].executing => handler'.trade = u \/ Oversized(trade'[u])
    <3>1. CASE u = t
      BY <3>1, <1>1, <1>3, <1>4, <1>6
    <3>2. CASE u # t
      <4>1. trade'[u] = trade[u] /\ Sides(u)' = Sides(u) /\ trade[u] # NoTrade
        BY <2>2, <3>2, <1>3, <1>6
      <4>2. trade[u].executing => Oversized(trade[u])
        BY <4>1, IdleHasNoTrade DEF PairedInv, TradeIsPaired, GateFree
      <4>3. \A c \in Sides(u) : c \in Character /\ inTrade[c] = u /\ c \notin {a, b}
        <5>1. \A c \in Sides(u) : c \in Character /\ inTrade[c] = u
          BY <4>1, SidesAreInTrade DEF Sides
        <5> QED
          BY <5>1, <1>4, TradeAssumption
      <4> QED
        BY <4>1, <4>2, <4>3, <1>4, SidesAreInTrade
    <3> QED
      BY <3>1, <3>2
  <2> QED
    BY <2>1, <2>2 DEF TradeIsPaired
<1> QED
  BY <1>5, <1>7 DEF PairedInv, HandlerHasSession, GateFree

-------------------------------------------------------------------------------
(* The invariant.                                                            *)

\* Nobody is in a trade at first.
LEMMA InitPairedInv == Init => PairedInv
<1> SUFFICES ASSUME Init PROVE PairedInv
  OBVIOUS
<1>1. \A c \in Character : inTrade[c] = Null
  BY DEF Init
<1>2. \A t \in TradeId : trade[t] = NoTrade
  BY DEF Init
<1>3. SessionsTyped
  BY <1>2, NoTradeIsSession DEF Init, SessionsTyped
<1> QED
  BY NoTradeIsSession, <1>1, <1>2, <1>3
  DEF PairedInv, TradeIsPaired, HandlerHasSession, GateFree, Init

\* What leaves the sessions alone keeps the invariant.
LEMMA OthersKeepPairedInv == PairedInv /\ UNCHANGED sessions => PairedInv'
<1> SUFFICES ASSUME PairedInv, UNCHANGED sessions PROVE PairedInv'
  OBVIOUS
<1>1. inTrade' = inTrade /\ trade' = trade /\ handler' = handler
  BY DEF sessions
<1> QED
  BY <1>1 DEF PairedInv, SessionsTyped, TradeIsPaired, HandlerHasSession, GateFree, Sides,
              Oversized

\* A packet of a character that is in a trade finds its session.
LEMMA InTradeHasSession ==
  ASSUME PairedInv, NEW c \in Character, inTrade[c] # Null
  PROVE  /\ inTrade[c] \in TradeId /\ trade[inTrade[c]] # NoTrade
         /\ IsSession(trade[inTrade[c]])
BY DEF PairedInv, SessionsTyped, TradeIsPaired

\* An item that is uploaded changes what is offered.
LEMMA UploadItemKeepsPairedInv ==
  ASSUME PairedInv, NEW c \in Character, NEW s, NEW i, NEW n, UploadItem(c, s, i, n)
  PROVE  PairedInv'
<1> DEFINE t == inTrade[c]
           items == [trade[t].items EXCEPT ![c] =
                       Append(trade[t].items[c], [slot |-> s, item |-> i, count |-> n])]
           r == [trade[t] EXCEPT !.items = items]
<1>1. /\ t \in TradeId /\ trade[t] # NoTrade /\ IsSession(trade[t])
      /\ GateFree /\ handler' = Idle /\ inTrade' = inTrade
      /\ ~trade[t].executing
  BY InTradeHasSession DEF UploadItem, GateFree
<1>2. trade' = [trade EXCEPT ![t] = r]
  BY DEF UploadItem
<1> HIDE DEF t, items
<1>3. /\ {"a", "b", "executing"} \subseteq DOMAIN r
      /\ r.a = trade[t].a /\ r.b = trade[t].b /\ r.executing = trade[t].executing
  BY <1>1 DEF IsSession
<1> HIDE DEF r
<1>4. SameSides(trade[t], r)
  BY <1>1, <1>3, KeepsSides
<1> QED
  BY <1>1, <1>2, <1>3, <1>4, SessionGoesOn

\* Ready goes on with the session or deletes it.
LEMMA ReadyKeepsPairedInv ==
  ASSUME PairedInv, NEW c \in Character, Ready(c)
  PROVE  PairedInv'
<1> DEFINE t == inTrade[c]
<1>1. t # Null /\ GateFree
  BY DEF Ready, ReadyFirst, ReadyRefused, ReadyExecutes, CommitUnanswered, GateFree
<1>2. t \in TradeId /\ trade[t] # NoTrade /\ IsSession(trade[t])
  BY <1>1, InTradeHasSession
<1>3. /\ SameSides(trade[t], Declared(trade[t], c))
      /\ Declared(trade[t], c).executing = trade[t].executing
  BY <1>2, DeclaredKeepsSides
<1>4. CASE ReadyFirst(c)
  <2>1. /\ trade' = [trade EXCEPT ![t] = Declared(trade[t], c)]
        /\ inTrade' = inTrade /\ handler' = Idle /\ ~trade[t].executing
    BY <1>4 DEF ReadyFirst, GateFree
  <2> HIDE DEF t
  <2> QED
    BY <1>1, <1>2, <1>3, <2>1, SessionGoesOn
<1>5. CASE ReadyExecutes(c)
  <2> DEFINE r == [Declared(trade[t], c) EXCEPT !.executing = TRUE]
  <2>1. /\ trade' = [trade EXCEPT ![t] = r] /\ inTrade' = inTrade
        /\ handler' = [by |-> c, trade |-> t, target |-> GetTargetPlayer(c)]
    BY <1>5 DEF ReadyExecutes
  <2> HIDE DEF t
  <2>2. SameSides(trade[t], r)
    <3>1. /\ {"a", "b", "executing"} \subseteq DOMAIN r
          /\ r.a = trade[t].a /\ r.b = trade[t].b
      BY <1>3 DEF SameSides, IsSession
    <3> HIDE DEF r
    <3> QED
      BY <1>2, <3>1, KeepsSides
  <2> HIDE DEF r
  <2>3. handler'.trade = t
    BY <2>1
  <2> QED
    BY <1>1, <1>2, <2>1, <2>2, <2>3, SessionGoesOn
<1>6. CASE ReadyRefused(c) \/ CommitUnanswered(c)
  <2>1. Deleted(t) /\ handler' = Idle
    BY <1>1, <1>6 DEF GateFree, ReadyRefused, CommitUnanswered
  <2> HIDE DEF t
  <2> QED
    BY <1>1, <1>2, <2>1, SessionEnds
<1> QED
  BY <1>4, <1>5, <1>6 DEF Ready

\* Every step pairs the sessions as before.
LEMMA NextPairedInv == PairedInv /\ [Next]_vars => PairedInv'
<1> SUFFICES ASSUME PairedInv, [Next]_vars PROVE PairedInv'
  OBVIOUS
<1>1. CASE UNCHANGED vars
  BY <1>1, OthersKeepPairedInv DEF vars
<1>2. ASSUME NEW c \in Character,
             \/ Login(c) \/ Disconnect(c)
             \/ StartSave(c) \/ EndSave(c) \/ SaveFails(c)
      PROVE  PairedInv'
  <2>1. UNCHANGED sessions
    BY <1>2 DEF Login, Disconnect, StartSave, EndSave, SaveFails
  <2> QED
    BY <2>1, OthersKeepPairedInv
<1>3. ASSUME NEW c \in Character, Shop(c)
      PROVE  PairedInv'
  <2>1. ASSUME NEW inv, NEW g, Changed(c, inv, g) PROVE UNCHANGED sessions
    BY <2>1 DEF Changed
  <2>2. UNCHANGED sessions
    BY <1>3, <2>1 DEF Shop, Buy, PickUp, Sell, UseItem, Rearrange
  <2> QED
    BY <2>2, OthersKeepPairedInv
<1>4. ASSUME NEW c \in Character, Offers(c)
      PROVE  PairedInv'
  BY <1>4, UploadItemKeepsPairedInv DEF Offers
<1>5. ASSUME NEW c \in Character, Ready(c)
      PROVE  PairedInv'
  BY <1>5, ReadyKeepsPairedInv
<1>6. ASSUME NEW c \in Character, Cancel(c)
      PROVE  PairedInv'
  <2>1. inTrade[c] # Null /\ Deleted(inTrade[c]) /\ GateFree /\ handler' = Idle
    BY <1>6 DEF Cancel, CancelTrade, GateFree
  <2> QED
    BY <2>1, InTradeHasSession, SessionEnds
<1>7. ASSUME NEW c \in Character, NEW a \in Character, Accept(a, c)
      PROVE  PairedInv'
  <2>1. /\ a # c /\ GateFree /\ handler' = Idle
        /\ \E t \in TradeId : CreateTradeSession(a, c, t)
    BY <1>7 DEF Accept, Start, GateFree
  <2> QED
    BY <2>1, SessionBegins
<1>8. CASE LoadInventories
  <2> DEFINE t == handler.trade
  <2>1. ~GateFree /\ handler' = Idle
    BY <1>8 DEF LoadInventories
  <2>2. t \in TradeId /\ trade[t] # NoTrade
    BY <2>1 DEF PairedInv, HandlerHasSession
  <2>3. CASE Deleted(t)
    BY <2>1, <2>2, <2>3, SessionEnds
  <2>4. CASE Oversized(trade[t]) /\ UNCHANGED <<inTrade, trade>>
    <3>1. inTrade' = inTrade /\ trade' = trade
      BY <2>4
    <3>2. SessionsTyped'
      BY <3>1 DEF PairedInv, SessionsTyped
    <3>3. \A u \in TradeId : Sides(u)' = Sides(u)
      BY <3>1 DEF Sides
    <3>4. \A u \in TradeId : trade[u] # NoTrade =>
            (trade[u].executing => Oversized(trade[u]))
      BY <2>4 DEF PairedInv, TradeIsPaired
    <3>5. TradeIsPaired'
      <4>1. ASSUME NEW c \in Character, inTrade'[c] # Null
            PROVE  trade'[inTrade'[c]] # NoTrade /\ c \in Sides(inTrade[c])'
        BY <3>1, <3>3, <4>1 DEF PairedInv, SessionsTyped, TradeIsPaired
      <4>2. ASSUME NEW u \in TradeId, trade'[u] # NoTrade
            PROVE  /\ trade'[u].a # trade'[u].b
                   /\ \A c \in Sides(u)' : inTrade'[c] = u
                   /\ trade'[u].executing => handler'.trade = u \/ Oversized(trade'[u])
        BY <3>1, <3>3, <3>4, <4>2 DEF PairedInv, TradeIsPaired
      <4> QED
        BY <4>1, <4>2 DEF TradeIsPaired
    <3> QED
      BY <2>1, <3>2, <3>5 DEF PairedInv, HandlerHasSession, GateFree
  <2> QED
    BY <1>8, <2>3, <2>4 DEF LoadInventories
<1>9. CASE Crash
  <2>1. /\ inTrade' = [c \in Character |-> Null]
        /\ trade' = [t \in TradeId |-> NoTrade]
        /\ handler' = Idle
    BY <1>9 DEF Crash
  <2>2. /\ \A c \in Character : inTrade'[c] = Null
        /\ \A t \in TradeId : trade'[t] = NoTrade
    BY <2>1
  <2>3. SessionsTyped'
    BY <2>1, <2>2, NoTradeIsSession DEF SessionsTyped
  <2> QED
    BY <2>1, <2>2, <2>3 DEF PairedInv, TradeIsPaired, HandlerHasSession, GateFree
<1> QED
  BY <1>1, <1>2, <1>3, <1>4, <1>5, <1>6, <1>7, <1>8, <1>9 DEF Next

\* m_sessions and the session objects agree, and a session that executes has
\* its handler: TradeService::CreateTradeSession, CancelTrade, Ready and
\* DeleteTradeSession never leave one without the other.
THEOREM SessionsArePaired == Spec => []TradeIsPaired
<1>1. Init => PairedInv
  BY InitPairedInv
<1>2. PairedInv /\ [Next]_vars => PairedInv'
  BY NextPairedInv
<1>3. PairedInv => TradeIsPaired
  BY DEF PairedInv
<1> QED
  BY <1>1, <1>2, <1>3, PTL DEF Spec

-------------------------------------------------------------------------------
(* What the variables hold.                                                  *)

\* The players and what they own in memory.
PlayersTyped ==
  /\ at \in [Address -> Character \cup {Null}]
  /\ \A x, y \in Address : at[x] = at[y] /\ at[x] # Null => x = y
  /\ mem = [c \in Character |-> mem[c]]
  /\ \A c \in Character : Online(c) => IsInventory(mem[c])
  /\ gold \in [Character -> 0 .. MaxGold]
  /\ dirty \in [Character -> BOOLEAN]

\* MySQL, and the saves under way.
StoredTyped ==
  /\ rows \in [Character -> AllRows]
  /\ bank \in [Character -> 0 .. MaxGold]
  /\ save = [c \in Character |-> save[c]]
  /\ \A c \in Character : SaveTyped(save[c])

\* What a character saw when it was ready is still what is offered.
GoodTrade(t) == TradeTyped(t) /\ \A c \in t.ready : t.seen[c] = t.items

TradesTyped == \A t \in TradeId : GoodTrade(trade[t])

\* A handler that executes a trade is a player's that cannot leave, and the one it
\* loads for is at an address.
HandlerTyped ==
  ~GateFree => /\ handler.by \in Character /\ Online(handler.by) /\ handler.target \in Address
               /\ handler.trade \in TradeId /\ trade[handler.trade].executing

Typed == PlayersTyped /\ StoredTyped /\ TradesTyped /\ HandlerTyped

\* The invariant of Trade.
IInv == PairedInv /\ Typed

\* The types follow.
LEMMA IInvTypes == IInv => TypeOK
BY AllRowsAreRows DEF IInv, Typed, PairedInv, SessionsTyped, PlayersTyped, StoredTyped, TradesTyped,
   GoodTrade, HandlerTyped, TypeOK

\* Where a player is.
LEMMA PlayerOfFacts ==
  ASSUME NEW c \in Character, Online(c)
  PROVE  PlayerOf(c) \in Address /\ at[PlayerOf(c)] = c
BY DEF Online, PlayerOf

-------------------------------------------------------------------------------
(* Sessions.                                                                 *)

\* A session with its fields.
SessionOf(a, b, p, l, r, e, s) ==
  [a |-> a, b |-> b, player |-> p, items |-> l, ready |-> r, executing |-> e, seen |-> s]

\* The fields of a session.
LEMMA TradeFields ==
  ASSUME NEW t, TradeTyped(t), t # NoTrade
  PROVE  /\ t.a \in Character /\ t.b \in Character
         /\ t.player \in [{t.a, t.b} -> Address]
         /\ t.items \in [{t.a, t.b} -> Seq(Offer)]
         /\ t.ready \in SUBSET {t.a, t.b} /\ t.executing \in BOOLEAN
         /\ t.seen \in [{t.a, t.b} -> [{t.a, t.b} -> Seq(Offer)] \cup {Null}]
         /\ t = SessionOf(t.a, t.b, t.player, t.items, t.ready, t.executing, t.seen)
<1> DEFINE both == {t.a, t.b}
           Lists == [both -> Seq(Offer)]
           seens == [both -> Lists \cup {Null}]
           players == [both -> Address]
<1>1. t \in [a : Character, b : Character, player : players, items : Lists,
             ready : SUBSET both, executing : BOOLEAN, seen : seens]
  BY DEF TradeTyped
<1> HIDE DEF Lists, seens, players, both
<1>2. /\ t.a \in Character /\ t.b \in Character /\ t.player \in players /\ t.items \in Lists
      /\ t.ready \in SUBSET both /\ t.executing \in BOOLEAN /\ t.seen \in seens
  BY <1>1
<1>3. t = [a |-> t.a, b |-> t.b, player |-> t.player, items |-> t.items,
           ready |-> t.ready, executing |-> t.executing, seen |-> t.seen]
  BY <1>1
<1>4. t = SessionOf(t.a, t.b, t.player, t.items, t.ready, t.executing, t.seen)
  BY <1>3 DEF SessionOf
<1> QED
  BY <1>2, <1>4 DEF Lists, seens, players, both

\* Fields that make a session.
LEMMA FieldsMakeTrade ==
  ASSUME NEW a \in Character, NEW b \in Character, NEW p \in [{a, b} -> Address],
         NEW l \in [{a, b} -> Seq(Offer)], NEW r \in SUBSET {a, b}, NEW e \in BOOLEAN,
         NEW s \in [{a, b} -> [{a, b} -> Seq(Offer)] \cup {Null}],
         \A c \in r : s[c] = l
  PROVE  GoodTrade(SessionOf(a, b, p, l, r, e, s))
<1> DEFINE Lists == [{a, b} -> Seq(Offer)]
           seens == [{a, b} -> Lists \cup {Null}]
           players == [{a, b} -> Address]
           readies == SUBSET {a, b}
           t == SessionOf(a, b, p, l, r, e, s)
<1>1. p \in players /\ l \in Lists /\ s \in seens /\ r \in readies
  OBVIOUS
<1>2. /\ t.a = a /\ t.b = b /\ t.ready = r /\ t.seen = s /\ t.items = l
  BY DEF SessionOf
<1>3. t \in [a : Character, b : Character, player : players, items : Lists,
             ready : readies, executing : BOOLEAN, seen : seens]
  <2>1. t = [a |-> a, b |-> b, player |-> p, items |-> l, ready |-> r, executing |-> e,
             seen |-> s]
    BY DEF SessionOf
  <2> HIDE DEF Lists, seens, players, readies, t
  <2> QED
    BY <1>1, <2>1
<1> HIDE DEF t
<1>4. TradeTyped(t)
  BY <1>2, <1>3 DEF TradeTyped
<1>5. \A c \in t.ready : t.seen[c] = t.items
  BY <1>2
<1>6. GoodTrade(t)
  BY <1>4, <1>5 DEF GoodTrade
<1> QED
  BY <1>6 DEF t

\* What the updates of a session do to its fields.
LEMMA SessionReady ==
  ASSUME NEW a, NEW b, NEW p, NEW l, NEW r, NEW e, NEW s, NEW v
  PROVE  [SessionOf(a, b, p, l, r, e, s) EXCEPT !.ready = v] = SessionOf(a, b, p, l, v, e, s)
BY DEF SessionOf

\* What is seen.
LEMMA SessionSeen ==
  ASSUME NEW a, NEW b, NEW p, NEW l, NEW r, NEW e, NEW s, NEW v
  PROVE  [SessionOf(a, b, p, l, r, e, s) EXCEPT !.seen = v] = SessionOf(a, b, p, l, r, e, v)
BY DEF SessionOf

\* That it executes.
LEMMA SessionExecuting ==
  ASSUME NEW a, NEW b, NEW p, NEW l, NEW r, NEW e, NEW s, NEW v
  PROVE  [SessionOf(a, b, p, l, r, e, s) EXCEPT !.executing = v] =
           SessionOf(a, b, p, l, r, v, s)
BY DEF SessionOf

\* What is offered.
LEMMA SessionItems ==
  ASSUME NEW a, NEW b, NEW p, NEW l, NEW r, NEW e, NEW s, NEW v
  PROVE  [SessionOf(a, b, p, l, r, e, s) EXCEPT !.items = v] = SessionOf(a, b, p, v, r, e, s)
BY DEF SessionOf

\* The fields of a session that is put together.
LEMMA SessionFields ==
  ASSUME NEW a, NEW b, NEW p, NEW l, NEW r, NEW e, NEW s, NEW t, t = SessionOf(a, b, p, l, r, e, s)
  PROVE  /\ t.a = a /\ t.b = b /\ t.items = l /\ t.ready = r /\ t.executing = e /\ t.seen = s
BY DEF SessionOf

\* The session of a character that has declared itself ready.
LEMMA DeclaredFields ==
  ASSUME NEW a, NEW b, NEW p, NEW l, NEW r, NEW e, NEW s, NEW c
  PROVE  Declared(SessionOf(a, b, p, l, r, e, s), c) =
           SessionOf(a, b, p, l, r \cup {c}, e, [s EXCEPT ![c] = l])
<1> DEFINE t == SessionOf(a, b, p, l, r, e, s)
           ready == r \cup {c}
           seen == [s EXCEPT ![c] = l]
           u == [t EXCEPT !.ready = ready]
<1>1. u = SessionOf(a, b, p, l, ready, e, s)
  <2> HIDE DEF ready
  <2> QED
    BY SessionReady
<1>2. [u EXCEPT !.seen = seen] = SessionOf(a, b, p, l, ready, e, seen)
  <2> HIDE DEF ready, seen, u
  <2> QED
    BY <1>1, SessionSeen
<1>3. t.ready = r /\ t.seen = s /\ t.items = l
  <2> HIDE DEF t
  <2>1. t = SessionOf(a, b, p, l, r, e, s)
    BY DEF t
  <2> QED
    BY <2>1, SessionFields
<1>4. Declared(t, c) = [u EXCEPT !.seen = seen]
  <2> HIDE DEF t
  <2> QED
    BY <1>3 DEF Declared
<1> QED
  BY <1>2, <1>4

\* A free address is no session.
LEMMA NoTradeIsGood == GoodTrade(NoTrade)
BY DEF GoodTrade, TradeTyped, NoTrade

\* The session that an accept makes is one.
LEMMA NewTradeIsGood ==
  ASSUME NEW a \in Character, NEW b \in Character, Online(a), Online(b)
  PROVE  GoodTrade(NewTrade(a, b))
<1> DEFINE p == [c \in {a, b} |-> PlayerOf(c)]
           l == [c \in {a, b} |-> <<>>]
           s == [c \in {a, b} |-> Null]
<1>1. p \in [{a, b} -> Address]
  BY PlayerOfFacts
<1>2. l \in [{a, b} -> Seq(Offer)] /\ s \in [{a, b} -> [{a, b} -> Seq(Offer)] \cup {Null}]
  OBVIOUS
<1>3. NewTrade(a, b) = SessionOf(a, b, p, l, {}, FALSE, s)
  BY DEF NewTrade, SessionOf
<1> HIDE DEF p, l, s
<1>4. GoodTrade(SessionOf(a, b, p, l, {}, FALSE, s))
  BY <1>1, <1>2, FieldsMakeTrade
<1> QED
  BY <1>3, <1>4

\* A session stays one when a character declares itself ready.
LEMMA DeclaredIsGood ==
  ASSUME NEW t, GoodTrade(t), t # NoTrade, NEW c \in {t.a, t.b}
  PROVE  /\ GoodTrade(Declared(t, c)) /\ Declared(t, c).items = t.items
         /\ GoodTrade([Declared(t, c) EXCEPT !.executing = TRUE])
<1> DEFINE ready == t.ready \cup {c}
           seen == [t.seen EXCEPT ![c] = t.items]
<1>1. /\ TradeTyped(t) /\ \A d \in t.ready : t.seen[d] = t.items
  BY DEF GoodTrade
<1>2. /\ t.a \in Character /\ t.b \in Character
      /\ t.player \in [{t.a, t.b} -> Address]
      /\ t.items \in [{t.a, t.b} -> Seq(Offer)]
      /\ t.ready \in SUBSET {t.a, t.b} /\ t.executing \in BOOLEAN
      /\ t.seen \in [{t.a, t.b} -> [{t.a, t.b} -> Seq(Offer)] \cup {Null}]
      /\ t = SessionOf(t.a, t.b, t.player, t.items, t.ready, t.executing, t.seen)
  BY <1>1, TradeFields
<1>3. ready \in SUBSET {t.a, t.b} /\ seen \in [{t.a, t.b} -> [{t.a, t.b} -> Seq(Offer)] \cup {Null}]
      /\ \A d \in ready : seen[d] = t.items
  <2> DEFINE Lists == [{t.a, t.b} -> Seq(Offer)]
  <2>1. t.seen \in [{t.a, t.b} -> Lists \cup {Null}] /\ t.items \in Lists
    BY <1>2
  <2> HIDE DEF Lists
  <2>2. seen \in [{t.a, t.b} -> Lists \cup {Null}]
    BY <2>1
  <2>3. ready \in SUBSET {t.a, t.b}
    BY <1>2
  <2>4. \A d \in ready : seen[d] = t.items
    BY <1>1, <1>2, <2>1
  <2> QED
    BY <2>2, <2>3, <2>4 DEF Lists
<1>4. Declared(t, c) = SessionOf(t.a, t.b, t.player, t.items, ready, t.executing, seen)
  <2>1. t = SessionOf(t.a, t.b, t.player, t.items, t.ready, t.executing, t.seen)
    BY <1>2
  <2>2. Declared(SessionOf(t.a, t.b, t.player, t.items, t.ready, t.executing, t.seen), c) =
          SessionOf(t.a, t.b, t.player, t.items, ready, t.executing, seen)
    BY DeclaredFields
  <2> QED
    BY <2>1, <2>2
<1> HIDE DEF ready, seen
<1>5. [Declared(t, c) EXCEPT !.executing = TRUE] =
        SessionOf(t.a, t.b, t.player, t.items, ready, TRUE, seen)
  <2> DEFINE v == TRUE
             d == Declared(t, c)
  <2>1. d = SessionOf(t.a, t.b, t.player, t.items, ready, t.executing, seen)
    BY <1>4
  <2> HIDE DEF v, d
  <2>2. [SessionOf(t.a, t.b, t.player, t.items, ready, t.executing, seen)
           EXCEPT !.executing = v] =
          SessionOf(t.a, t.b, t.player, t.items, ready, v, seen)
    BY SessionExecuting
  <2>3. [d EXCEPT !.executing = v] = SessionOf(t.a, t.b, t.player, t.items, ready, v, seen)
    BY <2>1, <2>2
  <2> QED
    BY <2>3 DEF v, d
<1>6. ASSUME NEW e \in BOOLEAN
      PROVE  GoodTrade(SessionOf(t.a, t.b, t.player, t.items, ready, e, seen))
  BY <1>2, <1>3, FieldsMakeTrade
<1>7. Declared(t, c).items = t.items
  BY <1>4, SessionFields
<1> QED
  BY <1>2, <1>4, <1>5, <1>6, <1>7

\* A session stays one when an item is uploaded while nobody is ready.
LEMMA UploadedIsGood ==
  ASSUME NEW t, GoodTrade(t), t # NoTrade, NEW c \in {t.a, t.b}, t.ready = {}, NEW o \in Offer
  PROVE  GoodTrade([t EXCEPT !.items = [t.items EXCEPT ![c] = Append(t.items[c], o)]])
<1> DEFINE items == [t.items EXCEPT ![c] = Append(t.items[c], o)]
<1>1. TradeTyped(t)
  BY DEF GoodTrade
<1>2. /\ t.a \in Character /\ t.b \in Character
      /\ t.player \in [{t.a, t.b} -> Address]
      /\ t.items \in [{t.a, t.b} -> Seq(Offer)]
      /\ t.ready \in SUBSET {t.a, t.b} /\ t.executing \in BOOLEAN
      /\ t.seen \in [{t.a, t.b} -> [{t.a, t.b} -> Seq(Offer)] \cup {Null}]
      /\ t = SessionOf(t.a, t.b, t.player, t.items, t.ready, t.executing, t.seen)
  BY <1>1, TradeFields
<1>3. items \in [{t.a, t.b} -> Seq(Offer)]
  <2>1. t.items[c] \in Seq(Offer)
    BY <1>2
  <2>2. Append(t.items[c], o) \in Seq(Offer)
    BY <2>1
  <2> QED
    BY <1>2, <2>2
<1> HIDE DEF items
<1>4. [t EXCEPT !.items = items] =
        SessionOf(t.a, t.b, t.player, items, t.ready, t.executing, t.seen)
  <2>1. t = SessionOf(t.a, t.b, t.player, t.items, t.ready, t.executing, t.seen)
    BY <1>2
  <2>2. [SessionOf(t.a, t.b, t.player, t.items, t.ready, t.executing, t.seen)
           EXCEPT !.items = items] =
          SessionOf(t.a, t.b, t.player, items, t.ready, t.executing, t.seen)
    BY SessionItems
  <2> QED
    BY <2>1, <2>2
<1>5. GoodTrade(SessionOf(t.a, t.b, t.player, items, t.ready, t.executing, t.seen))
  BY <1>2, <1>3, FieldsMakeTrade
<1> QED
  BY <1>4, <1>5 DEF items

-------------------------------------------------------------------------------
(* Saves, and memory.                                                        *)

\* The save of rows and gold.
SaveOf(i, g, b) == [inv |-> i, gold |-> g, same |-> b]

\* Rows and a sum of gold make a save.
LEMMA SaveOfIsTyped ==
  ASSUME NEW i, IsRows(i), NEW g \in 0 .. MaxGold, NEW b \in BOOLEAN
  PROVE  SaveTyped(SaveOf(i, g, b)) /\ SaveOf(i, g, b).inv = i
<1>1. SaveOf(i, g, b).inv = i
  BY DEF SaveOf
<1>2. SaveOf(i, g, b) \in [inv : {i}, gold : 0 .. MaxGold, same : BOOLEAN]
  <2> DEFINE golds == 0 .. MaxGold
  <2> HIDE DEF golds
  <2>1. g \in golds
    BY DEF golds
  <2>2. SaveOf(i, g, b) \in [inv : {i}, gold : golds, same : BOOLEAN]
    BY <2>1 DEF SaveOf
  <2> QED
    BY <2>2 DEF golds
<1> QED
  BY <1>1, <1>2 DEF SaveTyped

\* The snapshot of a player is a save.
LEMMA SnapshotIsTyped ==
  ASSUME NEW c \in Character, IsInventory(mem[c]), gold[c] \in 0 .. MaxGold
  PROVE  SaveTyped(Snapshot(c))
<1> DEFINE v == TRUE
           i == ItemInfos(mem[c])
<1>1. Snapshot(c) = SaveOf(i, gold[c], v)
  BY DEF Snapshot, SaveOf
<1>2. IsRows(i) /\ v \in BOOLEAN
  BY ItemInfosAreRows
<1> HIDE DEF i, v
<1> QED
  BY <1>1, <1>2, SaveOfIsTyped

\* A save that is overtaken by a change.
LEMMA OvertakenIsTyped ==
  ASSUME NEW s, SaveTyped(s), s # Null
  PROVE  SaveTyped([s EXCEPT !.same = FALSE])
<1> DEFINE golds == 0 .. MaxGold
           v == FALSE
<1>1. IsRows(s.inv) /\ s \in [inv : {s.inv}, gold : golds, same : BOOLEAN]
  BY DEF SaveTyped
<1> HIDE DEF golds, v
<1>2. /\ s.gold \in golds
      /\ [s EXCEPT !.same = v] = SaveOf(s.inv, s.gold, v)
  BY <1>1 DEF SaveOf
<1>3. v \in BOOLEAN
  BY DEF v
<1>4. SaveTyped(SaveOf(s.inv, s.gold, v))
  BY <1>1, <1>2, <1>3, SaveOfIsTyped DEF golds
<1>5. SaveTyped([s EXCEPT !.same = v])
  BY <1>2, <1>4
<1> QED
  BY <1>5 DEF v

\* Sessions that stay are typed as before.
LEMMA SessionsStayTyped ==
  ASSUME Typed, UNCHANGED sessions, \A c \in Character : Online(c) => Online(c)'
  PROVE  TradesTyped' /\ HandlerTyped'
<1>1. trade' = trade /\ handler' = handler
  BY DEF sessions
<1>2. TradesTyped'
  BY <1>1 DEF Typed, TradesTyped
<1>3. ASSUME ~GateFree'
      PROVE  /\ handler'.by \in Character /\ Online(handler.by)' /\ handler'.target \in Address
             /\ handler'.trade \in TradeId /\ trade'[handler'.trade].executing
  <2>1. /\ handler.by \in Character /\ Online(handler.by) /\ handler.target \in Address
        /\ handler.trade \in TradeId /\ trade[handler.trade].executing
    BY <1>1, <1>3 DEF Typed, HandlerTyped, GateFree
  <2>2. Online(handler.by)'
    BY <1>1, <2>1
  <2> QED
    BY <1>1, <2>1, <2>2
<1> QED
  BY <1>2, <1>3 DEF HandlerTyped

\* A character that plays changes what it has.
LEMMA ChangedStaysTyped ==
  ASSUME Typed, NEW c \in Character, NEW inv, IsInventory(inv),
         NEW g \in 0 .. MaxGold, Changed(c, inv, g)
  PROVE  Typed'
<1>1. /\ mem' = [mem EXCEPT ![c] = inv] /\ gold' = [gold EXCEPT ![c] = g]
      /\ dirty' = [dirty EXCEPT ![c] = TRUE]
      /\ save' = [save EXCEPT ![c] = IF save[c] = Null THEN Null
                                     ELSE [save[c] EXCEPT !.same = FALSE]]
      /\ at' = at /\ rows' = rows /\ bank' = bank /\ UNCHANGED sessions
  BY DEF Changed
<1>2. \A d \in Character : Online(d)' = Online(d)
  BY <1>1 DEF Online
<1>3. PlayersTyped'
  <2>1. /\ mem = [d \in Character |-> mem[d]]
        /\ \A d \in Character : Online(d) => IsInventory(mem[d])
        /\ gold \in [Character -> 0 .. MaxGold] /\ dirty \in [Character -> BOOLEAN]
    BY DEF Typed, PlayersTyped
  <2>2. /\ mem' = [d \in Character |-> mem'[d]]
        /\ \A d \in Character : Online(d)' => IsInventory(mem'[d])
    BY <1>1, <1>2, <2>1
  <2>3. gold' \in [Character -> 0 .. MaxGold] /\ dirty' \in [Character -> BOOLEAN]
    BY <1>1, <2>1
  <2> QED
    BY <1>1, <2>2, <2>3 DEF Typed, PlayersTyped
<1>4. StoredTyped'
  <2> DEFINE s == IF save[c] = Null THEN Null ELSE [save[c] EXCEPT !.same = FALSE]
  <2>1. /\ SaveTyped(save[c]) /\ save = [d \in Character |-> save[d]]
        /\ \A d \in Character : SaveTyped(save[d])
    BY DEF Typed, StoredTyped
  <2>2. SaveTyped(s)
    <3>1. CASE save[c] = Null
      BY <3>1, <2>1
    <3>2. CASE save[c] # Null
      BY <3>2, <2>1, OvertakenIsTyped
    <3> QED
      BY <3>1, <3>2
  <2>3. save' = [save EXCEPT ![c] = s]
    BY <1>1
  <2> HIDE DEF s
  <2>4. save' = [d \in Character |-> save'[d]] /\ \A d \in Character : SaveTyped(save'[d])
    BY <2>1, <2>2, <2>3
  <2> QED
    BY <1>1, <2>4 DEF Typed, StoredTyped
<1> QED
  BY <1>1, <1>2, <1>3, <1>4, SessionsStayTyped DEF Typed

\* What loading the rows of the player at an address leaves in memory.
LEMMA LoadedStaysTyped ==
  ASSUME PlayersTyped, rows \in [Character -> AllRows], NEW x \in Address, NEW m,
         m = [c \in Character |-> m[c]],
         \A c \in Character : Online(c) => IsInventory(m[c]),
         NEW n \in Loaded(m, x)
  PROVE  n = [c \in Character |-> n[c]] /\ \A c \in Character : Online(c) => IsInventory(n[c])
<1>1. CASE n = m
  BY <1>1
<1>2. CASE n # m
  <2> DEFINE c == at[x]
             new == SetSlotItems(m[c], rows[c])
  <2>1. c # Null /\ n = [m EXCEPT ![c] = new] /\ c \in Character
    BY <1>2 DEF Loaded, PlayersTyped
  <2>2. Online(c) /\ IsInventory(m[c])
    BY <2>1 DEF Online
  <2>3. IsInventory(new)
    BY <2>1, <2>2, AllRowsAreRows, SetSlotItemsIsInventory
  <2> HIDE DEF c, new
  <2> QED
    BY <2>1, <2>3
<1> QED
  BY <1>1, <1>2

\* One session goes on as another record, or a new one begins.
LEMMA TradeStaysGood ==
  ASSUME TradesTyped, NEW t \in TradeId, NEW s, GoodTrade(s), trade' = [trade EXCEPT ![t] = s],
         trade = [u \in TradeId |-> trade[u]]
  PROVE  TradesTyped'
BY DEF TradesTyped

-------------------------------------------------------------------------------
(* Every step keeps the types.                                               *)

\* Nobody plays at first, and the rows are rows.
LEMMA InitTyped == Init => Typed
<1> SUFFICES ASSUME Init PROVE Typed
  OBVIOUS
<1>1. \A c \in Character : ~Online(c)
  BY TradeAssumption DEF Init, Online
<1>2. PlayersTyped
  BY <1>1, TradeAssumption DEF Init, PlayersTyped
<1>3. \A c \in Character : rows[c] \in AllRows
  BY AllRowsAreRows, TradeAssumption DEF Init
<1>4. StoredTyped
  <2>1. save = [c \in Character |-> save[c]] /\ \A c \in Character : SaveTyped(save[c])
    BY DEF Init, SaveTyped
  <2>2. rows = [c \in Character |-> rows[c]] /\ bank \in [Character -> 0 .. MaxGold]
    BY TradeAssumption DEF Init
  <2>3. rows \in [Character -> AllRows]
    BY <1>3, <2>2
  <2> QED
    BY <2>1, <2>2, <2>3 DEF StoredTyped
<1>5. TradesTyped
  BY NoTradeIsGood DEF Init, TradesTyped
<1>6. HandlerTyped
  BY DEF Init, HandlerTyped, GateFree
<1> QED
  BY <1>2, <1>4, <1>5, <1>6 DEF Typed

\* A login: fresh inventories with the rows laid over them.
LEMMA LoginTyped ==
  ASSUME Typed, NEW c \in Character, Login(c)
  PROVE  Typed'
<1> DEFINE new == SetSlotItems(NewInventory, rows[c])
<1>1. PICK x \in Address : at[x] = Null /\ at' = [at EXCEPT ![x] = c]
  BY DEF Login
<1>2. /\ mem' = [mem EXCEPT ![c] = new] /\ gold' = [gold EXCEPT ![c] = bank[c]]
      /\ dirty' = [dirty EXCEPT ![c] = FALSE] /\ ~Online(c)
      /\ UNCHANGED sessions /\ rows' = rows /\ bank' = bank /\ save' = save
  BY DEF Login, stored
<1>3. rows[c] \in AllRows
  BY DEF Typed, StoredTyped
<1>4. IsInventory(new)
  BY <1>3, AllRowsAreRows, NewInventoryIsInventory, SetSlotItemsIsInventory
<1> HIDE DEF new
<1>5. /\ at \in [Address -> Character \cup {Null}]
      /\ \A y, z \in Address : at[y] = at[z] /\ at[y] # Null => y = z
      /\ mem = [d \in Character |-> mem[d]]
      /\ \A d \in Character : Online(d) => IsInventory(mem[d])
      /\ gold \in [Character -> 0 .. MaxGold] /\ dirty \in [Character -> BOOLEAN]
      /\ bank \in [Character -> 0 .. MaxGold]
  BY DEF Typed, PlayersTyped, StoredTyped
<1>6. \A y \in Address : at[y] # c
  BY <1>2 DEF Online
<1>7. /\ at' \in [Address -> Character \cup {Null}]
      /\ \A y, z \in Address : at'[y] = at'[z] /\ at'[y] # Null => y = z
      /\ \A d \in Character : Online(d) => Online(d)'
      /\ \A d \in Character \ {c} : Online(d)' => Online(d)
  BY <1>1, <1>5, <1>6, TradeAssumption DEF Online
<1>8. /\ mem' = [d \in Character |-> mem'[d]]
      /\ \A d \in Character : Online(d)' => IsInventory(mem'[d])
      /\ dirty' \in [Character -> BOOLEAN]
  BY <1>2, <1>4, <1>5, <1>7
<1>9. gold' \in [Character -> 0 .. MaxGold]
  BY <1>2, <1>5
<1>10. PlayersTyped'
  BY <1>7, <1>8, <1>9 DEF PlayersTyped
<1>11. StoredTyped'
  BY <1>2 DEF Typed, StoredTyped
<1> QED
  BY <1>2, <1>7, <1>10, <1>11, SessionsStayTyped DEF Typed

\* Saves, under way and written.
LEMMA SavingTyped ==
  ASSUME Typed, NEW c \in Character, StartSave(c) \/ EndSave(c) \/ SaveFails(c)
  PROVE  Typed'
<1>1. UNCHANGED <<at, mem, gold>> /\ UNCHANGED sessions
  BY DEF StartSave, EndSave, SaveFails, player
<1>2. \A d \in Character : Online(d)' = Online(d)
  BY <1>1 DEF Online
<1>3. dirty' \in [Character -> BOOLEAN]
  <2>1. dirty \in [Character -> BOOLEAN]
    BY DEF Typed, PlayersTyped
  <2>2. dirty' = dirty \/ \E b \in BOOLEAN : dirty' = [dirty EXCEPT ![c] = b]
    BY <2>1 DEF StartSave, EndSave, SaveFails, player
  <2> QED
    BY <2>1, <2>2
<1>4. PlayersTyped'
  BY <1>1, <1>2, <1>3 DEF Typed, PlayersTyped
<1>5. StoredTyped'
  <2>1. /\ save = [d \in Character |-> save[d]] /\ \A d \in Character : SaveTyped(save[d])
        /\ rows \in [Character -> AllRows] /\ bank \in [Character -> 0 .. MaxGold]
        /\ SaveTyped(Null)
    BY DEF Typed, StoredTyped, SaveTyped
  <2>2. CASE StartSave(c)
    <3>1. save' = [save EXCEPT ![c] = Snapshot(c)] /\ rows' = rows /\ bank' = bank /\ Online(c)
      BY <2>2 DEF StartSave
    <3>2. SaveTyped(Snapshot(c))
      BY <3>1, SnapshotIsTyped DEF Typed, PlayersTyped
    <3>3. save' = [d \in Character |-> save'[d]] /\ \A d \in Character : SaveTyped(save'[d])
      BY <2>1, <3>1, <3>2
    <3> QED
      BY <2>1, <3>1, <3>3 DEF StoredTyped
  <2>3. CASE SaveFails(c)
    <3>1. save' = [save EXCEPT ![c] = Null] /\ rows' = rows /\ bank' = bank
      BY <2>3 DEF SaveFails
    <3>2. save' = [d \in Character |-> save'[d]] /\ \A d \in Character : SaveTyped(save'[d])
      BY <2>1, <3>1
    <3> QED
      BY <2>1, <3>1, <3>2 DEF StoredTyped
  <2>4. CASE EndSave(c)
    <3> DEFINE i == save[c].inv
               g == save[c].gold
               golds == 0 .. MaxGold
    <3>1. /\ save' = [save EXCEPT ![c] = Null] /\ rows' = [rows EXCEPT ![c] = i]
          /\ bank' = [bank EXCEPT ![c] = g] /\ save[c] # Null
      BY <2>4 DEF EndSave
    <3>2. i \in AllRows
      BY <2>1, <3>1, AllRowsAreRows DEF SaveTyped
    <3>3. g \in golds
      <4>1. save[c] \in [inv : {save[c].inv}, gold : golds, same : BOOLEAN]
        BY <2>1, <3>1 DEF SaveTyped
      <4> HIDE DEF golds
      <4> QED
        BY <4>1
    <3> HIDE DEF i, g, golds
    <3>4. save' = [d \in Character |-> save'[d]] /\ \A d \in Character : SaveTyped(save'[d])
      BY <2>1, <3>1
    <3>5. rows' \in [Character -> AllRows] /\ bank' \in [Character -> 0 .. MaxGold]
      BY <2>1, <3>1, <3>2, <3>3 DEF golds
    <3> QED
      BY <3>4, <3>5 DEF StoredTyped
  <2> QED
    BY <2>2, <2>3, <2>4
<1> QED
  BY <1>1, <1>2, <1>4, <1>5, SessionsStayTyped DEF Typed

\* A player leaves with a last save.
LEMMA DisconnectTyped ==
  ASSUME Typed, NEW c \in Character, Disconnect(c)
  PROVE  Typed'
<1> DEFINE x == PlayerOf(c)
           s == IF dirty[c] THEN Snapshot(c) ELSE Null
<1>1. /\ GateFree /\ Online(c) /\ save' = [save EXCEPT ![c] = s]
      /\ at' = [at EXCEPT ![x] = Null] /\ mem' = [mem EXCEPT ![c] = Null]
      /\ gold' = [gold EXCEPT ![c] = 0] /\ dirty' = [dirty EXCEPT ![c] = FALSE]
      /\ rows' = rows /\ bank' = bank /\ UNCHANGED sessions
  BY DEF Disconnect
<1>2. x \in Address /\ at[x] = c
  BY <1>1, PlayerOfFacts
<1>3. /\ at \in [Address -> Character \cup {Null}]
      /\ \A y, z \in Address : at[y] = at[z] /\ at[y] # Null => y = z
      /\ mem = [d \in Character |-> mem[d]]
      /\ \A d \in Character : Online(d) => IsInventory(mem[d])
      /\ gold \in [Character -> 0 .. MaxGold] /\ dirty \in [Character -> BOOLEAN]
      /\ save = [d \in Character |-> save[d]] /\ \A d \in Character : SaveTyped(save[d])
  BY DEF Typed, PlayersTyped, StoredTyped
<1>4. SaveTyped(s)
  <2>1. SaveTyped(Snapshot(c)) /\ SaveTyped(Null)
    BY <1>1, <1>3, SnapshotIsTyped DEF SaveTyped
  <2> QED
    BY <2>1
<1> HIDE DEF x, s
<1>5. /\ at' \in [Address -> Character \cup {Null}]
      /\ \A y \in Address : at'[y] = IF y = x THEN Null ELSE at[y]
  BY <1>1, <1>3
<1>6. \A y, z \in Address : at'[y] = at'[z] /\ at'[y] # Null => y = z
  BY <1>3, <1>5
<1>7. \A d \in Character : Online(d)' => Online(d) /\ d # c
  <2> SUFFICES ASSUME NEW d \in Character, NEW y \in Address, at'[y] = d
               PROVE  Online(d) /\ d # c
    BY DEF Online
  <2>1. y # x /\ at[y] = d
    BY <1>5, TradeAssumption
  <2>2. d # c
    BY <1>2, <1>3, <2>1, TradeAssumption
  <2> QED
    BY <2>1, <2>2 DEF Online
<1>8. /\ mem' = [d \in Character |-> mem'[d]]
      /\ \A d \in Character : Online(d)' => IsInventory(mem'[d])
      /\ dirty' \in [Character -> BOOLEAN]
  BY <1>1, <1>3, <1>7
<1>9. gold' \in [Character -> 0 .. MaxGold]
  BY <1>1, <1>3, TradeAssumption
<1>10. PlayersTyped'
  BY <1>5, <1>6, <1>8, <1>9 DEF PlayersTyped
<1>11. StoredTyped'
  <2>1. save' = [d \in Character |-> save'[d]] /\ \A d \in Character : SaveTyped(save'[d])
    BY <1>1, <1>3, <1>4
  <2> QED
    BY <1>1, <2>1 DEF Typed, StoredTyped
<1>12. trade' = trade /\ handler' = Idle
  BY <1>1 DEF sessions, GateFree
<1>13. TradesTyped' /\ HandlerTyped'
  BY <1>12 DEF Typed, TradesTyped, HandlerTyped, GateFree
<1> QED
  BY <1>10, <1>11, <1>13 DEF Typed

\* What a character buys costs a number of pieces.
LEMMA CostIsNat == \A p, n \in Nat : p * n \in Nat
OBVIOUS

\* Every way to change memory alone leaves an inventory and a sum of gold.
LEMMA ShopChanges ==
  ASSUME Typed, NEW c \in Character, Shop(c)
  PROVE  \E inv, g : IsInventory(inv) /\ g \in 0 .. MaxGold /\ Changed(c, inv, g)
<1>1. /\ \A d \in Character : Online(d) => IsInventory(mem[d])
      /\ gold[c] \in 0 .. MaxGold /\ MaxGold \in Nat
  BY TradeAssumption DEF Typed, PlayersTyped
<1>2. ASSUME NEW i \in Item, NEW n \in 1 .. MaxStack[i], Buy(c, i, n)
      PROVE  \E inv, g : IsInventory(inv) /\ g \in 0 .. MaxGold /\ Changed(c, inv, g)
  <2> DEFINE cost == Price[i] * n
             inv == AddItem(mem[c], i, n)
  <2>1. /\ Online(c) /\ cost <= gold[c]
        /\ inv = Refused => Changed(c, mem[c], gold[c])
        /\ inv # Refused => Changed(c, inv, gold[c] - cost)
    BY <1>2 DEF Buy, TrySpendGold
  <2>2. cost \in Nat
    <3>1. Price[i] \in Nat /\ n \in Nat
      BY TradeAssumption, InventoryAssumption
    <3> QED
      BY <3>1, CostIsNat
  <2>3. IsInventory(mem[c]) /\ n \in Nat
    BY <1>1, <2>1, InventoryAssumption
  <2>4. inv # Refused => IsInventory(inv)
    BY <2>3, AddItemFacts
  <2> HIDE DEF cost, inv
  <2>5. gold[c] - cost \in 0 .. MaxGold
    BY <1>1, <2>1, <2>2
  <2> QED
    BY <1>1, <2>1, <2>3, <2>4, <2>5
<1>3. ASSUME NEW i \in Item, NEW n \in 1 .. MaxStack[i], PickUp(c, i, n)
      PROVE  \E inv, g : IsInventory(inv) /\ g \in 0 .. MaxGold /\ Changed(c, inv, g)
  <2> DEFINE inv == AddItem(mem[c], i, n)
  <2>1. Online(c) /\ inv # Refused /\ Changed(c, inv, gold[c])
    BY <1>3 DEF PickUp
  <2>2. IsInventory(mem[c]) /\ n \in Nat
    BY <1>1, <2>1, InventoryAssumption
  <2>3. IsInventory(inv)
    BY <2>1, <2>2, AddItemFacts
  <2> HIDE DEF inv
  <2> QED
    BY <1>1, <2>1, <2>3
<1>4. ASSUME Online(c), NEW s \in DOMAIN mem[c], NEW n \in 1 .. mem[c][s].count, Sell(c, s, n)
      PROVE  \E inv, g : IsInventory(inv) /\ g \in 0 .. MaxGold /\ Changed(c, inv, g)
  <2> DEFINE i == mem[c][s].item
             inv == RemoveItemBySlot(mem[c], s, i, n)
             paid == SellPrice[i] * n
  <2>1. i # NoItem /\ n <= mem[c][s].count /\ paid <= MaxGold - gold[c]
        /\ Changed(c, inv, gold[c] + paid)
    BY <1>4 DEF Sell, TryAddGold
  <2>2. IsInventory(mem[c]) /\ i \in Item /\ n \in Nat \ {0}
    <3>1. IsInventory(mem[c])
      BY <1>1, <1>4
    <3>2. mem[c][s] \in Slot
      BY <3>1 DEF IsInventory
    <3> QED
      BY <2>1, <3>1, <3>2 DEF Slot
  <2>3. HasItemBySlot(mem[c], s, i, n)
    <3>1. mem[c][s].count \in Nat
      BY <2>2 DEF IsInventory, Slot
    <3> QED
      BY <2>1, <2>2, <3>1 DEF HasItemBySlot
  <2>4. paid \in Nat
    <3>1. SellPrice[i] \in Nat /\ n \in Nat
      BY <2>2, TradeAssumption
    <3> QED
      BY <3>1, CostIsNat
  <2> HIDE DEF i
  <2>5. IsInventory(inv)
    BY <2>2, <2>3, RemoveItemBySlotFacts
  <2> HIDE DEF inv, paid
  <2>6. gold[c] + paid \in 0 .. MaxGold
    BY <1>1, <2>1, <2>4
  <2> QED
    BY <2>1, <2>5, <2>6
<1>5. ASSUME Online(c), NEW s \in DOMAIN mem[c], NEW n \in 1 .. mem[c][s].count,
             UseItem(c, s, mem[c][s].item, n)
      PROVE  \E inv, g : IsInventory(inv) /\ g \in 0 .. MaxGold /\ Changed(c, inv, g)
  <2> DEFINE i == mem[c][s].item
             inv == RemoveItemBySlot(mem[c], s, i, n)
  <2>1. i \in Item /\ HasItemBySlot(mem[c], s, i, n) /\ Changed(c, inv, gold[c])
    BY <1>5, TradeAssumption DEF UseItem, CanUseItem
  <2>2. IsInventory(mem[c])
    BY <1>1, <1>5
  <2>3. n \in Nat \ {0}
    BY <2>2 DEF IsInventory, Slot
  <2> HIDE DEF i
  <2>4. IsInventory(inv)
    BY <2>1, <2>2, <2>3, RemoveItemBySlotFacts
  <2> HIDE DEF inv
  <2> QED
    BY <1>1, <2>1, <2>4
<1>6. ASSUME Online(c), NEW s \in DOMAIN mem[c], NEW to \in DOMAIN mem[c], Rearrange(c, s, to)
      PROVE  \E inv, g : IsInventory(inv) /\ g \in 0 .. MaxGold /\ Changed(c, inv, g)
  <2>1. MoveItemSlot(mem[c], s, to) # Refused /\ Changed(c, MoveItemSlot(mem[c], s, to), gold[c])
    BY <1>6 DEF Rearrange
  <2>2. IsInventory(MoveItemSlot(mem[c], s, to))
    BY <1>1, <1>6, <2>1, MoveItemSlotFacts
  <2> QED
    BY <1>1, <2>1, <2>2
<1> QED
  BY <1>2, <1>3, <1>4, <1>5, <1>6 DEF Shop

\* Buying, selling, using, picking up and rearranging.
LEMMA ShopTyped ==
  ASSUME Typed, NEW c \in Character, Shop(c)
  PROVE  Typed'
<1>1. PICK inv, g : IsInventory(inv) /\ g \in 0 .. MaxGold /\ Changed(c, inv, g)
  BY ShopChanges
<1> QED
  BY <1>1, ChangedStaysTyped

\* What the trade handlers leave alone stays typed.
LEMMA OwnedStaysTyped ==
  ASSUME Typed, UNCHANGED <<player, save, bank>>, rows' \in [Character -> AllRows]
  PROVE  PlayersTyped' /\ StoredTyped' /\ \A c \in Character : Online(c)' = Online(c)
<1>1. UNCHANGED <<at, mem, gold, dirty, save, bank>>
  BY DEF player
<1>2. \A c \in Character : Online(c)' = Online(c)
  BY <1>1 DEF Online
<1>3. PlayersTyped'
  BY <1>1, <1>2 DEF Typed, PlayersTyped
<1>4. StoredTyped'
  BY <1>1 DEF Typed, StoredTyped
<1> QED
  BY <1>2, <1>3, <1>4

\* A session that is deleted.
LEMMA DeletedStaysGood ==
  ASSUME IInv, NEW t \in TradeId, Deleted(t)
  PROVE  TradesTyped'
<1>1. TradesTyped /\ trade' = [trade EXCEPT ![t] = NoTrade] /\ trade = [u \in TradeId |-> trade[u]]
  BY DEF IInv, Typed, PairedInv, SessionsTyped, Deleted
<1> QED
  BY <1>1, NoTradeIsGood, TradeStaysGood

\* A trade begins.
LEMMA AcceptTyped ==
  ASSUME IInv, NEW a \in Character, NEW c \in Character, Accept(a, c)
  PROVE  Typed'
<1>1. /\ Online(a) /\ Online(c) /\ handler = Idle /\ handler' = Idle
      /\ UNCHANGED <<player, save, bank>> /\ rows' = rows
  BY DEF Accept, GateFree, stored
<1>2. PICK t \in TradeId : trade' = [trade EXCEPT ![t] = NewTrade(a, c)]
  BY DEF Accept, Start, CreateTradeSession
<1>3. GoodTrade(NewTrade(a, c))
  BY <1>1, NewTradeIsGood
<1>4. TradesTyped'
  <2>1. TradesTyped /\ trade = [u \in TradeId |-> trade[u]]
    BY DEF IInv, Typed, PairedInv, SessionsTyped
  <2> QED
    BY <1>2, <1>3, <2>1, TradeStaysGood
<1>5. HandlerTyped'
  BY <1>1 DEF HandlerTyped, GateFree
<1>6. rows' \in [Character -> AllRows]
  BY <1>1 DEF IInv, Typed, StoredTyped
<1> QED
  BY <1>1, <1>4, <1>5, <1>6, OwnedStaysTyped DEF IInv, Typed

\* The session of a character that is in a trade.
LEMMA SessionOfCharacter ==
  ASSUME IInv, NEW c \in Character, inTrade[c] # Null
  PROVE  /\ inTrade[c] \in TradeId /\ trade[inTrade[c]] # NoTrade
         /\ GoodTrade(trade[inTrade[c]])
         /\ c \in {trade[inTrade[c]].a, trade[inTrade[c]].b}
         /\ IsExchange(trade[inTrade[c]])
<1> DEFINE t == inTrade[c]
           s == trade[t]
<1>1. /\ t \in TradeId /\ s # NoTrade /\ c \in {s.a, s.b} /\ s.a # s.b
  BY DEF IInv, PairedInv, SessionsTyped, TradeIsPaired, Sides
<1>2. GoodTrade(s)
  BY <1>1 DEF IInv, Typed, TradesTyped
<1> HIDE DEF s
<1>3. /\ s.a \in Character /\ s.b \in Character
      /\ s.items \in [{s.a, s.b} -> Seq(Offer)]
  BY <1>1, <1>2, TradeFields DEF GoodTrade
<1>4. IsExchange(s)
  BY <1>1, <1>3 DEF IsExchange
<1> QED
  BY <1>1, <1>2, <1>4 DEF s

\* An item is offered: one that the player holds.
LEMMA UploadItemTyped ==
  ASSUME IInv, NEW c \in Character, NEW s \in DOMAIN mem[c], NEW n \in 1 .. mem[c][s].count,
         UploadItem(c, s, mem[c][s].item, n)
  PROVE  Typed'
<1> DEFINE t == inTrade[c]
           session == trade[t]
           o == [slot |-> s, item |-> mem[c][s].item, count |-> n]
           items == [session.items EXCEPT ![c] = Append(session.items[c], o)]
           new == [session EXCEPT !.items = items]
<1>1. /\ t # Null /\ session.ready = {} /\ Online(c) /\ handler = Idle /\ handler' = Idle
      /\ UNCHANGED <<player, save, bank>> /\ rows' = rows
  BY DEF UploadItem, GateFree, stored
<1>2. trade' = [trade EXCEPT ![t] = new]
  BY DEF UploadItem
<1>3. t \in TradeId /\ session # NoTrade /\ GoodTrade(session) /\ c \in {session.a, session.b}
  BY <1>1, SessionOfCharacter
<1>4. o \in Offer
  <2>1. IsInventory(mem[c])
    BY <1>1 DEF IInv, Typed, PlayersTyped
  <2>2. /\ s \in Nat /\ mem[c][s] \in Slot
        /\ mem[c][s].item = NoItem <=> mem[c][s].count = 0
    BY <2>1 DEF IsInventory
  <2>3. n \in Nat \ {0} /\ mem[c][s].item # NoItem
    BY <2>2 DEF Slot
  <2> QED
    BY <2>2, <2>3 DEF Slot, Offer
<1> HIDE DEF o, session
<1>5. GoodTrade(new)
  BY <1>1, <1>3, <1>4, UploadedIsGood
<1> HIDE DEF new, t
<1>6. TradesTyped'
  <2>1. TradesTyped /\ trade = [u \in TradeId |-> trade[u]]
    BY DEF IInv, Typed, PairedInv, SessionsTyped
  <2> QED
    BY <1>2, <1>3, <1>5, <2>1, TradeStaysGood
<1>7. HandlerTyped'
  BY <1>1 DEF HandlerTyped, GateFree
<1>8. rows' \in [Character -> AllRows]
  BY <1>1 DEF IInv, Typed, StoredTyped
<1> QED
  BY <1>1, <1>6, <1>7, <1>8, OwnedStaysTyped DEF IInv, Typed

\* A trade is cancelled.
LEMMA CancelTyped ==
  ASSUME IInv, NEW c \in Character, Cancel(c)
  PROVE  Typed'
<1>1. /\ inTrade[c] # Null /\ Deleted(inTrade[c]) /\ handler = Idle /\ handler' = Idle
      /\ UNCHANGED <<player, save, bank>> /\ rows' = rows
  BY DEF Cancel, CancelTrade, GateFree, stored
<1>2. TradesTyped'
  BY <1>1, SessionOfCharacter, DeletedStaysGood
<1>3. HandlerTyped'
  BY <1>1 DEF HandlerTyped, GateFree
<1>4. rows' \in [Character -> AllRows]
  BY <1>1 DEF IInv, Typed, StoredTyped
<1> QED
  BY <1>1, <1>2, <1>3, <1>4, OwnedStaysTyped DEF IInv, Typed

\* The player of the other side has an address.
LEMMA TargetHasAddress ==
  ASSUME IInv, NEW c \in Character, inTrade[c] # Null
  PROVE  GetTargetPlayer(c) \in Address
<1> DEFINE t == trade[inTrade[c]]
<1>1. GoodTrade(t) /\ t # NoTrade
  BY SessionOfCharacter
<1> HIDE DEF t
<1>2. t.player \in [{t.a, t.b} -> Address]
  BY <1>1, TradeFields DEF GoodTrade
<1>3. t.player[t.a] \in Address /\ t.player[t.b] \in Address
  BY <1>2
<1> QED
  BY <1>3 DEF GetTargetPlayer, t

\* Ready, and the transaction with it.
LEMMA ReadyTyped ==
  ASSUME IInv, NEW c \in Character, Ready(c)
  PROVE  Typed'
<1> DEFINE t == inTrade[c]
           session == trade[t]
           done == [Declared(session, c) EXCEPT !.executing = TRUE]
<1>1. /\ t # Null /\ Online(c) /\ handler = Idle /\ UNCHANGED <<player, save, bank>>
  BY DEF Ready, ReadyFirst, ReadyRefused, ReadyExecutes, CommitUnanswered, GateFree, stored
<1>2. /\ t \in TradeId /\ session # NoTrade /\ GoodTrade(session) /\ c \in {session.a, session.b}
      /\ IsExchange(session)
  BY <1>1, SessionOfCharacter
<1>3. GoodTrade(Declared(session, c)) /\ GoodTrade(done)
  BY <1>2, DeclaredIsGood
<1>4. /\ rows \in [Character -> AllRows]
      /\ Execute(session) # RolledBack => Execute(session) \in [Character -> AllRows]
  <2>1. rows \in [Character -> AllRows]
    BY DEF IInv, Typed, StoredTyped
  <2> HIDE DEF session
  <2> QED
    BY <1>2, <2>1, ExecuteFacts
<1>5. TradesTyped /\ trade = [u \in TradeId |-> trade[u]]
  BY DEF IInv, Typed, PairedInv, SessionsTyped
<1>6. CASE ReadyFirst(c)
  <2>1. trade' = [trade EXCEPT ![t] = Declared(session, c)] /\ handler' = Idle /\ rows' = rows
    BY <1>1, <1>6 DEF ReadyFirst, stored
  <2> HIDE DEF t, session
  <2>2. TradesTyped'
    BY <1>2, <1>3, <1>5, <2>1, TradeStaysGood
  <2>3. HandlerTyped'
    BY <2>1 DEF HandlerTyped, GateFree
  <2> QED
    BY <1>1, <1>4, <2>1, <2>2, <2>3, OwnedStaysTyped DEF IInv, Typed
<1>7. CASE ReadyExecutes(c)
  <2>1. /\ trade' = [trade EXCEPT ![t] = done] /\ rows' = Execute(session)
        /\ handler' = [by |-> c, trade |-> t, target |-> GetTargetPlayer(c)]
        /\ Execute(session) # RolledBack
    BY <1>7 DEF ReadyExecutes, Agreed
  <2>2. GetTargetPlayer(c) \in Address
    BY <1>1, TargetHasAddress
  <2>3. done.executing
    <3>1. SameSides(session, Declared(session, c))
      BY <1>2, DeclaredKeepsSides DEF IInv, PairedInv, SessionsTyped
    <3>2. "executing" \in DOMAIN Declared(session, c)
      BY <3>1 DEF SameSides, IsSession
    <3> QED
      BY <3>2
  <2> HIDE DEF t, session, done
  <2>4. TradesTyped' /\ trade'[t] = done
    BY <1>2, <1>3, <1>5, <2>1, TradeStaysGood
  <2>5. PlayersTyped' /\ StoredTyped' /\ Online(c)'
    BY <1>1, <1>4, <2>1, OwnedStaysTyped DEF IInv
  <2>6. handler'.by = c /\ handler'.trade = t /\ handler'.target \in Address
    BY <2>1, <2>2
  <2>7. HandlerTyped'
    BY <1>2, <2>3, <2>4, <2>5, <2>6 DEF HandlerTyped
  <2> QED
    BY <2>4, <2>5, <2>7 DEF Typed
<1>8. CASE ReadyRefused(c) \/ CommitUnanswered(c)
  <2>1. /\ Deleted(t) /\ handler' = Idle
        /\ rows' = rows \/ (rows' = Execute(session) /\ Execute(session) # RolledBack)
    BY <1>1, <1>8 DEF ReadyRefused, CommitUnanswered, Agreed, stored
  <2> HIDE DEF t, session
  <2>2. TradesTyped'
    BY <1>2, <2>1, DeletedStaysGood
  <2>3. HandlerTyped'
    BY <2>1 DEF HandlerTyped, GateFree
  <2> QED
    BY <1>1, <1>4, <2>1, <2>2, <2>3, OwnedStaysTyped DEF IInv, Typed
<1> QED
  BY <1>6, <1>7, <1>8 DEF Ready

\* The rows are laid over two inventories.
LEMMA LoadInventoriesTyped ==
  ASSUME IInv, LoadInventories
  PROVE  Typed'
<1> DEFINE x == PlayerOf(handler.by)
           y == handler.target
<1>1. /\ ~GateFree /\ handler' = Idle
      /\ \E m \in Loaded(mem, x) : mem' \in Loaded(m, y)
      /\ UNCHANGED <<at, gold, dirty, save, rows, bank>>
  BY DEF LoadInventories, stored
<1>2. /\ handler.by \in Character /\ Online(handler.by) /\ y \in Address
      /\ handler.trade \in TradeId
  BY <1>1 DEF IInv, Typed, HandlerTyped
<1>3. x \in Address
  BY <1>2, PlayerOfFacts
<1>4. PlayersTyped /\ rows \in [Character -> AllRows]
      /\ mem = [c \in Character |-> mem[c]] /\ \A c \in Character : Online(c) => IsInventory(mem[c])
  BY DEF IInv, Typed, PlayersTyped, StoredTyped
<1> HIDE DEF x, y
<1>5. PICK m \in Loaded(mem, x) : mem' \in Loaded(m, y)
  BY <1>1
<1>6. m = [c \in Character |-> m[c]] /\ \A c \in Character : Online(c) => IsInventory(m[c])
  BY <1>3, <1>4, LoadedStaysTyped
<1>7. mem' = [c \in Character |-> mem'[c]] /\ \A c \in Character : Online(c) => IsInventory(mem'[c])
  <2> DEFINE n == mem'
  <2>1. n \in Loaded(m, y)
    BY <1>5
  <2> HIDE DEF n
  <2>2. n = [c \in Character |-> n[c]] /\ \A c \in Character : Online(c) => IsInventory(n[c])
    BY <1>2, <1>4, <1>6, <2>1, LoadedStaysTyped
  <2> QED
    BY <2>2 DEF n
<1>8. \A c \in Character : Online(c)' = Online(c)
  BY <1>1 DEF Online
<1>9. PlayersTyped'
  BY <1>1, <1>4, <1>7, <1>8 DEF PlayersTyped
<1>10. StoredTyped'
  BY <1>1 DEF IInv, Typed, StoredTyped
<1>11. TradesTyped'
  <2>1. CASE Deleted(handler.trade)
    BY <1>2, <2>1, DeletedStaysGood
  <2>2. CASE trade' = trade
    BY <2>2 DEF IInv, Typed, TradesTyped
  <2> QED
    BY <2>1, <2>2 DEF LoadInventories
<1>12. HandlerTyped'
  BY <1>1 DEF HandlerTyped, GateFree
<1> QED
  BY <1>9, <1>10, <1>11, <1>12 DEF Typed

\* Nothing but the rows is left.
LEMMA CrashTyped ==
  ASSUME Typed, Crash
  PROVE  Typed'
<1>1. /\ at' = [x \in Address |-> Null] /\ mem' = [c \in Character |-> Null]
      /\ gold' = [c \in Character |-> 0] /\ dirty' = [c \in Character |-> FALSE]
      /\ save' = [c \in Character |-> Null] /\ trade' = [t \in TradeId |-> NoTrade]
      /\ handler' = Idle /\ rows' = rows /\ bank' = bank
  BY DEF Crash
<1>2. \A c \in Character : ~Online(c)'
  BY <1>1, TradeAssumption DEF Online
<1>3. PlayersTyped'
  BY <1>1, <1>2, TradeAssumption DEF PlayersTyped
<1>4. StoredTyped'
  <2>1. save' = [c \in Character |-> save'[c]] /\ \A c \in Character : SaveTyped(save'[c])
    BY <1>1 DEF SaveTyped
  <2> QED
    BY <1>1, <2>1 DEF Typed, StoredTyped
<1>5. TradesTyped'
  BY <1>1, NoTradeIsGood DEF TradesTyped
<1>6. HandlerTyped'
  BY <1>1 DEF HandlerTyped, GateFree
<1> QED
  BY <1>3, <1>4, <1>5, <1>6 DEF Typed

\* Every step keeps the invariant.
LEMMA NextIInv == IInv /\ [Next]_vars => IInv'
<1> SUFFICES ASSUME IInv, [Next]_vars PROVE Typed'
  BY NextPairedInv DEF IInv
<1>1. CASE UNCHANGED vars
  <2>1. UNCHANGED <<player, save, bank>> /\ rows' = rows /\ UNCHANGED sessions
    BY <1>1 DEF vars, stored
  <2>2. rows' \in [Character -> AllRows]
    BY <2>1 DEF IInv, Typed, StoredTyped
  <2>3. PlayersTyped' /\ StoredTyped' /\ \A c \in Character : Online(c)' = Online(c)
    BY <2>1, <2>2, OwnedStaysTyped DEF IInv
  <2> QED
    BY <2>1, <2>3, SessionsStayTyped DEF IInv, Typed
<1>2. ASSUME NEW c \in Character,
             Login(c) \/ Disconnect(c) \/ StartSave(c) \/ EndSave(c) \/ SaveFails(c) \/ Shop(c)
      PROVE  Typed'
  BY <1>2, LoginTyped, DisconnectTyped, SavingTyped, ShopTyped DEF IInv
<1>3. ASSUME NEW c \in Character, Offers(c) \/ Ready(c) \/ Cancel(c)
      PROVE  Typed'
  BY <1>3, UploadItemTyped, ReadyTyped, CancelTyped DEF Offers
<1>4. ASSUME NEW c \in Character, NEW a \in Character, Accept(a, c)
      PROVE  Typed'
  BY <1>4, AcceptTyped
<1>5. CASE LoadInventories \/ Crash
  BY <1>5, LoadInventoriesTyped, CrashTyped DEF IInv
<1> QED
  BY <1>1, <1>2, <1>3, <1>4, <1>5 DEF Next

\* It holds at first.
LEMMA InitIInv == Init => IInv
BY InitPairedInv, InitTyped DEF IInv

-------------------------------------------------------------------------------
(* The theorems.                                                             *)

\* AddItem puts in all that fits or nothing, in every inventory a character can
\* come to have.
THEOREM AddItemExactness == Spec => []AddItemIsExact
<1>1. IInv => AddItemIsExact
  <2> SUFFICES ASSUME IInv PROVE AddItemIsExact
    OBVIOUS
  <2>1. TypeOK
    BY IInvTypes
  <2>2. ASSUME NEW c \in Character, Online(c), NEW i \in Item, NEW n \in 1 .. Room(mem[c], i) + 1
        PROVE  LET added == AddItem(mem[c], i, n) IN
               IF n > Room(mem[c], i) THEN added = Refused
               ELSE /\ Count(added, i) = Count(mem[c], i) + n
                    /\ \A s \in DOMAIN added : added[s] # mem[c][s] =>
                         added[s].item = i /\ added[s].count <= MaxStack[i]
    <3> DEFINE inv == mem[c]
               added == AddItem(inv, i, n)
               room == Room(inv, i)
    <3>1. IsInventory(inv)
      BY <2>2 DEF IInv, Typed, PlayersTyped
    <3> HIDE DEF inv
    <3>2. room \in Nat
      BY <3>1, AddItemFacts
    <3>3. n \in Nat /\ (n > room \/ n <= room)
      BY <2>2, <3>2 DEF inv
    <3>4. /\ n > room <=> added = Refused
          /\ n <= room =>
               /\ Count(added, i) = Count(inv, i) + n /\ DOMAIN added = DOMAIN inv
               /\ \A s \in DOMAIN inv : added[s] # inv[s] =>
                    added[s].item = i /\ added[s].count <= MaxStack[i]
      BY <3>1, <3>3, AddItemFacts
    <3> HIDE DEF added, room
    <3>5. IF n > room THEN added = Refused
          ELSE /\ Count(added, i) = Count(inv, i) + n
               /\ \A s \in DOMAIN added : added[s] # inv[s] =>
                    added[s].item = i /\ added[s].count <= MaxStack[i]
      BY <3>3, <3>4
    <3> QED
      BY <3>5 DEF added, room, inv
  <2> QED
    BY <2>1, <2>2 DEF AddItemIsExact
<1> QED
  BY <1>1, InitIInv, NextIInv, PTL DEF Spec

\* The transaction of a trade moves what the one who was ready first has seen.
LEMMA ExecuteMovesWhatWasSeen ==
  ASSUME IInv, NEW t \in TradeId, trade[t] # NoTrade, Execute(trade[t]) # RolledBack,
         rows' = Execute(trade[t]), NEW d \in trade[t].ready
  PROVE  /\ ExchangedAs(t, trade[t].seen[d])
         /\ \A c \in Character : rows'[c] # rows[c] => c \in Sides(t)
<1> DEFINE s == trade[t]
<1>1. /\ GoodTrade(s) /\ s.a # s.b
  BY DEF IInv, Typed, TradesTyped, PairedInv, TradeIsPaired
<1>2. s.seen[d] = s.items
  BY <1>1 DEF GoodTrade
<1>3. /\ s.a \in Character /\ s.b \in Character
      /\ s.items \in [{s.a, s.b} -> Seq(Offer)]
  <2> HIDE DEF s
  <2>1. s # NoTrade
    BY DEF s
  <2> QED
    BY <1>1, <2>1, TradeFields DEF GoodTrade
<1>4. rows \in [Character -> AllRows]
  BY DEF IInv, Typed, StoredTyped
<1>5. IsExchange(s)
  <2> HIDE DEF s
  <2> QED
    BY <1>1, <1>3 DEF IsExchange
<1>6. /\ \A c \in Character \ {s.a, s.b} : Execute(s)[c] = rows[c]
      /\ \A j \in Item :
           /\ Count(Execute(s)[s.a], j)
                = Count(rows[s.a], j) - OfferedOf(s.items[s.a], j) + OfferedOf(s.items[s.b], j)
           /\ Count(Execute(s)[s.b], j)
                = Count(rows[s.b], j) - OfferedOf(s.items[s.b], j) + OfferedOf(s.items[s.a], j)
  <2> HIDE DEF s
  <2>1. Execute(s) # RolledBack
    BY DEF s
  <2> QED
    BY <1>4, <1>5, <2>1, ExecuteFacts
<1>7. Sides(t) = {s.a, s.b}
  BY DEF Sides
<1>8. Other(t, s.a) = s.b /\ Other(t, s.b) = s.a
  BY <1>1 DEF Other
<1>9. ASSUME NEW c \in Sides(t), NEW i \in Item
      PROVE  Count(rows'[c], i) = Count(rows[c], i) - OfferedOf(s.items[c], i)
                                                    + OfferedOf(s.items[Other(t, c)], i)
  <2>1. rows' = Execute(s)
    OBVIOUS
  <2> HIDE DEF s
  <2>2. CASE c = s.a
    BY <1>6, <1>8, <2>1, <2>2
  <2>3. CASE c = s.b
    BY <1>6, <1>8, <2>1, <2>3
  <2> QED
    BY <1>7, <1>9, <2>2, <2>3
<1>10. ExchangedAs(t, s.items)
  BY <1>9 DEF ExchangedAs
<1>11. \A c \in Character : rows'[c] # rows[c] => c \in Sides(t)
  BY <1>6, <1>7
<1> QED
  BY <1>2, <1>10, <1>11

\* The rows of a character change only to a snapshot that was being saved or by a
\* trade of the character, which moves what both had seen.
THEOREM TradesMoveWhatWasAgreed == Spec => TradeMovesWhatWasAgreed
<1>1. IInv /\ [Next]_vars =>
        \A c \in Character : rows'[c] # rows[c] =>
          \/ save[c] # Null /\ rows'[c] = save[c].inv
          \/ \E t \in TradeId :
               /\ trade[t] # NoTrade /\ c \in Sides(t) /\ trade[t].ready # {}
               /\ \A d \in trade[t].ready : ExchangedAs(t, trade[t].seen[d])
  <2> SUFFICES ASSUME IInv, [Next]_vars, NEW c \in Character, rows'[c] # rows[c]
               PROVE  \/ save[c] # Null /\ rows'[c] = save[c].inv
                      \/ \E t \in TradeId :
                           /\ trade[t] # NoTrade /\ c \in Sides(t) /\ trade[t].ready # {}
                           /\ \A d \in trade[t].ready : ExchangedAs(t, trade[t].seen[d])
    OBVIOUS
  <2>1. rows \in [Character -> AllRows]
    BY DEF IInv, Typed, StoredTyped
  <2>2. ASSUME NEW d \in Character, EndSave(d)
        PROVE  save[c] # Null /\ rows'[c] = save[c].inv
    BY <2>1, <2>2 DEF EndSave
  <2>3. ASSUME NEW d \in Character, ReadyExecutes(d) \/ CommitUnanswered(d)
        PROVE  \E t \in TradeId :
                 /\ trade[t] # NoTrade /\ c \in Sides(t) /\ trade[t].ready # {}
                 /\ \A e \in trade[t].ready : ExchangedAs(t, trade[t].seen[e])
    <3> DEFINE t == inTrade[d]
    <3>1. /\ t # Null /\ Other(t, d) \in trade[t].ready
          /\ Execute(trade[t]) # RolledBack /\ rows' = Execute(trade[t])
      BY <2>3 DEF ReadyExecutes, CommitUnanswered, Agreed
    <3>2. t \in TradeId /\ trade[t] # NoTrade
      BY <3>1, SessionOfCharacter
    <3> HIDE DEF t
    <3>3. \A e \in trade[t].ready : ExchangedAs(t, trade[t].seen[e]) /\ c \in Sides(t)
      BY <3>1, <3>2, ExecuteMovesWhatWasSeen
    <3> QED
      BY <3>1, <3>2, <3>3
  <2>4. rows' # rows
    OBVIOUS
  <2>5. ASSUME NEW d \in Character, NEW inv, NEW g, Changed(d, inv, g) PROVE FALSE
    BY <2>4, <2>5 DEF Changed
  <2>6. ASSUME NEW d \in Character, Shop(d) PROVE FALSE
    BY <2>6, ShopChanges, <2>5 DEF IInv
  <2>7. ASSUME NEW d \in Character,
               \/ Login(d) \/ Disconnect(d) \/ StartSave(d) \/ SaveFails(d)
               \/ ReadyFirst(d) \/ ReadyRefused(d) \/ Cancel(d)
        PROVE  FALSE
    BY <2>4, <2>7 DEF Login, Disconnect, StartSave, SaveFails, ReadyFirst, ReadyRefused,
       Cancel, stored
  <2>8. ASSUME NEW d \in Character, Offers(d) PROVE FALSE
    BY <2>4, <2>8 DEF Offers, UploadItem, stored
  <2>9. ASSUME NEW d \in Character, NEW a \in Character, Accept(a, d) PROVE FALSE
    BY <2>4, <2>9 DEF Accept, stored
  <2>10. ~LoadInventories /\ ~Crash /\ ~UNCHANGED vars
    BY <2>4 DEF LoadInventories, Crash, vars, stored
  <2> QED
    BY <2>2, <2>3, <2>6, <2>7, <2>8, <2>9, <2>10 DEF Next, Ready
<1> QED
  BY <1>1, InitIInv, NextIInv, PTL DEF Spec, TradeMovesWhatWasAgreed

\* A player that leaves is gone, and nobody comes.
LEMMA DisconnectLeaves ==
  ASSUME IInv, NEW c \in Character, Disconnect(c)
  PROVE  ~Online(c)'
<1> DEFINE x == PlayerOf(c)
<1>1. Online(c) /\ at' = [at EXCEPT ![x] = Null]
  BY DEF Disconnect
<1>2. x \in Address /\ at[x] = c
  BY <1>1, PlayerOfFacts
<1>3. /\ at \in [Address -> Character \cup {Null}]
      /\ \A y, z \in Address : at[y] = at[z] /\ at[y] # Null => y = z
  BY DEF IInv, Typed, PlayersTyped
<1> HIDE DEF x
<1>4. \A y \in Address : at'[y] = IF y = x THEN Null ELSE at[y]
  BY <1>1, <1>3
<1>5. \A y \in Address : at'[y] # c
  BY <1>2, <1>3, <1>4, TradeAssumption
<1> QED
  BY <1>5 DEF Online

\* What GoodsForGold says of one character.
FairDeal(c) ==
  \E i \in Item :
    /\ \A j \in Item \ {i} : Gain(c, j) = 0
    /\ \/ /\ Gain(c, i) > 0
          /\ gold'[c] = gold[c] - Price[i] * Gain(c, i)
       \/ /\ Gain(c, i) < 0
          /\ gold'[c] = gold[c] + SellPrice[i] * (-Gain(c, i))

\* What a change does to the character that changes, and to the others.
LEMMA ChangedFacts ==
  ASSUME IInv, NEW c \in Character, NEW inv, NEW g, Changed(c, inv, g)
  PROVE  /\ mem'[c] = inv /\ gold'[c] = g
         /\ \A d \in Character \ {c} : gold'[d] = gold[d]
<1>1. /\ mem = [d \in Character |-> mem[d]] /\ gold \in [Character -> 0 .. MaxGold]
  BY DEF IInv, Typed, PlayersTyped
<1>2. mem' = [mem EXCEPT ![c] = inv] /\ gold' = [gold EXCEPT ![c] = g]
  BY DEF Changed
<1> QED
  BY <1>1, <1>2

\* A purchase.
LEMMA BuyIsFair ==
  ASSUME IInv, NEW c \in Character, NEW i \in Item, NEW n \in 1 .. MaxStack[i], Buy(c, i, n)
  PROVE  /\ gold'[c] # gold[c] => FairDeal(c)
         /\ \A d \in Character \ {c} : gold'[d] = gold[d]
<1> DEFINE inv == AddItem(mem[c], i, n)
<1>1. /\ Online(c)
      /\ inv = Refused => Changed(c, mem[c], gold[c])
      /\ inv # Refused => Changed(c, inv, gold[c] - Price[i] * n)
  BY DEF Buy
<1>2. IsInventory(mem[c]) /\ n \in Nat /\ n > 0
  BY <1>1, InventoryAssumption DEF IInv, Typed, PlayersTyped
<1>3. inv # Refused => /\ Count(mem[c], i) \in Nat /\ Count(inv, i) = Count(mem[c], i) + n
                       /\ \A j \in Item \ {i} : Count(inv, j) = Count(mem[c], j)
  BY <1>2, AddItemFacts
<1>4. \A j \in Item : Count(mem[c], j) \in Nat
  BY <1>2, InventoryIsCounted, CountIsSum
<1> HIDE DEF inv
<1>5. CASE inv = Refused
  BY <1>1, <1>5, ChangedFacts
<1>6. CASE inv # Refused
  <2>1. /\ mem'[c] = inv /\ gold'[c] = gold[c] - Price[i] * n
        /\ \A d \in Character \ {c} : gold'[d] = gold[d]
    <3> DEFINE g == gold[c] - Price[i] * n
    <3>1. Changed(c, inv, g)
      BY <1>1, <1>6
    <3> HIDE DEF g
    <3>2. /\ mem'[c] = inv /\ gold'[c] = g /\ \A d \in Character \ {c} : gold'[d] = gold[d]
      BY <3>1, ChangedFacts
    <3> QED
      BY <3>2 DEF g
  <2>2. Gain(c, i) = n
    BY <1>2, <1>3, <1>6, <2>1 DEF Gain
  <2>3. \A j \in Item \ {i} : Gain(c, j) = 0
    BY <1>3, <1>4, <1>6, <2>1 DEF Gain
  <2>4. Gain(c, i) > 0 /\ gold'[c] = gold[c] - Price[i] * Gain(c, i)
    BY <1>2, <2>1, <2>2
  <2> QED
    BY <2>1, <2>3, <2>4 DEF FairDeal
<1> QED
  BY <1>5, <1>6

\* A sale.
LEMMA SellIsFair ==
  ASSUME IInv, NEW c \in Character, Online(c), NEW s \in DOMAIN mem[c],
         NEW n \in 1 .. mem[c][s].count, Sell(c, s, n)
  PROVE  /\ gold'[c] # gold[c] => FairDeal(c)
         /\ \A d \in Character \ {c} : gold'[d] = gold[d]
<1> DEFINE i == mem[c][s].item
           inv == RemoveItemBySlot(mem[c], s, i, n)
<1>1. i # NoItem /\ n <= mem[c][s].count /\ Changed(c, inv, gold[c] + SellPrice[i] * n)
  BY DEF Sell
<1>2. IsInventory(mem[c])
  BY DEF IInv, Typed, PlayersTyped
<1>3. i \in Item /\ mem[c][s].count \in Nat
  <2>1. mem[c][s] \in Slot
    BY <1>2 DEF IsInventory
  <2> QED
    BY <1>1, <2>1 DEF Slot
<1>4. n \in Nat \ {0} /\ HasItemBySlot(mem[c], s, i, n)
  BY <1>1, <1>3 DEF HasItemBySlot
<1> HIDE DEF i
<1>5. /\ Count(mem[c], i) \in Nat /\ Count(inv, i) = Count(mem[c], i) - n
      /\ \A j \in Item \ {i} : Count(inv, j) = Count(mem[c], j)
  BY <1>2, <1>3, <1>4, RemoveItemBySlotFacts
<1>6. \A j \in Item : Count(mem[c], j) \in Nat
  BY <1>2, InventoryIsCounted, CountIsSum
<1> HIDE DEF inv
<1>7. /\ mem'[c] = inv /\ gold'[c] = gold[c] + SellPrice[i] * n
      /\ \A d \in Character \ {c} : gold'[d] = gold[d]
  <2> DEFINE g == gold[c] + SellPrice[i] * n
  <2>1. Changed(c, inv, g)
    BY <1>1
  <2> HIDE DEF g
  <2>2. /\ mem'[c] = inv /\ gold'[c] = g /\ \A d \in Character \ {c} : gold'[d] = gold[d]
    BY <2>1, ChangedFacts
  <2> QED
    BY <2>2 DEF g
<1>8. Gain(c, i) = -n
  BY <1>4, <1>5, <1>7 DEF Gain
<1>9. \A j \in Item \ {i} : Gain(c, j) = 0
  BY <1>5, <1>6, <1>7 DEF Gain
<1>10. Gain(c, i) < 0 /\ -Gain(c, i) = n
  BY <1>4, <1>8
<1>11. gold'[c] = gold[c] + SellPrice[i] * (-Gain(c, i))
  BY <1>7, <1>10
<1> QED
  BY <1>3, <1>7, <1>9, <1>10, <1>11 DEF FairDeal

\* Gold comes and goes only against items, at the price.
THEOREM GoldForGoods == Spec => GoodsForGold
<1>1. IInv /\ [Next]_vars =>
        \A c \in Character : Online(c) /\ Online(c)' /\ gold'[c] # gold[c] => FairDeal(c)
  <2> SUFFICES ASSUME IInv, [Next]_vars, NEW c \in Character,
                      Online(c), Online(c)', gold'[c] # gold[c]
               PROVE  FairDeal(c)
    OBVIOUS
  <2>1. gold \in [Character -> 0 .. MaxGold]
    BY DEF IInv, Typed, PlayersTyped
  <2>2. ASSUME NEW d \in Character, NEW i \in Item, NEW n \in 1 .. MaxStack[i], Buy(d, i, n)
        PROVE  FairDeal(c)
    <3>1. /\ gold'[d] # gold[d] => FairDeal(d)
          /\ \A e \in Character \ {d} : gold'[e] = gold[e]
      BY <2>2, BuyIsFair
    <3> QED
      BY <3>1
  <2>3. ASSUME NEW d \in Character, Online(d), NEW s \in DOMAIN mem[d],
               NEW n \in 1 .. mem[d][s].count, Sell(d, s, n)
        PROVE  FairDeal(c)
    <3>1. /\ gold'[d] # gold[d] => FairDeal(d)
          /\ \A e \in Character \ {d} : gold'[e] = gold[e]
      BY <2>3, SellIsFair
    <3> QED
      BY <3>1
  <2>4. ASSUME NEW d \in Character, NEW inv, Changed(d, inv, gold[d]) PROVE FALSE
    BY <2>4, ChangedFacts
  <2>5. ASSUME NEW d \in Character, Shop(d) PROVE FairDeal(c)
    BY <2>5, <2>2, <2>3, <2>4 DEF Shop, PickUp, UseItem, Rearrange
  <2>6. ASSUME NEW d \in Character, Login(d) PROVE FALSE
    <3>1. d # c /\ gold' = [gold EXCEPT ![d] = bank[d]]
      BY <2>6 DEF Login
    <3> QED
      BY <2>1, <3>1
  <2>7. ASSUME NEW d \in Character, Disconnect(d) PROVE FALSE
    <3>1. d # c /\ gold' = [gold EXCEPT ![d] = 0]
      BY <2>7, DisconnectLeaves DEF Disconnect
    <3> QED
      BY <2>1, <3>1
  <2>8. ~Crash
    BY TradeAssumption DEF Crash, Online
  <2>9. gold' # gold
    OBVIOUS
  <2>10. ASSUME NEW d \in Character,
                StartSave(d) \/ EndSave(d) \/ SaveFails(d) \/ Ready(d) \/ Cancel(d) \/ Offers(d)
         PROVE  FALSE
    BY <2>9, <2>10 DEF StartSave, EndSave, SaveFails, Ready, ReadyFirst, ReadyRefused,
       ReadyExecutes, CommitUnanswered, Cancel, Offers, UploadItem, player
  <2>11. ASSUME NEW d \in Character, NEW a \in Character, Accept(a, d) PROVE FALSE
    BY <2>9, <2>11 DEF Accept, player
  <2>12. ~LoadInventories /\ ~UNCHANGED vars
    BY <2>9 DEF LoadInventories, vars, player
  <2> QED
    BY <2>5, <2>6, <2>7, <2>8, <2>10, <2>11, <2>12 DEF Next
<1>2. IInv /\ [Next]_vars =>
        \A c \in Character :
          Online(c) /\ Online(c)' /\ gold'[c] # gold[c] =>
            \E i \in Item :
              /\ \A j \in Item \ {i} : Gain(c, j) = 0
              /\ \/ /\ Gain(c, i) > 0
                    /\ gold'[c] = gold[c] - Price[i] * Gain(c, i)
                 \/ /\ Gain(c, i) < 0
                    /\ gold'[c] = gold[c] + SellPrice[i] * (-Gain(c, i))
  BY <1>1 DEF FairDeal
<1> QED
  BY <1>2, InitIInv, NextIInv, PTL DEF Spec, GoodsForGold
================================================================================
