--------------------------------- MODULE Trade ---------------------------------
(***************************************************************************)
(* What characters own, in memory and in MySQL, through everything that      *)
(* changes it: trades between two characters (service/TradeService.cpp,      *)
(* packet/HandleTrade.cpp), shops, item use, pickup and rearranging, which   *)
(* change memory only, saves, which write a snapshot of memory over the      *)
(* rows, and trades, which change the rows and then load them into memory.   *)
(*                                                                          *)
(* A handler runs whole under Gameplay::gate.  Save tasks take their         *)
(* snapshot under it and commit outside of it, so that a commit may fall     *)
(* between the transaction of a trade and the loads that follow it.          *)
(*                                                                          *)
(* A trade session holds raw Player pointers and outlives its players: a     *)
(* pointer is an address here, and what is at it may be nothing, or another  *)
(* character's Player, by the time it is used.                               *)
(***************************************************************************)
EXTENDS Inventories

CONSTANTS
  Character,
  Address,      \* where a Player can be allocated
  TradeId,      \* addresses of TradeSession objects
  Price,        \* ShopProduct::price
  SellPrice,    \* ItemInitData::sell_price
  Consumable,   \* items whose type CanUseItem accepts
  MaxGold,      \* the largest std::int64_t
  FirstRows,    \* the rows the run starts from
  FirstGold,
  MaxConfirm,   \* offers of both sides that fit the packet that confirms a trade
  MaxOffers,    \* bound: items a player uploads in one trade
  MaxEvents,    \* bound: sessions opened, other changes of memory, crashes
  MaxLogins,    \* bound: logins
  Null

ASSUME TradeAssumption ==
  /\ MaxConfirm \in Nat
  /\ MaxOffers \in Nat /\ MaxEvents \in Nat /\ MaxLogins \in Nat
  /\ Consumable \subseteq Item
  /\ MaxGold \in Nat /\ FirstGold \in [Character -> 0 .. MaxGold]
  /\ Price \in [Item -> Nat \ {0}] /\ SellPrice \in [Item -> Nat \ {0}]
  /\ FirstRows = [c \in Character |-> FirstRows[c]] /\ \A c \in Character : IsRows(FirstRows[c])
  /\ Null \notin Character /\ Null \notin TradeId

VARIABLES
  at,        \* the character whose Player is at an address, or Null
  mem,       \* Player::m_inventoryManager of a character that plays, or Null
  gold,      \* Player::m_gold
  dirty,     \* m_saveVersion # 0
  save,      \* the save of a character that is under way: its snapshot, and
             \* whether m_saveVersion is still the one of the snapshot
  rows,      \* MySQL: character_inventory
  bank,      \* MySQL: the gold of a character
  inTrade,   \* m_sessions
  trade,     \* the TradeSession objects
  handler,   \* HandleTradeReady between Ready and its end
  events, logins  \* what the bounds count

player == <<at, mem, gold, dirty>>
stored == <<save, rows, bank>>
sessions == <<inTrade, trade, handler>>
bounds == <<events, logins>>
vars == <<player, stored, sessions, bounds>>

Online(c) == \E x \in Address : at[x] = c
PlayerOf(c) == CHOOSE x \in Address : at[x] = c

\* PlayerHandler::Execute holds the gate from its first line to its last.
Idle == [by |-> Null, trade |-> Null, target |-> Null]
GateFree == handler = Idle

\* The bound on events.
Event == events < MaxEvents /\ events' = events + 1

\* What is at an address of m_sessions that is free.
NoTrade == [a |-> Null, b |-> Null, player |-> <<>>, items |-> <<>>, ready |-> {},
            executing |-> FALSE, seen |-> <<>>]

Offer == [slot : Nat, item : Item, count : Nat \ {0}]

Init ==
  /\ at = [x \in Address |-> Null]
  /\ mem = [c \in Character |-> Null]
  /\ gold = [c \in Character |-> 0]
  /\ dirty = [c \in Character |-> FALSE]
  /\ save = [c \in Character |-> Null]
  /\ rows = FirstRows /\ bank = FirstGold
  /\ inTrade = [c \in Character |-> Null]
  /\ trade = [t \in TradeId |-> NoTrade]
  /\ handler = Idle
  /\ events = 0 /\ logins = 0

-------------------------------------------------------------------------------
(* Coming and going, saving.                                                 *)

\* InitPlayer: fresh inventories, then LoadInventory.  A login waits for the
\* final save of the character's last one.
Login(c) ==
  /\ ~Online(c) /\ save[c] = Null
  /\ logins < MaxLogins
  /\ \E x \in Address :
       /\ at[x] = Null
       /\ at' = [at EXCEPT ![x] = c]
  /\ mem' = [mem EXCEPT ![c] = SetSlotItems(NewInventory, rows[c])]
  /\ gold' = [gold EXCEPT ![c] = bank[c]]
  /\ dirty' = [dirty EXCEPT ![c] = FALSE]
  /\ logins' = logins + 1
  /\ UNCHANGED <<stored, sessions, events>>

Snapshot(c) == [inv |-> ItemInfos(mem[c]), gold |-> gold[c], same |-> TRUE]

\* SaveIfNeeded, up to the transaction.
StartSave(c) ==
  /\ GateFree /\ Online(c) /\ dirty[c] /\ save[c] = Null
  /\ save' = [save EXCEPT ![c] = Snapshot(c)]
  /\ UNCHANGED <<player, rows, bank, sessions, bounds>>

\* The transaction replaces all rows of the character; TryMarkSaved clears
\* the version unless it has moved on.
EndSave(c) ==
  /\ save[c] # Null
  /\ rows' = [rows EXCEPT ![c] = save[c].inv]
  /\ bank' = [bank EXCEPT ![c] = save[c].gold]
  /\ dirty' = [dirty EXCEPT ![c] = @ /\ ~save[c].same]
  /\ save' = [save EXCEPT ![c] = Null]
  /\ UNCHANGED <<at, mem, gold, sessions, bounds>>

SaveFails(c) ==
  /\ save[c] # Null
  /\ save' = [save EXCEPT ![c] = Null]
  /\ UNCHANGED <<player, rows, bank, sessions, bounds>>

\* FinalizePlayer, after the tasks of the session have ended: the final save
\* is submitted and the Player deleted.  TradeService is not told.
Disconnect(c) ==
  /\ GateFree /\ Online(c) /\ save[c] = Null
  /\ save' = [save EXCEPT ![c] = IF dirty[c] THEN Snapshot(c) ELSE Null]
  /\ at' = [at EXCEPT ![PlayerOf(c)] = Null]
  /\ mem' = [mem EXCEPT ![c] = Null]
  /\ gold' = [gold EXCEPT ![c] = 0]
  /\ dirty' = [dirty EXCEPT ![c] = FALSE]
  /\ UNCHANGED <<rows, bank, sessions, bounds>>

-------------------------------------------------------------------------------
(* What changes memory alone.  Each change marks the player for saving.      *)

\* The character goes on with inventory inv and g pieces of gold.
Changed(c, inv, g) ==
  /\ Event
  /\ mem' = [mem EXCEPT ![c] = inv]
  /\ gold' = [gold EXCEPT ![c] = g]
  /\ dirty' = [dirty EXCEPT ![c] = TRUE]
  /\ save' = [save EXCEPT ![c] = IF @ = Null THEN Null ELSE [@ EXCEPT !.same = FALSE]]
  /\ UNCHANGED <<at, rows, bank, sessions, logins>>

\* What TrySpendGold and TryAddGold ask.
TrySpendGold(c, n) == n <= gold[c]
TryAddGold(c, n) == n <= MaxGold - gold[c]

\* Mutant: the guard that gives the gold back is missing.
BuyWithoutRefund(c, i, n) ==
  /\ GateFree /\ Online(c)
  /\ TrySpendGold(c, Price[i] * n)
  /\ LET inv == AddItem(mem[c], i, n)
     IN  Changed(c, IF inv = Refused THEN mem[c] ELSE inv, gold[c] - Price[i] * n)

\* ShopService::Buy: the gold is spent first and given back by GoldRefundGuard
\* when the items do not fit, which leaves a mark and nothing else.
Buy(c, i, n) ==
  /\ GateFree /\ Online(c)
  /\ TrySpendGold(c, Price[i] * n)
  /\ LET inv == AddItem(mem[c], i, n)
     IN  IF inv = Refused THEN Changed(c, mem[c], gold[c])
         ELSE Changed(c, inv, gold[c] - Price[i] * n)

\* ShopService::Sell: TryAddGold refuses what would pass the largest value.
Sell(c, s, n) ==
  /\ GateFree /\ Online(c)
  /\ s \in DOMAIN mem[c] /\ mem[c][s].item # NoItem /\ n <= mem[c][s].count
  /\ LET i == mem[c][s].item IN
     /\ TryAddGold(c, SellPrice[i] * n)
     /\ Changed(c, RemoveItemBySlot(mem[c], s, i, n), gold[c] + SellPrice[i] * n)

CanUseItem(c, s, i, n) == i \in Consumable /\ HasItemBySlot(mem[c], s, i, n)

UseItem(c, s, i, n) ==
  /\ GateFree /\ Online(c) /\ CanUseItem(c, s, i, n)
  /\ Changed(c, RemoveItemBySlot(mem[c], s, i, n), gold[c])

\* The inventory's part of MapInstance::PickupDropItem.
PickUp(c, i, n) ==
  /\ GateFree /\ Online(c)
  /\ AddItem(mem[c], i, n) # Refused
  /\ Changed(c, AddItem(mem[c], i, n), gold[c])

\* InventoryPacketHandler.
Rearrange(c, from, to) ==
  /\ GateFree /\ Online(c)
  /\ MoveItemSlot(mem[c], from, to) # Refused
  /\ Changed(c, MoveItemSlot(mem[c], from, to), gold[c])

-------------------------------------------------------------------------------
(* A trade.  m_sessions maps both characters to one session object.          *)

NewTrade(a, b) ==
  [a |-> a, b |-> b, player |-> [c \in {a, b} |-> PlayerOf(c)],
   items |-> [c \in {a, b} |-> <<>>], ready |-> {}, executing |-> FALSE,
   \* history: what both had offered when a character declared itself ready
   seen |-> [c \in {a, b} |-> Null]]

Sides(t) == {trade[t].a, trade[t].b}
Other(t, c) == IF c = trade[t].a THEN trade[t].b ELSE trade[t].a

\* Mutant: only the one who accepts is looked up in m_sessions.
CreateTradeSessionUnchecked(a, b, t) ==
  /\ inTrade[b] = Null
  /\ trade[t] = NoTrade
  /\ trade' = [trade EXCEPT ![t] = NewTrade(a, b)]
  /\ inTrade' = [inTrade EXCEPT ![a] = t, ![b] = t]

CreateTradeSession(a, b, t) ==
  /\ inTrade[a] = Null /\ inTrade[b] = Null
  /\ trade[t] = NoTrade
  /\ trade' = [trade EXCEPT ![t] = NewTrade(a, b)]
  /\ inTrade' = [inTrade EXCEPT ![a] = t, ![b] = t]

\* Both must also be alive and in the same map, which the model does not hold;
\* a refusal for that is a step not taken.
Start(a, c) == a # c /\ \E t \in TradeId : CreateTradeSession(a, c, t)

\* HandleTradeAccept of c, which names a: nothing asks whether a made a request.
Accept(a, c) ==
  /\ GateFree /\ Online(a) /\ Online(c)
  /\ Start(a, c)
  /\ Event
  /\ UNCHANGED <<player, stored, handler, logins>>

\* DeleteTradeSession, and the same lines in Cancel and Ready.
Deleted(t) ==
  /\ inTrade' = [c \in Character |-> IF c \in Sides(t) THEN Null ELSE inTrade[c]]
  /\ trade' = [trade EXCEPT ![t] = NoTrade]

CancelTrade(c) ==
  /\ inTrade[c] # Null
  /\ ~trade[inTrade[c]].executing
  /\ Deleted(inTrade[c])

\* HandleTradeCancel.
Cancel(c) ==
  /\ GateFree /\ Online(c)
  /\ CancelTrade(c)
  /\ UNCHANGED <<player, stored, handler, bounds>>

\* GetTargetPlayer compares pointers.
GetTargetPlayer(c) ==
  LET t == trade[inTrade[c]]
  IN  IF t.player[t.a] = PlayerOf(c) THEN t.player[t.b] ELSE t.player[t.a]

\* How many pieces one side has offered of what is in a slot.
OfferedAt(offers, s) ==
  FoldLeft(LAMBDA n, o : IF o.slot = s THEN n + o.count ELSE n, 0, offers)

\* Mutant: items may still be added when one side is ready.
UploadItemLate(c, s, i, n) ==
  LET t == inTrade[c]
      mine == trade[t].items[c]
  IN  /\ GateFree /\ Online(c)
      /\ t # Null
      /\ Len(mine) < MaxOffers
      /\ \A k \in DOMAIN mine : mine[k].slot = s => mine[k].item = i
      /\ HasItemBySlot(mem[c], s, i, n + OfferedAt(mine, s))
      /\ trade' = [trade EXCEPT ![t].items[c] =
                     Append(@, [slot |-> s, item |-> i, count |-> n])]
      /\ UNCHANGED <<player, stored, inTrade, handler, bounds>>

UploadItem(c, s, i, n) ==
  LET t == inTrade[c]
      mine == trade[t].items[c]
  IN  /\ GateFree /\ Online(c)
      /\ t # Null
      /\ trade[t].ready = {} /\ ~trade[t].executing
      /\ Len(mine) < MaxOffers
      /\ \A k \in DOMAIN mine : mine[k].slot = s => mine[k].item = i
      /\ HasItemBySlot(mem[c], s, i, n + OfferedAt(mine, s))
      /\ trade' = [trade EXCEPT ![t].items[c] =
                     Append(@, [slot |-> s, item |-> i, count |-> n])]
      /\ UNCHANGED <<player, stored, inTrade, handler, bounds>>

-------------------------------------------------------------------------------
(* Both are ready: check, exchange the rows, load them.                      *)

\* ValidateTradeItems reads the inventory of whoever is at the pointer; freed
\* memory may say anything.
ValidateTradeItems(x, offers) ==
  IF at[x] = Null THEN BOOLEAN
  ELSE {\A k \in DOMAIN offers :
          HasItemBySlot(mem[at[x]], offers[k].slot, offers[k].item,
                        OfferedAt(offers, offers[k].slot))}

\* The transaction rolls back.
RolledBack == [c \in Character |-> Refused]

\* DecreaseItem and IncreaseItem for one of the items.
GiveItem(r, from, to, o) ==
  LET left == DecreaseItem(r[from], o.slot, o.item, o.count)
  IN  IF r = RolledBack \/ left = Refused THEN RolledBack
      ELSE [r EXCEPT ![from] = left, ![to] = IncreaseItem(@, o.item, o.count)]

\* Execute, one side.
Give(r, from, to, offers) == FoldLeft(LAMBDA acc, o : GiveItem(acc, from, to, o), r, offers)

\* Execute: the rows after the transaction.
Execute(t) ==
  LET given == Give(rows, t.a, t.b, t.items[t.a])
  IN  IF given = RolledBack THEN RolledBack ELSE Give(given, t.b, t.a, t.items[t.b])

\* What the session keeps of a character that is ready.
Declared(session, c) ==
  [session EXCEPT !.ready = @ \cup {c}, !.seen[c] = session.items]

\* The first of the two to be ready.
ReadyFirst(c) ==
  LET t == inTrade[c] IN
  /\ GateFree /\ Online(c)
  /\ t # Null /\ ~trade[t].executing
  /\ Other(t, c) \notin trade[t].ready
  /\ trade' = [trade EXCEPT ![t] = Declared(@, c)]
  /\ UNCHANGED <<player, stored, inTrade, handler, bounds>>

\* The second, and the check or the transaction fails.
ReadyRefused(c) ==
  LET t == inTrade[c] IN
  /\ GateFree /\ Online(c)
  /\ t # Null /\ ~trade[t].executing
  /\ Other(t, c) \in trade[t].ready
  /\ Deleted(t)
  /\ UNCHANGED <<player, stored, handler, bounds>>

\* Both pointers can pass the check and the transaction can commit.
Agreed(t) ==
  /\ \A c \in {t.a, t.b} : TRUE \in ValidateTradeItems(t.player[c], t.items[c])
  /\ Execute(t) # RolledBack

\* The second, and the transaction commits.
ReadyExecutes(c) ==
  LET t == inTrade[c] IN
  /\ GateFree /\ Online(c)
  /\ t # Null /\ ~trade[t].executing
  /\ Other(t, c) \in trade[t].ready
  /\ Agreed(trade[t])
  /\ rows' = Execute(trade[t])
  /\ trade' = [trade EXCEPT ![t] = [Declared(@, c) EXCEPT !.executing = TRUE]]
  /\ handler' = [by |-> c, trade |-> t, target |-> GetTargetPlayer(c)]
  /\ UNCHANGED <<player, save, bank, inTrade, bounds>>

\* The transaction commits and the answer to COMMIT does not come back: the
\* trade counts as failed and nothing is loaded.
CommitUnanswered(c) ==
  LET t == inTrade[c] IN
  /\ GateFree /\ Online(c)
  /\ t # Null /\ ~trade[t].executing
  /\ Other(t, c) \in trade[t].ready
  /\ Agreed(trade[t])
  /\ rows' = Execute(trade[t])
  /\ Deleted(t)
  /\ UNCHANGED <<player, save, bank, handler, bounds>>

\* LoadInventory for whoever is at the pointer; a query that fails loads
\* nothing, and nobody looks.
Loaded(m, x) ==
  IF at[x] = Null THEN {m}
  ELSE {m, [m EXCEPT ![at[x]] = SetSlotItems(@, rows[at[x]])]}

\* The confirmation names the items of both sides; MakePacket throws when they do
\* not fit kMaxPacketSize.
Oversized(session) ==
  Len(session.items[session.a]) + Len(session.items[session.b]) > MaxConfirm

\* HandleTradeReady after Ready: both inventories are loaded and the session
\* is deleted, unless SendOk threw before.  Neither player is marked for saving.
LoadInventories ==
  /\ ~GateFree
  /\ \E m \in Loaded(mem, PlayerOf(handler.by)) : mem' \in Loaded(m, handler.target)
  /\ \/ ~Oversized(trade[handler.trade]) /\ Deleted(handler.trade)
     \/ Oversized(trade[handler.trade]) /\ UNCHANGED <<inTrade, trade>>
  /\ handler' = Idle
  /\ UNCHANGED <<at, gold, dirty, stored, bounds>>

\* The process ends: what is in memory is gone.  This is also what a handler
\* that goes through a stale pointer may come to.
Crash ==
  /\ Event
  /\ at' = [x \in Address |-> Null]
  /\ mem' = [c \in Character |-> Null]
  /\ gold' = [c \in Character |-> 0]
  /\ dirty' = [c \in Character |-> FALSE]
  /\ save' = [c \in Character |-> Null]
  /\ inTrade' = [c \in Character |-> Null]
  /\ trade' = [t \in TradeId |-> NoTrade]
  /\ handler' = Idle
  /\ UNCHANGED <<rows, bank, logins>>

-------------------------------------------------------------------------------
Ready(c) == ReadyFirst(c) \/ ReadyRefused(c) \/ ReadyExecutes(c) \/ CommitUnanswered(c)

Shop(c) ==
  \/ \E i \in Item : \E n \in 1 .. MaxStack[i] : Buy(c, i, n) \/ PickUp(c, i, n)
  \/ Online(c) /\ \E s \in DOMAIN mem[c] :
       \/ \E n \in 1 .. mem[c][s].count : Sell(c, s, n) \/ UseItem(c, s, mem[c][s].item, n)
       \/ \E to \in DOMAIN mem[c] : Rearrange(c, s, to)

Offers(c) ==
  Online(c) /\ \E s \in DOMAIN mem[c] : \E n \in 1 .. mem[c][s].count :
    UploadItem(c, s, mem[c][s].item, n)

Next ==
  \/ \E c \in Character :
       \/ Login(c) \/ Disconnect(c)
       \/ StartSave(c) \/ EndSave(c) \/ SaveFails(c)
       \/ Shop(c) \/ Offers(c) \/ Ready(c) \/ Cancel(c)
       \/ \E a \in Character : Accept(a, c)
  \/ LoadInventories \/ Crash

Spec == Init /\ [][Next]_vars

-------------------------------------------------------------------------------
(* Properties.                                                               *)

\* What a save writes.
SaveTyped(s) ==
  s # Null => IsRows(s.inv) /\ s \in [inv : {s.inv}, gold : 0 .. MaxGold, same : BOOLEAN]

\* A session of two characters, and what each has seen when it was ready.
TradeTyped(t) ==
  LET both == {t.a, t.b}
      Lists == [both -> Seq(Offer)]
  IN  \/ t = NoTrade
      \/ t \in [a : Character, b : Character, player : [both -> Address], items : Lists,
                ready : SUBSET both, executing : BOOLEAN, seen : [both -> Lists \cup {Null}]]

TypeOK ==
  /\ at \in [Address -> Character \cup {Null}]
  /\ \A x, y \in Address : at[x] = at[y] /\ at[x] # Null => x = y
  /\ \A c \in Character :
       /\ Online(c) => IsInventory(mem[c])
       /\ IsRows(rows[c]) /\ SaveTyped(save[c])
  /\ gold \in [Character -> 0 .. MaxGold] /\ bank \in [Character -> 0 .. MaxGold]
  /\ dirty \in [Character -> BOOLEAN]
  /\ inTrade \in [Character -> TradeId \cup {Null}]
  /\ \A t \in TradeId : TradeTyped(trade[t])
  /\ ~GateFree => handler.trade \in TradeId /\ trade[handler.trade].executing

\* Both sides of a trade are in it and in no other, a session that nobody can
\* reach is deleted, and one that executes, which nothing can cancel, has the
\* handler that will delete it, or was too large for its confirmation (then
\* HandleTradeReady has thrown, and nobody will): whatever order of accepts,
\* cancels, readies, disconnects, logins and crashes.  (An entry that outlived its session would
\* be read by every trade packet of the character, for ever.)
TradeIsPaired ==
  /\ \A c \in Character : inTrade[c] # Null =>
       trade[inTrade[c]] # NoTrade /\ c \in Sides(inTrade[c])
  /\ \A t \in TradeId : trade[t] # NoTrade =>
       /\ trade[t].a # trade[t].b /\ \A c \in Sides(t) : inTrade[c] = t
       /\ trade[t].executing => handler.trade = t \/ Oversized(trade[t])

\* How many of an item one side offers.
OfferedOf(offers, i) ==
  FoldLeft(LAMBDA n, o : IF o.item = i THEN n + o.count ELSE n, 0, offers)

\* The rows change hands the way the offers say, item by item.
ExchangedAs(t, offers) ==
  \A c \in Sides(t), i \in Item :
    Count(rows'[c], i) = Count(rows[c], i) - OfferedOf(offers[c], i)
                                           + OfferedOf(offers[Other(t, c)], i)

\* The rows of a character change only to a snapshot that was being saved, or
\* by a trade of the character: then nothing is made or lost, and what changes
\* hands is what the one who was ready first had seen on both sides.
TradeMovesWhatWasAgreed ==
  [][\A c \in Character : rows'[c] # rows[c] =>
       \/ save[c] # Null /\ rows'[c] = save[c].inv
       \/ \E t \in TradeId :
            /\ trade[t] # NoTrade /\ c \in Sides(t) /\ trade[t].ready # {}
            /\ \A d \in trade[t].ready : ExchangedAs(t, trade[t].seen[d])]_vars

\* How many of an item a character that plays gains in a step; less than 0 when it loses.
Gain(c, i) == Count(mem'[c], i) - Count(mem[c], i)

\* While a character plays, gold comes and goes only against items of one kind,
\* at the price, all of them: a purchase that does not fit leaves the gold
\* alone, and a sale that would pass the largest balance leaves the items alone.
GoodsForGold ==
  [][\A c \in Character :
       Online(c) /\ Online(c)' /\ gold'[c] # gold[c] =>
         \E i \in Item :
           /\ \A j \in Item \ {i} : Gain(c, j) = 0
           /\ \/ /\ Gain(c, i) > 0
                 /\ gold'[c] = gold[c] - Price[i] * Gain(c, i)
              \/ /\ Gain(c, i) < 0
                 /\ gold'[c] = gold[c] + SellPrice[i] * (-Gain(c, i))]_vars

\* In every inventory a character can come to have, AddItem takes all that
\* fits and refuses what does not, touches no other item, and lets no stack
\* grow past its size.  (The types come with it.)
AddItemIsExact ==
  /\ TypeOK
  /\ \A c \in {x \in Character : Online(x)}, i \in Item :
       \A n \in 1 .. Room(mem[c], i) + 1 :
         LET added == AddItem(mem[c], i, n) IN
         IF n > Room(mem[c], i) THEN added = Refused
         ELSE /\ Count(added, i) = Count(mem[c], i) + n
              /\ \A s \in DOMAIN added : added[s] # mem[c][s] =>
                   added[s].item = i /\ added[s].count <= MaxStack[i]
================================================================================
