SPECIFICATION Spec
SYMMETRY Addresses

CONSTANTS
  ann = ann
  bea = bea
  cal = cal
  x1 = x1
  x2 = x2
  t1 = t1
  t2 = t2
  potion = potion
  sword = sword
  Character = {ann, bea, cal}
  Address = {x1, x2}
  TradeId = {t1, t2}
  Item = {potion, sword}
  NoItem = NoItem
  Consumable = {potion}
  MaxSlot = 2
  MaxStack <- Stacks
  Price <- Prices
  SellPrice <- SellPrices
  MaxGold = 2
  FirstRows <- Rows
  FirstGold <- Gold
  MaxConfirm = 2
  MaxOffers = 2
  MaxEvents = 2
  MaxLogins = 3
  Null = Null

INVARIANT TradeIsPaired
INVARIANT AddItemIsExact
PROPERTY TradeMovesWhatWasAgreed
PROPERTY GoodsForGold
CHECK_DEADLOCK FALSE
