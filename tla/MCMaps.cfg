SPECIFICATION Spec

CONSTANTS
  ann = ann
  bea = bea
  village = village
  cave = cave
  Character = {ann, bea}
  MapId = {village, cave}
  Persistent = {village}
  Portal <- Portals
  Home <- Homes
  InputLife = 1
  MaxStay = 3
  MaxSequence = 2
  MaxWire = 1
  MaxLogins = 2
  Null = Null

INVARIANT InOneMap
INVARIANT InputIsOfThisStay
PROPERTY EmptyMapGoes
CHECK_DEADLOCK FALSE
