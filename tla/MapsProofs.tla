------------------------------- MODULE MapsProofs -------------------------------
(***************************************************************************)
(* Players and maps point to each other, and what moves a player is of its   *)
(* present stay: InOneMap and InputIsOfThisStay of Maps for any characters,   *)
(* maps, portals and bounds.                                                 *)
(***************************************************************************)
EXTENDS Maps, SequenceTheorems, TLAPS

\* The epoch of a player counts its stays, so an input that names the epoch
\* names the stay.
Fresh(p) ==
  /\ p.epoch = p.stay
  /\ p.input.held => p.input.stay = p.stay
  /\ p.input.pressed => p.input.jump

\* What is on its way belongs to a session with a Player, and a client that
\* knows an epoch knows the stay that began with it.
FreshClients ==
  \A c \in Character :
    /\ seen[c] # Null => player[c] # Null /\ seen[c].epoch = seen[c].stay
    /\ wire[c] # <<>> => player[c] # Null
    /\ \A n \in 1 .. Len(wire[c]) : wire[c][n].epoch = wire[c][n].stay

FreshPlayers == \A c \in Character : player[c] # Null => Fresh(player[c])

\* InOneMap without the types, of any maps and players.
Placement(ms, ps) ==
  /\ \A c \in Character : ps[c] # Null /\ ps[c].current # Null =>
       /\ ms[ps[c].current] # Null
       /\ ps[c].current = ps[c].map
       /\ c \in ms[ps[c].current].players
  /\ \A m \in MapId : ms[m] # Null =>
       /\ \A c \in ms[m].players : ps[c] # Null /\ ps[c].current = m
       /\ ms[m].has <=> ms[m].players # {}

MapsType == [MapId -> MapInstance \cup {Null}]

IInv == TypeOK /\ Placement(map, player) /\ FreshPlayers /\ FreshClients

-------------------------------------------------------------------------------
(* The pieces of the handlers.                                               *)

\* A player that has just been put somewhere has no input at all.
LEMMA PlacedIsFresh ==
  ASSUME NEW p \in Player, Fresh(p), p.stay < MaxStay
  PROVE  /\ Placed(p) \in Player
         /\ Fresh(Placed(p))
         /\ Placed(p).current = p.current
         /\ Placed(p).map = p.map
<1>1. p.stay + 1 \in Stay /\ p.epoch + 1 \in Stay /\ 0 \in Stay
  BY MapsAssumption DEF Player, Stay, Fresh
<1>2. NoInput \in [held : BOOLEAN, jump : BOOLEAN, stay : Stay, pressed : BOOLEAN]
  BY <1>1 DEF NoInput
<1>3. 0 \in 0 .. MaxSequence /\ 0 \in 0 .. InputLife
  BY MapsAssumption
<1> DEFINE r == ResetMovement(p)
<1>4. /\ r \in Player
      /\ r.epoch = p.epoch + 1 /\ r.stay = p.stay /\ r.input = NoInput
      /\ r.current = p.current /\ r.map = p.map
  BY <1>1, <1>2, <1>3 DEF ResetMovement, Player
<1>5. Placed(p) = [r EXCEPT !.stay = r.stay + 1]
  BY DEF Placed
<1> HIDE DEF r
<1>6. /\ Placed(p) \in Player
      /\ Placed(p).stay = p.stay + 1
      /\ Placed(p).epoch = r.epoch /\ Placed(p).input = r.input
      /\ Placed(p).current = r.current /\ Placed(p).map = r.map
  BY <1>1, <1>4, <1>5 DEF Player
<1> QED
  BY <1>4, <1>6 DEF Fresh, NoInput

\* The physics step only drops or weakens what a player has.
LEMMA ConsumedIsFresh ==
  ASSUME NEW p \in Player, Fresh(p)
  PROVE  /\ ConsumeMovement(p) \in Player
         /\ Fresh(ConsumeMovement(p))
         /\ ConsumeMovement(p).current = p.current
         /\ ConsumeMovement(p).map = p.map
         /\ ConsumeMovement(p).stay = p.stay
<1>1. CASE p.age >= InputLife
  <2>1. 0 \in Stay
    BY MapsAssumption DEF Stay
  <2>2. NoInput \in [held : BOOLEAN, jump : BOOLEAN, stay : Stay, pressed : BOOLEAN]
    BY <2>1 DEF NoInput
  <2>3. ConsumeMovement(p) = [p EXCEPT !.input = NoInput]
    BY <1>1 DEF ConsumeMovement
  <2> QED
    BY <2>2, <2>3 DEF Player, Fresh, NoInput
<1>2. CASE ~(p.age >= InputLife)
  <2>1. p.age + 1 \in 0 .. InputLife
    BY <1>2, MapsAssumption DEF Player
  <2> DEFINE i == [[p.input EXCEPT !.jump = FALSE] EXCEPT !.pressed = FALSE]
  <2>2. /\ i \in [held : BOOLEAN, jump : BOOLEAN, stay : Stay, pressed : BOOLEAN]
        /\ ~i.pressed /\ i.held = p.input.held /\ i.stay = p.input.stay
    BY DEF Player
  <2>3. ConsumeMovement(p) = [[p EXCEPT !.age = p.age + 1] EXCEPT !.input = i]
    BY <1>2 DEF ConsumeMovement, Player
  <2> HIDE DEF i
  <2>4. /\ ConsumeMovement(p) \in Player
        /\ ConsumeMovement(p).input = i /\ ConsumeMovement(p).epoch = p.epoch
        /\ ConsumeMovement(p).stay = p.stay
        /\ ConsumeMovement(p).current = p.current /\ ConsumeMovement(p).map = p.map
    BY <2>1, <2>2, <2>3 DEF Player
  <2> QED
    BY <2>2, <2>4 DEF Fresh
<1> QED
  BY <1>1, <1>2

\* What AcceptMovement takes is of the present epoch, hence of the present stay.
LEMMA AcceptedIsFresh ==
  ASSUME NEW p \in Player, Fresh(p), NEW i \in Packet, i.epoch = i.stay
  PROVE  /\ AcceptMovement(p, i) \in Player
         /\ Fresh(AcceptMovement(p, i))
         /\ AcceptMovement(p, i).current = p.current
         /\ AcceptMovement(p, i).map = p.map
<1>1. CASE ~p.alive \/ i.epoch # p.epoch \/ i.sequence <= p.sequence
  BY <1>1 DEF AcceptMovement
<1>2. CASE ~(~p.alive \/ i.epoch # p.epoch \/ i.sequence <= p.sequence)
  <2> DEFINE j == [held |-> TRUE, jump |-> p.input.jump \/ i.jump, stay |-> i.stay,
                   pressed |-> p.input.pressed \/ i.jump]
             a == AcceptMovement(p, i)
  <2>1. a = [p EXCEPT !.sequence = i.sequence, !.age = 0, !.input = j]
    BY <1>2 DEF AcceptMovement, Player
  <2>2. i.sequence \in 0 .. MaxSequence /\ 0 \in 0 .. InputLife
    BY MapsAssumption DEF Packet
  <2>3. /\ j \in [held : BOOLEAN, jump : BOOLEAN, stay : Stay, pressed : BOOLEAN]
        /\ j.stay = p.stay
        /\ j.pressed => j.jump
    BY <1>2 DEF Fresh, Player, Packet
  <2> HIDE DEF j
  <2>4. /\ a \in Player
        /\ a.input = j /\ a.epoch = p.epoch /\ a.stay = p.stay
        /\ a.current = p.current /\ a.map = p.map
    BY <2>1, <2>2, <2>3 DEF Player
  <2> QED
    BY <2>3, <2>4 DEF Fresh
<1> QED
  BY <1>1, <1>2

\* A map that is made is an empty one, and the others stay as they are.
LEMMA CreatedMaps ==
  ASSUME NEW m \in MapId, map \in MapsType
  PROVE  /\ GetOrCreate(m) \in MapsType
         /\ GetOrCreate(m)[m] # Null
         /\ \A n \in MapId : map[n] # Null => GetOrCreate(m)[n] = map[n]
         /\ \A n \in MapId : GetOrCreate(m)[n] # Null /\ map[n] = Null =>
              GetOrCreate(m)[n].players = {} /\ ~GetOrCreate(m)[n].has
<1>1. NewMap \in MapInstance /\ NewMap.players = {} /\ ~NewMap.has
  BY DEF NewMap, MapInstance
<1>2. NewMap # Null
  BY <1>1, MapsAssumption
<1>3. CASE map[m] = Null
  <2>1. GetOrCreate(m) = [map EXCEPT ![m] = NewMap]
    BY <1>3 DEF GetOrCreate
  <2> QED
    BY <1>1, <1>2, <1>3, <2>1 DEF MapsType
<1>4. CASE map[m] # Null
  BY <1>4 DEF GetOrCreate
<1> QED
  BY <1>3, <1>4

\* Creating a map disturbs nobody.
LEMMA CreatedPlacement ==
  ASSUME NEW m \in MapId, map \in MapsType, player \in [Character -> Player \cup {Null}],
         Placement(map, player)
  PROVE  Placement(GetOrCreate(m), player)
<1>1. /\ \A n \in MapId : map[n] # Null => GetOrCreate(m)[n] = map[n]
      /\ \A n \in MapId : GetOrCreate(m)[n] # Null /\ map[n] = Null =>
           GetOrCreate(m)[n].players = {} /\ ~GetOrCreate(m)[n].has
  BY CreatedMaps
<1>2. ASSUME NEW c \in Character, player[c] # Null, player[c].current # Null
      PROVE  /\ GetOrCreate(m)[player[c].current] # Null
             /\ player[c].current = player[c].map
             /\ c \in GetOrCreate(m)[player[c].current].players
  <2>1. player[c].current \in MapId
    BY <1>2 DEF Player
  <2> QED
    BY <1>1, <1>2, <2>1 DEF Placement
<1>3. ASSUME NEW n \in MapId, GetOrCreate(m)[n] # Null
      PROVE  /\ \A c \in GetOrCreate(m)[n].players : player[c] # Null /\ player[c].current = n
             /\ GetOrCreate(m)[n].has <=> GetOrCreate(m)[n].players # {}
  BY <1>1, <1>3 DEF Placement
<1> QED
  BY <1>2, <1>3 DEF Placement

\* OnLeave takes a player out of one map and keeps its flag true.
LEMMA LeftMaps ==
  ASSUME NEW ms \in MapsType, NEW c \in Character, NEW m \in MapId, ms[m] # Null,
         ms[m].has <=> ms[m].players # {}
  PROVE  /\ OnLeave(ms, c, m) \in MapsType
         /\ OnLeave(ms, c, m)[m] # Null
         /\ OnLeave(ms, c, m)[m].players = ms[m].players \ {c}
         /\ OnLeave(ms, c, m)[m].has <=> OnLeave(ms, c, m)[m].players # {}
         /\ \A n \in MapId \ {m} : OnLeave(ms, c, m)[n] = ms[n]
<1> DEFINE left == ms[m].players \ {c}
           r == Without(ms[m], c)
<1>1. ms[m] \in MapInstance
  BY DEF MapsType
<1>2. CASE c \notin ms[m].players
  <2>1. OnLeave(ms, c, m) = ms
    BY <1>2 DEF OnLeave
  <2> QED
    BY <1>1, <1>2, <2>1 DEF MapInstance
<1>3. CASE c \in ms[m].players
  <2>1. OnLeave(ms, c, m) = [ms EXCEPT ![m] = r]
    BY <1>3 DEF OnLeave
  <2>2. r \in MapInstance /\ r.players = left /\ (r.has <=> ms[m].has /\ left # {})
    BY <1>1 DEF MapInstance, Without
  <2>3. r # Null
    BY <2>2, MapsAssumption
  <2> HIDE DEF r
  <2>4. /\ OnLeave(ms, c, m)[m] = r
        /\ OnLeave(ms, c, m) \in MapsType
        /\ \A n \in MapId \ {m} : OnLeave(ms, c, m)[n] = ms[n]
    BY <2>1, <2>2 DEF MapsType
  <2> QED
    BY <1>3, <2>2, <2>3, <2>4
<1> QED
  BY <1>2, <1>3

\* OnEnter puts a player into one map, as a fresh one if it was not there.
LEMMA EnteredMaps ==
  ASSUME NEW ms \in MapsType, NEW p \in Player, Fresh(p), p.stay < MaxStay,
         NEW c \in Character, NEW m \in MapId, ms[m] # Null,
         ms[m].has <=> ms[m].players # {}
  PROVE  /\ OnEnter(ms, p, c, m).maps \in MapsType
         /\ OnEnter(ms, p, c, m).maps[m] # Null
         /\ OnEnter(ms, p, c, m).maps[m].players = ms[m].players \cup {c}
         /\ OnEnter(ms, p, c, m).maps[m].has
         /\ \A n \in MapId \ {m} : OnEnter(ms, p, c, m).maps[n] = ms[n]
         /\ OnEnter(ms, p, c, m).player \in Player
         /\ Fresh(OnEnter(ms, p, c, m).player)
         /\ OnEnter(ms, p, c, m).player.current = p.current
         /\ OnEnter(ms, p, c, m).player.map = p.map
<1>1. ms[m] \in MapInstance
  BY DEF MapsType
<1>2. CASE c \in ms[m].players
  <2>1. OnEnter(ms, p, c, m) = [maps |-> ms, player |-> p]
    BY <1>2 DEF OnEnter
  <2> QED
    BY <1>1, <1>2, <2>1 DEF MapInstance
<1>3. CASE c \notin ms[m].players
  <2> DEFINE r == With(ms[m], c)
  <2>1. OnEnter(ms, p, c, m) = [maps |-> [ms EXCEPT ![m] = r], player |-> Placed(p)]
    BY <1>3 DEF OnEnter
  <2>2. r \in MapInstance /\ r.players = ms[m].players \cup {c} /\ r.has
    BY <1>1 DEF MapInstance, With
  <2>3. r # Null
    BY <2>2, MapsAssumption
  <2> HIDE DEF r
  <2>4. /\ OnEnter(ms, p, c, m).maps = [ms EXCEPT ![m] = r]
        /\ OnEnter(ms, p, c, m).player = Placed(p)
    BY <2>1
  <2>5. /\ [ms EXCEPT ![m] = r] \in MapsType
        /\ [ms EXCEPT ![m] = r][m] = r
        /\ \A n \in MapId \ {m} : [ms EXCEPT ![m] = r][n] = ms[n]
    BY <2>2 DEF MapsType
  <2> QED
    BY <2>2, <2>3, <2>4, <2>5, PlacedIsFresh
<1> QED
  BY <1>2, <1>3

-------------------------------------------------------------------------------
(* The steps.                                                                *)

\* A handler that gives one character another Player and keeps the rest.
LEMMA OtherPlayer ==
  ASSUME IInv, NEW c \in Character, player[c] # Null, NEW q \in Player, Fresh(q),
         player' = [player EXCEPT ![c] = q], map' \in MapsType,
         Placement(map', player'), UNCHANGED <<saved, seen, wire, logins>>
  PROVE  IInv'
<1>1. q # Null
  BY MapsAssumption
<1>2. \A d \in Character : player'[d] = IF d = c THEN q ELSE player[d]
  BY DEF IInv, TypeOK
<1>3. TypeOK'
  BY DEF IInv, TypeOK, MapsType
<1>4. FreshPlayers'
  BY <1>2 DEF IInv, FreshPlayers
<1>5. FreshClients'
  BY <1>1, <1>2 DEF IInv, FreshClients
<1> QED
  BY <1>3, <1>4, <1>5 DEF IInv

\* A Player that stays in its map may replace the one that was there.
LEMMA SamePlace ==
  ASSUME IInv, NEW c \in Character, player[c] # Null, NEW q \in Player,
         q.current = player[c].current, q.map = player[c].map
  PROVE  Placement(map, [player EXCEPT ![c] = q])
<1> DEFINE ps == [player EXCEPT ![c] = q]
<1>1. q # Null
  BY MapsAssumption
<1>2. \A d \in Character : ps[d] = IF d = c THEN q ELSE player[d]
  BY DEF IInv, TypeOK
<1> HIDE DEF ps
<1>3. \A m \in MapId : map[m] # Null => map[m].players \subseteq Character
  BY DEF IInv, TypeOK, MapInstance
<1>4. \A d \in Character : ps[d] # Null /\ ps[d].current # Null =>
        /\ map[ps[d].current] # Null
        /\ ps[d].current = ps[d].map
        /\ d \in map[ps[d].current].players
  BY <1>2 DEF IInv, Placement
<1>5. \A m \in MapId : map[m] # Null =>
        /\ \A d \in map[m].players : ps[d] # Null /\ ps[d].current = m
        /\ map[m].has <=> map[m].players # {}
  BY <1>1, <1>2, <1>3 DEF IInv, Placement
<1>6. Placement(map, ps)
  BY <1>4, <1>5 DEF Placement
<1> QED
  BY <1>6 DEF ps

\* A handler that changes a Player where it is.
LEMMA SamePlaceStep ==
  ASSUME IInv, NEW c \in Character, player[c] # Null, NEW q \in Player, Fresh(q),
         q.current = player[c].current, q.map = player[c].map,
         player' = [player EXCEPT ![c] = q], UNCHANGED <<map, saved, seen, wire, logins>>
  PROVE  IInv'
<1>1. Placement(map', player')
  BY SamePlace
<1>2. map' \in MapsType
  BY DEF IInv, TypeOK, MapsType
<1> QED
  BY <1>1, <1>2, OtherPlayer

\* A Player that exists is one, and a fresh one.
LEMMA PlayerFacts ==
  ASSUME IInv, NEW c \in Character, player[c] # Null
  PROVE  player[c] \in Player /\ Fresh(player[c]) /\ map \in MapsType
BY DEF IInv, TypeOK, FreshPlayers, MapsType

\* A list of a map holds who is in it, and nobody else.
LEMMA ListedIsThere ==
  ASSUME NEW ms \in MapsType, NEW ps \in [Character -> Player \cup {Null}],
         Placement(ms, ps), NEW m \in MapId, ms[m] # Null
  PROVE  /\ ms[m].players \subseteq Character
         /\ \A c \in Character : c \in ms[m].players <=> ps[c] # Null /\ ps[c].current = m
         /\ ms[m].has <=> ms[m].players # {}
<1>1. ms[m].players \subseteq Character
  BY DEF MapsType, MapInstance
<1>2. m # Null
  BY MapsAssumption
<1> QED
  BY <1>1, <1>2 DEF Placement

\* A list like that, and existing maps, are all that Placement says.
LEMMA PlacementOf ==
  ASSUME NEW ms, NEW ps \in [Character -> Player \cup {Null}],
         \A c \in Character : ps[c] # Null /\ ps[c].current # Null =>
           ms[ps[c].current] # Null /\ ps[c].current = ps[c].map,
         \A m \in MapId : ms[m] # Null =>
           /\ ms[m].players \subseteq Character
           /\ \A c \in Character : c \in ms[m].players <=> ps[c] # Null /\ ps[c].current = m
           /\ ms[m].has <=> ms[m].players # {}
  PROVE  Placement(ms, ps)
<1>1. ASSUME NEW c \in Character, ps[c] # Null, ps[c].current # Null
      PROVE  ps[c].current \in MapId
  BY <1>1 DEF Player
<1> QED
  BY <1>1 DEF Placement

LEMMA EnterMapStep ==
  ASSUME IInv, NEW c \in Character, EnterMap(c)
  PROVE  IInv'
<1> DEFINE p == player[c]
           m == p.map
           ms == GetOrCreate(m)
           p1 == [p EXCEPT !.current = m]
           e == OnEnter(ms, p1, c, m)
<1>1. p \in Player /\ Fresh(p) /\ map \in MapsType /\ p # Null /\ p.stay < MaxStay
  BY PlayerFacts DEF EnterMap
<1>2. m \in MapId
  BY <1>1 DEF Player
<1>3. /\ p1 \in Player /\ Fresh(p1) /\ p1.stay < MaxStay
      /\ p1.current = m /\ p1.map = m
  BY <1>1, <1>2 DEF Player, Fresh
<1>4. player \in [Character -> Player \cup {Null}] /\ Placement(map, player)
  BY DEF IInv, TypeOK
<1>5. /\ ms \in MapsType /\ ms[m] # Null
      /\ Placement(ms, player)
  BY <1>1, <1>2, <1>4, CreatedMaps, CreatedPlacement
<1>6. /\ map' = e.maps
      /\ player' = [player EXCEPT ![c] = e.player]
      /\ UNCHANGED <<saved, seen, wire, logins>>
  BY DEF EnterMap
<1> HIDE DEF p, ms, p1
<1>7. ms[m].has <=> ms[m].players # {}
  BY <1>2, <1>4, <1>5, ListedIsThere
<1>8. /\ e.maps \in MapsType /\ e.maps[m] # Null
      /\ e.maps[m].players = ms[m].players \cup {c} /\ e.maps[m].has
      /\ \A n \in MapId \ {m} : e.maps[n] = ms[n]
      /\ e.player \in Player /\ Fresh(e.player)
      /\ e.player.current = m /\ e.player.map = m
  BY <1>2, <1>3, <1>5, <1>7, EnteredMaps
<1> HIDE DEF e
<1>9. player' \in [Character -> Player \cup {Null}] /\ e.player # Null
  BY <1>4, <1>6, <1>8, MapsAssumption
<1>10. \A d \in Character : player'[d] = IF d = c THEN e.player ELSE player[d]
  BY <1>4, <1>6
<1>11. p.current = Null \/ p.current = m
  BY <1>1, <1>4 DEF Placement, p, m
<1>12. ASSUME NEW d \in Character, player'[d] # Null, player'[d].current # Null
       PROVE  map'[player'[d].current] # Null /\ player'[d].current = player'[d].map
  <2>1. CASE d = c
    BY <1>6, <1>8, <1>10, <2>1
  <2>2. CASE d # c
    <3>1. player'[d] = player[d] /\ player[d].current \in MapId
      BY <1>4, <1>10, <1>12, <2>2 DEF Player
    <3> QED
      BY <1>5, <1>6, <1>8, <1>12, <3>1 DEF Placement
  <2> QED
    BY <2>1, <2>2
<1>13. ASSUME NEW n \in MapId, map'[n] # Null
       PROVE  /\ map'[n].players \subseteq Character
              /\ \A d \in Character :
                   d \in map'[n].players <=> player'[d] # Null /\ player'[d].current = n
              /\ map'[n].has <=> map'[n].players # {}
  <2>1. CASE n = m
    BY <1>2, <1>4, <1>5, <1>6, <1>8, <1>9, <1>10, <2>1, ListedIsThere
  <2>2. CASE n # m
    <3>1. map'[n] = ms[n] /\ ms[n] # Null
      BY <1>6, <1>8, <1>13, <2>2
    <3>2. /\ ms[n].players \subseteq Character
          /\ \A d \in Character : d \in ms[n].players <=> player[d] # Null /\ player[d].current = n
          /\ ms[n].has <=> ms[n].players # {}
      BY <1>4, <1>5, <3>1, ListedIsThere
    <3>3. c \notin ms[n].players
      BY <1>11, <2>2, <3>2, MapsAssumption DEF p
    <3> QED
      BY <1>8, <1>10, <2>2, <3>1, <3>2, <3>3
  <2> QED
    BY <2>1, <2>2
<1>14. Placement(map', player')
  BY <1>9, <1>12, <1>13, PlacementOf
<1> QED
  BY <1>1, <1>6, <1>8, <1>14, OtherPlayer DEF p

LEMMA MoveByPortalStep ==
  ASSUME IInv, NEW c \in Character, NEW to \in MapId, MoveByPortal(c, to)
  PROVE  IInv'
<1> DEFINE p == player[c]
           from == p.current
           ms == GetOrCreate(to)
           left == OnLeave(ms, c, from)
           p1 == [p EXCEPT !.map = to, !.current = to]
           e == OnEnter(left, p1, c, to)
<1>1. /\ p \in Player /\ Fresh(p) /\ map \in MapsType /\ p # Null /\ p.stay < MaxStay
      /\ from # Null
  BY PlayerFacts DEF MoveByPortal
<1>2. from \in MapId
  BY <1>1 DEF Player
<1>3. /\ p1 \in Player /\ Fresh(p1) /\ p1.stay < MaxStay
      /\ p1.current = to /\ p1.map = to
  BY <1>1 DEF Player, Fresh
<1>4. player \in [Character -> Player \cup {Null}] /\ Placement(map, player)
  BY DEF IInv, TypeOK
<1>5. /\ ms \in MapsType /\ ms[to] # Null
      /\ Placement(ms, player)
  BY <1>1, <1>4, CreatedMaps, CreatedPlacement
<1>6. /\ map' = e.maps
      /\ player' = [player EXCEPT ![c] = e.player]
      /\ UNCHANGED <<saved, seen, wire, logins>>
  BY DEF MoveByPortal
<1> HIDE DEF ms, p1
<1>7. ms[from] # Null /\ \A n \in MapId : ms[n] # Null =>
        /\ ms[n].players \subseteq Character
        /\ \A d \in Character : d \in ms[n].players <=> player[d] # Null /\ player[d].current = n
        /\ ms[n].has <=> ms[n].players # {}
  <2>1. ms[from] # Null
    BY <1>1, <1>5 DEF Placement
  <2> QED
    BY <1>4, <1>5, <2>1, ListedIsThere
<1>8. /\ left \in MapsType /\ left[from] # Null
      /\ left[from].players = ms[from].players \ {c}
      /\ left[from].has <=> left[from].players # {}
      /\ \A n \in MapId \ {from} : left[n] = ms[n]
  BY <1>2, <1>5, <1>7, LeftMaps
<1> HIDE DEF left
<1>9. left[to] # Null /\ (left[to].has <=> left[to].players # {})
  BY <1>5, <1>7, <1>8
<1>10. /\ e.maps \in MapsType /\ e.maps[to] # Null
       /\ e.maps[to].players = left[to].players \cup {c} /\ e.maps[to].has
       /\ \A n \in MapId \ {to} : e.maps[n] = left[n]
       /\ e.player \in Player /\ Fresh(e.player)
       /\ e.player.current = to /\ e.player.map = to
  BY <1>3, <1>8, <1>9, EnteredMaps
<1> HIDE DEF e
<1>11. player' \in [Character -> Player \cup {Null}] /\ e.player # Null
  BY <1>4, <1>6, <1>10, MapsAssumption
<1>12. \A d \in Character : player'[d] = IF d = c THEN e.player ELSE player[d]
  BY <1>4, <1>6
<1>13. ASSUME NEW d \in Character, player'[d] # Null, player'[d].current # Null
       PROVE  map'[player'[d].current] # Null /\ player'[d].current = player'[d].map
  <2>1. CASE d = c
    BY <1>6, <1>10, <1>12, <2>1
  <2>2. CASE d # c
    <3>1. player'[d] = player[d] /\ player[d].current \in MapId
      BY <1>4, <1>12, <1>13, <2>2 DEF Player
    <3>2. ms[player[d].current] # Null /\ player[d].current = player[d].map
      BY <1>5, <1>13, <3>1 DEF Placement
    <3> QED
      BY <1>6, <1>8, <1>10, <3>1, <3>2
  <2> QED
    BY <2>1, <2>2
<1>14. ASSUME NEW n \in MapId, map'[n] # Null
       PROVE  /\ map'[n].players \subseteq Character
              /\ \A d \in Character :
                   d \in map'[n].players <=> player'[d] # Null /\ player'[d].current = n
              /\ map'[n].has <=> map'[n].players # {}
  <2>1. /\ left[n] # Null /\ left[n].players = ms[n].players \ {c}
        /\ left[n].has <=> left[n].players # {}
        /\ ms[n] # Null
    <3>1. CASE n = from
      BY <1>7, <1>8, <3>1
    <3>2. CASE n # from
      <4>1. left[n] = ms[n]
        BY <1>8, <3>2
      <4>2. left[n] # Null
        BY <1>6, <1>9, <1>10, <1>14
      <4> QED
        BY <1>7, <3>2, <4>1, <4>2
    <3> QED
      BY <3>1, <3>2
  <2>2. CASE n = to
    BY <1>6, <1>7, <1>10, <1>11, <1>12, <2>1, <2>2
  <2>3. CASE n # to
    BY <1>6, <1>7, <1>10, <1>12, <2>1, <2>3
  <2> QED
    BY <2>2, <2>3
<1>15. Placement(map', player')
  BY <1>11, <1>13, <1>14, PlacementOf
<1> QED
  BY <1>1, <1>6, <1>10, <1>15, OtherPlayer

LEMMA FinalizePlayerStep ==
  ASSUME IInv, NEW c \in Character, FinalizePlayer(c)
  PROVE  IInv'
<1> DEFINE p == player[c]
<1>1. p \in Player /\ Fresh(p) /\ map \in MapsType /\ p # Null
  BY PlayerFacts DEF FinalizePlayer
<1>2. player \in [Character -> Player \cup {Null}] /\ Placement(map, player)
  BY DEF IInv, TypeOK
<1>3. /\ player' = [player EXCEPT ![c] = Null] /\ saved' = [saved EXCEPT ![c] = p.map]
      /\ seen' = [seen EXCEPT ![c] = Null] /\ wire' = [wire EXCEPT ![c] = <<>>]
      /\ logins' = logins
      /\ map' = IF p.current = Null THEN map ELSE OnLeave(map, c, p.current)
  BY DEF FinalizePlayer
<1> HIDE DEF p
<1>4. \A n \in MapId : map[n] # Null =>
        /\ map[n].players \subseteq Character
        /\ \A d \in Character : d \in map[n].players <=> player[d] # Null /\ player[d].current = n
        /\ map[n].has <=> map[n].players # {}
  BY <1>1, <1>2, ListedIsThere
<1>5. /\ map' \in MapsType
      /\ \A n \in MapId : map'[n] = Null <=> map[n] = Null
      /\ \A n \in MapId : map[n] # Null =>
           /\ map'[n].players = map[n].players \ {c}
           /\ map'[n].has <=> map'[n].players # {}
  <2>1. CASE p.current = Null
    BY <1>1, <1>3, <1>4, <2>1, MapsAssumption DEF p
  <2>2. CASE p.current # Null
    <3>1. p.current \in MapId /\ map[p.current] # Null
      BY <1>1, <1>2, <2>2 DEF Player, Placement, p
    <3>2. /\ map' \in MapsType /\ map'[p.current] # Null
          /\ map'[p.current].players = map[p.current].players \ {c}
          /\ map'[p.current].has <=> map'[p.current].players # {}
          /\ \A n \in MapId \ {p.current} : map'[n] = map[n]
      BY <1>1, <1>3, <1>4, <2>2, <3>1, LeftMaps
    <3>3. \A n \in MapId \ {p.current} : map[n] # Null => c \notin map[n].players
      BY <1>4 DEF p
    <3> QED
      BY <1>4, <3>1, <3>2, <3>3
  <2> QED
    BY <2>1, <2>2
<1>6. \A d \in Character : player'[d] = IF d = c THEN Null ELSE player[d]
  BY <1>2, <1>3
<1>7. player' \in [Character -> Player \cup {Null}]
  BY <1>2, <1>3
<1>8. Placement(map', player')
  <2>1. ASSUME NEW d \in Character, player'[d] # Null, player'[d].current # Null
        PROVE  map'[player'[d].current] # Null /\ player'[d].current = player'[d].map
    <3>1. d # c /\ player'[d] = player[d] /\ player[d].current \in MapId
      BY <1>2, <1>6, <2>1 DEF Player
    <3> QED
      BY <1>2, <1>5, <2>1, <3>1 DEF Placement
  <2>2. ASSUME NEW n \in MapId, map'[n] # Null
        PROVE  /\ map'[n].players \subseteq Character
               /\ \A d \in Character :
                    d \in map'[n].players <=> player'[d] # Null /\ player'[d].current = n
               /\ map'[n].has <=> map'[n].players # {}
    BY <1>4, <1>5, <1>6, <2>2
  <2> QED
    BY <1>7, <2>1, <2>2, PlacementOf
<1>9. p.map \in MapId
  BY <1>1 DEF Player
<1>10. TypeOK'
  <2>1. wire' \in [Character -> Seq(Packet)]
    BY <1>3 DEF IInv, TypeOK
  <2>2. \A d \in Character : wire'[d] = IF d = c THEN <<>> ELSE wire[d]
    BY <1>3 DEF IInv, TypeOK
  <2>3. \A d \in Character : Len(wire'[d]) <= MaxWire
    BY <2>2, MapsAssumption DEF IInv, TypeOK
  <2>4. seen' \in [Character -> View \cup {Null}] /\ saved' \in [Character -> MapId]
    BY <1>3, <1>9 DEF IInv, TypeOK
  <2> QED
    BY <1>3, <1>5, <1>7, <2>1, <2>3, <2>4 DEF IInv, TypeOK, MapsType
<1>11. FreshPlayers'
  BY <1>6 DEF IInv, FreshPlayers
<1>12. FreshClients'
  <2>1. \A d \in Character : /\ wire'[d] = IF d = c THEN <<>> ELSE wire[d]
                             /\ seen'[d] = IF d = c THEN Null ELSE seen[d]
    BY <1>3 DEF IInv, TypeOK
  <2> QED
    BY <1>6, <2>1 DEF IInv, FreshClients
<1> QED
  BY <1>8, <1>10, <1>11, <1>12 DEF IInv

LEMMA LoginStep ==
  ASSUME IInv, NEW c \in Character, Login(c)
  PROVE  IInv'
<1> DEFINE p == NewPlayer(saved[c])
<1>1. /\ player[c] = Null /\ logins < MaxLogins
      /\ player' = [player EXCEPT ![c] = p]
      /\ logins' = logins + 1 /\ UNCHANGED <<map, saved, seen, wire>>
  BY DEF Login
<1>2. /\ player \in [Character -> Player \cup {Null}] /\ Placement(map, player)
      /\ map \in MapsType /\ saved[c] \in MapId
  BY DEF IInv, TypeOK, MapsType
<1>3. /\ p \in Player /\ Fresh(p) /\ p.current = Null
  <2>1. 0 \in Stay /\ 0 \in 0 .. MaxSequence /\ 0 \in 0 .. InputLife
    BY MapsAssumption DEF Stay
  <2> QED
    BY <1>2, <2>1 DEF NewPlayer, NoInput, Player, Fresh
<1> HIDE DEF p
<1>4. \A d \in Character : player'[d] = IF d = c THEN p ELSE player[d]
  BY <1>1, <1>2
<1>5. player' \in [Character -> Player \cup {Null}] /\ p # Null
  BY <1>1, <1>2, <1>3, MapsAssumption
<1>6. Placement(map', player')
  <2>1. \A n \in MapId : map[n] # Null =>
          /\ map[n].players \subseteq Character
          /\ \A d \in Character : d \in map[n].players <=> player[d] # Null /\ player[d].current = n
          /\ map[n].has <=> map[n].players # {}
    BY <1>2, ListedIsThere
  <2>2. ASSUME NEW n \in MapId, map'[n] # Null
        PROVE  /\ map'[n].players \subseteq Character
               /\ \A d \in Character :
                    d \in map'[n].players <=> player'[d] # Null /\ player'[d].current = n
               /\ map'[n].has <=> map'[n].players # {}
    BY <1>1, <1>3, <1>4, <2>1, <2>2, MapsAssumption
  <2>3. ASSUME NEW d \in Character, player'[d] # Null, player'[d].current # Null
        PROVE  map'[player'[d].current] # Null /\ player'[d].current = player'[d].map
    BY <1>1, <1>2, <1>3, <1>4, <2>3 DEF Placement
  <2> QED
    BY <1>5, <2>2, <2>3, PlacementOf
<1>7. TypeOK'
  <2>1. logins' \in 0 .. MaxLogins
    BY <1>1, MapsAssumption DEF IInv, TypeOK
  <2> QED
    BY <1>1, <1>5, <2>1 DEF IInv, TypeOK
<1>8. FreshPlayers' /\ FreshClients'
  BY <1>1, <1>3, <1>4, <1>5 DEF IInv, FreshPlayers, FreshClients
<1> QED
  BY <1>6, <1>7, <1>8 DEF IInv

LEMMA LifeStep ==
  ASSUME IInv, NEW c \in Character, Dead(c) \/ RevivePlayer(c)
  PROVE  IInv'
<1>1. PICK alive \in BOOLEAN :
        /\ player[c] # Null /\ player[c].stay < MaxStay
        /\ player' = [player EXCEPT ![c] = [Placed(player[c]) EXCEPT !.alive = alive]]
        /\ UNCHANGED <<map, saved, seen, wire, logins>>
  BY DEF Dead, RevivePlayer
<1> DEFINE q == [Placed(player[c]) EXCEPT !.alive = alive]
<1>2. /\ Placed(player[c]) \in Player /\ Fresh(Placed(player[c]))
      /\ Placed(player[c]).current = player[c].current
      /\ Placed(player[c]).map = player[c].map
  BY <1>1, PlayerFacts, PlacedIsFresh
<1>3. q \in Player /\ Fresh(q) /\ q.current = player[c].current /\ q.map = player[c].map
  BY <1>2 DEF Player, Fresh
<1> QED
  BY <1>1, <1>3, SamePlaceStep

LEMMA MovementInputStep ==
  ASSUME IInv, NEW c \in Character, MovementInput(c)
  PROVE  IInv'
<1> DEFINE i == Head(wire[c])
           q == AcceptMovement(player[c], i)
<1>1. wire[c] \in Seq(Packet) /\ wire[c] # <<>> /\ player[c] # Null
  BY DEF IInv, TypeOK, FreshClients, MovementInput
<1>2. /\ i \in Packet /\ i = wire[c][1] /\ 1 \in 1 .. Len(wire[c])
      /\ Tail(wire[c]) \in Seq(Packet) /\ Len(Tail(wire[c])) = Len(wire[c]) - 1
      /\ \A n \in 1 .. Len(Tail(wire[c])) :
           n + 1 \in 1 .. Len(wire[c]) /\ Tail(wire[c])[n] = wire[c][n + 1]
  BY <1>1
<1>3. i.epoch = i.stay
  BY <1>2 DEF IInv, FreshClients
<1>4. player[c] \in Player /\ Fresh(player[c]) /\ map \in MapsType
  BY <1>1, PlayerFacts
<1>5. /\ q \in Player /\ Fresh(q)
      /\ q.current = player[c].current /\ q.map = player[c].map
  BY <1>2, <1>3, <1>4, AcceptedIsFresh
<1>6. /\ player' = [player EXCEPT ![c] = q] \/ player' = player
      /\ wire' = [wire EXCEPT ![c] = Tail(wire[c])]
      /\ UNCHANGED <<map, saved, seen, logins>>
  BY DEF MovementInput
<1> HIDE DEF q, i
<1>7. /\ player \in [Character -> Player \cup {Null}] /\ Placement(map, player)
      /\ q # Null
  BY <1>5, MapsAssumption DEF IInv, TypeOK
<1>8. /\ player' \in [Character -> Player \cup {Null}]
      /\ Placement(map', player')
      /\ \A d \in Character : player'[d] = player[d] \/ (d = c /\ player'[d] = q)
  <2>1. CASE player' = player
    BY <1>6, <1>7, <2>1
  <2>2. CASE player' = [player EXCEPT ![c] = q]
    BY <1>1, <1>5, <1>6, <1>7, <2>2, SamePlace
  <2> QED
    BY <1>6, <2>1, <2>2
<1>9. \A d \in Character : wire'[d] = IF d = c THEN Tail(wire[c]) ELSE wire[d]
  BY <1>6 DEF IInv, TypeOK
<1>10. TypeOK'
  <2>1. wire' \in [Character -> Seq(Packet)]
    BY <1>2, <1>6 DEF IInv, TypeOK
  <2>2. \A d \in Character : Len(wire'[d]) <= MaxWire
    <3>1. Len(wire[c]) \in Nat /\ Len(wire[c]) <= MaxWire
      BY <1>1 DEF IInv, TypeOK
    <3>2. \A d \in Character : Len(wire[d]) <= MaxWire
      BY DEF IInv, TypeOK
    <3>3. Len(Tail(wire[c])) <= MaxWire
      BY <1>2, <3>1, MapsAssumption
    <3> QED
      BY <1>9, <3>2, <3>3
  <2> QED
    BY <1>6, <1>8, <2>1, <2>2 DEF IInv, TypeOK
<1>11. FreshPlayers'
  BY <1>5, <1>8 DEF IInv, FreshPlayers
<1>12. FreshClients'
  <2>1. ASSUME NEW d \in Character
        PROVE  /\ seen'[d] # Null => player'[d] # Null /\ seen'[d].epoch = seen'[d].stay
               /\ wire'[d] # <<>> => player'[d] # Null
    BY <1>1, <1>6, <1>7, <1>8, <1>9 DEF IInv, FreshClients
  <2>2. ASSUME NEW d \in Character, NEW n \in 1 .. Len(wire'[d])
        PROVE  wire'[d][n].epoch = wire'[d][n].stay
    <3>1. \A e \in Character : \A k \in 1 .. Len(wire[e]) : wire[e][k].epoch = wire[e][k].stay
      BY DEF IInv, FreshClients
    <3>2. CASE d = c
      <4>1. n \in 1 .. Len(Tail(wire[c])) /\ wire'[d] = Tail(wire[c])
        BY <1>9, <2>2, <3>2
      <4>2. n + 1 \in 1 .. Len(wire[c]) /\ Tail(wire[c])[n] = wire[c][n + 1]
        BY <1>2, <4>1
      <4> QED
        BY <3>1, <4>1, <4>2
    <3>3. CASE d # c
      BY <1>9, <2>2, <3>1, <3>3
    <3> QED
      BY <3>2, <3>3
  <2> QED
    BY <2>1, <2>2 DEF FreshClients
<1> QED
  BY <1>8, <1>10, <1>11, <1>12 DEF IInv

LEMMA SnapshotStep ==
  ASSUME IInv, NEW c \in Character, Snapshot(c)
  PROVE  IInv'
<1> DEFINE v == [map |-> player[c].map, epoch |-> player[c].epoch,
                 stay |-> player[c].stay, sent |-> 0]
<1>1. /\ player[c] # Null /\ seen' = [seen EXCEPT ![c] = v]
      /\ UNCHANGED <<map, player, saved, wire, logins>>
  BY DEF Snapshot
<1>2. v \in View /\ v.epoch = v.stay
  <2>1. player[c] \in Player /\ Fresh(player[c])
    BY <1>1, PlayerFacts
  <2> QED
    BY <2>1, MapsAssumption DEF View, Player, Fresh
<1> HIDE DEF v
<1>3. TypeOK'
  BY <1>1, <1>2 DEF IInv, TypeOK
<1>4. FreshClients'
  <2>1. \A d \in Character : seen'[d] = IF d = c THEN v ELSE seen[d]
    BY <1>1 DEF IInv, TypeOK
  <2> QED
    BY <1>1, <1>2, <2>1 DEF IInv, FreshClients
<1> QED
  BY <1>1, <1>3, <1>4 DEF IInv, FreshPlayers

LEMMA SendStep ==
  ASSUME IInv, NEW c \in Character, NEW jump \in BOOLEAN, Send(c, jump)
  PROVE  IInv'
<1> DEFINE v == seen[c]
           i == [map |-> v.map, epoch |-> v.epoch, stay |-> v.stay, jump |-> jump,
                 sequence |-> v.sent + 1]
           w == [v EXCEPT !.sent = v.sent + 1]
<1>1. /\ v # Null /\ v.sent < MaxSequence /\ Len(wire[c]) < MaxWire
      /\ seen' = [seen EXCEPT ![c] = w]
      /\ wire' = [wire EXCEPT ![c] = Append(wire[c], i)]
      /\ UNCHANGED <<map, player, saved, logins>>
  BY DEF Send
<1>2. v \in View /\ v.epoch = v.stay /\ player[c] # Null
  BY <1>1 DEF IInv, TypeOK, FreshClients
<1>3. i \in Packet /\ i.epoch = i.stay /\ w \in View /\ w.epoch = w.stay
  <2>1. v.sent + 1 \in 1 .. MaxSequence
    BY <1>1, <1>2, MapsAssumption DEF View
  <2> QED
    BY <1>2, <2>1 DEF View, Packet
<1> HIDE DEF i, w
<1>4. /\ wire[c] \in Seq(Packet)
      /\ Append(wire[c], i) \in Seq(Packet) /\ Len(Append(wire[c], i)) = Len(wire[c]) + 1
      /\ \A n \in 1 .. Len(wire[c]) : Append(wire[c], i)[n] = wire[c][n]
      /\ Append(wire[c], i)[Len(wire[c]) + 1] = i
      /\ Len(wire[c]) \in Nat
  BY <1>3 DEF IInv, TypeOK
<1>5. \A d \in Character : /\ seen'[d] = IF d = c THEN w ELSE seen[d]
                           /\ wire'[d] = IF d = c THEN Append(wire[c], i) ELSE wire[d]
  BY <1>1 DEF IInv, TypeOK
<1>6. TypeOK'
  <2>1. wire' \in [Character -> Seq(Packet)] /\ seen' \in [Character -> View \cup {Null}]
    BY <1>1, <1>3, <1>4 DEF IInv, TypeOK
  <2>2. \A d \in Character : Len(wire'[d]) <= MaxWire
    BY <1>1, <1>4, <1>5, MapsAssumption DEF IInv, TypeOK
  <2> QED
    BY <1>1, <2>1, <2>2 DEF IInv, TypeOK
<1>7. FreshClients'
  <2>1. ASSUME NEW d \in Character
        PROVE  /\ seen'[d] # Null => player'[d] # Null /\ seen'[d].epoch = seen'[d].stay
               /\ wire'[d] # <<>> => player'[d] # Null
    BY <1>1, <1>2, <1>3, <1>5 DEF IInv, FreshClients
  <2>2. ASSUME NEW d \in Character, NEW n \in 1 .. Len(wire'[d])
        PROVE  wire'[d][n].epoch = wire'[d][n].stay
    <3>1. CASE d = c
      <4>1. wire'[d] = Append(wire[c], i)
        BY <1>5, <3>1
      <4>2. n \in 1 .. Len(Append(wire[c], i))
        BY <4>1
      <4>3. n \in 1 .. Len(wire[c]) \/ n = Len(wire[c]) + 1
        BY <1>4, <4>2
      <4>4. \A k \in 1 .. Len(wire[c]) : wire[c][k].epoch = wire[c][k].stay
        BY DEF IInv, FreshClients
      <4> QED
        BY <1>3, <1>4, <4>1, <4>3, <4>4
    <3>2. CASE d # c
      BY <1>5, <2>2, <3>2 DEF IInv, FreshClients
    <3> QED
      BY <3>1, <3>2
  <2> QED
    BY <2>1, <2>2 DEF FreshClients
<1> QED
  BY <1>1, <1>6, <1>7 DEF IInv, FreshPlayers

\* A tick moves players where they are, and destroys maps nobody is in.
LEMMA UpdateStep ==
  ASSUME IInv, Update
  PROVE  IInv'
<1>1. PICK fallen \in SUBSET {c \in Character : player[c] # Null /\ player[c].stay < MaxStay} :
        /\ player' = [c \in Character |->
             IF player[c] = Null \/ player[c].current = Null THEN player[c]
             ELSE IF c \notin map[player[c].current].players THEN player[c]
             ELSE UpdatePlayerPhysics(player[c], c \in fallen)]
        /\ map' = [m \in MapId |-> IF Removed(m) THEN Null ELSE map[m]]
        /\ UNCHANGED <<saved, seen, wire, logins>>
  BY DEF Update
<1>2. /\ player \in [Character -> Player \cup {Null}] /\ Placement(map, player)
      /\ map \in MapsType
  BY DEF IInv, TypeOK, MapsType
<1>3. ASSUME NEW c \in Character
      PROVE  /\ player[c] = Null => player'[c] = Null
             /\ player[c] # Null => /\ player'[c] \in Player /\ Fresh(player'[c])
                                    /\ player'[c].current = player[c].current
                                    /\ player'[c].map = player[c].map
                                    /\ player'[c] # Null
  <2>1. CASE player[c] = Null
    BY <1>1, <2>1
  <2>2. CASE player[c] # Null /\ player'[c] = player[c]
    BY <2>2, PlayerFacts
  <2>3. CASE player[c] # Null /\ player'[c] # player[c]
    <3> DEFINE p == player[c]
    <3>1. player'[c] = UpdatePlayerPhysics(p, c \in fallen)
      BY <1>1, <2>3
    <3>2. p \in Player /\ Fresh(p)
      BY <2>3, PlayerFacts
    <3>3. /\ ConsumeMovement(p) \in Player /\ Fresh(ConsumeMovement(p))
          /\ ConsumeMovement(p).current = p.current /\ ConsumeMovement(p).map = p.map
          /\ ConsumeMovement(p).stay = p.stay
      BY <3>2, ConsumedIsFresh
    <3>4. CASE c \in fallen
      <4>1. p.stay < MaxStay
        BY <1>1, <3>4
      <4>2. /\ Placed(ConsumeMovement(p)) \in Player /\ Fresh(Placed(ConsumeMovement(p)))
            /\ Placed(ConsumeMovement(p)).current = p.current
            /\ Placed(ConsumeMovement(p)).map = p.map
        BY <3>3, <4>1, PlacedIsFresh
      <4> QED
        BY <2>3, <3>1, <3>2, <3>4, <4>2, MapsAssumption DEF UpdatePlayerPhysics
    <3>5. CASE c \notin fallen
      BY <2>3, <3>1, <3>2, <3>3, <3>5, MapsAssumption DEF UpdatePlayerPhysics
    <3> QED
      BY <3>4, <3>5
  <2> QED
    BY <2>1, <2>2, <2>3
<1>4. player' \in [Character -> Player \cup {Null}]
  <2>1. player' = [c \in Character |-> player'[c]]
    BY <1>1
  <2>2. \A c \in Character : player'[c] \in Player \cup {Null}
    BY <1>3
  <2> QED
    BY <2>1, <2>2
<1>5. \A m \in MapId : map[m] # Null =>
        /\ map[m].players \subseteq Character
        /\ \A c \in Character : c \in map[m].players <=> player[c] # Null /\ player[c].current = m
        /\ map[m].has <=> map[m].players # {}
  BY <1>2, ListedIsThere
<1>6. \A m \in MapId : IF Removed(m) THEN map'[m] = Null /\ map[m].players = {}
                       ELSE map'[m] = map[m]
  BY <1>1, <1>5 DEF Removed, RequestsRemoval
<1>7. Placement(map', player')
  <2>1. ASSUME NEW c \in Character, player'[c] # Null, player'[c].current # Null
        PROVE  map'[player'[c].current] # Null /\ player'[c].current = player'[c].map
    <3>1. /\ player[c] # Null /\ player'[c].current = player[c].current
          /\ player'[c].map = player[c].map /\ player[c].current \in MapId
      BY <1>2, <1>3, <2>1 DEF Player
    <3>2. /\ map[player[c].current] # Null /\ player[c].current = player[c].map
          /\ c \in map[player[c].current].players
      BY <1>2, <2>1, <3>1 DEF Placement
    <3> QED
      BY <1>6, <3>1, <3>2
  <2>2. ASSUME NEW m \in MapId, map'[m] # Null
        PROVE  /\ map'[m].players \subseteq Character
               /\ \A c \in Character :
                    c \in map'[m].players <=> player'[c] # Null /\ player'[c].current = m
               /\ map'[m].has <=> map'[m].players # {}
    <3>1. map'[m] = map[m] /\ map[m] # Null
      BY <1>6, <2>2
    <3> QED
      BY <1>3, <1>5, <3>1
  <2> QED
    BY <1>4, <2>1, <2>2, PlacementOf
<1>8. TypeOK'
  BY <1>1, <1>2, <1>4 DEF IInv, TypeOK, MapsType
<1>9. FreshPlayers' /\ FreshClients'
  BY <1>1, <1>3 DEF IInv, FreshPlayers, FreshClients
<1> QED
  BY <1>7, <1>8, <1>9 DEF IInv

LEMMA TimePassesStep ==
  ASSUME IInv, NEW m \in MapId, TimePasses(m)
  PROVE  IInv'
<1> DEFINE r == [map[m] EXCEPT !.stale = TRUE]
<1>1. /\ map[m] # Null /\ map' = [map EXCEPT ![m] = r]
      /\ UNCHANGED <<player, saved, seen, wire, logins>>
  BY DEF TimePasses
<1>2. map[m] \in MapInstance /\ map \in MapsType
  BY <1>1 DEF IInv, TypeOK, MapsType
<1>3. r \in MapInstance /\ r.players = map[m].players /\ r.has = map[m].has
  BY <1>2 DEF MapInstance
<1> HIDE DEF r
<1>4. r # Null
  BY <1>3, MapsAssumption
<1>5. \A n \in MapId : map'[n] = IF n = m THEN r ELSE map[n]
  BY <1>1, <1>2 DEF MapsType
<1>6. \A n \in MapId : /\ map'[n] = Null <=> map[n] = Null
                       /\ map[n] # Null => /\ map'[n].players = map[n].players
                                           /\ map'[n].has = map[n].has
  BY <1>1, <1>3, <1>4, <1>5
<1>7. Placement(map', player)
  <2>1. \A c \in Character : player[c] # Null /\ player[c].current # Null =>
          player[c].current \in MapId
    BY DEF IInv, TypeOK, Player
  <2> QED
    BY <1>6, <2>1 DEF IInv, Placement
<1>8. TypeOK'
  BY <1>1, <1>2, <1>3 DEF IInv, TypeOK, MapsType
<1> QED
  BY <1>1, <1>7, <1>8 DEF IInv, FreshPlayers, FreshClients

\* What holds at the start and after every step.
LEMMA InitInv == Init => IInv
<1> SUFFICES ASSUME Init PROVE IInv
  OBVIOUS
<1>1. TypeOK
  BY MapsAssumption DEF Init, TypeOK
<1>2. Placement(map, player) /\ FreshPlayers /\ FreshClients
  BY DEF Init, Placement, FreshPlayers, FreshClients
<1> QED
  BY <1>1, <1>2 DEF IInv

LEMMA StepInv == IInv /\ [Next]_vars => IInv'
<1> SUFFICES ASSUME IInv, [Next]_vars PROVE IInv'
  OBVIOUS
<1>1. CASE UNCHANGED vars
  BY <1>1 DEF vars, IInv, TypeOK, Placement, FreshPlayers, FreshClients
<1>2. CASE Next
  <2>1. ASSUME NEW c \in Character, Login(c) PROVE IInv'
    BY <2>1, LoginStep
  <2>2. ASSUME NEW c \in Character, EnterMap(c) PROVE IInv'
    BY <2>2, EnterMapStep
  <2>3. ASSUME NEW c \in Character, FinalizePlayer(c) PROVE IInv'
    BY <2>3, FinalizePlayerStep
  <2>4. ASSUME NEW c \in Character, NEW to \in MapId, MoveByPortal(c, to) PROVE IInv'
    BY <2>4, MoveByPortalStep
  <2>5. ASSUME NEW c \in Character, Dead(c) \/ RevivePlayer(c) PROVE IInv'
    BY <2>5, LifeStep
  <2>6. ASSUME NEW c \in Character, MovementInput(c) PROVE IInv'
    BY <2>6, MovementInputStep
  <2>7. ASSUME NEW c \in Character, Snapshot(c) PROVE IInv'
    BY <2>7, SnapshotStep
  <2>8. ASSUME NEW c \in Character, NEW jump \in BOOLEAN, Send(c, jump) PROVE IInv'
    BY <2>8, SendStep
  <2>9. ASSUME Update PROVE IInv'
    BY <2>9, UpdateStep
  <2>10. ASSUME NEW m \in MapId, TimePasses(m) PROVE IInv'
    BY <2>10, TimePassesStep
  <2> QED
    BY <1>2, <2>1, <2>2, <2>3, <2>4, <2>5, <2>6, <2>7, <2>8, <2>9, <2>10 DEF Next
<1> QED
  BY <1>1, <1>2

LEMMA Invariance == Spec => []IInv
BY InitInv, StepInv, PTL DEF Spec

-------------------------------------------------------------------------------
\* No pointer between players and maps dangles or disagrees, whatever enters,
\* moves by portal, disconnects and is destroyed in between.
THEOREM PlayersAreWhereTheyPoint == Spec => []InOneMap
<1>1. IInv => InOneMap
  BY DEF IInv, InOneMap, Placement
<1> QED
  BY <1>1, Invariance, PTL

\* Physics never applies an input the client made for an earlier stay, and a
\* pressed jump stays until the next step.
THEOREM InputsAreFresh == Spec => []InputIsOfThisStay
<1>1. IInv => InputIsOfThisStay
  BY DEF IInv, InputIsOfThisStay, FreshPlayers, Fresh
<1> QED
  BY <1>1, Invariance, PTL
===============================================================================
