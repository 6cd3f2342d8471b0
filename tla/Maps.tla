---------------------------------- MODULE Maps ----------------------------------
(***************************************************************************)
(* The maps of a channel and the players in them: map/MapManager.cpp,        *)
(* map/MapInstance.cpp, service/MapService.cpp and the movement half of      *)
(* domain/Player.cpp.  Maps are made on demand and destroyed when they have  *)
(* been empty for MAPDELETELIMIT minutes.  A map holds raw Player pointers,   *)
(* a Player a raw pointer to its map.                                        *)
(*                                                                          *)
(* Handlers, FinalizePlayer and the map thread's tick each run whole under   *)
(* Gameplay::gate, so each is one step.  What is not under it is the way to  *)
(* the client and back: a movement input names the map and the epoch of the  *)
(* last snapshot its client has seen, and may arrive much later.  The packets*)
(* of one session are handled in order (SubmitByKey).                        *)
(***************************************************************************)
EXTENDS Integers, Sequences, FiniteSets

CONSTANTS
  Character,
  MapId,
  Persistent,  \* MapInitData::persistent
  Portal,      \* the pairs <<map of a portal, its destinationMapId>>
  Home,        \* the saved map of a character at its first login
  InputLife,   \* steps an input lasts: 0.3 s
  MaxStay,     \* bound: stays of a character
  MaxSequence, \* bound: inputs a client sends for one epoch
  MaxWire,     \* bound: inputs on their way
  MaxLogins,   \* bound: logins
  Null

MapInstance ==
  [players : SUBSET Character, has : BOOLEAN, requested : BOOLEAN, stale : BOOLEAN]

Stay == 0 .. MaxStay

Player ==
  [map : MapId, current : MapId \cup {Null}, alive : BOOLEAN, epoch : Stay,
   sequence : 0 .. MaxSequence,
   input : [held : BOOLEAN, jump : BOOLEAN, stay : Stay, pressed : BOOLEAN],
   age : 0 .. InputLife,
   stay : Stay]  \* history: times the character was put somewhere or changed life

\* What a client knows, and what it sends: a snapshot, and a movement input.
View == [map : MapId, epoch : Stay, stay : Stay, sent : 0 .. MaxSequence]
Packet == [map : MapId, epoch : Stay, stay : Stay, jump : BOOLEAN,
           sequence : 1 .. MaxSequence]

ASSUME MapsAssumption ==
  /\ Persistent \subseteq MapId /\ Portal \subseteq MapId \X MapId
  /\ Home \in [Character -> MapId]
  /\ InputLife \in Nat /\ MaxStay \in Nat /\ MaxSequence \in Nat /\ MaxWire \in Nat
  /\ MaxLogins \in Nat
  /\ Null \notin MapId \cup MapInstance \cup Player \cup View

VARIABLES
  map,     \* m_maps: Null, or a MapInstance
  player,  \* the Player of a character, or Null
  saved,   \* the map_id column of a character
  seen,    \* client: the map and epoch of the last snapshot, the inputs sent for it
  wire,    \* the movement inputs of a session that have not been handled
  logins   \* what the bound counts

vars == <<map, player, saved, seen, wire, logins>>

Init ==
  /\ map = [m \in MapId |-> Null]
  /\ player = [c \in Character |-> Null]
  /\ saved = Home
  /\ seen = [c \in Character |-> Null]
  /\ wire = [c \in Character |-> <<>>]
  /\ logins = 0

NewMap == [players |-> {}, has |-> FALSE, requested |-> FALSE, stale |-> FALSE]

\* m_moveInput when no key is down.  "stay" is history: the stay for which the
\* client made the input, and whether a jump was pressed since the last step.
NoInput == [held |-> FALSE, jump |-> FALSE, stay |-> 0, pressed |-> FALSE]

NewPlayer(m) ==
  [map |-> m, current |-> Null, alive |-> TRUE, epoch |-> 0, sequence |-> 0,
   input |-> NoInput, age |-> 0, stay |-> 0]

-------------------------------------------------------------------------------
(* Pieces the handlers are made of.                                          *)

ResetMovement(p) ==
  [p EXCEPT !.input = NoInput, !.age = 0, !.sequence = 0, !.epoch = @ + 1]

\* A character begins to stand somewhere else, or as something else.
Placed(p) == [ResetMovement(p) EXCEPT !.stay = @ + 1]

\* The list of a map with one player more, and with one less.
With(r, c) == [r EXCEPT !.players = @ \cup {c}, !.has = TRUE, !.requested = FALSE,
                        !.stale = FALSE]

Without(r, c) ==
  LET left == r.players \ {c}
  IN  [r EXCEPT !.players = left, !.has = @ /\ left # {}, !.stale = @ /\ left # {}]

\* OnEnter: who is in the list already is left alone.
OnEnter(ms, p, c, m) ==
  IF c \in ms[m].players THEN [maps |-> ms, player |-> p]
  ELSE [maps |-> [ms EXCEPT ![m] = With(@, c)], player |-> Placed(p)]

\* Mutant: m_has_player is left alone.
OnLeaveCounted(ms, c, m) ==
  [ms EXCEPT ![m] = [@ EXCEPT !.players = @ \ {c}]]

OnLeave(ms, c, m) ==
  IF c \notin ms[m].players THEN ms ELSE [ms EXCEPT ![m] = Without(@, c)]

GetOrCreate(m) == IF map[m] = Null THEN [map EXCEPT ![m] = NewMap] ELSE map

-------------------------------------------------------------------------------
(* Handlers.                                                                 *)

\* A session whose Player has been loaded.
Login(c) ==
  /\ player[c] = Null /\ logins < MaxLogins
  /\ player' = [player EXCEPT ![c] = NewPlayer(saved[c])]
  /\ logins' = logins + 1
  /\ UNCHANGED <<map, saved, seen, wire>>

\* MapHandler, EnterMap: any number of times, always for the player's own map.
EnterMap(c) ==
  /\ player[c] # Null /\ player[c].stay < MaxStay
  /\ LET m == player[c].map
         entered == OnEnter(GetOrCreate(m), [player[c] EXCEPT !.current = m], c, m)
     IN  /\ map' = entered.maps
         /\ player' = [player EXCEPT ![c] = entered.player]
  /\ UNCHANGED <<saved, seen, wire, logins>>

\* Mutant: the map that is left is not told.
MoveByPortalSilently(c, to) ==
  /\ player[c] # Null /\ player[c].alive /\ player[c].stay < MaxStay
  /\ player[c].current # Null /\ <<player[c].current, to>> \in Portal
  /\ LET entered == OnEnter(GetOrCreate(to), [player[c] EXCEPT !.map = to, !.current = to],
                            c, to)
     IN  /\ map' = entered.maps
         /\ player' = [player EXCEPT ![c] = entered.player]
  /\ UNCHANGED <<saved, seen, wire, logins>>

\* PortalHandler, MoveByPortal.  The destination exists before the map is
\* left; it may be the map itself.  A character out of range takes no step.
MoveByPortal(c, to) ==
  /\ player[c] # Null /\ player[c].alive /\ player[c].stay < MaxStay
  /\ player[c].current # Null /\ <<player[c].current, to>> \in Portal
  /\ LET left == OnLeave(GetOrCreate(to), c, player[c].current)
         entered == OnEnter(left, [player[c] EXCEPT !.map = to, !.current = to], c, to)
     IN  /\ map' = entered.maps
         /\ player' = [player EXCEPT ![c] = entered.player]
  /\ UNCHANGED <<saved, seen, wire, logins>>

\* DeadLocked, at the end of a fight the Combat module is about.
Dead(c) ==
  /\ player[c] # Null /\ player[c].alive /\ player[c].stay < MaxStay
  /\ player[c].current # Null
  /\ player' = [player EXCEPT ![c] = [Placed(@) EXCEPT !.alive = FALSE]]
  /\ UNCHANGED <<map, saved, seen, wire, logins>>

\* HandleRevivePacket, RevivePlayer.
RevivePlayer(c) ==
  /\ player[c] # Null /\ ~player[c].alive /\ player[c].stay < MaxStay
  /\ player[c].current # Null /\ c \in map[player[c].current].players
  /\ player' = [player EXCEPT ![c] = [Placed(@) EXCEPT !.alive = TRUE]]
  /\ UNCHANGED <<map, saved, seen, wire, logins>>

\* FinalizePlayer: what is still to be handled of the session never will be.
FinalizePlayer(c) ==
  /\ player[c] # Null
  /\ map' = IF player[c].current = Null THEN map ELSE OnLeave(map, c, player[c].current)
  /\ saved' = [saved EXCEPT ![c] = player[c].map]
  /\ player' = [player EXCEPT ![c] = Null]
  /\ seen' = [seen EXCEPT ![c] = Null]
  /\ wire' = [wire EXCEPT ![c] = <<>>]
  /\ UNCHANGED logins

-------------------------------------------------------------------------------
(* Movement inputs.                                                          *)

\* Mutant: the epoch is not compared.
AcceptMovementAny(p, i) ==
  IF ~p.alive \/ i.sequence <= p.sequence THEN p
  ELSE [p EXCEPT !.sequence = i.sequence, !.age = 0,
                 !.input = [held |-> TRUE, jump |-> @.jump \/ i.jump, stay |-> i.stay,
                            pressed |-> @.pressed \/ i.jump]]

AcceptMovement(p, i) ==
  IF ~p.alive \/ i.epoch # p.epoch \/ i.sequence <= p.sequence THEN p
  ELSE [p EXCEPT !.sequence = i.sequence, !.age = 0,
                 !.input = [held |-> TRUE, jump |-> @.jump \/ i.jump, stay |-> i.stay,
                            pressed |-> @.pressed \/ i.jump]]

\* MovementInputPacket.
MovementInput(c) ==
  /\ wire[c] # <<>>
  /\ wire' = [wire EXCEPT ![c] = Tail(@)]
  /\ LET i == Head(wire[c])
         p == player[c]
     IN  player' = IF /\ p.current # Null
                      /\ i.map = p.map /\ i.map = p.current
                      /\ c \in map[p.current].players
                   THEN [player EXCEPT ![c] = AcceptMovement(p, i)] ELSE player
  /\ UNCHANGED <<map, saved, seen, logins>>

\* The client gets a movement snapshot and counts its inputs from one again
\* when the epoch is a new one.
Snapshot(c) ==
  /\ player[c] # Null /\ player[c].current # Null
  /\ seen[c] # Null => seen[c].epoch # player[c].epoch
  /\ seen' = [seen EXCEPT ![c] = [map |-> player[c].map, epoch |-> player[c].epoch,
                                  stay |-> player[c].stay, sent |-> 0]]
  /\ UNCHANGED <<map, player, saved, wire, logins>>

Send(c, jump) ==
  /\ seen[c] # Null /\ seen[c].sent < MaxSequence /\ Len(wire[c]) < MaxWire
  /\ seen' = [seen EXCEPT ![c].sent = @ + 1]
  /\ wire' = [wire EXCEPT ![c] = Append(@, [map |-> seen[c].map, epoch |-> seen[c].epoch,
                                            stay |-> seen[c].stay, jump |-> jump,
                                            sequence |-> seen[c].sent + 1])]
  /\ UNCHANGED <<map, player, saved, logins>>

-------------------------------------------------------------------------------
(* The map thread.                                                           *)

\* ConsumeMovement, UpdatePlayerPhysics: a player who falls out of the map is
\* put back at its safe place.
ConsumeMovement(p) ==
  IF p.age >= InputLife THEN [p EXCEPT !.input = NoInput]
  ELSE [p EXCEPT !.age = @ + 1, !.input.jump = FALSE, !.input.pressed = FALSE]

UpdatePlayerPhysics(p, falls) ==
  IF ~p.alive THEN p
  ELSE IF falls THEN Placed(ConsumeMovement(p)) ELSE ConsumeMovement(p)

\* MapInstance::RemoveMap asks for the removal of a map that has been empty
\* for long enough, once.
RequestsRemoval(m) ==
  /\ map[m] # Null /\ ~map[m].has
  /\ m \notin Persistent /\ ~map[m].requested /\ map[m].stale

\* MapManager::RemoveMap, in the same tick: nobody can have entered.
Removed(m) == RequestsRemoval(m)

\* MapManager::Update: all maps, then the queue of those to be destroyed.
Update ==
  \E fallen \in SUBSET {c \in Character : player[c] # Null /\ player[c].stay < MaxStay} :
    /\ \A c \in fallen : player[c].current # Null /\ player[c].alive
    /\ player' = [c \in Character |->
         IF player[c] = Null \/ player[c].current = Null THEN player[c]
         ELSE IF c \notin map[player[c].current].players THEN player[c]
         ELSE UpdatePlayerPhysics(player[c], c \in fallen)]
    /\ map' = [m \in MapId |-> IF Removed(m) THEN Null ELSE map[m]]
    /\ UNCHANGED <<saved, seen, wire, logins>>

\* Five minutes pass for a map that is empty.
TimePasses(m) ==
  /\ map[m] # Null /\ ~map[m].has /\ ~map[m].stale
  /\ map' = [map EXCEPT ![m].stale = TRUE]
  /\ UNCHANGED <<player, saved, seen, wire, logins>>

-------------------------------------------------------------------------------
Next ==
  \/ \E c \in Character :
       \/ Login(c) \/ EnterMap(c) \/ FinalizePlayer(c)
       \/ \E to \in MapId : MoveByPortal(c, to)
       \/ Dead(c) \/ RevivePlayer(c)
       \/ MovementInput(c) \/ Snapshot(c)
       \/ \E jump \in BOOLEAN : Send(c, jump)
  \/ Update
  \/ \E m \in MapId : TimePasses(m)

\* The map thread ticks as long as the server runs, and so does the clock.
Spec == Init /\ [][Next]_vars /\ WF_vars(Update) /\ \A m \in MapId : WF_vars(TimePasses(m))

-------------------------------------------------------------------------------
(* Properties.                                                               *)

TypeOK ==
  /\ map \in [MapId -> MapInstance \cup {Null}]
  /\ player \in [Character -> Player \cup {Null}]
  /\ saved \in [Character -> MapId]
  /\ seen \in [Character -> View \cup {Null}]
  /\ wire \in [Character -> Seq(Packet)]
  /\ \A c \in Character : Len(wire[c]) <= MaxWire
  /\ logins \in 0 .. MaxLogins

\* Neither the pointer of a player to its map nor those of a map to its
\* players dangle: a player that is in a map is in the list of that one only,
\* the one its map_id names, and the map exists; a list holds players that
\* exist.  So it is whatever enters, portals, disconnects and removals of
\* empty maps come in between.  (The types come with it.)
InOneMap ==
  /\ TypeOK
  /\ \A c \in Character : player[c] # Null /\ player[c].current # Null =>
       /\ map[player[c].current] # Null
       /\ player[c].current = player[c].map
       /\ c \in map[player[c].current].players
  /\ \A m \in MapId : map[m] # Null =>
       /\ \A c \in map[m].players : player[c] # Null /\ player[c].current = m
       /\ map[m].has <=> map[m].players # {}

\* What moves a player is an input its client made for the place and the life
\* the player has now, however late earlier ones arrive; and a jump that was
\* pressed is not lost to a key release that arrives before the next physics
\* step (Player.cpp: "one press of the jump is kept").
InputIsOfThisStay ==
  \A c \in Character : player[c] # Null /\ player[c].input.held =>
    /\ player[c].input.stay = player[c].stay
    /\ player[c].input.pressed => player[c].input.jump

\* A map that is empty is destroyed or entered again, unless it is persistent.
EmptyMapGoes ==
  \A m \in MapId \ Persistent :
    (map[m] # Null /\ map[m].players = {}) ~> (map[m] = Null \/ map[m].players # {})
================================================================================
