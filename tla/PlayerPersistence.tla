--------------------------- MODULE PlayerPersistence ---------------------------
(***************************************************************************)
(* Where the state of a character is, between two logins: in the Player of   *)
(* a session, in MySQL, and (two of its parts) in a Redis hash that caches    *)
(* MySQL for ten minutes.                                                    *)
(*                                                                          *)
(* ChannelAuthTask loads a Player part by part on the authentication pool;   *)
(* the main thread publishes it.  While it is online PlayerSaveTask saves it *)
(* on the session's worker, and on disconnect FinalizePlayer hands a         *)
(* snapshot to FinalPlayerDataSaveTask on the save pool.  Nothing locks a    *)
(* character across these threads.                                          *)
(*                                                                          *)
(* A version number stands for the state of a part: any change of a Player is *)
(* a new version of all its parts.  Gameplay::gate makes a change and         *)
(* MakeSaveData atomic with respect to each other.                           *)
(*                                                                          *)
(* A trade is the second writer: TradeService::Execute changes the inventory *)
(* rows of both characters in a transaction of its own, and HandleTradeReady *)
(* lays the rows over the inventories in memory, marking nobody for saving.  *)
(* Module Trade has both sides of it and what is exchanged; here is what it  *)
(* does to one character.                                                    *)
(***************************************************************************)
EXTENDS Naturals, Sequences, FiniteSets

CONSTANTS
  Character,
  NoChar,      \* the character of a connection that names none
  Connection,  \* one client connection after another uses the same name
  kMaxSaveAttempts, \* of a final save: 3 in the code
  MaxVersion,  \* bound: changes of a character during a run
  MaxFailure   \* bound: failed commands of saves, and crashes, during a run

ASSUME PersistenceAssumption ==
  /\ kMaxSaveAttempts \in Nat \ {0}
  /\ MaxVersion \in Nat /\ MaxFailure \in Nat /\ NoChar \notin Character

VARIABLES
  db,          \* MySQL: the version of each part of a character
  cache,       \* Redis "characterID:<id>": no entry or one
  pending,     \* m_finalPlayerDataSavePending
  finalTasks,  \* FinalPlayerDataSaveTasks of a character, in submission order
  final,       \* the step and the attempt of the first of them
  players,     \* the characters PlayerManager holds a Player of
  conn,        \* the step of a connection, and its character
  open,        \* the session of a connection is not closed
  mem,         \* the Player of a connection, loading or online
  saveVersion, \* Player::m_saveVersion
  saver,       \* the PlayerSaveTask of a connection
  newest,      \* history: the newest version there was of each part
  excused,     \* history: the characters LoadsNewest does not speak of
  failures,    \* how many commands have failed, and the process
  trade,       \* the TradeSession of a character: open, or committed and about
               \* to be loaded by HandleTradeReady ("load"), or none
  drifted      \* history: a trade wrote the rows, or loaded the inventory, and
               \* the newest inventory has not been stored since

vars == <<db, cache, pending, finalTasks, final, players, conn, open, mem,
          saveVersion, saver, newest, excused, failures, trade, drifted>>

\* What LoadPlayer, LoadInventory and LoadSlotSetting read, in this order.
CachedPart == {"info", "stat"}
Part == CachedPart \cup {"inventory", "quickSlots"}

Version == 0 .. MaxVersion
Whole(v) == [p \in Part |-> v]

\* The steps of ChannelAuthTask::Execute.
Loading == {"check", "cache", "fill"} \cup Part

NoConn == [pc |-> "idle", char |-> NoChar]
NoSave == [pc |-> "idle", data |-> Whole(0), version |-> 0]
FirstAttempt == [pc |-> "save", attempt |-> 1]

Init ==
  /\ db = [c \in Character |-> Whole(0)]
  /\ cache = [c \in Character |-> {}]
  /\ pending = {}
  /\ finalTasks = [c \in Character |-> <<>>]
  /\ final = [c \in Character |-> FirstAttempt]
  /\ players = {}
  /\ conn = [s \in Connection |-> NoConn]
  /\ open = [s \in Connection |-> FALSE]
  /\ mem = [s \in Connection |-> Whole(0)]
  /\ saveVersion = [s \in Connection |-> 0]
  /\ saver = [s \in Connection |-> NoSave]
  /\ newest = [c \in Character |-> Whole(0)]
  /\ excused = {}
  /\ failures = 0
  /\ trade = [c \in Character |-> "none"]
  /\ drifted = {}

\* HandleTradeReady holds Gameplay::gate from the transaction to the loads.
GateIsFree == \A c \in Character : trade[c] # "load"

\* The Player of a connection is in PlayerManager, or FinalizePlayer has it.
Online(s) == conn[s].pc \in {"online", "closing"}

Goto(s, pc) == conn' = [conn EXCEPT ![s].pc = pc]

Release(s) ==
  /\ conn' = [conn EXCEPT ![s] = NoConn]
  /\ open' = [open EXCEPT ![s] = FALSE]
  /\ mem' = [mem EXCEPT ![s] = Whole(0)]
  /\ saveVersion' = [saveVersion EXCEPT ![s] = 0]
-------------------------------------------------------------------------------
(* ChannelAuthTask::Execute, on the authentication pool.                    *)

\* A channel ticket for c was consumed.  Nothing keeps a client from holding a
\* second ticket while another connection of the character is not finished: such
\* characters are excused from the properties that need one connection at a time.
StartAuth(s, c) ==
  /\ conn[s] = NoConn
  /\ conn' = [conn EXCEPT ![s] = [pc |-> "check", char |-> c]]
  /\ open' = [open EXCEPT ![s] = TRUE]
  /\ excused' = IF \E t \in Connection : conn[t].char = c
                THEN excused \cup {c} ELSE excused
  /\ UNCHANGED <<db, cache, pending, finalTasks, final, players, mem,
                 saveVersion, saver, newest, failures, trade, drifted>>

\* Mutant: the check for a final save is missing.
AdmitsAlways(c) == TRUE

\* IsFinalPlayerDataSavePending.
Admits(c) == c \notin pending

CheckPending(s) ==
  /\ conn[s].pc = "check"
  /\ Goto(s, IF Admits(conn[s].char) THEN "cache" ELSE "failed")
  /\ UNCHANGED <<db, cache, pending, finalTasks, final, players, open, mem,
                 saveVersion, saver, newest, excused, failures, trade, drifted>>

\* LoadPlayer: HGetAll finds the hash, or there is none or the command fails.
ReadCache(s) ==
  /\ conn[s].pc = "cache"
  /\ \/ \E e \in cache[conn[s].char] :
          /\ mem' = [mem EXCEPT ![s] = [p \in Part |->
                       IF p \in CachedPart THEN e[p] ELSE @[p]]]
          /\ Goto(s, "inventory")
     \/ Goto(s, "info") /\ UNCHANGED mem
  /\ UNCHANGED <<db, cache, pending, finalTasks, final, players, open,
                 saveVersion, saver, newest, excused, failures, trade, drifted>>

\* A query of one part, and the step that follows it.
Read(s, part, next) ==
  /\ conn[s].pc = part
  /\ mem' = [mem EXCEPT ![s][part] = db[conn[s].char][part]]
  /\ Goto(s, next)
  /\ UNCHANGED <<db, cache, pending, finalTasks, final, players, open,
                 saveVersion, saver, newest, excused, failures, trade, drifted>>

LoadPlayerInfo(s) == Read(s, "info", "stat")
LoadPlayerStat(s) == Read(s, "stat", "fill")

\* LoadInventoryMeta and LoadInventory; the learned skills are never saved.  All
\* rows are in memory when the first is fetched (mysql_stmt_store_result), so that
\* a fetch cannot fail in between.
LoadInventory(s) == Read(s, "inventory", "quickSlots")
LoadSlotSetting(s) == Read(s, "quickSlots", "loaded")

\* LoadPlayer: HSetAll of what was read from MySQL.  When HSET is executed and
\* EXPIRE is not, the load fails and the hash stays.
FillCache(s) ==
  /\ conn[s].pc = "fill"
  /\ cache' = [cache EXCEPT ![conn[s].char] = {[p \in CachedPart |-> mem[s][p]]}]
  /\ Goto(s, "inventory") \/ Goto(s, "failed")
  /\ UNCHANGED <<db, pending, finalTasks, final, players, open, mem,
                 saveVersion, saver, newest, excused, failures, trade, drifted>>

\* A query, or HSetAll, fails: a result without success.
LoadFails(s) ==
  /\ conn[s].pc \in Loading \ {"check", "cache"}
  /\ Goto(s, "failed")
  /\ UNCHANGED <<db, cache, pending, finalTasks, final, players, open, mem,
                 saveVersion, saver, newest, excused, failures, trade, drifted>>

\* The ten minutes of the hash are over.
CacheExpires(c) ==
  /\ cache[c] # {}
  /\ cache' = [cache EXCEPT ![c] = {}]
  /\ UNCHANGED <<db, pending, finalTasks, final, players, conn, open, mem,
                 saveVersion, saver, newest, excused, failures, trade, drifted>>
-------------------------------------------------------------------------------
(* The main thread.                                                         *)

\* OnDisconnect of a session whose authentication is not finished.
DisconnectEarly(s) ==
  /\ conn[s].pc \in Loading \cup {"loaded", "failed"}
  /\ open[s]
  /\ open' = [open EXCEPT ![s] = FALSE]
  /\ UNCHANGED <<db, cache, pending, finalTasks, final, players, conn, mem,
                 saveVersion, saver, newest, excused, failures, trade, drifted>>

\* ProcessAuthResults drops the result of a closed session, a failed one, and a
\* Player that AddPlayer refuses.
RejectAuthResult(s) ==
  /\ conn[s].pc \in {"loaded", "failed"}
  /\ open[s] /\ conn[s].pc = "loaded" => conn[s].char \in players
  /\ Release(s)
  /\ UNCHANGED <<db, cache, pending, finalTasks, final, players, saver, newest,
                 excused, failures, trade, drifted>>

\* ProcessAuthResults: AddPlayer, SetPlayer, MarkAuthenticated.
PublishPlayer(s) ==
  /\ conn[s].pc = "loaded"
  /\ open[s]
  /\ conn[s].char \notin players
  /\ players' = players \cup {conn[s].char}
  /\ Goto(s, "online")
  /\ UNCHANGED <<db, cache, pending, finalTasks, final, open, mem, saveVersion,
                 saver, newest, excused, failures, trade, drifted>>

\* A packet handler or the map tick changes the Player, and calls MarkSaveNeeded.
Change(s) ==
  /\ conn[s].pc \in {"online", "closing"}
  /\ GateIsFree
  /\ \A p \in Part : newest[conn[s].char][p] < MaxVersion
  /\ newest' = [newest EXCEPT ![conn[s].char] = [p \in Part |-> @[p] + 1]]
  /\ mem' = [mem EXCEPT ![s] = [p \in Part |-> newest[conn[s].char][p] + 1]]
  /\ saveVersion' = [saveVersion EXCEPT ![s] = @ + 1]
  /\ UNCHANGED <<db, cache, pending, finalTasks, final, players, conn, open,
                 saver, excused, failures, trade, drifted>>

\* OnDisconnect: MarkClosing.
Disconnect(s) ==
  /\ conn[s].pc = "online"
  /\ Goto(s, "closing")
  /\ UNCHANGED <<db, cache, pending, finalTasks, final, players, open, mem,
                 saveVersion, saver, newest, excused, failures, trade, drifted>>

\* SubmitFinalPlayerDataSave: refused, and the snapshot dropped, if one is pending.
SubmitFinalPlayerDataSave(c, data) ==
  \/ c \in pending /\ UNCHANGED <<pending, finalTasks>>
  \/ /\ c \notin pending
     /\ pending' = pending \cup {c}
     /\ finalTasks' = [finalTasks EXCEPT ![c] = Append(@, data)]

\* OnDisconnect after WaitForNoTasks: FinalizePlayer, which removes the Player and
\* submits its last state if that needs saving.
FinalizePlayer(s) ==
  /\ conn[s].pc = "closing"
  /\ GateIsFree
  /\ saver[s] = NoSave
  /\ \/ saveVersion[s] = 0 /\ UNCHANGED <<pending, finalTasks>>
     \/ saveVersion[s] # 0 /\ SubmitFinalPlayerDataSave(conn[s].char, mem[s])
  /\ players' = players \ {conn[s].char}
  /\ Release(s)
  /\ UNCHANGED <<db, cache, final, saver, newest, excused, failures, trade,
                 drifted>>
-------------------------------------------------------------------------------
(* PlayerSaveTask: PlayerDataSaveService::SaveIfNeeded.                     *)

Fail == failures < MaxFailure /\ failures' = failures + 1

\* BeginValidSessionTask, IsSaveNeeded and MakeSaveData.
SaveSnapshot(s) ==
  /\ conn[s].pc = "online"
  /\ GateIsFree
  /\ saver[s] = NoSave
  /\ saveVersion[s] # 0
  /\ saver' = [saver EXCEPT ![s] =
                 [pc |-> "save", data |-> mem[s], version |-> saveVersion[s]]]
  /\ UNCHANGED <<db, cache, pending, finalTasks, final, players, conn, open,
                 mem, saveVersion, newest, excused, failures, trade, drifted>>

\* The statements of PlayerStateRepository::Save on the rows of a character: each
\* replaces one part by that of the snapshot.
SaveCharacter(rows, data) == [rows EXCEPT !["info"] = data["info"]]
SaveCharacterStat(rows, data) == [rows EXCEPT !["stat"] = data["stat"]]
SaveInventory(rows, data) == [rows EXCEPT !["inventory"] = data["inventory"]]
SaveQuickSlots(rows, data) == [rows EXCEPT !["quickSlots"] = data["quickSlots"]]

\* PlayerStateRepository::Save: one transaction.
Commit(c, data) ==
  /\ db' = [db EXCEPT ![c] =
       SaveQuickSlots(SaveInventory(SaveCharacterStat(SaveCharacter(@, data), data),
                                    data), data)]
  /\ drifted' = IF data["inventory"] = newest[c]["inventory"]
                THEN drifted \ {c} ELSE drifted

\* A failed save was rolled back, or committed and only the answer was lost.
CommitFails(c, data) == Fail /\ (UNCHANGED <<db, drifted>> \/ Commit(c, data))

SaveCommit(s) ==
  /\ saver[s].pc = "save"
  /\ \/ /\ Commit(conn[s].char, saver[s].data)
        /\ saver' = [saver EXCEPT ![s].pc = "invalidate"]
        /\ UNCHANGED failures
     \/ /\ CommitFails(conn[s].char, saver[s].data)
        /\ saver' = [saver EXCEPT ![s] = NoSave]
  /\ UNCHANGED <<cache, pending, finalTasks, final, players, conn, open, mem,
                 saveVersion, newest, excused, trade>>

\* Mutant: the Redis hash is left to its ten minutes.
KeepCache(c) == UNCHANGED cache

InvalidatePlayerCache(c) == cache' = [cache EXCEPT ![c] = {}]

\* DEL was not executed, or only the answer was lost.
InvalidateFails(c) == Fail /\ (UNCHANGED cache \/ InvalidatePlayerCache(c))

\* If the invalidation fails the save counts as failed.
SaveInvalidate(s) ==
  /\ saver[s].pc = "invalidate"
  /\ \/ /\ InvalidatePlayerCache(conn[s].char)
        /\ saver' = [saver EXCEPT ![s].pc = "mark"]
        /\ UNCHANGED failures
     \/ /\ InvalidateFails(conn[s].char)
        /\ saver' = [saver EXCEPT ![s] = NoSave]
  /\ UNCHANGED <<db, pending, finalTasks, final, players, conn, open, mem,
                 saveVersion, newest, excused, trade, drifted>>

\* Mutant: the flag is cleared whatever happened since the snapshot.
MarkSaved(s, version) == saveVersion' = [saveVersion EXCEPT ![s] = 0]

\* Player::TryMarkSaved: compare-and-swap of the version of the snapshot with 0.
TryMarkSaved(s, version) ==
  saveVersion' = [saveVersion EXCEPT ![s] = IF @ = version THEN 0 ELSE @]

SaveMark(s) ==
  /\ saver[s].pc = "mark"
  /\ TryMarkSaved(s, saver[s].version)
  /\ saver' = [saver EXCEPT ![s] = NoSave]
  /\ UNCHANGED <<db, cache, pending, finalTasks, final, players, conn, open,
                 mem, newest, excused, failures, trade, drifted>>
-------------------------------------------------------------------------------
(* FinalPlayerDataSaveTask::Execute, on the save pool (SubmitByKey of the    *)
(* character: in order, one at a time).                                     *)

\* Mutant: CompleteFinalPlayerDataSave that leaves the character pending.
CompleteKeepsPending(c) ==
  /\ finalTasks' = [finalTasks EXCEPT ![c] = Tail(@)]
  /\ final' = [final EXCEPT ![c] = FirstAttempt]
  /\ UNCHANGED pending

CompleteFinalPlayerDataSave(c) ==
  /\ pending' = pending \ {c}
  /\ finalTasks' = [finalTasks EXCEPT ![c] = Tail(@)]
  /\ final' = [final EXCEPT ![c] = FirstAttempt]

\* SavePlayerData returned false: another attempt, or the state is given up.
AttemptFails(c) ==
  \/ /\ final[c].attempt < kMaxSaveAttempts
     /\ final' = [final EXCEPT ![c] = [pc |-> "save", attempt |-> @.attempt + 1]]
     /\ UNCHANGED <<pending, finalTasks, excused>>
  \/ /\ final[c].attempt = kMaxSaveAttempts
     /\ CompleteFinalPlayerDataSave(c)
     /\ excused' = excused \cup {c}

FinalCommit(c) ==
  /\ finalTasks[c] # <<>>
  /\ final[c].pc = "save"
  /\ \/ /\ Commit(c, Head(finalTasks[c]))
        /\ final' = [final EXCEPT ![c].pc = "invalidate"]
        /\ UNCHANGED <<pending, finalTasks, excused, failures>>
     \/ CommitFails(c, Head(finalTasks[c])) /\ AttemptFails(c)
  /\ UNCHANGED <<cache, players, conn, open, mem, saveVersion, saver, newest,
                 trade>>

FinalInvalidate(c) ==
  /\ finalTasks[c] # <<>>
  /\ final[c].pc = "invalidate"
  /\ \/ /\ InvalidatePlayerCache(c)
        /\ CompleteFinalPlayerDataSave(c)
        /\ UNCHANGED <<excused, failures>>
     \/ InvalidateFails(c) /\ AttemptFails(c)
  /\ UNCHANGED <<db, players, conn, open, mem, saveVersion, saver, newest,
                 trade, drifted>>
-------------------------------------------------------------------------------
(* Trades, as they reach one character.                                     *)

\* HandleTradeAccept opens a session of two characters that play.  Nothing
\* removes it when one of them leaves.
TradeAccept(s) ==
  /\ Online(s) /\ GateIsFree
  /\ trade[conn[s].char] = "none"
  /\ trade' = [trade EXCEPT ![conn[s].char] = "open"]
  /\ UNCHANGED <<db, cache, pending, finalTasks, final, players, conn, open, mem,
                 saveVersion, saver, newest, excused, failures, drifted>>

\* The inventory of c is changed by a trade, in the rows or in memory.
Drifts(c) ==
  /\ newest[c]["inventory"] < MaxVersion
  /\ newest' = [newest EXCEPT ![c]["inventory"] = @ + 1]
  /\ drifted' = drifted \cup {c}

\* TradeService::Execute: COMMIT, by id, whether or not c still plays.  When its
\* answer is lost the trade counts as failed and is not loaded.
TradeCommits(c) ==
  /\ trade[c] = "open"
  /\ Drifts(c)
  /\ db' = [db EXCEPT ![c]["inventory"] = newest[c]["inventory"] + 1]
  /\ \E next \in {"load", "none"} : trade' = [trade EXCEPT ![c] = next]
  /\ UNCHANGED <<cache, pending, finalTasks, final, players, conn, open, mem,
                 saveVersion, saver, excused, failures>>

\* HandleTradeReady: LoadInventory lays the rows over the inventory of a Player,
\* whose slots are not emptied first: what comes out is neither the rows nor what
\* was in memory.  saveVersion stays.  Through the address of a Player that is
\* gone it may be the Player of another character, which has no trade.
TradeLoads(s) ==
  /\ Online(s)
  /\ Drifts(conn[s].char)
  /\ mem' = [mem EXCEPT ![s]["inventory"] = newest[conn[s].char]["inventory"] + 1]
  /\ trade' = [trade EXCEPT ![conn[s].char] = IF @ = "load" THEN "none" ELSE @]
  /\ UNCHANGED <<db, cache, pending, finalTasks, final, players, conn, open,
                 saveVersion, saver, excused, failures>>

\* The trade is cancelled or refused, its transaction is rolled back, or its query
\* of the inventory fails, or there is no Player of c to load it into.
TradeEnds(c) ==
  /\ trade[c] # "none"
  /\ trade' = [trade EXCEPT ![c] = "none"]
  /\ UNCHANGED <<db, cache, pending, finalTasks, final, players, conn, open, mem,
                 saveVersion, saver, newest, excused, failures, drifted>>
-------------------------------------------------------------------------------
\* A hash older than the rows: a save has committed and not yet invalidated.
Outdated(c) == \E e \in cache[c], p \in CachedPart : e[p] # db[c][p]

\* The channel process dies and is started again.  The changes that were not
\* saved are gone; a hash that is older than the rows stays.
Crash ==
  /\ Fail
  /\ newest' = db
  /\ excused' = excused \cup {c \in Character : Outdated(c)}
  /\ pending' = {}
  /\ finalTasks' = [c \in Character |-> <<>>]
  /\ final' = [c \in Character |-> FirstAttempt]
  /\ players' = {}
  /\ conn' = [s \in Connection |-> NoConn]
  /\ open' = [s \in Connection |-> FALSE]
  /\ mem' = [s \in Connection |-> Whole(0)]
  /\ saveVersion' = [s \in Connection |-> 0]
  /\ saver' = [s \in Connection |-> NoSave]
  /\ trade' = [c \in Character |-> "none"]
  /\ drifted' = {}
  /\ UNCHANGED <<db, cache>>
-------------------------------------------------------------------------------
Next ==
  \/ Crash
  \/ \E s \in Connection, c \in Character : StartAuth(s, c)
  \/ \E s \in Connection :
       \/ CheckPending(s) \/ ReadCache(s) \/ LoadPlayerInfo(s)
       \/ LoadPlayerStat(s) \/ FillCache(s) \/ LoadInventory(s)
       \/ LoadSlotSetting(s) \/ LoadFails(s)
       \/ DisconnectEarly(s) \/ RejectAuthResult(s) \/ PublishPlayer(s)
       \/ Change(s) \/ Disconnect(s) \/ FinalizePlayer(s)
       \/ SaveSnapshot(s) \/ SaveCommit(s) \/ SaveInvalidate(s) \/ SaveMark(s)
       \/ TradeAccept(s) \/ TradeLoads(s)
  \/ \E c \in Character : CacheExpires(c) \/ FinalCommit(c) \/ FinalInvalidate(c)
                         \/ TradeCommits(c) \/ TradeEnds(c)

Spec == Init /\ [][Next]_vars

(***************************************************************************)
(* The save pool runs what was submitted to it (AcceptedIsExecuted of        *)
(* ThreadPool), and a MySQL or Redis command returns.                        *)
(***************************************************************************)
Fairness == \A c \in Character : WF_vars(FinalCommit(c) \/ FinalInvalidate(c))

FairSpec == Spec /\ Fairness
-------------------------------------------------------------------------------
Stored == [Part -> Version]

TypeOK ==
  /\ db \in [Character -> Stored]
  /\ cache \in [Character -> SUBSET [CachedPart -> Version]]
  /\ pending \in SUBSET Character
  /\ finalTasks \in [Character -> Seq(Stored)]
  /\ final \in [Character -> [pc : {"save", "invalidate"},
                              attempt : 1 .. kMaxSaveAttempts]]
  /\ players \in SUBSET Character
  /\ conn \in [Connection ->
       [pc : {"idle", "loaded", "failed", "online", "closing"} \cup Loading,
        char : Character \cup {NoChar}]]
  /\ open \in [Connection -> BOOLEAN]
  /\ mem \in [Connection -> Stored]
  /\ saveVersion \in [Connection -> Nat]
  /\ saver \in [Connection -> [pc : {"idle", "save", "invalidate", "mark"},
                               data : Stored, version : Nat]]
  /\ newest \in [Character -> Stored]
  /\ excused \in SUBSET Character
  /\ failures \in 0 .. MaxFailure
  /\ trade \in [Character -> {"none", "open", "load"}]
  /\ drifted \in SUBSET Character

\* The parts that are promised to be the same in memory and in MySQL.  The
\* inventory is not, from a trade until a save stores its newest state: a save that
\* took its snapshot before the trade takes the rows back, and a slot the trade
\* emptied keeps its item in memory (LoadInventories of Trade).
Sure(c) == IF c \in drifted THEN Part \ {"inventory"} ELSE Part

(***************************************************************************)
(* A Player that is put online has the newest state of its character, in     *)
(* every part: the pending set, the order "commit, then invalidate" and the  *)
(* retries of the final save keep a login from reading a part that is older, *)
(* from MySQL or from Redis, also after a crash, as long as the character    *)
(* uses one connection at a time, no final save was given up and the process *)
(* did not die between a commit and its invalidation.  Of the inventory this *)
(* is not said while a trade has changed it and no save has stored it since  *)
(* (Sure).                                                                  *)
(***************************************************************************)
LoadsNewest == \A s \in Connection :
  Online(s) /\ conn[s].char \notin excused =>
    \A p \in Sure(conn[s].char) : mem[s][p] = newest[conn[s].char][p]

(***************************************************************************)
(* A Player whose saveVersion is 0 is what MySQL holds: no interleaving of   *)
(* changes with a save in progress clears the flag of an unsaved change, and *)
(* so FinalizePlayer may skip the final save of such a Player.  A trade is   *)
(* the exception: it changes the inventory, in MySQL and in memory, without  *)
(* a mark, and the equality of the inventories is back only when a later save *)
(* has stored the newest one (Sure).  (The types come with it.)              *)
(***************************************************************************)
CleanIsStored ==
  /\ TypeOK
  /\ \A s \in Connection :
       Online(s) /\ conn[s].char \notin excused /\ saveVersion[s] = 0 =>
         \A p \in Sure(conn[s].char) : db[conn[s].char][p] = mem[s][p]

(***************************************************************************)
(* No save replaces a newer state in MySQL by an older one: the periodic     *)
(* saves of a session, its final save and those of the next session come in  *)
(* that order although three threads run them.  Against a trade they do not: *)
(* a save whose snapshot was taken before the trade puts the older inventory *)
(* back, so that the inventory is excepted until a save has stored its newest *)
(* state (Sure).                                                             *)
(***************************************************************************)
StoredNeverRegresses ==
  [][\A c \in Character : c \notin excused =>
       \A p \in Sure(c) : db'[c][p] >= db[c][p]]_vars

(***************************************************************************)
(* A character is not locked out: its final save ends, also when it fails.   *)
(***************************************************************************)
PendingEnds == \A c \in Character : c \in pending ~> c \notin pending
===============================================================================
