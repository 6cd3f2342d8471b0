---------------------------- MODULE SavingProofs -----------------------------
(***************************************************************************)
(* What is stored of the players, while a channel runs and when it ends.    *)
(* First what a login reads and what a save overwrites: LoadsNewest,        *)
(* CleanIsStored and StoredNeverRegresses of PlayerPersistence for any      *)
(* characters, connections, changes and failures.                           *)
(***************************************************************************)
EXTENDS PlayerPersistence, ServerLifecycle, SequenceTheorems, FiniteSetTheorems, TLAPS

\* The steps of a connection that was admitted.
Admitted == (Loading \ {"check"}) \cup {"loaded", "online", "closing"}

\* The parts that were read before a step.
HasRead(pc) ==
  CASE pc = "stat" -> {"info"}
    [] pc \in {"fill", "inventory"} -> CachedPart
    [] pc = "quickSlots" -> CachedPart \cup {"inventory"}
    [] pc \in {"loaded", "online", "closing"} -> Part
    [] OTHER -> {}

\* These parts of f are no newer than the newest, and those of them that are promised
\* are the newest.
UpToDate(f, c, parts) == \A p \in parts :
  f[p] <= newest[c][p] /\ (p \in Sure(c) => f[p] = newest[c][p])

\* MySQL has the newest state, and so has Redis if it has one.
Agrees(c) ==
  /\ UpToDate(db[c], c, Part)
  /\ \A e \in cache[c] : \A p \in CachedPart : e[p] = newest[c][p]

\* A row holds a version that there was.
Rows(c) == \A p \in Part : db[c][p] <= newest[c][p]

\* The final save that is pending has the newest state, and nobody loads or plays.
Final(c) ==
  c \in pending =>
    /\ UpToDate(Head(finalTasks[c]), c, Part)
    /\ final[c].pc = "invalidate" => UpToDate(db[c], c, Part)
    /\ \A s \in Connection : conn[s].char = c => conn[s].pc \notin Admitted

\* Nobody plays and nothing is to be saved.
Settled(c) ==
  c \notin pending /\ (\A s \in Connection : conn[s].char = c => ~Online(s))
    => Agrees(c)

\* A connection of c, its Player and its periodic save.
Loads(s, c) == UpToDate(mem[s], c, HasRead(conn[s].pc))

Clean(s, c) == Online(s) /\ saveVersion[s] = 0 => Agrees(c)

\* A snapshot with the newest inventory is one of what is still in memory: its commit
\* makes good what a trade had left different.
Restores(s, c) ==
  saver[s].data["inventory"] = newest[c]["inventory"] =>
    mem[s]["inventory"] = newest[c]["inventory"]

Saves(s, c) ==
  saver[s].pc # "idle" =>
    /\ \A p \in Part : saver[s].data[p] <= newest[c][p]
    /\ \A p \in Sure(c) : db[c][p] <= saver[s].data[p]
    /\ saver[s].version # 0 /\ saver[s].version <= saveVersion[s]
    /\ saver[s].version = saveVersion[s] => UpToDate(saver[s].data, c, Part)
    /\ saver[s].pc = "save" => Restores(s, c)
    /\ saver[s].pc # "save" => \A p \in Sure(c) : db[c][p] = saver[s].data[p]
    /\ saver[s].pc = "mark" => cache[c] = {}

Alone(c) == \A s, t \in Connection : conn[s].char = c /\ conn[t].char = c => s = t

Kept(c) ==
  /\ Alone(c) /\ Rows(c) /\ Final(c) /\ Settled(c)
  /\ \A s \in Connection : conn[s].char = c =>
       Loads(s, c) /\ Clean(s, c) /\ Saves(s, c)

\* Only a connection whose Player is online has something to save.
Connections == \A s \in Connection :
  /\ conn[s].pc = "idle" <=> conn[s].char = NoChar
  /\ ~Online(s) => saveVersion[s] = 0 /\ saver[s] = NoSave
  /\ saver[s].pc = "idle" => saver[s] = NoSave

\* A character is pending as long as its one final save is submitted and not ended.
Queues == \A c \in Character :
  /\ Len(finalTasks[c]) = IF c \in pending THEN 1 ELSE 0
  /\ c \notin pending => final[c] = FirstAttempt

IInv ==
  /\ TypeOK /\ Connections /\ Queues
  /\ \A c \in Character \ excused : Kept(c)

-------------------------------------------------------------------------------
(* Versions and rows.                                                        *)

\* The parts of a character, those of the hash among them.
LEMMA PartsAre ==
  /\ Part = {"info", "stat", "inventory", "quickSlots"}
  /\ CachedPart = {"info", "stat"}
BY DEF Part, CachedPart

\* A version that all parts have.
LEMMA WholeIsStored ==
  ASSUME NEW v \in Version
  PROVE  Whole(v) \in Stored /\ \A p \in Part : Whole(v)[p] = v
BY DEF Whole, Stored

\* Zero is a version.
LEMMA ZeroIsVersion == 0 \in Version /\ Version \subseteq Nat
BY PersistenceAssumption DEF Version

\* The four statements of a save replace the row of a character.
LEMMA SaveReplaces ==
  ASSUME NEW rows \in Stored, NEW data \in Stored
  PROVE  SaveQuickSlots(SaveInventory(SaveCharacterStat(SaveCharacter(rows, data),
                                        data), data), data) = data
<1> DEFINE a == SaveCharacter(rows, data)
           b == SaveCharacterStat(a, data)
           i == SaveInventory(b, data)
           q == SaveQuickSlots(i, data)
<1>1. a \in [Part -> Version] /\ a["info"] = data["info"]
  BY PartsAre DEF SaveCharacter, Stored
<1>2. b \in [Part -> Version] /\ b["info"] = data["info"] /\ b["stat"] = data["stat"]
  <2> HIDE DEF a
  <2> QED
    BY <1>1, PartsAre DEF SaveCharacterStat, Stored
<1>3. /\ i \in [Part -> Version] /\ i["info"] = data["info"]
      /\ i["stat"] = data["stat"] /\ i["inventory"] = data["inventory"]
  <2> HIDE DEF b
  <2> QED
    BY <1>2, PartsAre DEF SaveInventory, Stored
<1>4. q \in [Part -> Version] /\ \A p \in Part : q[p] = data[p]
  <2> HIDE DEF i
  <2> QED
    BY <1>3, PartsAre DEF SaveQuickSlots, Stored
<1> QED
  BY <1>4 DEF Stored

\* So a commit is one assignment.
LEMMA CommitIs ==
  ASSUME NEW c \in Character, db \in [Character -> Stored], NEW data \in Stored,
         Commit(c, data)
  PROVE  db' = [db EXCEPT ![c] = data]
<1>1. db[c] \in Stored
  OBVIOUS
<1> QED
  BY <1>1, SaveReplaces DEF Commit

\* After it the inventory is promised again only if it is the newest that is stored.
LEMMA CommitHeals ==
  ASSUME NEW c, NEW data, Commit(c, data) \/ drifted' = drifted
  PROVE  /\ drifted' \subseteq drifted
         /\ \A d : d # c => (d \in drifted' <=> d \in drifted)
         /\ \A p \in Part : p \in Sure(c)' =>
              \/ p \in Sure(c)
              \/ p = "inventory" /\ data["inventory"] = newest[c]["inventory"]
<1>1. \/ drifted' = drifted
      \/ drifted' = drifted \ {c} /\ data["inventory"] = newest[c]["inventory"]
  BY DEF Commit
<1>2. CASE drifted' = drifted
  <2>1. Sure(c)' = Sure(c)
    BY <1>2 DEF Sure
  <2> QED
    BY <1>2, <2>1
<1>3. CASE drifted' = drifted \ {c} /\ data["inventory"] = newest[c]["inventory"]
  BY <1>3 DEF Sure
<1> QED
  BY <1>1, <1>2, <1>3

\* What was read or saved of c is up to date after a step.
StaysUpToDate(f, c) == \A p \in Part :
  f[p] <= newest'[c][p] /\ (p \in Sure(c)' => f[p] = newest'[c][p])

\* What is up to date stays so, if it has the newest inventory whenever that is stored.
LEMMA CommitKeepsUpToDate ==
  ASSUME NEW c, NEW data, Commit(c, data) \/ drifted' = drifted, newest' = newest,
         NEW f, UpToDate(f, c, Part),
         data["inventory"] = newest[c]["inventory"] =>
           f["inventory"] = newest[c]["inventory"]
  PROVE  StaysUpToDate(f, c)
BY CommitHeals DEF UpToDate, StaysUpToDate

\* The promise about a character changes only with a trade or a commit.
LEMMA SureKept ==
  ASSUME NEW c, c \in drifted' <=> c \in drifted
  PROVE  Sure(c)' = Sure(c) /\ Sure(c) \subseteq Part
BY DEF Sure

-------------------------------------------------------------------------------
(* Frames.                                                                   *)

\* What the characters that a step does not touch keep.
LEMMA Untouched ==
  ASSUME NEW c, Kept(c),
         db'[c] = db[c], cache'[c] = cache[c], newest'[c] = newest[c],
         final'[c] = final[c], finalTasks'[c] = finalTasks[c],
         c \in pending' <=> c \in pending, c \in drifted' <=> c \in drifted,
         \A s \in Connection : conn'[s].char = c =>
           /\ conn'[s] = conn[s] /\ mem'[s] = mem[s] /\ saver'[s] = saver[s]
           /\ saveVersion'[s] = saveVersion[s],
         \A s \in Connection : conn[s].char = c => conn'[s].char = c
  PROVE  Kept(c)'
<1>1. \A s \in Connection : conn[s].char = c <=> conn'[s].char = c
  OBVIOUS
<1>2. \A s \in Connection : conn'[s].char = c =>
        conn'[s].pc = conn[s].pc /\ (Online(s)' <=> Online(s))
  BY DEF Online
<1> Sure(c)' = Sure(c)
  BY SureKept
<1>3. Agrees(c)' <=> Agrees(c)
  BY DEF Agrees, UpToDate
<1>4. Alone(c)'
  BY <1>1 DEF Kept, Alone
<1>5. Rows(c)'
  BY DEF Kept, Rows
<1>6. Final(c)'
  BY <1>1, <1>2 DEF Kept, Final, UpToDate
<1>7. Settled(c)'
  BY <1>1, <1>2, <1>3 DEF Kept, Settled
<1>8. \A s \in Connection : conn'[s].char = c =>
        Loads(s, c)' /\ Clean(s, c)' /\ Saves(s, c)'
  <2> SUFFICES ASSUME NEW s \in Connection, conn'[s].char = c
               PROVE  Loads(s, c)' /\ Clean(s, c)' /\ Saves(s, c)'
    OBVIOUS
  <2>1. Loads(s, c) /\ Clean(s, c) /\ Saves(s, c)
    BY <1>1 DEF Kept
  <2>2. Loads(s, c)'
    BY <1>2, <2>1 DEF Loads, UpToDate
  <2>3. Clean(s, c)'
    BY <1>2, <1>3, <2>1 DEF Clean
  <2>4. Saves(s, c)'
    BY <2>1 DEF Saves, UpToDate, Restores
  <2> QED
    BY <2>2, <2>3, <2>4
<1> QED
  BY <1>4, <1>5, <1>6, <1>7, <1>8 DEF Kept

\* The only connection of a character that keeps its connection.
LEMMA OneConnection ==
  ASSUME NEW c, Kept(c), NEW s \in Connection, conn[s].char = c,
         \A t \in Connection : conn'[t].char = conn[t].char
  PROVE  /\ Loads(s, c) /\ Clean(s, c) /\ Saves(s, c)
         /\ Rows(c) /\ Final(c) /\ Settled(c)
         /\ Alone(c)'
         /\ \A t \in Connection : conn'[t].char = c <=> t = s
BY DEF Kept, Alone

\* Then what is kept is about that connection only.
LEMMA KeptByOne ==
  ASSUME NEW c, NEW s \in Connection,
         \A t \in Connection : conn'[t].char = c <=> t = s,
         Rows(c)', Final(c)', Settled(c)',
         Loads(s, c)', Clean(s, c)', Saves(s, c)'
  PROVE  Kept(c)'
<1>1. Alone(c)'
  BY DEF Alone
<1> QED
  BY <1>1 DEF Kept

-------------------------------------------------------------------------------
(* Loading.                                                                  *)

\* The steps are those of TypeOK, and no two of these sets have one in common.
LEMMA StepsAre ==
  /\ Loading = {"check", "cache", "fill", "info", "stat", "inventory", "quickSlots"}
  /\ Admitted = {"cache", "fill", "info", "stat", "inventory", "quickSlots",
                 "loaded", "online", "closing"}
BY PartsAre DEF Loading, Admitted

\* What a step of the loading does to a connection of c.
LoadStep(s, c, next, data) ==
  /\ conn[s].char = c /\ conn[s].pc \in Loading
  /\ next \in Loading \cup {"loaded", "failed"}
  /\ data \in Stored
  /\ conn' = [conn EXCEPT ![s].pc = next]
  /\ mem' = [mem EXCEPT ![s] = data]
  /\ c \notin excused =>
       /\ next \in Admitted => c \notin pending
       /\ UpToDate(data, c, HasRead(next))
  /\ UNCHANGED <<db, pending, finalTasks, final, saveVersion, saver, newest, excused,
                 trade, drifted>>

\* A connection that loads is one of a character.
LEMMA LoadingHasChar ==
  ASSUME IInv, NEW s \in Connection, conn[s].pc # "idle"
  PROVE  conn[s].char \in Character /\ conn[s].char # NoChar
BY DEF IInv, TypeOK, Connections

\* What is loaded is checked part by part, and the hash is filled with what is.
LEMMA LoadKeeps ==
  ASSUME IInv, NEW s \in Connection, NEW next, NEW data, NEW c \in Character,
         LoadStep(s, c, next, data),
         players' \in SUBSET Character, open' \in [Connection -> BOOLEAN],
         failures' = failures,
         cache' \in [Character -> SUBSET [CachedPart -> Version]],
         \A d \in Character : d # c => cache'[d] = cache[d],
         c \notin excused => \A e \in cache'[c] : e \in cache[c]
                               \/ \A p \in CachedPart : e[p] = newest[c][p]
  PROVE  IInv'
<1>1. /\ conn[s].char = c /\ conn[s].pc \in Loading
      /\ next \in Loading \cup {"loaded", "failed"} /\ data \in Stored
      /\ conn' = [conn EXCEPT ![s].pc = next] /\ mem' = [mem EXCEPT ![s] = data]
      /\ db' = db /\ pending' = pending /\ finalTasks' = finalTasks
      /\ final' = final /\ saveVersion' = saveVersion /\ saver' = saver
      /\ newest' = newest /\ excused' = excused /\ trade' = trade /\ drifted' = drifted
  BY DEF LoadStep
<1>2. /\ conn'[s].pc = next /\ mem'[s] = data
      /\ \A t \in Connection : conn'[t].char = conn[t].char
      /\ \A t \in Connection : t # s => conn'[t] = conn[t] /\ mem'[t] = mem[t]
  BY <1>1 DEF IInv, TypeOK
<1>3. conn[s].pc \notin {"idle", "online", "closing"}
      /\ next \notin {"idle", "online", "closing"}
  BY <1>1, StepsAre
<1>4. TypeOK'
  <2>1. conn' \in [Connection ->
       [pc : {"idle", "loaded", "failed", "online", "closing"} \cup Loading,
        char : Character \cup {NoChar}]]
    <3> DEFINE Pcs == {"idle", "loaded", "failed", "online", "closing"} \cup Loading
               Conn == [pc : Pcs, char : Character \cup {NoChar}]
    <3>1. conn \in [Connection -> Conn] /\ next \in Pcs
      BY <1>1 DEF IInv, TypeOK
    <3> HIDE DEF Pcs
    <3>2. [conn[s] EXCEPT !.pc = next] \in Conn
      BY <3>1
    <3>3. conn' = [conn EXCEPT ![s] = [conn[s] EXCEPT !.pc = next]]
      BY <1>1
    <3> HIDE DEF Conn
    <3>4. conn' \in [Connection -> Conn]
      BY <3>1, <3>2, <3>3
    <3> QED
      BY <3>4 DEF Conn, Pcs
  <2>2. mem' \in [Connection -> Stored]
    BY <1>1 DEF IInv, TypeOK
  <2> QED
    BY <1>1, <2>1, <2>2 DEF IInv, TypeOK
<1>5. Connections'
  <2>1. \A t \in Connection : Online(t)' <=> Online(t)
    BY <1>2, <1>3 DEF Online
  <2>2. \A t \in Connection : conn'[t].pc = "idle" <=> conn[t].pc = "idle"
    BY <1>2, <1>3
  <2> QED
    BY <1>1, <1>2, <2>1, <2>2 DEF IInv, Connections
<1>6. Queues'
  BY <1>1 DEF IInv, Queues
<1>7. ASSUME NEW d \in Character \ excused'
      PROVE  Kept(d)'
  <2>1. d \in Character \ excused /\ Kept(d)
    BY <1>1 DEF IInv
  <2>2. CASE d # c
    BY <1>1, <1>2, <2>1, <2>2, Untouched
  <2>3. CASE d = c
    <3>1. /\ Rows(c) /\ Final(c) /\ Settled(c)
          /\ \A t \in Connection : conn'[t].char = c <=> t = s
      BY <1>1, <1>2, <2>1, <2>3, OneConnection
    <3>2. /\ next \in Admitted => c \notin pending
          /\ UpToDate(data, c, HasRead(next))
      BY <2>1, <2>3 DEF LoadStep
    <3> Sure(c)' = Sure(c)
      BY <1>1, SureKept
    <3>3. saver[s] = NoSave /\ NoSave.pc = "idle"
      BY <1>3 DEF IInv, Connections, Online, NoSave
    <3>4. Agrees(c) => Agrees(c)'
      BY <1>1, <2>1, <2>3 DEF Agrees, UpToDate
    <3>5. \A t \in Connection : conn[t].char = c => ~Online(t)
      BY <1>2, <1>3, <3>1 DEF Online
    <3>6. Rows(c)'
      BY <1>1, <3>1 DEF Rows
    <3>7. Final(c)'
      BY <1>1, <1>2, <3>1, <3>2 DEF Final, UpToDate
    <3>8. Settled(c)'
      BY <1>1, <3>1, <3>4, <3>5 DEF Settled
    <3>9. Loads(s, c)'
      BY <1>1, <1>2, <3>2 DEF Loads, UpToDate
    <3>10. Clean(s, c)' /\ Saves(s, c)'
      BY <1>1, <1>2, <1>3, <3>3 DEF Clean, Saves, Online
    <3> QED
      BY <2>3, <3>1, <3>6, <3>7, <3>8, <3>9, <3>10, KeptByOne
  <2> QED
    BY <2>2, <2>3
<1> QED
  BY <1>4, <1>5, <1>6, <1>7 DEF IInv

\* What a connection may rely on once it was admitted.
LEMMA AdmittedReads ==
  ASSUME IInv, NEW s \in Connection, conn[s].pc \in Admitted \cap Loading,
         conn[s].char \notin excused
  PROVE  LET c == conn[s].char IN
           /\ c \in Character /\ c \notin pending
           /\ newest[c] \in Stored
           /\ UpToDate(db[c], c, Part)
           /\ \A e \in cache[c] : \A p \in CachedPart : e[p] = newest[c][p]
           /\ UpToDate(mem[s], c, HasRead(conn[s].pc))
<1> DEFINE c == conn[s].char
<1>1. conn[s].pc \notin {"idle", "online", "closing"}
  BY StepsAre
<1>2. c \in Character /\ Kept(c)
  BY <1>1, LoadingHasChar DEF IInv
<1>3. c \notin pending /\ Loads(s, c)
  BY <1>2 DEF Kept, Final
<1>4. \A t \in Connection : conn[t].char = c => ~Online(t)
  BY <1>1, <1>2 DEF Kept, Alone, Online
<1>5. Agrees(c)
  BY <1>2, <1>3, <1>4 DEF Kept, Settled
<1>6. newest[c] \in Stored
  BY <1>2 DEF IInv, TypeOK
<1> QED
  BY <1>2, <1>3, <1>5, <1>6 DEF Loads, Agrees

\* IsFinalPlayerDataSavePending admits nobody beside a final save.
LEMMA CheckPendingKeeps ==
  ASSUME IInv, NEW s \in Connection, CheckPending(s)
  PROVE  IInv'
<1> DEFINE c == conn[s].char
           next == IF Admits(c) THEN "cache" ELSE "failed"
<1>1. conn[s].pc = "check" /\ conn' = [conn EXCEPT ![s].pc = next] /\ mem' = mem
  BY DEF CheckPending, Goto
<1>2. c \in Character
  BY <1>1, LoadingHasChar
<1>3. HasRead(next) = {} /\ next \in Loading \cup {"failed"}
      /\ (next \in Admitted => c \notin pending) /\ "check" \in Loading
  BY StepsAre DEF HasRead, Admits
<1> UpToDate(mem[s], c, {})
  BY DEF UpToDate
<1>4. mem[s] \in Stored /\ mem' = [mem EXCEPT ![s] = mem[s]]
  BY <1>1 DEF IInv, TypeOK
<1>5. LoadStep(s, c, next, mem[s])
  BY <1>1, <1>3, <1>4 DEF LoadStep, CheckPending
<1>6. /\ players' = players /\ open' = open /\ failures' = failures /\ cache' = cache
  BY DEF CheckPending
<1> QED
  BY <1>2, <1>5, <1>6, LoadKeeps DEF IInv, TypeOK

\* LoadPlayer from the hash.
LEMMA ReadCacheKeeps ==
  ASSUME IInv, NEW s \in Connection, ReadCache(s)
  PROVE  IInv'
<1> DEFINE c == conn[s].char
<1>1. conn[s].pc = "cache" /\ conn[s].pc \in Admitted \cap Loading /\ c \in Character
  BY StepsAre, LoadingHasChar DEF ReadCache
<1>2. /\ players' = players /\ open' = open /\ failures' = failures /\ cache' = cache
      /\ UNCHANGED <<db, pending, finalTasks, final, saveVersion, saver, newest, excused,
                     trade, drifted>>
  BY DEF ReadCache
<1>3. ASSUME NEW e \in cache[c],
             mem' = [mem EXCEPT ![s] = [p \in Part |->
                       IF p \in CachedPart THEN e[p] ELSE mem[s][p]]],
             Goto(s, "inventory")
      PROVE  IInv'
  <2> DEFINE data == [p \in Part |-> IF p \in CachedPart THEN e[p] ELSE mem[s][p]]
  <2>1. mem[s] \in Stored /\ e \in [CachedPart -> Version]
    BY <1>1 DEF IInv, TypeOK
  <2>2. data \in Stored /\ \A p \in CachedPart : data[p] = e[p]
    BY <2>1, PartsAre DEF Stored
  <2>3. HasRead("inventory") = CachedPart /\ "inventory" \in Loading
    BY StepsAre DEF HasRead
  <2>4. c \notin excused => c \notin pending
                            /\ UpToDate(data, c, HasRead("inventory"))
    <3> SUFFICES ASSUME c \notin excused
                 PROVE  c \notin pending /\ UpToDate(data, c, CachedPart)
      BY <2>3
    <3>1. /\ c \notin pending /\ newest[c] \in Stored
          /\ \A p \in CachedPart : data[p] = newest[c][p]
      BY <1>1, <2>2, AdmittedReads
    <3>2. \A p \in CachedPart : newest[c][p] \in Nat
      BY <3>1, PartsAre, ZeroIsVersion DEF Stored
    <3> HIDE DEF data
    <3> QED
      BY <3>1, <3>2 DEF UpToDate
  <2>5. conn' = [conn EXCEPT ![s].pc = "inventory"] /\ mem' = [mem EXCEPT ![s] = data]
    BY <1>3 DEF Goto
  <2>6. LoadStep(s, c, "inventory", data)
    <3> HIDE DEF data
    <3> QED
      BY <1>1, <1>2, <2>2, <2>3, <2>4, <2>5 DEF LoadStep
  <2> HIDE DEF data
  <2> QED
    BY <1>1, <1>2, <2>6, LoadKeeps DEF IInv, TypeOK
<1>4. ASSUME Goto(s, "info"), mem' = mem
      PROVE  IInv'
  <2>1. mem[s] \in Stored /\ mem' = [mem EXCEPT ![s] = mem[s]]
    BY <1>4 DEF IInv, TypeOK
  <2>2. HasRead("info") = {} /\ "info" \in Loading
    BY StepsAre DEF HasRead
  <2>3. /\ c \notin excused => c \notin pending
        /\ UpToDate(mem[s], c, {})
    BY <1>1, AdmittedReads DEF UpToDate
  <2>4. LoadStep(s, c, "info", mem[s])
    BY <1>1, <1>2, <1>4, <2>1, <2>2, <2>3 DEF LoadStep, Goto
  <2> QED
    BY <1>1, <1>2, <2>4, LoadKeeps DEF IInv, TypeOK
<1> QED
  BY <1>3, <1>4 DEF ReadCache

\* A query of one part, after which one part more was read.
LEMMA ReadKeeps ==
  ASSUME IInv, NEW s \in Connection, NEW part \in Part, NEW next, Read(s, part, next),
         next \in Loading \cup {"loaded"},
         \A p \in HasRead(next) : p \in HasRead(part) \cup {part}
  PROVE  IInv'
<1> DEFINE c == conn[s].char
           data == [mem[s] EXCEPT ![part] = db[c][part]]
<1>1. /\ conn[s].pc = part /\ conn[s].pc \in Admitted \cap Loading
      /\ conn[s].pc # "idle"
  BY StepsAre, PartsAre DEF Read
<1>2. c \in Character
  BY <1>1, LoadingHasChar
<1>3. /\ players' = players /\ open' = open /\ failures' = failures /\ cache' = cache
      /\ UNCHANGED <<db, pending, finalTasks, final, saveVersion, saver, newest, excused,
                     trade, drifted>>
      /\ conn' = [conn EXCEPT ![s].pc = next]
      /\ mem' = [mem EXCEPT ![s][part] = db[c][part]]
  BY DEF Read, Goto
<1>4. mem[s] \in Stored /\ db[c][part] \in Version
  BY <1>2 DEF IInv, TypeOK, Stored
<1>5. mem' = [mem EXCEPT ![s] = data]
  BY <1>3
<1>6. /\ data \in Stored /\ data[part] = db[c][part]
      /\ \A p \in Part : p # part => data[p] = mem[s][p]
  BY <1>4 DEF Stored
<1>7. \A q : HasRead(q) \subseteq Part
  BY PartsAre DEF HasRead
<1>8. c \notin excused => c \notin pending /\ UpToDate(data, c, HasRead(next))
  <2> HIDE DEF data
  <2> QED
    BY <1>1, <1>6, <1>7, AdmittedReads DEF UpToDate
<1>9. LoadStep(s, c, next, data)
  <2> HIDE DEF data
  <2> QED
    BY <1>1, <1>3, <1>5, <1>6, <1>8 DEF LoadStep
<1> HIDE DEF data
<1> QED
  BY <1>2, <1>3, <1>9, LoadKeeps DEF IInv, TypeOK

\* The four queries of the load, in their order.
LEMMA QueriesKeep ==
  ASSUME IInv, NEW s \in Connection,
         LoadPlayerInfo(s) \/ LoadPlayerStat(s) \/ LoadInventory(s) \/ LoadSlotSetting(s)
  PROVE  IInv'
<1>1. CASE LoadPlayerInfo(s)
  <2>1. HasRead("stat") = {"info"} /\ "stat" \in Loading
    BY StepsAre DEF HasRead
  <2> QED
    BY <1>1, <2>1, PartsAre, ReadKeeps DEF LoadPlayerInfo
<1>2. CASE LoadPlayerStat(s)
  <2>1. HasRead("fill") = CachedPart /\ HasRead("stat") = {"info"} /\ "fill" \in Loading
    BY StepsAre DEF HasRead
  <2> QED
    BY <1>2, <2>1, PartsAre, ReadKeeps DEF LoadPlayerStat
<1>3. CASE LoadInventory(s)
  <2>1. /\ HasRead("quickSlots") = CachedPart \cup {"inventory"}
        /\ HasRead("inventory") = CachedPart /\ "quickSlots" \in Loading
    BY StepsAre DEF HasRead
  <2> QED
    BY <1>3, <2>1, PartsAre, ReadKeeps DEF LoadInventory
<1>4. CASE LoadSlotSetting(s)
  <2>1. /\ HasRead("quickSlots") = CachedPart \cup {"inventory"}
        /\ HasRead("loaded") = Part
    BY DEF HasRead
  <2> QED
    BY <1>4, <2>1, PartsAre, ReadKeeps DEF LoadSlotSetting
<1> QED
  BY <1>1, <1>2, <1>3, <1>4

\* What is written to the hash is what the rows still are.
LEMMA FillCacheKeeps ==
  ASSUME IInv, NEW s \in Connection, FillCache(s)
  PROVE  IInv'
<1> DEFINE c == conn[s].char
           entry == [p \in CachedPart |-> mem[s][p]]
<1>1. conn[s].pc = "fill" /\ conn[s].pc \in Admitted \cap Loading
  BY StepsAre DEF FillCache
<1>2. c \in Character
  BY <1>1, LoadingHasChar
<1>3. /\ open' = open /\ players' = players /\ failures' = failures /\ mem' = mem
      /\ UNCHANGED <<db, pending, finalTasks, final, saveVersion, saver, newest, excused,
                     trade, drifted>>
      /\ cache' = [cache EXCEPT ![c] = {entry}]
  BY DEF FillCache
<1>4. mem[s] \in Stored /\ mem' = [mem EXCEPT ![s] = mem[s]]
  BY <1>3 DEF IInv, TypeOK
<1>5. entry \in [CachedPart -> Version]
  BY <1>4, PartsAre DEF Stored
<1>6. HasRead("fill") = CachedPart /\ HasRead("inventory") = CachedPart
      /\ HasRead("failed") = {} /\ "inventory" \in Loading
  BY StepsAre DEF HasRead
<1>7. c \notin excused => c \notin pending /\ UpToDate(mem[s], c, CachedPart)
  BY <1>1, <1>6, AdmittedReads
<1> UpToDate(mem[s], c, {})
  BY DEF UpToDate
<1>8. c \notin excused => \A p \in CachedPart : entry[p] = newest[c][p]
  BY <1>7, PartsAre DEF UpToDate, Sure
<1>9. PICK next \in {"inventory", "failed"} : conn' = [conn EXCEPT ![s].pc = next]
  BY DEF FillCache, Goto
<1>10. LoadStep(s, c, next, mem[s])
  BY <1>1, <1>3, <1>4, <1>6, <1>7, <1>9 DEF LoadStep
<1>11. /\ cache' \in [Character -> SUBSET [CachedPart -> Version]]
       /\ cache'[c] = {entry}
       /\ \A d \in Character : d # c => cache'[d] = cache[d]
  <2> HIDE DEF entry
  <2> QED
    BY <1>2, <1>3, <1>5 DEF IInv, TypeOK
<1>12. c \notin excused => \A e \in cache'[c] : \A p \in CachedPart : e[p] = newest[c][p]
  BY <1>8, <1>11
<1>13. /\ players' \in SUBSET Character /\ open' \in [Connection -> BOOLEAN]
       /\ failures' = failures
  BY <1>3 DEF IInv, TypeOK
<1> HIDE DEF entry, c
<1> QED
  BY <1>2, <1>10, <1>11, <1>12, <1>13, LoadKeeps

\* A result without success has read nothing.
LEMMA LoadFailsKeeps ==
  ASSUME IInv, NEW s \in Connection, LoadFails(s)
  PROVE  IInv'
<1> DEFINE c == conn[s].char
<1>1. conn[s].pc \in Loading /\ conn[s].pc # "idle"
  BY StepsAre DEF LoadFails
<1>2. c \in Character
  BY <1>1, LoadingHasChar
<1>3. /\ HasRead("failed") = {} /\ "failed" \notin Admitted
      /\ UpToDate(mem[s], c, {})
  BY StepsAre DEF HasRead, UpToDate
<1>4. mem[s] \in Stored /\ mem' = [mem EXCEPT ![s] = mem[s]]
  BY DEF IInv, TypeOK, LoadFails
<1>5. LoadStep(s, c, "failed", mem[s])
  BY <1>1, <1>3, <1>4 DEF LoadStep, LoadFails, Goto
<1>6. /\ players' = players /\ open' = open /\ failures' = failures /\ cache' = cache
  BY DEF LoadFails
<1> QED
  BY <1>2, <1>5, <1>6, LoadKeeps DEF IInv, TypeOK

-------------------------------------------------------------------------------
(* A connection that is online.                                              *)

\* What an online connection relies on.
LEMMA OnlineHas ==
  ASSUME IInv, NEW s \in Connection, Online(s)
  PROVE  LET c == conn[s].char IN
           /\ c \in Character /\ conn[s].pc \in Admitted /\ conn[s].pc # "idle"
           /\ newest[c] \in Stored
           /\ saveVersion[s] \in Nat /\ saver[s].version \in Nat
           /\ saver[s].data \in Stored /\ mem[s] \in Stored /\ db[c] \in Stored
           /\ c \notin excused =>
                /\ c \notin pending /\ UpToDate(mem[s], c, Part)
                /\ Rows(c) /\ Clean(s, c) /\ Saves(s, c)
<1> DEFINE c == conn[s].char
<1>1. conn[s].pc \in Admitted /\ conn[s].pc # "idle" /\ HasRead(conn[s].pc) = Part
  BY StepsAre DEF Online, HasRead
<1>2. c \in Character
  BY <1>1, LoadingHasChar
<1>3. /\ newest[c] \in Stored /\ saveVersion[s] \in Nat /\ saver[s].version \in Nat
      /\ saver[s].data \in Stored /\ mem[s] \in Stored /\ db[c] \in Stored
  BY <1>2 DEF IInv, TypeOK
<1>4. ASSUME c \notin excused
      PROVE  /\ c \notin pending /\ UpToDate(mem[s], c, Part)
             /\ Rows(c) /\ Clean(s, c) /\ Saves(s, c)
  <2>1. Kept(c)
    BY <1>2, <1>4 DEF IInv
  <2>2. Loads(s, c) /\ Clean(s, c) /\ Saves(s, c) /\ Rows(c) /\ c \notin pending
    BY <1>1, <2>1 DEF Kept, Final
  <2> QED
    BY <1>1, <2>2 DEF Loads
<1> QED
  BY <1>1, <1>2, <1>3, <1>4

\* The versions of a character are numbers.
LEMMA StoredInNat ==
  ASSUME NEW f \in Stored, NEW p \in Part
  PROVE  f[p] \in Nat /\ f[p] \in Version
BY ZeroIsVersion DEF Stored

\* A step of the connection of a character that stays the one it has, and its rows.
LEMMA OnlineKeeps ==
  ASSUME IInv, TypeOK', NEW s \in Connection, NEW c \in Character, conn[s].char = c,
         conn'[s].char = c, conn'[s].pc \in {"online", "closing"},
         \A t \in Connection : t # s =>
           /\ conn'[t] = conn[t] /\ mem'[t] = mem[t]
           /\ saver'[t] = saver[t] /\ saveVersion'[t] = saveVersion[t],
         \A d \in Character : d # c =>
           /\ db'[d] = db[d] /\ cache'[d] = cache[d] /\ newest'[d] = newest[d]
           /\ d \in drifted' <=> d \in drifted,
         UNCHANGED <<pending, finalTasks, final, excused>>,
         saver'[s].pc = "idle" => saver'[s] = NoSave,
         c \notin excused => /\ c \notin pending /\ UpToDate(mem[s], c, Part)'
                             /\ Rows(c)' /\ Clean(s, c)' /\ Saves(s, c)'
  PROVE  IInv'
<1>1. \A t \in Connection : conn'[t].char = conn[t].char
  OBVIOUS
<1>2. Connections'
  <2>1. \A t \in Connection : t # s => (Online(t)' <=> Online(t))
    BY DEF Online
  <2>2. Online(s)' /\ conn'[s].pc # "idle" /\ conn'[s].char # NoChar
    BY PersistenceAssumption DEF Online
  <2> QED
    BY <2>1, <2>2 DEF IInv, Connections
<1>3. Queues'
  BY DEF IInv, Queues
<1>4. ASSUME NEW d \in Character \ excused'
      PROVE  Kept(d)'
  <2>1. d \in Character \ excused /\ Kept(d)
    BY DEF IInv
  <2>2. CASE d # c
    BY <1>1, <2>1, <2>2, Untouched
  <2>3. CASE d = c
    <3>1. \A t \in Connection : conn'[t].char = c <=> t = s
      BY <1>1, <2>1, <2>3, OneConnection
    <3>2. Final(c)'
      BY <2>1, <2>3 DEF Final
    <3>3. Settled(c)'
      BY DEF Settled, Online
    <3>4. Loads(s, c)'
      <4>1. HasRead(conn'[s].pc) = Part
        BY DEF HasRead
      <4> QED
        BY <2>1, <2>3, <4>1 DEF Loads
    <3> QED
      BY <2>1, <2>3, <3>1, <3>2, <3>3, <3>4, KeptByOne
  <2> QED
    BY <2>2, <2>3
<1> QED
  BY <1>2, <1>3, <1>4 DEF IInv

\* The type of a connection.
ConnStep == [pc : {"idle", "loaded", "failed", "online", "closing"} \cup Loading,
             char : Character \cup {NoChar}]

\* A connection goes from one step to another.
LEMMA StepIsTyped ==
  ASSUME conn \in [Connection -> ConnStep], NEW s \in Connection,
         NEW next \in {"idle", "loaded", "failed", "online", "closing"} \cup Loading
  PROVE  [conn EXCEPT ![s].pc = next] \in [Connection -> ConnStep]
<1>1. [conn[s] EXCEPT !.pc = next] \in ConnStep
  BY DEF ConnStep
<1> QED
  BY <1>1

\* ProcessAuthResults publishes the Player that was loaded.
LEMMA PublishPlayerKeeps ==
  ASSUME IInv, NEW s \in Connection, PublishPlayer(s)
  PROVE  IInv'
<1> DEFINE c == conn[s].char
<1>1. /\ conn[s].pc = "loaded" /\ conn[s].pc \in Admitted /\ conn[s].pc # "idle"
      /\ conn' = [conn EXCEPT ![s].pc = "online"]
      /\ HasRead("loaded") = Part
      /\ UNCHANGED <<db, cache, pending, finalTasks, final, open, mem, saveVersion,
                     saver, newest, excused, failures, trade, drifted>>
      /\ players' = players \cup {c}
  BY StepsAre DEF PublishPlayer, Goto, HasRead
<1>2. c \in Character
  BY <1>1, LoadingHasChar
<1>3. /\ conn'[s].pc = "online" /\ conn'[s].char = c
      /\ \A t \in Connection : t # s => conn'[t] = conn[t]
  BY <1>1 DEF IInv, TypeOK
<1>4. saver[s] = NoSave /\ saveVersion[s] = 0
  BY <1>1 DEF IInv, Connections, Online
<1>5. TypeOK'
  <2>1. conn' \in [Connection -> ConnStep]
    BY <1>1, StepIsTyped DEF IInv, TypeOK, ConnStep
  <2> QED
    BY <1>1, <1>2, <2>1 DEF IInv, TypeOK, ConnStep
<1>6. ASSUME c \notin excused
      PROVE  /\ c \notin pending /\ UpToDate(mem[s], c, Part)'
             /\ Rows(c)' /\ Clean(s, c)' /\ Saves(s, c)'
  <2>1. Kept(c)
    BY <1>2, <1>6 DEF IInv
  <2>2. c \notin pending /\ Loads(s, c) /\ Rows(c)
    BY <1>1, <2>1 DEF Kept, Final
  <2>3. Agrees(c)
    BY <1>1, <2>1, <2>2 DEF Kept, Alone, Settled, Online
  <2>4. Sure(c)' = Sure(c)
    BY <1>1, SureKept
  <2>5. UpToDate(mem[s], c, Part)'
    BY <1>1, <2>2, <2>4 DEF Loads, UpToDate
  <2>6. Rows(c)' /\ Agrees(c)'
    BY <1>1, <2>2, <2>3, <2>4 DEF Rows, Agrees, UpToDate
  <2>7. Saves(s, c)'
    BY <1>1, <1>4 DEF Saves, NoSave
  <2> QED
    BY <1>1, <2>2, <2>5, <2>6, <2>7 DEF Clean
<1> HIDE DEF c
<1> QED
  BY <1>1, <1>2, <1>3, <1>4, <1>5, <1>6, OnlineKeeps DEF c

\* A change is a new version of every part, newer than what any save in progress has.
LEMMA ChangeKeeps ==
  ASSUME IInv, NEW s \in Connection, Change(s)
  PROVE  IInv'
<1> DEFINE c == conn[s].char
           n == [p \in Part |-> newest[c][p] + 1]
<1>1. /\ Online(s) /\ conn[s].pc \in {"online", "closing"}
      /\ \A p \in Part : newest[c][p] < MaxVersion
      /\ newest' = [newest EXCEPT ![c] = [p \in Part |-> newest[c][p] + 1]]
      /\ mem' = [mem EXCEPT ![s] = n]
      /\ saveVersion' = [saveVersion EXCEPT ![s] = saveVersion[s] + 1]
      /\ UNCHANGED <<db, cache, pending, finalTasks, final, players, conn, open, saver,
                     excused, failures, trade, drifted>>
  BY DEF Change, Online
<1>2. /\ c \in Character /\ newest[c] \in Stored /\ saveVersion[s] \in Nat
      /\ saver[s].version \in Nat /\ saver[s].data \in Stored /\ db[c] \in Stored
      /\ c \notin excused => c \notin pending /\ Rows(c) /\ Saves(s, c)
  BY <1>1, OnlineHas
<1>3. /\ \A p \in Part : n[p] = newest[c][p] + 1 /\ newest[c][p] \in Nat /\ n[p] \in Nat
      /\ n \in Stored
  <2>1. \A p \in Part : newest[c][p] \in Nat /\ newest[c][p] + 1 \in Version
    BY <1>1, <1>2, StoredInNat, PersistenceAssumption DEF Version
  <2> QED
    BY <2>1 DEF Stored
<1>4. /\ newest'[c] = n /\ mem'[s] = n /\ saveVersion'[s] = saveVersion[s] + 1
      /\ \A t \in Connection : t # s => mem'[t] = mem[t] /\ saveVersion'[t] = saveVersion[t]
      /\ \A d \in Character : d # c => newest'[d] = newest[d]
  BY <1>1, <1>2 DEF IInv, TypeOK
<1>5. TypeOK'
  <2>1. /\ newest' \in [Character -> Stored] /\ mem' \in [Connection -> Stored]
        /\ saveVersion' \in [Connection -> Nat]
    BY <1>1, <1>2, <1>3 DEF IInv, TypeOK
  <2> QED
    BY <1>1, <2>1 DEF IInv, TypeOK
<1> HIDE DEF n
<1>6. ASSUME c \notin excused
      PROVE  /\ UpToDate(mem[s], c, Part)'
             /\ Rows(c)' /\ Clean(s, c)' /\ Saves(s, c)'
  <2>1. \A p \in Part : db[c][p] \in Nat /\ saver[s].data[p] \in Nat
    BY <1>2, StoredInNat
  <2>2. UpToDate(mem[s], c, Part)'
    <3>1. conn' = conn /\ \A p \in Part : n[p] \in Nat /\ n[p] <= n[p]
      BY <1>1, <1>3
    <3> QED
      BY <1>4, <3>1 DEF UpToDate
  <2>3. Rows(c)'
    BY <1>1, <1>2, <1>3, <1>4, <1>6, <2>1 DEF Rows
  <2>4. Clean(s, c)'
    BY <1>2, <1>4 DEF Clean
  <2>5. Saves(s, c)'
    <3>1. Sure(c)' = Sure(c)
      BY <1>1, SureKept
    <3>2. ASSUME saver[s].pc # "idle"
          PROVE  /\ \A p \in Part : saver'[s].data[p] <= newest'[c][p]
                 /\ saver'[s].data["inventory"] # newest'[c]["inventory"]
                 /\ saver'[s].version # saveVersion'[s]
                 /\ saver'[s].version <= saveVersion'[s]
      BY <1>1, <1>2, <1>3, <1>4, <1>6, <2>1, <3>2, PartsAre DEF Saves
    <3> QED
      BY <1>1, <1>2, <1>6, <3>1, <3>2 DEF Saves, Restores
  <2> QED
    BY <2>2, <2>3, <2>4, <2>5
<1>7. saver'[s].pc = "idle" => saver'[s] = NoSave
  BY <1>1 DEF IInv, Connections
<1> HIDE DEF c
<1> QED
  BY <1>1, <1>2, <1>4, <1>5, <1>6, <1>7, OnlineKeeps DEF c

\* MarkClosing changes nothing that is saved.
LEMMA DisconnectKeeps ==
  ASSUME IInv, NEW s \in Connection, Disconnect(s)
  PROVE  IInv'
<1> DEFINE c == conn[s].char
<1>1. /\ Online(s) /\ conn' = [conn EXCEPT ![s].pc = "closing"]
      /\ UNCHANGED <<db, cache, pending, finalTasks, final, players, open, mem,
                     saveVersion, saver, newest, excused, failures, trade, drifted>>
  BY DEF Disconnect, Online, Goto
<1>2. /\ c \in Character
      /\ c \notin excused => /\ c \notin pending /\ UpToDate(mem[s], c, Part)
                             /\ Rows(c) /\ Clean(s, c) /\ Saves(s, c)
  BY <1>1, OnlineHas
<1>3. /\ conn'[s].pc = "closing" /\ conn'[s].char = c
      /\ \A t \in Connection : t # s => conn'[t] = conn[t]
  BY <1>1 DEF IInv, TypeOK
<1>4. TypeOK'
  <2>1. conn' \in [Connection -> ConnStep]
    BY <1>1, StepIsTyped DEF IInv, TypeOK, ConnStep
  <2> QED
    BY <1>1, <2>1 DEF IInv, TypeOK, ConnStep
<1>5. ASSUME c \notin excused
      PROVE  UpToDate(mem[s], c, Part)' /\ Rows(c)' /\ Clean(s, c)' /\ Saves(s, c)'
  <2>1. Sure(c)' = Sure(c)
    BY <1>1, SureKept
  <2>2. Agrees(c)' <=> Agrees(c)
    BY <1>1, <2>1 DEF Agrees, UpToDate
  <2> QED
    BY <1>1, <1>2, <1>5, <2>1, <2>2 DEF Rows, Clean, Saves, UpToDate, Restores
<1>6. saver'[s].pc = "idle" => saver'[s] = NoSave
  BY <1>1 DEF IInv, Connections
<1> HIDE DEF c
<1> QED
  BY <1>1, <1>2, <1>3, <1>4, <1>5, <1>6, OnlineKeeps DEF c

-------------------------------------------------------------------------------
(* The periodic save.                                                        *)

\* The type of a save.
SaveStep == [pc : {"idle", "save", "invalidate", "mark"}, data : Stored, version : Nat]

\* A step of the save of c by connection s: what it may have done to the rows, the
\* hash and the version that is to be saved.
LEMMA SaverKeeps ==
  ASSUME IInv, NEW s \in Connection, Online(s), NEW c, c = conn[s].char,
         NEW next \in SaveStep, saver' = [saver EXCEPT ![s] = next],
         next.pc = "idle" => next = NoSave,
         NEW row \in Stored, db' = [db EXCEPT ![c] = row],
         NEW hash \in SUBSET cache[c], cache' = [cache EXCEPT ![c] = hash],
         NEW version \in Nat, saveVersion' = [saveVersion EXCEPT ![s] = version],
         failures' \in 0 .. MaxFailure,
         UNCHANGED <<pending, finalTasks, final, players, conn, open, mem, newest,
                     excused, trade>>,
         drifted' \subseteq drifted, \A d : d # c => (d \in drifted' <=> d \in drifted),
         c \notin excused => /\ UpToDate(mem[s], c, Part)'
                             /\ Rows(c)' /\ Clean(s, c)' /\ Saves(s, c)'
  PROVE  IInv'
<1>1. /\ c \in Character
      /\ c \notin excused => c \notin pending
  BY OnlineHas
<1>2. TypeOK'
  <2>1. cache[c] \in SUBSET [CachedPart -> Version]
    BY <1>1 DEF IInv, TypeOK
  <2>2. /\ db' \in [Character -> Stored]
        /\ cache' \in [Character -> SUBSET [CachedPart -> Version]]
        /\ saveVersion' \in [Connection -> Nat]
    BY <1>1, <2>1 DEF IInv, TypeOK
  <2>3. saver' \in [Connection -> SaveStep]
    BY DEF IInv, TypeOK, SaveStep
  <2> QED
    BY <2>2, <2>3 DEF IInv, TypeOK, SaveStep
<1>3. /\ saver'[s] = next
      /\ \A t \in Connection : t # s =>
           saver'[t] = saver[t] /\ saveVersion'[t] = saveVersion[t]
      /\ \A d \in Character : d # c => db'[d] = db[d] /\ cache'[d] = cache[d]
  BY <1>1 DEF IInv, TypeOK
<1>4. conn'[s].char = c /\ conn'[s].pc \in {"online", "closing"}
  BY DEF Online
<1> QED
  BY <1>1, <1>2, <1>3, <1>4, OnlineKeeps

\* A save in progress is one of an online connection.
LEMMA SaverIsOnline ==
  ASSUME IInv, NEW s \in Connection, saver[s].pc # "idle"
  PROVE  Online(s)
BY DEF IInv, Connections, NoSave

\* What does not change is changed to itself.
LEMMA SaverUnchanged ==
  ASSUME IInv, NEW s \in Connection, Online(s)
  PROVE  LET c == conn[s].char IN
           /\ c \in Character /\ db[c] \in Stored /\ saveVersion[s] \in Nat
           /\ db = [db EXCEPT ![c] = db[c]] /\ cache = [cache EXCEPT ![c] = cache[c]]
           /\ cache[c] \in SUBSET cache[c]
           /\ saveVersion = [saveVersion EXCEPT ![s] = saveVersion[s]]
           /\ NoSave \in SaveStep /\ NoSave.pc = "idle"
           /\ saver[s] \in SaveStep
           /\ failures \in 0 .. MaxFailure
<1>1. conn[s].char \in Character
  BY OnlineHas
<1>2. NoSave \in SaveStep /\ NoSave.pc = "idle"
  BY ZeroIsVersion, WholeIsStored DEF NoSave, SaveStep
<1> QED
  BY <1>1, <1>2 DEF IInv, TypeOK, SaveStep

\* A command that failed is counted.
LEMMA FailIsCounted ==
  ASSUME IInv, Fail
  PROVE  failures' \in 0 .. MaxFailure
BY PersistenceAssumption DEF IInv, TypeOK, Fail

\* MakeSaveData takes the newest state.
LEMMA SaveSnapshotKeeps ==
  ASSUME IInv, NEW s \in Connection, SaveSnapshot(s)
  PROVE  IInv'
<1> DEFINE c == conn[s].char
           next == [pc |-> "save", data |-> mem[s], version |-> saveVersion[s]]
<1>1. /\ Online(s) /\ saveVersion[s] # 0 /\ saver' = [saver EXCEPT ![s] = next]
      /\ UNCHANGED <<db, cache, pending, finalTasks, final, players, conn, open, mem,
                     saveVersion, newest, excused, failures, trade, drifted>>
  BY DEF SaveSnapshot, Online
<1>2. /\ c \in Character /\ newest[c] \in Stored
      /\ c \notin excused => UpToDate(mem[s], c, Part) /\ Rows(c)
  BY <1>1, OnlineHas
<1>3. mem[s] \in Stored /\ saveVersion[s] \in Nat
  BY DEF IInv, TypeOK
<1>4. next \in SaveStep /\ next.pc # "idle"
  BY <1>3 DEF SaveStep
<1>5. saver'[s] = next
  BY <1>1 DEF IInv, TypeOK
<1>6. ASSUME c \notin excused
      PROVE  UpToDate(mem[s], c, Part)' /\ Rows(c)' /\ Clean(s, c)' /\ Saves(s, c)'
  <2>1. Sure(c)' = Sure(c) /\ Sure(c) \subseteq Part
    BY <1>1, SureKept
  <2>2. UpToDate(mem[s], c, Part)' /\ Rows(c)'
    BY <1>1, <1>2, <1>6, <2>1 DEF Rows, UpToDate
  <2>3. Clean(s, c)'
    BY <1>1 DEF Clean
  <2>4. Saves(s, c)'
    BY <1>1, <1>2, <1>3, <1>5, <1>6, <2>1 DEF Saves, Rows, UpToDate, Restores
  <2> QED
    BY <2>2, <2>3, <2>4
<1> HIDE DEF next
<1> QED
  BY <1>1, <1>4, <1>6, SaverUnchanged, SaverKeeps

\* PlayerStateRepository::Save, whose answer may be lost.
LEMMA SaveCommitKeeps ==
  ASSUME IInv, NEW s \in Connection, SaveCommit(s)
  PROVE  IInv'
<1> PICK c : c = conn[s].char
  OBVIOUS
<1> DEFINE data == saver[s].data
<1>1. saver[s].pc = "save" /\ Online(s)
  BY SaverIsOnline DEF SaveCommit
<1>2. /\ c \in Character /\ data \in Stored /\ db[c] \in Stored
      /\ saveVersion[s] \in Nat /\ saver[s].version \in Nat
      /\ db \in [Character -> Stored]
      /\ c \notin excused => Rows(c) /\ Saves(s, c) /\ UpToDate(mem[s], c, Part)
  BY <1>1, OnlineHas DEF IInv, TypeOK
<1>3. UNCHANGED <<cache, pending, finalTasks, final, players, conn, open, mem,
                  saveVersion, newest, excused, trade>>
  BY DEF SaveCommit
<1>4. c \notin excused => saveVersion[s] # 0
  BY <1>1, <1>2 DEF Saves
<1>5. Commit(c, data) \/ drifted' = drifted
  BY DEF SaveCommit, CommitFails
<1>6. /\ drifted' \subseteq drifted
      /\ \A d : d # c => (d \in drifted' <=> d \in drifted)
  BY <1>5, CommitHeals
<1>7. c \notin excused => UpToDate(mem[s], c, Part)'
  <2>1. c \notin excused => (data["inventory"] = newest[c]["inventory"] =>
                               mem[s]["inventory"] = newest[c]["inventory"])
    BY <1>1, <1>2 DEF Saves, Restores
  <2>2. c \notin excused => StaysUpToDate(mem[s], c)
    BY <1>2, <1>3, <1>5, <2>1, CommitKeepsUpToDate
  <2> QED
    BY <1>3, <2>2 DEF UpToDate, StaysUpToDate
<1>8. CASE /\ Commit(c, data) /\ failures' = failures
           /\ saver' = [saver EXCEPT ![s].pc = "invalidate"]
  <2> DEFINE next == [saver[s] EXCEPT !.pc = "invalidate"]
  <2>1. saver' = [saver EXCEPT ![s] = next] /\ db' = [db EXCEPT ![c] = data]
    BY <1>2, <1>8, CommitIs
  <2>2. /\ next \in SaveStep /\ next.pc = "invalidate"
        /\ next.data = data /\ next.version = saver[s].version
    BY DEF IInv, TypeOK, SaveStep
  <2>3. saver'[s] = next /\ db'[c] = data
    BY <1>2, <2>1 DEF IInv, TypeOK
  <2> HIDE DEF next
  <2>4. ASSUME c \notin excused
        PROVE  Rows(c)' /\ Clean(s, c)' /\ Saves(s, c)'
    <3>1. \A p \in Part : data[p] \in Nat /\ data[p] <= newest[c][p] /\ data[p] <= data[p]
      BY <1>1, <1>2, <2>4, StoredInNat DEF Saves
    <3>2. Rows(c)'
      BY <1>3, <2>3, <3>1 DEF Rows
    <3>3. Clean(s, c)'
      BY <1>3, <1>4, <2>4 DEF Clean
    <3>4. UpToDate(data, c, Part) => StaysUpToDate(data, c)
      <4> HIDE DEF data
      <4> QED
        BY <1>3, <1>5, CommitKeepsUpToDate
    <3>5. UpToDate(saver[s].data, c, Part) => UpToDate(saver[s].data, c, Part)'
      <4>1. conn' = conn /\ saver'[s].data = saver[s].data
        BY <1>3, <2>2, <2>3
      <4> QED
        BY <3>4, <4>1 DEF UpToDate, StaysUpToDate
    <3>6. Sure(c)' \subseteq Part
      BY DEF Sure
    <3>7. saver'[s].data = data /\ saver'[s].version = saver[s].version
          /\ saver'[s].pc = "invalidate" /\ saveVersion' = saveVersion
      BY <1>3, <2>2, <2>3
    <3>8. Saves(s, c)'
      BY <1>1, <1>2, <1>3, <2>3, <2>4, <3>1, <3>5, <3>6, <3>7 DEF Saves
    <3> QED
      BY <3>2, <3>3, <3>8
  <2>5. /\ c \in Character /\ cache[c] \in SUBSET cache[c]
        /\ cache' = [cache EXCEPT ![c] = cache[c]]
        /\ saveVersion' = [saveVersion EXCEPT ![s] = saveVersion[s]]
        /\ failures' \in 0 .. MaxFailure
    BY <1>1, <1>3, <1>8, SaverUnchanged
  <2> HIDE DEF data
  <2>6. next.pc = "idle" => next = NoSave
    BY <2>2
  <2>7. c \notin excused => /\ UpToDate(mem[s], c, Part)'
                            /\ Rows(c)' /\ Clean(s, c)' /\ Saves(s, c)'
    BY <1>7, <2>4
  <2> QED
    <3>1. saveVersion[s] \in Nat /\ data \in Stored /\ next \in SaveStep /\ Online(s)
      BY <1>1, <1>2, <2>2
    <3> QED
      BY <1>3, <1>6, <2>1, <2>5, <2>6, <2>7, <3>1, SaverKeeps
<1>9. CASE CommitFails(c, data) /\ saver' = [saver EXCEPT ![s] = NoSave]
  <2>1. PICK row \in {db[c], data} : db' = [db EXCEPT ![c] = row]
    <3>1. CASE db' = db
      BY <1>2, <3>1
    <3>2. CASE Commit(c, data)
      BY <1>2, <3>2, CommitIs
    <3> QED
      BY <1>9, <3>1, <3>2 DEF CommitFails
  <2>2. row \in Stored /\ db'[c] = row /\ saver'[s] = NoSave
    BY <1>2, <1>9, <2>1 DEF IInv, TypeOK
  <2>3. failures' \in 0 .. MaxFailure
    BY <1>9, FailIsCounted DEF CommitFails
  <2>4. ASSUME c \notin excused
        PROVE  Rows(c)' /\ Clean(s, c)' /\ Saves(s, c)'
    <3>1. \A p \in Part : row[p] <= newest[c][p]
      BY <1>1, <1>2, <2>4 DEF Saves, Rows
    <3>2. Rows(c)'
      BY <1>3, <2>2, <3>1 DEF Rows
    <3>3. Clean(s, c)'
      BY <1>3, <1>4, <2>4 DEF Clean
    <3>4. Saves(s, c)'
      BY <2>2 DEF Saves, NoSave
    <3> QED
      BY <3>2, <3>3, <3>4
  <2> QED
    <3>1. /\ c \in Character /\ cache[c] \in SUBSET cache[c]
          /\ cache' = [cache EXCEPT ![c] = cache[c]]
          /\ saveVersion' = [saveVersion EXCEPT ![s] = saveVersion[s]]
          /\ NoSave \in SaveStep
      BY <1>1, <1>3, SaverUnchanged
    <3>2. c \notin excused => /\ UpToDate(mem[s], c, Part)'
                              /\ Rows(c)' /\ Clean(s, c)' /\ Saves(s, c)'
      BY <1>7, <2>4
    <3> HIDE DEF data
    <3> QED
      BY <1>1, <1>2, <1>3, <1>6, <1>9, <2>1, <2>2, <2>3, <3>1, <3>2, SaverKeeps
<1> QED
  BY <1>8, <1>9 DEF SaveCommit

\* InvalidatePlayerCache, whose answer may be lost.
LEMMA SaveInvalidateKeeps ==
  ASSUME IInv, NEW s \in Connection, SaveInvalidate(s)
  PROVE  IInv'
<1> DEFINE c == conn[s].char
<1>1. saver[s].pc = "invalidate" /\ Online(s)
  BY SaverIsOnline DEF SaveInvalidate
<1>2. /\ c \in Character /\ saveVersion[s] \in Nat /\ saver[s].version \in Nat
      /\ c \notin excused => Rows(c) /\ Saves(s, c) /\ UpToDate(mem[s], c, Part)
  BY <1>1, OnlineHas
<1>3. UNCHANGED <<db, pending, finalTasks, final, players, conn, open, mem,
                  saveVersion, newest, excused, trade, drifted>>
  BY DEF SaveInvalidate
<1> Sure(c)' = Sure(c)
  BY <1>3, SureKept
<1>4. c \notin excused => UpToDate(mem[s], c, Part)' /\ Rows(c)' /\ Clean(s, c)'
  BY <1>1, <1>2, <1>3 DEF Saves, Clean, Rows, UpToDate
<1>5. CASE /\ InvalidatePlayerCache(c) /\ failures' = failures
           /\ saver' = [saver EXCEPT ![s].pc = "mark"]
  <2> DEFINE next == [saver[s] EXCEPT !.pc = "mark"]
  <2>1. saver' = [saver EXCEPT ![s] = next] /\ cache' = [cache EXCEPT ![c] = {}]
    BY <1>5 DEF InvalidatePlayerCache
  <2>2. /\ next \in SaveStep /\ next.pc = "mark"
        /\ next.data = saver[s].data /\ next.version = saver[s].version
    BY DEF IInv, TypeOK, SaveStep
  <2>3. saver'[s] = next /\ cache'[c] = {}
    BY <1>2, <2>1 DEF IInv, TypeOK
  <2> HIDE DEF next
  <2>4. c \notin excused => Saves(s, c)'
    BY <1>1, <1>2, <1>3, <2>2, <2>3 DEF Saves, UpToDate
  <2> QED
    BY <1>1, <1>3, <1>4, <1>5, <2>1, <2>2, <2>4, SaverUnchanged, SaverKeeps
<1>6. CASE InvalidateFails(c) /\ saver' = [saver EXCEPT ![s] = NoSave]
  <2>1. PICK hash \in SUBSET cache[c] : cache' = [cache EXCEPT ![c] = hash]
    <3>1. CASE cache' = cache
      BY <1>1, <3>1, SaverUnchanged
    <3>2. CASE cache' = [cache EXCEPT ![c] = {}]
      BY <3>2
    <3> QED
      BY <1>6, <3>1, <3>2 DEF InvalidateFails, InvalidatePlayerCache
  <2>2. saver'[s] = NoSave
    BY <1>6 DEF IInv, TypeOK
  <2>3. Saves(s, c)'
    BY <2>2 DEF Saves, NoSave
  <2>4. failures' \in 0 .. MaxFailure
    BY <1>6, FailIsCounted DEF InvalidateFails
  <2>5. /\ db' = [db EXCEPT ![c] = db[c]] /\ db[c] \in Stored
        /\ saveVersion' = [saveVersion EXCEPT ![s] = saveVersion[s]]
        /\ NoSave \in SaveStep
    BY <1>1, <1>3, SaverUnchanged
  <2> HIDE DEF c
  <2> QED
    BY <1>1, <1>2, <1>3, <1>4, <1>6, <2>1, <2>3, <2>4, <2>5, SaverKeeps DEF c
<1> QED
  BY <1>5, <1>6 DEF SaveInvalidate

\* TryMarkSaved clears the version only if it is that of the snapshot.
LEMMA SaveMarkKeeps ==
  ASSUME IInv, NEW s \in Connection, SaveMark(s)
  PROVE  IInv'
<1> DEFINE c == conn[s].char
           version == IF saveVersion[s] = saver[s].version THEN 0 ELSE saveVersion[s]
<1>1. saver[s].pc = "mark" /\ Online(s)
  BY SaverIsOnline DEF SaveMark
<1>2. /\ c \in Character /\ saveVersion[s] \in Nat /\ saver[s].version \in Nat
      /\ c \notin excused => Rows(c) /\ Saves(s, c) /\ UpToDate(mem[s], c, Part)
  BY <1>1, OnlineHas
<1>3. /\ saver' = [saver EXCEPT ![s] = NoSave]
      /\ saveVersion' = [saveVersion EXCEPT ![s] = version]
      /\ UNCHANGED <<db, cache, pending, finalTasks, final, players, conn, open, mem,
                     newest, excused, failures, trade, drifted>>
  BY DEF SaveMark, TryMarkSaved
<1>4. saver'[s] = NoSave /\ saveVersion'[s] = version /\ version \in Nat
  BY <1>2, <1>3 DEF IInv, TypeOK
<1>5. ASSUME c \notin excused
      PROVE  UpToDate(mem[s], c, Part)' /\ Rows(c)' /\ Clean(s, c)' /\ Saves(s, c)'
  <2> Sure(c)' = Sure(c) /\ Sure(c) \subseteq Part
    BY <1>3, SureKept
  <2>1. UpToDate(mem[s], c, Part)' /\ Rows(c)' /\ Saves(s, c)'
    BY <1>2, <1>3, <1>4, <1>5 DEF Rows, Saves, NoSave, UpToDate
  <2>2. CASE saveVersion[s] = saver[s].version
    <3>1. UpToDate(db[c], c, Part) /\ cache[c] = {}
      BY <1>1, <1>2, <1>5, <2>2 DEF Saves, UpToDate, Rows
    <3>2. Agrees(c)'
      BY <1>3, <3>1 DEF Agrees, UpToDate
    <3> QED
      BY <2>1, <3>2 DEF Clean
  <2>3. CASE saveVersion[s] # saver[s].version
    <3>1. version # 0
      BY <1>1, <1>2, <1>5, <2>3 DEF Saves
    <3>2. Clean(s, c)'
      BY <1>4, <3>1 DEF Clean
    <3> QED
      BY <2>1, <3>2
  <2> QED
    BY <2>2, <2>3
<1> HIDE DEF version
<1> QED
  BY <1>1, <1>3, <1>4, <1>5, SaverUnchanged, SaverKeeps

-------------------------------------------------------------------------------
(* Connections that begin and end.                                           *)

\* A second connection of a character excuses it; the first reads nothing yet.
LEMMA StartAuthKeeps ==
  ASSUME IInv, NEW s \in Connection, NEW c \in Character, StartAuth(s, c)
  PROVE  IInv'
<1>1. /\ conn[s] = NoConn /\ conn[s].char = NoChar /\ conn[s].pc = "idle"
      /\ conn' = [conn EXCEPT ![s] = [pc |-> "check", char |-> c]]
      /\ open' = [open EXCEPT ![s] = TRUE]
      /\ UNCHANGED <<db, cache, pending, finalTasks, final, players, mem, saveVersion,
                     saver, newest, failures, trade, drifted>>
  BY DEF StartAuth, NoConn
<1>2. /\ excused \subseteq excused' /\ excused' \in SUBSET Character
      /\ c \notin excused' => \A t \in Connection : conn[t].char # c
  BY DEF StartAuth, IInv, TypeOK
<1>3. /\ conn'[s].pc = "check" /\ conn'[s].char = c
      /\ \A t \in Connection : t # s => conn'[t] = conn[t]
  BY <1>1 DEF IInv, TypeOK
<1>4. TypeOK'
  <2>1. [pc |-> "check", char |-> c] \in ConnStep
    BY StepsAre DEF ConnStep
  <2>2. conn' \in [Connection -> ConnStep]
    BY <1>1, <2>1 DEF IInv, TypeOK, ConnStep
  <2>3. open' \in [Connection -> BOOLEAN]
    BY <1>1 DEF IInv, TypeOK
  <2> QED
    BY <1>1, <1>2, <2>2, <2>3 DEF IInv, TypeOK, ConnStep
<1>5. saver[s] = NoSave /\ saveVersion[s] = 0 /\ NoSave.pc = "idle"
  BY <1>1 DEF IInv, Connections, Online, NoSave
<1>6. Connections'
  <2>1. c # NoChar
    BY PersistenceAssumption
  <2>2. \A t \in Connection : t # s => (Online(t)' <=> Online(t))
    BY <1>3 DEF Online
  <2> QED
    BY <1>1, <1>3, <1>5, <2>1, <2>2 DEF IInv, Connections
<1>7. Queues'
  BY <1>1 DEF IInv, Queues
<1>8. ASSUME NEW d \in Character \ excused'
      PROVE  Kept(d)'
  <2>1. d \in Character \ excused /\ Kept(d) /\ d # NoChar
    BY <1>2, PersistenceAssumption DEF IInv
  <2>2. CASE d # c
    <3>1. \A t \in Connection : conn'[t].char = d => conn'[t] = conn[t]
      BY <1>3, <2>2
    <3>2. \A t \in Connection : conn[t].char = d => conn'[t].char = d
      BY <1>1, <1>3, <2>1
    <3> QED
      BY <1>1, <2>1, <3>1, <3>2, Untouched
  <2>3. CASE d = c
    <3>1. \A t \in Connection : conn[t].char # c
      BY <1>2, <2>3
    <3>2. \A t \in Connection : conn'[t].char = c <=> t = s
      BY <1>3, <3>1
    <3> Sure(c)' = Sure(c)
      BY <1>1, SureKept
    <3>3. Agrees(c)' <=> Agrees(c)
      BY <1>1 DEF Agrees, UpToDate
    <3>4. Rows(c)'
      BY <1>1, <2>1, <2>3 DEF Kept, Rows
    <3>5. Final(c)'
      BY <1>1, <1>3, <2>1, <2>3, <3>2, StepsAre DEF Kept, Final, UpToDate
    <3>6. Settled(c)'
      BY <1>1, <2>1, <2>3, <3>1, <3>3 DEF Kept, Settled
    <3>7. Loads(s, c)'
      BY <1>3 DEF Loads, HasRead, UpToDate
    <3>8. Clean(s, c)'
      BY <1>3 DEF Clean, Online
    <3>9. Saves(s, c)'
      BY <1>1, <1>5 DEF Saves
    <3> QED
      BY <2>3, <3>2, <3>4, <3>5, <3>6, <3>7, <3>8, <3>9, KeptByOne
  <2> QED
    BY <2>2, <2>3
<1> QED
  BY <1>4, <1>6, <1>7, <1>8 DEF IInv

\* Without a hash there is nothing in it that is old.
LEMMA CacheExpiresKeeps ==
  ASSUME IInv, NEW c \in Character, CacheExpires(c)
  PROVE  IInv'
<1>1. /\ cache' = [cache EXCEPT ![c] = {}]
      /\ UNCHANGED <<db, pending, finalTasks, final, players, conn, open, mem,
                     saveVersion, saver, newest, excused, failures, trade, drifted>>
  BY DEF CacheExpires
<1>2. /\ cache'[c] = {} /\ \A d \in Character : d # c => cache'[d] = cache[d]
      /\ cache' \in [Character -> SUBSET [CachedPart -> Version]]
  BY <1>1 DEF IInv, TypeOK
<1>3. TypeOK'
  BY <1>1, <1>2 DEF IInv, TypeOK
<1>4. Connections'
  BY <1>1 DEF IInv, Connections, Online
<1>5. Queues'
  BY <1>1 DEF IInv, Queues
<1>6. ASSUME NEW d \in Character \ excused'
      PROVE  Kept(d)'
  <2>1. Kept(d)
    BY <1>1 DEF IInv
  <2>2. CASE d # c
    BY <1>1, <1>2, <2>1, <2>2, Untouched
  <2>3. CASE d = c
    <3> Sure(c)' = Sure(c)
      BY <1>1, SureKept
    <3>1. Agrees(c) => Agrees(c)'
      BY <1>1, <1>2 DEF Agrees, UpToDate
    <3>2. \A s \in Connection : Online(s)' <=> Online(s)
      BY <1>1 DEF Online
    <3>3. Alone(c)' /\ Rows(c)' /\ Final(c)'
      BY <1>1, <2>1, <2>3 DEF Kept, Alone, Rows, Final, UpToDate
    <3>4. Settled(c)'
      BY <1>1, <2>1, <2>3, <3>1, <3>2 DEF Kept, Settled
    <3>5. ASSUME NEW s \in Connection, conn'[s].char = c
          PROVE  Loads(s, c)' /\ Clean(s, c)' /\ Saves(s, c)'
      <4>1. Loads(s, c) /\ Clean(s, c) /\ Saves(s, c)
        BY <1>1, <2>1, <2>3, <3>5 DEF Kept
      <4>2. Loads(s, c)'
        BY <1>1, <4>1 DEF Loads, UpToDate
      <4>3. Clean(s, c)'
        BY <1>1, <3>1, <3>2, <4>1 DEF Clean
      <4>4. Saves(s, c)'
        BY <1>1, <1>2, <4>1 DEF Saves, UpToDate, Restores
      <4> QED
        BY <4>2, <4>3, <4>4
    <3> QED
      BY <2>3, <3>3, <3>4, <3>5 DEF Kept
  <2> QED
    BY <2>2, <2>3
<1> QED
  BY <1>3, <1>4, <1>5, <1>6 DEF IInv

\* A session that is closed early goes on loading.
LEMMA DisconnectEarlyKeeps ==
  ASSUME IInv, NEW s \in Connection, DisconnectEarly(s)
  PROVE  IInv'
<1>1. /\ open' \in [Connection -> BOOLEAN]
      /\ UNCHANGED <<db, cache, pending, finalTasks, final, players, conn, mem,
                     saveVersion, saver, newest, excused, failures, trade, drifted>>
  BY DEF DisconnectEarly, IInv, TypeOK
<1>2. TypeOK' /\ Connections' /\ Queues'
  BY <1>1 DEF IInv, TypeOK, Connections, Queues, Online
<1>3. ASSUME NEW d \in Character \ excused'
      PROVE  Kept(d)'
  <2>1. Kept(d)
    BY <1>1 DEF IInv
  <2> QED
    BY <1>1, <2>1, Untouched
<1> QED
  BY <1>2, <1>3 DEF IInv

\* The session of c is deleted, with the Player, and perhaps a final save submitted.
LEMMA ReleaseKeeps ==
  ASSUME IInv, NEW s \in Connection, Release(s), saver[s] = NoSave,
         NEW c \in Character, conn[s].char = c,
         UNCHANGED <<db, cache, final, saver, newest, excused, failures, trade, drifted>>,
         players' \in SUBSET Character, pending' \in SUBSET Character,
         finalTasks' \in [Character -> Seq(Stored)], Queues',
         \A d \in Character : d # c =>
           finalTasks'[d] = finalTasks[d] /\ (d \in pending' <=> d \in pending),
         c \notin excused =>
           /\ c \in pending' => /\ UpToDate(Head(finalTasks'[c]), c, Part)
                                /\ final[c].pc = "invalidate" => UpToDate(db[c], c, Part)
           /\ c \notin pending' => Agrees(c)
  PROVE  IInv'
<1>1. /\ conn' = [conn EXCEPT ![s] = NoConn] /\ open' = [open EXCEPT ![s] = FALSE]
      /\ mem' = [mem EXCEPT ![s] = Whole(0)]
      /\ saveVersion' = [saveVersion EXCEPT ![s] = 0]
  BY DEF Release
<1>2. /\ conn'[s] = NoConn /\ saveVersion'[s] = 0
      /\ \A t \in Connection : t # s =>
           /\ conn'[t] = conn[t] /\ mem'[t] = mem[t]
           /\ saveVersion'[t] = saveVersion[t]
  BY <1>1 DEF IInv, TypeOK
<1>3. NoConn \in ConnStep /\ NoConn.pc = "idle" /\ NoConn.char = NoChar
  BY DEF NoConn, ConnStep
<1>4. TypeOK'
  <2>1. /\ conn' \in [Connection -> ConnStep] /\ open' \in [Connection -> BOOLEAN]
        /\ mem' \in [Connection -> Stored] /\ saveVersion' \in [Connection -> Nat]
    BY <1>1, <1>3, ZeroIsVersion, WholeIsStored DEF IInv, TypeOK, ConnStep
  <2> QED
    BY <2>1 DEF IInv, TypeOK, ConnStep
<1>5. Connections'
  <2>1. \A t \in Connection : t # s => (Online(t)' <=> Online(t))
    BY <1>2 DEF Online
  <2> QED
    BY <1>2, <1>3, <2>1 DEF IInv, Connections
<1>6. ASSUME NEW d \in Character \ excused'
      PROVE  Kept(d)'
  <2>1. Kept(d) /\ d # NoChar
    BY PersistenceAssumption DEF IInv
  <2>2. CASE d # c
    <3>1. \A t \in Connection : conn'[t].char = d => t # s
      BY <1>2, <1>3, <2>1
    <3>2. \A t \in Connection : conn[t].char = d => conn'[t].char = d
      BY <1>2, <2>2
    <3> QED
      BY <1>2, <2>1, <2>2, <3>1, <3>2, Untouched
  <2>3. CASE d = c
    <3>1. \A t \in Connection : conn'[t].char # c
      BY <1>2, <1>3, <2>1, <2>3 DEF Kept, Alone
    <3> Sure(c)' = Sure(c)
      BY SureKept
    <3>2. Agrees(c)' <=> Agrees(c)
      BY DEF Agrees, UpToDate
    <3>3. Rows(c)'
      BY <2>1, <2>3 DEF Kept, Rows
    <3>4. Final(c)'
      BY <2>3, <3>1 DEF Final, UpToDate
    <3>5. Settled(c)' /\ Alone(c)'
      BY <2>3, <3>1, <3>2 DEF Settled, Alone
    <3> QED
      BY <2>3, <3>1, <3>3, <3>4, <3>5 DEF Kept
  <2> QED
    BY <2>2, <2>3
<1> QED
  BY <1>4, <1>5, <1>6 DEF IInv

\* ProcessAuthResults drops a result: nothing was changed, nothing is saved.
LEMMA RejectAuthResultKeeps ==
  ASSUME IInv, NEW s \in Connection, RejectAuthResult(s)
  PROVE  IInv'
<1> DEFINE c == conn[s].char
<1>1. /\ conn[s].pc \in {"loaded", "failed"} /\ ~Online(s) /\ conn[s].pc # "idle"
      /\ Release(s)
      /\ UNCHANGED <<db, cache, pending, finalTasks, final, players, saver, newest,
                     excused, failures, trade, drifted>>
  BY DEF RejectAuthResult, Online
<1>2. c \in Character /\ saver[s] = NoSave
  BY <1>1, LoadingHasChar DEF IInv, Connections
<1>3. Queues'
  BY <1>1 DEF IInv, Queues
<1>4. ASSUME c \notin excused
      PROVE  /\ c \in pending => /\ UpToDate(Head(finalTasks[c]), c, Part)
                                 /\ final[c].pc = "invalidate" => UpToDate(db[c], c, Part)
             /\ c \notin pending => Agrees(c)
  <2>1. Kept(c)
    BY <1>2, <1>4 DEF IInv
  <2>2. \A t \in Connection : conn[t].char = c => ~Online(t)
    BY <1>1, <2>1 DEF Kept, Alone
  <2> QED
    BY <2>1, <2>2 DEF Kept, Final, Settled
<1>5. /\ players' \in SUBSET Character /\ pending' \in SUBSET Character
      /\ finalTasks' \in [Character -> Seq(Stored)]
  BY <1>1 DEF IInv, TypeOK
<1> HIDE DEF c
<1> QED
  BY <1>1, <1>2, <1>3, <1>4, <1>5, ReleaseKeeps DEF c

\* FinalizePlayer skips the final save only of a Player that is what is stored.
LEMMA FinalizePlayerKeeps ==
  ASSUME IInv, NEW s \in Connection, FinalizePlayer(s)
  PROVE  IInv'
<1> DEFINE c == conn[s].char
<1>1. /\ Online(s) /\ saver[s] = NoSave /\ Release(s)
      /\ players' = players \ {c}
      /\ UNCHANGED <<db, cache, final, saver, newest, excused, failures, trade, drifted>>
  BY DEF FinalizePlayer, Online
<1>2. /\ c \in Character
      /\ c \notin excused => /\ c \notin pending /\ UpToDate(mem[s], c, Part)
                             /\ Clean(s, c)
  BY <1>1, OnlineHas
<1>3. mem[s] \in Stored /\ players' \in SUBSET Character
  BY <1>1 DEF IInv, TypeOK
<1>4. CASE pending' = pending /\ finalTasks' = finalTasks
           /\ (c \notin pending => saveVersion[s] = 0)
  <2>1. Queues' /\ pending' \in SUBSET Character
        /\ finalTasks' \in [Character -> Seq(Stored)]
    BY <1>1, <1>4 DEF IInv, Queues, TypeOK
  <2>2. c \notin excused => c \notin pending' /\ Agrees(c)
    BY <1>1, <1>2, <1>4 DEF Clean
  <2> HIDE DEF c
  <2> QED
    BY <1>1, <1>2, <1>3, <1>4, <2>1, <2>2, ReleaseKeeps DEF c
<1>5. CASE /\ c \notin pending /\ pending' = pending \cup {c}
           /\ finalTasks' = [finalTasks EXCEPT ![c] = Append(@, mem[s])]
  <2>1. finalTasks[c] \in Seq(Stored) /\ Len(finalTasks[c]) = 0 /\ final[c] = FirstAttempt
    BY <1>2, <1>5 DEF IInv, TypeOK, Queues
  <2>2. /\ Append(finalTasks[c], mem[s]) \in Seq(Stored)
        /\ Len(Append(finalTasks[c], mem[s])) = 1
        /\ Head(Append(finalTasks[c], mem[s])) = mem[s]
    BY <1>3, <2>1
  <2>3. /\ finalTasks'[c] = Append(finalTasks[c], mem[s])
        /\ \A d \in Character : d # c => finalTasks'[d] = finalTasks[d]
    BY <1>2, <1>5 DEF IInv, TypeOK
  <2>4. finalTasks' \in [Character -> Seq(Stored)] /\ pending' \in SUBSET Character
    BY <1>2, <1>5, <2>2 DEF IInv, TypeOK
  <2>5. Queues'
    BY <1>1, <1>5, <2>2, <2>3 DEF IInv, Queues
  <2>6. final[c].pc = "save"
    BY <2>1 DEF FirstAttempt
  <2> HIDE DEF c
  <2> QED
    BY <1>1, <1>2, <1>3, <1>5, <2>2, <2>3, <2>4, <2>5, <2>6, ReleaseKeeps DEF c
<1> QED
  BY <1>4, <1>5 DEF FinalizePlayer, SubmitFinalPlayerDataSave

-------------------------------------------------------------------------------
(* The final save.                                                           *)

\* A character whose final save runs has no connection that was admitted.
LEMMA FinalHas ==
  ASSUME IInv, NEW c \in Character, finalTasks[c] # <<>>
  PROVE  /\ c \in pending /\ Len(finalTasks[c]) = 1
         /\ Head(finalTasks[c]) \in Stored /\ Tail(finalTasks[c]) = <<>>
         /\ finalTasks[c] \in Seq(Stored)
         /\ newest[c] \in Stored
         /\ c \notin excused =>
              /\ UpToDate(Head(finalTasks[c]), c, Part) /\ Kept(c) /\ Rows(c)
              /\ final[c].pc = "invalidate" => UpToDate(db[c], c, Part)
              /\ \A s \in Connection : conn[s].char = c => conn[s].pc \notin Admitted
<1>1. finalTasks[c] \in Seq(Stored) /\ newest[c] \in Stored
  BY DEF IInv, TypeOK
<1>2. Len(finalTasks[c]) # 0
  BY <1>1, EmptySeq
<1>3. c \in pending /\ Len(finalTasks[c]) = 1
  BY <1>2 DEF IInv, Queues
<1>4. Head(finalTasks[c]) \in Stored
  BY <1>1, HeadTailProperties
<1>5. Tail(finalTasks[c]) \in Seq(Stored) /\ Len(Tail(finalTasks[c])) = 0
  BY <1>1, <1>3, HeadTailProperties
<1>6. Tail(finalTasks[c]) = <<>>
  BY <1>5, EmptySeq
<1>7. c \notin excused => Kept(c)
  BY DEF IInv
<1> QED
  BY <1>1, <1>3, <1>4, <1>6, <1>7 DEF Kept, Final

\* A step of the final save of c: what it may have done to the rows and the hash.
LEMMA FinalKeeps ==
  ASSUME IInv, NEW c \in Character, finalTasks[c] # <<>>,
         NEW row \in Stored, db' = [db EXCEPT ![c] = row],
         NEW hash \in SUBSET cache[c], cache' = [cache EXCEPT ![c] = hash],
         failures' \in 0 .. MaxFailure,
         UNCHANGED <<players, conn, open, mem, saveVersion, saver, newest, trade>>,
         drifted' \subseteq drifted, \A d : d # c => (d \in drifted' <=> d \in drifted),
         excused \subseteq excused', excused' \in SUBSET Character,
         \/ /\ UNCHANGED <<pending, finalTasks>>
            /\ \E n \in 1 .. kMaxSaveAttempts, pc \in {"save", "invalidate"} :
                 final' = [final EXCEPT ![c] = [pc |-> pc, attempt |-> n]]
            /\ c \notin excused' =>
                 /\ \A p \in Part : row[p] <= newest[c][p]
                 /\ StaysUpToDate(Head(finalTasks[c]), c)
                 /\ final'[c].pc = "invalidate" => StaysUpToDate(row, c)
         \/ /\ CompleteFinalPlayerDataSave(c)
            /\ c \notin excused' => StaysUpToDate(row, c) /\ hash = {}
  PROVE  IInv'
<1>1. /\ c \in pending /\ Len(finalTasks[c]) = 1 /\ Tail(finalTasks[c]) = <<>>
      /\ newest[c] \in Stored
      /\ c \notin excused =>
           /\ Kept(c)
           /\ \A s \in Connection : conn[s].char = c => conn[s].pc \notin Admitted
  BY FinalHas
<1>2. /\ db'[c] = row /\ cache'[c] = hash
      /\ \A d \in Character : d # c => db'[d] = db[d] /\ cache'[d] = cache[d]
      /\ db' \in [Character -> Stored]
  BY DEF IInv, TypeOK
<1>3. cache' \in [Character -> SUBSET [CachedPart -> Version]]
  BY DEF IInv, TypeOK
<1>4. /\ pending' \in SUBSET Character /\ finalTasks' \in [Character -> Seq(Stored)]
      /\ final' \in [Character -> [pc : {"save", "invalidate"},
                                   attempt : 1 .. kMaxSaveAttempts]]
      /\ Queues'
      /\ \A d \in Character : d # c =>
           /\ finalTasks'[d] = finalTasks[d] /\ final'[d] = final[d]
           /\ d \in pending' <=> d \in pending
  <2>1. CASE /\ pending' = pending /\ finalTasks' = finalTasks
             /\ \E n \in 1 .. kMaxSaveAttempts, pc \in {"save", "invalidate"} :
                  final' = [final EXCEPT ![c] = [pc |-> pc, attempt |-> n]]
    BY <1>1, <2>1 DEF IInv, TypeOK, Queues
  <2>2. CASE CompleteFinalPlayerDataSave(c)
    <3>1. /\ pending' = pending \ {c} /\ final' = [final EXCEPT ![c] = FirstAttempt]
          /\ finalTasks' = [finalTasks EXCEPT ![c] = <<>>]
      BY <1>1, <2>2 DEF CompleteFinalPlayerDataSave
    <3>2. FirstAttempt \in [pc : {"save", "invalidate"}, attempt : 1 .. kMaxSaveAttempts]
          /\ <<>> \in Seq(Stored) /\ Len(<<>>) = 0
      BY PersistenceAssumption DEF FirstAttempt
    <3>3. /\ finalTasks'[c] = <<>> /\ final'[c] = FirstAttempt
          /\ finalTasks' \in [Character -> Seq(Stored)]
      BY <3>1, <3>2 DEF IInv, TypeOK
    <3>4. pending' \in SUBSET Character
          /\ final' \in [Character -> [pc : {"save", "invalidate"},
                                       attempt : 1 .. kMaxSaveAttempts]]
      BY <3>1, <3>2 DEF IInv, TypeOK
    <3>5. \A d \in Character : d # c =>
            /\ finalTasks'[d] = finalTasks[d] /\ final'[d] = final[d]
            /\ d \in pending' <=> d \in pending
      BY <3>1 DEF IInv, TypeOK
    <3>6. Queues'
      <4> SUFFICES ASSUME NEW d \in Character
                   PROVE  /\ Len(finalTasks'[d]) = IF d \in pending' THEN 1 ELSE 0
                          /\ d \notin pending' => final'[d] = FirstAttempt
        BY DEF Queues
      <4>1. CASE d = c
        BY <3>1, <3>2, <3>3, <4>1
      <4>2. CASE d # c
        BY <3>5, <4>2 DEF IInv, Queues
      <4> QED
        BY <4>1, <4>2
    <3> QED
      BY <3>3, <3>4, <3>5, <3>6
  <2> QED
    BY <2>1, <2>2
<1>5. TypeOK'
  BY <1>2, <1>3, <1>4 DEF IInv, TypeOK
<1>6. Connections'
  BY DEF IInv, Connections, Online
<1>7. ASSUME NEW d \in Character \ excused'
      PROVE  Kept(d)'
  <2>1. d \notin excused /\ Kept(d)
    BY DEF IInv
  <2>2. CASE d # c
    BY <1>2, <1>4, <2>1, <2>2, Untouched
  <2>3. CASE d = c
    <3>1. \A s \in Connection : conn[s].char = c => conn[s].pc \notin Admitted
      BY <1>1, <2>1, <2>3
    <3>2. \A s \in Connection : conn[s].char = c => ~Online(s)' /\ ~Online(s)
      BY <3>1, StepsAre DEF Online
    <3>3. Alone(c)'
      BY <2>1, <2>3 DEF Kept, Alone
    <3>4. StaysUpToDate(row, c) => UpToDate(db[c], c, Part)'
      BY <1>2 DEF UpToDate, StaysUpToDate
    <3>5. Rows(c)'
      BY <1>2, <2>3 DEF Rows, StaysUpToDate
    <3>6. Final(c)'
      <4>1. CASE CompleteFinalPlayerDataSave(c)
        BY <4>1 DEF Final, CompleteFinalPlayerDataSave
      <4>2. CASE ~CompleteFinalPlayerDataSave(c)
        <5>1. /\ finalTasks' = finalTasks
              /\ StaysUpToDate(Head(finalTasks[c]), c)
              /\ final'[c].pc = "invalidate" => StaysUpToDate(row, c)
          BY <2>3, <4>2
        <5>2. UpToDate(Head(finalTasks[c]), c, Part)'
          BY <5>1 DEF UpToDate, StaysUpToDate
        <5> QED
          BY <3>1, <3>4, <5>1, <5>2 DEF Final
      <4> QED
        BY <4>1, <4>2
    <3>7. Settled(c)'
      BY <1>1, <1>2, <2>3, <3>4 DEF Settled, Agrees
    <3>8. ASSUME NEW s \in Connection, conn'[s].char = c
          PROVE  Loads(s, c)' /\ Clean(s, c)' /\ Saves(s, c)'
      <4>1. conn'[s].pc \notin Admitted /\ ~Online(s)' /\ ~Online(s)
        BY <3>1, <3>2, <3>8
      <4>2. HasRead(conn'[s].pc) = {}
        BY <4>1, StepsAre DEF HasRead
      <4>3. saver'[s].pc = "idle"
        BY <4>1 DEF IInv, Connections, NoSave
      <4> QED
        BY <4>1, <4>2, <4>3 DEF Loads, Clean, Saves, UpToDate
    <3> QED
      BY <2>3, <3>3, <3>5, <3>6, <3>7, <3>8 DEF Kept
  <2> QED
    BY <2>2, <2>3
<1> QED
  BY <1>4, <1>5, <1>6, <1>7 DEF IInv

\* What an attempt that failed leaves.
LEMMA AttemptFailsIs ==
  ASSUME IInv, NEW c \in Character, AttemptFails(c)
  PROVE  /\ excused \subseteq excused' /\ excused' \in SUBSET Character
         /\ \/ /\ UNCHANGED <<pending, finalTasks>>
               /\ \E n \in 1 .. kMaxSaveAttempts :
                    final' = [final EXCEPT ![c] = [pc |-> "save", attempt |-> n]]
               /\ final'[c].pc = "save"
            \/ CompleteFinalPlayerDataSave(c) /\ c \in excused'
<1>1. final[c].attempt \in 1 .. kMaxSaveAttempts /\ excused \in SUBSET Character
  BY DEF IInv, TypeOK
<1>2. CASE /\ final[c].attempt < kMaxSaveAttempts
           /\ final' = [final EXCEPT ![c] = [pc |-> "save",
                                             attempt |-> final[c].attempt + 1]]
           /\ UNCHANGED <<pending, finalTasks, excused>>
  <2>1. final[c].attempt + 1 \in 1 .. kMaxSaveAttempts
    BY <1>1, <1>2, PersistenceAssumption
  <2>2. final'[c] = [pc |-> "save", attempt |-> final[c].attempt + 1]
    BY <1>2 DEF IInv, TypeOK
  <2>3. \E n \in 1 .. kMaxSaveAttempts :
          final' = [final EXCEPT ![c] = [pc |-> "save", attempt |-> n]]
    BY <1>2, <2>1
  <2>4. final'[c].pc = "save" /\ excused' = excused
    BY <1>2, <2>2
  <2>5. pending' = pending /\ finalTasks' = finalTasks
    BY <1>2
  <2> QED
    BY <1>1, <2>3, <2>4, <2>5
<1>3. CASE CompleteFinalPlayerDataSave(c) /\ excused' = excused \cup {c}
  BY <1>1, <1>3
<1> QED
  BY <1>2, <1>3 DEF AttemptFails

\* FinalPlayerDataSaveTask writes the newest state, once or several times.
LEMMA FinalCommitKeeps ==
  ASSUME IInv, NEW c \in Character, FinalCommit(c)
  PROVE  IInv'
<1> DEFINE data == Head(finalTasks[c])
<1>1. /\ finalTasks[c] # <<>> /\ final[c].pc = "save"
      /\ UNCHANGED <<cache, players, conn, open, mem, saveVersion, saver, newest, trade>>
  BY DEF FinalCommit
<1>2. /\ data \in Stored /\ newest[c] \in Stored
      /\ c \notin excused => UpToDate(data, c, Part) /\ Rows(c)
  BY <1>1, FinalHas
<1>3. /\ db \in [Character -> Stored] /\ db[c] \in Stored /\ excused \in SUBSET Character
      /\ cache = [cache EXCEPT ![c] = cache[c]] /\ cache[c] \in SUBSET cache[c]
      /\ failures \in 0 .. MaxFailure
      /\ final[c].attempt \in 1 .. kMaxSaveAttempts
  BY DEF IInv, TypeOK
<1>4. Commit(c, data) \/ drifted' = drifted
  BY DEF FinalCommit, CommitFails
<1>5. ASSUME c \notin excused, NEW row \in {db[c], data}
      PROVE  \A p \in Part : row[p] <= newest[c][p]
  BY <1>2, <1>5 DEF Rows, UpToDate
<1>6. /\ drifted' \subseteq drifted
      /\ \A d : d # c => (d \in drifted' <=> d \in drifted)
  BY <1>4, CommitHeals
<1>7. c \notin excused => StaysUpToDate(data, c)
  <2> HIDE DEF data
  <2> QED
    BY <1>1, <1>2, <1>4, CommitKeepsUpToDate
<1>8. CASE /\ Commit(c, data) /\ final' = [final EXCEPT ![c].pc = "invalidate"]
           /\ UNCHANGED <<pending, finalTasks, excused, failures>>
  <2>1. db' = [db EXCEPT ![c] = data]
    BY <1>2, <1>3, <1>8, CommitIs
  <2>2. final' = [final EXCEPT ![c] = [pc |-> "invalidate", attempt |-> final[c].attempt]]
    <3>1. [final[c] EXCEPT !.pc = "invalidate"]
            = [pc |-> "invalidate", attempt |-> final[c].attempt]
      BY DEF IInv, TypeOK
    <3> QED
      BY <1>8, <3>1
  <2>3. \E n \in 1 .. kMaxSaveAttempts, pc \in {"save", "invalidate"} :
          final' = [final EXCEPT ![c] = [pc |-> pc, attempt |-> n]]
    BY <1>3, <2>2
  <2>4. c \notin excused' =>
          (\A p \in Part : data[p] <= newest[c][p]) /\ StaysUpToDate(data, c)
    BY <1>5, <1>7, <1>8
  <2>5. StaysUpToDate(data, c) => StaysUpToDate(Head(finalTasks[c]), c)
    OBVIOUS
  <2> HIDE DEF data
  <2> QED
    BY <1>1, <1>2, <1>3, <1>5, <1>6, <1>8, <2>1, <2>3, <2>4, <2>5, FinalKeeps
<1>9. CASE CommitFails(c, data) /\ AttemptFails(c)
  <2>1. PICK row \in {db[c], data} : db' = [db EXCEPT ![c] = row]
    <3>1. CASE db' = db
      BY <1>3, <3>1
    <3>2. CASE Commit(c, data)
      BY <1>2, <1>3, <3>2, CommitIs
    <3> QED
      BY <1>9, <3>1, <3>2 DEF CommitFails
  <2>2. failures' \in 0 .. MaxFailure
    BY <1>9, FailIsCounted DEF CommitFails
  <2>3. row \in Stored
    BY <1>2, <1>3
  <2>4. /\ excused \subseteq excused' /\ excused' \in SUBSET Character
        /\ \/ /\ UNCHANGED <<pending, finalTasks>>
              /\ \E n \in 1 .. kMaxSaveAttempts, pc \in {"save", "invalidate"} :
                   final' = [final EXCEPT ![c] = [pc |-> pc, attempt |-> n]]
              /\ final'[c].pc = "save"
           \/ CompleteFinalPlayerDataSave(c) /\ c \in excused'
    BY <1>9, AttemptFailsIs
  <2>5. c \notin excused' =>
          /\ \A p \in Part : row[p] <= newest[c][p]
          /\ StaysUpToDate(Head(finalTasks[c]), c)
    BY <1>5, <1>7, <2>4
  <2> HIDE DEF data
  <2> QED
    BY <1>1, <1>3, <1>6, <2>1, <2>2, <2>3, <2>4, <2>5, FinalKeeps
<1> QED
  BY <1>8, <1>9 DEF FinalCommit

\* Then no hash is older than the rows, and the character may log in again.
LEMMA FinalInvalidateKeeps ==
  ASSUME IInv, NEW c \in Character, FinalInvalidate(c)
  PROVE  IInv'
<1>1. /\ finalTasks[c] # <<>> /\ final[c].pc = "invalidate"
      /\ UNCHANGED <<db, players, conn, open, mem, saveVersion, saver, newest, trade,
                     drifted>>
  BY DEF FinalInvalidate
<1> Sure(c)' = Sure(c)
  BY <1>1, SureKept
<1>2. c \notin excused => /\ Rows(c) /\ StaysUpToDate(db[c], c)
                         /\ StaysUpToDate(Head(finalTasks[c]), c)
  BY <1>1, FinalHas DEF UpToDate, StaysUpToDate
<1>3. /\ db[c] \in Stored /\ excused \in SUBSET Character
      /\ db = [db EXCEPT ![c] = db[c]] /\ cache = [cache EXCEPT ![c] = cache[c]]
      /\ failures \in 0 .. MaxFailure
  BY DEF IInv, TypeOK
<1>4. CASE /\ InvalidatePlayerCache(c) /\ CompleteFinalPlayerDataSave(c)
           /\ UNCHANGED <<excused, failures>>
  <2>1. cache' = [cache EXCEPT ![c] = {}] /\ {} \in SUBSET cache[c]
    BY <1>4 DEF InvalidatePlayerCache
  <2> QED
    BY <1>1, <1>2, <1>3, <1>4, <2>1, FinalKeeps
<1>5. CASE InvalidateFails(c) /\ AttemptFails(c)
  <2>1. PICK hash \in SUBSET cache[c] : cache' = [cache EXCEPT ![c] = hash]
    <3>1. CASE cache' = cache
      BY <1>3, <3>1
    <3>2. CASE cache' = [cache EXCEPT ![c] = {}]
      BY <3>2
    <3> QED
      BY <1>5, <3>1, <3>2 DEF InvalidateFails, InvalidatePlayerCache
  <2>2. failures' \in 0 .. MaxFailure
    BY <1>5, FailIsCounted DEF InvalidateFails
  <2>3. /\ excused \subseteq excused' /\ excused' \in SUBSET Character
        /\ \/ /\ UNCHANGED <<pending, finalTasks>>
              /\ \E n \in 1 .. kMaxSaveAttempts, pc \in {"save", "invalidate"} :
                   final' = [final EXCEPT ![c] = [pc |-> pc, attempt |-> n]]
              /\ final'[c].pc = "save"
           \/ CompleteFinalPlayerDataSave(c) /\ c \in excused'
    BY <1>5, AttemptFailsIs
  <2>4. c \notin excused' => /\ \A p \in Part : db[c][p] <= newest[c][p]
                            /\ StaysUpToDate(Head(finalTasks[c]), c)
    BY <1>2, <2>3 DEF Rows
  <2> QED
    BY <1>1, <1>3, <2>1, <2>2, <2>3, <2>4, FinalKeeps
<1> QED
  BY <1>4, <1>5 DEF FinalInvalidate

-------------------------------------------------------------------------------
(* Trades.                                                                   *)

\* What only opens or ends a trade reaches nothing that is saved.
LEMMA TradeOnlyKeeps ==
  ASSUME IInv, trade' \in [Character -> {"none", "open", "load"}],
         UNCHANGED <<db, cache, pending, finalTasks, final, players, conn, open, mem,
                     saveVersion, saver, newest, excused, failures, drifted>>
  PROVE  IInv'
<1>1. TypeOK' /\ Connections' /\ Queues'
  BY DEF IInv, TypeOK, Connections, Queues, Online
<1>2. ASSUME NEW d \in Character \ excused'
      PROVE  Kept(d)'
  <2>1. Kept(d)
    BY DEF IInv
  <2> QED
    BY <2>1, Untouched
<1> QED
  BY <1>1, <1>2 DEF IInv

\* HandleTradeAccept, and every end of a trade without a change of the inventory.
LEMMA TradeEndsKeeps ==
  ASSUME IInv, (\E s \in Connection : TradeAccept(s)) \/ (\E c \in Character : TradeEnds(c))
  PROVE  IInv'
BY TradeOnlyKeeps DEF TradeAccept, TradeEnds, IInv, TypeOK

\* A trade changes the inventory of c, in the rows or in memory: it is promised no
\* more, and every other part is what it was.
LEMMA DriftKeeps ==
  ASSUME IInv, NEW c \in Character, Drifts(c),
         NEW row \in Stored, db' = [db EXCEPT ![c] = row],
         \A p \in Part : p # "inventory" => row[p] = db[c][p],
         row["inventory"] \in {db[c]["inventory"], newest[c]["inventory"] + 1},
         mem' \in [Connection -> Stored],
         \A t \in Connection : mem'[t] # mem[t] =>
           /\ conn[t].char = c /\ mem'[t]["inventory"] = newest[c]["inventory"] + 1
           /\ \A p \in Part : p # "inventory" => mem'[t][p] = mem[t][p],
         trade' \in [Character -> {"none", "open", "load"}],
         UNCHANGED <<cache, pending, finalTasks, final, players, conn, open, saveVersion,
                     saver, excused, failures>>
  PROVE  IInv'
<1> DEFINE next == [newest[c] EXCEPT !["inventory"] = @ + 1]
<1>1. /\ newest' = [newest EXCEPT ![c] = next] /\ drifted' = drifted \cup {c}
      /\ newest[c]["inventory"] < MaxVersion
  BY DEF Drifts
<1>2. newest \in [Character -> Stored] /\ newest[c] \in Stored /\ db[c] \in Stored
  BY DEF IInv, TypeOK
<1>3. /\ "inventory" \in Part /\ \A p \in CachedPart : p \in Part /\ p # "inventory"
      /\ \A p \in Part : newest[c][p] \in Nat /\ db[c][p] \in Nat
  BY <1>2, PartsAre, StoredInNat
<1>4. newest[c]["inventory"] + 1 \in Version
  BY <1>1, <1>3, PersistenceAssumption DEF Version
<1>5. /\ next \in Stored /\ next["inventory"] = newest[c]["inventory"] + 1
      /\ \A p \in Part : p # "inventory" => next[p] = newest[c][p]
      /\ \A p \in Part : newest[c][p] <= next[p]
  BY <1>2, <1>3, <1>4 DEF Stored
<1> HIDE DEF next
<1>6. /\ newest'[c] = next /\ db'[c] = row
      /\ \A d \in Character : d # c => newest'[d] = newest[d] /\ db'[d] = db[d]
      /\ newest' \in [Character -> Stored] /\ db' \in [Character -> Stored]
  BY <1>1, <1>2, <1>5 DEF IInv, TypeOK
<1>7. TypeOK'
  BY <1>1, <1>6 DEF IInv, TypeOK
<1>8. Connections' /\ Queues'
  BY DEF IInv, Connections, Queues, Online
<1>9. ASSUME NEW d \in Character \ excused'
      PROVE  Kept(d)'
  <2>1. Kept(d) /\ d \in Character
    BY DEF IInv
  <2>2. CASE d # c
    <3>1. \A t \in Connection : conn'[t].char = d => mem'[t] = mem[t]
      BY <2>2
    <3> QED
      BY <1>1, <1>6, <2>1, <2>2, <3>1, Untouched
  <2>3. CASE d = c
    <3>1. Sure(c)' = Part \ {"inventory"} /\ Part \ {"inventory"} \subseteq Sure(c)
      BY <1>1 DEF Sure
    <3>2. ASSUME NEW f \in Stored, NEW P \in SUBSET Part, UpToDate(f, c, P)
          PROVE  \A p \in P : /\ f[p] \in Nat /\ f[p] <= newest[c][p] /\ f[p] <= next[p]
                              /\ p # "inventory" => f[p] = next[p]
      BY <1>3, <1>5, <3>1, <3>2, StoredInNat DEF UpToDate
    <3>3. UpToDate(db[c], c, Part) => UpToDate(db[c], c, Part)'
      <4> SUFFICES ASSUME UpToDate(db[c], c, Part)
                   PROVE  UpToDate(db[c], c, Part)'
        OBVIOUS
      <4>1. \A p \in Part : db[c][p] <= next[p] /\ (p # "inventory" => db[c][p] = next[p])
        BY <1>2, <3>2
      <4>2. \A p \in Part : row[p] <= next[p] /\ (p # "inventory" => row[p] = next[p])
        BY <1>3, <1>5, <4>1
      <4> QED
        BY <1>6, <3>1, <4>2 DEF UpToDate
    <3>4. Agrees(c) => Agrees(c)'
      BY <1>3, <1>5, <1>6, <3>3 DEF Agrees
    <3>5. Rows(c)'
      <4>1. \A p \in Part : db[c][p] <= newest[c][p]
        BY <2>1, <2>3 DEF Kept, Rows
      <4>2. \A p \in Part : row[p] <= next[p]
        BY <1>3, <1>5, <4>1
      <4> QED
        BY <1>6, <4>2 DEF Rows
    <3>6. Final(c)'
      <4> SUFFICES ASSUME c \in pending
                   PROVE  /\ UpToDate(Head(finalTasks[c]), c, Part)'
                          /\ final'[c].pc = "invalidate" => UpToDate(db[c], c, Part)'
                          /\ \A t \in Connection :
                               conn'[t].char = c => conn'[t].pc \notin Admitted
        BY DEF Final
      <4>1. /\ UpToDate(Head(finalTasks[c]), c, Part)
            /\ final[c].pc = "invalidate" => UpToDate(db[c], c, Part)
            /\ \A t \in Connection : conn[t].char = c => conn[t].pc \notin Admitted
        BY <2>1, <2>3 DEF Kept, Final
      <4>2. Head(finalTasks[c]) \in Stored
        <5>1. finalTasks[c] \in Seq(Stored) /\ Len(finalTasks[c]) = 1
          BY DEF IInv, TypeOK, Queues
        <5> QED
          BY <5>1
      <4>3. UpToDate(Head(finalTasks[c]), c, Part)'
        <5> DEFINE f == Head(finalTasks[c])
        <5>1. \A p \in Part : f[p] <= next[p] /\ (p # "inventory" => f[p] = next[p])
          BY <3>2, <4>1, <4>2
        <5>2. finalTasks' = finalTasks
          OBVIOUS
        <5> QED
          BY <1>6, <3>1, <5>1, <5>2 DEF UpToDate
      <4> QED
        BY <3>3, <4>1, <4>3
    <3>7. Settled(c)' /\ Alone(c)'
      BY <2>1, <2>3, <3>4 DEF Kept, Settled, Alone, Online
    <3>8. ASSUME NEW t \in Connection, conn'[t].char = c
          PROVE  Loads(t, c)' /\ Clean(t, c)' /\ Saves(t, c)'
      <4>1. Loads(t, c) /\ Clean(t, c) /\ Saves(t, c)
        BY <2>1, <2>3, <3>8 DEF Kept
      <4>2. HasRead(conn[t].pc) \subseteq Part /\ mem[t] \in Stored
            /\ saver[t].data \in Stored
        BY PartsAre DEF HasRead, IInv, TypeOK
      <4>3. \A p \in HasRead(conn[t].pc) :
              mem[t][p] <= next[p] /\ (p # "inventory" => mem[t][p] = next[p])
        BY <3>2, <4>1, <4>2 DEF Loads
      <4>4. \A p \in HasRead(conn[t].pc) :
              mem'[t][p] <= next[p] /\ (p # "inventory" => mem'[t][p] = next[p])
        <5>1. CASE mem'[t] = mem[t]
          BY <4>3, <5>1
        <5>2. CASE mem'[t] # mem[t]
          <6>1. next["inventory"] <= next["inventory"]
            BY <1>3, <1>5
          <6> QED
            BY <1>5, <4>2, <4>3, <5>2, <6>1
        <5> QED
          BY <5>1, <5>2
      <4>5. Loads(t, c)'
        BY <1>6, <3>1, <4>4 DEF Loads, UpToDate
      <4>6. Clean(t, c)'
        BY <3>4, <4>1 DEF Clean, Online
      <4>7. Saves(t, c)'
        <5> SUFFICES ASSUME saver[t].pc # "idle"
                     PROVE  Saves(t, c)'
          BY DEF Saves
        <5>1. /\ \A p \in Part : saver[t].data[p] \in Nat
                                 /\ saver[t].data[p] <= newest[c][p]
              /\ \A p \in Part \ {"inventory"} : db[c][p] <= saver[t].data[p]
              /\ saver[t].version # 0 /\ saver[t].version <= saveVersion[t]
              /\ saver[t].version = saveVersion[t] => UpToDate(saver[t].data, c, Part)
              /\ saver[t].pc # "save" =>
                   \A p \in Part \ {"inventory"} : db[c][p] = saver[t].data[p]
              /\ saver[t].pc = "mark" => cache[c] = {}
          BY <3>1, <4>1, <4>2, StoredInNat DEF Saves
        <5>2. /\ \A p \in Part : saver[t].data[p] <= next[p]
              /\ saver[t].data["inventory"] # next["inventory"]
          BY <1>3, <1>5, <5>1
        <5>3. UpToDate(saver[t].data, c, Part) => UpToDate(saver[t].data, c, Part)'
          BY <1>6, <3>1, <3>2, <4>2 DEF UpToDate
        <5> QED
          BY <1>6, <3>1, <5>1, <5>2, <5>3 DEF Saves, Restores
      <4> QED
        BY <4>5, <4>6, <4>7
    <3> QED
      BY <2>3, <3>5, <3>6, <3>7, <3>8 DEF Kept
  <2> QED
    BY <2>2, <2>3
<1> QED
  BY <1>7, <1>8, <1>9 DEF IInv

\* Execute changes the rows of a character, whatever its Player has.
LEMMA TradeCommitsKeeps ==
  ASSUME IInv, NEW c \in Character, TradeCommits(c)
  PROVE  IInv'
<1> DEFINE row == [db[c] EXCEPT !["inventory"] = newest[c]["inventory"] + 1]
<1>1. /\ Drifts(c) /\ db' = [db EXCEPT ![c] = row]
      /\ trade' \in [Character -> {"none", "open", "load"}]
      /\ UNCHANGED <<cache, pending, finalTasks, final, players, conn, open, mem,
                     saveVersion, saver, excused, failures>>
  BY DEF TradeCommits, IInv, TypeOK
<1>2. /\ mem' \in [Connection -> Stored] /\ db[c] \in Stored /\ newest[c] \in Stored
      /\ \A t \in Connection : mem'[t] = mem[t]
  BY <1>1 DEF IInv, TypeOK
<1>3. newest[c]["inventory"] + 1 \in Version /\ "inventory" \in Part
  BY <1>1, <1>2, StoredInNat, PartsAre, PersistenceAssumption DEF Drifts, Version
<1>4. /\ row \in Stored /\ row["inventory"] = newest[c]["inventory"] + 1
      /\ \A p \in Part : p # "inventory" => row[p] = db[c][p]
  BY <1>2, <1>3 DEF Stored
<1> HIDE DEF row
<1> QED
  BY <1>1, <1>2, <1>4, DriftKeeps

\* LoadInventory changes the inventory of a Player, whatever the rows are.
LEMMA TradeLoadsKeeps ==
  ASSUME IInv, NEW s \in Connection, TradeLoads(s)
  PROVE  IInv'
<1> DEFINE c == conn[s].char
           data == [mem[s] EXCEPT !["inventory"] = newest[c]["inventory"] + 1]
<1>1. /\ Online(s) /\ Drifts(c) /\ mem' = [mem EXCEPT ![s] = data]
      /\ trade' \in [Character -> {"none", "open", "load"}]
      /\ UNCHANGED <<db, cache, pending, finalTasks, final, players, conn, open,
                     saveVersion, saver, excused, failures>>
  BY DEF TradeLoads, IInv, TypeOK
<1>2. /\ c \in Character /\ mem[s] \in Stored /\ db[c] \in Stored /\ newest[c] \in Stored
      /\ db' = [db EXCEPT ![c] = db[c]]
  BY <1>1, OnlineHas DEF IInv, TypeOK
<1>3. newest[c]["inventory"] + 1 \in Version /\ "inventory" \in Part
  BY <1>1, <1>2, StoredInNat, PartsAre, PersistenceAssumption DEF Drifts, Version
<1>4. /\ data \in Stored /\ data["inventory"] = newest[c]["inventory"] + 1
      /\ \A p \in Part : p # "inventory" => data[p] = mem[s][p]
  BY <1>2, <1>3 DEF Stored
<1>5. /\ mem' \in [Connection -> Stored] /\ mem'[s] = data
      /\ \A t \in Connection : t # s => mem'[t] = mem[t]
  BY <1>1, <1>4 DEF IInv, TypeOK
<1>6. \A t \in Connection : mem'[t] # mem[t] =>
        /\ conn[t].char = c /\ mem'[t]["inventory"] = newest[c]["inventory"] + 1
        /\ \A p \in Part : p # "inventory" => mem'[t][p] = mem[t][p]
  BY <1>4, <1>5
<1> HIDE DEF data, c
<1> QED
  BY <1>1, <1>2, <1>5, <1>6, DriftKeeps

-------------------------------------------------------------------------------
(* A crash, and the theorems.                                                *)

\* After a crash the newest state is what was committed.
LEMMA CrashKeeps ==
  ASSUME IInv, Crash
  PROVE  IInv'
<1>1. /\ newest' = db
      /\ excused' = excused \cup {c \in Character : Outdated(c)}
      /\ pending' = {} /\ finalTasks' = [c \in Character |-> <<>>]
      /\ final' = [c \in Character |-> FirstAttempt] /\ players' = {}
      /\ conn' = [s \in Connection |-> NoConn]
      /\ open' = [s \in Connection |-> FALSE]
      /\ mem' = [s \in Connection |-> Whole(0)]
      /\ saveVersion' = [s \in Connection |-> 0]
      /\ saver' = [s \in Connection |-> NoSave]
      /\ db' = db /\ cache' = cache /\ drifted' = {}
      /\ trade' = [c \in Character |-> "none"]
  BY DEF Crash
<1>2. /\ db \in [Character -> Stored]
      /\ cache \in [Character -> SUBSET [CachedPart -> Version]]
      /\ excused \in SUBSET Character
  BY DEF IInv, TypeOK
<1>3. failures' \in 0 .. MaxFailure
  BY FailIsCounted DEF Crash
<1>4. /\ FirstAttempt \in [pc : {"save", "invalidate"}, attempt : 1 .. kMaxSaveAttempts]
      /\ NoConn \in ConnStep /\ NoConn.pc = "idle" /\ NoConn.char = NoChar
      /\ NoSave \in SaveStep /\ NoSave.pc = "idle" /\ Whole(0) \in Stored
      /\ <<>> \in Seq(Stored) /\ Len(<<>>) = 0
  BY ZeroIsVersion, WholeIsStored, PersistenceAssumption
     DEF FirstAttempt, NoConn, ConnStep, NoSave, SaveStep
<1>5. /\ newest' \in [Character -> Stored]
      /\ trade' \in [Character -> {"none", "open", "load"}] /\ drifted' \in SUBSET Character
  BY <1>1, <1>2
<1>6. TypeOK'
  <2>1. excused' \in SUBSET Character
    BY <1>1, <1>2
  <2>2. /\ finalTasks' \in [Character -> Seq(Stored)]
        /\ final' \in [Character -> [pc : {"save", "invalidate"},
                                     attempt : 1 .. kMaxSaveAttempts]]
        /\ conn' \in [Connection -> ConnStep] /\ saver' \in [Connection -> SaveStep]
        /\ mem' \in [Connection -> Stored] /\ open' \in [Connection -> BOOLEAN]
        /\ saveVersion' \in [Connection -> Nat]
    BY <1>1, <1>4
  <2> QED
    BY <1>1, <1>2, <1>3, <1>5, <2>1, <2>2 DEF TypeOK, ConnStep, SaveStep
<1>7. Connections' /\ Queues'
  BY <1>1, <1>4 DEF Connections, Queues
<1>8. ASSUME NEW c \in Character \ excused'
      PROVE  Kept(c)'
  <2>1. ~Outdated(c) /\ db[c] \in Stored
    BY <1>1, <1>2
  <2>2. \A p \in Part : db'[c][p] = newest'[c][p] /\ db'[c][p] <= newest'[c][p]
    BY <1>1, <2>1, StoredInNat
  <2>3. \A e \in cache'[c] : \A p \in CachedPart : e[p] = newest'[c][p]
    BY <1>1, <2>1 DEF Outdated
  <2>4. Agrees(c)' /\ Rows(c)'
    BY <2>2, <2>3 DEF Agrees, UpToDate, Rows
  <2>5. \A s \in Connection : conn'[s].char # c
    BY <1>1, <1>4, PersistenceAssumption
  <2>6. Alone(c)' /\ Final(c)' /\ Settled(c)'
    BY <1>1, <2>4, <2>5 DEF Alone, Final, Settled
  <2> QED
    BY <2>4, <2>5, <2>6 DEF Kept
<1> QED
  BY <1>6, <1>7, <1>8 DEF IInv

\* At first nobody plays and everything is version 0.
LEMMA InitIInv == Init => IInv
<1> SUFFICES ASSUME Init
             PROVE  IInv
  OBVIOUS
<1>1. /\ FirstAttempt \in [pc : {"save", "invalidate"}, attempt : 1 .. kMaxSaveAttempts]
      /\ NoConn \in ConnStep /\ NoConn.pc = "idle" /\ NoConn.char = NoChar
      /\ NoSave \in SaveStep /\ NoSave.pc = "idle" /\ Whole(0) \in Stored
      /\ <<>> \in Seq(Stored) /\ Len(<<>>) = 0 /\ (\A p \in Part : Whole(0)[p] = 0)
      /\ 0 \in Version /\ 0 \in 0 .. MaxFailure
  BY ZeroIsVersion, WholeIsStored, PersistenceAssumption, PartsAre
     DEF FirstAttempt, NoConn, ConnStep, NoSave, SaveStep
<1>2. TypeOK
  BY <1>1 DEF Init, TypeOK, ConnStep, SaveStep
<1>3. Connections /\ Queues
  BY <1>1 DEF Init, Connections, Queues
<1>4. ASSUME NEW c \in Character
      PROVE  Kept(c)
  <2>1. \A s \in Connection : conn[s].char # c
    BY <1>1, PersistenceAssumption DEF Init
  <2>2. Agrees(c) /\ Rows(c)
    BY <1>1 DEF Init, Agrees, Rows, UpToDate
  <2>3. Alone(c) /\ Final(c) /\ Settled(c)
    BY <2>1, <2>2 DEF Alone, Final, Settled, Init
  <2> QED
    BY <2>1, <2>2, <2>3 DEF Kept
<1> QED
  BY <1>2, <1>3, <1>4 DEF IInv

\* Every step keeps the invariant.
LEMMA NextIInv == IInv /\ [Next]_vars => IInv'
<1> SUFFICES ASSUME IInv, [Next]_vars
             PROVE  IInv'
  OBVIOUS
<1>1. CASE Crash
  BY <1>1, CrashKeeps
<1>2. CASE \E s \in Connection, c \in Character : StartAuth(s, c)
  BY <1>2, StartAuthKeeps
<1>3. CASE \E s \in Connection :
             CheckPending(s) \/ ReadCache(s) \/ FillCache(s) \/ LoadFails(s)
  BY <1>3, CheckPendingKeeps, ReadCacheKeeps, FillCacheKeeps, LoadFailsKeeps
<1>4. CASE \E s \in Connection :
             LoadPlayerInfo(s) \/ LoadPlayerStat(s) \/ LoadInventory(s)
             \/ LoadSlotSetting(s)
  BY <1>4, QueriesKeep
<1>5. CASE \E s \in Connection :
             DisconnectEarly(s) \/ RejectAuthResult(s) \/ PublishPlayer(s)
  BY <1>5, DisconnectEarlyKeeps, RejectAuthResultKeeps, PublishPlayerKeeps
<1>6. CASE \E s \in Connection : Change(s) \/ Disconnect(s) \/ FinalizePlayer(s)
  BY <1>6, ChangeKeeps, DisconnectKeeps, FinalizePlayerKeeps
<1>7. CASE \E s \in Connection :
             SaveSnapshot(s) \/ SaveCommit(s) \/ SaveInvalidate(s) \/ SaveMark(s)
  BY <1>7, SaveSnapshotKeeps, SaveCommitKeeps, SaveInvalidateKeeps, SaveMarkKeeps
<1>8. CASE \E c \in Character : CacheExpires(c) \/ FinalCommit(c) \/ FinalInvalidate(c)
  BY <1>8, CacheExpiresKeeps, FinalCommitKeeps, FinalInvalidateKeeps
<1>9. CASE \/ \E s \in Connection : TradeAccept(s) \/ TradeLoads(s)
           \/ \E c \in Character : TradeCommits(c) \/ TradeEnds(c)
  BY <1>9, TradeEndsKeeps, TradeCommitsKeeps, TradeLoadsKeeps
<1>10. CASE UNCHANGED vars
  <2>1. TypeOK' /\ Connections' /\ Queues'
    BY <1>10 DEF vars, IInv, TypeOK, Connections, Queues, Online
  <2>2. ASSUME NEW c \in Character \ excused'
        PROVE  Kept(c)'
    <3>1. Kept(c)
      BY <1>10 DEF vars, IInv
    <3> QED
      BY <1>10, <3>1, Untouched DEF vars
  <2> QED
    BY <2>1, <2>2 DEF IInv
<1> QED
  BY <1>1, <1>2, <1>3, <1>4, <1>5, <1>6, <1>7, <1>8, <1>9, <1>10 DEF Next

\* What the invariant says of a Player that is online.
LEMMA OnlineIsNewest == IInv => LoadsNewest
BY OnlineHas DEF LoadsNewest, UpToDate, Sure

\* What it says of one without changes.
LEMMA UnchangedIsStored == IInv => CleanIsStored
<1> SUFFICES ASSUME IInv
             PROVE  CleanIsStored
  OBVIOUS
<1>1. TypeOK
  BY DEF IInv
<1>2. ASSUME NEW s \in Connection, Online(s), conn[s].char \notin excused,
             saveVersion[s] = 0
      PROVE  \A p \in Sure(conn[s].char) : db[conn[s].char][p] = mem[s][p]
  BY <1>2, OnlineHas DEF Clean, Agrees, UpToDate, Sure
<1> QED
  BY <1>1, <1>2 DEF CleanIsStored

\* The promised parts of the rows only get newer.
NoRegress == \A c \in Character : c \notin excused =>
  \A p \in Sure(c) : db'[c][p] >= db[c][p]

\* Every save has a snapshot that is not older than the rows.
LEMMA NextNoRegress == IInv /\ [Next]_vars => NoRegress
<1> SUFFICES ASSUME IInv, [Next]_vars
             PROVE  NoRegress
  OBVIOUS
<1>1. db \in [Character -> Stored] /\ \A v \in Version : v \in Nat
  BY ZeroIsVersion DEF IInv, TypeOK
<1>2. CASE db' = db
  BY <1>1, <1>2 DEF NoRegress, Stored, Sure
<1>3. ASSUME NEW c \in Character, NEW data \in Stored, Commit(c, data),
             c \notin excused => \A p \in Sure(c) : db[c][p] <= data[p]
      PROVE  NoRegress
  <2>1. db' = [db EXCEPT ![c] = data]
    BY <1>1, <1>3, CommitIs
  <2> SUFFICES ASSUME NEW d \in Character, d \notin excused
               PROVE  \A p \in Sure(d) : db'[d][p] >= db[d][p]
    BY DEF NoRegress
  <2>2. CASE d # c
    BY <1>1, <2>1, <2>2 DEF Stored, Sure
  <2>3. CASE d = c
    <3>1. \A p \in Sure(c) : db[c][p] \in Nat /\ data[p] \in Nat
      BY <1>1, StoredInNat DEF Sure
    <3> QED
      BY <1>1, <1>3, <2>1, <2>3, <3>1
  <2> QED
    BY <2>2, <2>3
<1>4. CASE \E s \in Connection : SaveCommit(s)
  <2>1. PICK s \in Connection : SaveCommit(s)
    BY <1>4
  <2>2. saver[s].pc = "save" /\ Online(s)
    BY <2>1, SaverIsOnline DEF SaveCommit
  <2>3. /\ conn[s].char \in Character /\ saver[s].data \in Stored
        /\ conn[s].char \notin excused => Rows(conn[s].char) /\ Saves(s, conn[s].char)
    BY <2>2, OnlineHas
  <2>4. db' = db \/ Commit(conn[s].char, saver[s].data)
    BY <2>1 DEF SaveCommit, CommitFails
  <2> QED
    BY <1>2, <1>3, <2>2, <2>3, <2>4 DEF Saves
<1>5. CASE \E c \in Character : FinalCommit(c)
  <2>1. PICK c \in Character : FinalCommit(c)
    BY <1>5
  <2>2. finalTasks[c] # <<>>
    BY <2>1 DEF FinalCommit
  <2>3. /\ Head(finalTasks[c]) \in Stored
        /\ c \notin excused => Rows(c) /\ UpToDate(Head(finalTasks[c]), c, Part)
    BY <2>2, FinalHas
  <2>4. c \notin excused => \A p \in Sure(c) : db[c][p] <= Head(finalTasks[c])[p]
    BY <2>3 DEF Rows, UpToDate, Sure
  <2>5. db' = db \/ Commit(c, Head(finalTasks[c]))
    BY <2>1 DEF FinalCommit, CommitFails
  <2> QED
    BY <1>2, <1>3, <2>3, <2>4, <2>5
<1>6. CASE \E s \in Connection :
             \/ CheckPending(s) \/ ReadCache(s) \/ LoadPlayerInfo(s)
             \/ LoadPlayerStat(s) \/ FillCache(s) \/ LoadInventory(s)
             \/ LoadSlotSetting(s) \/ LoadFails(s)
  BY <1>2, <1>6 DEF CheckPending, ReadCache, LoadPlayerInfo, LoadPlayerStat, FillCache,
       LoadInventory, LoadSlotSetting, LoadFails, Read
<1>7. CASE \E s \in Connection :
             \/ DisconnectEarly(s) \/ RejectAuthResult(s) \/ PublishPlayer(s)
             \/ Change(s) \/ Disconnect(s) \/ FinalizePlayer(s)
             \/ SaveSnapshot(s) \/ SaveInvalidate(s) \/ SaveMark(s)
  BY <1>2, <1>7 DEF DisconnectEarly, RejectAuthResult, PublishPlayer, Change, Disconnect,
       FinalizePlayer, SaveSnapshot, SaveInvalidate, SaveMark
<1>8. ASSUME NEW c \in Character, TradeCommits(c)
      PROVE  NoRegress
  <2>1. /\ db' = [db EXCEPT ![c]["inventory"] = newest[c]["inventory"] + 1]
        /\ newest[c] \in Stored /\ db[c] \in Stored
    BY <1>8 DEF TradeCommits, IInv, TypeOK
  <2>2. c \notin excused => db[c]["inventory"] <= newest[c]["inventory"] + 1
    <3>1. c \notin excused => db[c]["inventory"] <= newest[c]["inventory"]
      BY PartsAre DEF IInv, Kept, Rows
    <3> QED
      BY <2>1, <3>1, PartsAre, StoredInNat
  <2>3. ASSUME NEW d \in Character, d \notin excused, NEW p \in Part
        PROVE  db'[d][p] >= db[d][p]
    <3>1. db[d][p] \in Nat /\ newest[c]["inventory"] \in Nat
      BY <1>1, <2>1, PartsAre, StoredInNat
    <3>2. CASE d = c /\ p = "inventory"
      BY <1>1, <2>1, <2>2, <2>3, <3>1, <3>2
    <3>3. CASE d # c \/ p # "inventory"
      BY <1>1, <2>1, <3>1, <3>3
    <3> QED
      BY <3>2, <3>3
  <2> QED
    BY <2>3 DEF NoRegress, Sure
<1>9. CASE \/ Crash \/ UNCHANGED vars
           \/ \E s \in Connection, c \in Character : StartAuth(s, c)
           \/ \E c \in Character : CacheExpires(c) \/ FinalInvalidate(c) \/ TradeEnds(c)
           \/ \E s \in Connection : TradeAccept(s) \/ TradeLoads(s)
  BY <1>2, <1>9 DEF Crash, vars, StartAuth, CacheExpires, FinalInvalidate, TradeEnds,
       TradeAccept, TradeLoads
<1> QED
  BY <1>4, <1>5, <1>6, <1>7, <1>8, <1>9 DEF Next

\* Every Player that is put online has the newest state of its character.
THEOREM LoadedIsNewest == Spec => []LoadsNewest
BY InitIInv, NextIInv, OnlineIsNewest, PTL DEF Spec

\* FinalizePlayer may skip the final save of a Player whose saveVersion is 0.
THEOREM CleanMatchesRows == Spec => []CleanIsStored
BY InitIInv, NextIInv, UnchangedIsStored, PTL DEF Spec

\* No save, periodic, final or repeated, replaces newer rows by older ones.
THEOREM RowsOnlyGetNewer == Spec => StoredNeverRegresses
<1>1. IInv /\ [Next]_vars =>
        [\A c \in Character : c \notin excused =>
           \A p \in Sure(c) : db'[c][p] >= db[c][p]]_vars
  BY NextNoRegress DEF NoRegress
<1> QED
  BY <1>1, InitIInv, NextIInv, PTL DEF Spec, StoredNeverRegresses

-------------------------------------------------------------------------------
(***************************************************************************)
(* ServerLifecycle, for any sessions and tasks: that a channel that has     *)
(* shut down has ended every thread, and has saved every player that was on *)
(* it.                                                                      *)
(***************************************************************************)
\* Run up to the end of GameLoop; StopWorkers after RequestStop; main() after Run.
Early == {"run", "check"}
StartSteps == {"start task", "start auth", "start save", "start map", "start state"}
Serving == StartSteps \cup {"loop", "request"}
Late == {"end signal", "join signal", "shutdown"}

\* What waits for the save pool: the players that are offline and not stored.
Unsaved == arrived \ (online \cup saved)

\* m_running is set by Run only and stays cleared once RequestStop of Run is done.
RunInv ==
  /\ main \notin Serving \cup {"check"} => ~running
  /\ main = "request" /\ request["main"] \in {"unlock", "done"} => ~running
  /\ main \in Serving <=> workersStarted

\* Which threads can run while main is where it is.
ThreadInv ==
  /\ map = "look" => main \in Serving \cup {"map"}
  /\ mapRunning => main \in Serving \cup {"map"}
  /\ state \notin {"none", "exited"} =>
       main \in {"loop", "request", "map", "state"} /\ pool["task"] = "open"

\* A pool that has not begun or has ended is empty, and which those are.
PoolInv ==
  /\ \A p \in Pool : pool[p] \in {"new", "stopped"} => tasks[p] = 0
  /\ main \in Early \cup StartSteps => \A p \in Pool : tasks[p] = 0
  /\ main \in Early => \A p \in Pool : pool[p] = "new"
  /\ main \in {"start auth", "start save", "start map", "start state", "loop"} =>
       pool["task"] = "open"
  /\ main \in {"start save", "start map", "start state", "loop"} => pool["auth"] = "open"
  /\ main \in {"start map", "start state", "loop"} => pool["save"] = "open"
  /\ main \in {"task", "disconnect", "save"} => pool["auth"] = "stopped"
  /\ main \in {"disconnect", "save"} => pool["task"] = "stopped"
  /\ main \in Late => \A p \in Pool : pool[p] \in {"new", "stopped"}

\* Whoever is online can still be saved, and every one who left is saved or waits.
SaveInv ==
  /\ online # {} => /\ pool["save"] = "open"
                    /\ main \in {"loop", "request", "map", "state", "auth", "task", "disconnect"}
  /\ online \subseteq arrived
  /\ saved \subseteq arrived \ online
  /\ IsFiniteSet(arrived)
  /\ tasks["save"] = Cardinality(Unsaved)

ShutdownIInv == LifecycleTypeOK /\ ~rejected /\ RunInv /\ ThreadInv /\ PoolInv /\ SaveInv
-------------------------------------------------------------------------------
\* The order in which StopWorkers and main() stop the server, and its steps.
LEMMA StopOrder ==
  /\ NextStop("workers") = "map" /\ NextStop("map") = "state"
  /\ NextStop("state") = "auth" /\ NextStop("auth") = "task"
  /\ NextStop("task") = "disconnect" /\ NextStop("disconnect") = "save"
  /\ NextStop("save") = "end signal" /\ NextStop("end signal") = "join signal"
  /\ NextStop("join signal") = "shutdown"
  /\ Range(Stopping)
       = {"workers", "map", "state", "auth", "task", "disconnect", "save"} \cup Late
<1>1. /\ DOMAIN Stopping = 1 .. 10
      /\ Stopping[1] = "workers" /\ Stopping[2] = "map" /\ Stopping[3] = "state"
      /\ Stopping[4] = "auth" /\ Stopping[5] = "task" /\ Stopping[6] = "disconnect"
      /\ Stopping[7] = "save" /\ Stopping[8] = "end signal"
      /\ Stopping[9] = "join signal" /\ Stopping[10] = "shutdown"
  BY DEF Stopping
<1>2. \A i \in 1 .. 10 : i \in {1, 2, 3, 4, 5, 6, 7, 8, 9, 10}
  OBVIOUS
<1>3. \A i \in 1 .. 10 : \A j \in 1 .. 10 : Stopping[j] = Stopping[i] => j = i
  BY <1>1, <1>2
<1>4. \A i \in 1 .. 10 : NextStop(Stopping[i]) = Stopping[i + 1]
  <2> TAKE i \in 1 .. 10
  <2>1. (CHOOSE j \in 1 .. 10 : Stopping[j] = Stopping[i]) = i
    BY <1>3
  <2> QED
    BY <1>1, <2>1 DEF NextStop, After
<1>5. Range(Stopping)
       = {"workers", "map", "state", "auth", "task", "disconnect", "save"} \cup Late
  <2> DEFINE Steps == {"workers", "map", "state", "auth", "task", "disconnect", "save"} \cup Late
  <2>1. \A i \in 1 .. 10 : Stopping[i] \in Steps
    BY <1>1, <1>2 DEF Late
  <2>2. \A x \in Steps : \E i \in 1 .. 10 : x = Stopping[i]
    <3>1. /\ 1 \in 1 .. 10 /\ 2 \in 1 .. 10 /\ 3 \in 1 .. 10 /\ 4 \in 1 .. 10
          /\ 5 \in 1 .. 10 /\ 6 \in 1 .. 10 /\ 7 \in 1 .. 10 /\ 8 \in 1 .. 10
          /\ 9 \in 1 .. 10 /\ 10 \in 1 .. 10
      OBVIOUS
    <3> QED
      BY <1>1, <3>1 DEF Late
  <2> QED
    BY <1>1, <2>1, <2>2 DEF Range
<1>6. /\ NextStop(Stopping[1]) = Stopping[2] /\ NextStop(Stopping[2]) = Stopping[3]
      /\ NextStop(Stopping[3]) = Stopping[4] /\ NextStop(Stopping[4]) = Stopping[5]
      /\ NextStop(Stopping[5]) = Stopping[6] /\ NextStop(Stopping[6]) = Stopping[7]
      /\ NextStop(Stopping[7]) = Stopping[8] /\ NextStop(Stopping[8]) = Stopping[9]
      /\ NextStop(Stopping[9]) = Stopping[10]
  BY <1>4
<1> QED
  BY <1>1, <1>5, <1>6

\* The order in which StartWorkers starts it, after which GameLoop begins.
LEMMA StartOrder ==
  /\ Range(Starting) = StartSteps /\ Head(Starting) = "start task"
  /\ main = "start task" => StartNext = "start auth"
  /\ main = "start auth" => StartNext = "start save"
  /\ main = "start save" => StartNext = "start map"
  /\ main = "start map" => StartNext = "start state"
  /\ main = "start state" => StartNext = "loop"
<1>1. /\ DOMAIN Starting = 1 .. 5 /\ Len(Starting) = 5
      /\ Starting[1] = "start task" /\ Starting[2] = "start auth"
      /\ Starting[3] = "start save" /\ Starting[4] = "start map"
      /\ Starting[5] = "start state"
  BY DEF Starting
<1>2. \A i \in 1 .. 5 : i \in {1, 2, 3, 4, 5}
  OBVIOUS
<1>3. \A i \in 1 .. 5 : \A j \in 1 .. 5 : Starting[j] = Starting[i] => j = i
  BY <1>1, <1>2
<1>4. Last(Starting) = "start state" /\ Head(Starting) = "start task"
  BY <1>1 DEF Last, Starting
<1>5. \A i \in 1 .. 4 : main = Starting[i] => StartNext = Starting[i + 1]
  <2> TAKE i \in 1 .. 4
  <2>1. (CHOOSE j \in 1 .. 5 : Starting[j] = Starting[i]) = i
    BY <1>3
  <2>2. Starting[i] # Starting[5]
    BY <1>3
  <2> QED
    BY <1>1, <1>4, <2>1, <2>2 DEF StartNext, After
<1>6. Range(Starting) = StartSteps
  <2> DEFINE Steps == StartSteps
  <2>1. \A i \in 1 .. 5 : Starting[i] \in Steps
    BY <1>1, <1>2 DEF StartSteps
  <2>2. \A x \in Steps : \E i \in 1 .. 5 : x = Starting[i]
    <3>1. 1 \in 1 .. 5 /\ 2 \in 1 .. 5 /\ 3 \in 1 .. 5 /\ 4 \in 1 .. 5 /\ 5 \in 1 .. 5
      OBVIOUS
    <3> QED
      BY <1>1, <3>1 DEF StartSteps
  <2> QED
    BY <1>1, <2>1, <2>2 DEF Range
<1>7. /\ main = Starting[1] => StartNext = Starting[2]
      /\ main = Starting[2] => StartNext = Starting[3]
      /\ main = Starting[3] => StartNext = Starting[4]
      /\ main = Starting[4] => StartNext = Starting[5]
  BY <1>5
<1> QED
  BY <1>1, <1>4, <1>6, <1>7 DEF StartNext

\* Nothing has begun.
LEMMA InitInv == LifecycleInit => ShutdownIInv
<1> SUFFICES ASSUME LifecycleInit PROVE ShutdownIInv
  OBVIOUS
<1>1. Unsaved = {} /\ Cardinality({}) = 0 /\ IsFiniteSet({})
  BY FS_EmptySet DEF LifecycleInit, Unsaved
<1>2. LifecycleTypeOK
  <2>1. 0 \in 0 .. MaxTask
    BY LifecycleAssumption
  <2>2. tasks \in [Pool -> 0 .. MaxTask]
    BY <2>1 DEF LifecycleInit
  <2> QED
    BY <2>2 DEF LifecycleInit, LifecycleTypeOK, Thread
<1> QED
  BY <1>1, <1>2 DEF LifecycleInit, ShutdownIInv, RunInv, ThreadInv, PoolInv, SaveInv, Serving,
                    StartSteps, Early,
                    Late, Pool, Caller

\* A task that is submitted while there is room is counted or recorded as rejected.
LEMMA SubmitType ==
  ASSUME LifecycleTypeOK, NEW p \in Pool, tasks[p] < MaxTask, Submit(p)
  PROVE  tasks' \in [Pool -> 0 .. MaxTask] /\ rejected' \in BOOLEAN
<1>1. CASE tasks' = [tasks EXCEPT ![p] = @ + 1] /\ rejected' = rejected
  <2>1. tasks[p] + 1 \in 0 .. MaxTask
    BY LifecycleAssumption DEF LifecycleTypeOK
  <2> QED
    BY <1>1, <2>1 DEF LifecycleTypeOK
<1>2. CASE rejected' = TRUE /\ tasks' = tasks
  BY <1>2 DEF LifecycleTypeOK
<1> QED
  BY <1>1, <1>2 DEF Submit

\* A pool is one of the three.
LEMMA Pools ==
  /\ {"task", "auth", "save"} \subseteq Pool
  /\ \A p \in Pool : PoolOf(p) = p
  /\ PoolOf("start task") = "task" /\ PoolOf("start auth") = "auth"
  /\ PoolOf("start save") = "save"
BY DEF Pool, PoolOf

\* Every step keeps the types.
LEMMA TypeStep == LifecycleTypeOK /\ [LifecycleNext]_lifecycleVars => LifecycleTypeOK'
<1> SUFFICES ASSUME LifecycleTypeOK, [LifecycleNext]_lifecycleVars PROVE LifecycleTypeOK'
  OBVIOUS
<1> USE DEF LifecycleTypeOK
<1>1. CASE BeginRun
  BY <1>1, StopOrder DEF BeginRun, Late
<1>2. CASE CheckStop
  BY <1>2, StopOrder, StartOrder DEF CheckStop, Late, StartSteps
<1>3. CASE StartWorker
  <2>1. main' \in StartSteps \cup {"loop"}
    BY <1>3, StartOrder DEF StartWorker, StartSteps
  <2>2. pool' \in [Pool -> {"new", "open", "closed", "stuck", "stopped"}]
    BY <1>3, Pools DEF StartWorker
  <2>3. /\ map' \in Thread /\ mapRunning' \in BOOLEAN
        /\ state' \in Thread \cup {"submit", "lock", "wait"}
    BY <1>3 DEF StartWorker, Thread
  <2> QED
    BY <1>3, <2>1, <2>2, <2>3, StartOrder DEF StartWorker
<1>4. CASE StartFails \/ EndGameLoop \/ EpollFails
  <2>1. CASE StartFails
    <3>1. pool' \in [Pool -> {"new", "open", "closed", "stuck", "stopped"}]
      BY <2>1, Pools DEF StartFails
    <3> QED
      BY <2>1, <3>1 DEF StartFails, Caller
  <2>2. CASE EndGameLoop \/ EpollFails
    BY <2>2 DEF EndGameLoop, EpollFails, LeaveGameLoop, Caller
  <2> QED
    BY <1>4, <2>1, <2>2
<1>5. CASE ExchangeWorkersStarted
  BY <1>5, StopOrder DEF ExchangeWorkersStarted, Late
<1>6. CASE StopMap \/ JoinState \/ AllDisconnected \/ EndSignalThread \/ JoinSignalThread
  BY <1>6, StopOrder DEF StopMap, JoinState, AllDisconnected, EndSignalThread, JoinSignalThread,
                         Late
<1>7. CASE StopPool
  <2>1. main' \in {"auth", "task", "disconnect", "save"} \cup Late
    BY <1>7, StopOrder DEF StopPool, Pool, Late
  <2>2. pool' \in [Pool -> {"new", "open", "closed", "stuck", "stopped"}]
    BY <1>7, Pools DEF StopPool
  <2>3. main' \in {"run", "check", "loop", "request"} \cup Range(Starting) \cup Range(Stopping)
    BY <2>1, StopOrder
  <2>4. UNCHANGED <<stopRequested, running, workersStarted, stateMutex, mapRunning, endSignal,
                    request, map, state, tasks, online, arrived, saved, rejected>>
    BY <1>7 DEF StopPool
  <2> QED
    BY <2>2, <2>3, <2>4
<1>8. CASE SignalArrives
  BY <1>8 DEF SignalArrives
<1>15. ASSUME NEW t \in Caller, RequestLock(t) \/ RequestStore(t) \/ RequestNotify(t)
       PROVE  LifecycleTypeOK'
  <2>1. CASE RequestLock(t)
    BY <2>1 DEF RequestLock
  <2>2. CASE RequestStore(t)
    <3>1. request' \in [Caller -> {"none", "lock", "first", "second", "unlock", "done"}]
      BY <2>2 DEF RequestStore
    <3>2. stopRequested' \in BOOLEAN /\ running' \in BOOLEAN
      BY <2>2 DEF RequestStore, Store
    <3>3. UNCHANGED <<workersStarted, stateMutex, mapRunning, endSignal, main, map, state,
                      pool, tasks, online, arrived, saved, rejected>>
      BY <2>2 DEF RequestStore
    <3> QED
      BY <3>1, <3>2, <3>3
  <2>3. CASE RequestNotify(t)
    BY <2>3 DEF RequestNotify, Thread
  <2> QED
    BY <1>15, <2>1, <2>2, <2>3
<1>9. ASSUME NEW p \in Pool, GameLoopSubmit(p)
      PROVE  LifecycleTypeOK'
  BY <1>9, SubmitType DEF GameLoopSubmit
<1>10. ASSUME NEW p \in Pool, Execute(p)
       PROVE  LifecycleTypeOK'
  BY <1>10, LifecycleAssumption DEF Execute
<1>11. ASSUME NEW s \in Session, GameLoopAuth(s) \/ OnDisconnect(s)
       PROVE  LifecycleTypeOK'
  <2>1. CASE GameLoopAuth(s)
    BY <2>1 DEF GameLoopAuth
  <2>2. CASE OnDisconnect(s)
    BY <2>2, SubmitType, Pools DEF OnDisconnect
  <2> QED
    BY <1>11, <2>1, <2>2
<1>12. CASE MapExits \/ StateLooks \/ StateWaits \/ StateTimesOut
  BY <1>12 DEF MapExits, StateLooks, StateWaits, StateTimesOut, Thread
<1>13. CASE StateSubmits
  BY <1>13, SubmitType, Pools DEF StateSubmits
<1>14. CASE UNCHANGED lifecycleVars
  BY <1>14 DEF lifecycleVars
<1> QED
  BY <1>1, <1>2, <1>3, <1>4, <1>5, <1>6, <1>7, <1>8, <1>9, <1>10, <1>11, <1>12, <1>13, <1>14, <1>15
     DEF LifecycleNext

\* Every step keeps what is known of m_running and m_workersStarted.
LEMMA RunStep == ShutdownIInv /\ [LifecycleNext]_lifecycleVars => RunInv'
<1> SUFFICES ASSUME ShutdownIInv, [LifecycleNext]_lifecycleVars PROVE RunInv'
  OBVIOUS
<1> USE DEF ShutdownIInv, RunInv, Serving, StartSteps
<1>1. CASE BeginRun
  BY <1>1 DEF BeginRun
<1>2. CASE CheckStop
  <2>1. CASE StopWasRequested
    <3>1. main' = "end signal" /\ running' = FALSE /\ UNCHANGED workersStarted
      BY <1>2, <2>1 DEF CheckStop
    <3>2. main = "check"
      BY <1>2 DEF CheckStop
    <3> QED
      BY <3>1, <3>2
  <2>2. CASE ~StopWasRequested
    BY <1>2, <2>2, StartOrder DEF CheckStop
  <2> QED
    BY <2>1, <2>2
<1>3. CASE StartWorker
  BY <1>3, StartOrder DEF StartWorker
<1>4. CASE StartFails
  BY <1>4, StartOrder DEF StartFails, LifecycleTypeOK, Caller
<1>5. CASE EndGameLoop
  BY <1>5 DEF EndGameLoop, LeaveGameLoop, LifecycleTypeOK, Caller
<1>6. CASE EpollFails
  BY <1>6 DEF EpollFails, LeaveGameLoop, LifecycleTypeOK, Caller
<1>7. CASE ExchangeWorkersStarted
  BY <1>7, StopOrder DEF ExchangeWorkersStarted
<1>8. CASE StopMap
  BY <1>8, StopOrder DEF StopMap
<1>9. CASE JoinState
  BY <1>9, StopOrder DEF JoinState
<1>10. CASE StopPool
  BY <1>10, StopOrder DEF StopPool, Pool
<1>11. CASE AllDisconnected
  BY <1>11, StopOrder DEF AllDisconnected
<1>12. CASE EndSignalThread
  BY <1>12, StopOrder DEF EndSignalThread
<1>13. CASE JoinSignalThread
  BY <1>13, StopOrder DEF JoinSignalThread
<1>14. CASE SignalArrives
  BY <1>14 DEF SignalArrives, LifecycleTypeOK, Caller
<1>15. ASSUME NEW t \in Caller, RequestLock(t) PROVE RunInv'
  BY <1>15 DEF RequestLock, LifecycleTypeOK, Caller
<1>16. ASSUME NEW t \in Caller, RequestStore(t) PROVE RunInv'
  BY <1>16 DEF RequestStore, Store, LifecycleTypeOK, Caller
<1>17. ASSUME NEW t \in Caller, RequestNotify(t) PROVE RunInv'
  BY <1>17 DEF RequestNotify, LifecycleTypeOK, Caller
<1>18. ASSUME NEW p \in Pool, GameLoopSubmit(p) PROVE RunInv'
  BY <1>18 DEF GameLoopSubmit
<1>19. ASSUME NEW p \in Pool, Execute(p) PROVE RunInv'
  BY <1>19 DEF Execute
<1>20. ASSUME NEW s \in Session, GameLoopAuth(s) PROVE RunInv'
  BY <1>20 DEF GameLoopAuth
<1>21. ASSUME NEW s \in Session, OnDisconnect(s) PROVE RunInv'
  BY <1>21 DEF OnDisconnect
<1>22. CASE MapExits
  BY <1>22 DEF MapExits
<1>23. CASE StateLooks
  BY <1>23 DEF StateLooks
<1>24. CASE StateSubmits
  BY <1>24 DEF StateSubmits
<1>25. CASE StateWaits
  BY <1>25 DEF StateWaits
<1>26. CASE StateTimesOut
  BY <1>26 DEF StateTimesOut
<1>27. CASE UNCHANGED lifecycleVars
  BY <1>27 DEF lifecycleVars
<1> QED
  BY <1>1, <1>2, <1>3, <1>4, <1>5, <1>6, <1>7, <1>8, <1>9, <1>10, <1>11, <1>12, <1>13, <1>14,
     <1>15, <1>16, <1>17, <1>18, <1>19, <1>20, <1>21, <1>22, <1>23, <1>24, <1>25, <1>26, <1>27
     DEF LifecycleNext

\* Every step keeps what is known of the map thread and the state update thread.
LEMMA ThreadStep == ShutdownIInv /\ [LifecycleNext]_lifecycleVars => ThreadInv'
<1> SUFFICES ASSUME ShutdownIInv, [LifecycleNext]_lifecycleVars PROVE ThreadInv'
  OBVIOUS
<1> USE DEF ShutdownIInv, ThreadInv, Serving, StartSteps
<1>1. CASE BeginRun
  BY <1>1 DEF BeginRun
<1>2. CASE CheckStop
  BY <1>2, StartOrder DEF CheckStop
<1>3. CASE StartWorker
  BY <1>3, StartOrder, Pools DEF StartWorker, PoolInv, Early, LifecycleTypeOK
<1>4. CASE StartFails
  BY <1>4, StartOrder DEF StartFails
<1>5. CASE EndGameLoop
  BY <1>5 DEF EndGameLoop, LeaveGameLoop
<1>6. CASE EpollFails
  BY <1>6 DEF EpollFails, LeaveGameLoop
<1>7. CASE ExchangeWorkersStarted
  BY <1>7, StopOrder DEF ExchangeWorkersStarted, RunInv
<1>8. CASE StopMap
  <2>1. CASE mapRunning' = FALSE /\ main' = main
    BY <1>8, <2>1 DEF StopMap
  <2>2. CASE ~mapRunning /\ main' = "state"
    BY <1>8, <2>2 DEF StopMap
  <2> QED
    BY <1>8, <2>1, <2>2, StopOrder DEF StopMap
<1>9. CASE JoinState
  BY <1>9, StopOrder DEF JoinState
<1>10. CASE StopPool
  BY <1>10, StopOrder DEF StopPool, Pool
<1>11. CASE AllDisconnected
  BY <1>11, StopOrder DEF AllDisconnected
<1>12. CASE EndSignalThread
  BY <1>12, StopOrder DEF EndSignalThread
<1>13. CASE JoinSignalThread
  BY <1>13, StopOrder DEF JoinSignalThread
<1>14. CASE SignalArrives
  BY <1>14 DEF SignalArrives
<1>15. ASSUME NEW t \in Caller, RequestLock(t) PROVE ThreadInv'
  BY <1>15 DEF RequestLock
<1>16. ASSUME NEW t \in Caller, RequestStore(t) PROVE ThreadInv'
  BY <1>16 DEF RequestStore
<1>17. ASSUME NEW t \in Caller, RequestNotify(t) PROVE ThreadInv'
  BY <1>17 DEF RequestNotify
<1>18. ASSUME NEW p \in Pool, GameLoopSubmit(p) PROVE ThreadInv'
  BY <1>18 DEF GameLoopSubmit
<1>19. ASSUME NEW p \in Pool, Execute(p) PROVE ThreadInv'
  BY <1>19 DEF Execute
<1>20. ASSUME NEW s \in Session, GameLoopAuth(s) PROVE ThreadInv'
  BY <1>20 DEF GameLoopAuth
<1>21. ASSUME NEW s \in Session, OnDisconnect(s) PROVE ThreadInv'
  BY <1>21 DEF OnDisconnect
<1>22. CASE MapExits
  BY <1>22 DEF MapExits
<1>23. CASE StateLooks
  BY <1>23 DEF StateLooks
<1>24. CASE StateSubmits
  BY <1>24 DEF StateSubmits
<1>25. CASE StateWaits
  BY <1>25 DEF StateWaits
<1>26. CASE StateTimesOut
  BY <1>26 DEF StateTimesOut
<1>27. CASE UNCHANGED lifecycleVars
  BY <1>27 DEF lifecycleVars
<1> QED
  BY <1>1, <1>2, <1>3, <1>4, <1>5, <1>6, <1>7, <1>8, <1>9, <1>10, <1>11, <1>12, <1>13, <1>14,
     <1>15, <1>16, <1>17, <1>18, <1>19, <1>20, <1>21, <1>22, <1>23, <1>24, <1>25, <1>26, <1>27
     DEF LifecycleNext

\* A task is submitted to a pool that is open: nothing is rejected, and a pool
\* that is not open keeps what it has.
LEMMA SubmitsToOpen ==
  ASSUME ShutdownIInv, [LifecycleNext]_lifecycleVars
  PROVE  ~rejected' /\ \A p \in Pool : pool[p] # "open" => tasks'[p] <= tasks[p]
<1> USE DEF ShutdownIInv
<1> DEFINE Accepted == ~rejected' /\ \A p \in Pool : pool[p] # "open" => tasks'[p] <= tasks[p]
<1>1. ASSUME NEW q \in Pool, pool[q] = "open", Submit(q) PROVE Accepted
  BY <1>1 DEF Submit, LifecycleTypeOK
<1>2. ASSUME NEW q \in Pool, GameLoopSubmit(q) PROVE Accepted
  BY <1>1, <1>2 DEF GameLoopSubmit, PoolInv
<1>3. ASSUME NEW s \in Session, OnDisconnect(s) PROVE Accepted
  BY <1>1, <1>3, Pools DEF OnDisconnect, SaveInv
<1>4. CASE StateSubmits
  BY <1>1, <1>4, Pools DEF StateSubmits, ThreadInv
<1>5. ASSUME NEW q \in Pool, Execute(q) PROVE Accepted
  BY <1>5, LifecycleAssumption DEF Execute, LifecycleTypeOK
<1>6. CASE rejected' = rejected /\ tasks' = tasks
  BY <1>6, LifecycleAssumption DEF LifecycleTypeOK
<1> QED
  BY <1>2, <1>3, <1>4, <1>5, <1>6
     DEF LifecycleNext, BeginRun, CheckStop, StartWorker, StartFails, EndGameLoop, EpollFails,
         LeaveGameLoop,
         ExchangeWorkersStarted, StopMap, JoinState, StopPool, AllDisconnected, EndSignalThread,
         JoinSignalThread, SignalArrives, RequestLock, RequestStore, RequestNotify, GameLoopAuth,
         MapExits, StateLooks, StateWaits, StateTimesOut, lifecycleVars

\* Every step keeps what is known of the pools.
LEMMA PoolStep == ShutdownIInv /\ [LifecycleNext]_lifecycleVars => PoolInv'
<1> SUFFICES ASSUME ShutdownIInv, [LifecycleNext]_lifecycleVars PROVE PoolInv'
  OBVIOUS
<1>28. \A p \in Pool : pool[p] # "open" => tasks'[p] <= tasks[p]
  BY SubmitsToOpen
<1>29. \A p \in Pool : tasks[p] \in Nat /\ tasks'[p] \in Nat
  BY TypeStep, LifecycleAssumption DEF ShutdownIInv, LifecycleTypeOK
<1>30. \A p \in Pool : pool[p] \in {"new", "stopped"} => tasks'[p] = 0
  <2> SUFFICES ASSUME NEW p \in Pool, pool[p] \in {"new", "stopped"} PROVE tasks'[p] = 0
    OBVIOUS
  <2>1. tasks[p] = 0
    BY DEF ShutdownIInv, PoolInv
  <2>2. tasks'[p] <= 0 /\ tasks'[p] \in Nat
    BY <1>28, <1>29, <2>1
  <2> QED
    BY <2>2
<1>31. \A p \in Pool : Execute(p) => tasks[p] # 0
  BY <1>29 DEF Execute
<1> USE DEF ShutdownIInv, PoolInv, Early, StartSteps, Late
<1>1. CASE BeginRun
  BY <1>1 DEF BeginRun, RunInv, Serving
<1>2. CASE CheckStop
  BY <1>2, StartOrder DEF CheckStop
<1>3. CASE StartWorker
  <2>1. pool \in [Pool -> {"new", "open", "closed", "stuck", "stopped"}]
    BY DEF LifecycleTypeOK
  <2>2. CASE main \in {"start task", "start auth", "start save"}
    BY <1>3, <2>1, <2>2, StartOrder, Pools DEF StartWorker, Pool
  <2>3. CASE main \in {"start map", "start state"}
    BY <1>3, <2>3, StartOrder DEF StartWorker
  <2> QED
    BY <1>3, <2>2, <2>3, StartOrder DEF StartWorker
<1>4. CASE StartFails
  <2>1. /\ main' = "request" /\ tasks' = tasks
        /\ \A p \in Pool : pool'[p] \in {"new", "stopped"} => pool[p] = pool'[p]
    BY <1>4, Pools DEF StartFails, LifecycleTypeOK
  <2> QED
    BY <2>1
<1>5. CASE EndGameLoop
  BY <1>5 DEF EndGameLoop, LeaveGameLoop
<1>6. CASE EpollFails
  BY <1>6 DEF EpollFails, LeaveGameLoop
<1>7. CASE ExchangeWorkersStarted
  BY <1>7, StopOrder DEF ExchangeWorkersStarted, RunInv, Serving
<1>8. CASE StopMap
  BY <1>8, StopOrder DEF StopMap
<1>9. CASE JoinState
  BY <1>9, StopOrder DEF JoinState
<1>10. CASE StopPool
  <2>1. pool \in [Pool -> {"new", "open", "closed", "stuck", "stopped"}]
    BY DEF LifecycleTypeOK
  <2>2. PoolOf(main) = main
    BY <1>10, Pools DEF StopPool
  <2>3. CASE /\ \/ pool' = [pool EXCEPT ![main] = "closed"]
                \/ pool' = [pool EXCEPT ![main] = "stuck"]
             /\ main' = main /\ tasks' = tasks
    BY <1>10, <2>1, <2>3 DEF StopPool, Pool
  <2>4. CASE /\ pool' = [pool EXCEPT ![main] = "stopped"] /\ main' = NextStop(main)
             /\ tasks[main] = 0 /\ tasks' = tasks
    BY <1>10, <2>1, <2>4, StopOrder DEF StopPool, Pool
  <2> QED
    BY <1>10, <2>2, <2>3, <2>4 DEF StopPool
<1>11. CASE AllDisconnected
  BY <1>11, StopOrder DEF AllDisconnected
<1>12. CASE EndSignalThread
  BY <1>12, StopOrder DEF EndSignalThread
<1>13. CASE JoinSignalThread
  BY <1>13, StopOrder DEF JoinSignalThread
<1>14. CASE SignalArrives
  BY <1>14 DEF SignalArrives
<1>15. ASSUME NEW t \in Caller, RequestLock(t) PROVE PoolInv'
  BY <1>15 DEF RequestLock
<1>16. ASSUME NEW t \in Caller, RequestStore(t) PROVE PoolInv'
  BY <1>16 DEF RequestStore
<1>17. ASSUME NEW t \in Caller, RequestNotify(t) PROVE PoolInv'
  BY <1>17 DEF RequestNotify
<1>18. ASSUME NEW p \in Pool, GameLoopSubmit(p) PROVE PoolInv'
  BY <1>18, <1>30 DEF GameLoopSubmit
<1>19. ASSUME NEW p \in Pool, Execute(p) PROVE PoolInv'
  <2>1. \A q \in Pool : tasks[q] = 0 => tasks'[q] = 0
    <3>1. \A q \in Pool : q # p => tasks'[q] = tasks[q]
      BY <1>19 DEF Execute, LifecycleTypeOK
    <3>2. tasks[p] # 0
      BY <1>19, <1>31
    <3> QED
      BY <3>1, <3>2
  <2> QED
    BY <1>19, <2>1 DEF Execute
<1>20. ASSUME NEW s \in Session, GameLoopAuth(s) PROVE PoolInv'
  BY <1>20 DEF GameLoopAuth
<1>21. ASSUME NEW s \in Session, OnDisconnect(s) PROVE PoolInv'
  BY <1>21, <1>30 DEF OnDisconnect
<1>22. CASE MapExits
  BY <1>22 DEF MapExits
<1>23. CASE StateLooks
  BY <1>23 DEF StateLooks
<1>24. CASE StateSubmits
  <2>2. main \in {"loop", "request", "map", "state"}
    BY <1>24 DEF StateSubmits, ThreadInv
  <2> QED
    BY <1>24, <1>30, <2>2 DEF StateSubmits
<1>25. CASE StateWaits
  BY <1>25 DEF StateWaits
<1>26. CASE StateTimesOut
  BY <1>26 DEF StateTimesOut
<1>27. CASE UNCHANGED lifecycleVars
  BY <1>27 DEF lifecycleVars
<1> QED
  BY <1>1, <1>2, <1>3, <1>4, <1>5, <1>6, <1>7, <1>8, <1>9, <1>10, <1>11, <1>12, <1>13, <1>14,
     <1>15, <1>16, <1>17, <1>18, <1>19, <1>20, <1>21, <1>22, <1>23, <1>24, <1>25, <1>26, <1>27
     DEF LifecycleNext

\* Who is online or waits for a save is a finite set as long as those who came are.
LEMMA UnsavedFinite ==
  ASSUME SaveInv
  PROVE  /\ \A s \in online : IsFiniteSet(Unsaved \cup {s}) /\ s \notin Unsaved
         /\ \A s \in online : Cardinality(Unsaved \cup {s}) = Cardinality(Unsaved) + 1
         /\ \A s \in Unsaved : Cardinality(Unsaved \ {s}) = Cardinality(Unsaved) - 1
         /\ Cardinality(Unsaved) \in Nat
<1>1. IsFiniteSet(Unsaved)
  BY FS_Subset DEF SaveInv, Unsaved
<1> QED
  BY <1>1, FS_AddElement, FS_RemoveElement, FS_CardinalityType DEF Unsaved

\* Every step keeps the count of the players that wait for their last save.
LEMMA ShutdownSaveStep == ShutdownIInv /\ [LifecycleNext]_lifecycleVars => SaveInv'
<1> SUFFICES ASSUME ShutdownIInv, [LifecycleNext]_lifecycleVars PROVE SaveInv'
  OBVIOUS
<1> USE DEF ShutdownIInv
<1>1. CASE BeginRun
  <2>1. Unsaved' = Unsaved /\ online' = online /\ arrived' = arrived /\ saved' = saved
    BY <1>1 DEF BeginRun, Unsaved
  <2>2. tasks'["save"] = tasks["save"]
    BY <1>1, Pools DEF BeginRun, Submit, LifecycleTypeOK
  <2>3. online # {} => /\ pool'["save"] = "open"
                       /\ main' \in {"loop", "request", "map", "state", "auth", "task",
                          "disconnect"}
    BY <1>1 DEF BeginRun, SaveInv
  <2> QED
    BY <2>1, <2>2, <2>3 DEF SaveInv
<1>2. CASE CheckStop
  <2>1. Unsaved' = Unsaved /\ online' = online /\ arrived' = arrived /\ saved' = saved
    BY <1>2 DEF CheckStop, Unsaved
  <2>2. tasks'["save"] = tasks["save"]
    BY <1>2, Pools DEF CheckStop, Submit, LifecycleTypeOK
  <2>3. online # {} => /\ pool'["save"] = "open"
                       /\ main' \in {"loop", "request", "map", "state", "auth", "task",
                          "disconnect"}
    BY <1>2, StartOrder DEF CheckStop, SaveInv
  <2> QED
    BY <2>1, <2>2, <2>3 DEF SaveInv
<1>3. CASE StartWorker
  <2>1. Unsaved' = Unsaved /\ online' = online /\ arrived' = arrived /\ saved' = saved
    BY <1>3 DEF StartWorker, Unsaved
  <2>2. tasks'["save"] = tasks["save"]
    BY <1>3, Pools DEF StartWorker, Submit, LifecycleTypeOK
  <2>3. online # {} => /\ pool'["save"] = "open"
                       /\ main' \in {"loop", "request", "map", "state", "auth", "task",
                          "disconnect"}
    BY <1>3, StartOrder DEF StartWorker, SaveInv, StartSteps
  <2> QED
    BY <2>1, <2>2, <2>3 DEF SaveInv
<1>4. CASE StartFails
  <2>1. Unsaved' = Unsaved /\ online' = online /\ arrived' = arrived /\ saved' = saved
    BY <1>4 DEF StartFails, Unsaved
  <2>2. tasks'["save"] = tasks["save"]
    BY <1>4, Pools DEF StartFails, Submit, LifecycleTypeOK
  <2>3. online # {} => /\ pool'["save"] = "open"
                       /\ main' \in {"loop", "request", "map", "state", "auth", "task",
                          "disconnect"}
    BY <1>4, StartOrder DEF StartFails, SaveInv, StartSteps
  <2> QED
    BY <2>1, <2>2, <2>3 DEF SaveInv
<1>5. CASE EndGameLoop
  <2>1. Unsaved' = Unsaved /\ online' = online /\ arrived' = arrived /\ saved' = saved
    BY <1>5 DEF EndGameLoop, LeaveGameLoop, Unsaved
  <2>2. tasks'["save"] = tasks["save"]
    BY <1>5, Pools DEF EndGameLoop, LeaveGameLoop, Submit, LifecycleTypeOK
  <2>3. online # {} => /\ pool'["save"] = "open"
                       /\ main' \in {"loop", "request", "map", "state", "auth", "task",
                          "disconnect"}
    BY <1>5 DEF EndGameLoop, LeaveGameLoop, SaveInv
  <2> QED
    BY <2>1, <2>2, <2>3 DEF SaveInv
<1>6. CASE EpollFails
  <2>1. Unsaved' = Unsaved /\ online' = online /\ arrived' = arrived /\ saved' = saved
    BY <1>6 DEF EpollFails, LeaveGameLoop, Unsaved
  <2>2. tasks'["save"] = tasks["save"]
    BY <1>6, Pools DEF EpollFails, LeaveGameLoop, Submit, LifecycleTypeOK
  <2>3. online # {} => /\ pool'["save"] = "open"
                       /\ main' \in {"loop", "request", "map", "state", "auth", "task",
                          "disconnect"}
    BY <1>6 DEF EpollFails, LeaveGameLoop, SaveInv
  <2> QED
    BY <2>1, <2>2, <2>3 DEF SaveInv
<1>7. CASE ExchangeWorkersStarted
  <2>1. Unsaved' = Unsaved /\ online' = online /\ arrived' = arrived /\ saved' = saved
    BY <1>7 DEF ExchangeWorkersStarted, Unsaved
  <2>2. tasks'["save"] = tasks["save"]
    BY <1>7, Pools DEF ExchangeWorkersStarted, Submit, LifecycleTypeOK
  <2>3. online # {} => /\ pool'["save"] = "open"
                       /\ main' \in {"loop", "request", "map", "state", "auth", "task",
                          "disconnect"}
    <3>1. main = "request" /\ workersStarted
      BY <1>7 DEF ExchangeWorkersStarted, RunInv, Serving
    <3>2. main' = "map" /\ pool' = pool
      BY <1>7, <3>1, StopOrder DEF ExchangeWorkersStarted
    <3> QED
      BY <3>1, <3>2 DEF SaveInv
  <2> QED
    BY <2>1, <2>2, <2>3 DEF SaveInv
<1>8. CASE StopMap
  <2>1. Unsaved' = Unsaved /\ online' = online /\ arrived' = arrived /\ saved' = saved
    BY <1>8 DEF StopMap, Unsaved
  <2>2. tasks'["save"] = tasks["save"]
    BY <1>8, Pools DEF StopMap, Submit, LifecycleTypeOK
  <2>3. online # {} => /\ pool'["save"] = "open"
                       /\ main' \in {"loop", "request", "map", "state", "auth", "task",
                          "disconnect"}
    BY <1>8, StopOrder DEF StopMap, SaveInv
  <2> QED
    BY <2>1, <2>2, <2>3 DEF SaveInv
<1>9. CASE JoinState
  <2>1. Unsaved' = Unsaved /\ online' = online /\ arrived' = arrived /\ saved' = saved
    BY <1>9 DEF JoinState, Unsaved
  <2>2. tasks'["save"] = tasks["save"]
    BY <1>9, Pools DEF JoinState, Submit, LifecycleTypeOK
  <2>3. online # {} => /\ pool'["save"] = "open"
                       /\ main' \in {"loop", "request", "map", "state", "auth", "task",
                          "disconnect"}
    BY <1>9, StopOrder DEF JoinState, SaveInv
  <2> QED
    BY <2>1, <2>2, <2>3 DEF SaveInv
<1>10. CASE StopPool
  <2>1. Unsaved' = Unsaved /\ online' = online /\ arrived' = arrived /\ saved' = saved
    BY <1>10 DEF StopPool, Unsaved
  <2>2. tasks'["save"] = tasks["save"]
    BY <1>10, Pools DEF StopPool, Submit, LifecycleTypeOK
  <2>3. online # {} => /\ pool'["save"] = "open"
                       /\ main' \in {"loop", "request", "map", "state", "auth", "task",
                          "disconnect"}
    <3>1. PoolOf(main) = main /\ main \in Pool
      BY <1>10, Pools DEF StopPool
    <3>2. SUFFICES ASSUME online # {}
                   PROVE  /\ pool'["save"] = "open"
                          /\ main' \in {"auth", "task", "disconnect"}
      OBVIOUS
    <3>3. pool["save"] = "open" /\ main \in {"auth", "task"}
      BY <3>1, <3>2 DEF SaveInv, Pool
    <3>4. main' \in {"auth", "task", "disconnect"}
      BY <1>10, <3>1, <3>3, StopOrder DEF StopPool
    <3>5. pool'["save"] = pool["save"]
      BY <1>10, <3>1, <3>3 DEF StopPool, LifecycleTypeOK, Pool
    <3> QED
      BY <3>3, <3>4, <3>5
  <2> QED
    BY <2>1, <2>2, <2>3 DEF SaveInv
<1>11. CASE AllDisconnected
  <2>1. Unsaved' = Unsaved /\ online' = online /\ arrived' = arrived /\ saved' = saved
    BY <1>11 DEF AllDisconnected, Unsaved
  <2>2. tasks'["save"] = tasks["save"]
    BY <1>11, Pools DEF AllDisconnected, Submit, LifecycleTypeOK
  <2>3. online # {} => /\ pool'["save"] = "open"
                       /\ main' \in {"loop", "request", "map", "state", "auth", "task",
                          "disconnect"}
    BY <1>11, StopOrder DEF AllDisconnected, SaveInv
  <2> QED
    BY <2>1, <2>2, <2>3 DEF SaveInv
<1>12. CASE EndSignalThread
  <2>1. Unsaved' = Unsaved /\ online' = online /\ arrived' = arrived /\ saved' = saved
    BY <1>12 DEF EndSignalThread, Unsaved
  <2>2. tasks'["save"] = tasks["save"]
    BY <1>12, Pools DEF EndSignalThread, Submit, LifecycleTypeOK
  <2>3. online # {} => /\ pool'["save"] = "open"
                       /\ main' \in {"loop", "request", "map", "state", "auth", "task",
                          "disconnect"}
    BY <1>12, StopOrder DEF EndSignalThread, SaveInv
  <2> QED
    BY <2>1, <2>2, <2>3 DEF SaveInv
<1>13. CASE JoinSignalThread
  <2>1. Unsaved' = Unsaved /\ online' = online /\ arrived' = arrived /\ saved' = saved
    BY <1>13 DEF JoinSignalThread, Unsaved
  <2>2. tasks'["save"] = tasks["save"]
    BY <1>13, Pools DEF JoinSignalThread, Submit, LifecycleTypeOK
  <2>3. online # {} => /\ pool'["save"] = "open"
                       /\ main' \in {"loop", "request", "map", "state", "auth", "task",
                          "disconnect"}
    BY <1>13, StopOrder DEF JoinSignalThread, SaveInv
  <2> QED
    BY <2>1, <2>2, <2>3 DEF SaveInv
<1>14. CASE SignalArrives
  <2>1. Unsaved' = Unsaved /\ online' = online /\ arrived' = arrived /\ saved' = saved
    BY <1>14 DEF SignalArrives, Unsaved
  <2>2. tasks'["save"] = tasks["save"]
    BY <1>14, Pools DEF SignalArrives, Submit, LifecycleTypeOK
  <2>3. online # {} => /\ pool'["save"] = "open"
                       /\ main' \in {"loop", "request", "map", "state", "auth", "task",
                          "disconnect"}
    BY <1>14 DEF SignalArrives, SaveInv
  <2> QED
    BY <2>1, <2>2, <2>3 DEF SaveInv
<1>15. ASSUME NEW t \in Caller, RequestLock(t) PROVE SaveInv'
  <2>1. Unsaved' = Unsaved /\ online' = online /\ arrived' = arrived /\ saved' = saved
    BY <1>15 DEF RequestLock, Unsaved
  <2>2. tasks'["save"] = tasks["save"]
    BY <1>15, Pools DEF RequestLock, Submit, LifecycleTypeOK
  <2>3. online # {} => /\ pool'["save"] = "open"
                       /\ main' \in {"loop", "request", "map", "state", "auth", "task",
                          "disconnect"}
    BY <1>15 DEF RequestLock, SaveInv
  <2> QED
    BY <2>1, <2>2, <2>3 DEF SaveInv
<1>16. ASSUME NEW t \in Caller, RequestStore(t) PROVE SaveInv'
  <2>1. Unsaved' = Unsaved /\ online' = online /\ arrived' = arrived /\ saved' = saved
    BY <1>16 DEF RequestStore, Unsaved
  <2>2. tasks'["save"] = tasks["save"]
    BY <1>16, Pools DEF RequestStore, Submit, LifecycleTypeOK
  <2>3. online # {} => /\ pool'["save"] = "open"
                       /\ main' \in {"loop", "request", "map", "state", "auth", "task",
                          "disconnect"}
    BY <1>16 DEF RequestStore, SaveInv
  <2> QED
    BY <2>1, <2>2, <2>3 DEF SaveInv
<1>17. ASSUME NEW t \in Caller, RequestNotify(t) PROVE SaveInv'
  <2>1. Unsaved' = Unsaved /\ online' = online /\ arrived' = arrived /\ saved' = saved
    BY <1>17 DEF RequestNotify, Unsaved
  <2>2. tasks'["save"] = tasks["save"]
    BY <1>17, Pools DEF RequestNotify, Submit, LifecycleTypeOK
  <2>3. online # {} => /\ pool'["save"] = "open"
                       /\ main' \in {"loop", "request", "map", "state", "auth", "task",
                          "disconnect"}
    BY <1>17 DEF RequestNotify, SaveInv
  <2> QED
    BY <2>1, <2>2, <2>3 DEF SaveInv
<1>18. ASSUME NEW p \in Pool, GameLoopSubmit(p) PROVE SaveInv'
  <2>1. Unsaved' = Unsaved /\ online' = online /\ arrived' = arrived /\ saved' = saved
    BY <1>18 DEF GameLoopSubmit, Unsaved
  <2>2. tasks'["save"] = tasks["save"]
    BY <1>18, Pools DEF GameLoopSubmit, Submit, LifecycleTypeOK
  <2> QED
    BY <1>18, <2>1, <2>2 DEF GameLoopSubmit, SaveInv
<1>19. ASSUME NEW p \in Pool, Execute(p) PROVE SaveInv'
  <2>1. CASE p # "save"
    <3>1. tasks'["save"] = tasks["save"] /\ Unsaved' = Unsaved
      BY <1>19, <2>1, Pools DEF Execute, LifecycleTypeOK, Unsaved
    <3> QED
      BY <1>19, <2>1, <3>1 DEF Execute, SaveInv
  <2>2. CASE p = "save"
    <3>1. PICK s \in arrived \ (online \cup saved) : saved' = saved \cup {s}
      BY <1>19, <2>2 DEF Execute
    <3>2. Unsaved' = Unsaved \ {s}
      BY <1>19, <3>1 DEF Execute, Unsaved
    <3>3. Cardinality(Unsaved') = Cardinality(Unsaved) - 1
      BY <3>1, <3>2, UnsavedFinite DEF Unsaved
    <3>4. tasks'["save"] = tasks["save"] - 1
      BY <1>19, <2>2, Pools DEF Execute, LifecycleTypeOK
    <3> QED
      BY <1>19, <3>1, <3>3, <3>4 DEF Execute, SaveInv
  <2> QED
    BY <2>1, <2>2
<1>20. ASSUME NEW s \in Session, GameLoopAuth(s) PROVE SaveInv'
  <2>1. Unsaved' = Unsaved
    BY <1>20 DEF GameLoopAuth, Unsaved, SaveInv
  <2>2. IsFiniteSet(arrived')
    BY <1>20, FS_AddElement DEF GameLoopAuth, SaveInv
  <2>3. pool["save"] = "open"
    BY <1>20, Pools DEF GameLoopAuth, PoolInv
  <2> QED
    BY <1>20, <2>1, <2>2, <2>3 DEF GameLoopAuth, SaveInv
<1>21. ASSUME NEW s \in Session, OnDisconnect(s) PROVE SaveInv'
  <2>1. Unsaved' = Unsaved \cup {s}
    BY <1>21 DEF OnDisconnect, Unsaved, SaveInv
  <2>2. tasks'["save"] = tasks["save"] + 1
    BY <1>21, Pools DEF OnDisconnect, Submit, LifecycleTypeOK, SaveInv
  <2>3. Cardinality(Unsaved') = Cardinality(Unsaved) + 1
    BY <1>21, <2>1, UnsavedFinite DEF OnDisconnect
  <2> QED
    BY <1>21, <2>2, <2>3 DEF OnDisconnect, SaveInv
<1>22. CASE MapExits
  <2>1. Unsaved' = Unsaved /\ online' = online /\ arrived' = arrived /\ saved' = saved
    BY <1>22 DEF MapExits, Unsaved
  <2>2. tasks'["save"] = tasks["save"]
    BY <1>22, Pools DEF MapExits, Submit, LifecycleTypeOK
  <2>3. online # {} => /\ pool'["save"] = "open"
                       /\ main' \in {"loop", "request", "map", "state", "auth", "task",
                          "disconnect"}
    BY <1>22 DEF MapExits, SaveInv
  <2> QED
    BY <2>1, <2>2, <2>3 DEF SaveInv
<1>23. CASE StateLooks
  <2>1. Unsaved' = Unsaved /\ online' = online /\ arrived' = arrived /\ saved' = saved
    BY <1>23 DEF StateLooks, Unsaved
  <2>2. tasks'["save"] = tasks["save"]
    BY <1>23, Pools DEF StateLooks, Submit, LifecycleTypeOK
  <2>3. online # {} => /\ pool'["save"] = "open"
                       /\ main' \in {"loop", "request", "map", "state", "auth", "task",
                          "disconnect"}
    BY <1>23 DEF StateLooks, SaveInv
  <2> QED
    BY <2>1, <2>2, <2>3 DEF SaveInv
<1>24. CASE StateSubmits
  <2>1. Unsaved' = Unsaved /\ online' = online /\ arrived' = arrived /\ saved' = saved
    BY <1>24 DEF StateSubmits, Unsaved
  <2>2. tasks'["save"] = tasks["save"]
    BY <1>24, Pools DEF StateSubmits, Submit, LifecycleTypeOK
  <2>3. online # {} => /\ pool'["save"] = "open"
                       /\ main' \in {"loop", "request", "map", "state", "auth", "task",
                          "disconnect"}
    BY <1>24 DEF StateSubmits, SaveInv
  <2> QED
    BY <2>1, <2>2, <2>3 DEF SaveInv
<1>25. CASE StateWaits
  <2>1. Unsaved' = Unsaved /\ online' = online /\ arrived' = arrived /\ saved' = saved
    BY <1>25 DEF StateWaits, Unsaved
  <2>2. tasks'["save"] = tasks["save"]
    BY <1>25, Pools DEF StateWaits, Submit, LifecycleTypeOK
  <2>3. online # {} => /\ pool'["save"] = "open"
                       /\ main' \in {"loop", "request", "map", "state", "auth", "task",
                          "disconnect"}
    BY <1>25 DEF StateWaits, SaveInv
  <2> QED
    BY <2>1, <2>2, <2>3 DEF SaveInv
<1>26. CASE StateTimesOut
  <2>1. Unsaved' = Unsaved /\ online' = online /\ arrived' = arrived /\ saved' = saved
    BY <1>26 DEF StateTimesOut, Unsaved
  <2>2. tasks'["save"] = tasks["save"]
    BY <1>26, Pools DEF StateTimesOut, Submit, LifecycleTypeOK
  <2>3. online # {} => /\ pool'["save"] = "open"
                       /\ main' \in {"loop", "request", "map", "state", "auth", "task",
                          "disconnect"}
    BY <1>26 DEF StateTimesOut, SaveInv
  <2> QED
    BY <2>1, <2>2, <2>3 DEF SaveInv
<1>27. CASE UNCHANGED lifecycleVars
  BY <1>27 DEF lifecycleVars, SaveInv, Unsaved
<1> QED
  BY <1>1, <1>2, <1>3, <1>4, <1>5, <1>6, <1>7, <1>8, <1>9, <1>10, <1>11, <1>12, <1>13, <1>14,
     <1>15, <1>16, <1>17, <1>18, <1>19, <1>20, <1>21, <1>22, <1>23, <1>24, <1>25, <1>26, <1>27
     DEF LifecycleNext

\* The invariant is inductive.
LEMMA InvStep == ShutdownIInv /\ [LifecycleNext]_lifecycleVars => ShutdownIInv'
BY TypeStep, RunStep, ThreadStep, PoolStep, ShutdownSaveStep, SubmitsToOpen DEF ShutdownIInv

\* When all that is to be saved has been and the pools have ended, so has the server.
LEMMA InvImplies == ShutdownIInv => ShutdownIsComplete
<1> SUFFICES ASSUME ShutdownIInv, main = "shutdown"
             PROVE  /\ ~running /\ map # "look" /\ state \in {"none", "exited"}
                    /\ \A p \in Pool : tasks[p] = 0
                    /\ online = {} /\ saved = arrived
  BY DEF ShutdownIInv, ShutdownIsComplete
<1>1. ~running /\ map # "look" /\ state \in {"none", "exited"}
  BY DEF ShutdownIInv, RunInv, ThreadInv, Serving, StartSteps
<1>2. \A p \in Pool : tasks[p] = 0
  BY DEF ShutdownIInv, PoolInv, Late
<1>3. online = {}
  BY DEF ShutdownIInv, SaveInv
<1>4. Unsaved = {}
  <2>1. IsFiniteSet(Unsaved) /\ Cardinality(Unsaved) = 0
    BY <1>2, Pools, FS_Subset DEF ShutdownIInv, SaveInv, Unsaved
  <2> QED
    BY <2>1, FS_EmptySet
<1> QED
  BY <1>1, <1>2, <1>3, <1>4 DEF ShutdownIInv, SaveInv, Unsaved

\* Whenever the stop is requested, and whatever could not be started: when main()
\* shuts the connection pool down no other thread runs, no pool has a task, nothing
\* was submitted to a pool that would not take it, and everyone who was online has
\* been disconnected and saved.
THEOREM ShutdownCompleteness == LifecycleSpec => []ShutdownIsComplete
<1>1. LifecycleSpec => []ShutdownIInv
  BY InitInv, InvStep, PTL DEF LifecycleSpec
<1> QED
  BY <1>1, InvImplies, PTL
===============================================================================
