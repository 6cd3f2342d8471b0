--------------------------- MODULE ChannelSessions ---------------------------
(***************************************************************************)
(* CHANNEL/app: the life of a ChannelSession.                               *)
(*                                                                          *)
(* The main thread (ChannelServer::GameLoop) accepts, receives, applies     *)
(* authentication results and disconnects.  The packet and save tasks of a  *)
(* session run on the task pool, in the order they were submitted and one   *)
(* at a time (SubmitByKey(m_sessionId, ...): the lanes of TaskExecutor, one *)
(* lane per session here, which allows more interleavings than a shared     *)
(* worker).  Authentication tasks run on the other pool, in any order.  A   *)
(* packet handler and the map tick hold the one gameplay lock               *)
(* (Gameplay::gate) and may send to the session of any player online.       *)
(*                                                                          *)
(* File descriptors are reused, session ids are not: every task carries     *)
(* both and looks the session up again when it runs.                        *)
(***************************************************************************)
EXTENDS Naturals, Sequences, FiniteSets

CONSTANTS
  Fd,          \* the descriptors accept() can return
  NoFd,        \* the descriptor of a session that was not accepted yet
  Character,   \* characters a channel ticket can name
  NoChar,      \* a null Player pointer
  MaxUsers,    \* m_max_user_count
  MaxSession,  \* bound: connections accepted during a run
  MaxTask      \* bound: tasks queued for one session

ASSUME SessionAssumption == MaxUsers \in Nat /\ MaxSession \in Nat /\ MaxTask \in Nat
ASSUME NullAssumption == NoChar \notin Character /\ NoFd \notin Fd

VARIABLES
  sessions,      \* m_sessions: the session open on each descriptor, or 0
  nextSessionId, \* m_nextSessionId
  users,         \* m_current_user_count
  fdOf,          \* m_fd of a session
  state,         \* "none", "open", "closing" (m_closing), "deleted"
  auth,          \* m_authenticationState
  player,        \* m_player of a session
  inFlight,      \* m_inFlightTasks
  players,       \* the characters PlayerManager holds a Player of
  sessionOf,     \* Player::m_session of each of them, 0 for null
  tasks,         \* how many tasks of each session are queued in the pool
  lane,          \* lane[s]: the task of s being executed
  gate,          \* who holds Gameplay::gate: a session's task, Tick or Nobody
  reach,         \* history: the sessions whose pointer the holder can have read
  authTasks,     \* ChannelAuthTasks submitted and not finished
  authResults,   \* m_authResults
  main           \* where the main thread is, and for which session

table == <<sessions, nextSessionId, users, fdOf, state>>
online == <<player, players, sessionOf>>
pool == <<tasks, lane>>
gameplay == <<gate, reach>>
authPool == <<authTasks, authResults>>
vars == <<table, auth, online, inFlight, pool, gameplay, authPool, main>>

Session == 1 .. MaxSession
NoSession == 0

Nobody == 0
Tick == MaxSession + 1

AuthTask == [session : Session, char : Character]
AuthResult == [session : Session, char : Character, success : BOOLEAN]

\* A lane: idle, or running a task with the session pointer it was given.
Idle == [pc |-> "idle", session |-> NoSession]
Loop == [pc |-> "loop", session |-> NoSession, char |-> NoChar]

Init ==
  /\ sessions = [f \in Fd |-> NoSession]
  /\ nextSessionId = 1
  /\ users = 0
  /\ fdOf = [s \in Session |-> NoFd]
  /\ state = [s \in Session |-> "none"]
  /\ auth = [s \in Session |-> "Unauthenticated"]
  /\ player = [s \in Session |-> NoChar]
  /\ inFlight = [s \in Session |-> 0]
  /\ players = {}
  /\ sessionOf = [c \in Character |-> NoSession]
  /\ tasks = [s \in Session |-> 0]
  /\ lane = [s \in Session |-> Idle]
  /\ gate = Nobody
  /\ reach = {}
  /\ authTasks = {}
  /\ authResults = <<>>
  /\ main = Loop
-------------------------------------------------------------------------------
(* BeginValidSessionTask and EndSessionTask.                                *)

\* Mutant: FindValidSession's lookup without the comparison of session ids.
LookupByFd(s) == sessions[fdOf[s]]

\* The session a task of s gets: the one on its descriptor, if it has the task's
\* session id and is not closing; else null.
ValidSession(s) ==
  IF sessions[fdOf[s]] = s /\ state[s] = "open" THEN s ELSE NoSession

BeginTask(s) == inFlight' = [inFlight EXCEPT ![s] = @ + 1]

\* Mutant: a path that leaves a task without EndSessionTask.
EndTaskForgotten(s) == UNCHANGED inFlight

EndTask(s) == inFlight' = [inFlight EXCEPT ![s] = IF @ > 0 THEN @ - 1 ELSE 0]
-------------------------------------------------------------------------------
(* The main thread.                                                         *)

BelowLimit == users < MaxUsers

\* OnAccept: a new session, on a descriptor that is not in use.
OnAccept(f) ==
  /\ main = Loop
  /\ sessions[f] = NoSession
  /\ BelowLimit
  /\ nextSessionId <= MaxSession
  /\ sessions' = [sessions EXCEPT ![f] = nextSessionId]
  /\ fdOf' = [fdOf EXCEPT ![nextSessionId] = f]
  /\ state' = [state EXCEPT ![nextSessionId] = "open"]
  /\ nextSessionId' = nextSessionId + 1
  /\ users' = users + 1
  /\ UNCHANGED <<auth, online, inFlight, pool, gameplay, authPool, main>>

\* TryBeginAuthentication: compare-and-swap from Unauthenticated.
MayAuthenticate(s) == auth[s] = "Unauthenticated"

\* OnReceive, Dispatch of an authentication packet whose ticket names c.
ReceiveAuth(f, c) ==
  /\ main = Loop
  /\ sessions[f] # NoSession
  /\ LET s == sessions[f] IN
       /\ MayAuthenticate(s)
       /\ auth' = [auth EXCEPT ![s] = "Authenticating"]
       /\ authTasks' = authTasks \cup {[session |-> s, char |-> c]}
  /\ UNCHANGED <<table, online, inFlight, pool, gameplay, authResults, main>>

\* OnReceive, Dispatch of any other packet: only an authenticated session's.
ReceivePacket(f) ==
  /\ main = Loop
  /\ sessions[f] # NoSession
  /\ LET s == sessions[f] IN
       /\ auth[s] = "Authenticated"
       /\ tasks[s] < MaxTask
       /\ tasks' = [tasks EXCEPT ![s] = @ + 1]
  /\ UNCHANGED <<table, auth, online, inFlight, lane, gameplay, authPool, main>>

\* SchedulePlayerSaves: a save task for every authenticated session.
SchedulePlayerSaves ==
  /\ main = Loop
  /\ LET targets == {s \in Session : /\ \E f \in Fd : sessions[f] = s
                                     /\ state[s] = "open"
                                     /\ auth[s] = "Authenticated"}
     IN /\ targets # {}
        /\ \A s \in targets : tasks[s] < MaxTask
        /\ tasks' = [s \in Session |->
                       IF s \in targets THEN tasks[s] + 1 ELSE tasks[s]]
  /\ UNCHANGED <<table, auth, online, inFlight, lane, gameplay, authPool, main>>

\* Mutant: PlayerManager::AddPlayer that replaces the entry of a character.
MayAddAlways(c) == TRUE

\* PlayerManager::AddPlayer fails if the character has a Player already.
MayAdd(c) == c \notin players

\* ProcessAuthResults, up to AddPlayer: the main thread counts itself as a task of
\* the session, sets Player::m_session and publishes the Player.
ProcessAuthResult ==
  /\ main = Loop
  /\ authResults # <<>>
  /\ authResults' = Tail(authResults)
  /\ LET r == Head(authResults)
         s == ValidSession(r.session)
     IN \/ /\ s = NoSession
           /\ UNCHANGED <<auth, players, sessionOf, inFlight, reach, main>>
        \/ /\ s # NoSession
           /\ ~(r.success /\ MayAdd(r.char))
           /\ auth' = [auth EXCEPT ![s] = "Unauthenticated"]
           /\ UNCHANGED <<players, sessionOf, inFlight, reach, main>>
        \/ /\ s # NoSession
           /\ r.success /\ MayAdd(r.char)
           /\ BeginTask(s)
           /\ players' = players \cup {r.char}
           /\ sessionOf' = [sessionOf EXCEPT ![r.char] = s]
           /\ main' = [pc |-> "auth", session |-> s, char |-> r.char]
           /\ reach' = IF gate = Nobody THEN reach ELSE reach \cup {s}
           /\ UNCHANGED auth
  /\ UNCHANGED <<table, player, pool, gate, authTasks>>

\* ProcessAuthResults after AddPlayer: SetPlayer, MarkAuthenticated, EndSessionTask.
FinishAuth ==
  /\ main.pc = "auth"
  /\ LET s == main.session IN
       /\ player' = [player EXCEPT ![s] = main.char]
       /\ auth' = [auth EXCEPT ![s] = "Authenticated"]
       /\ EndTask(s)
  /\ main' = Loop
  /\ UNCHANGED <<table, players, sessionOf, pool, gameplay, authPool>>

\* OnDisconnect, first part: MarkClosing and erase under m_sessionMutex, close(fd).
OnDisconnect(f) ==
  /\ main = Loop
  /\ sessions[f] # NoSession
  /\ LET s == sessions[f] IN
       /\ state' = [state EXCEPT ![s] = "closing"]
       /\ main' = [pc |-> "wait", session |-> s, char |-> NoChar]
  /\ sessions' = [sessions EXCEPT ![f] = NoSession]
  /\ UNCHANGED <<nextSessionId, users, fdOf, auth, online, inFlight, pool, gameplay,
                 authPool>>

\* Mutant: OnDisconnect that does not wait.
NoTasksIgnored(s) == TRUE

\* WaitForNoTasks: m_inFlightTasks == 0.
NoTasks(s) == inFlight[s] = 0

WaitForNoTasks ==
  /\ main.pc = "wait"
  /\ NoTasks(main.session)
  /\ main' = [main EXCEPT !.pc = "finalize"]
  /\ UNCHANGED <<table, auth, online, inFlight, pool, gameplay, authPool>>

\* player->SetSession(nullptr) ... m_playerManager->RemovePlayer(playerId)
RemovePlayer(c) ==
  /\ players' = players \ {c}
  /\ sessionOf' = [sessionOf EXCEPT ![c] = NoSession]

\* FinalizePlayer: under the gate.
FinalizePlayer ==
  /\ main.pc = "finalize"
  /\ gate = Nobody
  /\ LET c == player[main.session] IN
       \/ c = NoChar /\ UNCHANGED online
       \/ /\ c # NoChar
          /\ RemovePlayer(c)
          /\ player' = [player EXCEPT ![main.session] = NoChar]
  /\ main' = [main EXCEPT !.pc = "delete"]
  /\ UNCHANGED <<table, auth, inFlight, pool, gameplay, authPool>>

\* delete session: ~ChannelSession takes the gate and finds no Player any more.  One
\* user less, unless there is none.
DeleteSession ==
  /\ main.pc = "delete"
  /\ gate = Nobody
  /\ users' = IF users > 0 THEN users - 1 ELSE 0
  /\ state' = [state EXCEPT ![main.session] = "deleted"]
  /\ main' = Loop
  /\ UNCHANGED <<sessions, nextSessionId, fdOf, auth, online, inFlight, pool,
                 gameplay, authPool>>
-------------------------------------------------------------------------------
(* The authentication pool.                                                 *)

\* Mutant: a path of ChannelAuthTask::Execute that returns without a result.
ReturnWithoutResult(t, success) ==
  /\ t \in authTasks
  /\ authTasks' = authTasks \ {t}
  /\ UNCHANGED <<table, auth, online, inFlight, pool, gameplay, authResults, main>>

\* ChannelAuthTask::Execute ends in PushAuthResult on every path.
PushAuthResult(t, success) ==
  /\ t \in authTasks
  /\ authTasks' = authTasks \ {t}
  /\ authResults' = Append(authResults,
       [session |-> t.session, char |-> t.char, success |-> success])
  /\ UNCHANGED <<table, auth, online, inFlight, pool, gameplay, main>>
-------------------------------------------------------------------------------
(* The task pool, and the map tick.                                         *)

\* PacketProcessTask and PlayerSaveTask: BeginValidSessionTask, or nothing to do.
TaskBegin(s) ==
  /\ lane[s] = Idle
  /\ tasks[s] > 0
  /\ tasks' = [tasks EXCEPT ![s] = @ - 1]
  /\ LET p == ValidSession(s) IN
       \/ p = NoSession /\ UNCHANGED <<inFlight, lane>>
       \/ /\ p # NoSession
          /\ BeginTask(p)
          /\ lane' = [lane EXCEPT ![s] = [pc |-> "begun", session |-> p]]
  /\ UNCHANGED <<table, auth, online, gameplay, authPool, main>>

\* Whoever holds the gate may go from any player online to its session.
TakeGate(who) ==
  /\ gate = Nobody
  /\ gate' = who
  /\ reach' = {sessionOf[c] : c \in players}

LeaveGate == gate' = Nobody /\ reach' = {}

\* PacketProcessTask takes the gate for the whole handler; PlayerSaveTask takes it
\* for MakeSaveData.
TaskEnterGate(s) ==
  /\ lane[s].pc = "begun"
  /\ TakeGate(s)
  /\ lane' = [lane EXCEPT ![s].pc = "gate"]
  /\ UNCHANGED <<table, auth, online, inFlight, tasks, authPool, main>>

TaskLeaveGate(s) ==
  /\ lane[s].pc = "gate"
  /\ LeaveGate
  /\ lane' = [lane EXCEPT ![s].pc = "end"]
  /\ UNCHANGED <<table, auth, online, inFlight, tasks, authPool, main>>

\* SessionTaskGuard: EndSessionTask.
TaskEnd(s) ==
  /\ lane[s].pc = "end"
  /\ EndTask(lane[s].session)
  /\ lane' = [lane EXCEPT ![s] = Idle]
  /\ UNCHANGED <<table, auth, online, tasks, gameplay, authPool, main>>

\* MapManager::Update holds the gate for a tick and sends to the players' sessions.
TickBegin ==
  /\ TakeGate(Tick)
  /\ UNCHANGED <<table, auth, online, inFlight, pool, authPool, main>>

TickEnd ==
  /\ gate = Tick
  /\ LeaveGate
  /\ UNCHANGED <<table, auth, online, inFlight, pool, authPool, main>>
-------------------------------------------------------------------------------
MainStep ==
  \/ ProcessAuthResult \/ FinishAuth
  \/ WaitForNoTasks \/ FinalizePlayer \/ DeleteSession

LaneStep(s) == TaskBegin(s) \/ TaskEnterGate(s) \/ TaskLeaveGate(s) \/ TaskEnd(s)

Next ==
  \/ \E f \in Fd : OnAccept(f) \/ ReceivePacket(f) \/ OnDisconnect(f)
  \/ \E f \in Fd, c \in Character : ReceiveAuth(f, c)
  \/ SchedulePlayerSaves
  \/ ProcessAuthResult
  \/ FinishAuth
  \/ WaitForNoTasks
  \/ FinalizePlayer
  \/ DeleteSession
  \/ \E t \in authTasks, ok \in BOOLEAN : PushAuthResult(t, ok)
  \/ \E s \in Session : \/ TaskBegin(s) \/ TaskEnterGate(s)
                        \/ TaskLeaveGate(s) \/ TaskEnd(s)
  \/ TickBegin
  \/ TickEnd

Spec == Init /\ [][Next]_vars

(***************************************************************************)
(* GameLoop runs ProcessAuthResults in every turn and does not stop inside  *)
(* OnDisconnect; the pools run what was submitted.  Handlers and ticks end. *)
(* A thread that finds the gate free again and again gets it: strong        *)
(* fairness for the steps that take the gate, weak for all others.  Nothing *)
(* is assumed of clients.                                                   *)
(***************************************************************************)
Fairness ==
  /\ WF_vars(MainStep)
  /\ SF_vars(FinalizePlayer) /\ SF_vars(DeleteSession)
  /\ \A s \in Session : WF_vars(LaneStep(s)) /\ SF_vars(TaskEnterGate(s))
  /\ \A t \in AuthTask : WF_vars(\E ok \in BOOLEAN : PushAuthResult(t, ok))
  /\ WF_vars(TickEnd)

FairSpec == Spec /\ Fairness
-------------------------------------------------------------------------------
LanePc == {"idle", "begun", "gate", "end"}

TypeOK ==
  /\ sessions \in [Fd -> Session \cup {NoSession}]
  /\ nextSessionId \in 1 .. (MaxSession + 1)
  /\ users \in 0 .. MaxUsers
  /\ fdOf \in [Session -> Fd \cup {NoFd}]
  /\ state \in [Session -> {"none", "open", "closing", "deleted"}]
  /\ auth \in [Session -> {"Unauthenticated", "Authenticating", "Authenticated"}]
  /\ player \in [Session -> Character \cup {NoChar}]
  /\ inFlight \in [Session -> Nat]
  /\ players \in SUBSET Character
  /\ sessionOf \in [Character -> Session \cup {NoSession}]
  /\ tasks \in [Session -> Nat]
  /\ lane \in [Session -> [pc : LanePc, session : Session \cup {NoSession}]]
  /\ gate \in 0 .. (MaxSession + 1)
  /\ reach \subseteq Session
  /\ authTasks \in SUBSET AuthTask
  /\ authResults \in Seq(AuthResult)
  /\ main \in [pc : {"loop", "auth", "wait", "finalize", "delete"},
               session : Session \cup {NoSession},
               char : Character \cup {NoChar}]

\* The threads that hold a pointer to session s: a task of some lane, the main
\* thread inside ProcessAuthResults or OnDisconnect, and whoever holds the gate, for
\* every session it has been able to reach since it took it.
Uses(s) ==
  \/ \E l \in Session : lane[l].pc # "idle" /\ lane[l].session = s
  \/ main.pc # "loop" /\ main.session = s
  \/ s \in reach

(***************************************************************************)
(* No thread uses a ChannelSession after OnDisconnect deleted it: the       *)
(* in-flight count, the gate in FinalizePlayer and the lookup of            *)
(* BeginValidSessionTask together make `delete session` safe.  (The types   *)
(* come with it.)                                                           *)
(***************************************************************************)
NoUseAfterDelete ==
  /\ TypeOK
  /\ \A s \in Session : Uses(s) => state[s] # "deleted"

(***************************************************************************)
(* A task runs on the session it was received on, never on a later one that *)
(* got the same descriptor, and that session still has its player: m_player *)
(* is set before the first packet task and cleared after the last.          *)
(***************************************************************************)
TaskHasItsPlayer == \A s \in Session :
  lane[s].pc # "idle" =>
    /\ lane[s].session = s
    /\ player[s] \in players
    /\ sessionOf[player[s]] = s

(***************************************************************************)
(* PlayerManager and the sessions agree: outside ProcessAuthResults and     *)
(* FinalizePlayer, the players online are exactly the m_player of sessions  *)
(* not yet finalized, one session per character, and those sessions are the *)
(* authenticated ones.  The connections are those m_current_user_count      *)
(* counts.                                                                  *)
(***************************************************************************)
OneSessionPerPlayer ==
  main = Loop =>
    /\ players = {player[s] : s \in {x \in Session : state[x] = "open"}} \ {NoChar}
    /\ \A s, t \in Session : player[s] = player[t] /\ player[s] # NoChar => s = t
    /\ users = Cardinality({s \in Session : state[s] = "open"})
    /\ \A s \in Session : state[s] = "open" =>
         (auth[s] = "Authenticated" <=> player[s] # NoChar)

(***************************************************************************)
(* OnDisconnect returns: the tasks in flight it waits for end, and the gate *)
(* it needs, to finalize the player and again to delete the session, is     *)
(* released.  The main thread blocks in it without a timeout, and with it   *)
(* all accepts, receives and authentications of the channel.                *)
(***************************************************************************)
DisconnectReturns == main.pc = "wait" ~> main.pc = "loop"

(***************************************************************************)
(* An authentication that was begun ends: the session gets its player, may  *)
(* try again, or is gone.  Authenticating is left on every path.            *)
(***************************************************************************)
AuthEnds == \A s \in Session :
  auth[s] = "Authenticating" ~> auth[s] # "Authenticating" \/ state[s] = "deleted"
===============================================================================
