---------------------------- MODULE SessionProofs ----------------------------
(***************************************************************************)
(* Who a session belongs to, on its way to a channel and on it. First       *)
(* NoUseAfterDelete, TaskHasItsPlayer and OneSessionPerPlayer of            *)
(* ChannelSessions, for any descriptors, characters, users, connections and *)
(* queued tasks.                                                            *)
(***************************************************************************)
EXTENDS ChannelSessions, ServerEntry, SequenceTheorems, FiniteSetTheorems, TLAPS

\* OnDisconnect of s is between MarkClosing and the end.
Disconnecting(s) == main.pc \in {"wait", "finalize", "delete"} /\ main.session = s

\* ProcessAuthResults has published the Player of s and not finished.
Publishing(s) == main.pc = "auth" /\ main.session = s

\* s is open, or OnDisconnect has not come to FinalizePlayer.
Playable(s) ==
  state[s] = "open" \/ (main.pc \in {"wait", "finalize"} /\ main.session = s)

\* m_sessions holds the open sessions, each under its own descriptor.
Table ==
  /\ \A f \in Fd : sessions[f] # NoSession =>
       state[sessions[f]] = "open" /\ fdOf[sessions[f]] = f
  /\ \A s \in Session : state[s] = "none" <=> s >= nextSessionId
  /\ \A s \in Session : state[s] = "none" => auth[s] = "Unauthenticated"

\* Where the main thread is.
Main ==
  /\ main.pc = "loop" <=> main = Loop
  /\ main.pc # "loop" => main.session \in Session
  /\ \A s \in Session : state[s] = "closing" <=> Disconnecting(s)
  /\ \A s \in Session : Publishing(s) =>
       /\ state[s] = "open" /\ auth[s] = "Authenticating"
       /\ main.char \in players /\ sessionOf[main.char] = s

\* An authentication is under way in one place only.
Requests ==
  /\ \A t \in authTasks :
       auth[t.session] = "Authenticating" /\ ~Publishing(t.session)
  /\ \A i \in 1 .. Len(authResults) :
       auth[authResults[i].session] = "Authenticating" /\ ~Publishing(authResults[i].session)
  /\ \A t, u \in authTasks : t.session = u.session => t = u
  /\ \A i, j \in 1 .. Len(authResults) :
       authResults[i].session = authResults[j].session => i = j
  /\ \A t \in authTasks, i \in 1 .. Len(authResults) :
       t.session # authResults[i].session

\* A session and its Player point to each other.
Players ==
  /\ \A s \in Session : player[s] # NoChar =>
       auth[s] = "Authenticated" /\ Playable(s)
       /\ player[s] \in players /\ sessionOf[player[s]] = s
  /\ \A s \in Session : auth[s] = "Authenticated" /\ Playable(s) => player[s] # NoChar
  /\ \A c \in players :
       /\ sessionOf[c] \in Session
       /\ player[sessionOf[c]] = c \/ (Publishing(sessionOf[c]) /\ main.char = c)

\* Tasks are submitted for authenticated sessions, and one that has begun holds
\* back OnDisconnect.
Lanes ==
  /\ \A s \in Session : tasks[s] > 0 => auth[s] = "Authenticated"
  /\ \A s \in Session : lane[s].pc # "idle" =>
       /\ lane[s].session = s
       /\ auth[s] = "Authenticated"
       /\ state[s] = "open" \/ (main.pc = "wait" /\ main.session = s)

\* m_inFlightTasks counts the task of the lane and the main thread.
Counts ==
  \A s \in Session :
    inFlight[s] = IF lane[s].pc # "idle" \/ Publishing(s) THEN 1 ELSE 0

\* While the gate is held no Player goes away.
Reachable ==
  /\ \A s \in reach : \E c \in players : sessionOf[c] = s
  /\ gate = Nobody => reach = {}

Connected(st) == {s \in Session : st[s] \in {"open", "closing"}}

\* m_current_user_count.
UserCount == users = Cardinality(Connected(state))

IInv ==
  /\ TypeOK /\ Table /\ Main /\ Requests /\ Players /\ Lanes /\ Counts
  /\ Reachable /\ UserCount

-------------------------------------------------------------------------------
(* What the main thread's record says.                                       *)

\* Outside the handlers that take several steps, the main thread holds no session.
LEMMA AtLoop ==
  ASSUME main = Loop
  PROVE  /\ main.pc = "loop"
         /\ \A s \in Session : ~Disconnecting(s) /\ ~Publishing(s)
         /\ \A s \in Session : Playable(s) <=> state[s] = "open"
BY DEF Loop, Disconnecting, Publishing, Playable

\* The main thread that has ended such a handler holds no session either.
LEMMA BackAtLoop ==
  ASSUME main' = Loop
  PROVE  /\ main'.pc = "loop"
         /\ \A s \in Session : ~Disconnecting(s)' /\ ~Publishing(s)'
         /\ \A s \in Session : Playable(s)' <=> state'[s] = "open"
BY DEF Loop, Disconnecting, Publishing, Playable

\* A request is one of a session.
LEMMA RequestsTyped ==
  ASSUME IInv
  PROVE  /\ \A t \in authTasks : t.session \in Session
         /\ \A i \in 1 .. Len(authResults) : authResults[i].session \in Session
         /\ authResults \in Seq(AuthResult)
<1>1. /\ authTasks \subseteq AuthTask /\ authResults \in Seq(AuthResult)
  BY DEF IInv, TypeOK
<1>2. \A i \in 1 .. Len(authResults) : authResults[i] \in AuthResult
  BY <1>1, ElementOfSeq
<1> QED
  BY <1>1, <1>2 DEF AuthTask, AuthResult

\* One session more, one less, or the same number of them.
LEMMA ConnectedIsFinite ==
  ASSUME NEW st
  PROVE  IsFiniteSet(Connected(st)) /\ Cardinality(Connected(st)) \in Nat
<1>1. IsFiniteSet(Session)
  BY FS_Interval, SessionAssumption DEF Session
<1>2. IsFiniteSet(Connected(st))
  BY <1>1, FS_Subset DEF Connected
<1> QED
  BY <1>2, FS_CardinalityType

LEMMA OneConnectionMore ==
  ASSUME NEW st, NEW su, NEW s \in Session, s \notin Connected(st),
         Connected(su) = Connected(st) \cup {s}
  PROVE  Cardinality(Connected(su)) = Cardinality(Connected(st)) + 1
BY ConnectedIsFinite, FS_AddElement

LEMMA OneConnectionLess ==
  ASSUME NEW st, NEW su, NEW s \in Session, s \in Connected(st),
         Connected(su) = Connected(st) \ {s}
  PROVE  /\ Cardinality(Connected(st)) > 0
         /\ Cardinality(Connected(su)) = Cardinality(Connected(st)) - 1
BY ConnectedIsFinite, FS_RemoveElement, FS_EmptySet

-------------------------------------------------------------------------------
(* One lemma for each action.                                                *)

\* OnAccept gives a fresh session id a free descriptor and counts it.
LEMMA OnAcceptKeeps ==
  ASSUME IInv, NEW f \in Fd, OnAccept(f)
  PROVE  IInv'
<1> DEFINE n == nextSessionId
<1>1. /\ n \in Session /\ n # NoSession /\ n + 1 \in 1 .. MaxSession + 1
      /\ sessions[f] = NoSession
      /\ sessions' = [sessions EXCEPT ![f] = n]
      /\ fdOf' = [fdOf EXCEPT ![n] = f] /\ state' = [state EXCEPT ![n] = "open"]
      /\ nextSessionId' = n + 1
      /\ users < MaxUsers /\ users' = users + 1
      /\ main.pc = "loop" /\ main = Loop
  BY SessionAssumption DEF IInv, TypeOK, OnAccept, BelowLimit, Session, NoSession, Loop
<1>2. /\ auth' = auth /\ inFlight' = inFlight /\ main' = main
      /\ player' = player /\ players' = players /\ sessionOf' = sessionOf
      /\ tasks' = tasks /\ lane' = lane /\ gate' = gate /\ reach' = reach
      /\ authTasks' = authTasks /\ authResults' = authResults
  BY DEF OnAccept, online, pool, gameplay, authPool
<1>3. state[n] = "none"
  BY <1>1, SessionAssumption DEF IInv, Table, TypeOK
<1>4. TypeOK'
  <2>1. users' \in 0 .. MaxUsers
    BY <1>1, SessionAssumption DEF IInv, TypeOK
  <2>2. /\ sessions' \in [Fd -> Session \cup {NoSession}]
        /\ fdOf' \in [Session -> Fd \cup {NoFd}]
        /\ state' \in [Session -> {"none", "open", "closing", "deleted"}]
        /\ nextSessionId' \in 1 .. (MaxSession + 1)
    BY <1>1 DEF IInv, TypeOK
  <2> QED
    BY <1>2, <2>1, <2>2 DEF IInv, TypeOK
<1>5. Table'
  <2>1. \A s \in Session : s # n => state'[s] = state[s] /\ fdOf'[s] = fdOf[s]
    BY <1>1 DEF IInv, TypeOK
  <2>2. state'[n] = "open" /\ fdOf'[n] = f /\ sessions'[f] = n
    BY <1>1 DEF IInv, TypeOK
  <2>3. \A g \in Fd : g # f => sessions'[g] = sessions[g]
    BY <1>1 DEF IInv, TypeOK
  <2>4. \A g \in Fd : sessions[g] # n
    BY <1>1, <1>3 DEF IInv, Table
  <2>5. \A s \in Session : state'[s] = "none" <=> s >= nextSessionId'
    BY <1>1, <2>1, <2>2, SessionAssumption DEF IInv, Table, TypeOK, Session
  <2> QED
    BY <1>1, <1>2, <2>1, <2>2, <2>3, <2>4, <2>5 DEF IInv, Table, TypeOK
<1>6. Main'
  BY <1>1, <1>2, <1>3, AtLoop DEF IInv, Main, TypeOK, Disconnecting, Publishing
<1>7. Requests'
  BY <1>2 DEF IInv, Requests, Publishing
<1>8. Players'
  <2>1. auth[n] = "Unauthenticated"
    BY <1>1, <1>3 DEF IInv, Table
  <2>2. \A s \in Session : s # n => (Playable(s)' <=> Playable(s))
    BY <1>1, <1>2 DEF IInv, TypeOK, Playable
  <2>3. player[n] = NoChar
    BY <1>1, <2>1 DEF IInv, Players
  <2>4. \A s \in Session : Publishing(s)' <=> Publishing(s)
    BY <1>2 DEF Publishing
  <2> QED
    BY <1>2, <2>1, <2>2, <2>3, <2>4 DEF IInv, Players
<1>9. Lanes'
  BY <1>1, <1>2 DEF IInv, TypeOK, Lanes
<1>10. Counts'
  BY <1>2 DEF IInv, Counts, Publishing
<1>11. Reachable'
  BY <1>2 DEF IInv, Reachable
<1>12. UserCount'
  <2>1. n \notin Connected(state) /\ Connected(state') = Connected(state) \cup {n}
    BY <1>1, <1>3 DEF IInv, TypeOK, Connected
  <2> QED
    BY <1>1, <2>1, OneConnectionMore DEF IInv, UserCount
<1> QED
  BY <1>4, <1>5, <1>6, <1>7, <1>8, <1>9, <1>10, <1>11, <1>12 DEF IInv

\* OnReceive of an authentication packet marks the session Authenticating and submits
\* one task for it.
LEMMA ReceiveAuthKeeps ==
  ASSUME IInv, NEW f \in Fd, NEW c \in Character, ReceiveAuth(f, c)
  PROVE  IInv'
<1> DEFINE s == sessions[f]
           t == [session |-> s, char |-> c]
<1>1. /\ s \in Session /\ auth[s] = "Unauthenticated"
      /\ auth' = [auth EXCEPT ![s] = "Authenticating"]
      /\ authTasks' = authTasks \cup {t}
      /\ main.pc = "loop"
  BY DEF IInv, TypeOK, ReceiveAuth, MayAuthenticate, Loop
<1>2. /\ sessions' = sessions /\ nextSessionId' = nextSessionId /\ users' = users
      /\ fdOf' = fdOf /\ state' = state /\ inFlight' = inFlight /\ main' = main
      /\ player' = player /\ players' = players /\ sessionOf' = sessionOf
      /\ tasks' = tasks /\ lane' = lane /\ gate' = gate /\ reach' = reach
      /\ authResults' = authResults
  BY DEF ReceiveAuth, table, online, pool, gameplay
<1>3. t \in AuthTask /\ t.session = s
  BY <1>1 DEF AuthTask
<1>4. /\ auth'[s] = "Authenticating"
      /\ \A r \in Session : r # s => auth'[r] = auth[r]
      /\ \A u \in authTasks' : u \in authTasks \/ u = t
  BY <1>1 DEF IInv, TypeOK
<1>5. state[s] = "open"
  BY <1>1 DEF IInv, Table, ReceiveAuth
<1> HIDE DEF s, t
<1>6. TypeOK'
  <2>1. /\ auth' \in [Session -> {"Unauthenticated", "Authenticating", "Authenticated"}]
        /\ authTasks' \in SUBSET AuthTask
    BY <1>1, <1>3 DEF IInv, TypeOK
  <2> QED
    BY <1>2, <2>1 DEF IInv, TypeOK
<1>7. Table'
  BY <1>1, <1>2, <1>4, <1>5 DEF IInv, Table
<1>8. Main'
  BY <1>1, <1>2, <1>4 DEF IInv, Main, Disconnecting, Publishing
<1>9. Requests'
  <2>1. /\ \A u \in authTasks : u.session \in Session
        /\ \A i \in 1 .. Len(authResults) : authResults[i].session \in Session
    BY RequestsTyped
  <2>2. /\ \A u \in authTasks : u.session # s
        /\ \A i \in 1 .. Len(authResults) : authResults[i].session # s
    BY <1>1 DEF IInv, Requests
  <2>3. \A r : ~Publishing(r)'
    BY <1>1, <1>2 DEF Publishing
  <2> QED
    BY <1>2, <1>3, <1>4, <2>1, <2>2, <2>3 DEF IInv, Requests
<1>10. Players'
  <2>1. player[s] = NoChar
    BY <1>1 DEF IInv, Players
  <2>2. \A r \in Session : (Playable(r)' <=> Playable(r)) /\ (Publishing(r)' <=> Publishing(r))
    BY <1>2 DEF Playable, Publishing
  <2> QED
    BY <1>2, <1>4, <2>1, <2>2 DEF IInv, Players
<1>11. Lanes'
  BY <1>1, <1>2, <1>4 DEF IInv, Lanes
<1>12. Counts' /\ Reachable' /\ UserCount'
  BY <1>2 DEF IInv, Counts, Publishing, Reachable, UserCount
<1> QED
  BY <1>6, <1>7, <1>8, <1>9, <1>10, <1>11, <1>12 DEF IInv

\* What changes the queues of tasks only, of authenticated sessions.
LEMMA SubmitKeeps ==
  ASSUME IInv, tasks' \in [Session -> Nat],
         \A s \in Session : tasks'[s] > 0 => auth[s] = "Authenticated",
         UNCHANGED <<table, auth, online, inFlight, lane, gameplay, authPool, main>>
  PROVE  IInv'
<1>1. /\ sessions' = sessions /\ nextSessionId' = nextSessionId /\ users' = users
      /\ fdOf' = fdOf /\ state' = state /\ inFlight' = inFlight /\ main' = main
      /\ player' = player /\ players' = players /\ sessionOf' = sessionOf
      /\ lane' = lane /\ gate' = gate /\ reach' = reach /\ auth' = auth
      /\ authResults' = authResults /\ authTasks' = authTasks
  BY DEF table, online, gameplay, authPool
<1>2. TypeOK'
  BY <1>1 DEF IInv, TypeOK
<1>3. Table' /\ Main' /\ Requests'
  BY <1>1 DEF IInv, Table, Main, Requests, Publishing, Disconnecting
<1>4. Players' /\ Counts' /\ Reachable' /\ UserCount'
  BY <1>1 DEF IInv, Players, Publishing, Playable, Counts, Reachable, UserCount
<1>5. Lanes'
  BY <1>1 DEF IInv, Lanes
<1> QED
  BY <1>2, <1>3, <1>4, <1>5 DEF IInv

\* OnReceive of any other packet submits a task of an authenticated session.
LEMMA ReceivePacketKeeps ==
  ASSUME IInv, NEW f \in Fd, ReceivePacket(f)
  PROVE  IInv'
<1> DEFINE s == sessions[f]
<1>1. /\ s \in Session /\ auth[s] = "Authenticated"
      /\ tasks' = [tasks EXCEPT ![s] = tasks[s] + 1]
  BY DEF IInv, TypeOK, ReceivePacket
<1> HIDE DEF s
<1>2. /\ tasks' \in [Session -> Nat]
      /\ \A r \in Session : tasks'[r] > 0 => auth[r] = "Authenticated"
  BY <1>1 DEF IInv, TypeOK, Lanes
<1> QED
  BY <1>2, SubmitKeeps DEF ReceivePacket

\* SchedulePlayerSaves submits tasks of open, authenticated sessions.
LEMMA SchedulePlayerSavesKeeps ==
  ASSUME IInv, SchedulePlayerSaves
  PROVE  IInv'
<1>1. PICK T : /\ \A s \in T : auth[s] = "Authenticated"
               /\ tasks' = [s \in Session |-> IF s \in T THEN tasks[s] + 1 ELSE tasks[s]]
  BY DEF SchedulePlayerSaves
<1>2. /\ tasks' \in [Session -> Nat]
      /\ \A r \in Session : tasks'[r] > 0 => auth[r] = "Authenticated"
  BY <1>1 DEF IInv, TypeOK, Lanes
<1> QED
  BY <1>2, SubmitKeeps DEF SchedulePlayerSaves

\* ProcessAuthResults takes the first result.
LEMMA ResultsTaken ==
  ASSUME IInv, authResults # <<>>, authResults' = Tail(authResults)
  PROVE  /\ Head(authResults) \in AuthResult
         /\ authResults' \in Seq(AuthResult)
         /\ Head(authResults) = authResults[1] /\ 1 \in 1 .. Len(authResults)
         /\ \A i \in 1 .. Len(authResults') :
              i + 1 \in 1 .. Len(authResults) /\ authResults'[i] = authResults[i + 1]
<1>1. authResults \in Seq(AuthResult)
  BY DEF IInv, TypeOK
<1> QED
  BY <1>1, HeadTailProperties, EmptySeq

\* ProcessAuthResults, up to AddPlayer: the session is counted before it is published.
LEMMA ProcessAuthResultKeeps ==
  ASSUME IInv, ProcessAuthResult
  PROVE  IInv'
<1> DEFINE r == Head(authResults)
           s == r.session
<1>1. /\ r \in AuthResult /\ s \in Session /\ r.char \in Character
      /\ authResults' \in Seq(AuthResult)
      /\ r = authResults[1] /\ 1 \in 1 .. Len(authResults)
      /\ \A i \in 1 .. Len(authResults') :
           i + 1 \in 1 .. Len(authResults) /\ authResults'[i] = authResults[i + 1]
  BY ResultsTaken DEF ProcessAuthResult, AuthResult
<1>2. /\ main = Loop /\ main.pc = "loop" /\ main.session = NoSession
      /\ sessions' = sessions /\ nextSessionId' = nextSessionId /\ users' = users
      /\ fdOf' = fdOf /\ state' = state /\ player' = player
      /\ tasks' = tasks /\ lane' = lane /\ gate' = gate /\ authTasks' = authTasks
  BY DEF ProcessAuthResult, Loop, table, pool
<1>3. auth[s] = "Authenticating"
  BY <1>1 DEF IInv, Requests
<1>4. /\ \A t \in authTasks : t.session \in Session /\ t.session # s
      /\ \A i \in 1 .. Len(authResults') :
           /\ authResults'[i].session \in Session /\ authResults'[i].session # s
           /\ auth[authResults'[i].session] = "Authenticating"
      /\ \A i, j \in 1 .. Len(authResults') :
           authResults'[i].session = authResults'[j].session => i = j
      /\ \A t \in authTasks, i \in 1 .. Len(authResults') :
           t.session # authResults'[i].session
  <2>1. /\ \A t \in authTasks : t.session \in Session
        /\ \A i \in 1 .. Len(authResults) : authResults[i].session \in Session
        /\ authResults \in Seq(AuthResult)
    BY RequestsTyped
  <2>2. Len(authResults) \in Nat /\ Len(authResults') \in Nat
    BY <1>1, <2>1, LenProperties
  <2>3. /\ \A i \in 1 .. Len(authResults) :
             auth[authResults[i].session] = "Authenticating"
        /\ \A i, j \in 1 .. Len(authResults) :
             authResults[i].session = authResults[j].session => i = j
        /\ \A t \in authTasks, i \in 1 .. Len(authResults) :
             t.session # authResults[i].session
    BY DEF IInv, Requests
  <2>4. \A t \in authTasks : t.session # s
    BY <1>1, <2>3
  <2>5. ASSUME NEW i \in 1 .. Len(authResults')
        PROVE  /\ authResults'[i].session \in Session /\ authResults'[i].session # s
               /\ auth[authResults'[i].session] = "Authenticating"
    <3>1. i + 1 \in 1 .. Len(authResults) /\ i + 1 # 1 /\ authResults'[i] = authResults[i + 1]
      BY <1>1, <2>2
    <3> QED
      BY <1>1, <2>1, <2>3, <3>1
  <2>6. ASSUME NEW i \in 1 .. Len(authResults'), NEW j \in 1 .. Len(authResults'),
               authResults'[i].session = authResults'[j].session
        PROVE  i = j
    <3>1. i + 1 = j + 1
      BY <1>1, <2>3, <2>6
    <3> QED
      BY <2>2, <3>1
  <2>7. \A t \in authTasks, i \in 1 .. Len(authResults') :
          t.session # authResults'[i].session
    BY <1>1, <2>3
  <2> QED
    BY <2>1, <2>4, <2>5, <2>6, <2>7
<1>5. player[s] = NoChar
  BY <1>1, <1>3 DEF IInv, Players
<1>6. Table' /\ UserCount'
  <2>1. auth' = auth \/ (state[s] = "open" /\ auth' = [auth EXCEPT ![s] = "Unauthenticated"])
    BY DEF ProcessAuthResult, ValidSession, NoSession
  <2> QED
    BY <1>1, <1>2, <2>1 DEF IInv, TypeOK, Table, UserCount
<1>7. CASE UNCHANGED <<auth, players, sessionOf, inFlight, reach, main>>
  <2>1. /\ auth' = auth /\ players' = players /\ sessionOf' = sessionOf
        /\ inFlight' = inFlight /\ reach' = reach /\ main' = main
    BY <1>7
  <2>2. TypeOK'
    BY <1>1, <1>2, <2>1 DEF IInv, TypeOK
  <2>3. Requests'
    <3>1. \A t \in authTasks : auth[t.session] = "Authenticating"
      BY DEF IInv, Requests
    <3>2. \A t, u \in authTasks : t.session = u.session => t = u
      BY DEF IInv, Requests
    <3>3. \A q : ~Publishing(q)'
      BY <1>2, <2>1 DEF Publishing
    <3> QED
      BY <1>2, <1>4, <2>1, <3>1, <3>2, <3>3 DEF Requests
  <2>4. Main' /\ Players' /\ Lanes' /\ Counts' /\ Reachable'
    BY <1>2, <2>1 DEF IInv, Main, Players, Lanes, Counts, Reachable, Publishing,
                      Disconnecting, Playable
  <2> QED
    BY <1>6, <2>2, <2>3, <2>4 DEF IInv
<1>8. CASE /\ state[s] = "open" /\ auth' = [auth EXCEPT ![s] = "Unauthenticated"]
           /\ UNCHANGED <<players, sessionOf, inFlight, reach, main>>
  <2>1. /\ players' = players /\ sessionOf' = sessionOf
        /\ inFlight' = inFlight /\ reach' = reach /\ main' = main
    BY <1>8
  <2>2. /\ auth'[s] = "Unauthenticated"
        /\ \A q \in Session : q # s => auth'[q] = auth[q]
        /\ auth' \in [Session -> {"Unauthenticated", "Authenticating", "Authenticated"}]
    BY <1>1, <1>8 DEF IInv, TypeOK
  <2> HIDE DEF s, r
  <2>3. TypeOK'
    BY <1>1, <1>2, <2>1, <2>2 DEF IInv, TypeOK
  <2>4. Requests'
    <3>1. \A t \in authTasks : auth'[t.session] = "Authenticating"
      BY <1>4, <2>2 DEF IInv, Requests
    <3>2. \A t, u \in authTasks : t.session = u.session => t = u
      BY DEF IInv, Requests
    <3>3. \A q : ~Publishing(q)'
      BY <1>2, <2>1 DEF Publishing
    <3>4. \A i \in 1 .. Len(authResults') : auth'[authResults'[i].session] = "Authenticating"
      BY <1>4, <2>2
    <3> QED
      BY <1>2, <1>4, <3>1, <3>2, <3>3, <3>4 DEF Requests
  <2>5. Main'
    BY <1>2, <2>1 DEF IInv, Main, Disconnecting, Publishing
  <2>6. Players'
    BY <1>2, <1>5, <2>1, <2>2 DEF IInv, Players, Publishing, Playable
  <2>7. Lanes'
    BY <1>2, <1>3, <2>1, <2>2 DEF IInv, Lanes
  <2>8. Counts' /\ Reachable'
    BY <1>2, <2>1 DEF IInv, Counts, Reachable, Publishing
  <2> QED
    BY <1>6, <2>3, <2>4, <2>5, <2>6, <2>7, <2>8 DEF IInv
<1>9. CASE /\ state[s] = "open" /\ r.char \notin players
           /\ inFlight' = [inFlight EXCEPT ![s] = inFlight[s] + 1]
           /\ players' = players \cup {r.char}
           /\ sessionOf' = [sessionOf EXCEPT ![r.char] = s]
           /\ main' = [pc |-> "auth", session |-> s, char |-> r.char]
           /\ reach' = IF gate = Nobody THEN reach ELSE reach \cup {s}
           /\ auth' = auth
  <2> DEFINE c == r.char
  <2>1. /\ main'.pc = "auth" /\ main'.session = s /\ main'.char = c /\ main' # Loop
        /\ main' \in [pc : {"loop", "auth", "wait", "finalize", "delete"},
                      session : Session \cup {NoSession},
                      char : Character \cup {NoChar}]
    BY <1>1, <1>9 DEF Loop
  <2>2. /\ sessionOf'[c] = s
        /\ \A d \in players : d \in Character /\ d # c /\ sessionOf'[d] = sessionOf[d]
        /\ sessionOf' \in [Character -> Session \cup {NoSession}]
        /\ players' = players \cup {c} /\ players' \subseteq Character
    BY <1>1, <1>9 DEF IInv, TypeOK
  <2>3. lane[s].pc = "idle" /\ inFlight[s] = 0
    BY <1>1, <1>2, <1>3 DEF IInv, Lanes, Counts, Publishing
  <2>4. /\ inFlight' \in [Session -> Nat] /\ inFlight'[s] = 1
        /\ \A q \in Session : q # s => inFlight'[q] = inFlight[q]
    BY <1>1, <1>9, <2>3 DEF IInv, TypeOK
  <2>5. reach' \subseteq reach \cup {s} /\ (gate = Nobody => reach' = reach)
    BY <1>9
  <2>6. state[s] = "open" /\ auth' = auth /\ c \in Character
    BY <1>1, <1>9
  <2>7. s # NoSession
    BY <1>1 DEF Session, NoSession
  <2> HIDE DEF s, r, c
  <2>8. /\ \A q \in Session : Publishing(q)' <=> q = s
        /\ \A q \in Session : ~Disconnecting(q)' /\ ~Disconnecting(q) /\ ~Publishing(q)
        /\ \A q \in Session : Playable(q)' <=> Playable(q)
    BY <1>1, <1>2, <2>1 DEF Publishing, Disconnecting, Playable
  <2>9. TypeOK'
    BY <1>1, <1>2, <2>1, <2>2, <2>4, <2>5, <2>6 DEF IInv, TypeOK
  <2>10. Main'
    BY <1>1, <1>2, <1>3, <2>1, <2>2, <2>6, <2>8 DEF IInv, Main
  <2>11. Requests'
    BY <1>1, <1>2, <1>4, <2>6, <2>8 DEF IInv, Requests
  <2>12. Players'
    <3>1. \A q \in Session : player[q] # NoChar => q # s /\ player[q] \in players
      BY <1>5 DEF IInv, Players
    <3>2. \A q \in Session : player[q] # NoChar => sessionOf'[player[q]] = q
      BY <2>2, <3>1 DEF IInv, Players
    <3>3. \A d \in players : sessionOf[d] \in Session /\ player[sessionOf[d]] = d
      BY <2>8 DEF IInv, Players
    <3>4. \A d \in players' :
            /\ sessionOf'[d] \in Session
            /\ player[sessionOf'[d]] = d \/ (sessionOf'[d] = s /\ d = c)
      BY <1>1, <2>2, <3>3
    <3> QED
      BY <1>2, <2>1, <2>2, <2>6, <2>8, <3>1, <3>2, <3>4 DEF IInv, Players
  <2>13. Lanes'
    BY <1>2, <2>3, <2>6 DEF IInv, Lanes
  <2>14. Counts'
    BY <1>2, <2>3, <2>4, <2>8 DEF IInv, Counts
  <2>15. Reachable'
    <3>1. \A q \in reach : \E d \in players' : sessionOf'[d] = q
      BY <2>2 DEF IInv, Reachable
    <3>2. \E d \in players' : sessionOf'[d] = s
      BY <2>2
    <3> QED
      BY <1>2, <2>5, <3>1, <3>2 DEF IInv, Reachable
  <2> QED
    BY <1>6, <2>9, <2>10, <2>11, <2>12, <2>13, <2>14, <2>15 DEF IInv
<1> QED
  BY <1>7, <1>8, <1>9 DEF ProcessAuthResult, ValidSession, BeginTask, MayAdd, NoSession

\* ProcessAuthResults, from SetPlayer on: the session and its player agree again.
LEMMA FinishAuthKeeps ==
  ASSUME IInv, FinishAuth
  PROVE  IInv'
<1> DEFINE s == main.session
           c == main.char
<1>1. /\ main.pc = "auth" /\ s \in Session /\ Publishing(s)
      /\ state[s] = "open" /\ auth[s] = "Authenticating"
      /\ c \in players /\ c \in Character /\ c # NoChar /\ sessionOf[c] = s
      /\ \A q \in Session : Publishing(q) => q = s
  BY NullAssumption DEF IInv, TypeOK, FinishAuth, Main, Publishing
<1>2. /\ player' = [player EXCEPT ![s] = c]
      /\ auth' = [auth EXCEPT ![s] = "Authenticated"]
      /\ inFlight' = [inFlight EXCEPT ![s] = IF inFlight[s] > 0 THEN inFlight[s] - 1 ELSE 0]
      /\ main' = Loop
      /\ sessions' = sessions /\ nextSessionId' = nextSessionId /\ users' = users
      /\ fdOf' = fdOf /\ state' = state /\ players' = players /\ sessionOf' = sessionOf
      /\ tasks' = tasks /\ lane' = lane /\ gate' = gate /\ reach' = reach
      /\ authTasks' = authTasks /\ authResults' = authResults
  BY DEF FinishAuth, EndTask, table, pool, gameplay, authPool
<1> HIDE DEF s, c
<1>3. /\ player'[s] = c /\ auth'[s] = "Authenticated"
      /\ \A q \in Session : q # s => player'[q] = player[q] /\ auth'[q] = auth[q]
      /\ player' \in [Session -> Character \cup {NoChar}]
      /\ auth' \in [Session -> {"Unauthenticated", "Authenticating", "Authenticated"}]
  BY <1>1, <1>2 DEF IInv, TypeOK
<1>4. lane[s].pc = "idle" /\ inFlight[s] = 1
  BY <1>1 DEF IInv, Lanes, Counts
<1>5. /\ inFlight'[s] = 0 /\ inFlight' \in [Session -> Nat]
      /\ \A q \in Session : q # s => inFlight'[q] = inFlight[q]
  BY <1>1, <1>2, <1>4 DEF IInv, TypeOK
<1>6. /\ \A q \in Session : ~Disconnecting(q)' /\ ~Publishing(q)'
      /\ \A q \in Session : Playable(q)' <=> state[q] = "open"
      /\ main'.pc = "loop"
  BY <1>2, BackAtLoop
<1>7. \A q \in Session : ~Disconnecting(q) /\ (Playable(q) <=> state[q] = "open")
  BY <1>1 DEF Disconnecting, Playable
<1>8. TypeOK'
  <2>1. main' \in [pc : {"loop", "auth", "wait", "finalize", "delete"},
                   session : Session \cup {NoSession}, char : Character \cup {NoChar}]
    BY <1>2 DEF Loop
  <2> QED
    BY <1>2, <1>3, <1>5, <2>1 DEF IInv, TypeOK
<1>9. Table'
  <2>1. \A q \in Session : state[q] = "none" => auth'[q] = "Unauthenticated"
    BY <1>1, <1>3 DEF IInv, Table
  <2> QED
    BY <1>2, <2>1 DEF IInv, Table
<1>10. Main'
  BY <1>2, <1>6, <1>7 DEF IInv, Main
<1>11. Requests'
  <2>1. /\ \A t \in authTasks : t.session # s
        /\ \A i \in 1 .. Len(authResults) : authResults[i].session # s
    BY <1>1 DEF IInv, Requests
  <2>2. \A q : ~Publishing(q)'
    BY <1>6 DEF Publishing
  <2> QED
    BY <1>2, <1>3, <2>1, <2>2, RequestsTyped DEF IInv, Requests
<1>12. Players'
  <2>1. player[s] = NoChar
    BY <1>1 DEF IInv, Players
  <2>2. ASSUME NEW q \in Session, player'[q] # NoChar
        PROVE  /\ auth'[q] = "Authenticated" /\ Playable(q)'
               /\ player'[q] \in players /\ sessionOf[player'[q]] = q
    BY <1>1, <1>3, <1>6, <1>7, <2>2 DEF IInv, Players
  <2>3. ASSUME NEW q \in Session, auth'[q] = "Authenticated", Playable(q)'
        PROVE  player'[q] # NoChar
    BY <1>1, <1>3, <1>6, <1>7, <2>3 DEF IInv, Players
  <2>4. ASSUME NEW d \in players
        PROVE  sessionOf[d] \in Session /\ player'[sessionOf[d]] = d
    <3>1. /\ sessionOf[d] \in Session
          /\ player[sessionOf[d]] = d \/ (Publishing(sessionOf[d]) /\ d = c)
      BY DEF IInv, Players, c
    <3>2. d # NoChar
      BY NullAssumption DEF IInv, TypeOK
    <3> QED
      BY <1>1, <1>3, <2>1, <3>1, <3>2
  <2> QED
    BY <1>2, <2>2, <2>3, <2>4 DEF Players
<1>13. Lanes'
  BY <1>1, <1>2, <1>3, <1>4 DEF IInv, Lanes
<1>14. Counts'
  BY <1>1, <1>2, <1>4, <1>5, <1>6 DEF IInv, Counts
<1>15. Reachable' /\ UserCount'
  BY <1>2 DEF IInv, Reachable, UserCount
<1> QED
  BY <1>8, <1>9, <1>10, <1>11, <1>12, <1>13, <1>14, <1>15 DEF IInv

\* OnDisconnect takes the session out of the table, so that no new task gets it.
LEMMA OnDisconnectKeeps ==
  ASSUME IInv, NEW f \in Fd, OnDisconnect(f)
  PROVE  IInv'
<1> DEFINE s == sessions[f]
<1>1. /\ s \in Session /\ s # NoSession /\ state[s] = "open" /\ fdOf[s] = f
      /\ main = Loop /\ main.pc = "loop"
  BY DEF IInv, TypeOK, Table, OnDisconnect, Loop
<1>2. /\ state' = [state EXCEPT ![s] = "closing"]
      /\ main' = [pc |-> "wait", session |-> s, char |-> NoChar]
      /\ sessions' = [sessions EXCEPT ![f] = NoSession]
      /\ nextSessionId' = nextSessionId /\ users' = users /\ fdOf' = fdOf
      /\ auth' = auth /\ inFlight' = inFlight
      /\ player' = player /\ players' = players /\ sessionOf' = sessionOf
      /\ tasks' = tasks /\ lane' = lane /\ gate' = gate /\ reach' = reach
      /\ authTasks' = authTasks /\ authResults' = authResults
  BY DEF OnDisconnect, online, pool, gameplay, authPool
<1>3. /\ sessions'[f] = NoSession
      /\ \A g \in Fd : g # f => sessions'[g] = sessions[g] /\ sessions[g] # s
  BY <1>1, <1>2 DEF IInv, TypeOK, Table
<1> HIDE DEF s
<1>4. /\ main'.pc = "wait" /\ main'.session = s /\ main' # Loop
      /\ main' \in [pc : {"loop", "auth", "wait", "finalize", "delete"},
                    session : Session \cup {NoSession}, char : Character \cup {NoChar}]
  BY <1>1, <1>2 DEF Loop
<1>5. /\ state'[s] = "closing"
      /\ \A q \in Session : q # s => state'[q] = state[q]
      /\ state' \in [Session -> {"none", "open", "closing", "deleted"}]
      /\ sessions' \in [Fd -> Session \cup {NoSession}]
  BY <1>1, <1>2 DEF IInv, TypeOK
<1>6. /\ \A q : ~Publishing(q) /\ ~Publishing(q)'
      /\ \A q \in Session : ~Disconnecting(q)
      /\ \A q \in Session : Disconnecting(q)' <=> q = s
      /\ \A q \in Session : Playable(q)' <=> Playable(q)
  BY <1>1, <1>4, <1>5 DEF Publishing, Disconnecting, Playable
<1>7. TypeOK'
  BY <1>2, <1>4, <1>5 DEF IInv, TypeOK
<1>8. Table'
  <2>1. \A g \in Fd : sessions'[g] # NoSession =>
          state'[sessions'[g]] = "open" /\ fdOf[sessions'[g]] = g
    BY <1>3, <1>5 DEF IInv, TypeOK, Table
  <2>2. \A q \in Session : state'[q] = "none" <=> state[q] = "none"
    BY <1>1, <1>5
  <2> QED
    BY <1>2, <2>1, <2>2 DEF IInv, Table
<1>9. Main'
  BY <1>1, <1>4, <1>5, <1>6 DEF IInv, Main
<1>10. Requests'
  BY <1>2, <1>6 DEF IInv, Requests
<1>11. Players'
  BY <1>2, <1>6 DEF IInv, Players
<1>12. Lanes'
  BY <1>1, <1>2, <1>4, <1>5 DEF IInv, Lanes
<1>13. Counts' /\ Reachable'
  BY <1>2, <1>6 DEF IInv, Counts, Reachable
<1>14. UserCount'
  <2>1. Connected(state') = Connected(state)
    BY <1>1, <1>5 DEF Connected
  <2> QED
    BY <1>2, <2>1 DEF IInv, UserCount
<1> QED
  BY <1>7, <1>8, <1>9, <1>10, <1>11, <1>12, <1>13, <1>14 DEF IInv

\* WaitForNoTasks returns when no lane runs a task of the session.
LEMMA WaitForNoTasksKeeps ==
  ASSUME IInv, WaitForNoTasks
  PROVE  IInv'
<1> DEFINE s == main.session
<1>1. /\ main.pc = "wait" /\ s \in Session /\ inFlight[s] = 0
      /\ main' = [main EXCEPT !.pc = "finalize"]
  BY DEF IInv, Main, WaitForNoTasks, NoTasks
<1>2. /\ sessions' = sessions /\ nextSessionId' = nextSessionId /\ users' = users
      /\ fdOf' = fdOf /\ state' = state /\ auth' = auth /\ inFlight' = inFlight
      /\ player' = player /\ players' = players /\ sessionOf' = sessionOf
      /\ tasks' = tasks /\ lane' = lane /\ gate' = gate /\ reach' = reach
      /\ authTasks' = authTasks /\ authResults' = authResults
  BY DEF WaitForNoTasks, table, online, pool, gameplay, authPool
<1>3. /\ main'.pc = "finalize" /\ main'.session = s /\ main' # Loop
      /\ main' \in [pc : {"loop", "auth", "wait", "finalize", "delete"},
                    session : Session \cup {NoSession}, char : Character \cup {NoChar}]
  BY <1>1 DEF IInv, TypeOK, Loop
<1>4. /\ \A q : ~Publishing(q) /\ ~Publishing(q)'
      /\ \A q \in Session : Disconnecting(q)' <=> Disconnecting(q)
      /\ \A q \in Session : Playable(q)' <=> Playable(q)
  BY <1>1, <1>2, <1>3 DEF Publishing, Disconnecting, Playable
<1>5. TypeOK'
  BY <1>2, <1>3 DEF IInv, TypeOK
<1>6. Table' /\ Reachable' /\ UserCount'
  BY <1>2 DEF IInv, Table, Reachable, UserCount
<1>7. Main'
  BY <1>1, <1>2, <1>3, <1>4 DEF IInv, Main
<1>8. Requests' /\ Players' /\ Counts'
  BY <1>2, <1>4 DEF IInv, Requests, Players, Counts
<1>9. Lanes'
  <2>1. lane[s].pc = "idle"
    BY <1>1 DEF IInv, Counts
  <2>2. \A q \in Session : lane[q].pc # "idle" => state[q] = "open"
    BY <1>1, <2>1 DEF IInv, Lanes
  <2> QED
    BY <1>2, <2>2 DEF IInv, Lanes
<1> QED
  BY <1>5, <1>6, <1>7, <1>8, <1>9 DEF IInv

\* FinalizePlayer holds the gate, so nobody can have read the pointer it takes away.
LEMMA FinalizePlayerKeeps ==
  ASSUME IInv, FinalizePlayer
  PROVE  IInv'
<1> DEFINE s == main.session
           c == player[s]
<1>1. /\ main.pc = "finalize" /\ s \in Session /\ gate = Nobody /\ reach = {}
      /\ main' = [main EXCEPT !.pc = "delete"] /\ state[s] = "closing"
  BY DEF IInv, Main, FinalizePlayer, Disconnecting, Reachable
<1>2. /\ sessions' = sessions /\ nextSessionId' = nextSessionId /\ users' = users
      /\ fdOf' = fdOf /\ state' = state /\ auth' = auth /\ inFlight' = inFlight
      /\ tasks' = tasks /\ lane' = lane /\ gate' = gate /\ reach' = reach
      /\ authTasks' = authTasks /\ authResults' = authResults
  BY DEF FinalizePlayer, table, pool, gameplay, authPool
<1>3. /\ main'.pc = "delete" /\ main'.session = s /\ main' # Loop
      /\ main' \in [pc : {"loop", "auth", "wait", "finalize", "delete"},
                    session : Session \cup {NoSession}, char : Character \cup {NoChar}]
  BY <1>1 DEF IInv, TypeOK, Loop
<1>4. \/ c = NoChar /\ player' = player /\ players' = players /\ sessionOf' = sessionOf
      \/ /\ c # NoChar /\ players' = players \ {c}
         /\ sessionOf' = [sessionOf EXCEPT ![c] = NoSession]
         /\ player' = [player EXCEPT ![s] = NoChar]
  BY DEF FinalizePlayer, RemovePlayer, online
<1>5. /\ player'[s] = NoChar
      /\ \A q \in Session : q # s => player'[q] = player[q]
      /\ player' \in [Session -> Character \cup {NoChar}]
  BY <1>1, <1>4 DEF IInv, TypeOK
<1>6. /\ players' = players \ {c}
      /\ \A d \in players : d # c => sessionOf'[d] = sessionOf[d]
      /\ sessionOf' \in [Character -> Session \cup {NoSession}]
      /\ players' \subseteq Character
  <2>1. /\ players \subseteq Character /\ NoChar \notin players
        /\ sessionOf \in [Character -> Session \cup {NoSession}]
        /\ c \in Character \cup {NoChar}
    BY <1>1, NullAssumption DEF IInv, TypeOK
  <2> HIDE DEF c
  <2> QED
    BY <1>4, <2>1
<1>7. /\ \A q : ~Publishing(q) /\ ~Publishing(q)'
      /\ \A q \in Session : Disconnecting(q)' <=> Disconnecting(q)
      /\ \A q \in Session : Playable(q)' <=> state[q] = "open"
      /\ \A q \in Session : q # s => (Playable(q) <=> state[q] = "open")
  BY <1>1, <1>2, <1>3 DEF Publishing, Disconnecting, Playable
<1>8. TypeOK'
  BY <1>2, <1>3, <1>5, <1>6 DEF IInv, TypeOK
<1>9. Table' /\ Reachable' /\ UserCount'
  BY <1>1, <1>2 DEF IInv, Table, Reachable, UserCount
<1>10. Main'
  BY <1>1, <1>2, <1>3, <1>7 DEF IInv, Main
<1>11. Requests' /\ Counts'
  BY <1>2, <1>7 DEF IInv, Requests, Counts
<1>12. Players'
  <2>1. ASSUME NEW q \in Session, player'[q] # NoChar
        PROVE  /\ auth[q] = "Authenticated" /\ state[q] = "open"
               /\ player'[q] \in players' /\ sessionOf'[player'[q]] = q
    <3>1. /\ q # s /\ player'[q] = player[q] /\ player[q] # NoChar
          /\ auth[q] = "Authenticated" /\ state[q] = "open"
          /\ player[q] \in players /\ sessionOf[player[q]] = q
      BY <1>5, <1>7, <2>1 DEF IInv, Players
    <3>2. player[q] # c
      BY <1>1, <3>1 DEF IInv, Players
    <3> QED
      BY <1>6, <3>1, <3>2
  <2>2. ASSUME NEW q \in Session, auth[q] = "Authenticated", state[q] = "open"
        PROVE  player'[q] # NoChar
    BY <1>1, <1>5, <1>7, <2>2 DEF IInv, Players
  <2>3. ASSUME NEW d \in players'
        PROVE  sessionOf'[d] \in Session /\ player'[sessionOf'[d]] = d
    <3>1. /\ d \in players /\ d # c /\ sessionOf'[d] = sessionOf[d]
          /\ sessionOf[d] \in Session /\ player[sessionOf[d]] = d
      BY <1>6, <1>7, <2>3 DEF IInv, Players
    <3>2. sessionOf[d] # s
      BY <3>1
    <3> QED
      BY <1>5, <3>1, <3>2
  <2> QED
    BY <1>2, <1>7, <2>1, <2>2, <2>3 DEF Players
<1>13. Lanes'
  BY <1>1, <1>2 DEF IInv, Lanes
<1> QED
  BY <1>8, <1>9, <1>10, <1>11, <1>12, <1>13 DEF IInv

\* OnDisconnect deletes a session that no thread can come to and counts one user less.
LEMMA DeleteSessionKeeps ==
  ASSUME IInv, DeleteSession
  PROVE  IInv'
<1> DEFINE s == main.session
<1>1. /\ main.pc = "delete" /\ s \in Session /\ state[s] = "closing"
      /\ users' = IF users > 0 THEN users - 1 ELSE 0
      /\ state' = [state EXCEPT ![s] = "deleted"] /\ main' = Loop
  BY DEF IInv, Main, DeleteSession, Disconnecting
<1>2. /\ sessions' = sessions /\ nextSessionId' = nextSessionId /\ fdOf' = fdOf
      /\ auth' = auth /\ inFlight' = inFlight
      /\ player' = player /\ players' = players /\ sessionOf' = sessionOf
      /\ tasks' = tasks /\ lane' = lane /\ gate' = gate /\ reach' = reach
      /\ authTasks' = authTasks /\ authResults' = authResults
  BY DEF DeleteSession, online, pool, gameplay, authPool
<1>3. /\ main'.pc = "loop"
      /\ main' \in [pc : {"loop", "auth", "wait", "finalize", "delete"},
                    session : Session \cup {NoSession}, char : Character \cup {NoChar}]
      /\ \A q : ~Publishing(q) /\ ~Publishing(q)'
      /\ \A q \in Session : ~Disconnecting(q)' /\ (Disconnecting(q) <=> q = s)
      /\ \A q \in Session : Playable(q)' <=> state'[q] = "open"
      /\ \A q \in Session : Playable(q) <=> state[q] = "open"
  BY <1>1 DEF Loop, Publishing, Disconnecting, Playable
<1> HIDE DEF s
<1>4. /\ state'[s] = "deleted"
      /\ \A q \in Session : q # s => state'[q] = state[q]
      /\ state' \in [Session -> {"none", "open", "closing", "deleted"}]
      /\ \A q \in Session : state'[q] = "open" <=> state[q] = "open"
      /\ \A q \in Session : state'[q] = "none" <=> state[q] = "none"
  BY <1>1 DEF IInv, TypeOK
<1>5. users > 0 /\ users' = users - 1 /\ users' = Cardinality(Connected(state'))
  <2>1. s \in Connected(state) /\ Connected(state') = Connected(state) \ {s}
    BY <1>1, <1>4 DEF Connected
  <2>2. /\ users > 0 /\ users = Cardinality(Connected(state))
        /\ Cardinality(Connected(state')) = users - 1
    BY <1>1, <2>1, OneConnectionLess DEF IInv, UserCount
  <2> QED
    BY <1>1, <2>2
<1>6. TypeOK'
  <2>1. users' \in 0 .. MaxUsers
    BY <1>5, SessionAssumption DEF IInv, TypeOK
  <2> QED
    BY <1>2, <1>3, <1>4, <2>1 DEF IInv, TypeOK
<1>7. Table'
  BY <1>2, <1>4 DEF IInv, TypeOK, Table
<1>8. Main'
  BY <1>1, <1>3, <1>4 DEF IInv, Main
<1>9. Requests'
  BY <1>2, <1>3 DEF IInv, Requests
<1>10. Players'
  BY <1>2, <1>3, <1>4 DEF IInv, Players
<1>11. Lanes'
  BY <1>1, <1>2, <1>4 DEF IInv, Lanes
<1>12. Counts' /\ Reachable'
  BY <1>2, <1>3 DEF IInv, Counts, Reachable
<1> QED
  BY <1>5, <1>6, <1>7, <1>8, <1>9, <1>10, <1>11, <1>12 DEF IInv, UserCount

\* A ChannelAuthTask ends in one result for its session.
LEMMA PushAuthResultKeeps ==
  ASSUME IInv, NEW t \in authTasks, NEW ok \in BOOLEAN, PushAuthResult(t, ok)
  PROVE  IInv'
<1> DEFINE r == [session |-> t.session, char |-> t.char, success |-> ok]
           n == Len(authResults)
<1>1. /\ authTasks' = authTasks \ {t} /\ authResults' = Append(authResults, r)
      /\ sessions' = sessions /\ nextSessionId' = nextSessionId /\ users' = users
      /\ fdOf' = fdOf /\ state' = state /\ auth' = auth /\ inFlight' = inFlight
      /\ player' = player /\ players' = players /\ sessionOf' = sessionOf
      /\ tasks' = tasks /\ lane' = lane /\ gate' = gate /\ reach' = reach
      /\ main' = main
  BY DEF PushAuthResult, table, online, pool, gameplay
<1>2. /\ t \in AuthTask /\ authTasks \subseteq AuthTask
      /\ authResults \in Seq(AuthResult)
  BY DEF IInv, TypeOK
<1>3. r \in AuthResult /\ r.session = t.session
  BY <1>2 DEF AuthTask, AuthResult
<1> HIDE DEF r
<1>4. /\ n \in Nat /\ authResults' \in Seq(AuthResult)
      /\ Len(authResults') = n + 1
      /\ authResults'[n + 1] = r
      /\ \A i \in 1 .. n : authResults'[i] = authResults[i]
  BY <1>1, <1>2, <1>3, AppendProperties, LenProperties
<1> HIDE DEF n
<1>5. TypeOK'
  BY <1>1, <1>2, <1>4 DEF IInv, TypeOK
<1>6. \A i \in 1 .. Len(authResults') :
        \/ i \in 1 .. n /\ authResults'[i] = authResults[i]
        \/ i = n + 1 /\ authResults'[i].session = t.session
  BY <1>3, <1>4
<1>7. Requests'
  <2>1. /\ \A u \in authTasks : auth[u.session] = "Authenticating" /\ ~Publishing(u.session)
        /\ \A i \in 1 .. n :
             /\ auth[authResults[i].session] = "Authenticating"
             /\ ~Publishing(authResults[i].session)
             /\ \A u \in authTasks : u.session # authResults[i].session
        /\ \A i, j \in 1 .. n : authResults[i].session = authResults[j].session => i = j
        /\ \A u \in authTasks : u # t => u.session # t.session
    BY DEF IInv, Requests, n
  <2>3. \A i \in 1 .. Len(authResults') :
          /\ auth[authResults'[i].session] = "Authenticating"
          /\ ~Publishing(authResults'[i].session)
          /\ \A u \in authTasks' : u.session # authResults'[i].session
    BY <1>1, <1>6, <2>1
  <2>4. ASSUME NEW i \in 1 .. Len(authResults'), NEW j \in 1 .. Len(authResults'),
               authResults'[i].session = authResults'[j].session
        PROVE  i = j
    BY <1>6, <2>1, <2>4
  <2>5. /\ \A u \in authTasks' : auth[u.session] = "Authenticating" /\ ~Publishing(u.session)
        /\ \A u, v \in authTasks' : u.session = v.session => u = v
    BY <1>1 DEF IInv, Requests
  <2>6. (\A i \in 1 .. Len(authResults) :
           auth[authResults[i].session] = "Authenticating" /\ ~Publishing(authResults[i].session))'
    BY <1>1, <2>3 DEF Publishing
  <2>7. (\A u \in authTasks : auth[u.session] = "Authenticating" /\ ~Publishing(u.session))'
    BY <1>1, <2>5 DEF Publishing
  <2> QED
    BY <1>1, <2>3, <2>4, <2>5, <2>6, <2>7 DEF Requests
<1>8. Table' /\ Main' /\ Players' /\ Lanes' /\ Counts' /\ Reachable' /\ UserCount'
  BY <1>1 DEF IInv, Table, Main, Players, Lanes, Counts, Reachable, UserCount,
              Disconnecting, Publishing, Playable
<1> QED
  BY <1>5, <1>7, <1>8 DEF IInv

\* What changes the lanes, the gate and the counts only.
LEMMA PoolKeeps ==
  ASSUME IInv,
         lane' \in [Session -> [pc : LanePc, session : Session \cup {NoSession}]],
         tasks' \in [Session -> Nat], inFlight' \in [Session -> Nat],
         gate' \in 0 .. (MaxSession + 1), reach' \subseteq Session,
         Lanes', Counts', Reachable',
         UNCHANGED <<table, auth, online, authPool, main>>
  PROVE  IInv'
<1>1. /\ sessions' = sessions /\ nextSessionId' = nextSessionId /\ users' = users
      /\ fdOf' = fdOf /\ state' = state /\ auth' = auth
      /\ player' = player /\ players' = players /\ sessionOf' = sessionOf
      /\ authTasks' = authTasks /\ authResults' = authResults /\ main' = main
  BY DEF table, online, authPool
<1>2. TypeOK'
  BY <1>1 DEF IInv, TypeOK
<1>3. Table' /\ Main' /\ Requests' /\ Players' /\ UserCount'
  BY <1>1 DEF IInv, Table, Main, Requests, Players, UserCount, Disconnecting,
              Publishing, Playable
<1> QED
  BY <1>2, <1>3 DEF IInv

\* The types of the lanes, from the invariant.
LEMMA LaneTypes ==
  ASSUME IInv
  PROVE  /\ lane \in [Session -> [pc : LanePc, session : Session \cup {NoSession}]]
         /\ tasks \in [Session -> Nat] /\ inFlight \in [Session -> Nat]
         /\ gate \in 0 .. (MaxSession + 1) /\ reach \subseteq Session
         /\ state \in [Session -> {"none", "open", "closing", "deleted"}]
BY DEF IInv, TypeOK

\* BeginValidSessionTask counts the task in the session it hands out.
LEMMA TaskBeginKeeps ==
  ASSUME IInv, NEW s \in Session, TaskBegin(s)
  PROVE  IInv'
<1> USE LaneTypes
<1>1. /\ lane[s] = Idle /\ lane[s].pc = "idle" /\ tasks[s] > 0
      /\ tasks' = [tasks EXCEPT ![s] = tasks[s] - 1]
      /\ gate' = gate /\ reach' = reach
      /\ auth' = auth /\ state' = state /\ main' = main
      /\ players' = players /\ sessionOf' = sessionOf
      /\ UNCHANGED <<table, auth, online, authPool, main>>
  BY DEF TaskBegin, Idle, table, online, gameplay
<1>2. auth[s] = "Authenticated"
  BY <1>1 DEF IInv, Lanes
<1>3. /\ tasks' \in [Session -> Nat]
      /\ \A q \in Session : tasks'[q] > 0 => tasks[q] > 0
  BY <1>1
<1>4. Reachable'
  BY <1>1 DEF IInv, Reachable
<1>5. CASE inFlight' = inFlight /\ lane' = lane
  <2>1. Lanes' /\ Counts'
    BY <1>1, <1>3, <1>5 DEF IInv, Lanes, Counts, Publishing
  <2> QED
    BY <1>1, <1>3, <1>4, <1>5, <2>1, PoolKeeps
<1>6. CASE /\ state[s] = "open"
           /\ inFlight' = [inFlight EXCEPT ![s] = inFlight[s] + 1]
           /\ lane' = [lane EXCEPT ![s] = [pc |-> "begun", session |-> s]]
  <2>1. /\ lane'[s].pc = "begun" /\ lane'[s].session = s
        /\ \A q \in Session : q # s => lane'[q] = lane[q]
        /\ lane' \in [Session -> [pc : LanePc, session : Session \cup {NoSession}]]
    BY <1>6 DEF LanePc
  <2>2. inFlight[s] = 0
    BY <1>1, <1>2 DEF IInv, Counts, Publishing, Main
  <2>3. /\ inFlight'[s] = 1
        /\ \A q \in Session : q # s => inFlight'[q] = inFlight[q]
        /\ inFlight' \in [Session -> Nat]
    BY <1>6, <2>2
  <2>4. Lanes'
    BY <1>1, <1>2, <1>3, <1>6, <2>1 DEF IInv, Lanes
  <2>5. Counts'
    BY <1>1, <2>1, <2>3 DEF IInv, Counts, Publishing
  <2> QED
    BY <1>1, <1>3, <1>4, <2>1, <2>3, <2>4, <2>5, PoolKeeps
<1> QED
  BY <1>5, <1>6 DEF TaskBegin, ValidSession, BeginTask, NoSession

\* Taking the gate and leaving it.
LEMMA GateKeeps ==
  ASSUME IInv, NEW who \in 0 .. (MaxSession + 1), TakeGate(who) \/ LeaveGate,
         players' = players, sessionOf' = sessionOf
  PROVE  /\ gate' \in 0 .. (MaxSession + 1) /\ reach' \subseteq Session
         /\ Reachable' \/ who = Nobody
<1>1. CASE TakeGate(who)
  <2>1. gate' = who /\ reach' = {sessionOf[c] : c \in players}
    BY <1>1 DEF TakeGate
  <2>2. \A c \in players : sessionOf[c] \in Session
    BY DEF IInv, Players
  <2> QED
    BY <2>1, <2>2 DEF Reachable
<1>2. CASE LeaveGate
  <2>1. gate' = 0 /\ reach' = {}
    BY <1>2 DEF LeaveGate, Nobody
  <2> QED
    BY <2>1, SessionAssumption DEF Reachable
<1> QED
  BY <1>1, <1>2

\* A task that takes or leaves the gate stays counted in its session.
LEMMA TaskGateKeeps ==
  ASSUME IInv, NEW s \in Session, TaskEnterGate(s) \/ TaskLeaveGate(s)
  PROVE  IInv'
<1> USE LaneTypes
<1>1. /\ TakeGate(s) \/ LeaveGate
      /\ lane[s].pc # "idle"
      /\ \E pc \in {"gate", "end"} : lane' = [lane EXCEPT ![s] = [lane[s] EXCEPT !.pc = pc]]
      /\ tasks' = tasks /\ inFlight' = inFlight
      /\ auth' = auth /\ state' = state /\ main' = main
      /\ players' = players /\ sessionOf' = sessionOf
      /\ UNCHANGED <<table, auth, online, authPool, main>>
  BY DEF TaskEnterGate, TaskLeaveGate, table, online
<1>2. s \in 0 .. (MaxSession + 1) /\ s # Nobody
  BY SessionAssumption DEF Session, Nobody
<1>3. gate' \in 0 .. (MaxSession + 1) /\ reach' \subseteq Session /\ Reachable'
  BY <1>1, <1>2, GateKeeps
<1>4. /\ lane'[s].pc # "idle" /\ lane'[s].session = lane[s].session
      /\ \A q \in Session : q # s => lane'[q] = lane[q]
      /\ lane' \in [Session -> [pc : LanePc, session : Session \cup {NoSession}]]
  BY <1>1 DEF LanePc
<1>5. Lanes'
  BY <1>1, <1>4 DEF IInv, Lanes
<1>6. Counts'
  BY <1>1, <1>4 DEF IInv, Counts, Publishing
<1> QED
  BY <1>1, <1>3, <1>4, <1>5, <1>6, PoolKeeps

\* EndSessionTask counts the task down when its lane has let go of the session.
LEMMA TaskEndKeeps ==
  ASSUME IInv, NEW s \in Session, TaskEnd(s)
  PROVE  IInv'
<1> USE LaneTypes
<1>1. /\ lane[s].pc = "end" /\ lane' = [lane EXCEPT ![s] = Idle]
      /\ tasks' = tasks /\ gate' = gate /\ reach' = reach
      /\ auth' = auth /\ state' = state /\ main' = main
      /\ players' = players /\ sessionOf' = sessionOf
      /\ UNCHANGED <<table, auth, online, authPool, main>>
  BY DEF TaskEnd, table, online, gameplay
<1>2. lane[s].session = s /\ inFlight[s] = 1 /\ auth[s] = "Authenticated"
  BY <1>1 DEF IInv, Lanes, Counts
<1>3. /\ inFlight' = [inFlight EXCEPT ![s] = 0]
      /\ inFlight' \in [Session -> Nat]
  BY <1>2 DEF TaskEnd, EndTask
<1>4. /\ lane'[s].pc = "idle"
      /\ \A q \in Session : q # s => lane'[q] = lane[q]
      /\ lane' \in [Session -> [pc : LanePc, session : Session \cup {NoSession}]]
  BY <1>1 DEF Idle, LanePc
<1>5. Lanes'
  BY <1>1, <1>4 DEF IInv, Lanes
<1>6. ~Publishing(s)
  BY <1>2 DEF IInv, Main
<1>7. Counts'
  BY <1>1, <1>3, <1>4, <1>6 DEF IInv, Counts, Publishing
<1>8. Reachable'
  BY <1>1 DEF IInv, Reachable
<1> QED
  BY <1>1, <1>3, <1>4, <1>5, <1>7, <1>8, PoolKeeps

\* A tick of the map changes the gate only.
LEMMA TickKeeps ==
  ASSUME IInv, TickBegin \/ TickEnd
  PROVE  IInv'
<1> USE LaneTypes
<1>1. /\ TakeGate(Tick) \/ LeaveGate
      /\ tasks' = tasks /\ inFlight' = inFlight /\ lane' = lane
      /\ auth' = auth /\ state' = state /\ main' = main
      /\ players' = players /\ sessionOf' = sessionOf
      /\ UNCHANGED <<table, auth, online, authPool, main>>
  BY DEF TickBegin, TickEnd, table, online, pool
<1>2. Tick \in 0 .. (MaxSession + 1) /\ Tick # Nobody
  BY SessionAssumption DEF Tick, Nobody
<1>3. gate' \in 0 .. (MaxSession + 1) /\ reach' \subseteq Session /\ Reachable'
  BY <1>1, <1>2, GateKeeps
<1>4. Lanes' /\ Counts'
  BY <1>1 DEF IInv, Lanes, Counts, Publishing
<1> QED
  BY <1>1, <1>3, <1>4, PoolKeeps

-------------------------------------------------------------------------------
(* The theorems.                                                             *)

\* The invariant holds in the server before its first connection.
LEMMA InitIInv == Init => IInv
<1> SUFFICES ASSUME Init PROVE IInv
  OBVIOUS
<1> USE DEF Init
<1>1. TypeOK
  BY SessionAssumption DEF TypeOK, Session, NoSession, Nobody, Idle, LanePc, Loop
<1>2. Table
  BY SessionAssumption DEF Table, Session
<1>3. Main
  BY AtLoop DEF Main, Loop
<1>4. Requests /\ Players /\ Reachable
  BY AtLoop DEF Requests, Players, Reachable
<1>5. Lanes /\ Counts
  BY AtLoop DEF Lanes, Counts, Idle
<1>6. UserCount
  <2>1. Connected(state) = {}
    BY DEF Connected
  <2> QED
    BY <2>1, FS_EmptySet DEF UserCount
<1> QED
  BY <1>1, <1>2, <1>3, <1>4, <1>5, <1>6 DEF IInv

\* Every step keeps the invariant.
LEMMA NextIInv == IInv /\ [Next]_vars => IInv'
<1> SUFFICES ASSUME IInv, [Next]_vars PROVE IInv'
  OBVIOUS
<1>1. CASE UNCHANGED vars
  <2>1. /\ sessions' = sessions /\ nextSessionId' = nextSessionId /\ users' = users
        /\ fdOf' = fdOf /\ state' = state /\ auth' = auth /\ inFlight' = inFlight
        /\ player' = player /\ players' = players /\ sessionOf' = sessionOf
        /\ tasks' = tasks /\ lane' = lane /\ gate' = gate /\ reach' = reach
        /\ authTasks' = authTasks /\ authResults' = authResults /\ main' = main
    BY <1>1 DEF vars, table, online, pool, gameplay, authPool
  <2>2. Lanes' /\ Counts' /\ Reachable'
    BY <2>1 DEF IInv, Lanes, Counts, Reachable, Publishing
  <2> QED
    BY <1>1, <2>1, <2>2, LaneTypes, PoolKeeps DEF vars
<1>2. ASSUME NEW f \in Fd, OnAccept(f) \/ ReceivePacket(f) \/ OnDisconnect(f)
      PROVE  IInv'
  BY <1>2, OnAcceptKeeps, ReceivePacketKeeps, OnDisconnectKeeps
<1>3. ASSUME NEW f \in Fd, NEW c \in Character, ReceiveAuth(f, c)
      PROVE  IInv'
  BY <1>3, ReceiveAuthKeeps
<1>4. CASE SchedulePlayerSaves
  BY <1>4, SchedulePlayerSavesKeeps
<1>5. CASE ProcessAuthResult
  BY <1>5, ProcessAuthResultKeeps
<1>6. CASE FinishAuth
  BY <1>6, FinishAuthKeeps
<1>7. CASE WaitForNoTasks
  BY <1>7, WaitForNoTasksKeeps
<1>8. CASE FinalizePlayer
  BY <1>8, FinalizePlayerKeeps
<1>9. CASE DeleteSession
  BY <1>9, DeleteSessionKeeps
<1>10. ASSUME NEW t \in authTasks, NEW ok \in BOOLEAN, PushAuthResult(t, ok)
       PROVE  IInv'
  BY <1>10, PushAuthResultKeeps
<1>11. ASSUME NEW s \in Session,
              TaskBegin(s) \/ TaskEnterGate(s) \/ TaskLeaveGate(s) \/ TaskEnd(s)
       PROVE  IInv'
  BY <1>11, TaskBeginKeeps, TaskGateKeeps, TaskEndKeeps
<1>12. CASE TickBegin \/ TickEnd
  BY <1>12, TickKeeps
<1> QED
  BY <1>1, <1>2, <1>3, <1>4, <1>5, <1>6, <1>7, <1>8, <1>9, <1>10, <1>11, <1>12 DEF Next

\* What the invariant says of a session that a thread uses.
LEMMA UsedIsAlive == IInv => NoUseAfterDelete
<1> SUFFICES ASSUME IInv, NEW s \in Session, Uses(s) PROVE state[s] # "deleted"
  BY DEF IInv, NoUseAfterDelete
<1>1. CASE \E l \in Session : lane[l].pc # "idle" /\ lane[l].session = s
  <2>1. PICK l \in Session : lane[l].pc # "idle" /\ lane[l].session = s
    BY <1>1
  <2>2. l = s /\ (state[s] = "open" \/ Disconnecting(s))
    BY <2>1 DEF IInv, Lanes, Disconnecting
  <2> QED
    BY <2>2 DEF IInv, Main
<1>2. CASE main.pc # "loop" /\ main.session = s
  <2>1. Publishing(s) \/ Disconnecting(s)
    BY <1>2 DEF IInv, TypeOK, Publishing, Disconnecting
  <2> QED
    BY <2>1 DEF IInv, Main
<1>3. CASE s \in reach
  <2>1. PICK c \in players : sessionOf[c] = s
    BY <1>3 DEF IInv, Reachable
  <2>2. player[s] = c \/ Publishing(s)
    BY <2>1 DEF IInv, Players
  <2>3. c # NoChar
    BY NullAssumption DEF IInv, TypeOK
  <2>4. Playable(s) \/ Publishing(s)
    BY <2>2, <2>3 DEF IInv, Players
  <2>5. state[s] = "open" \/ Disconnecting(s)
    BY <2>4 DEF IInv, Main, Playable, Disconnecting
  <2> QED
    BY <2>5 DEF IInv, Main
<1> QED
  BY <1>1, <1>2, <1>3 DEF Uses

\* What the invariant says of a task that runs.
LEMMA TasksHaveTheirPlayer == IInv => TaskHasItsPlayer
<1> SUFFICES ASSUME IInv, NEW s \in Session, lane[s].pc # "idle"
    PROVE  lane[s].session = s /\ player[s] \in players /\ sessionOf[player[s]] = s
  BY DEF TaskHasItsPlayer
<1>1. /\ lane[s].session = s /\ auth[s] = "Authenticated"
      /\ Playable(s)
  BY DEF IInv, Lanes, Playable
<1> QED
  BY <1>1 DEF IInv, Players

\* What the invariant says of the players online.
LEMMA PlayersHaveOneSession == IInv => OneSessionPerPlayer
<1> SUFFICES ASSUME IInv, main = Loop
    PROVE  /\ players = {player[s] : s \in {x \in Session : state[x] = "open"}} \ {NoChar}
           /\ \A s, t \in Session : player[s] = player[t] /\ player[s] # NoChar => s = t
           /\ users = Cardinality({s \in Session : state[s] = "open"})
           /\ \A s \in Session : state[s] = "open" =>
                (auth[s] = "Authenticated" <=> player[s] # NoChar)
  BY DEF OneSessionPerPlayer
<1>1. \A s \in Session : ~Publishing(s) /\ ~Disconnecting(s) /\ (Playable(s) <=> state[s] = "open")
  BY AtLoop
<1>2. \A s \in Session : player[s] # NoChar =>
        /\ auth[s] = "Authenticated" /\ state[s] = "open"
        /\ player[s] \in players /\ sessionOf[player[s]] = s
  BY <1>1 DEF IInv, Players
<1>3. \A c \in players : c # NoChar /\ sessionOf[c] \in Session /\ player[sessionOf[c]] = c
  BY <1>1, NullAssumption DEF IInv, TypeOK, Players
<1>4. players = {player[s] : s \in {x \in Session : state[x] = "open"}} \ {NoChar}
  BY <1>2, <1>3
<1>5. Connected(state) = {s \in Session : state[s] = "open"}
  BY <1>1 DEF IInv, Main, Connected
<1>6. \A s \in Session : state[s] = "open" /\ auth[s] = "Authenticated" => player[s] # NoChar
  BY <1>1 DEF IInv, Players
<1> QED
  BY <1>2, <1>4, <1>5, <1>6 DEF IInv, UserCount

\* ChannelServer::OnDisconnect deletes a session only when no task, no handler
\* and no tick can come to it any more.
THEOREM DeletedIsUnused == Spec => []NoUseAfterDelete
BY InitIInv, NextIInv, UsedIsAlive, PTL DEF Spec

\* BeginValidSessionTask gives a task its own session, which has its player.
THEOREM TasksRunOnTheirPlayer == Spec => []TaskHasItsPlayer
BY InitIInv, NextIInv, TasksHaveTheirPlayer, PTL DEF Spec

\* PlayerManager::AddPlayer, SetPlayer and RemovePlayer keep the players online
\* and the authenticated sessions one to one, and OnAccept and OnDisconnect
\* count the connections.
THEOREM OnePlayerOneSession == Spec => []OneSessionPerPlayer
BY InitIInv, NextIInv, PlayersHaveOneSession, PTL DEF Spec

-------------------------------------------------------------------------------
(***************************************************************************)
(* ServerEntry, for any accounts, tickets and sessions: types, tickets that *)
(* work once, and players that enter as who they are with a character of    *)
(* theirs.                                                                  *)
(***************************************************************************)
\* A ticket's key is there, gone, or not yet drawn, and nobody is told a value
\* that stands for two accounts.
KeyInv ==
  /\ \A t \in WorldTicket : worldKey[t] # Null => t \notin gone
  /\ \A t \in WorldTicket : worldKey[t] # Null => told[t] \subseteq {worldKey[t]}
  /\ \A t \in WorldTicket : worldKey[t] = Null /\ t \notin gone => told[t] = {}
  /\ \A t \in ChannelTicket : channelKey[t] # Null => t \notin gone
  /\ \A t \in Ticket : used[t] # 0 => used[t] = 1 /\ t \in gone
  /\ \A w \in WorldSession : session[w] # Null => session[w].ticket \in gone
  /\ SessionIsItsLogin

\* Claims name a character that was created, and that no other account has.
Good(claims) ==
  /\ claims.character < nextId
  /\ owner[claims.character] \in {claims.account, Null}

\* Claims stay good wherever they are, and a profile stays a whole character's,
\* because char_id's are not used again.
CharacterInv ==
  /\ \A c \in CharacterId : c >= nextId => owner[c] = Null
  /\ \A c \in cached : c < nextId
  /\ \A c \in cached : owner[c] # Null => c \in stat
  /\ work.op = "issue" => Good(work.claims)
  /\ \A t \in ChannelTicket : channelKey[t] # Null => Good(channelKey[t])
  /\ \A p \in ChannelSession : entry[p] # Open => Good(entry[p].claims)
  /\ \A p \in ChannelSession : entry[p] # Open => entry[p].claims.channel = Serves[p]
  /\ PlaysWithStats

EntryIInv == EntryTypeOK /\ KeyInv /\ CharacterInv
-------------------------------------------------------------------------------
\* In the initial state no ticket, session or character exists.
LEMMA InitInv == EntryInit => EntryIInv
BY EntryAssumption, EntryNullAssumption
   DEF EntryInit, EntryIInv, EntryTypeOK, KeyInv, CharacterInv, SessionIsItsLogin, PlaysWithStats,
       WorkType, CharacterId, Ticket, NoRequest, Open

\* The requests of LOGIN and WORLD that issue a ticket.
LoginRequest == [op : {"issue"}, account : Account, attempt : 1 .. MaxAttempts]
WorldRequest == [op : {"issue"}, attempt : 1 .. MaxAttempts, claims : Claims]

\* LOGIN issues tickets for accounts, and NextAttempt counts to MaxAttempts.
LEMMA LoginRequests ==
  ASSUME EntryTypeOK, login.op = "issue"
  PROVE  login \in LoginRequest /\ NextAttempt(login) \in LoginRequest \cup {NoRequest}
<1>1. login \in LoginRequest
  BY DEF EntryTypeOK, NoRequest, LoginRequest
<1>2. CASE login.attempt < MaxAttempts
  <2>1. login.attempt + 1 \in 1 .. MaxAttempts
    BY <1>1, <1>2, EntryAssumption DEF LoginRequest
  <2>2. [login EXCEPT !.attempt = login.attempt + 1] \in LoginRequest
    BY <1>1, <2>1 DEF LoginRequest
  <2> QED
    BY <1>1, <1>2, <2>2 DEF NextAttempt
<1>3. CASE ~ (login.attempt < MaxAttempts)
  BY <1>1, <1>3 DEF NextAttempt
<1> QED
  BY <1>2, <1>3

\* WORLD issues tickets for claims, which no attempt changes.
LEMMA WorldRequests ==
  ASSUME EntryTypeOK, work.op = "issue"
  PROVE  /\ work \in WorldRequest /\ NextAttempt(work) \in WorldRequest \cup {NoRequest}
         /\ NextAttempt(work) # NoRequest => NextAttempt(work).claims = work.claims
<1>1. work \in WorldRequest
  BY DEF EntryTypeOK, WorkType, NoRequest, WorldRequest
<1>2. CASE work.attempt < MaxAttempts
  <2>1. work.attempt + 1 \in 1 .. MaxAttempts
    BY <1>1, <1>2, EntryAssumption DEF WorldRequest
  <2>2. /\ [work EXCEPT !.attempt = work.attempt + 1] \in WorldRequest
        /\ [work EXCEPT !.attempt = work.attempt + 1].claims = work.claims
    BY <1>1, <2>1 DEF WorldRequest
  <2> QED
    BY <1>1, <1>2, <2>2 DEF NextAttempt
<1>3. CASE ~ (work.attempt < MaxAttempts)
  BY <1>1, <1>3 DEF NextAttempt
<1> QED
  BY <1>2, <1>3

\* Every step keeps the types.
LEMMA TypeStep == EntryTypeOK /\ [EntryNext]_entryVars => EntryTypeOK'
<1> SUFFICES ASSUME EntryTypeOK, [EntryNext]_entryVars PROVE EntryTypeOK'
  OBVIOUS
<1> USE EntryAssumption, EntryNullAssumption
<1>1. ASSUME NEW a \in Account, Login(a)
      PROVE  EntryTypeOK'
  BY <1>1 DEF Login, EntryTypeOK, redis, mysql
<1>2. ASSUME NEW t \in WorldTicket, IssueWorldTicket(t)
      PROVE  EntryTypeOK'
  <2>1. login \in LoginRequest /\ NextAttempt(login) \in LoginRequest \cup {NoRequest}
    BY <1>2, LoginRequests DEF IssueWorldTicket
  <2>2. login' \in {NoRequest} \cup LoginRequest
    BY <1>2, <2>1 DEF IssueWorldTicket
  <2>3. worldKey' \in [WorldTicket -> Account \cup {Null}]
    BY <1>2, <2>1 DEF IssueWorldTicket, LoginRequest, EntryTypeOK
  <2>4. told' \in [Ticket -> SUBSET (Account \cup Claims)]
    BY <1>2, <2>1 DEF IssueWorldTicket, LoginRequest, EntryTypeOK, Ticket
  <2> QED
    BY <1>2, <2>2, <2>3, <2>4 DEF IssueWorldTicket, LoginRequest, EntryTypeOK, mysql
<1>3. ASSUME LoginFails
      PROVE  EntryTypeOK'
  BY <1>3 DEF LoginFails, EntryTypeOK, redis, mysql
<1>4. ASSUME NEW w \in WorldSession, NEW t \in WorldTicket, WorldInit(w, t)
      PROVE  EntryTypeOK'
  <2>1. worldKey[t] \in Account
    BY <1>4 DEF WorldInit, EntryTypeOK
  <2>2. worldKey' \in [WorldTicket -> Account \cup {Null}]
    BY <1>4 DEF WorldInit, GetAndDelete, EntryTypeOK
  <2>3. session' \in [WorldSession -> Identity \cup {Null}]
    BY <1>4, <2>1 DEF WorldInit, EntryTypeOK, Identity
  <2>4. gone' \subseteq Ticket /\ used' \in [Ticket -> Nat]
    BY <1>4 DEF WorldInit, EntryTypeOK, Ticket
  <2> QED
    BY <1>4, <2>2, <2>3, <2>4 DEF WorldInit, EntryTypeOK, WorkType, mysql
<1>5. ASSUME NEW w \in WorldSession, Disconnect(w)
      PROVE  EntryTypeOK'
  BY <1>5 DEF Disconnect, EntryTypeOK, redis, mysql
<1>6. ASSUME NEW a \in Account, CharacterNew(a)
      PROVE  EntryTypeOK'
  BY <1>6 DEF CharacterNew, InsertCharacter, EntryTypeOK, WorkType, CharacterId, redis, mysql
<1>7. ASSUME InsertCharacterStat
      PROVE  EntryTypeOK'
  BY <1>7 DEF InsertCharacterStat, EntryTypeOK, WorkType, Identity, NoRequest, redis, mysql
<1>8. ASSUME WorkFails
      PROVE  EntryTypeOK'
  BY <1>8 DEF WorkFails, EntryTypeOK, WorkType, redis, mysql
<1>9. ASSUME NEW c \in CharacterId, DeleteCharacter(c)
      PROVE  EntryTypeOK'
  BY <1>9 DEF DeleteCharacter, EntryTypeOK, redis, mysql
<1>10. ASSUME NEW w \in WorldSession, NEW c \in CharacterId, NEW ch \in Channel,
              ChannelSelect(w, c, ch)
      PROVE  EntryTypeOK'
  BY <1>10 DEF ChannelSelect, OwnsCharacter, EntryTypeOK, WorkType, Claims, Identity, redis,
     mysql
<1>11. ASSUME NEW t \in ChannelTicket, IssueChannelTicket(t)
      PROVE  EntryTypeOK'
  <2>1. work \in WorldRequest /\ NextAttempt(work) \in WorldRequest \cup {NoRequest}
    BY <1>11, WorldRequests DEF IssueChannelTicket
  <2>2. work' \in {NoRequest} \cup WorldRequest
    BY <1>11, <2>1 DEF IssueChannelTicket
  <2>3. channelKey' \in [ChannelTicket -> Claims \cup {Null}]
    BY <1>11, <2>1 DEF IssueChannelTicket, WorldRequest, EntryTypeOK
  <2>4. told' \in [Ticket -> SUBSET (Account \cup Claims)]
    BY <1>11, <2>1 DEF IssueChannelTicket, WorldRequest, EntryTypeOK, Ticket
  <2> QED
    BY <1>11, <2>2, <2>3, <2>4 DEF IssueChannelTicket, WorldRequest, WorkType, EntryTypeOK,
       mysql
<1>12. ASSUME WorldCrash
      PROVE  EntryTypeOK'
  BY <1>12 DEF WorldCrash, EntryTypeOK, WorkType, redis, mysql
<1>13. ASSUME NEW p \in ChannelSession, NEW t \in ChannelTicket,
              ConsumeChannelTicket(p, t)
      PROVE  EntryTypeOK'
  <2>1. channelKey[t] \in Claims
    BY <1>13 DEF ConsumeChannelTicket, EntryTypeOK
  <2>2. channelKey' \in [ChannelTicket -> Claims \cup {Null}]
    BY <1>13 DEF ConsumeChannelTicket, GetAndDelete, EntryTypeOK
  <2>3. At("profile", channelKey[t])
          \in {Open} \cup [at : {"profile", "stat", "playing"}, claims : Claims]
    BY <2>1 DEF At
  <2>4. entry' \in [ChannelSession ->
                     {Open} \cup [at : {"profile", "stat", "playing"}, claims : Claims]]
    BY <1>13, <2>3 DEF ConsumeChannelTicket, EntryTypeOK
  <2>5. gone' \subseteq Ticket /\ used' \in [Ticket -> Nat]
    BY <1>13 DEF ConsumeChannelTicket, EntryTypeOK, Ticket
  <2> QED
    BY <1>13, <2>2, <2>4, <2>5 DEF ConsumeChannelTicket, EntryTypeOK, WorkType, mysql
<1>14. ASSUME NEW p \in ChannelSession, LoadCached(p)
      PROVE  EntryTypeOK'
  BY <1>14 DEF LoadCached, At, EntryTypeOK, Open, redis, mysql
<1>15. ASSUME NEW p \in ChannelSession, LoadPlayerInfo(p)
      PROVE  EntryTypeOK'
  BY <1>15 DEF LoadPlayerInfo, At, EntryTypeOK, Open, redis, mysql
<1>16. ASSUME NEW p \in ChannelSession, LoadPlayerStat(p)
      PROVE  EntryTypeOK'
  BY <1>16 DEF LoadPlayerStat, HasStat, At, EntryTypeOK, Identity, Open, redis, mysql
<1>17. ASSUME NEW p \in ChannelSession, Leave(p)
      PROVE  EntryTypeOK'
  BY <1>17 DEF Leave, EntryTypeOK, redis, mysql
<1>18. ASSUME NEW t \in WorldTicket, ExpireWorldTicket(t)
      PROVE  EntryTypeOK'
  BY <1>18 DEF ExpireWorldTicket, EntryTypeOK, Ticket, mysql
<1>19. ASSUME NEW t \in ChannelTicket, ExpireChannelTicket(t)
      PROVE  EntryTypeOK'
  BY <1>19 DEF ExpireChannelTicket, EntryTypeOK, Ticket, mysql
<1>20. ASSUME NEW c \in CharacterId, ExpireProfile(c)
      PROVE  EntryTypeOK'
  BY <1>20 DEF ExpireProfile, EntryTypeOK, redis, mysql
<1>21. ASSUME UNCHANGED entryVars PROVE EntryTypeOK'
  BY <1>21 DEF entryVars, EntryTypeOK
<1> QED
  BY <1>1, <1>2, <1>3, <1>4, <1>5, <1>6, <1>7, <1>8, <1>9, <1>10, <1>11, <1>12, <1>13,
     <1>14, <1>15, <1>16, <1>17, <1>18, <1>19, <1>20, <1>21 DEF EntryNext, LoginNext,
     WorldNext, ChannelNext, RedisNext

\* Every step keeps what is known about tickets.
LEMMA KeyStep == EntryTypeOK /\ KeyInv /\ [EntryNext]_entryVars => KeyInv'
<1> SUFFICES ASSUME EntryTypeOK, KeyInv, [EntryNext]_entryVars PROVE KeyInv'
  OBVIOUS
<1> USE EntryAssumption, EntryNullAssumption
<1>1. ASSUME NEW a \in Account, Login(a)
      PROVE  KeyInv'
  BY <1>1 DEF Login, KeyInv, SessionIsItsLogin, redis, mysql
<1>2. ASSUME NEW t \in WorldTicket, IssueWorldTicket(t)
      PROVE  KeyInv'
  BY <1>2 DEF IssueWorldTicket, SetIfAbsent, NextAttempt, KeyInv, SessionIsItsLogin,
     EntryTypeOK, Ticket, NoRequest, mysql
<1>3. ASSUME LoginFails
      PROVE  KeyInv'
  BY <1>3 DEF LoginFails, KeyInv, SessionIsItsLogin, redis, mysql
<1>4. ASSUME NEW w \in WorldSession, NEW t \in WorldTicket, WorldInit(w, t)
      PROVE  KeyInv'
  BY <1>4 DEF WorldInit, GetAndDelete, KeyInv, SessionIsItsLogin, EntryTypeOK, mysql
<1>5. ASSUME NEW w \in WorldSession, Disconnect(w)
      PROVE  KeyInv'
  BY <1>5 DEF Disconnect, KeyInv, SessionIsItsLogin, redis, mysql
<1>6. ASSUME NEW a \in Account, CharacterNew(a)
      PROVE  KeyInv'
  BY <1>6 DEF CharacterNew, InsertCharacter, KeyInv, SessionIsItsLogin, redis, mysql
<1>7. ASSUME InsertCharacterStat
      PROVE  KeyInv'
  BY <1>7 DEF InsertCharacterStat, KeyInv, SessionIsItsLogin, redis, mysql
<1>8. ASSUME WorkFails
      PROVE  KeyInv'
  BY <1>8 DEF WorkFails, KeyInv, SessionIsItsLogin, redis, mysql
<1>9. ASSUME NEW c \in CharacterId, DeleteCharacter(c)
      PROVE  KeyInv'
  BY <1>9 DEF DeleteCharacter, KeyInv, SessionIsItsLogin, redis, mysql
<1>10. ASSUME NEW w \in WorldSession, NEW c \in CharacterId, NEW ch \in Channel,
              ChannelSelect(w, c, ch)
      PROVE  KeyInv'
  BY <1>10 DEF ChannelSelect, OwnsCharacter, KeyInv, SessionIsItsLogin, redis, mysql
<1>11. ASSUME NEW t \in ChannelTicket, IssueChannelTicket(t)
      PROVE  KeyInv'
  BY <1>11 DEF IssueChannelTicket, SetIfAbsent, NextAttempt, KeyInv, SessionIsItsLogin,
     EntryTypeOK, Ticket, mysql
<1>12. ASSUME WorldCrash
      PROVE  KeyInv'
  BY <1>12 DEF WorldCrash, KeyInv, SessionIsItsLogin, redis, mysql
<1>13. ASSUME NEW p \in ChannelSession, NEW t \in ChannelTicket,
              ConsumeChannelTicket(p, t)
      PROVE  KeyInv'
  BY <1>13 DEF ConsumeChannelTicket, GetAndDelete, MatchesChannel, At, KeyInv,
     SessionIsItsLogin, EntryTypeOK, mysql
<1>14. ASSUME NEW p \in ChannelSession, LoadCached(p)
      PROVE  KeyInv'
  BY <1>14 DEF LoadCached, At, KeyInv, SessionIsItsLogin, redis, mysql
<1>15. ASSUME NEW p \in ChannelSession, LoadPlayerInfo(p)
      PROVE  KeyInv'
  BY <1>15 DEF LoadPlayerInfo, At, KeyInv, SessionIsItsLogin, redis, mysql
<1>16. ASSUME NEW p \in ChannelSession, LoadPlayerStat(p)
      PROVE  KeyInv'
  BY <1>16 DEF LoadPlayerStat, HasStat, At, KeyInv, SessionIsItsLogin, redis, mysql
<1>17. ASSUME NEW p \in ChannelSession, Leave(p)
      PROVE  KeyInv'
  BY <1>17 DEF Leave, KeyInv, SessionIsItsLogin, redis, mysql
<1>18. ASSUME NEW t \in WorldTicket, ExpireWorldTicket(t)
      PROVE  KeyInv'
  BY <1>18 DEF ExpireWorldTicket, KeyInv, SessionIsItsLogin, EntryTypeOK, mysql
<1>19. ASSUME NEW t \in ChannelTicket, ExpireChannelTicket(t)
      PROVE  KeyInv'
  BY <1>19 DEF ExpireChannelTicket, KeyInv, SessionIsItsLogin, EntryTypeOK, mysql
<1>20. ASSUME NEW c \in CharacterId, ExpireProfile(c)
      PROVE  KeyInv'
  BY <1>20 DEF ExpireProfile, KeyInv, SessionIsItsLogin, redis, mysql
<1>21. ASSUME UNCHANGED entryVars PROVE KeyInv'
  BY <1>21 DEF entryVars, KeyInv, SessionIsItsLogin
<1> QED
  BY <1>1, <1>2, <1>3, <1>4, <1>5, <1>6, <1>7, <1>8, <1>9, <1>10, <1>11, <1>12, <1>13,
     <1>14, <1>15, <1>16, <1>17, <1>18, <1>19, <1>20, <1>21 DEF EntryNext, LoginNext,
     WorldNext, ChannelNext, RedisNext

\* Every step keeps what is known about claims, characters and profiles.
LEMMA CharacterStep == EntryTypeOK /\ CharacterInv /\ [EntryNext]_entryVars => CharacterInv'
<1> SUFFICES ASSUME EntryTypeOK, CharacterInv, [EntryNext]_entryVars PROVE CharacterInv'
  OBVIOUS
<1> USE EntryAssumption, EntryNullAssumption
<1>1. ASSUME NEW a \in Account, Login(a)
      PROVE  CharacterInv'
  BY <1>1 DEF Login, CharacterInv, PlaysWithStats, Good, redis, mysql
<1>2. ASSUME NEW t \in WorldTicket, IssueWorldTicket(t)
      PROVE  CharacterInv'
  BY <1>2 DEF IssueWorldTicket, SetIfAbsent, NextAttempt, CharacterInv, PlaysWithStats,
     Good, mysql
<1>3. ASSUME LoginFails
      PROVE  CharacterInv'
  BY <1>3 DEF LoginFails, CharacterInv, PlaysWithStats, Good, redis, mysql
<1>4. ASSUME NEW w \in WorldSession, NEW t \in WorldTicket, WorldInit(w, t)
      PROVE  CharacterInv'
  BY <1>4 DEF WorldInit, GetAndDelete, CharacterInv, PlaysWithStats, Good, mysql
<1>5. ASSUME NEW w \in WorldSession, Disconnect(w)
      PROVE  CharacterInv'
  BY <1>5 DEF Disconnect, CharacterInv, PlaysWithStats, Good, redis, mysql
<1>6. ASSUME NEW a \in Account, CharacterNew(a)
      PROVE  CharacterInv'
  <2>1. /\ nextId \in CharacterId /\ nextId' = nextId + 1
        /\ owner' = [owner EXCEPT ![nextId] = a] /\ owner[nextId] = Null
        /\ owner \in [CharacterId -> Account \cup {Null}]
    <3>1. nextId <= MaxId /\ nextId' = nextId + 1 /\ owner' = [owner EXCEPT ![nextId] = a]
      BY <1>6 DEF CharacterNew, InsertCharacter
    <3>2. nextId \in 1 .. MaxId + 1 /\ owner \in [CharacterId -> Account \cup {Null}]
      BY DEF EntryTypeOK
    <3>3. nextId \in CharacterId
      BY <3>1, <3>2 DEF CharacterId
    <3> QED
      BY <3>1, <3>2, <3>3 DEF CharacterInv, CharacterId
  <2>2. \A c \in CharacterId : c < nextId => c < nextId' /\ owner'[c] = owner[c]
    BY <2>1 DEF CharacterId
  <2>3. \A c \in CharacterId : c >= nextId' => owner'[c] = Null
    BY <2>1 DEF CharacterInv, CharacterId
  <2>4. \A claims \in Claims : Good(claims) => Good(claims)'
    BY <2>2 DEF Good, Claims
  <2>5. work'.op # "issue" /\ UNCHANGED <<redis, stat, cached, login, session, entry>>
    BY <1>6 DEF CharacterNew, NoRequest
  <2>6. \A t \in ChannelTicket : channelKey[t] # Null => channelKey[t] \in Claims
    BY DEF EntryTypeOK
  <2>7. \A p \in ChannelSession : entry[p] # Open => entry[p].claims \in Claims
    BY DEF EntryTypeOK, Open
  <2>8. \A c \in cached : c < nextId' /\ owner'[c] = owner[c]
    BY <2>2 DEF CharacterInv, EntryTypeOK
  <2>9. PlaysWithStats'
    <3>1. \A p \in ChannelSession : entry[p] # Open =>
            owner'[entry[p].claims.character] = owner[entry[p].claims.character]
      BY <2>2, <2>7 DEF CharacterInv, Good, Claims
    <3> QED
      BY <2>5, <3>1 DEF CharacterInv, PlaysWithStats, Open
  <2> QED
    BY <2>3, <2>4, <2>5, <2>6, <2>7, <2>8, <2>9 DEF CharacterInv, redis
<1>7. ASSUME InsertCharacterStat
      PROVE  CharacterInv'
  BY <1>7 DEF InsertCharacterStat, CharacterInv, PlaysWithStats, Good, NoRequest, redis,
     mysql
<1>8. ASSUME WorkFails
      PROVE  CharacterInv'
  BY <1>8 DEF WorkFails, CharacterInv, PlaysWithStats, Good, NoRequest, redis, mysql
<1>9. ASSUME NEW c \in CharacterId, DeleteCharacter(c)
      PROVE  CharacterInv'
  BY <1>9 DEF DeleteCharacter, CharacterInv, PlaysWithStats, Good, EntryTypeOK, redis, mysql
<1>10. ASSUME NEW w \in WorldSession, NEW c \in CharacterId, NEW ch \in Channel,
              ChannelSelect(w, c, ch)
      PROVE  CharacterInv'
  <2>1. session[w].account \in Account /\ owner[c] = session[w].account
    BY <1>10 DEF ChannelSelect, OwnsCharacter, EntryTypeOK, Identity
  <2>2. owner[c] # Null
    BY <2>1
  <2>3. c < nextId
    BY <2>2 DEF CharacterInv, EntryTypeOK, CharacterId
  <2>4. /\ work'.op = "issue" /\ work'.claims.character = c
        /\ work'.claims.account = session[w].account
    BY <1>10 DEF ChannelSelect
  <2>5. Good(work'.claims)
    BY <2>1, <2>3, <2>4 DEF Good
  <2> QED
    BY <1>10, <2>5 DEF ChannelSelect, CharacterInv, PlaysWithStats, Good, redis, mysql
<1>11. ASSUME NEW t \in ChannelTicket, IssueChannelTicket(t)
      PROVE  CharacterInv'
  <2>1. /\ Good(work.claims) /\ work \in WorldRequest
        /\ NextAttempt(work) \in WorldRequest \cup {NoRequest}
        /\ NextAttempt(work) # NoRequest => NextAttempt(work).claims = work.claims
    BY <1>11, WorldRequests DEF IssueChannelTicket, CharacterInv
  <2>2. work'.op = "issue" => Good(work'.claims)
    BY <1>11, <2>1 DEF IssueChannelTicket, NoRequest
  <2>3. \A u \in ChannelTicket : channelKey'[u] # Null => Good(channelKey'[u])
    BY <1>11, <2>1 DEF IssueChannelTicket, CharacterInv, EntryTypeOK
  <2> QED
    BY <1>11, <2>2, <2>3 DEF IssueChannelTicket, CharacterInv, PlaysWithStats, Good,
       mysql
<1>12. ASSUME WorldCrash
      PROVE  CharacterInv'
  BY <1>12 DEF WorldCrash, CharacterInv, PlaysWithStats, Good, NoRequest, redis, mysql
<1>13. ASSUME NEW p \in ChannelSession, NEW t \in ChannelTicket,
              ConsumeChannelTicket(p, t)
      PROVE  CharacterInv'
  <2>1. Good(channelKey[t])
    BY <1>13 DEF ConsumeChannelTicket, CharacterInv
  <2>2. \A u \in ChannelTicket : channelKey'[u] # Null => Good(channelKey'[u])
    BY <1>13 DEF ConsumeChannelTicket, GetAndDelete, CharacterInv, EntryTypeOK
  <2>3. At("profile", channelKey[t]).at = "profile"
        /\ At("profile", channelKey[t]).claims = channelKey[t]
    BY DEF At
  <2>4. ASSUME NEW q \in ChannelSession, entry'[q] # Open
        PROVE  /\ Good(entry'[q].claims)
               /\ entry'[q].claims.channel = Serves[q]
               /\ entry'[q].at = "playing" => entry'[q] = entry[q]
    BY <1>13, <2>1, <2>3, <2>4 DEF ConsumeChannelTicket, MatchesChannel, CharacterInv,
       EntryTypeOK
  <2> QED
    BY <1>13, <2>2, <2>4 DEF ConsumeChannelTicket, CharacterInv, PlaysWithStats, Good,
       mysql
<1>14. ASSUME NEW p \in ChannelSession, LoadCached(p)
      PROVE  CharacterInv'
  BY <1>14 DEF LoadCached, At, CharacterInv, PlaysWithStats, Good, Open, redis, mysql
<1>15. ASSUME NEW p \in ChannelSession, LoadPlayerInfo(p)
      PROVE  CharacterInv'
  BY <1>15 DEF LoadPlayerInfo, At, CharacterInv, PlaysWithStats, Good, Open, redis,
     mysql
<1>16. ASSUME NEW p \in ChannelSession, LoadPlayerStat(p)
      PROVE  CharacterInv'
  BY <1>16 DEF LoadPlayerStat, HasStat, At, CharacterInv, PlaysWithStats, Good, Open,
     redis, mysql
<1>17. ASSUME NEW p \in ChannelSession, Leave(p)
      PROVE  CharacterInv'
  BY <1>17 DEF Leave, CharacterInv, PlaysWithStats, Good, Open, redis, mysql
<1>18. ASSUME NEW t \in WorldTicket, ExpireWorldTicket(t)
      PROVE  CharacterInv'
  BY <1>18 DEF ExpireWorldTicket, CharacterInv, PlaysWithStats, Good, mysql
<1>19. ASSUME NEW t \in ChannelTicket, ExpireChannelTicket(t)
      PROVE  CharacterInv'
  BY <1>19 DEF ExpireChannelTicket, CharacterInv, PlaysWithStats, Good, mysql
<1>20. ASSUME NEW c \in CharacterId, ExpireProfile(c)
      PROVE  CharacterInv'
  BY <1>20 DEF ExpireProfile, CharacterInv, PlaysWithStats, Good, redis, mysql
<1>21. ASSUME UNCHANGED entryVars PROVE CharacterInv'
  BY <1>21 DEF entryVars, CharacterInv, PlaysWithStats, Good
<1> QED
  BY <1>1, <1>2, <1>3, <1>4, <1>5, <1>6, <1>7, <1>8, <1>9, <1>10, <1>11, <1>12, <1>13,
     <1>14, <1>15, <1>16, <1>17, <1>18, <1>19, <1>20, <1>21 DEF EntryNext, LoginNext,
     WorldNext, ChannelNext, RedisNext

\* The invariant holds in every state.
THEOREM EntryInvariant == EntrySpec => []EntryIInv
<1>1. EntryIInv /\ [EntryNext]_entryVars => EntryIInv'
  BY TypeStep, KeyStep, CharacterStep DEF EntryIInv
<1> QED
  BY InitInv, <1>1, PTL DEF EntrySpec

\* For any accounts, tickets, sessions and limits the state is well typed.
THEOREM EntryTypeCorrect == EntrySpec => []EntryTypeOK
<1>1. EntryIInv => EntryTypeOK
  BY DEF EntryIInv
<1> QED
  BY EntryInvariant, <1>1, PTL

\* No ticket is accepted twice: IssueTicket and ConsumeTicket.
THEOREM TicketsWorkOnce == EntrySpec => []TicketUsedOnce
<1>1. EntryIInv => TicketUsedOnce
  <2> SUFFICES ASSUME EntryIInv, NEW t \in Ticket
               PROVE  used[t] <= 1 /\ (used[t] = 1 => t \in gone)
    BY DEF TicketUsedOnce
  <2>1. CASE used[t] = 0
    BY <2>1
  <2>2. CASE used[t] # 0
    BY <2>2 DEF EntryIInv, KeyInv
  <2> QED
    BY <2>1, <2>2
<1> QED
  BY EntryInvariant, <1>1, PTL

\* A session of WORLD is the account whose login its ticket was the answer to.
THEOREM SessionsAreTheirLogin == EntrySpec => []SessionIsItsLogin
<1>1. EntryIInv => SessionIsItsLogin
  BY DEF EntryIInv, KeyInv
<1> QED
  BY EntryInvariant, <1>1, PTL

\* A player on a channel was sent there by WORLD with a character of its account.
THEOREM PlayersAreAuthorised == EntrySpec => []EntersAsAuthorised
<1>1. EntryIInv => EntersAsAuthorised
  BY DEF EntryIInv, CharacterInv, Good, EntersAsAuthorised
<1> QED
  BY EntryInvariant, <1>1, PTL

\* A character that plays and was not deleted has its stats.
THEOREM PlayersHaveStats == EntrySpec => []PlaysWithStats
<1>1. EntryIInv => PlaysWithStats
  BY DEF EntryIInv, CharacterInv
<1> QED
  BY EntryInvariant, <1>1, PTL
===============================================================================
