------------------------------ MODULE ServerEntry ------------------------------
(***************************************************************************)
(* The way of a player into the game: LOGIN checks the password and stores a *)
(* WORLD ticket in Redis; WORLD consumes it, creates and deletes characters, *)
(* and stores a CHANNEL ticket for a character of the account; CHANNEL       *)
(* consumes that and loads the character.                                    *)
(*                                                                          *)
(* LOGIN and WORLD are single select loops: one handler runs at a time in    *)
(* each, and stops between two calls to Redis or MySQL, where the other      *)
(* servers and the expiry of keys go on.  A call may fail after it took      *)
(* effect (its answer is lost), and WORLD may die between two calls.         *)
(***************************************************************************)
EXTENDS Naturals, FiniteSets

CONSTANTS
  Account,         \* the rows of users
  MaxId,           \* bound: char_id's that AUTO_INCREMENT gives out
  Channel,
  WorldTicket,     \* ticket values that AuthTokenGenerator returns to LOGIN
  ChannelTicket,   \* and to WORLD
  WorldSession,    \* the connections WORLD serves
  ChannelSession,  \* the connections the CHANNEL servers serve
  Serves,          \* the m_channelId of the server of a ChannelSession
  MaxCharacters,   \* MAX_CHARACTERS
  MaxAttempts,     \* kMaxTicketIssueAttempts
  Null

ASSUME EntryAssumption ==
  /\ MaxId \in Nat /\ MaxCharacters \in Nat /\ MaxAttempts \in Nat \ {0}
  /\ Serves \in [ChannelSession -> Channel]
  /\ WorldTicket \cap ChannelTicket = {}

VARIABLES
  worldKey,    \* Redis: the account stored under a WORLD ticket
  channelKey,  \* Redis: the claims stored under a CHANNEL ticket
  gone,        \* ticket values that were consumed or expired
  told,        \* the accounts, or claims, that a ticket was the answer for
  used,        \* history: how often a ticket has been accepted
  owner,       \* MySQL, table character: the account_id of a row
  stat,        \* MySQL, table character_stat: the rows
  nextId,      \* MySQL: the next char_id
  cached,      \* Redis: the characters with a profile under characterID:<id>
  login,       \* the request LOGIN works on
  session,     \* m_authenticated and the account of a WorldSession
  work,        \* the request WORLD works on
  entry        \* the authentication of a ChannelSession

redis == <<worldKey, channelKey, gone, told, used>>
mysql == <<owner, stat, nextId>>
entryVars == <<worldKey, channelKey, gone, told, used, owner, stat, nextId, cached,
          login, session, work, entry>>

CharacterId == 1 .. MaxId
Ticket == WorldTicket \cup ChannelTicket

\* ChannelTicketClaims.
Claims == [account : Account, character : CharacterId, channel : Channel]

\* The ticket a WorldSession was opened with, and its account.
Identity == [account : Account, ticket : WorldTicket]

ASSUME EntryNullAssumption == Null \notin Account \cup Claims \cup Identity

NoRequest == [op |-> "idle"]
Open == [at |-> "open"]

EntryInit ==
  /\ worldKey = [t \in WorldTicket |-> Null]
  /\ channelKey = [t \in ChannelTicket |-> Null]
  /\ gone = {}
  /\ told = [t \in Ticket |-> {}]
  /\ used = [t \in Ticket |-> 0]
  /\ owner = [c \in CharacterId |-> Null]
  /\ stat = {}
  /\ nextId = 1
  /\ cached = {}
  /\ login = NoRequest
  /\ session = [w \in WorldSession |-> Null]
  /\ work = NoRequest
  /\ entry = [p \in ChannelSession |-> Open]
-------------------------------------------------------------------------------
(* LOGIN.                                                                    *)

\* LoginHandler: the password is right, and IssueWorldTicket begins.
Login(a) ==
  /\ login = NoRequest
  /\ login' = [op |-> "issue", account |-> a, attempt |-> 1]
  /\ UNCHANGED <<redis, mysql, cached, session, work, entry>>

\* Mutant: SET without NX.
SetOver(key, t) == TRUE

\* SetIfAbsentWithTtl: SET NX stores nothing under a key that is there.
SetIfAbsent(key, t) == key[t] = Null

\* IssueTicket: the next attempt after a collision, until there are too many.
NextAttempt(request) ==
  IF request.attempt < MaxAttempts
  THEN [request EXCEPT !.attempt = @ + 1]
  ELSE NoRequest

\* IssueTicket for LOGIN.  A random value is not drawn again once it is gone.
IssueWorldTicket(t) ==
  /\ login.op = "issue"
  /\ t \notin gone
  /\ \/ /\ SetIfAbsent(worldKey, t)
        /\ worldKey' = [worldKey EXCEPT ![t] = login.account]
        /\ \/ told' = [told EXCEPT ![t] = @ \cup {login.account}]
           \/ told' = told                       \* the answer of Redis is lost
        /\ login' = NoRequest
     \/ /\ ~ SetIfAbsent(worldKey, t)
        /\ login' = NextAttempt(login)
        /\ UNCHANGED <<worldKey, told>>
  /\ UNCHANGED <<channelKey, gone, used, mysql, cached, session, work, entry>>

\* Generate fails, or Redis does and stores nothing.
LoginFails ==
  /\ login.op = "issue"
  /\ login' = NoRequest
  /\ UNCHANGED <<redis, mysql, cached, session, work, entry>>
-------------------------------------------------------------------------------
(* WORLD.                                                                    *)

\* Mutant: GET leaves the key.
Get(key, t) == key

\* GetAndDelete: GETDEL takes the key away in the step that reads it.
GetAndDelete(key, t) == [key EXCEPT ![t] = Null]

\* WorldInitHandler with a ticket that some client was told.
WorldInit(w, t) ==
  /\ work = NoRequest
  /\ session[w] = Null
  /\ told[t] # {} /\ worldKey[t] # Null
  /\ worldKey' = GetAndDelete(worldKey, t)
  /\ gone' = gone \cup {t}
  /\ \/ /\ session' = [session EXCEPT ![w] = [account |-> worldKey[t], ticket |-> t]]
        /\ used' = [used EXCEPT ![t] = @ + 1]
     \/ UNCHANGED <<session, used>>              \* the answer of Redis is lost
  /\ UNCHANGED <<channelKey, told, mysql, cached, login, work, entry>>

\* The client of a WORLD session leaves.
Disconnect(w) ==
  /\ work = NoRequest
  /\ session[w] # Null
  /\ session' = [session EXCEPT ![w] = Null]
  /\ UNCHANGED <<redis, mysql, cached, login, work, entry>>

Authenticated == \E w \in WorldSession : session[w] # Null

CharactersOf(a) == {c \in CharacterId : owner[c] = a}

\* CheckExceedMaxCharNum.
BelowMax(a) == Cardinality(CharactersOf(a)) < MaxCharacters

\* InsertCharacter; AUTO_INCREMENT never gives a char_id again.
InsertCharacter(a) == [owner EXCEPT ![nextId] = a]

\* CharacterNewHandler; the account is a field of the packet.  Only WORLD's loop
\* writes the table, so the count and InsertCharacter are one step.
CharacterNew(a) ==
  /\ work = NoRequest /\ Authenticated
  /\ BelowMax(a)
  /\ nextId <= MaxId
  /\ owner' = InsertCharacter(a)
  /\ nextId' = nextId + 1
  /\ \/ work' = [op |-> "stat", character |-> nextId]
     \/ work' = NoRequest                      \* the answer of MySQL is lost
  /\ UNCHANGED <<redis, stat, cached, login, session, entry>>

\* InsertCharacterStat, a transaction of its own.  No property reads the rows of
\* InsertCharacterInventoryMeta, which follows.
InsertCharacterStat ==
  /\ work.op = "stat"
  /\ stat' = stat \cup {work.character}
  /\ work' = NoRequest
  /\ UNCHANGED <<redis, owner, nextId, cached, login, session, entry>>

\* A statement of CreateCharacter, or a command of IssueTicket, fails.
WorkFails ==
  /\ work # NoRequest
  /\ work' = NoRequest
  /\ UNCHANGED <<redis, mysql, cached, login, session, entry>>

\* CharacterDelHandler: one DELETE, which cascades to character_stat.
DeleteCharacter(c) ==
  /\ work = NoRequest /\ Authenticated
  /\ owner[c] # Null
  /\ owner' = [owner EXCEPT ![c] = Null]
  /\ stat' = stat \ {c}
  /\ UNCHANGED <<redis, nextId, cached, login, session, work, entry>>

\* Mutant: any character that exists can be selected.
Exists(a, c) == owner[c] # Null

OwnsCharacter(a, c) == owner[c] = a

\* ChannelSelectHandler: the character is the account's and the channel is
\* neither full nor down.
ChannelSelect(w, c, ch) ==
  /\ work = NoRequest
  /\ session[w] # Null
  /\ OwnsCharacter(session[w].account, c)
  /\ work' = [op |-> "issue", attempt |-> 1,
              claims |-> [account |-> session[w].account,
                          character |-> c, channel |-> ch]]
  /\ UNCHANGED <<redis, mysql, cached, login, session, entry>>

\* IssueTicket for WORLD.
IssueChannelTicket(t) ==
  /\ work.op = "issue"
  /\ t \notin gone
  /\ \/ /\ SetIfAbsent(channelKey, t)
        /\ channelKey' = [channelKey EXCEPT ![t] = work.claims]
        /\ \/ told' = [told EXCEPT ![t] = @ \cup {work.claims}]
           \/ told' = told
        /\ work' = NoRequest
     \/ /\ ~ SetIfAbsent(channelKey, t)
        /\ work' = NextAttempt(work)
        /\ UNCHANGED <<channelKey, told>>
  /\ UNCHANGED <<worldKey, gone, used, mysql, cached, login, session, entry>>

\* WORLD dies; MAIN starts it again, without sessions.
WorldCrash ==
  /\ work # NoRequest \/ Authenticated
  /\ work' = NoRequest
  /\ session' = [w \in WorldSession |-> Null]
  /\ UNCHANGED <<redis, mysql, cached, login, entry>>
-------------------------------------------------------------------------------
(* CHANNEL: ChannelAuthTask.                                                 *)

MatchesChannel(p, claims) == claims.channel = Serves[p]

At(stage, claims) == [at |-> stage, claims |-> claims]

\* ConsumeChannelTicket.  A ticket for another channel, or one whose answer is
\* lost, is gone all the same.
ConsumeChannelTicket(p, t) ==
  /\ entry[p] = Open
  /\ told[t] # {} /\ channelKey[t] # Null
  /\ channelKey' = GetAndDelete(channelKey, t)
  /\ gone' = gone \cup {t}
  /\ \/ /\ MatchesChannel(p, channelKey[t])
        /\ entry' = [entry EXCEPT ![p] = At("profile", channelKey[t])]
        /\ used' = [used EXCEPT ![t] = @ + 1]
     \/ UNCHANGED <<entry, used>>
  /\ UNCHANGED <<worldKey, told, mysql, cached, login, session, work>>

\* LoadPlayer finds the profile in Redis.
LoadCached(p) ==
  /\ entry[p].at = "profile"
  /\ entry[p].claims.character \in cached
  /\ entry' = [entry EXCEPT ![p] = At("playing", @.claims)]
  /\ UNCHANGED <<redis, mysql, cached, login, session, work>>

\* LoadPlayer: no profile in Redis, and the row of character is there.
LoadPlayerInfo(p) ==
  /\ entry[p].at = "profile"
  /\ entry[p].claims.character \notin cached
  /\ owner[entry[p].claims.character] # Null
  /\ entry' = [entry EXCEPT ![p] = At("stat", @.claims)]
  /\ UNCHANGED <<redis, mysql, cached, login, session, work>>

\* Mutant: a character without a row in character_stat is loaded.
AnyStat(c) == TRUE

HasStat(c) == c \in stat

\* LoadPlayerStat; the profile is put in Redis.  The inventory, skills and quick
\* slots load, or the session is refused (Leave), and the player enters.
LoadPlayerStat(p) ==
  /\ entry[p].at = "stat"
  /\ HasStat(entry[p].claims.character)
  /\ cached' = cached \cup {entry[p].claims.character}
  /\ entry' = [entry EXCEPT ![p] = At("playing", @.claims)]
  /\ UNCHANGED <<redis, mysql, login, session, work>>

\* A load fails, the player leaves, or the server stops.
Leave(p) ==
  /\ entry[p] # Open
  /\ entry' = [entry EXCEPT ![p] = Open]
  /\ UNCHANGED <<redis, mysql, cached, login, session, work>>
-------------------------------------------------------------------------------
(* Redis: keys with EX expire.                                               *)

ExpireWorldTicket(t) ==
  /\ worldKey[t] # Null
  /\ worldKey' = [worldKey EXCEPT ![t] = Null]
  /\ gone' = gone \cup {t}
  /\ UNCHANGED <<channelKey, told, used, mysql, cached, login, session, work, entry>>

ExpireChannelTicket(t) ==
  /\ channelKey[t] # Null
  /\ channelKey' = [channelKey EXCEPT ![t] = Null]
  /\ gone' = gone \cup {t}
  /\ UNCHANGED <<worldKey, told, used, mysql, cached, login, session, work, entry>>

ExpireProfile(c) ==
  /\ c \in cached
  /\ cached' = cached \ {c}
  /\ UNCHANGED <<redis, mysql, login, session, work, entry>>
-------------------------------------------------------------------------------
LoginNext ==
  \/ \E a \in Account : Login(a)
  \/ \E t \in WorldTicket : IssueWorldTicket(t)
  \/ LoginFails

WorldNext ==
  \/ \E w \in WorldSession, t \in WorldTicket : WorldInit(w, t)
  \/ \E w \in WorldSession : Disconnect(w)
  \/ \E a \in Account : CharacterNew(a)
  \/ InsertCharacterStat
  \/ WorkFails
  \/ \E c \in CharacterId : DeleteCharacter(c)
  \/ \E w \in WorldSession, c \in CharacterId, ch \in Channel : ChannelSelect(w, c, ch)
  \/ \E t \in ChannelTicket : IssueChannelTicket(t)
  \/ WorldCrash

ChannelNext ==
  \E p \in ChannelSession :
    \/ \E t \in ChannelTicket : ConsumeChannelTicket(p, t)
    \/ LoadCached(p)
    \/ LoadPlayerInfo(p)
    \/ LoadPlayerStat(p)
    \/ Leave(p)

RedisNext ==
  \/ \E t \in WorldTicket : ExpireWorldTicket(t)
  \/ \E t \in ChannelTicket : ExpireChannelTicket(t)
  \/ \E c \in CharacterId : ExpireProfile(c)

EntryNext == LoginNext \/ WorldNext \/ ChannelNext \/ RedisNext

EntrySpec == EntryInit /\ [][EntryNext]_entryVars
-------------------------------------------------------------------------------
WorkType ==
  {NoRequest}
    \cup [op : {"stat"}, character : CharacterId]
    \cup [op : {"issue"}, attempt : 1 .. MaxAttempts, claims : Claims]

EntryTypeOK ==
  /\ worldKey \in [WorldTicket -> Account \cup {Null}]
  /\ channelKey \in [ChannelTicket -> Claims \cup {Null}]
  /\ gone \subseteq Ticket
  /\ told \in [Ticket -> SUBSET (Account \cup Claims)]
  /\ used \in [Ticket -> Nat]
  /\ owner \in [CharacterId -> Account \cup {Null}]
  /\ stat \subseteq CharacterId /\ cached \subseteq CharacterId
  /\ nextId \in 1 .. MaxId + 1
  /\ login \in {NoRequest} \cup [op : {"issue"}, account : Account, attempt : 1 .. MaxAttempts]
  /\ session \in [WorldSession -> Identity \cup {Null}]
  /\ work \in WorkType
  /\ entry \in [ChannelSession ->
                  {Open} \cup [at : {"profile", "stat", "playing"}, claims : Claims]]

\* A ticket is accepted at most once, by WORLD or by a CHANNEL server,
\* whatever answers are lost and whatever expires: IssueTicket and ConsumeTicket.
TicketUsedOnce ==
  \A t \in Ticket : used[t] <= 1 /\ (used[t] = 1 => t \in gone)

\* Whoever got a ticket as the answer to the password of an account is in WORLD
\* as that account, even if two logins draw the same value: SET NX, GETDEL and
\* WorldInitHandler together.
SessionIsItsLogin ==
  \A w \in WorldSession :
    session[w] # Null => told[session[w].ticket] = {session[w].account}

\* From the moment CHANNEL takes its ticket, a player is on the channel WORLD
\* chose, with a character that no other account owns, though the character may
\* have been deleted since WORLD looked.
EntersAsAuthorised ==
  \A p \in ChannelSession :
    entry[p] # Open =>
      /\ entry[p].claims.channel = Serves[p]
      /\ owner[entry[p].claims.character] \in {entry[p].claims.account, Null}

\* A character that plays, from MySQL or from its profile in Redis, and that was
\* not deleted meanwhile has its stats: LoadPlayer against a CreateCharacter that
\* was cut short.
PlaysWithStats ==
  \A p \in ChannelSession :
    /\ entry[p].at = "playing"
    /\ owner[entry[p].claims.character] # Null
    => entry[p].claims.character \in stat
===============================================================================
