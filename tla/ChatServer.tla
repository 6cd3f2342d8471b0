------------------------------ MODULE ChatServer ------------------------------
(***************************************************************************)
(* The CHAT process (CHAT/app/Server.cpp): one thread that waits in select,  *)
(* accepts, receives what a readable client has sent, cuts packets out of    *)
(* the bytes (PacketParser::TryParse) and runs their handlers, each of which *)
(* writes to blocking sockets; and the signal thread of CHAT/main.cpp.       *)
(*                                                                           *)
(* A packet arrives as its header and the rest; a message, a name and an     *)
(* error text are the number of the packet they belong to. Sockets are the   *)
(* kernel's: a send blocks while the window of a client is full, and a send  *)
(* to a client that has closed may end the process, since neither            *)
(* MSG_NOSIGNAL nor a handler of SIGPIPE is set. LOGIN and WORLD have the     *)
(* same loop with other handlers.                                            *)
(***************************************************************************)
EXTENDS Naturals, Sequences, FiniteSets, SequencesExt

CONSTANTS
  Client,
  Plans,       \* what the clients may have to send: functions of client to kinds of packets
  Window,      \* packets a client's socket takes before it has to read
  QueueSize,   \* commands the message queue takes
  MaxClosed,   \* clients that close, a bound of the checks
  Null

Kind == {"init", "chat", "command", "malformed", "unknown", "broken", "full"}

\* What ChatMsgHandler relays: a command is relayed as well as dispatched.
Spoken == {"chat", "command"}

\* What is only answered: the name of the client, and text that cannot be parsed.
Answered == {"init", "malformed"}

\* A message within the limit of a packet that leaves no room for the name of its
\* author and the lengths: MakePacket throws before anything is written.
TooLong == {"full"}

ASSUME ChatServerAssumption ==
  /\ Plans \subseteq [Client -> Seq(Kind)]
  /\ Window \in Nat \ {0}
  /\ {QueueSize, MaxClosed} \subseteq Nat
  /\ Null \notin Client \cup Nat

VARIABLES
  packets,     \* packets[c]: the kinds of the packets that c sends, in order
  side,        \* side[c] \in {"out", "up", "down"}: the client's end
  backlog,     \* clients that connected and were not accepted yet
  written,     \* written[c]: packets c has sent
  wire,        \* wire[c]: pieces <<number, part>> that were not received
  unread,      \* unread[c]: packets c has not read
  clients,     \* m_clients
  buffer,      \* buffer[c]: m_recvBuffer
  running,     \* m_running
  pc,          \* where the main thread is
  readable,    \* readableClients that are left
  cli,         \* the client being processed
  packet,      \* the number of its packet, while a handler runs
  pending,     \* clients BroadCast has still to write to
  queue,       \* commands in the message queue
  log,         \* the messages in the order of their handlers
  joined,      \* joined[c]: Len(log) when c was accepted
  heard        \* heard[c]: the messages written to the socket of c

net == <<packets, side, backlog, written, wire, unread>>
server == <<clients, buffer, readable, cli, packet, pending, queue>>
room == <<log, joined, heard>>
vars == <<net, server, room, running, pc>>

Pieces(c) == {<<n, part>> : n \in 1 .. Len(packets[c]), part \in {"head", "rest"}}

Init ==
  /\ packets \in Plans
  /\ side = [c \in Client |-> "out"]
  /\ backlog = <<>>
  /\ written = [c \in Client |-> 0]
  /\ wire = [c \in Client |-> <<>>]
  /\ unread = [c \in Client |-> 0]
  /\ clients = <<>>
  /\ buffer = [c \in Client |-> <<>>]
  /\ running = TRUE
  /\ pc = "select"
  /\ readable = <<>>
  /\ cli = Null
  /\ packet = Null
  /\ pending = <<>>
  /\ queue = 0
  /\ log = <<>>
  /\ joined = [c \in Client |-> Null]
  /\ heard = [c \in Client |-> <<>>]

-------------------------------------------------------------------------------
(* The clients. *)

Connect(c) ==
  /\ side[c] = "out"
  /\ side' = [side EXCEPT ![c] = "up"]
  /\ backlog' = Append(backlog, c)
  /\ UNCHANGED <<packets, written, wire, unread, server, room, running, pc>>

Write(c) ==
  LET n == written[c] + 1
  IN  /\ side[c] = "up"
      /\ n <= Len(packets[c])
      /\ written' = [written EXCEPT ![c] = n]
      /\ wire' = [wire EXCEPT ![c] = @ \o <<<<n, "head">>, <<n, "rest">>>>]
      /\ UNCHANGED <<packets, side, backlog, unread, server, room, running, pc>>

Read(c) ==
  /\ side[c] = "up"
  /\ unread[c] > 0
  /\ unread' = [unread EXCEPT ![c] = @ - 1]
  /\ UNCHANGED <<packets, side, backlog, written, wire, server, room, running, pc>>

Close(c) ==
  /\ side[c] = "up"
  /\ Cardinality({d \in Client : side[d] = "down"}) < MaxClosed
  /\ side' = [side EXCEPT ![c] = "down"]
  /\ unread' = [unread EXCEPT ![c] = 0]
  /\ UNCHANGED <<packets, backlog, written, wire, server, room, running, pc>>

\* The signal thread.
RequestStop ==
  /\ running
  /\ pc \notin {"ended", "killed"}
  /\ running' = FALSE
  /\ UNCHANGED <<net, server, room, pc>>

-------------------------------------------------------------------------------
(* The main thread. *)

Ready(c) == wire[c] # <<>> \/ side[c] = "down"

\* The clients of a vector that are in a set, in the order they have there.
Only(seq, set) ==
  FoldLeft(LAMBDA kept, c : IF c \in set THEN Append(kept, c) ELSE kept, <<>>, seq)

\* select returns, the readable clients are copied and one client is accepted.
\* A time-out, or an interrupted select, changes nothing.
Select ==
  /\ pc = "select"
  /\ running
  /\ backlog # <<>> \/ \E c \in ToSet(clients) : Ready(c)
  /\ readable' = Only(clients, {c \in Client : Ready(c)})
  /\ IF backlog = <<>>
     THEN UNCHANGED <<backlog, clients, joined>>
     ELSE /\ backlog' = Tail(backlog)
          /\ clients' = Append(clients, Head(backlog))
          /\ joined' = [joined EXCEPT ![Head(backlog)] = Len(log)]
  /\ pc' = "process"
  /\ UNCHANGED <<packets, side, written, wire, unread, buffer, cli, packet, pending, queue,
                 log, heard, running>>

DisconnectClient(c) ==
  /\ clients' = Only(clients, Client \ {c})
  /\ buffer' = [buffer EXCEPT ![c] = <<>>]
  /\ wire' = [wire EXCEPT ![c] = <<>>]

\* ProcessClient receives some of what is there, or learns that c has closed:
\* at the end of its bytes, or before it when the connection was reset.
Receive ==
  LET c == Head(readable)
  IN  /\ pc = "process"
      /\ running
      /\ readable # <<>>
      /\ readable' = Tail(readable)
      /\ \/ \E k \in 1 .. Len(wire[c]) :
              /\ buffer' = [buffer EXCEPT ![c] = @ \o SubSeq(wire[c], 1, k)]
              /\ wire' = [wire EXCEPT ![c] = SubSeq(@, k + 1, Len(@))]
              /\ cli' = c
              /\ pc' = "parse"
              /\ UNCHANGED clients
         \/ /\ side[c] = "down"
            /\ DisconnectClient(c)
            /\ UNCHANGED <<cli, pc>>
      /\ UNCHANGED <<packets, side, backlog, written, unread, packet, pending, queue, room, running>>

\* The readable clients are done, or the server is to stop.
EndOfRound ==
  /\ pc = "process"
  /\ readable = <<>> \/ ~running
  /\ readable' = <<>>
  /\ pc' = "select"
  /\ UNCHANGED <<net, clients, buffer, cli, packet, pending, queue, room, running>>

\* Mutant: TryParse clears the whole buffer when it returns a packet.
EraseAll(bytes) == <<>>

\* The bytes after the packet that TryParse returns.
Erase(bytes) == SubSeq(bytes, 3, Len(bytes))

Invalid(c) == buffer[c] # <<>> /\ packets[c][buffer[c][1][1]] = "broken"
Complete(c) == Len(buffer[c]) >= 2 /\ ~Invalid(c)

NeedMoreData ==
  /\ pc = "parse"
  /\ ~Invalid(cli) /\ ~Complete(cli)
  /\ cli' = Null
  /\ pc' = "process"
  /\ UNCHANGED <<net, clients, buffer, readable, packet, pending, queue, room, running>>

InvalidPacket ==
  /\ pc = "parse"
  /\ Invalid(cli)
  /\ DisconnectClient(cli)
  /\ side' = [side EXCEPT ![cli] = "down"]
  /\ unread' = [unread EXCEPT ![cli] = 0]
  /\ cli' = Null
  /\ pc' = "process"
  /\ UNCHANGED <<packets, backlog, written, readable, packet, pending, queue, room, running>>

\* Where the handler that the factory creates begins; a packet without one is
\* skipped, and an exception of a handler ends Run.
Create(kind) ==
  CASE kind \in Answered -> "reply"
    [] kind \in TooLong -> "shutdown"
    [] kind = "command" -> "dispatch"
    [] kind = "chat" -> "broadcast"
    [] OTHER -> "parse"

\* A packet is cut out of the buffer and given to its handler.
TryParse ==
  LET n == buffer[cli][1][1]
      handler == Create(packets[cli][n])
  IN  /\ pc = "parse"
      /\ Complete(cli)
      /\ buffer' = [buffer EXCEPT ![cli] = Erase(@)]
      /\ packet' = IF handler = "parse" THEN Null ELSE n
      /\ pc' = handler
      /\ UNCHANGED <<net, clients, readable, cli, pending, queue, room, running>>

\* msgsnd without IPC_NOWAIT: nothing takes the commands out of the queue.
Dispatch ==
  /\ pc = "dispatch"
  /\ queue < QueueSize
  /\ queue' = queue + 1
  /\ pc' = "broadcast"
  /\ UNCHANGED <<net, clients, buffer, readable, cli, packet, pending, room, running>>

BroadCast ==
  /\ pc = "broadcast"
  /\ log' = Append(log, <<cli, packet>>)
  /\ pending' = Only(clients, Client \ {cli})
  /\ pc' = "relay"
  /\ UNCHANGED <<net, clients, buffer, readable, cli, packet, queue, joined, heard, running>>

CanSend(c) == side[c] = "down" \/ unread[c] < Window

\* A packet is written to the socket of c, and the kernel takes it.
Send(c) ==
  /\ CanSend(c)
  /\ unread' = [unread EXCEPT ![c] = IF side[c] = "up" THEN @ + 1 ELSE 0]
  /\ heard' = IF packets[cli][packet] \in Spoken
              THEN [heard EXCEPT ![c] = Append(@, <<cli, packet>>)]
              ELSE heard

\* Mutant: a client that closed is disconnected by the loop that relays to it.
RelayAndDisconnect ==
  /\ pc = "relay"
  /\ pending # <<>>
  /\ Send(Head(pending))
  /\ pending' = Tail(pending)
  /\ IF side[Head(pending)] = "down"
     THEN DisconnectClient(Head(pending))
     ELSE UNCHANGED <<clients, buffer, wire>>
  /\ UNCHANGED <<packets, side, backlog, written, readable, cli, packet, queue,
                 log, joined, running, pc>>

\* Mutant: a message is dropped for a client that has no room.
RelayOrSkip ==
  /\ pc = "relay"
  /\ pending # <<>>
  /\ Send(Head(pending)) \/ (~CanSend(Head(pending)) /\ UNCHANGED <<unread, heard>>)
  /\ pending' = Tail(pending)
  /\ UNCHANGED <<packets, side, backlog, written, wire, clients, buffer, readable, cli, packet,
                 queue, log, joined, running, pc>>

Relay ==
  /\ pc = "relay"
  /\ pending # <<>>
  /\ Send(Head(pending))
  /\ pending' = Tail(pending)
  /\ UNCHANGED <<packets, side, backlog, written, wire, clients, buffer, readable, cli, packet,
                 queue, log, joined, running, pc>>

AtReply == pc = "reply" \/ (pc = "relay" /\ pending = <<>>)

\* SendOk or SendNok to the client itself.
Reply ==
  /\ AtReply
  /\ Send(cli)
  /\ packet' = Null
  /\ pc' = "parse"
  /\ UNCHANGED <<packets, side, backlog, written, wire, clients, buffer, readable, cli, pending,
                 queue, log, joined, running>>

\* A send to a socket that was reset raises SIGPIPE.
BrokenPipe ==
  /\ \/ pc = "relay" /\ pending # <<>> /\ side[Head(pending)] = "down"
     \/ AtReply /\ side[cli] = "down"
  /\ pc' = "killed"
  /\ UNCHANGED <<net, server, room, running>>

\* Mutant: the process waits for its clients to leave.
ShutdownWhenEmpty ==
  /\ pc = "shutdown" \/ (pc = "select" /\ ~running)
  /\ clients = <<>>
  /\ running' = FALSE
  /\ pc' = "ended"
  /\ UNCHANGED <<net, server, room>>

\* Run has returned or thrown: the signal thread is joined and every client closed.
ShutdownGracefully ==
  /\ pc = "shutdown" \/ (pc = "select" /\ ~running)
  /\ running' = FALSE
  /\ pc' = "ended"
  /\ clients' = <<>>
  /\ UNCHANGED <<net, buffer, readable, cli, packet, pending, queue, room>>

Main ==
  \/ Select \/ Receive \/ EndOfRound \/ NeedMoreData \/ InvalidPacket \/ TryParse
  \/ Dispatch \/ BroadCast \/ Relay \/ Reply \/ BrokenPipe \/ ShutdownGracefully

Next ==
  \/ \E c \in Client : Connect(c) \/ Write(c) \/ Read(c) \/ Close(c)
  \/ RequestStop
  \/ Main

\* The main thread goes on whenever it can, and a client that is there reads.
Spec ==
  /\ Init
  /\ [][Next]_vars
  /\ WF_vars(Main)
  /\ \A c \in Client : WF_vars(Read(c))

-------------------------------------------------------------------------------
(* Properties. *)

\* The loops of the server hold raw pointers: those that were copied from
\* select, the one being processed and those a message is relayed to are all
\* clients that were not deleted; and the variables are of their types.
NoStaleClient ==
  /\ side \in [Client -> {"out", "up", "down"}]
  /\ unread \in [Client -> 0 .. Window]
  /\ written \in [Client -> Nat]
  /\ \A c \in Client : ToSet(wire[c]) \cup ToSet(buffer[c]) \subseteq Pieces(c)
  /\ pc \notin {"ended", "killed", "shutdown"} =>
       ToSet(readable) \cup ToSet(pending) \cup ({cli} \ {Null}) \subseteq ToSet(clients)

\* The server implements ChatRoom: one order of messages for all.
Room == INSTANCE ChatRoom
ImplementsChatRoom == Room!Spec

Stalled == pc = "dispatch" /\ queue = QueueSize

Unheard(c) == \E n \in 1 .. written[c] : packets[c][n] \in Spoken /\ ~Contains(log, <<c, n>>)

\* The messages a client wrote are all relayed, however they were cut up on the
\* way, unless that client or the server is gone first or the full message queue
\* is in the way.
MessagesAreRelayed ==
  \A c \in Client :
    Unheard(c) ~> (~Unheard(c) \/ side[c] = "down" \/ ~running \/ pc = "killed" \/ Stalled)

\* After a request to stop the process ends. The exception is a main thread that
\* waits for room in the message queue, which nobody reads.
StopEnds == ~running ~> (pc \in {"ended", "killed"} \/ Stalled)
===============================================================================
