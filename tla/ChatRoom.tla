------------------------------- MODULE ChatRoom -------------------------------
(***************************************************************************)
(* What the CHAT server promises to those who talk: there is one order of    *)
(* all messages, which keeps the order of each speaker and leaves none of    *)
(* theirs out, and each client hears that order from where it came in, with  *)
(* no gap and nothing twice, its own messages included.                      *)
(***************************************************************************)
EXTENDS Naturals, Sequences, SequencesExt

CONSTANTS
  Client,
  Plans,       \* what the clients may have to send
  Spoken,      \* the kinds that are heard by others
  Null

VARIABLES
  packets,     \* packets[c]: what c has to send, a sequence of kinds of packets
  log,         \* the messages <<client, number of the packet>> in their order
  joined,      \* joined[c]: how many messages there were when c came in, or Null
  heard        \* heard[c]: the messages written to c

vars == <<packets, log, joined, heard>>

Init ==
  /\ packets \in Plans
  /\ log = <<>>
  /\ joined = [c \in Client |-> Null]
  /\ heard = [c \in Client |-> <<>>]

Join(c) ==
  /\ joined[c] = Null
  /\ joined' = [joined EXCEPT ![c] = Len(log)]
  /\ UNCHANGED <<packets, log, heard>>

\* The n-th packet of c is the first of its messages that was not heard yet.
IsNext(c, n) ==
  /\ packets[c][n] \in Spoken
  /\ \A k \in 1 .. (n - 1) : packets[c][k] \in Spoken <=> Contains(log, <<c, k>>)
  /\ ~Contains(log, <<c, n>>)

Say(c) ==
  /\ joined[c] # Null
  /\ \E n \in 1 .. Len(packets[c]) :
       /\ IsNext(c, n)
       /\ log' = Append(log, <<c, n>>)
  /\ UNCHANGED <<packets, joined, heard>>

Hear(c) ==
  /\ joined[c] # Null
  /\ joined[c] + Len(heard[c]) < Len(log)
  /\ heard' = [heard EXCEPT ![c] = Append(@, log[joined[c] + Len(@) + 1])]
  /\ UNCHANGED <<packets, log, joined>>

Next == \E c \in Client : Join(c) \/ Say(c) \/ Hear(c)

Spec == Init /\ [][Next]_vars
===============================================================================
