------------------------------- MODULE SendQueue -------------------------------
(***************************************************************************)
(* CHANNEL/app: the send queue of one ChannelSession.                        *)
(*                                                                          *)
(* Worker threads, the map thread and the main thread enqueue packets; only  *)
(* the main thread writes to the non-blocking socket, when epoll reports     *)
(* EPOLLOUT.  EPOLLOUT is watched only while there is something to send: it  *)
(* is turned on by the thread that enqueues into an empty queue and off by   *)
(* the main thread, both outside m_sendMutex.                                *)
(***************************************************************************)
EXTENDS Naturals, Sequences

CONSTANTS
  Packet,   \* the packets sent during the run, each by a thread of its own
  Length,   \* their sizes in bytes
  Capacity  \* bytes the socket's send buffer holds

ASSUME SendAssumption ==
  Capacity \in Nat \ {0} /\ Length \in [Packet -> Nat \ {0}]

VARIABLES
  sendQueue,   \* m_sendQueue
  sendOffset,  \* m_sendOffset
  sendMutex,   \* the main thread holds m_sendMutex in FlushSend
  closing,     \* m_closing
  writeEvent,  \* EPOLLOUT is watched for the descriptor
  sender,      \* the step of the thread that sends a packet
  main,        \* the step of the main thread in OnSend
  buffered,    \* bytes in the socket's send buffer
  accepted,    \* history: the packets enqueued
  wire         \* history: the bytes written to the socket

sendVars == <<sendQueue, sendOffset, sendMutex, closing, writeEvent, sender, main,
          buffered, accepted, wire>>

SendInit ==
  /\ sendQueue = <<>>
  /\ sendOffset = 0
  /\ sendMutex = FALSE
  /\ closing = FALSE
  /\ writeEvent = FALSE
  /\ sender = [p \in Packet |-> "start"]
  /\ main = "loop"
  /\ buffered = 0
  /\ accepted = <<>>
  /\ wire = <<>>
-------------------------------------------------------------------------------
(* EnqueueSend.                                                             *)

CheckClosing(p) ==
  /\ sender[p] = "start"
  /\ sender' = [sender EXCEPT ![p] = IF closing THEN "done" ELSE "push"]
  /\ UNCHANGED <<sendQueue, sendOffset, sendMutex, closing, writeEvent, main,
                 buffered, accepted, wire>>

\* Mutant: needEnableWrite is taken after the push.
NeedsEnableLate == FALSE

\* needEnableWrite
NeedsEnable == sendQueue = <<>>

PushPacket(p) ==
  /\ sender[p] = "push"
  /\ ~sendMutex
  /\ sender' = [sender EXCEPT ![p] = IF NeedsEnable THEN "enable" ELSE "done"]
  /\ sendQueue' = Append(sendQueue, p)
  /\ accepted' = Append(accepted, p)
  /\ UNCHANGED <<sendOffset, sendMutex, closing, writeEvent, main, buffered, wire>>

EnableWriteEvent(p) ==
  /\ sender[p] = "enable"
  /\ sender' = [sender EXCEPT ![p] = "done"]
  /\ writeEvent' = TRUE
  /\ UNCHANGED <<sendQueue, sendOffset, sendMutex, closing, main, buffered, accepted,
                 wire>>
-------------------------------------------------------------------------------
(* OnSend and FlushSend, on the main thread.                                *)

\* epoll_wait reports EPOLLOUT while it is watched and the buffer has room.
OnSend ==
  /\ main = "loop"
  /\ ~closing
  /\ writeEvent
  /\ buffered < Capacity
  /\ sendMutex' = TRUE
  /\ main' = "flush"
  /\ UNCHANGED <<sendQueue, sendOffset, closing, writeEvent, sender, buffered,
                 accepted, wire>>

\* Mutant: m_sendOffset is not reset when a packet is finished.
KeepOffset(n) == sendOffset' = sendOffset + n

AdvanceOffset(n) ==
  sendOffset' = IF sendOffset + n = Length[Head(sendQueue)] THEN 0 ELSE sendOffset + n

\* One send(): some bytes of the first packet, from m_sendOffset on.
SendBytes ==
  /\ main = "flush"
  /\ sendQueue # <<>>
  /\ LET p == Head(sendQueue) IN
     \E n \in 1 .. (Length[p] - sendOffset) :
       /\ buffered + n <= Capacity
       /\ buffered' = buffered + n
       /\ wire' = wire \o [i \in 1 .. n |-> <<p, sendOffset + i>>]
       /\ sendQueue' = IF sendOffset + n = Length[p] THEN Tail(sendQueue) ELSE sendQueue
       /\ AdvanceOffset(n)
  /\ UNCHANGED <<sendMutex, closing, writeEvent, sender, main, accepted>>

\* FlushSend returns true: nothing left, or EAGAIN.
FlushDone ==
  /\ main = "flush"
  /\ sendQueue = <<>> \/ buffered = Capacity
  /\ sendMutex' = FALSE
  /\ main' = "check"
  /\ UNCHANGED <<sendQueue, sendOffset, closing, writeEvent, sender, buffered,
                 accepted, wire>>

\* FlushSend returns false: OnDisconnect.
FlushFails ==
  /\ main = "flush"
  /\ sendQueue # <<>>
  /\ sendMutex' = FALSE
  /\ closing' = TRUE
  /\ main' = "loop"
  /\ UNCHANGED <<sendQueue, sendOffset, writeEvent, sender, buffered, accepted, wire>>

\* OnSend: HasPendingSend.
CheckPending ==
  /\ main = "check"
  /\ main' = IF sendQueue = <<>> THEN "disable" ELSE "loop"
  /\ UNCHANGED <<sendQueue, sendOffset, sendMutex, closing, writeEvent, sender,
                 buffered, accepted, wire>>

DisableWriteEvent ==
  /\ main = "disable"
  /\ writeEvent' = FALSE
  /\ main' = "recheck"
  /\ UNCHANGED <<sendQueue, sendOffset, sendMutex, closing, sender, buffered, accepted,
                 wire>>

\* Mutant: OnSend that does not look again after DisableWriteEvent.
NothingArrived == TRUE

NothingPending == sendQueue = <<>>

\* OnSend: HasPendingSend again, and EnableWriteEvent if there is something.
RecheckPending ==
  /\ main = "recheck"
  /\ main' = IF NothingPending THEN "loop" ELSE "enable"
  /\ UNCHANGED <<sendQueue, sendOffset, sendMutex, closing, writeEvent, sender,
                 buffered, accepted, wire>>

EnableAgain ==
  /\ main = "enable"
  /\ writeEvent' = TRUE
  /\ main' = "loop"
  /\ UNCHANGED <<sendQueue, sendOffset, sendMutex, closing, sender, buffered, accepted,
                 wire>>

\* OnDisconnect for another reason.
MarkClosing ==
  /\ main = "loop"
  /\ ~closing
  /\ closing' = TRUE
  /\ UNCHANGED <<sendQueue, sendOffset, sendMutex, writeEvent, sender, main, buffered,
                 accepted, wire>>

\* The client reads.
ClientReads ==
  /\ buffered > 0
  /\ \E n \in 0 .. (buffered - 1) : buffered' = n
  /\ UNCHANGED <<sendQueue, sendOffset, sendMutex, closing, writeEvent, sender, main,
                 accepted, wire>>
-------------------------------------------------------------------------------
MainStep ==
  \/ OnSend \/ SendBytes \/ FlushDone
  \/ CheckPending \/ DisableWriteEvent \/ RecheckPending \/ EnableAgain

SendNext ==
  \/ \E p \in Packet : CheckClosing(p) \/ PushPacket(p) \/ EnableWriteEvent(p)
  \/ OnSend \/ SendBytes \/ FlushDone \/ FlushFails
  \/ CheckPending \/ DisableWriteEvent \/ RecheckPending \/ EnableAgain
  \/ MarkClosing
  \/ ClientReads

SendSpec == SendInit /\ [][SendNext]_sendVars

(***************************************************************************)
(* The threads go on running.  epoll is level-triggered: a descriptor that   *)
(* is writable again and again is reported in the end (strong fairness).     *)
(* A client that stays connected reads what it is sent.                      *)
(***************************************************************************)
SendFairness ==
  /\ WF_sendVars(MainStep)
  /\ SF_sendVars(OnSend)
  /\ \A p \in Packet : WF_sendVars(EnableWriteEvent(p))
  /\ WF_sendVars(ClientReads)

SendFairSpec == SendSpec /\ SendFairness
-------------------------------------------------------------------------------
Stream == INSTANCE PacketStream WITH open <- ~closing

SendTypeOK ==
  /\ sendQueue \in Seq(Packet)
  /\ sendOffset \in Nat
  /\ sendQueue # <<>> => sendOffset < Length[Head(sendQueue)]
  /\ sendQueue = <<>> => sendOffset = 0
  /\ sendMutex \in BOOLEAN
  /\ closing \in BOOLEAN
  /\ writeEvent \in BOOLEAN
  /\ sender \in [Packet -> {"start", "push", "enable", "done"}]
  /\ main \in {"loop", "flush", "check", "disable", "recheck", "enable"}
  /\ buffered \in 0 .. Capacity
  /\ accepted \in Seq(Packet)
  /\ wire \in Seq(Packet \X Nat)

(***************************************************************************)
(* The client gets the packets whole, in the order they were enqueued, also  *)
(* when a packet is written in pieces between which others are enqueued.     *)
(***************************************************************************)
ImplementsStream == Stream!Spec

(***************************************************************************)
(* While the session is open, something in the queue means that EPOLLOUT is  *)
(* watched or that some thread is about to turn it on: turning it off races  *)
(* with threads that enqueue, and the main thread looks again afterwards.    *)
(***************************************************************************)
NeverStranded ==
  ~closing /\ sendQueue # <<>> =>
    \/ writeEvent
    \/ main \in {"recheck", "enable"}
    \/ \E p \in Packet : sender[p] = "enable"

(***************************************************************************)
(* An accepted packet is written completely, unless the session closes.      *)
(***************************************************************************)
AcceptedIsSent ==
  \A p \in Packet :
    (sender[p] \in {"enable", "done"} /\ \E i \in DOMAIN accepted : accepted[i] = p)
      ~> (closing \/ \E i \in DOMAIN wire : wire[i] = <<p, Length[p]>>)
===============================================================================
