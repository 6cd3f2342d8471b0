----------------------------- MODULE PacketStream -----------------------------
(***************************************************************************)
(* What a ChannelSession promises to those who send: packets are accepted    *)
(* one after the other, and the client gets their bytes in that order,       *)
(* none twice, none missing and never a part of one packet inside another,   *)
(* until the session closes.                                                 *)
(***************************************************************************)
EXTENDS Naturals, Sequences

CONSTANTS Packet, Length

VARIABLES accepted, wire, open

vars == <<accepted, wire, open>>

\* The byte after byte i of packets[k]: of the same packet, or of the next one.
NextByte(packets, k, i) ==
  IF i < Length[packets[k]] THEN <<packets[k], i + 1>> ELSE <<packets[k + 1], 1>>

Follows(packets, b, c) ==
  \E k \in 1 .. Len(packets) :
    /\ b[1] = packets[k]
    /\ b[2] < Length[packets[k]] \/ k < Len(packets)
    /\ c = NextByte(packets, k, b[2])

\* The bytes are those of the packets, one packet after the other.
InOrder(bytes, packets) ==
  /\ bytes # <<>> => packets # <<>> /\ bytes[1] = <<packets[1], 1>>
  /\ \A j \in 1 .. (Len(bytes) - 1) : Follows(packets, bytes[j], bytes[j + 1])

Init == accepted = <<>> /\ wire = <<>> /\ open = TRUE

\* Also of a session that is closing: such a packet is dropped with it.
Accept ==
  /\ \E p \in Packet :
       /\ \A k \in 1 .. Len(accepted) : accepted[k] # p
       /\ accepted' = Append(accepted, p)
  /\ UNCHANGED <<wire, open>>

Deliver ==
  /\ open
  /\ Len(wire) < Len(wire')
  /\ SubSeq(wire', 1, Len(wire)) = wire
  /\ InOrder(wire', accepted)
  /\ UNCHANGED <<accepted, open>>

Close ==
  /\ open
  /\ open' = FALSE
  /\ UNCHANGED <<accepted, wire>>

Next == Accept \/ Deliver \/ Close

Spec == Init /\ [][Next]_vars
===============================================================================
