-------------------------- MODULE MCChannelSessions --------------------------
(* Two descriptors, three connections (so one is reused), one character.     *)
EXTENDS ChannelSessions
===============================================================================
