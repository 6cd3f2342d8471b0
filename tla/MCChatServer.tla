----------------------------- MODULE MCChatServer -----------------------------
(***************************************************************************)
(* Two who talk and one who listens.                                         *)
(***************************************************************************)
EXTENDS ChatServer

CONSTANTS ann, bob, cid

Plan(a, b) == (ann :> a) @@ (bob :> b) @@ (cid :> <<>>)

MCPlans ==
  {Plan(<<"chat", "chat">>, <<"command">>),
   Plan(<<"unknown", "chat", "broken">>, <<>>),
   Plan(<<"command", "command">>, <<"full">>),
   Plan(<<"malformed">>, <<"init">>)}
===============================================================================
