--------------------------- MODULE MCConversation ---------------------------
(***************************************************************************)
(* Two chats of two guests or of none, with two rounds and room for three  *)
(* messages of content and for one conversation.                           *)
(***************************************************************************)
EXTENDS Conversation

MCBodies == {<<"g1", TRUE>>, <<"g1", FALSE>>, <<"g2", FALSE>>, <<NoGuest, TRUE>>}
====
