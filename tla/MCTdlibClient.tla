--------------------------- MODULE MCTdlibClient ---------------------------
(* Instances of TdlibClient for TLC: a text and a document in two chats,    *)
(* whose temporary ids may coincide, and a reply.                           *)
EXTENDS TdlibClient, TLC

CONSTANTS t1, d1, chat1, chat2

MCChatOf == (t1 :> chat1) @@ (d1 :> chat2)
=============================================================================
