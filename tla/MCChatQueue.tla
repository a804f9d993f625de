----------------------------- MODULE MCChatQueue -----------------------------
(***************************************************************************)
(* Instances of ChatQueue for TLC.  All messages go to one chat: mailboxes *)
(* of different chats share nothing but the lock of the map, and the       *)
(* webhook's and the executor's queues already are two mailboxes.          *)
(***************************************************************************)
EXTENDS ChatQueue

CONSTANT chat

MCChatOf == [m \in Msgs |-> chat]
=============================================================================
