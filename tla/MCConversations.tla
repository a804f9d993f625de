--------------------------- MODULE MCConversations ---------------------------
(* Instances of Conversations for TLC. *)
EXTENDS Conversations

(* A message of a chat, a scheduled task of that chat, which waits in a    *)
(* queue of its own (executor.rs has a static one beside the webhook's),   *)
(* and a request of a web client.                                          *)
MCTurns == {"chat", "task", "web"}
MCFeishu == {"chat", "task"}
MCNames == [chat |-> "c", task |-> "c", web |-> "w"]
MCQueues == [chat |-> "q1", task |-> "q2", web |-> "q3"]
MCAnswers == {<<"reply", "tool">>}
=============================================================================
