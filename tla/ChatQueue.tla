------------------------------ MODULE ChatQueue ------------------------------
(***************************************************************************)
(* The per-chat message queue of the Feishu server                         *)
(* (arcc-server/src/feishu/chat_queue.rs) with its two users: the webhook, *)
(* which enqueues user messages and does not wait, and the task executor,  *)
(* which enqueues a scheduler trigger and awaits its result.  Each of the  *)
(* two has a ChatQueue of its own (a function-local static).               *)
(*                                                                         *)
(* A queue is a map from chats to the sending end of the channel of that   *)
(* chat's consumer task.  A consumer is named by the message it was        *)
(* spawned for, so `channel[c]', `task[c]' and `current[c]' are the        *)
(* channel, the control state and the message in hand of the consumer      *)
(* spawned for c.  The map is guarded by a mutex that no one holds across  *)
(* an await, so each critical section is one step; the channel is not      *)
(* guarded by it, and a consumer gives up its receiver without it.         *)
(*                                                                         *)
(* One turn (process_feishu_chat) is a start, and an end whose result is   *)
(* chosen freely.                                                          *)
(***************************************************************************)
EXTENDS Naturals, Sequences, FiniteSets

CONSTANTS Events,    \* user messages: QueueMsg::Event
          Triggers,  \* executions of scheduled tasks: QueueMsg::Scheduler
          Chats,
          ChatOf,    \* the chat_id of each message
          None       \* no message, no consumer

Msgs == Events \cup Triggers

ASSUME ChatQueueAssumption ==
    /\ Events \cap Triggers = {}
    /\ ChatOf \in [Msgs -> Chats]
    /\ None \notin Msgs

VARIABLES
    consumers,  \* per queue and chat: the consumer whose sender the map holds
    channel,    \* what each consumer's mpsc channel holds
    task,       \* where each consumer task is
    current,    \* the message each consumer is processing
    fate,       \* what has become of each message
    awaiting,   \* the trigger whose oneshot the scheduler loop awaits
    verdict,    \* what enqueue_scheduler has returned for each trigger
    ticket,     \* history: the order in which a queue accepted the messages of a chat
    accepted    \* history: how many it has

vars == <<consumers, channel, task, current, fate, awaiting, verdict, ticket, accepted>>
historyVars == <<ticket, accepted>>
schedulerVars == <<awaiting, verdict>>

Queues == {"webhook", "executor"}
QueueOf(m) == IF m \in Events THEN "webhook" ELSE "executor"
Boxes == Queues \X Chats
BoxOf == [m \in Msgs |-> <<QueueOf(m), ChatOf[m]>>]

TaskStates == {"unspawned", "spawned", "busy", "waiting", "leaving", "closed",
               "exited", "panicked"}

(* The consumer still owns the receiving end of its channel. *)
ReceiverStates == {"spawned", "busy", "waiting", "leaving"}

(* The consumer has still to take its entry, or whatever is there, off the map. *)
AliveStates == ReceiverStates \cup {"closed"}

(* A message is queued from the moment it is accepted until its turn starts.     *)
(* A refused message met a closed channel; a stranded one was in a channel whose *)
(* receiver was dropped.                                                         *)
Settled == {"answered", "failed", "panicked", "refused", "stranded"}
Fates == {"new", "queued", "running"} \cup Settled

TypeOK ==
    /\ consumers \in [Boxes -> Msgs \cup {None}]
    /\ channel \in [Msgs -> Seq(Msgs)]
    /\ task \in [Msgs -> TaskStates]
    /\ current \in [Msgs -> Msgs \cup {None}]
    /\ fate \in [Msgs -> Fates]
    /\ awaiting \in Triggers \cup {None}
    /\ verdict \in [Triggers -> {"none", "true", "false"}]
    /\ ticket \in [Msgs -> Nat]
    /\ accepted \in [Boxes -> Nat]

Init ==
    /\ consumers = [b \in Boxes |-> None]
    /\ channel = [c \in Msgs |-> <<>>]
    /\ task = [c \in Msgs |-> "unspawned"]
    /\ current = [c \in Msgs |-> None]
    /\ fate = [m \in Msgs |-> "new"]
    /\ awaiting = None
    /\ verdict = [t \in Triggers |-> "none"]
    /\ ticket = [m \in Msgs |-> 0]
    /\ accepted = [b \in Boxes |-> 0]
-----------------------------------------------------------------------------
(* Enqueueing.  The scheduler loop executes one task at a time: it offers   *)
(* a trigger only when it awaits none.                                      *)

Offer(m) ==
    /\ fate[m] = "new"
    /\ m \in Triggers => awaiting = None
    /\ awaiting' = IF m \in Triggers THEN m ELSE awaiting
    /\ UNCHANGED verdict

Accept(m) ==
    /\ fate' = [fate EXCEPT ![m] = "queued"]
    /\ ticket' = [ticket EXCEPT ![m] = accepted[BoxOf[m]]]
    /\ accepted' = [accepted EXCEPT ![BoxOf[m]] = @ + 1]

(* The map has a sender and its channel is open: send. *)
EnqueueSend(m) ==
    LET c == consumers[BoxOf[m]] IN
    /\ Offer(m)
    /\ c # None
    /\ task[c] \in ReceiverStates
    /\ channel' = [channel EXCEPT ![c] = Append(@, m)]
    /\ Accept(m)
    /\ UNCHANGED <<consumers, task, current>>

(* Mutant: the stale sender is left in the map. *)
EnqueueClosedKeepsEntry(m) ==
    LET c == consumers[BoxOf[m]] IN
    /\ Offer(m)
    /\ c # None
    /\ task[c] \notin ReceiverStates
    /\ fate' = [fate EXCEPT ![m] = "refused"]
    /\ UNCHANGED <<consumers, channel, task, current, historyVars>>

(* The map has a sender but the receiver is gone: the send fails, the entry is *)
(* removed and the message, moved into the failed send, is dropped.            *)
EnqueueClosed(m) ==
    LET c == consumers[BoxOf[m]] IN
    /\ Offer(m)
    /\ c # None
    /\ task[c] \notin ReceiverStates
    /\ consumers' = [consumers EXCEPT ![BoxOf[m]] = None]
    /\ fate' = [fate EXCEPT ![m] = "refused"]
    /\ UNCHANGED <<channel, task, current, historyVars>>

(* Mutant: the new sender is not put in the map. *)
EnqueueSpawnUnregistered(m) ==
    /\ Offer(m)
    /\ consumers[BoxOf[m]] = None
    /\ task' = [task EXCEPT ![m] = "spawned"]
    /\ Accept(m)
    /\ UNCHANGED <<consumers, channel, current>>

(* The map has no sender: spawn a consumer with m as its first message. *)
EnqueueSpawn(m) ==
    /\ Offer(m)
    /\ consumers[BoxOf[m]] = None
    /\ consumers' = [consumers EXCEPT ![BoxOf[m]] = m]
    /\ task' = [task EXCEPT ![m] = "spawned"]
    /\ Accept(m)
    /\ UNCHANGED <<channel, current>>
-----------------------------------------------------------------------------
(* The consumer task. *)

StartTurn(c, m, to) ==
    /\ current' = [current EXCEPT ![c] = m]
    /\ fate' = [fate EXCEPT ![m] = "running"]
    /\ task' = [task EXCEPT ![c] = to]

ProcessFirst(c) ==
    /\ task[c] = "spawned"
    /\ StartTurn(c, c, "busy")
    /\ UNCHANGED <<consumers, channel, schedulerVars, historyVars>>

(* Mutant: the message is read but not taken off the channel. *)
ReceivePeeks(c) ==
    /\ task[c] = "waiting"
    /\ channel[c] # <<>>
    /\ StartTurn(c, Head(channel[c]), "busy")
    /\ UNCHANGED <<consumers, channel, schedulerVars, historyVars>>

Receive(c) ==
    /\ task[c] = "waiting"
    /\ channel[c] # <<>>
    /\ StartTurn(c, Head(channel[c]), "busy")
    /\ channel' = [channel EXCEPT ![c] = Tail(@)]
    /\ UNCHANGED <<consumers, schedulerVars, historyVars>>

(* process_feishu_chat returns; a trigger's oneshot gets the result. *)
FinishTurn(c, result) ==
    /\ task[c] = "busy"
    /\ fate' = [fate EXCEPT ![current[c]] = result]
    /\ current' = [current EXCEPT ![c] = None]
    /\ task' = [task EXCEPT ![c] = "waiting"]
    /\ UNCHANGED <<consumers, channel, schedulerVars, historyVars>>

(* What dropping the receiver does to the messages still in its channel. *)
Strand(c, f) == [m \in Msgs |-> IF \E i \in 1..Len(channel[c]) : channel[c][i] = m
                                THEN "stranded" ELSE f[m]]

(* process_feishu_chat panics (schedule_task with a delay out of range): the    *)
(* task unwinds, dropping its receiver, and never removes its entry of the map. *)
Panic(c) ==
    /\ task[c] = "busy"
    /\ fate' = Strand(c, [fate EXCEPT ![current[c]] = "panicked"])
    /\ channel' = [channel EXCEPT ![c] = <<>>]
    /\ current' = [current EXCEPT ![c] = None]
    /\ task' = [task EXCEPT ![c] = "panicked"]
    /\ UNCHANGED <<consumers, schedulerVars, historyVars>>

(* recv() found the channel empty when the idle timeout fired. *)
IdleTimeout(c) ==
    /\ task[c] = "waiting"
    /\ channel[c] = <<>>
    /\ task' = [task EXCEPT ![c] = "leaving"]
    /\ UNCHANGED <<consumers, channel, current, fate, schedulerVars, historyVars>>

(* recv() returns None: the map no longer holds the only sender. *)
SendersGone(c) ==
    /\ task[c] = "waiting"
    /\ channel[c] = <<>>
    /\ consumers[BoxOf[c]] # c
    /\ task' = [task EXCEPT ![c] = "leaving"]
    /\ UNCHANGED <<consumers, channel, current, fate, schedulerVars, historyVars>>

(* Mutant: the receiver outlives the loop, with what is in its channel. *)
ReceiverLeaks(c) ==
    /\ task[c] = "leaving"
    /\ task' = [task EXCEPT ![c] = "closed"]
    /\ UNCHANGED <<consumers, channel, current, fate, schedulerVars, historyVars>>

(* consumer_loop returns and its receiver goes out of scope. *)
DropReceiver(c) ==
    /\ task[c] = "leaving"
    /\ fate' = Strand(c, fate)
    /\ channel' = [channel EXCEPT ![c] = <<>>]
    /\ task' = [task EXCEPT ![c] = "closed"]
    /\ UNCHANGED <<consumers, current, schedulerVars, historyVars>>

(* The spawned task takes the lock and removes the chat's entry - whosever it is. *)
Deregister(c) ==
    /\ task[c] = "closed"
    /\ consumers' = [consumers EXCEPT ![BoxOf[c]] = None]
    /\ task' = [task EXCEPT ![c] = "exited"]
    /\ UNCHANGED <<channel, current, fate, schedulerVars, historyVars>>
-----------------------------------------------------------------------------
(* Mutants: a dropped oneshot is read as true; it is reported as a third outcome; *)
(* it goes unnoticed, because a sender of it is kept.                             *)
ExecuteReturnsOptimistic ==
    /\ awaiting # None
    /\ fate[awaiting] \in Settled
    /\ verdict' = [verdict EXCEPT ![awaiting] =
                     IF fate[awaiting] = "failed" THEN "false" ELSE "true"]
    /\ awaiting' = None
    /\ UNCHANGED <<consumers, channel, task, current, fate, historyVars>>

ExecuteReturnsError ==
    /\ awaiting # None
    /\ fate[awaiting] \in Settled
    /\ verdict' = [verdict EXCEPT ![awaiting] = CASE fate[awaiting] = "answered" -> "true"
                                                 [] fate[awaiting] = "failed" -> "false"
                                                 [] OTHER -> "error"]
    /\ awaiting' = None
    /\ UNCHANGED <<consumers, channel, task, current, fate, historyVars>>

ExecuteReturnsOnAnswer ==
    /\ awaiting # None
    /\ fate[awaiting] \in {"answered", "failed"}
    /\ verdict' = [verdict EXCEPT ![awaiting] =
                     IF fate[awaiting] = "answered" THEN "true" ELSE "false"]
    /\ awaiting' = None
    /\ UNCHANGED <<consumers, channel, task, current, fate, historyVars>>

(* enqueue_scheduler returns: rx.await yields what the turn sent, or an error, *)
(* read as false, when the sender was dropped with its message.                *)
ExecuteReturns ==
    /\ awaiting # None
    /\ fate[awaiting] \in Settled
    /\ verdict' = [verdict EXCEPT ![awaiting] =
                     IF fate[awaiting] = "answered" THEN "true" ELSE "false"]
    /\ awaiting' = None
    /\ UNCHANGED <<consumers, channel, task, current, fate, historyVars>>

Enqueue(m) == EnqueueSend(m) \/ EnqueueClosed(m) \/ EnqueueSpawn(m)

ConsumerStep(c) ==
    \/ ProcessFirst(c)
    \/ Receive(c)
    \/ \E result \in {"answered", "failed"} : FinishTurn(c, result)
    \/ Panic(c)
    \/ IdleTimeout(c)
    \/ SendersGone(c)
    \/ DropReceiver(c)
    \/ Deregister(c)

(* Every message has been offered and every consumer is gone: the only rest. *)
Quiescent ==
    /\ \A m \in Msgs : fate[m] \in Settled
    /\ \A c \in Msgs : task[c] \in {"unspawned", "exited", "panicked"}
    /\ awaiting = None
    /\ UNCHANGED vars

Next ==
    \/ \E m \in Msgs : Enqueue(m)
    \/ \E c \in Msgs : ConsumerStep(c)
    \/ ExecuteReturns
    \/ Quiescent

(* A turn ends: the model client times out after 120 s, a shell command after  *)
(* the configured timeout, a turn has at most ten tool rounds; the Feishu API  *)
(* is taken to answer.  The runtime polls every task that is ready.            *)
Fairness == /\ \A c \in Msgs : WF_vars(ConsumerStep(c))
            /\ WF_vars(ExecuteReturns)

Spec == Init /\ [][Next]_vars /\ Fairness
-----------------------------------------------------------------------------
(* Derived notions. *)

(* The places where a queued message can be: position 0 of a consumer is the *)
(* message it was spawned with, the others are those of its channel.         *)
Holds(c, i, m) ==
    \/ i = 0 /\ task[c] = "spawned" /\ m = c
    \/ i \in 1..Len(channel[c]) /\ channel[c][i] = m

Refused(b) == \E m \in Msgs : BoxOf[m] = b /\ fate[m] = "refused"

Running(m) == fate[m] = "running"
-----------------------------------------------------------------------------
(* No message is duplicated, or parked where nobody looks: a queued message is *)
(* in exactly one place, with a consumer of its own queue and chat that still  *)
(* has its receiver, and a running one is in the hands of exactly one busy     *)
(* consumer.  (mpsc send, recv and the drop of the receiver in                 *)
(* enqueue_inner and consumer_loop.)                                           *)
EveryMessageHasOnePlace ==
    /\ \A m \in Msgs : fate[m] = "queued" =>
          /\ \E c \in Msgs : /\ task[c] \in ReceiverStates
                             /\ BoxOf[c] = BoxOf[m]
                             /\ \E i \in 0..Len(channel[c]) : Holds(c, i, m)
          /\ \A c, d \in Msgs :
                \A i \in 0..Len(channel[c]), j \in 0..Len(channel[d]) :
                   Holds(c, i, m) /\ Holds(d, j, m) => c = d /\ i = j
    /\ \A m \in Msgs : fate[m] # "queued" =>
          \A c \in Msgs : \A i \in 0..Len(channel[c]) : ~Holds(c, i, m)
    /\ \A m \in Msgs : Running(m) =>
          \E c \in Msgs : /\ task[c] = "busy" /\ current[c] = m
                          /\ \A d \in Msgs : current[d] = m => d = c

(* Turning a message away is the price of one dead consumer, paid once: a queue *)
(* refuses at most as many messages of a chat as consumers of that chat have    *)
(* closed their channel.  (enqueue_inner removes the entry on a failed send,    *)
(* so a stale entry cannot swallow a second message.)                           *)
OneRefusalPerDeadConsumer ==
    \A b \in Boxes :
        Cardinality({m \in Msgs : BoxOf[m] = b /\ fate[m] = "refused"})
            <= Cardinality({c \in Msgs : /\ BoxOf[c] = b
                                         /\ task[c] \in {"closed", "exited", "panicked"}})

(* What the scheduler is told is the truth and is final: `true' only of a turn *)
(* that was answered, `false' only of one that is over and was not, so a retry *)
(* never overlaps the attempt it repeats.  (enqueue_scheduler's unwrap_or.)    *)
VerdictIsTrueAndFinal ==
    \A t \in Triggers :
        /\ verdict[t] = "true" => fate[t] = "answered"
        /\ verdict[t] = "false" => fate[t] \in Settled \ {"answered"}

(* The queues implement mailboxes: one turn at a time and in order of arrival, *)
(* for every queue and chat that has never refused a message.                  *)
phase == [m \in Msgs |-> CASE fate[m] = "new" -> "new"
                           [] fate[m] = "queued" -> "pending"
                           [] fate[m] = "running" -> "running"
                           [] OTHER -> "over"]

Box == INSTANCE Mailbox WITH posted <- accepted,
                             degraded <- {b \in Boxes : Refused(b)}

ImplementsMailbox == Box!Spec

(* Every accepted message is settled in the end: none stays in a channel that is *)
(* no longer read, whatever consumers time out, panic or lose their sender.      *)
EveryMessageSettles ==
    \A m \in Msgs : fate[m] \in {"queued", "running"} ~> fate[m] \in Settled

(* The scheduler loop never waits for ever on a trigger: its oneshot is sent or *)
(* dropped whichever way the message goes.                                      *)
SchedulerNeverStuck == \A t \in Triggers : awaiting = t ~> awaiting = None

(* What executor.rs:14 and chat_queue.rs:8 say: user messages and triggers of a *)
(* chat go through the same queue, so at most one turn of a chat runs at a time. *)
SerialPerChat ==
    \A m, n \in Msgs : Running(m) /\ Running(n) /\ ChatOf[m] = ChatOf[n] => m = n

(* What chat_queue.rs:4 says of one queue: messages of a chat are processed one *)
(* at a time.                                                                   *)
SerialPerQueue ==
    \A m, n \in Msgs : Running(m) /\ Running(n) /\ BoxOf[m] = BoxOf[n] => m = n
=============================================================================
