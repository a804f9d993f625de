--------------------------- MODULE ChatQueueProofs ---------------------------
(***************************************************************************)
(* Theorems about ChatQueue, for any sets of messages and chats.           *)
(***************************************************************************)
EXTENDS ChatQueue, FiniteSetTheorems, TLAPS

(***************************************************************************)
(* Type correctness.                                                       *)
(***************************************************************************)
LEMMA BoxOfType == BoxOf \in [Msgs -> Boxes]
  BY ChatQueueAssumption DEF BoxOf, Boxes, QueueOf, Queues

LEMMA StrandType ==
    ASSUME NEW c \in Msgs, NEW f \in [Msgs -> Fates]
    PROVE  Strand(c, f) \in [Msgs -> Fates]
  BY DEF Strand, Fates, Settled

LEMMA TypeInit == Init => TypeOK
  BY DEF Init, TypeOK, Fates, TaskStates

LEMMA TypeNext == TypeOK /\ [Next]_vars => TypeOK'
  <1> SUFFICES ASSUME TypeOK, [Next]_vars PROVE TypeOK'
    OBVIOUS
  <1> USE BoxOfType DEF TypeOK, historyVars, schedulerVars
  <1>1. ASSUME NEW m \in Msgs, EnqueueSend(m) PROVE TypeOK'
    <2>1. consumers[BoxOf[m]] \in Msgs
      BY <1>1 DEF EnqueueSend
    <2>2. channel' \in [Msgs -> Seq(Msgs)]
      BY <1>1, <2>1 DEF EnqueueSend
    <2>3. fate' \in [Msgs -> Fates] /\ ticket' \in [Msgs -> Nat] /\ accepted' \in [Boxes -> Nat]
      BY <1>1 DEF EnqueueSend, Accept, Fates
    <2>4. awaiting' \in Triggers \cup {None} /\ verdict' = verdict
      BY <1>1 DEF EnqueueSend, Offer
    <2> QED
      BY <1>1, <2>2, <2>3, <2>4 DEF EnqueueSend
  <1>2. ASSUME NEW m \in Msgs, EnqueueClosed(m) PROVE TypeOK'
    BY <1>2 DEF EnqueueClosed, Offer, Fates, Settled
  <1>3. ASSUME NEW m \in Msgs, EnqueueSpawn(m) PROVE TypeOK'
    BY <1>3 DEF EnqueueSpawn, Offer, Accept, Fates, TaskStates
  <1>4. ASSUME NEW c \in Msgs, ProcessFirst(c) PROVE TypeOK'
    BY <1>4 DEF ProcessFirst, StartTurn, Fates, TaskStates
  <1>5. ASSUME NEW c \in Msgs, Receive(c) PROVE TypeOK'
    BY <1>5 DEF Receive, StartTurn, Fates, TaskStates
  <1>6. ASSUME NEW c \in Msgs, NEW result \in {"answered", "failed"}, FinishTurn(c, result)
        PROVE  TypeOK'
    BY <1>6 DEF FinishTurn, Fates, Settled, TaskStates
  <1>7. ASSUME NEW c \in Msgs, Panic(c) PROVE TypeOK'
    <2>1. [fate EXCEPT ![current[c]] = "panicked"] \in [Msgs -> Fates]
      BY DEF Fates, Settled
    <2>2. fate' \in [Msgs -> Fates]
      BY <1>7, <2>1, StrandType DEF Panic
    <2>3. channel' \in [Msgs -> Seq(Msgs)]
      BY <1>7 DEF Panic
    <2> QED
      BY <1>7, <2>2, <2>3 DEF Panic, TaskStates
  <1>8. ASSUME NEW c \in Msgs, IdleTimeout(c) \/ SendersGone(c) PROVE TypeOK'
    BY <1>8 DEF IdleTimeout, SendersGone, TaskStates
  <1>9. ASSUME NEW c \in Msgs, DropReceiver(c) PROVE TypeOK'
    <2>1. fate' \in [Msgs -> Fates]
      BY <1>9, StrandType DEF DropReceiver
    <2>2. channel' \in [Msgs -> Seq(Msgs)]
      BY <1>9 DEF DropReceiver
    <2> QED
      BY <1>9, <2>1, <2>2 DEF DropReceiver, TaskStates
  <1>10. ASSUME NEW c \in Msgs, Deregister(c) PROVE TypeOK'
    BY <1>10 DEF Deregister, TaskStates
  <1>11. CASE ExecuteReturns
    BY <1>11 DEF ExecuteReturns
  <1>12. CASE UNCHANGED vars
    BY <1>12 DEF vars
  <1> QED
    BY <1>1, <1>2, <1>3, <1>4, <1>5, <1>6, <1>7, <1>8, <1>9, <1>10, <1>11, <1>12
       DEF Next, Enqueue, ConsumerStep, Quiescent

(* Every variable of the queue keeps its type. *)
THEOREM TypeCorrect == Spec => []TypeOK
  BY TypeInit, TypeNext, PTL DEF Spec

(***************************************************************************)
(* The inductive invariant, one named part per idea.                       *)
(***************************************************************************)

(* The map's entry of a mailbox is a consumer spawned for that mailbox that has *)
(* not yet removed an entry.                                                    *)
Registered ==
    \A b \in Boxes : consumers[b] # None =>
        /\ BoxOf[consumers[b]] = b
        /\ task[consumers[b]] \in AliveStates \cup {"panicked"}

(* Only a consumer that still has its receiver has messages in its channel. *)
ChannelOpen == \A c \in Msgs : channel[c] # <<>> => task[c] \in ReceiverStates

(* A message that was never offered has spawned nothing, and the message a *)
(* consumer was spawned with waits for it.                                 *)
Spawning ==
    \A m \in Msgs : /\ fate[m] = "new" => task[m] = "unspawned"
                    /\ task[m] = "spawned" => fate[m] = "queued"

(* A busy consumer has a running message of its mailbox, the others have none. *)
InHand ==
    \A c \in Msgs : IF task[c] = "busy"
                    THEN /\ current[c] \in Msgs
                         /\ fate[current[c]] = "running"
                         /\ BoxOf[current[c]] = BoxOf[c]
                    ELSE current[c] = None

OneHand == \A c, d \in Msgs : current[c] # None /\ current[c] = current[d] => c = d

RunningHeld == \A m \in Msgs : fate[m] = "running" => \E c \in Msgs : current[c] = m

(* What is in a channel is queued, belongs there and has spawned no consumer. *)
ChannelContent ==
    \A c \in Msgs : \A i \in 1..Len(channel[c]) :
        /\ fate[channel[c][i]] = "queued"
        /\ BoxOf[channel[c][i]] = BoxOf[c]
        /\ task[channel[c][i]] = "unspawned"

OneSlot ==
    \A c, d \in Msgs : \A i \in 1..Len(channel[c]), j \in 1..Len(channel[d]) :
        channel[c][i] = channel[d][j] => c = d /\ i = j

QueuedHeld ==
    \A m \in Msgs : fate[m] = "queued" =>
        \/ task[m] = "spawned"
        \/ \E c \in Msgs : \E i \in 1..Len(channel[c]) : channel[c][i] = m

(* The heart of it: while a mailbox has refused nothing, the consumer in the *)
(* map is the only one that has not finished.                                *)
SoleConsumer ==
    \A c \in Msgs : task[c] \in AliveStates /\ ~Refused(BoxOf[c])
                        => consumers[BoxOf[c]] = c

(* A channel is in the order of the tickets, and after the message its consumer *)
(* was spawned with.                                                            *)
TicketOrder ==
    \A c \in Msgs : \A i \in 1..Len(channel[c]) :
        /\ \A j \in 1..Len(channel[c]) :
              i < j => ticket[channel[c][i]] < ticket[channel[c][j]]
        /\ task[c] = "spawned" => ticket[c] < ticket[channel[c][i]]

TicketIssued == \A m \in Msgs : fate[m] = "queued" => ticket[m] < accepted[BoxOf[m]]

HandInv == InHand /\ OneHand /\ RunningHeld
SlotInv == ChannelOpen /\ Spawning /\ ChannelContent /\ OneSlot /\ QueuedHeld
OrderInv == TicketOrder /\ TicketIssued

IInv == TypeOK /\ Registered /\ SlotInv /\ HandInv /\ SoleConsumer /\ OrderInv

LEMMA IInvInit == Init => IInv
  <1> SUFFICES ASSUME Init PROVE IInv
    OBVIOUS
  <1>1. TypeOK
    BY TypeInit
  <1>2. Registered /\ SlotInv /\ HandInv /\ SoleConsumer /\ OrderInv
    BY BoxOfType DEF Init, Registered, SlotInv, HandInv, OrderInv, ChannelOpen, Spawning,
       ChannelContent, OneSlot, QueuedHeld, InHand, OneHand, RunningHeld, SoleConsumer,
       TicketOrder, TicketIssued, AliveStates, ReceiverStates
  <1> QED
    BY <1>1, <1>2 DEF IInv

(* A refusal is never forgotten. *)
LEMMA RefusalsStay ==
    ASSUME NEW b \in Boxes,
           \A m \in Msgs : fate[m] = "refused" => fate'[m] = "refused"
    PROVE  Refused(b) => Refused(b)'
  BY DEF Refused

LEMMA AppendFacts ==
    ASSUME NEW S, NEW s \in Seq(S), NEW e \in S
    PROVE  /\ Len(s) \in Nat
           /\ Len(Append(s, e)) = Len(s) + 1
           /\ Append(s, e)[Len(s) + 1] = e
           /\ \A i \in 1..Len(s) : Append(s, e)[i] = s[i]
           /\ \A i \in 1..Len(Append(s, e)) : i = Len(s) + 1 \/ i \in 1..Len(s)
  OBVIOUS

(* What can be at a position of a channel, and where. *)
LEMMA SlotTypes ==
    ASSUME TypeOK, NEW c \in Msgs
    PROVE  /\ Len(channel[c]) \in Nat
           /\ \A i \in 1..Len(channel[c]) : channel[c][i] \in Msgs
  BY DEF TypeOK

LEMMA SendKeepsIInv ==
    ASSUME IInv, TypeOK', NEW m \in Msgs, EnqueueSend(m)
    PROVE  IInv'
  <1> USE BoxOfType
  <1>0. TypeOK
    BY DEF IInv
  <1>1. PICK c \in Msgs : /\ c = consumers[BoxOf[m]]
                          /\ BoxOf[c] = BoxOf[m]
                          /\ task[c] \in ReceiverStates
    <2>1. consumers[BoxOf[m]] \in Msgs
      BY DEF EnqueueSend, IInv, TypeOK
    <2>2. BoxOf[consumers[BoxOf[m]]] = BoxOf[m]
      BY <2>1, ChatQueueAssumption DEF IInv, Registered
    <2> QED
      BY <2>1, <2>2 DEF EnqueueSend
  <1>2. fate[m] = "new" /\ task[m] = "unspawned"
    BY DEF EnqueueSend, Offer, IInv, SlotInv, Spawning
  <1>3. /\ task' = task /\ current' = current /\ consumers' = consumers
        /\ fate'[m] = "queued" /\ ticket'[m] = accepted[BoxOf[m]]
        /\ \A n \in Msgs : n # m => fate'[n] = fate[n] /\ ticket'[n] = ticket[n]
        /\ accepted'[BoxOf[m]] = accepted[BoxOf[m]] + 1
        /\ \A b \in Boxes : b # BoxOf[m] => accepted'[b] = accepted[b]
    BY <1>0 DEF EnqueueSend, Accept, TypeOK
  <1>4. /\ channel'[c] = Append(channel[c], m)
        /\ \A d \in Msgs : d # c => channel'[d] = channel[d]
    BY <1>0, <1>1 DEF EnqueueSend, TypeOK
  <1>5. /\ Len(channel[c]) \in Nat
        /\ Len(channel'[c]) = Len(channel[c]) + 1
        /\ channel'[c][Len(channel[c]) + 1] = m
        /\ \A i \in 1..Len(channel[c]) : channel'[c][i] = channel[c][i]
        /\ \A i \in 1..Len(channel'[c]) : i = Len(channel[c]) + 1 \/ i \in 1..Len(channel[c])
    <2>1. channel[c] \in Seq(Msgs)
      BY <1>0 DEF TypeOK
    <2> QED
      BY <2>1, <1>4, AppendFacts
  <1>6. \A d \in Msgs : \A i \in 1..Len(channel'[d]) :
           \/ d = c /\ i = Len(channel[c]) + 1 /\ channel'[d][i] = m
           \/ i \in 1..Len(channel[d]) /\ channel'[d][i] = channel[d][i]
    <2> TAKE d \in Msgs
    <2>1. CASE d = c
      BY <2>1, <1>5
    <2>2. CASE d # c
      BY <2>2, <1>4
    <2> QED
      BY <2>1, <2>2
  <1>7. \A d \in Msgs : \A i \in 1..Len(channel[d]) : /\ channel[d][i] \in Msgs
                                                     /\ channel[d][i] # m
                                                     /\ fate[channel[d][i]] = "queued"
    BY <1>0, <1>2, SlotTypes DEF IInv, SlotInv, ChannelContent
  <1>8. Registered'
    BY <1>3 DEF IInv, Registered
  <1>9. SlotInv'
    <2>1. ChannelOpen'
      BY <1>1, <1>3, <1>4 DEF IInv, SlotInv, ChannelOpen
    <2>2. Spawning'
      BY <1>2, <1>3 DEF IInv, SlotInv, Spawning
    <2>3. ChannelContent'
      BY <1>1, <1>2, <1>3, <1>6, <1>7 DEF IInv, SlotInv, ChannelContent
    <2>4. OneSlot'
      <3> SUFFICES ASSUME NEW d \in Msgs, NEW e \in Msgs,
                          NEW i \in 1..Len(channel'[d]), NEW j \in 1..Len(channel'[e]),
                          channel'[d][i] = channel'[e][j]
                   PROVE  d = e /\ i = j
        BY DEF OneSlot
      <3>1. CASE channel'[d][i] = m
        <4>1. d = c /\ i = Len(channel[c]) + 1
          BY <3>1, <1>6, <1>7
        <4>2. e = c /\ j = Len(channel[c]) + 1
          <5>1. channel'[e][j] = m
            BY <3>1
          <5> QED
            BY <5>1, <1>6, <1>7
        <4> QED
          BY <4>1, <4>2
      <3>2. CASE channel'[d][i] # m
        BY <3>2, <1>6 DEF IInv, SlotInv, OneSlot
      <3> QED
        BY <3>1, <3>2
    <2>5. QueuedHeld'
      <3> SUFFICES ASSUME NEW n \in Msgs, fate'[n] = "queued", task'[n] # "spawned"
                   PROVE  \E d \in Msgs : \E i \in 1..Len(channel'[d]) : channel'[d][i] = n
        BY DEF QueuedHeld
      <3>1. CASE n = m
        BY <3>1, <1>5
      <3>2. CASE n # m
        <4>1. PICK d \in Msgs : \E i \in 1..Len(channel[d]) : channel[d][i] = n
          BY <3>2, <1>3 DEF IInv, SlotInv, QueuedHeld
        <4>2. PICK i \in 1..Len(channel[d]) : channel[d][i] = n
          BY <4>1
        <4>3. i \in 1..Len(channel'[d]) /\ channel'[d][i] = n
          BY <4>2, <1>4, <1>5
        <4> QED
          BY <4>3
      <3> QED
        BY <3>1, <3>2
    <2> QED
      BY <2>1, <2>2, <2>3, <2>4, <2>5 DEF SlotInv
  <1>10. HandInv'
    BY <1>2, <1>3 DEF IInv, HandInv, InHand, OneHand, RunningHeld
  <1>11. SoleConsumer'
    <2>1. \A b \in Boxes : Refused(b) => Refused(b)'
      BY <1>2, <1>3 DEF Refused
    <2> QED
      BY <1>3, <2>1 DEF IInv, SoleConsumer
  <1>12. OrderInv'
    <2>1. TicketIssued'
      <3> SUFFICES ASSUME NEW n \in Msgs, fate'[n] = "queued"
                   PROVE  ticket'[n] < accepted'[BoxOf[n]]
        BY DEF TicketIssued
      <3>1. CASE n = m
        BY <3>1, <1>0, <1>3 DEF TypeOK
      <3>2. CASE n # m
        <4>1. ticket[n] < accepted[BoxOf[n]]
          BY <3>2, <1>3 DEF IInv, OrderInv, TicketIssued
        <4>2. ticket'[n] = ticket[n] /\ ticket[n] \in Nat /\ BoxOf[n] \in Boxes
          BY <3>2, <1>0, <1>3 DEF TypeOK
        <4>3. accepted[BoxOf[n]] \in Nat /\ accepted'[BoxOf[n]] >= accepted[BoxOf[n]]
          <5>1. accepted[BoxOf[n]] \in Nat
            BY <4>2, <1>0 DEF TypeOK
          <5>2. CASE BoxOf[n] = BoxOf[m]
            BY <5>1, <5>2, <1>3
          <5>3. CASE BoxOf[n] # BoxOf[m]
            BY <5>1, <5>3, <4>2, <1>3
          <5> QED
            BY <5>1, <5>2, <5>3
        <4>4. accepted'[BoxOf[n]] \in Nat
          BY <4>2 DEF TypeOK
        <4> QED
          BY <4>1, <4>2, <4>3, <4>4
      <3> QED
        BY <3>1, <3>2
    <2>2. task[c] = "spawned" => ticket[c] < ticket'[m]
      BY <1>1, <1>3 DEF IInv, SlotInv, Spawning, OrderInv, TicketIssued
    <2>3. \A i \in 1..Len(channel[c]) : ticket[channel[c][i]] < ticket'[m]
      BY <1>1, <1>3, <1>7 DEF IInv, SlotInv, ChannelContent, OrderInv, TicketIssued
    <2>4. TicketOrder'
      <3> SUFFICES ASSUME NEW d \in Msgs, NEW i \in 1..Len(channel'[d])
                   PROVE  /\ \A j \in 1..Len(channel'[d]) :
                                 i < j => ticket'[channel'[d][i]] < ticket'[channel'[d][j]]
                          /\ task[d] = "spawned" => ticket'[d] < ticket'[channel'[d][i]]
        BY <1>3 DEF TicketOrder
      <3>1. task[d] = "spawned" => ticket'[d] = ticket[d]
        BY <1>2, <1>3
      <3>2. \A j \in 1..Len(channel[d]) : ticket'[channel[d][j]] = ticket[channel[d][j]]
        BY <1>3, <1>7
      <3>3. CASE d = c
        <4>1. task[d] = "spawned" => ticket'[d] < ticket'[channel'[d][i]]
          BY <3>1, <3>2, <3>3, <2>2, <1>5 DEF IInv, OrderInv, TicketOrder
        <4>2. ASSUME NEW j \in 1..Len(channel'[d]), i < j
              PROVE  ticket'[channel'[d][i]] < ticket'[channel'[d][j]]
          <5>1. i \in 1..Len(channel[c])
            BY <4>2, <3>3, <1>5
          <5>2. CASE j = Len(channel[c]) + 1
            BY <5>1, <5>2, <3>2, <3>3, <2>3, <1>5
          <5>3. CASE j \in 1..Len(channel[c])
            BY <4>2, <5>1, <5>3, <3>2, <3>3, <1>5 DEF IInv, OrderInv, TicketOrder
          <5> QED
            BY <5>2, <5>3, <3>3, <1>5
        <4> QED
          BY <4>1, <4>2
      <3>4. CASE d # c
        BY <3>1, <3>2, <3>4, <1>4 DEF IInv, OrderInv, TicketOrder
      <3> QED
        BY <3>3, <3>4
    <2> QED
      BY <2>1, <2>4 DEF OrderInv
  <1> QED
    BY <1>8, <1>9, <1>10, <1>11, <1>12 DEF IInv

(* A consumer keeps its entry while no consumer that could own one leaves. *)
LEMMA RegisteredStays ==
    ASSUME TypeOK, Registered, consumers' = consumers,
           \A d \in Msgs : task[d] \in AliveStates \cup {"panicked"}
                            => task'[d] \in AliveStates \cup {"panicked"}
    PROVE  Registered'
  <1> SUFFICES ASSUME NEW b \in Boxes, consumers[b] # None
               PROVE  /\ BoxOf[consumers[b]] = b
                      /\ task'[consumers[b]] \in AliveStates \cup {"panicked"}
    BY DEF Registered
  <1>1. consumers[b] \in Msgs
    BY DEF TypeOK
  <1>2. BoxOf[consumers[b]] = b /\ task[consumers[b]] \in AliveStates \cup {"panicked"}
    BY DEF Registered
  <1> QED
    BY <1>1, <1>2

LEMMA ClosedKeepsIInv ==
    ASSUME IInv, TypeOK', NEW m \in Msgs, EnqueueClosed(m)
    PROVE  IInv'
  <1> USE BoxOfType DEF IInv
  <1>1. /\ task' = task /\ current' = current /\ channel' = channel
        /\ ticket' = ticket /\ accepted' = accepted
        /\ fate[m] = "new" /\ fate'[m] = "refused" /\ consumers'[BoxOf[m]] = None
        /\ \A n \in Msgs : n # m => fate'[n] = fate[n]
        /\ \A b \in Boxes : b # BoxOf[m] => consumers'[b] = consumers[b]
    BY DEF EnqueueClosed, Offer, historyVars, TypeOK
  <1>2. Registered'
    BY <1>1 DEF Registered
  <1>3. SlotInv'
    BY <1>1, SlotTypes
       DEF SlotInv, ChannelOpen, Spawning, ChannelContent, OneSlot, QueuedHeld
  <1>4. HandInv'
    BY <1>1 DEF HandInv, InHand, OneHand, RunningHeld
  <1>5. SoleConsumer'
    <2>1. \A b \in Boxes : Refused(b) => Refused(b)'
      BY <1>1 DEF Refused
    <2>2. Refused(BoxOf[m])'
      BY <1>1 DEF Refused
    <2> QED
      BY <1>1, <2>1, <2>2 DEF SoleConsumer
  <1>6. OrderInv'
    BY <1>1 DEF OrderInv, TicketOrder, TicketIssued
  <1> QED
    BY <1>2, <1>3, <1>4, <1>5, <1>6

LEMMA SpawnKeepsIInv ==
    ASSUME IInv, TypeOK', NEW m \in Msgs, EnqueueSpawn(m)
    PROVE  IInv'
  <1> USE BoxOfType DEF IInv
  <1>1. /\ current' = current /\ channel' = channel
        /\ fate[m] = "new" /\ fate'[m] = "queued"
        /\ consumers[BoxOf[m]] = None /\ consumers'[BoxOf[m]] = m
        /\ task'[m] = "spawned"
        /\ ticket'[m] = accepted[BoxOf[m]]
        /\ accepted'[BoxOf[m]] = accepted[BoxOf[m]] + 1
        /\ \A n \in Msgs : n # m => /\ fate'[n] = fate[n]
                                    /\ task'[n] = task[n]
                                    /\ ticket'[n] = ticket[n]
        /\ \A b \in Boxes : b # BoxOf[m] => /\ consumers'[b] = consumers[b]
                                            /\ accepted'[b] = accepted[b]
    BY DEF EnqueueSpawn, Offer, Accept, TypeOK
  <1>2. task[m] = "unspawned" /\ channel[m] = <<>> /\ current[m] = None
    BY <1>1 DEF SlotInv, HandInv, Spawning, ChannelOpen, ReceiverStates, InHand
  <1>3. \A d \in Msgs : \A i \in 1..Len(channel[d]) : /\ channel[d][i] \in Msgs
                                                     /\ channel[d][i] # m
    BY <1>1, SlotTypes DEF SlotInv, ChannelContent
  <1>4. Registered'
    <2> SUFFICES ASSUME NEW b \in Boxes, consumers'[b] # None
                 PROVE  /\ BoxOf[consumers'[b]] = b
                        /\ task'[consumers'[b]] \in AliveStates \cup {"panicked"}
      BY DEF Registered
    <2>1. CASE b = BoxOf[m]
      BY <2>1, <1>1 DEF AliveStates, ReceiverStates
    <2>2. CASE b # BoxOf[m]
      <3>1. consumers'[b] = consumers[b] /\ consumers[b] \in Msgs
        BY <2>2, <1>1 DEF TypeOK
      <3>2. /\ BoxOf[consumers[b]] = b
            /\ task[consumers[b]] \in AliveStates \cup {"panicked"}
        BY <3>1 DEF Registered
      <3> QED
        BY <3>1, <3>2, <2>2, <1>1
    <2> QED
      BY <2>1, <2>2
  <1>5. SlotInv'
    <2>1. ChannelOpen' /\ Spawning'
      BY <1>1, <1>2 DEF SlotInv, ChannelOpen, Spawning
    <2>2. ChannelContent' /\ OneSlot'
      BY <1>1, <1>3 DEF SlotInv, ChannelContent, OneSlot
    <2>3. QueuedHeld'
      BY <1>1 DEF SlotInv, QueuedHeld
    <2> QED
      BY <2>1, <2>2, <2>3 DEF SlotInv
  <1>6. HandInv'
    BY <1>1, <1>2 DEF HandInv, InHand, OneHand, RunningHeld
  <1>7. SoleConsumer'
    <2>1. \A b \in Boxes : Refused(b) => Refused(b)'
      BY <1>1 DEF Refused
    <2> QED
      BY <1>1, <2>1, ChatQueueAssumption DEF SoleConsumer
  <1>8. TicketOrder'
    BY <1>1, <1>2, <1>3 DEF OrderInv, TicketOrder
  <1>9. TicketIssued'
    <2> SUFFICES ASSUME NEW n \in Msgs, fate'[n] = "queued"
                 PROVE  ticket'[n] < accepted'[BoxOf[n]]
      BY DEF TicketIssued
    <2>1. BoxOf[n] \in Boxes /\ BoxOf[m] \in Boxes
      OBVIOUS
    <2>2. /\ accepted[BoxOf[n]] \in Nat /\ accepted'[BoxOf[n]] \in Nat
          /\ accepted[BoxOf[m]] \in Nat /\ ticket[n] \in Nat
      BY <2>1 DEF TypeOK
    <2>3. CASE n = m
      BY <2>2, <2>3, <1>1
    <2>4. CASE n # m
      <3>1. ticket'[n] = ticket[n] /\ ticket[n] < accepted[BoxOf[n]]
        BY <2>4, <1>1 DEF OrderInv, TicketIssued
      <3>2. accepted'[BoxOf[n]] \in {accepted[BoxOf[n]], accepted[BoxOf[n]] + 1}
        BY <2>1, <1>1
      <3> QED
        BY <3>1, <3>2, <2>2
    <2> QED
      BY <2>3, <2>4
  <1> QED
    BY <1>4, <1>5, <1>6, <1>7, <1>8, <1>9 DEF OrderInv

LEMMA ProcessFirstKeepsIInv ==
    ASSUME IInv, TypeOK', NEW c \in Msgs, ProcessFirst(c)
    PROVE  IInv'
  <1> USE BoxOfType DEF IInv
  <1>1. /\ consumers' = consumers /\ channel' = channel /\ ticket' = ticket
        /\ accepted' = accepted
        /\ task[c] = "spawned" /\ task'[c] = "busy"
        /\ current'[c] = c /\ fate'[c] = "running"
        /\ \A d \in Msgs : d # c => /\ fate'[d] = fate[d]
                                    /\ task'[d] = task[d]
                                    /\ current'[d] = current[d]
    BY DEF ProcessFirst, StartTurn, historyVars, TypeOK
  <1>2. fate[c] = "queued" /\ current[c] = None /\ \A d \in Msgs : current[d] # c
    BY <1>1, ChatQueueAssumption DEF SlotInv, Spawning, HandInv, InHand
  <1>3. \A d \in Msgs : \A i \in 1..Len(channel[d]) : /\ channel[d][i] \in Msgs
                                                     /\ channel[d][i] # c
    BY <1>1, SlotTypes DEF SlotInv, ChannelContent
  <1>4. Registered'
    BY <1>1, RegisteredStays DEF AliveStates, ReceiverStates
  <1>5. SlotInv'
    <2>1. ChannelOpen' /\ Spawning'
      BY <1>1, <1>2 DEF SlotInv, ChannelOpen, Spawning, ReceiverStates
    <2>2. ChannelContent' /\ OneSlot' /\ QueuedHeld'
      BY <1>1, <1>3 DEF SlotInv, ChannelContent, OneSlot, QueuedHeld
    <2> QED
      BY <2>1, <2>2 DEF SlotInv
  <1>6. HandInv'
    <2>1. InHand'
      BY <1>1, <1>2 DEF HandInv, InHand
    <2>2. OneHand'
      BY <1>1, <1>2, ChatQueueAssumption DEF HandInv, OneHand
    <2>3. RunningHeld'
      <3> SUFFICES ASSUME NEW n \in Msgs, fate'[n] = "running"
                   PROVE  \E d \in Msgs : current'[d] = n
        BY DEF RunningHeld
      <3>1. CASE n = c
        BY <3>1, <1>1
      <3>2. CASE n # c
        <4>1. PICK d \in Msgs : current[d] = n
          BY <3>2, <1>1 DEF HandInv, RunningHeld
        <4>2. d # c
          BY <4>1, <1>2, ChatQueueAssumption
        <4> QED
          BY <4>1, <4>2, <1>1
      <3> QED
        BY <3>1, <3>2
    <2> QED
      BY <2>1, <2>2, <2>3 DEF HandInv
  <1>7. SoleConsumer'
    <2>1. \A b \in Boxes : Refused(b) => Refused(b)'
      BY <1>1, <1>2 DEF Refused
    <2> QED
      BY <1>1, <2>1 DEF SoleConsumer, AliveStates, ReceiverStates
  <1>8. OrderInv'
    BY <1>1, <1>2 DEF OrderInv, TicketOrder, TicketIssued
  <1> QED
    BY <1>4, <1>5, <1>6, <1>7, <1>8

LEMMA FinishTurnKeepsIInv ==
    ASSUME IInv, TypeOK', NEW c \in Msgs, NEW result \in {"answered", "failed"},
           FinishTurn(c, result)
    PROVE  IInv'
  <1> USE BoxOfType DEF IInv
  <1>1. /\ consumers' = consumers /\ channel' = channel /\ ticket' = ticket
        /\ accepted' = accepted
        /\ task[c] = "busy" /\ task'[c] = "waiting" /\ current'[c] = None
        /\ \A d \in Msgs : d # c => task'[d] = task[d] /\ current'[d] = current[d]
    BY DEF FinishTurn, historyVars, TypeOK
  <1>2. PICK n \in Msgs : n = current[c] /\ fate[n] = "running"
    BY <1>1 DEF HandInv, InHand
  <1>3. /\ fate'[n] \in {"answered", "failed"}
        /\ \A d \in Msgs : d # n => fate'[d] = fate[d]
    BY <1>2 DEF FinishTurn, TypeOK
  <1>4. \A d \in Msgs : d # c => current[d] # n
    BY <1>2, ChatQueueAssumption DEF HandInv, OneHand
  <1>5. Registered'
    BY <1>1, RegisteredStays DEF AliveStates, ReceiverStates
  <1>6. SlotInv'
    <2>1. ChannelOpen' /\ Spawning'
      BY <1>1, <1>2, <1>3 DEF SlotInv, ChannelOpen, Spawning, ReceiverStates
    <2>2. ChannelContent' /\ OneSlot' /\ QueuedHeld'
      BY <1>1, <1>2, <1>3, SlotTypes DEF SlotInv, ChannelContent, OneSlot, QueuedHeld
    <2> QED
      BY <2>1, <2>2 DEF SlotInv
  <1>7. HandInv'
    <2>1. InHand'
      BY <1>1, <1>2, <1>3, <1>4 DEF HandInv, InHand
    <2>2. OneHand'
      BY <1>1 DEF HandInv, OneHand
    <2>3. RunningHeld'
      BY <1>1, <1>2, <1>3 DEF HandInv, RunningHeld
    <2> QED
      BY <2>1, <2>2, <2>3 DEF HandInv
  <1>8. SoleConsumer'
    <2>1. \A b \in Boxes : Refused(b) => Refused(b)'
      BY <1>2, <1>3 DEF Refused
    <2> QED
      BY <1>1, <2>1 DEF SoleConsumer, AliveStates, ReceiverStates
  <1>9. OrderInv'
    BY <1>1, <1>2, <1>3 DEF OrderInv, TicketOrder, TicketIssued
  <1> QED
    BY <1>5, <1>6, <1>7, <1>8, <1>9

LEMMA LeaveKeepsIInv ==
    ASSUME IInv, TypeOK', NEW c \in Msgs, IdleTimeout(c) \/ SendersGone(c)
    PROVE  IInv'
  <1> USE BoxOfType DEF IInv
  <1>1. /\ consumers' = consumers /\ channel' = channel /\ ticket' = ticket
        /\ accepted' = accepted /\ fate' = fate /\ current' = current
        /\ task[c] = "waiting" /\ task'[c] = "leaving"
        /\ \A d \in Msgs : d # c => task'[d] = task[d]
    BY DEF IdleTimeout, SendersGone, historyVars, TypeOK
  <1>2. Registered' /\ SoleConsumer'
    BY <1>1, RegisteredStays DEF SoleConsumer, Refused, AliveStates, ReceiverStates
  <1>3. SlotInv'
    <2>1. ChannelOpen' /\ Spawning'
      BY <1>1 DEF SlotInv, ChannelOpen, Spawning, ReceiverStates
    <2>2. ChannelContent' /\ OneSlot' /\ QueuedHeld'
      BY <1>1, SlotTypes DEF SlotInv, ChannelContent, OneSlot, QueuedHeld
    <2> QED
      BY <2>1, <2>2 DEF SlotInv
  <1>4. HandInv' /\ OrderInv'
    BY <1>1 DEF HandInv, InHand, OneHand, RunningHeld, OrderInv, TicketOrder, TicketIssued
  <1> QED
    BY <1>2, <1>3, <1>4

LEMMA DeregisterKeepsIInv ==
    ASSUME IInv, TypeOK', NEW c \in Msgs, Deregister(c)
    PROVE  IInv'
  <1> USE BoxOfType DEF IInv
  <1>1. /\ channel' = channel /\ ticket' = ticket
        /\ accepted' = accepted /\ fate' = fate /\ current' = current
        /\ task[c] = "closed" /\ task'[c] = "exited"
        /\ consumers'[BoxOf[c]] = None
        /\ \A d \in Msgs : d # c => task'[d] = task[d]
        /\ \A b \in Boxes : b # BoxOf[c] => consumers'[b] = consumers[b]
    BY DEF Deregister, historyVars, TypeOK
  <1>2. Registered'
    <2> SUFFICES ASSUME NEW b \in Boxes, consumers'[b] # None
                 PROVE  /\ BoxOf[consumers'[b]] = b
                        /\ task'[consumers'[b]] \in AliveStates \cup {"panicked"}
      BY DEF Registered
    <2>1. b # BoxOf[c] /\ consumers'[b] = consumers[b] /\ consumers[b] \in Msgs
      BY <1>1 DEF TypeOK
    <2>2. /\ BoxOf[consumers[b]] = b
          /\ task[consumers[b]] \in AliveStates \cup {"panicked"}
      BY <2>1 DEF Registered
    <2> QED
      BY <2>1, <2>2, <1>1
  <1>3. SoleConsumer'
    BY <1>1 DEF SoleConsumer, Refused, AliveStates, ReceiverStates
  <1>4. SlotInv'
    <2>1. ChannelOpen' /\ Spawning'
      BY <1>1 DEF SlotInv, ChannelOpen, Spawning, ReceiverStates
    <2>2. ChannelContent' /\ OneSlot' /\ QueuedHeld'
      BY <1>1, SlotTypes DEF SlotInv, ChannelContent, OneSlot, QueuedHeld
    <2> QED
      BY <2>1, <2>2 DEF SlotInv
  <1>5. HandInv' /\ OrderInv'
    BY <1>1 DEF HandInv, InHand, OneHand, RunningHeld, OrderInv, TicketOrder, TicketIssued
  <1> QED
    BY <1>2, <1>3, <1>4, <1>5

LEMMA TailFacts ==
    ASSUME NEW S, NEW s \in Seq(S), s # <<>>
    PROVE  /\ Len(s) \in Nat /\ Len(s) >= 1
           /\ Head(s) = s[1]
           /\ Len(Tail(s)) = Len(s) - 1
           /\ \A i \in 1..Len(Tail(s)) : i + 1 \in 2..Len(s) /\ Tail(s)[i] = s[i + 1]
           /\ \A i \in 1..Len(s) : i # 1 => /\ i - 1 \in 1..Len(Tail(s))
                                            /\ Tail(s)[i - 1] = s[i]
  OBVIOUS

LEMMA SameSlot ==
    ASSUME OneSlot, NEW c \in Msgs, NEW d \in Msgs,
           NEW i \in 1..Len(channel[c]), NEW j \in 1..Len(channel[d]),
           channel[c][i] = channel[d][j]
    PROVE  c = d /\ i = j
  BY DEF OneSlot

LEMMA ReceiveKeepsIInv ==
    ASSUME IInv, TypeOK', NEW c \in Msgs, Receive(c)
    PROVE  IInv'
  <1> USE BoxOfType DEF IInv
  <1>1. /\ consumers' = consumers /\ ticket' = ticket /\ accepted' = accepted
        /\ task[c] = "waiting" /\ task'[c] = "busy"
        /\ channel'[c] = Tail(channel[c])
        /\ \A d \in Msgs : d # c => /\ task'[d] = task[d]
                                    /\ current'[d] = current[d]
                                    /\ channel'[d] = channel[d]
    BY DEF Receive, StartTurn, historyVars, TypeOK
  <1>2. /\ Len(channel[c]) \in Nat /\ Len(channel[c]) >= 1
        /\ Head(channel[c]) = channel[c][1]
        /\ Len(channel'[c]) = Len(channel[c]) - 1
        /\ \A i \in 1..Len(channel'[c]) : /\ i + 1 \in 2..Len(channel[c])
                                          /\ channel'[c][i] = channel[c][i + 1]
        /\ \A i \in 1..Len(channel[c]) : i # 1 => /\ i - 1 \in 1..Len(channel'[c])
                                                  /\ channel'[c][i - 1] = channel[c][i]
    <2>1. channel[c] \in Seq(Msgs) /\ channel[c] # <<>>
      BY DEF TypeOK, Receive
    <2> QED
      BY <2>1, <1>1, TailFacts
  <1>3. PICK m \in Msgs : m = channel[c][1]
    BY <1>2, SlotTypes
  <1>4. fate[m] = "queued" /\ BoxOf[m] = BoxOf[c] /\ task[m] = "unspawned" /\ m # c
    BY <1>1, <1>2, <1>3 DEF SlotInv, ChannelContent
  <1>5. /\ current'[c] = m /\ fate'[m] = "running"
        /\ \A d \in Msgs : d # m => fate'[d] = fate[d]
    BY <1>2, <1>3 DEF Receive, StartTurn, TypeOK
  <1>6. current[c] = None /\ \A d \in Msgs : current[d] # m
    BY <1>1, <1>4, ChatQueueAssumption DEF HandInv, InHand
  <1>7. \A d \in Msgs : \A i \in 1..Len(channel'[d]) :
           /\ d # c => i \in 1..Len(channel[d]) /\ channel'[d][i] = channel[d][i]
           /\ d = c => i + 1 \in 2..Len(channel[d]) /\ channel'[d][i] = channel[d][i + 1]
           /\ channel'[d][i] \in Msgs
           /\ channel'[d][i] # m
    <2> SUFFICES ASSUME NEW d \in Msgs, NEW i \in 1..Len(channel'[d])
                 PROVE  /\ d # c => /\ i \in 1..Len(channel[d])
                                    /\ channel'[d][i] = channel[d][i]
                        /\ d = c => /\ i + 1 \in 2..Len(channel[d])
                                    /\ channel'[d][i] = channel[d][i + 1]
                        /\ channel'[d][i] \in Msgs
                        /\ channel'[d][i] # m
      OBVIOUS
    <2>1. CASE d = c
      <3>1. i + 1 \in 2..Len(channel[c]) /\ channel'[c][i] = channel[c][i + 1]
        BY <2>1, <1>2
      <3>2. i + 1 \in 1..Len(channel[c]) /\ i + 1 # 1 /\ 1 \in 1..Len(channel[c])
        BY <3>1, <1>2
      <3>3. channel[c][i + 1] \in Msgs /\ channel[c][i + 1] # m
        BY <3>2, <1>3, SlotTypes DEF SlotInv, OneSlot
      <3> QED
        BY <2>1, <3>1, <3>3
    <2>2. CASE d # c
      <3>1. i \in 1..Len(channel[d]) /\ channel'[d][i] = channel[d][i]
        BY <2>2, <1>1
      <3>2. 1 \in 1..Len(channel[c])
        BY <1>2
      <3>3. channel[d][i] \in Msgs /\ channel[d][i] # m
        BY <2>2, <3>1, <3>2, <1>3, SlotTypes DEF SlotInv, OneSlot
      <3> QED
        BY <2>2, <3>1, <3>3
    <2> QED
      BY <2>1, <2>2
  <1>8. Registered'
    BY <1>1, RegisteredStays DEF AliveStates, ReceiverStates
  <1>9. SlotInv'
    <2>1. ChannelOpen'
      BY <1>1 DEF SlotInv, ChannelOpen, ReceiverStates
    <2>2. Spawning'
      BY <1>1, <1>4, <1>5 DEF SlotInv, Spawning
    <2>3. ChannelContent'
      <3> SUFFICES ASSUME NEW d \in Msgs, NEW i \in 1..Len(channel'[d])
                   PROVE  /\ fate'[channel'[d][i]] = "queued"
                          /\ BoxOf[channel'[d][i]] = BoxOf[d]
                          /\ task'[channel'[d][i]] = "unspawned"
        BY DEF ChannelContent
      <3>1. PICK k \in 1..Len(channel[d]) : channel'[d][i] = channel[d][k]
        <4>1. CASE d = c
          <5>1. i + 1 \in 2..Len(channel[d]) /\ channel'[d][i] = channel[d][i + 1]
            BY <4>1, <1>7
          <5>2. i + 1 \in 1..Len(channel[d])
            BY <5>1, <4>1, <1>2
          <5> QED
            BY <5>1, <5>2
        <4>2. CASE d # c
          BY <4>2, <1>7
        <4> QED
          BY <4>1, <4>2
      <3>2. channel[d][k] \in Msgs /\ channel[d][k] # m
        BY <3>1, <1>7
      <3>3. /\ fate[channel[d][k]] = "queued" /\ BoxOf[channel[d][k]] = BoxOf[d]
            /\ task[channel[d][k]] = "unspawned"
        BY DEF SlotInv, ChannelContent
      <3> QED
        BY <3>1, <3>2, <3>3, <1>1, <1>5
    <2>4. OneSlot'
      <3> SUFFICES ASSUME NEW d \in Msgs, NEW e \in Msgs,
                          NEW i \in 1..Len(channel'[d]), NEW j \in 1..Len(channel'[e]),
                          channel'[d][i] = channel'[e][j]
                   PROVE  d = e /\ i = j
        BY DEF OneSlot
      <3> DEFINE old(x, k) == IF x = c THEN k + 1 ELSE k
      <3>1. old(d, i) \in 1..Len(channel[d]) /\ channel'[d][i] = channel[d][old(d, i)]
        <4>1. CASE d = c
          BY <4>1, <1>7, <1>2
        <4>2. CASE d # c
          BY <4>2, <1>7
        <4> QED
          BY <4>1, <4>2
      <3>2. old(e, j) \in 1..Len(channel[e]) /\ channel'[e][j] = channel[e][old(e, j)]
        <4>1. CASE e = c
          BY <4>1, <1>7, <1>2
        <4>2. CASE e # c
          BY <4>2, <1>7
        <4> QED
          BY <4>1, <4>2
      <3> HIDE DEF old
      <3>3. d = e /\ old(d, i) = old(e, j)
        <4>1. PICK k \in 1..Len(channel[d]) : k = old(d, i) /\ channel'[d][i] = channel[d][k]
          BY <3>1
        <4>2. PICK l \in 1..Len(channel[e]) : l = old(e, j) /\ channel'[e][j] = channel[e][l]
          BY <3>2
        <4>3. channel[d][k] = channel[e][l]
          BY <4>1, <4>2
        <4>4. d = e /\ k = l
          BY <4>3, SameSlot DEF SlotInv
        <4> QED
          BY <4>1, <4>2, <4>4
      <3>4. i \in Nat /\ j \in Nat
        <4>1. channel'[d] \in Seq(Msgs) /\ channel'[e] \in Seq(Msgs)
          BY DEF TypeOK
        <4> QED
          BY <4>1
      <3> QED
        BY <3>3, <3>4 DEF old
    <2>5. QueuedHeld'
      <3> SUFFICES ASSUME NEW n \in Msgs, fate'[n] = "queued", task'[n] # "spawned"
                   PROVE  \E d \in Msgs : \E i \in 1..Len(channel'[d]) : channel'[d][i] = n
        BY DEF QueuedHeld
      <3>1. n # m /\ fate[n] = "queued" /\ task[n] # "spawned"
        BY <1>1, <1>5
      <3>2. PICK d \in Msgs : \E i \in 1..Len(channel[d]) : channel[d][i] = n
        BY <3>1 DEF SlotInv, QueuedHeld
      <3>3. PICK i \in 1..Len(channel[d]) : channel[d][i] = n
        BY <3>2
      <3>4. CASE d = c
        <4>1. i # 1
          BY <3>1, <3>3, <3>4, <1>3
        <4>2. i - 1 \in 1..Len(channel'[c]) /\ channel'[c][i - 1] = n
          BY <4>1, <3>3, <3>4, <1>2
        <4> QED
          BY <4>2
      <3>5. CASE d # c
        BY <3>3, <3>5, <1>1
      <3> QED
        BY <3>4, <3>5
    <2> QED
      BY <2>1, <2>2, <2>3, <2>4, <2>5 DEF SlotInv
  <1>10. HandInv'
    <2>1. InHand'
      BY <1>1, <1>4, <1>5, <1>6 DEF HandInv, InHand
    <2>2. OneHand'
      BY <1>1, <1>5, <1>6, ChatQueueAssumption DEF HandInv, OneHand
    <2>3. RunningHeld'
      <3> SUFFICES ASSUME NEW n \in Msgs, fate'[n] = "running"
                   PROVE  \E d \in Msgs : current'[d] = n
        BY DEF RunningHeld
      <3>1. CASE n = m
        BY <3>1, <1>5
      <3>2. CASE n # m
        <4>1. PICK d \in Msgs : current[d] = n
          BY <3>2, <1>5 DEF HandInv, RunningHeld
        <4>2. d # c
          BY <4>1, <1>6, ChatQueueAssumption
        <4> QED
          BY <4>1, <4>2, <1>1
      <3> QED
        BY <3>1, <3>2
    <2> QED
      BY <2>1, <2>2, <2>3 DEF HandInv
  <1>11. SoleConsumer'
    <2>1. \A b \in Boxes : Refused(b) => Refused(b)'
      BY <1>4, <1>5 DEF Refused
    <2> QED
      BY <1>1, <2>1 DEF SoleConsumer, AliveStates, ReceiverStates
  <1>12. TicketOrder'
    <2> SUFFICES ASSUME NEW d \in Msgs, NEW i \in 1..Len(channel'[d])
                 PROVE  /\ \A j \in 1..Len(channel'[d]) :
                               i < j => ticket[channel'[d][i]] < ticket[channel'[d][j]]
                        /\ task'[d] = "spawned" => ticket[d] < ticket[channel'[d][i]]
      BY <1>1 DEF TicketOrder
    <2>1. CASE d = c
      <3>1. task'[d] # "spawned"
        BY <2>1, <1>1
      <3>2. ASSUME NEW j \in 1..Len(channel'[d]), i < j
            PROVE  ticket[channel'[d][i]] < ticket[channel'[d][j]]
        <4>1. /\ i + 1 \in 1..Len(channel[d]) /\ channel'[d][i] = channel[d][i + 1]
              /\ j + 1 \in 1..Len(channel[d]) /\ channel'[d][j] = channel[d][j + 1]
              /\ i + 1 < j + 1
          BY <3>2, <2>1, <1>7, <1>2
        <4> QED
          BY <4>1 DEF OrderInv, TicketOrder
      <3> QED
        BY <3>1, <3>2
    <2>2. CASE d # c
      BY <2>2, <1>1 DEF OrderInv, TicketOrder
    <2> QED
      BY <2>1, <2>2
  <1>13. TicketIssued'
    BY <1>1, <1>5 DEF OrderInv, TicketIssued
  <1> QED
    BY <1>8, <1>9, <1>10, <1>11, <1>12, <1>13 DEF OrderInv

(* What a consumer that loses its receiver does to the slots: `f' is the fate of *)
(* the messages but for the stranding.                                          *)
LEMMA DropKeepsSlots ==
    ASSUME IInv, TypeOK', NEW c \in Msgs, NEW f \in [Msgs -> Fates],
           task[c] \in ReceiverStates \ {"spawned"},
           channel' = [channel EXCEPT ![c] = <<>>],
           fate' = Strand(c, f),
           task'[c] \notin {"unspawned", "spawned"},
           \A d \in Msgs : d # c => task'[d] = task[d],
           \A m \in Msgs : fate[m] # "running" => f[m] = fate[m],
           \A m \in Msgs : fate[m] = "running" => f[m] \notin {"new", "queued"},
           ticket' = ticket, accepted' = accepted
    PROVE  /\ SlotInv' /\ OrderInv'
           /\ \A m \in Msgs : fate[m] = "running" => fate'[m] = f[m]
           /\ \A b \in Boxes : Refused(b) => Refused(b)'
           /\ \A m \in Msgs : fate'[m] = "running" => fate[m] = "running"
  <1> USE BoxOfType DEF IInv
  <1>1. /\ channel'[c] = <<>>
        /\ \A d \in Msgs : d # c => channel'[d] = channel[d]
        /\ \A i \in 1..Len(channel[c]) : fate'[channel[c][i]] = "stranded"
        /\ \A m \in Msgs : (\A i \in 1..Len(channel[c]) : channel[c][i] # m)
                               => fate'[m] = f[m]
    <2>1. /\ channel'[c] = <<>>
          /\ \A d \in Msgs : d # c => channel'[d] = channel[d]
      BY DEF TypeOK
    <2>2. /\ \A i \in 1..Len(channel[c]) : Strand(c, f)[channel[c][i]] = "stranded"
          /\ \A m \in Msgs : (\A i \in 1..Len(channel[c]) : channel[c][i] # m)
                                 => Strand(c, f)[m] = f[m]
      BY SlotTypes DEF Strand
    <2> QED
      BY <2>1, <2>2
  <1>2. \A d \in Msgs : \A i \in 1..Len(channel[d]) : /\ channel[d][i] \in Msgs
                                                     /\ fate[channel[d][i]] = "queued"
                                                     /\ task[channel[d][i]] = "unspawned"
    BY SlotTypes DEF SlotInv, ChannelContent
  <1>3. \A m \in Msgs : fate[m] # "queued" => fate'[m] = f[m]
    BY <1>1, <1>2
  <1>4. \A m \in Msgs : fate'[m] \in {f[m], "stranded"}
    BY <1>1
  <1>5. \A d \in Msgs : \A i \in 1..Len(channel'[d]) : /\ d # c
                                                      /\ i \in 1..Len(channel[d])
                                                      /\ channel'[d][i] = channel[d][i]
    <2> TAKE d \in Msgs
    <2>1. CASE d = c
      BY <2>1, <1>1
    <2>2. CASE d # c
      BY <2>2, <1>1
    <2> QED
      BY <2>1, <2>2
  <1>6. \A m \in Msgs : fate'[m] = "running" => fate[m] = "running"
    BY <1>4
  <1>7. \A b \in Boxes : Refused(b) => Refused(b)'
    BY <1>3 DEF Refused
  <1>8. ChannelOpen'
    BY <1>1 DEF SlotInv, ChannelOpen
  <1>9. Spawning'
    <2> SUFFICES ASSUME NEW m \in Msgs
                 PROVE  /\ fate'[m] = "new" => task'[m] = "unspawned"
                        /\ task'[m] = "spawned" => fate'[m] = "queued"
      BY DEF Spawning
    <2>1. fate'[m] = "new" => fate[m] = "new"
      BY <1>4
    <2>2. fate[m] = "new" => m # c
      BY DEF SlotInv, Spawning, ReceiverStates
    <2>3. ASSUME task'[m] = "spawned" PROVE fate'[m] = "queued"
      <3>1. m # c /\ task[m] = "spawned" /\ fate[m] = "queued"
        BY <2>3 DEF SlotInv, Spawning
      <3>2. \A i \in 1..Len(channel[c]) : channel[c][i] # m
        BY <3>1, <1>2
      <3> QED
        BY <3>1, <3>2, <1>1
    <2> QED
      BY <2>1, <2>2, <2>3 DEF SlotInv, Spawning
  <1>10. ChannelContent'
    <2> SUFFICES ASSUME NEW d \in Msgs, NEW i \in 1..Len(channel'[d])
                 PROVE  /\ fate'[channel'[d][i]] = "queued"
                        /\ BoxOf[channel'[d][i]] = BoxOf[d]
                        /\ task'[channel'[d][i]] = "unspawned"
      BY DEF ChannelContent
    <2>1. PICK m \in Msgs : m = channel[d][i]
      BY <1>2, <1>5
    <2>2. d # c /\ i \in 1..Len(channel[d]) /\ channel'[d][i] = m
      BY <2>1, <1>5
    <2>3. fate[m] = "queued" /\ BoxOf[m] = BoxOf[d] /\ task[m] = "unspawned" /\ m # c
      BY <2>1, <2>2 DEF SlotInv, ChannelContent, ReceiverStates
    <2>4. \A j \in 1..Len(channel[c]) : channel[c][j] # m
      BY <2>1, <2>2 DEF SlotInv, OneSlot
    <2> QED
      BY <2>2, <2>3, <2>4, <1>1
  <1>11. OneSlot'
    BY <1>5 DEF SlotInv, OneSlot
  <1>12. QueuedHeld'
    <2> SUFFICES ASSUME NEW m \in Msgs, fate'[m] = "queued", task'[m] # "spawned"
                 PROVE  \E d \in Msgs : \E i \in 1..Len(channel'[d]) : channel'[d][i] = m
      BY DEF QueuedHeld
    <2>1. fate[m] = "queued" /\ task[m] # "spawned"
      BY <1>4
    <2>2. PICK d \in Msgs : \E i \in 1..Len(channel[d]) : channel[d][i] = m
      BY <2>1 DEF SlotInv, QueuedHeld
    <2>3. d # c
      BY <2>2, <1>1
    <2> QED
      BY <2>2, <2>3, <1>1
  <1>13. TicketOrder'
    BY <1>5 DEF OrderInv, TicketOrder
  <1>14. TicketIssued'
    BY <1>4 DEF OrderInv, TicketIssued
  <1> QED
    BY <1>3, <1>6, <1>7, <1>8, <1>9, <1>10, <1>11, <1>12, <1>13, <1>14
       DEF SlotInv, OrderInv

LEMMA PanicKeepsIInv ==
    ASSUME IInv, TypeOK', NEW c \in Msgs, Panic(c)
    PROVE  IInv'
  <1> USE BoxOfType DEF IInv
  <1>1. /\ consumers' = consumers /\ ticket' = ticket /\ accepted' = accepted
        /\ task[c] = "busy" /\ task'[c] = "panicked" /\ current'[c] = None
        /\ \A d \in Msgs : d # c => task'[d] = task[d] /\ current'[d] = current[d]
    BY DEF Panic, historyVars, TypeOK
  <1>2. PICK n \in Msgs : n = current[c] /\ fate[n] = "running"
    BY <1>1 DEF HandInv, InHand
  <1>3. \A d \in Msgs : d # c => current[d] # n
    BY <1>2, ChatQueueAssumption DEF HandInv, OneHand
  <1> DEFINE f == [fate EXCEPT ![n] = "panicked"]
  <1>4. /\ f \in [Msgs -> Fates] /\ f[n] = "panicked"
        /\ \A m \in Msgs : m # n => f[m] = fate[m]
    BY DEF TypeOK, Fates, Settled
  <1>5. fate' = Strand(c, f) /\ channel' = [channel EXCEPT ![c] = <<>>]
    BY <1>2 DEF Panic
  <1> HIDE DEF f
  <1>6. /\ SlotInv' /\ OrderInv'
        /\ \A m \in Msgs : fate[m] = "running" => fate'[m] = f[m]
        /\ \A b \in Boxes : Refused(b) => Refused(b)'
        /\ \A m \in Msgs : fate'[m] = "running" => fate[m] = "running"
    <2>1. task[c] \in ReceiverStates \ {"spawned"} /\ task'[c] \notin {"unspawned", "spawned"}
      BY <1>1 DEF ReceiverStates
    <2>2. /\ \A m \in Msgs : fate[m] # "running" => f[m] = fate[m]
          /\ \A m \in Msgs : fate[m] = "running" => f[m] \notin {"new", "queued"}
      BY <1>2, <1>4
    <2> QED
      BY <1>1, <1>4, <1>5, <2>1, <2>2, DropKeepsSlots
  <1>7. Registered'
    BY <1>1, RegisteredStays DEF AliveStates, ReceiverStates
  <1>8. HandInv'
    <2>1. InHand'
      BY <1>1, <1>3, <1>4, <1>6 DEF HandInv, InHand
    <2>2. OneHand'
      BY <1>1 DEF HandInv, OneHand
    <2>3. RunningHeld'
      <3> SUFFICES ASSUME NEW m \in Msgs, fate'[m] = "running"
                   PROVE  \E d \in Msgs : current'[d] = m
        BY DEF RunningHeld
      <3>1. fate[m] = "running" /\ m # n
        BY <1>2, <1>4, <1>6
      <3>2. PICK d \in Msgs : current[d] = m
        BY <3>1 DEF HandInv, RunningHeld
      <3> QED
        BY <3>1, <3>2, <1>1, <1>2
    <2> QED
      BY <2>1, <2>2, <2>3 DEF HandInv
  <1>9. SoleConsumer'
    BY <1>1, <1>6 DEF SoleConsumer, AliveStates, ReceiverStates
  <1> QED
    BY <1>6, <1>7, <1>8, <1>9

LEMMA DropReceiverKeepsIInv ==
    ASSUME IInv, TypeOK', NEW c \in Msgs, DropReceiver(c)
    PROVE  IInv'
  <1> USE BoxOfType DEF IInv
  <1>1. /\ consumers' = consumers /\ ticket' = ticket /\ accepted' = accepted
        /\ current' = current
        /\ task[c] = "leaving" /\ task'[c] = "closed"
        /\ channel' = [channel EXCEPT ![c] = <<>>] /\ fate' = Strand(c, fate)
        /\ \A d \in Msgs : d # c => task'[d] = task[d]
    BY DEF DropReceiver, historyVars, TypeOK
  <1>2. /\ SlotInv' /\ OrderInv'
        /\ \A m \in Msgs : fate[m] = "running" => fate'[m] = fate[m]
        /\ \A b \in Boxes : Refused(b) => Refused(b)'
        /\ \A m \in Msgs : fate'[m] = "running" => fate[m] = "running"
    <2>1. task[c] \in ReceiverStates \ {"spawned"} /\ task'[c] \notin {"unspawned", "spawned"}
      BY <1>1 DEF ReceiverStates
    <2>2. fate \in [Msgs -> Fates]
      BY DEF TypeOK
    <2> QED
      BY <1>1, <2>1, <2>2, DropKeepsSlots
  <1>3. Registered'
    BY <1>1, RegisteredStays DEF AliveStates, ReceiverStates
  <1>4. HandInv'
    BY <1>1, <1>2 DEF HandInv, InHand, OneHand, RunningHeld
  <1>5. SoleConsumer'
    BY <1>1, <1>2 DEF SoleConsumer, AliveStates, ReceiverStates
  <1> QED
    BY <1>2, <1>3, <1>4, <1>5

LEMMA IInvNext == IInv /\ [Next]_vars => IInv'
  <1> SUFFICES ASSUME IInv, [Next]_vars PROVE IInv'
    OBVIOUS
  <1>1. TypeOK'
    BY TypeNext DEF IInv
  <1>2. ASSUME NEW m \in Msgs, Enqueue(m) PROVE IInv'
    BY <1>1, <1>2, SendKeepsIInv, ClosedKeepsIInv, SpawnKeepsIInv DEF Enqueue
  <1>3. ASSUME NEW c \in Msgs, ConsumerStep(c) PROVE IInv'
    BY <1>1, <1>3, ProcessFirstKeepsIInv, ReceiveKeepsIInv, FinishTurnKeepsIInv,
       PanicKeepsIInv, LeaveKeepsIInv, DropReceiverKeepsIInv, DeregisterKeepsIInv
       DEF ConsumerStep
  <1>4. CASE ExecuteReturns \/ UNCHANGED vars
    <2>1. UNCHANGED <<consumers, channel, task, current, fate, ticket, accepted>>
      BY <1>4 DEF ExecuteReturns, vars, historyVars
    <2>2. Registered' /\ SlotInv'
      BY <2>1 DEF IInv, Registered, SlotInv, ChannelOpen, Spawning, ChannelContent, OneSlot,
                  QueuedHeld
    <2>3. HandInv' /\ SoleConsumer' /\ OrderInv'
      BY <2>1 DEF IInv, HandInv, InHand, OneHand, RunningHeld, SoleConsumer, Refused,
                  OrderInv, TicketOrder, TicketIssued
    <2> QED
      BY <1>1, <2>2, <2>3 DEF IInv
  <1> QED
    BY <1>2, <1>3, <1>4 DEF Next, Quiescent

(* In every reachable state, of however many messages and boxes, a message *)
(* that has been accepted and not handled is held by one consumer, the one *)
(* of its box (FeishuChatQueue::push, consume_loop).                       *)
THEOREM InductiveInvariant == Spec => []IInv
  BY IInvInit, IInvNext, PTL DEF Spec

(***************************************************************************)
(* What the invariant gives.                                               *)
(***************************************************************************)
LEMMA OnePlaceFromIInv == IInv => EveryMessageHasOnePlace
  <1> SUFFICES ASSUME IInv PROVE EveryMessageHasOnePlace
    OBVIOUS
  <1> USE BoxOfType DEF IInv
  <1>1. \A c \in Msgs : Len(channel[c]) \in Nat
    BY SlotTypes
  <1>2. ASSUME NEW m \in Msgs, fate[m] = "queued"
        PROVE  \E c \in Msgs : /\ task[c] \in ReceiverStates
                               /\ BoxOf[c] = BoxOf[m]
                               /\ \E i \in 0..Len(channel[c]) : Holds(c, i, m)
    <2>1. CASE task[m] = "spawned"
      <3>1. 0 \in 0..Len(channel[m]) /\ Holds(m, 0, m)
        BY <2>1, <1>1 DEF Holds
      <3> QED
        BY <2>1, <3>1 DEF ReceiverStates
    <2>2. CASE task[m] # "spawned"
      <3>1. PICK c \in Msgs : \E i \in 1..Len(channel[c]) : channel[c][i] = m
        BY <1>2, <2>2 DEF SlotInv, QueuedHeld
      <3>2. PICK i \in 1..Len(channel[c]) : channel[c][i] = m
        BY <3>1
      <3>3. i \in 0..Len(channel[c]) /\ Holds(c, i, m)
        BY <3>2, <1>1 DEF Holds
      <3>4. channel[c] # <<>> /\ BoxOf[c] = BoxOf[m]
        BY <3>2 DEF SlotInv, ChannelContent
      <3>5. task[c] \in ReceiverStates
        BY <3>4 DEF SlotInv, ChannelOpen
      <3> QED
        BY <3>3, <3>4, <3>5
    <2> QED
      BY <2>1, <2>2
  <1>3. ASSUME NEW m \in Msgs, NEW c \in Msgs, NEW d \in Msgs,
               NEW i \in 0..Len(channel[c]), NEW j \in 0..Len(channel[d]),
               Holds(c, i, m), Holds(d, j, m)
        PROVE  c = d /\ i = j
    <2>1. CASE i = 0 /\ task[c] = "spawned" /\ m = c
      BY <2>1, <1>3 DEF Holds, SlotInv, ChannelContent
    <2>2. CASE i \in 1..Len(channel[c]) /\ channel[c][i] = m
      <3>1. task[m] = "unspawned"
        BY <2>2 DEF SlotInv, ChannelContent
      <3>2. j \in 1..Len(channel[d]) /\ channel[d][j] = m
        BY <3>1, <1>3 DEF Holds
      <3> QED
        BY <2>2, <3>2, SameSlot DEF SlotInv
    <2> QED
      BY <2>1, <2>2, <1>3 DEF Holds
  <1>4. ASSUME NEW m \in Msgs, NEW c \in Msgs, NEW i \in 0..Len(channel[c]), Holds(c, i, m)
        PROVE  fate[m] = "queued"
    BY <1>4 DEF Holds, SlotInv, Spawning, ChannelContent
  <1>5. ASSUME NEW m \in Msgs, fate[m] = "running"
        PROVE  \E c \in Msgs : /\ task[c] = "busy" /\ current[c] = m
                               /\ \A d \in Msgs : current[d] = m => d = c
    <2>1. PICK c \in Msgs : current[c] = m
      BY <1>5 DEF HandInv, RunningHeld
    <2> QED
      BY <2>1, ChatQueueAssumption DEF HandInv, InHand, OneHand
  <1> QED
    BY <1>2, <1>3, <1>4, <1>5 DEF EveryMessageHasOnePlace, Running

(* No message is duplicated or parked where nobody looks (mpsc send and recv, *)
(* and the drop of a receiver, in enqueue_inner and consumer_loop).           *)
THEOREM OnePlace == Spec => []EveryMessageHasOnePlace
  BY InductiveInvariant, OnePlaceFromIInv, PTL

(* What is settled stays settled, in the same way. *)
LEMMA SettledStays ==
    ASSUME IInv, [Next]_vars, NEW m \in Msgs, fate[m] \in Settled
    PROVE  fate'[m] = fate[m]
  <1> USE DEF IInv, Settled
  <1>1. ASSUME NEW n \in Msgs, Enqueue(n) PROVE fate'[m] = fate[m]
    BY <1>1 DEF Enqueue, EnqueueSend, EnqueueClosed, EnqueueSpawn, Offer, Accept, TypeOK
  <1>2. ASSUME NEW c \in Msgs, ConsumerStep(c) PROVE fate'[m] = fate[m]
    <2>1. \A i \in 1..Len(channel[c]) : channel[c][i] # m
      BY DEF SlotInv, ChannelContent
    <2>2. task[c] = "busy" => current[c] # m
      BY DEF HandInv, InHand
    <2>3. CASE ProcessFirst(c)
      BY <2>3 DEF ProcessFirst, StartTurn, SlotInv, Spawning, TypeOK
    <2>4. CASE Receive(c)
      <3>1. Head(channel[c]) # m
        <4>1. channel[c] \in Seq(Msgs) /\ channel[c] # <<>>
          BY <2>4 DEF Receive, TypeOK
        <4>2. Head(channel[c]) = channel[c][1] /\ 1 \in 1..Len(channel[c])
          BY <4>1, TailFacts
        <4> QED
          BY <4>2, <2>1
      <3> QED
        BY <2>4, <3>1 DEF Receive, StartTurn, TypeOK
    <2>5. ASSUME NEW result \in {"answered", "failed"}, FinishTurn(c, result)
          PROVE  fate'[m] = fate[m]
      BY <2>2, <2>5 DEF FinishTurn, TypeOK
    <2>6. CASE Panic(c)
      BY <2>1, <2>2, <2>6 DEF Panic, Strand, TypeOK
    <2>7. CASE DropReceiver(c)
      BY <2>1, <2>7 DEF DropReceiver, Strand
    <2>8. CASE IdleTimeout(c) \/ SendersGone(c) \/ Deregister(c)
      BY <2>8 DEF IdleTimeout, SendersGone, Deregister
    <2> QED
      BY <1>2, <2>3, <2>4, <2>5, <2>6, <2>7, <2>8 DEF ConsumerStep
  <1> QED
    BY <1>1, <1>2 DEF Next, ExecuteReturns, Quiescent, vars

LEMMA VerdictNext ==
    IInv /\ VerdictIsTrueAndFinal /\ [Next]_vars => VerdictIsTrueAndFinal'
  <1> SUFFICES ASSUME IInv, VerdictIsTrueAndFinal, [Next]_vars, NEW t \in Triggers
               PROVE  /\ verdict'[t] = "true" => fate'[t] = "answered"
                      /\ verdict'[t] = "false" => fate'[t] \in Settled \ {"answered"}
    BY DEF VerdictIsTrueAndFinal
  <1>1. t \in Msgs
    BY DEF Msgs
  <1>2. fate[t] \in Settled => fate'[t] = fate[t]
    BY <1>1, SettledStays
  <1>3. CASE ExecuteReturns
    <2>1. CASE t = awaiting
      BY <1>2, <1>3, <2>1 DEF ExecuteReturns, IInv, TypeOK
    <2>2. CASE t # awaiting
      BY <1>2, <1>3, <2>2 DEF ExecuteReturns, IInv, TypeOK, VerdictIsTrueAndFinal, Settled
    <2> QED
      BY <2>1, <2>2
  <1>4. CASE ~ExecuteReturns
    <2>1. verdict' = verdict
      BY <1>4 DEF Next, Enqueue, EnqueueSend, EnqueueClosed, EnqueueSpawn, Offer, ConsumerStep,
                  ProcessFirst, Receive, FinishTurn, Panic, IdleTimeout, SendersGone,
                  DropReceiver, Deregister, Quiescent, schedulerVars, vars
    <2> QED
      BY <1>2, <2>1 DEF VerdictIsTrueAndFinal, Settled
  <1> QED
    BY <1>3, <1>4

(* What enqueue_scheduler returns is the truth, and stays the truth. *)
THEOREM VerdictCorrect == Spec => []VerdictIsTrueAndFinal
  <1>1. Init => VerdictIsTrueAndFinal
    BY DEF Init, VerdictIsTrueAndFinal
  <1> QED
    BY <1>1, VerdictNext, InductiveInvariant, PTL DEF Spec

(***************************************************************************)
(* How many messages are turned away.  The messages offered so far are     *)
(* finitely many, whatever Msgs is.                                        *)
(***************************************************************************)
Offered == {m \in Msgs : fate[m] # "new"}
RefusedOf(b) == {m \in Msgs : BoxOf[m] = b /\ fate[m] = "refused"}
DeadStates == {"closed", "exited", "panicked"}
DeadOf(b) == {c \in Msgs : BoxOf[c] = b /\ task[c] \in DeadStates}

(* A dead consumer that is still in the map has yet to cost its message. *)
RefusalInv ==
    /\ IsFiniteSet(Offered)
    /\ \A b \in Boxes : Cardinality(RefusedOf(b)) <= Cardinality(DeadOf(b) \ {consumers[b]})

LEMMA PartsCounted ==
    ASSUME NEW W, IsFiniteSet(W), NEW r, r \subseteq W, NEW d, d \subseteq W
    PROVE  /\ IsFiniteSet(r) /\ Cardinality(r) \in Nat
           /\ IsFiniteSet(d) /\ Cardinality(d) \in Nat
           /\ \A x : IsFiniteSet(d \ {x}) /\ Cardinality(d \ {x}) \in Nat
  <1>1. IsFiniteSet(r) /\ IsFiniteSet(d)
    BY FS_Subset
  <1>2. \A x : IsFiniteSet(d \ {x})
    BY <1>1, FS_Subset
  <1> QED BY <1>1, <1>2, FS_CardinalityType

LEMMA CountedAreOffered ==
    ASSUME IInv, IsFiniteSet(Offered), NEW b \in Boxes
    PROVE  /\ IsFiniteSet(RefusedOf(b)) /\ Cardinality(RefusedOf(b)) \in Nat
           /\ IsFiniteSet(DeadOf(b)) /\ Cardinality(DeadOf(b)) \in Nat
           /\ \A x : IsFiniteSet(DeadOf(b) \ {x}) /\ Cardinality(DeadOf(b) \ {x}) \in Nat
  <1>1. RefusedOf(b) \subseteq Offered
    BY DEF RefusedOf, Offered
  <1>2. DeadOf(b) \subseteq Offered
    BY DEF DeadOf, Offered, DeadStates, IInv, SlotInv, Spawning
  <1> HIDE DEF RefusedOf, DeadOf, Offered
  <1> QED BY <1>1, <1>2, PartsCounted

(* A step that refuses nothing and takes no dead consumer out of the count. *)
LEMMA NoneRefused ==
    ASSUME IInv, IInv', RefusalInv, NEW m \in Msgs, Offered' \subseteq Offered \cup {m},
           \A n \in Msgs : fate'[n] = "refused" => fate[n] = "refused",
           \A c \in Msgs : /\ task[c] \in DeadStates => task'[c] \in DeadStates
                           /\ task[c] \in DeadStates /\ c # consumers[BoxOf[c]] =>
                                 c # consumers'[BoxOf[c]]
    PROVE  RefusalInv'
  <1>1. IsFiniteSet(Offered')
    <2>1. IsFiniteSet(Offered \cup {m})
      BY FS_AddElement DEF RefusalInv
    <2> QED BY <2>1, FS_Subset
  <1>2. ASSUME NEW b \in Boxes
        PROVE  Cardinality(RefusedOf(b)') <= Cardinality((DeadOf(b) \ {consumers[b]})')
    <2> DEFINE r == RefusedOf(b)
               s == DeadOf(b) \ {consumers[b]}
    <2>1. r' \subseteq r /\ s \subseteq s'
      BY DEF RefusedOf, DeadOf
    <2>2. /\ IsFiniteSet(r) /\ Cardinality(r) \in Nat /\ IsFiniteSet(s) /\ Cardinality(s) \in Nat
          /\ Cardinality(r) <= Cardinality(s)
      BY CountedAreOffered DEF RefusalInv
    <2>3. IsFiniteSet(r') /\ Cardinality(r') \in Nat /\ IsFiniteSet(s') /\ Cardinality(s') \in Nat
      <3>1. RefusedOf(b)' \subseteq Offered'
        BY DEF RefusedOf, Offered
      <3>2. DeadOf(b)' \subseteq Offered'
        BY DEF DeadOf, Offered, DeadStates, IInv, SlotInv, Spawning
      <3> HIDE DEF RefusedOf, DeadOf, Offered
      <3>3. /\ IsFiniteSet(RefusedOf(b)') /\ Cardinality(RefusedOf(b)') \in Nat
            /\ \A x : IsFiniteSet(DeadOf(b)' \ {x}) /\ Cardinality(DeadOf(b)' \ {x}) \in Nat
        BY <1>1, <3>1, <3>2, PartsCounted
      <3> QED BY <3>3
    <2> HIDE DEF r, s
    <2>4. Cardinality(r') <= Cardinality(r) /\ Cardinality(s) <= Cardinality(s')
      BY <2>1, <2>2, <2>3, FS_Subset
    <2>5. Cardinality(r') <= Cardinality(s')
      BY <2>2, <2>3, <2>4
    <2> QED BY <2>5 DEF r, s
  <1> QED BY <1>1, <1>2 DEF RefusalInv

(* A refusal takes its dead consumer out of the map. *)
LEMMA OneRefused ==
    ASSUME IInv, IInv', RefusalInv, NEW m \in Msgs, EnqueueClosed(m)
    PROVE  RefusalInv'
  <1> DEFINE c == consumers[BoxOf[m]]
  <1>1. /\ fate[m] = "new" /\ c # None /\ task[c] \notin ReceiverStates
        /\ consumers' = [consumers EXCEPT ![BoxOf[m]] = None]
        /\ fate' = [fate EXCEPT ![m] = "refused"] /\ task' = task
    BY DEF EnqueueClosed, Offer
  <1>2. TypeOK /\ BoxOf[m] \in Boxes
    BY BoxOfType DEF IInv
  <1>3. c \in Msgs /\ BoxOf[c] = BoxOf[m] /\ task[c] \in DeadStates
    BY <1>1, <1>2 DEF IInv, TypeOK, Registered, AliveStates, ReceiverStates, DeadStates
  <1>4. Offered' = Offered \cup {m}
    BY <1>1, <1>2 DEF Offered, TypeOK
  <1>5. IsFiniteSet(Offered')
    BY <1>4, FS_AddElement DEF RefusalInv
  <1>6. ASSUME NEW b \in Boxes
        PROVE  Cardinality(RefusedOf(b)') <= Cardinality((DeadOf(b) \ {consumers[b]})')
    <2> DEFINE r == RefusedOf(b)
               d == DeadOf(b)
               s == d \ {consumers[b]}
    <2>1. d' = d
      BY <1>1 DEF DeadOf
    <2>2. /\ IsFiniteSet(r) /\ Cardinality(r) \in Nat
          /\ IsFiniteSet(d) /\ Cardinality(d) \in Nat /\ IsFiniteSet(s) /\ Cardinality(s) \in Nat
          /\ Cardinality(r) <= Cardinality(s)
      BY CountedAreOffered DEF RefusalInv
    <2>3. CASE b = BoxOf[m]
      <3>1. r' = r \cup {m} /\ m \notin r
        BY <1>1, <1>2, <2>3 DEF RefusedOf, TypeOK
      <3>2. s' = s \cup {c} /\ c \notin s
        <4>1. None \notin d /\ c \in d
          BY <1>3, <2>3, ChatQueueAssumption DEF DeadOf
        <4>2. consumers'[b] = None /\ consumers[b] = c
          BY <1>1, <1>2, <2>3 DEF TypeOK
        <4> HIDE DEF d, c
        <4> QED BY <2>1, <4>1, <4>2
      <3> HIDE DEF r, s, c
      <3>3. Cardinality(r') = Cardinality(r) + 1 /\ Cardinality(s') = Cardinality(s) + 1
        BY <2>2, <3>1, <3>2, FS_AddElement
      <3>4. Cardinality(r') <= Cardinality(s')
        BY <2>2, <3>3
      <3> QED BY <3>4 DEF r, s
    <2>4. CASE b # BoxOf[m]
      <3>1. r' = r
        BY <1>1, <1>2, <2>4 DEF RefusedOf, TypeOK
      <3>2. s' = s
        <4>1. consumers'[b] = consumers[b]
          BY <1>1, <1>2, <2>4 DEF TypeOK
        <4> HIDE DEF d
        <4> QED BY <2>1, <4>1
      <3> HIDE DEF r, s
      <3>3. Cardinality(r') <= Cardinality(s')
        BY <2>2, <3>1, <3>2
      <3> QED BY <3>3 DEF r, s
    <2> QED BY <2>3, <2>4
  <1> QED BY <1>5, <1>6 DEF RefusalInv

LEMMA RefusalNext == IInv /\ IInv' /\ RefusalInv /\ [Next]_vars => RefusalInv'
  <1> SUFFICES ASSUME IInv, IInv', RefusalInv, [Next]_vars PROVE RefusalInv'
    OBVIOUS
  <1> USE BoxOfType
  <1>1. ASSUME NEW m \in Msgs, EnqueueSend(m) \/ EnqueueSpawn(m)
        PROVE  RefusalInv'
    <2>1. Offered' \subseteq Offered \cup {m}
          /\ \A n \in Msgs : fate'[n] = "refused" => fate[n] = "refused"
      <3>1. fate' = [fate EXCEPT ![m] = "queued"]
        BY <1>1 DEF EnqueueSend, EnqueueSpawn, Accept
      <3>2. fate'[m] = "queued" /\ \A n \in Msgs : n # m => fate'[n] = fate[n]
        BY <3>1 DEF IInv, TypeOK
      <3> QED BY <3>2 DEF Offered
    <2>2. ASSUME NEW c \in Msgs, task[c] \in DeadStates
          PROVE  task'[c] \in DeadStates /\ (c # consumers[BoxOf[c]] => c # consumers'[BoxOf[c]])
      <3>1. c # m
        <4>1. fate[m] = "new"
          BY <1>1 DEF EnqueueSend, EnqueueSpawn, Offer
        <4>2. task[m] = "unspawned"
          BY <4>1 DEF IInv, SlotInv, Spawning
        <4> QED BY <4>2, <2>2 DEF DeadStates
      <3>2. CASE EnqueueSend(m)
        BY <2>2, <3>2 DEF EnqueueSend
      <3>3. CASE EnqueueSpawn(m)
        BY <2>2, <3>1, <3>3 DEF EnqueueSpawn, IInv, TypeOK
      <3> QED BY <1>1, <3>2, <3>3
    <2> QED BY <2>1, <2>2, NoneRefused
  <1>2. ASSUME NEW c \in Msgs, ConsumerStep(c)
        PROVE  RefusalInv'
    <2>1. /\ \A n \in Msgs : fate'[n] = "refused" => fate[n] = "refused"
          /\ \A n \in Msgs : fate[n] = "new" => fate'[n] = "new"
      <3>1. CASE ProcessFirst(c)
        BY <3>1 DEF ProcessFirst, StartTurn, IInv, TypeOK, SlotInv, Spawning
      <3>2. CASE Receive(c)
        <4>1. channel[c] \in Seq(Msgs) /\ channel[c] # <<>>
          BY <3>2 DEF Receive, IInv, TypeOK
        <4>2. Head(channel[c]) = channel[c][1] /\ 1 \in 1..Len(channel[c])
          BY <4>1, TailFacts
        <4>3. fate[channel[c][1]] = "queued"
          BY <4>2 DEF IInv, SlotInv, ChannelContent
        <4> QED BY <3>2, <4>2, <4>3 DEF Receive, StartTurn, IInv, TypeOK
      <3>3. ASSUME NEW result \in {"answered", "failed"}, FinishTurn(c, result)
            PROVE  /\ \A n \in Msgs : fate'[n] = "refused" => fate[n] = "refused"
                   /\ \A n \in Msgs : fate[n] = "new" => fate'[n] = "new"
        BY <3>3 DEF FinishTurn, IInv, TypeOK, HandInv, InHand
      <3>4. CASE Panic(c) \/ DropReceiver(c)
        <4>1. \A n \in Msgs : \/ fate'[n] = fate[n]
                              \/ fate'[n] = "stranded" /\ \E i \in 1..Len(channel[c]) : channel[c][i] = n
                              \/ fate'[n] = "panicked" /\ task[c] = "busy" /\ n = current[c]
          BY <3>4 DEF Panic, DropReceiver, Strand, IInv, TypeOK
        <4>2. \A i \in 1..Len(channel[c]) : fate[channel[c][i]] = "queued"
          BY DEF IInv, SlotInv, ChannelContent
        <4>3. task[c] = "busy" => fate[current[c]] = "running"
          BY DEF IInv, HandInv, InHand
        <4> QED BY <4>1, <4>2, <4>3
      <3>5. CASE IdleTimeout(c) \/ SendersGone(c) \/ Deregister(c)
        BY <3>5 DEF IdleTimeout, SendersGone, Deregister
      <3> QED BY <1>2, <3>1, <3>2, <3>3, <3>4, <3>5 DEF ConsumerStep
    <2>2. Offered' \subseteq Offered \cup {c}
      BY <2>1 DEF Offered
    <2>3. ASSUME NEW d \in Msgs, task[d] \in DeadStates
          PROVE  task'[d] \in DeadStates /\ (d # consumers[BoxOf[d]] => d # consumers'[BoxOf[d]])
      <3>1. task'[d] \in DeadStates
        BY <1>2, <2>3 DEF ConsumerStep, ProcessFirst, Receive, FinishTurn, StartTurn, Panic, IdleTimeout,
                          SendersGone, DropReceiver, Deregister, DeadStates, IInv, TypeOK
      <3>2. consumers' = consumers \/ consumers' = [consumers EXCEPT ![BoxOf[c]] = None]
        BY <1>2 DEF ConsumerStep, ProcessFirst, Receive, FinishTurn, StartTurn, Panic, IdleTimeout,
                    SendersGone, DropReceiver, Deregister
      <3>3. d # None
        BY ChatQueueAssumption
      <3> QED BY <3>1, <3>2, <3>3 DEF IInv, TypeOK
    <2> QED BY <2>1, <2>2, <2>3, NoneRefused
  <1>3. CASE ExecuteReturns \/ UNCHANGED vars
    <2>1. UNCHANGED <<consumers, task, fate>>
      BY <1>3 DEF ExecuteReturns, vars
    <2> QED BY <2>1 DEF RefusalInv, Offered, RefusedOf, DeadOf
  <1> QED BY <1>1, <1>2, <1>3, OneRefused DEF Next, Enqueue, Quiescent

LEMMA RefusalInit == Init => RefusalInv
  <1> SUFFICES ASSUME Init PROVE RefusalInv
    OBVIOUS
  <1>1. Offered = {} /\ \A b \in Boxes : RefusedOf(b) = {} /\ DeadOf(b) = {}
    BY DEF Init, Offered, RefusedOf, DeadOf, DeadStates
  <1>2. IsFiniteSet({}) /\ Cardinality({}) = 0
    BY FS_EmptySet
  <1>3. ASSUME NEW b \in Boxes
        PROVE  Cardinality(RefusedOf(b)) <= Cardinality(DeadOf(b) \ {consumers[b]})
    <2>1. RefusedOf(b) = {} /\ DeadOf(b) \ {consumers[b]} = {}
      BY <1>1
    <2> HIDE DEF RefusedOf, DeadOf
    <2> QED BY <1>2, <2>1
  <1> QED BY <1>1, <1>2, <1>3 DEF RefusalInv

(* Turning a message away is paid for by one dead consumer, once: a stale   *)
(* entry of the map cannot swallow a second message (the failed send of    *)
(* enqueue_inner, which removes the entry).                                *)
THEOREM Refusals == Spec => []OneRefusalPerDeadConsumer
  <1>1. IInv /\ RefusalInv => OneRefusalPerDeadConsumer
    <2> SUFFICES ASSUME IInv, RefusalInv, NEW b \in Boxes
                 PROVE  Cardinality(RefusedOf(b)) <= Cardinality(DeadOf(b))
      BY DEF OneRefusalPerDeadConsumer, RefusedOf, DeadOf, DeadStates
    <2> DEFINE r == RefusedOf(b)
               d == DeadOf(b)
               s == d \ {consumers[b]}
    <2>1. /\ IsFiniteSet(d) /\ Cardinality(r) \in Nat /\ Cardinality(d) \in Nat
          /\ Cardinality(s) \in Nat /\ Cardinality(r) <= Cardinality(s)
      BY CountedAreOffered DEF RefusalInv
    <2>2. s \subseteq d
      OBVIOUS
    <2> HIDE DEF r, d, s
    <2>3. Cardinality(s) <= Cardinality(d)
      BY <2>1, <2>2, FS_Subset
    <2>4. Cardinality(r) <= Cardinality(d)
      BY <2>1, <2>3
    <2> QED BY <2>4 DEF r, d
  <1> QED
    BY <1>1, RefusalInit, RefusalNext, InductiveInvariant, PTL DEF Spec

-----------------------------------------------------------------------------
(***************************************************************************)
(* The consumer tasks, channels and map of ChatQueue implement Mailbox.    *)
(***************************************************************************)

Degraded == {b \in Boxes : Refused(b)}

LEMMA PhaseOf ==
    ASSUME NEW m \in Msgs
    PROVE  /\ fate[m] = "new" => phase[m] = "new"
           /\ fate[m] = "queued" <=> phase[m] = "pending"
           /\ fate[m] = "running" <=> phase[m] = "running"
           /\ fate[m] \notin {"new", "queued", "running"} => phase[m] = "over"
  BY DEF phase

LEMMA RefineInit == Init => Box!Init
  BY DEF Init, Box!Init, phase, Refused

(* A message that is accepted is posted. *)
LEMMA AcceptPosts ==
    ASSUME IInv, NEW m \in Msgs, fate[m] = "new", Accept(m)
    PROVE  Box!Post(m)
  <1>1. fate' = [fate EXCEPT ![m] = "queued"] /\ fate \in [Msgs -> Fates]
    BY DEF IInv, TypeOK, Accept
  <1>2. phase' = [phase EXCEPT ![m] = "pending"] /\ phase[m] = "new"
    BY <1>1 DEF phase
  <1>3. Degraded' = Degraded
    BY <1>1 DEF Degraded, Refused
  <1> QED
    BY <1>2, <1>3 DEF Box!Post, Accept, Degraded

LEMMA ClosedTurnsAway ==
    ASSUME IInv, NEW m \in Msgs, EnqueueClosed(m)
    PROVE  Box!TurnAway(m)
  <1>1. /\ fate' = [fate EXCEPT ![m] = "refused"] /\ fate \in [Msgs -> Fates]
        /\ fate[m] = "new" /\ ticket' = ticket /\ accepted' = accepted
    BY DEF IInv, TypeOK, EnqueueClosed, Offer, historyVars
  <1>2. phase' = [phase EXCEPT ![m] = "over"] /\ phase[m] = "new"
    BY <1>1 DEF phase
  <1>3. Degraded' = Degraded \cup {BoxOf[m]}
    BY <1>1, BoxOfType DEF Degraded, Refused
  <1> QED
    BY <1>1, <1>2, <1>3 DEF Box!TurnAway, Degraded

(* In a mailbox that has refused nothing, a consumer that still has its receiver *)
(* is the only one, so the message it takes is the oldest and no other runs.     *)
LEMMA OnlyConsumer ==
    ASSUME IInv, NEW c \in Msgs, NEW d \in Msgs, ~Refused(BoxOf[c]), BoxOf[c] = BoxOf[d],
           task[c] \in AliveStates, task[d] \in AliveStates
    PROVE  c = d
  BY DEF IInv, SoleConsumer

LEMMA NothingRuns ==
    ASSUME IInv, NEW c \in Msgs, NEW n \in Msgs, ~Refused(BoxOf[c]), BoxOf[n] = BoxOf[c],
           task[c] \in {"spawned", "waiting"}
    PROVE  fate[n] # "running"
  <1> SUFFICES ASSUME fate[n] = "running" PROVE FALSE
    OBVIOUS
  <1>1. PICK d \in Msgs : current[d] = n
    BY DEF IInv, HandInv, RunningHeld
  <1>2. task[d] = "busy" /\ BoxOf[n] = BoxOf[d]
    BY <1>1, ChatQueueAssumption DEF IInv, HandInv, InHand
  <1> QED
    BY <1>2, OnlyConsumer DEF AliveStates, ReceiverStates

LEMMA BeginStep ==
    ASSUME IInv, NEW m \in Msgs, fate[m] = "queued",
           fate' = [fate EXCEPT ![m] = "running"], ticket' = ticket, accepted' = accepted,
           ~Refused(BoxOf[m]) => \A n \in Msgs : BoxOf[n] = BoxOf[m] =>
              /\ fate[n] # "running"
              /\ fate[n] = "queued" => ticket[m] <= ticket[n]
    PROVE  Box!Begin(m)
  <1>1. fate \in [Msgs -> Fates]
    BY DEF IInv, TypeOK
  <1>2. phase' = [phase EXCEPT ![m] = "running"] /\ phase[m] = "pending"
    BY <1>1 DEF phase
  <1>3. Degraded' = Degraded
    BY <1>1 DEF Degraded, Refused
  <1>4. BoxOf[m] \notin Degraded => Box!IsNext(m)
    BY BoxOfType, PhaseOf DEF Degraded, Box!IsNext, Box!SameBox
  <1> QED
    BY <1>2, <1>3, <1>4 DEF Box!Begin, Degraded

LEMMA ProcessFirstBegins ==
    ASSUME IInv, NEW c \in Msgs, ProcessFirst(c)
    PROVE  Box!Begin(c)
  <1>1. /\ task[c] = "spawned" /\ fate' = [fate EXCEPT ![c] = "running"]
        /\ ticket' = ticket /\ accepted' = accepted /\ fate[c] = "queued"
    BY DEF ProcessFirst, StartTurn, historyVars, IInv, SlotInv, Spawning
  <1>2. ASSUME NEW n \in Msgs, ~Refused(BoxOf[c]), BoxOf[n] = BoxOf[c], fate[n] = "queued"
        PROVE  ticket[c] <= ticket[n]
    <2>0. ticket[c] \in Nat /\ ticket[n] \in Nat
      BY DEF IInv, TypeOK
    <2>1. CASE task[n] = "spawned"
      <3>1. n = c
        BY <1>1, <1>2, <2>1, OnlyConsumer DEF AliveStates, ReceiverStates
      <3> QED
        BY <3>1, <2>0
    <2>2. CASE task[n] # "spawned"
      <3>1. PICK d \in Msgs : \E i \in 1..Len(channel[d]) : channel[d][i] = n
        BY <1>2, <2>2 DEF IInv, SlotInv, QueuedHeld
      <3>2. PICK i \in 1..Len(channel[d]) : channel[d][i] = n
        BY <3>1
      <3>3. channel[d] # <<>> /\ BoxOf[n] = BoxOf[d]
        BY <3>2 DEF IInv, SlotInv, ChannelContent
      <3>4. task[d] \in ReceiverStates
        BY <3>3 DEF IInv, SlotInv, ChannelOpen
      <3>5. d = c
        BY <1>1, <1>2, <3>3, <3>4, OnlyConsumer DEF AliveStates, ReceiverStates
      <3>6. ticket[c] < ticket[n]
        BY <1>1, <3>2, <3>5 DEF IInv, OrderInv, TicketOrder
      <3> QED
        BY <3>6, <2>0
    <2> QED
      BY <2>1, <2>2
  <1>3. ASSUME NEW n \in Msgs, ~Refused(BoxOf[c]), BoxOf[n] = BoxOf[c]
        PROVE  fate[n] # "running"
    BY <1>1, <1>3, NothingRuns
  <1> QED
    BY <1>1, <1>2, <1>3, BeginStep

LEMMA ReceiveBegins ==
    ASSUME IInv, NEW c \in Msgs, Receive(c)
    PROVE  \E m \in Msgs : Box!Begin(m)
  <1>1. channel[c] \in Seq(Msgs) /\ channel[c] # <<>>
    BY DEF IInv, TypeOK, Receive
  <1>2. PICK m \in Msgs : m = channel[c][1] /\ m = Head(channel[c]) /\ 1 \in 1..Len(channel[c])
    BY <1>1, TailFacts
  <1>3. /\ task[c] = "waiting" /\ fate' = [fate EXCEPT ![m] = "running"]
        /\ ticket' = ticket /\ accepted' = accepted
    BY <1>2 DEF Receive, StartTurn, historyVars
  <1>4. fate[m] = "queued" /\ BoxOf[m] = BoxOf[c]
    BY <1>2 DEF IInv, SlotInv, ChannelContent
  <1>5. ASSUME NEW n \in Msgs, ~Refused(BoxOf[c]), BoxOf[n] = BoxOf[c], fate[n] = "queued"
        PROVE  ticket[m] <= ticket[n]
    <2>0. ticket[m] \in Nat /\ ticket[n] \in Nat
      BY DEF IInv, TypeOK
    <2>1. CASE task[n] = "spawned"
      BY <1>3, <1>5, <2>1, OnlyConsumer DEF AliveStates, ReceiverStates
    <2>2. CASE task[n] # "spawned"
      <3>1. PICK d \in Msgs : \E i \in 1..Len(channel[d]) : channel[d][i] = n
        BY <1>5, <2>2 DEF IInv, SlotInv, QueuedHeld
      <3>2. PICK i \in 1..Len(channel[d]) : channel[d][i] = n
        BY <3>1
      <3>3. channel[d] # <<>> /\ BoxOf[n] = BoxOf[d]
        BY <3>2 DEF IInv, SlotInv, ChannelContent
      <3>4. task[d] \in ReceiverStates
        BY <3>3 DEF IInv, SlotInv, ChannelOpen
      <3>5. d = c
        BY <1>3, <1>5, <3>3, <3>4, OnlyConsumer DEF AliveStates, ReceiverStates
      <3>6. CASE i = 1
        BY <3>2, <3>5, <3>6, <1>2, <2>0
      <3>7. CASE i # 1
        <4>1. 1 < i
          BY <3>7, <3>2, <3>5, <1>1
        <4>2. ticket[m] < ticket[n]
          BY <4>1, <3>2, <3>5, <1>2 DEF IInv, OrderInv, TicketOrder
        <4> QED
          BY <4>2, <2>0
      <3> QED
        BY <3>6, <3>7
    <2> QED
      BY <2>1, <2>2
  <1>6. ASSUME NEW n \in Msgs, ~Refused(BoxOf[c]), BoxOf[n] = BoxOf[c]
        PROVE  fate[n] # "running"
    BY <1>3, <1>6, NothingRuns
  <1>7. Box!Begin(m)
    BY <1>3, <1>4, <1>5, <1>6, BeginStep
  <1> QED
    BY <1>7

LEMMA FinishTurnEnds ==
    ASSUME IInv, NEW c \in Msgs, NEW result \in {"answered", "failed"}, FinishTurn(c, result)
    PROVE  \E m \in Msgs : Box!End(m)
  <1>1. PICK m \in Msgs : m = current[c] /\ fate[m] = "running"
    BY DEF FinishTurn, IInv, HandInv, InHand
  <1>2. /\ fate' = [fate EXCEPT ![m] = result] /\ fate \in [Msgs -> Fates]
        /\ ticket' = ticket /\ accepted' = accepted
    BY <1>1 DEF FinishTurn, IInv, TypeOK, historyVars
  <1>3. phase' = [phase EXCEPT ![m] = "over"] /\ phase[m] = "running"
    BY <1>1, <1>2 DEF phase
  <1>4. Degraded' = Degraded
    BY <1>1, <1>2 DEF Degraded, Refused
  <1> QED
    BY <1>2, <1>3, <1>4 DEF Box!End, Degraded

InChannel(c) == {m \in Msgs : \E i \in 1..Len(channel[c]) : channel[c][i] = m}

LEMMA DropStep ==
    ASSUME IInv, NEW c \in Msgs, NEW S \in SUBSET Msgs,
           \A m \in S : fate[m] \in {"queued", "running"} /\ BoxOf[m] = BoxOf[c],
           fate' \in [Msgs -> Fates],
           \A m \in S : fate'[m] \in {"stranded", "panicked"},
           \A m \in Msgs \ S : fate'[m] = fate[m],
           ticket' = ticket, accepted' = accepted
    PROVE  \E b \in Boxes : \E T \in SUBSET {m \in Msgs : BoxOf[m] = b} : Box!Drop(T)
  <1>1. fate \in [Msgs -> Fates] /\ BoxOf[c] \in Boxes
    BY BoxOfType DEF IInv, TypeOK
  <1>2. phase' = [m \in Msgs |-> IF m \in S THEN "over" ELSE phase[m]]
    BY DEF phase
  <1>3. Degraded' = Degraded
    BY <1>1 DEF Degraded, Refused
  <1>4. \A m \in S : phase[m] \in {"pending", "running"}
    BY PhaseOf
  <1>5. Box!Drop(S)
    BY <1>2, <1>3, <1>4 DEF Box!Drop, Degraded
  <1>6. S \in SUBSET {m \in Msgs : BoxOf[m] = BoxOf[c]}
    OBVIOUS
  <1> QED
    BY <1>1, <1>5, <1>6

LEMMA ReceiverLossDrops ==
    ASSUME IInv, TypeOK', NEW c \in Msgs, Panic(c) \/ DropReceiver(c)
    PROVE  \E b \in Boxes : \E T \in SUBSET {m \in Msgs : BoxOf[m] = b} : Box!Drop(T)
  <1>1. fate' \in [Msgs -> Fates] /\ ticket' = ticket /\ accepted' = accepted
    BY DEF TypeOK, Panic, DropReceiver, historyVars
  <1>2. \A m \in InChannel(c) : fate[m] = "queued" /\ BoxOf[m] = BoxOf[c]
    BY DEF InChannel, IInv, SlotInv, ChannelContent
  <1>3. CASE Panic(c)
    <2>1. PICK n \in Msgs : n = current[c] /\ fate[n] = "running" /\ BoxOf[n] = BoxOf[c]
      BY <1>3 DEF Panic, IInv, HandInv, InHand
    <2> DEFINE S == InChannel(c) \cup {n}
    <2>2. \A m \in S : fate'[m] \in {"stranded", "panicked"}
      BY <1>3, <2>1 DEF Panic, Strand, InChannel, IInv, TypeOK
    <2>3. \A m \in Msgs \ S : fate'[m] = fate[m]
      BY <1>3, <2>1 DEF Panic, Strand, InChannel, IInv, TypeOK
    <2>4. S \in SUBSET Msgs
      BY DEF InChannel
    <2>5. \A m \in S : fate[m] \in {"queued", "running"} /\ BoxOf[m] = BoxOf[c]
      BY <1>2, <2>1
    <2> HIDE DEF S
    <2> QED
      BY <1>1, <2>2, <2>3, <2>4, <2>5, DropStep
  <1>4. CASE DropReceiver(c)
    <2>1. \A m \in InChannel(c) : fate'[m] \in {"stranded", "panicked"}
      BY <1>4 DEF DropReceiver, Strand, InChannel
    <2>2. \A m \in Msgs \ InChannel(c) : fate'[m] = fate[m]
      BY <1>4 DEF DropReceiver, Strand, InChannel
    <2>3. InChannel(c) \in SUBSET Msgs
      BY DEF InChannel
    <2> QED
      BY <1>1, <1>2, <2>1, <2>2, <2>3, DropStep
  <1> QED
    BY <1>3, <1>4

LEMMA RefineNext == IInv /\ TypeOK' /\ [Next]_vars => [Box!Next]_(Box!vars)
  <1> SUFFICES ASSUME IInv, TypeOK', [Next]_vars PROVE Box!Next \/ UNCHANGED Box!vars
    OBVIOUS
  <1>1. ASSUME NEW m \in Msgs, Enqueue(m) PROVE Box!Next
    <2>1. CASE EnqueueClosed(m)
      BY <2>1, ClosedTurnsAway DEF Box!Next
    <2>2. CASE EnqueueSend(m) \/ EnqueueSpawn(m)
      <3>1. fate[m] = "new" /\ Accept(m)
        BY <2>2 DEF EnqueueSend, EnqueueSpawn, Offer
      <3> QED
        BY <3>1, AcceptPosts DEF Box!Next
    <2> QED
      BY <1>1, <2>1, <2>2 DEF Enqueue
  <1>2. ASSUME NEW c \in Msgs, ConsumerStep(c), fate' # fate PROVE Box!Next
    <2>1. CASE ProcessFirst(c)
      BY <2>1, ProcessFirstBegins DEF Box!Next
    <2>2. CASE Receive(c)
      BY <2>2, ReceiveBegins DEF Box!Next
    <2>3. ASSUME NEW result \in {"answered", "failed"}, FinishTurn(c, result)
          PROVE  Box!Next
      BY <2>3, FinishTurnEnds DEF Box!Next
    <2>4. CASE Panic(c) \/ DropReceiver(c)
      BY <2>4, ReceiverLossDrops DEF Box!Next
    <2>5. ~(IdleTimeout(c) \/ SendersGone(c) \/ Deregister(c))
      BY <1>2 DEF IdleTimeout, SendersGone, Deregister
    <2> QED
      BY <1>2, <2>1, <2>2, <2>3, <2>4, <2>5 DEF ConsumerStep
  <1>3. ASSUME fate' = fate, ticket' = ticket, accepted' = accepted
        PROVE  UNCHANGED Box!vars
    BY <1>3 DEF Box!vars, phase, Refused
  <1>4. ASSUME NEW c \in Msgs, ConsumerStep(c)
        PROVE  ticket' = ticket /\ accepted' = accepted
    BY <1>4 DEF ConsumerStep, ProcessFirst, Receive, FinishTurn, Panic, IdleTimeout,
                SendersGone, DropReceiver, Deregister, historyVars
  <1>5. CASE ExecuteReturns \/ UNCHANGED vars
    BY <1>3, <1>5 DEF ExecuteReturns, vars, historyVars
  <1> QED
    BY <1>1, <1>2, <1>3, <1>4, <1>5 DEF Next, Quiescent

(* The queues implement mailboxes: for every queue and chat that has never *)
(* refused a message, one turn at a time, in the order of arrival.         *)
THEOREM Refinement == Spec => ImplementsMailbox
  BY InductiveInvariant, TypeCorrect, RefineInit, RefineNext, PTL
     DEF Spec, ImplementsMailbox, Box!Spec
=============================================================================
