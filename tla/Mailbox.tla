------------------------------- MODULE Mailbox -------------------------------
(***************************************************************************)
(* What the per-chat message queue of the Feishu server promises, without  *)
(* its consumer tasks, channels and map.                                   *)
(*                                                                         *)
(* A message is posted to its mailbox, handled by at most one turn, and    *)
(* then over; it can also be over without a turn (lost).  A mailbox serves *)
(* its messages one at a time and in the order they were posted - unless   *)
(* it has once turned a message away at the door.  From then on it is      *)
(* `degraded' and nothing is said about the order of its turns.            *)
(***************************************************************************)
EXTENDS Naturals

CONSTANTS Msgs,    \* the messages
          Boxes,   \* the mailboxes
          BoxOf    \* the mailbox each message is addressed to

VARIABLES phase,    \* where a message is: "new", "pending", "running" or "over"
          ticket,   \* the order in which the messages of a mailbox were posted
          posted,   \* how many each mailbox has had
          degraded  \* the mailboxes that have turned a message away

vars == <<phase, ticket, posted, degraded>>

TypeOK ==
    /\ phase \in [Msgs -> {"new", "pending", "running", "over"}]
    /\ ticket \in [Msgs -> Nat]
    /\ posted \in [Boxes -> Nat]
    /\ degraded \in SUBSET Boxes

Init ==
    /\ phase = [m \in Msgs |-> "new"]
    /\ ticket = [m \in Msgs |-> 0]
    /\ posted = [b \in Boxes |-> 0]
    /\ degraded = {}
-----------------------------------------------------------------------------
SameBox(m) == {n \in Msgs : BoxOf[n] = BoxOf[m]}

(* m is the oldest message waiting in its mailbox, and no turn is running there. *)
IsNext(m) ==
    \A n \in SameBox(m) : /\ phase[n] # "running"
                          /\ phase[n] = "pending" => ticket[m] <= ticket[n]

Post(m) ==
    /\ phase[m] = "new"
    /\ phase' = [phase EXCEPT ![m] = "pending"]
    /\ ticket' = [ticket EXCEPT ![m] = posted[BoxOf[m]]]
    /\ posted' = [posted EXCEPT ![BoxOf[m]] = @ + 1]
    /\ UNCHANGED degraded

TurnAway(m) ==
    /\ phase[m] = "new"
    /\ phase' = [phase EXCEPT ![m] = "over"]
    /\ degraded' = degraded \cup {BoxOf[m]}
    /\ UNCHANGED <<ticket, posted>>

Begin(m) ==
    /\ phase[m] = "pending"
    /\ BoxOf[m] \notin degraded => IsNext(m)
    /\ phase' = [phase EXCEPT ![m] = "running"]
    /\ UNCHANGED <<ticket, posted, degraded>>

End(m) ==
    /\ phase[m] = "running"
    /\ phase' = [phase EXCEPT ![m] = "over"]
    /\ UNCHANGED <<ticket, posted, degraded>>

(* Messages waiting in one mailbox are lost, perhaps with the turn running there. *)
Drop(S) ==
    /\ \A m \in S : phase[m] \in {"pending", "running"}
    /\ phase' = [m \in Msgs |-> IF m \in S THEN "over" ELSE phase[m]]
    /\ UNCHANGED <<ticket, posted, degraded>>

Next ==
    \/ \E m \in Msgs : Post(m) \/ TurnAway(m) \/ Begin(m) \/ End(m)
    \/ \E b \in Boxes : \E S \in SUBSET {m \in Msgs : BoxOf[m] = b} : Drop(S)

Spec == Init /\ [][Next]_vars
=============================================================================
