------------------------- MODULE TaskSchedulerProofs -------------------------
(***************************************************************************)
(* Theorems about TaskScheduler, for any sets of tasks and any bounds.     *)
(***************************************************************************)
EXTENDS TaskScheduler, TLAPS

(* The strengthening of RunningIsOwned and of the action properties: what can *)
(* be listed, started or settled as a retry has not exhausted its attempts    *)
(* and, if it is one-shot, has not succeeded.                                 *)
CanRunAgain(t) == retries[t] < MaxFailures /\ t \notin succeeded

ListInv ==
    /\ hand \notin batch
    /\ hand = None => outcome = "none"
    /\ \A t \in batch : status[t] # "unborn" /\ CanRunAgain(t)
    /\ \A t \in Tasks : status[t] \in {"unborn", "pending"} => CanRunAgain(t)
    /\ hand # None => retries[hand] < MaxFailures /\ status[hand] \notin {"unborn", "pending"}
    /\ hand \in succeeded => outcome = "ok"

IInv == TypeOK /\ ListInv /\ RunningIsOwned

LEMMA IInvInit == Init => IInv
  BY TaskSchedulerAssumption DEF Init, IInv, TypeOK, ListInv, RunningIsOwned, CanRunAgain, Statuses, Rows

(* What a tool can do to a row, seen from the loop. *)
LEMMA UpdateFacts ==
    ASSUME TypeOK, NEW t \in Tasks, NEW s \in Rows
    PROVE  /\ Update(t, s) \in [Tasks -> Statuses]
           /\ Update(t, s)[t] = IF status[t] \in Rows THEN s ELSE status[t]
           /\ \A u \in Tasks : u # t => Update(t, s)[u] = status[u]
  BY DEF TypeOK, Update, Statuses

(* The settlement writes s in the row of the task in hand, or loses the write. *)
LEMMA SettleKeepsIInv ==
    ASSUME IInv, hand # None, outcome # "none", LetGo, UNCHANGED <<batch, succeeded>>,
           NEW s \in Rows \ {"running"}, NEW newDue \in [Tasks -> BOOLEAN],
           Write(Update(hand, s), newDue),
           NEW n \in 0..MaxFailures, retries' = [retries EXCEPT ![hand] = n],
           s = "pending" => n < MaxFailures /\ hand \notin succeeded
    PROVE  IInv'
  <1> USE TaskSchedulerAssumption
  <1>1. PICK h \in Tasks : h = hand
    BY DEF IInv, TypeOK
  <1>2. /\ retries' \in [Tasks -> 0..MaxFailures] /\ retries'[h] = n
        /\ \A t \in Tasks : t # h => retries'[t] = retries[t]
        /\ hand' = None /\ outcome' = "none" /\ batch' = batch /\ succeeded' = succeeded
    BY <1>1 DEF IInv, TypeOK, LetGo
  <1>3. h \notin batch /\ status[h] \notin {"unborn", "pending"}
    BY <1>1 DEF IInv, ListInv
  <1>4. CASE status' = Update(hand, s) /\ due' = newDue /\ UNCHANGED <<faults, orphans>>
    <2>1. /\ status' \in [Tasks -> Statuses]
          /\ status'[h] = IF status[h] \in Rows THEN s ELSE status[h]
          /\ \A t \in Tasks : t # h => status'[t] = status[t]
      BY <1>1, <1>4, UpdateFacts DEF IInv
    <2>2. TypeOK'
      BY <1>2, <1>4, <2>1 DEF IInv, TypeOK
    <2>3. ListInv'
      BY <1>1, <1>2, <1>3, <2>1 DEF IInv, TypeOK, ListInv, CanRunAgain, Rows
    <2>4. RunningIsOwned'
      BY <1>1, <1>3, <1>4, <2>1 DEF IInv, RunningIsOwned, Rows
    <2> QED
      BY <2>2, <2>3, <2>4 DEF IInv
  <1>5. CASE /\ faults < MaxFaults /\ faults' = faults + 1
             /\ orphans' = orphans \cup {t \in {hand} : status[t] = "running"}
             /\ UNCHANGED <<status, due>>
    <2>1. TypeOK'
      BY <1>1, <1>2, <1>5 DEF IInv, TypeOK
    <2>2. ListInv'
      BY <1>1, <1>2, <1>3, <1>5 DEF IInv, TypeOK, ListInv, CanRunAgain
    <2>3. RunningIsOwned'
      BY <1>1, <1>5 DEF IInv, RunningIsOwned
    <2> QED
      BY <2>1, <2>2, <2>3 DEF IInv
  <1> QED
    BY <1>4, <1>5 DEF Write

LEMMA IInvNext == IInv /\ [Next]_vars => IInv'
  <1> SUFFICES ASSUME IInv, [Next]_vars PROVE IInv'
    OBVIOUS
  <1> USE TaskSchedulerAssumption DEF loopVars, historyVars
  <1>0. TypeOK
    BY DEF IInv
  <1>1. ASSUME NEW t \in Tasks, Schedule(t) PROVE IInv'
    BY <1>1 DEF Schedule, IInv, TypeOK, ListInv, CanRunAgain, RunningIsOwned, Statuses, Rows
  <1>2. ASSUME NEW t \in Tasks, Pause(t) PROVE IInv'
    <2>1. /\ status' \in [Tasks -> Statuses] /\ status'[t] = "paused"
          /\ \A u \in Tasks : u # t => status'[u] = status[u]
      BY <1>0, <1>2, UpdateFacts DEF Pause, Rows
    <2> QED
      BY <1>2, <2>1 DEF Pause, IInv, TypeOK, ListInv, CanRunAgain, RunningIsOwned
  <1>3. ASSUME NEW t \in Tasks, Delete(t) PROVE IInv'
    BY <1>3 DEF Delete, IInv, TypeOK, ListInv, CanRunAgain, RunningIsOwned, Statuses
  <1>4. ASSUME NEW t \in Tasks, Elapse(t) PROVE IInv'
    BY <1>4 DEF Elapse, IInv, TypeOK, ListInv, CanRunAgain, RunningIsOwned
  <1>5. CASE Tick
    BY <1>5 DEF Tick, Due, IInv, TypeOK, ListInv, CanRunAgain, RunningIsOwned
  <1>6. ASSUME NEW t \in Tasks, Start(t) PROVE IInv'
    <2>1. /\ status' \in [Tasks -> Statuses]
          /\ status'[t] = IF status[t] \in Rows THEN "running" ELSE status[t]
          /\ \A u \in Tasks : u # t => status'[u] = status[u]
      BY <1>0, <1>6, UpdateFacts DEF Start, Rows
    <2>2. /\ status[t] # "unborn" /\ CanRunAgain(t) /\ hand = None /\ outcome = "none"
          /\ batch' = batch \ {t} /\ hand' = t
          /\ UNCHANGED <<due, outcome, retries, faults, succeeded, orphans>>
      BY <1>6 DEF Start, IInv, ListInv
    <2>3. TypeOK'
      BY <2>1, <2>2 DEF IInv, TypeOK
    <2>4. ListInv'
      BY <2>1, <2>2 DEF IInv, TypeOK, ListInv, CanRunAgain, Rows
    <2>5. RunningIsOwned'
      BY <2>1, <2>2 DEF IInv, RunningIsOwned
    <2> QED
      BY <2>3, <2>4, <2>5 DEF IInv
  <1>7. ASSUME NEW t \in Tasks, MarkFails(t) PROVE IInv'
    BY <1>7 DEF MarkFails, IInv, TypeOK, ListInv, CanRunAgain, RunningIsOwned
  <1>8. ASSUME NEW verdict \in {"ok", "failed"}, ExecuteReturns(verdict) PROVE IInv'
    BY <1>8 DEF ExecuteReturns, IInv, TypeOK, ListInv, CanRunAgain, RunningIsOwned
  <1>9. CASE SettleFailure
    <2>1. hand # None /\ hand \in Tasks /\ outcome = "failed" /\ hand \notin succeeded
      BY <1>9 DEF SettleFailure, IInv, TypeOK, ListInv
    <2>2. retries[hand] + 1 \in 0..MaxFailures
      BY <2>1 DEF IInv, TypeOK, ListInv
    <2>3. due \in [Tasks -> BOOLEAN]
      BY DEF IInv, TypeOK
    <2>4. CASE retries[hand] + 1 >= MaxFailures
      <3>1. "failed" \in Rows \ {"running"}
        BY DEF Rows
      <3>2. Write(Update(hand, "failed"), due)
        BY <1>9, <2>4 DEF SettleFailure
      <3> QED
        BY <1>9, <2>1, <2>2, <2>3, <3>1, <3>2, SettleKeepsIInv DEF SettleFailure
    <2>5. CASE ~(retries[hand] + 1 >= MaxFailures)
      <3>1. "pending" \in Rows \ {"running"}
        BY DEF Rows
      <3>2. Write(Update(hand, "pending"), due)
        BY <1>9, <2>5 DEF SettleFailure
      <3>3. retries[hand] + 1 < MaxFailures
        BY <2>2, <2>5
      <3> QED
        BY <1>9, <2>1, <2>2, <2>3, <3>1, <3>2, <3>3, SettleKeepsIInv DEF SettleFailure
    <2> QED
      BY <2>4, <2>5
  <1>10. CASE SettleDone
    <2>1. hand # None /\ due \in [Tasks -> BOOLEAN] /\ 0 \in 0..MaxFailures
      BY <1>10 DEF SettleDone, IInv, TypeOK, ListInv
    <2>2. "completed" \in Rows \ {"running"} /\ "completed" # "pending"
      BY DEF Rows
    <2> QED
      BY <1>10, <2>1, <2>2, SettleKeepsIInv DEF SettleDone
  <1>11. CASE SettleRecurring
    <2>1. /\ hand # None /\ hand \notin succeeded /\ 0 \in 0..MaxFailures
          /\ [due EXCEPT ![hand] = FALSE] \in [Tasks -> BOOLEAN]
      BY <1>11 DEF SettleRecurring, IInv, TypeOK, ListInv
    <2>2. "pending" \in Rows \ {"running"} /\ 0 < MaxFailures
      BY DEF Rows
    <2> QED
      BY <1>11, <2>1, <2>2, SettleKeepsIInv DEF SettleRecurring
  <1>12. CASE Crash
    <2>1. TypeOK'
      BY <1>12 DEF Crash, IInv, TypeOK
    <2>2. ListInv'
      BY <1>12 DEF Crash, IInv, TypeOK, ListInv, CanRunAgain
    <2>3. RunningIsOwned'
      BY <1>12 DEF Crash, IInv, RunningIsOwned
    <2> QED
      BY <2>1, <2>2, <2>3 DEF IInv
  <1>13. CASE UNCHANGED vars
    BY <1>13 DEF vars, IInv, TypeOK, ListInv, CanRunAgain, RunningIsOwned
  <1> QED
    BY <1>1, <1>2, <1>3, <1>4, <1>5, <1>6, <1>7, <1>8, <1>9, <1>10, <1>11, <1>12, <1>13
       DEF Next, Tools, LoopStep

(* In every reachable state what is listed or taken up may still run (its  *)
(* attempts are not exhausted, and no one-shot task that has succeeded is  *)
(* among it), and a row that says "running" is of the task in hand.        *)
THEOREM InductiveInvariant == Spec => []IInv
  BY IInvInit, IInvNext, PTL DEF Spec

(* Every variable of the scheduler keeps its type; retry_count stays in bounds. *)
THEOREM TypeCorrect == Spec => []TypeOK
  BY InductiveInvariant, PTL DEF IInv

(* A row left "running" is the one in hand, or the trace of a crash or lost write. *)
THEOREM RunningOwned == Spec => []RunningIsOwned
  BY InductiveInvariant, PTL DEF IInv

(* Only Start puts a task in the loop's hand, and only one from the list. *)
LEMMA StartsFromList ==
    ASSUME TypeOK, [Next]_vars, NEW t \in Tasks, Starts(t)
    PROVE  t \in batch
  BY TaskSchedulerAssumption
     DEF Starts, Next, Tools, LoopStep, Schedule, Pause, Delete, Elapse, Tick, Start, MarkFails,
         ExecuteReturns, SettleFailure, SettleDone, SettleRecurring, LetGo, Crash, loopVars, vars

(* A one-shot task that has succeeded is never executed again (the settlement *)
(* and list_due_tasks together).                                              *)
THEOREM NoRepeat == Spec => OneShotSucceedsOnce
  <1>1. IInv /\ [Next]_vars => [\A t \in Tasks \ Cron : t \in succeeded => ~Starts(t)]_vars
    BY StartsFromList DEF IInv, ListInv, CanRunAgain
  <1> QED
    BY <1>1, InductiveInvariant, PTL DEF Spec, OneShotSucceedsOnce

(* MAX_CONSECUTIVE_FAILURES failures in one run of the server are the last. *)
THEOREM GivesUpForGood == Spec => GivesUp
  <1>1. IInv /\ [Next]_vars => [\A t \in Tasks : Starts(t) => retries[t] < MaxFailures]_vars
    BY StartsFromList DEF IInv, ListInv, CanRunAgain
  <1> QED
    BY <1>1, InductiveInvariant, PTL DEF Spec, GivesUp

(* A deleted task never comes back, whatever the loop still writes about it. *)
THEOREM DeletedForGood == Spec => DeletionIsFinal
  <1>1. ASSUME IInv, [Next]_vars, NEW t \in Tasks, status[t] = "deleted"
        PROVE  /\ status'[t] = "deleted"
               /\ t \in batch' => t \in batch
    <2>1. ASSUME NEW u \in Tasks, NEW s \in Rows
          PROVE  Update(u, s)[t] = "deleted"
      BY <1>1 DEF Update, IInv, TypeOK, Rows
    <2>2. ASSUME NEW u \in Tasks, Tools(u)
          PROVE  status'[t] = "deleted" /\ batch' = batch
      BY <1>1, <2>1, <2>2
         DEF Tools, Schedule, Pause, Delete, Elapse, loopVars, IInv, TypeOK, Rows
    <2>3. CASE Tick
      BY <1>1, <2>3 DEF Tick, Due
    <2>4. ASSUME NEW u \in Tasks, Start(u) \/ MarkFails(u)
          PROVE  status'[t] = "deleted" /\ batch' \subseteq batch
      BY <1>1, <2>1, <2>4 DEF Start, MarkFails, Rows
    <2>5. ASSUME NEW s \in Rows, NEW newDue, hand \in Tasks, Write(Update(hand, s), newDue)
          PROVE  status'[t] = "deleted"
      BY <1>1, <2>1, <2>5 DEF Write
    <2>6. CASE SettleFailure \/ SettleDone \/ SettleRecurring
      <3>1. hand \in Tasks /\ batch' = batch
        BY <1>1, <2>6 DEF SettleFailure, SettleDone, SettleRecurring, IInv, TypeOK, ListInv
      <3> QED
        BY <2>5, <2>6, <3>1 DEF SettleFailure, SettleDone, SettleRecurring, Rows
    <2>7. CASE Crash \/ UNCHANGED vars \/ \E v \in {"ok", "failed"} : ExecuteReturns(v)
      BY <1>1, <2>7 DEF Crash, vars, ExecuteReturns
    <2> QED
      BY <1>1, <2>2, <2>3, <2>4, <2>6, <2>7 DEF Next, LoopStep
  <1>2. IInv /\ [Next]_vars => [\A t \in Tasks : status[t] = "deleted" =>
                                   /\ status'[t] = "deleted"
                                   /\ t \in batch' => t \in batch]_vars
    BY <1>1
  <1> QED
    BY <1>2, InductiveInvariant, PTL DEF Spec, DeletionIsFinal
=============================================================================
