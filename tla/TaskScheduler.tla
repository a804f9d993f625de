---------------------------- MODULE TaskScheduler ----------------------------
(***************************************************************************)
(* Scheduled tasks: the rows of the scheduled_tasks table                  *)
(* (arcc-storage/src/db/queries.rs), the loop that polls it                *)
(* (arcc-server/src/scheduler.rs) and the tools with which turns of any    *)
(* chat create, pause and delete tasks (arcc-server/src/feishu/webhook.rs).*)
(*                                                                         *)
(* The loop lists the due tasks once per tick and then works through that  *)
(* list; every read or write of the table is one statement under the       *)
(* database lock, so other turns write between any two of them.  The table *)
(* survives a crash of the server, the list and the retry counters do not. *)
(* The executor is the one of ChatQueue; here it returns a verdict, freely *)
(* chosen, after some time.                                                *)
(***************************************************************************)
EXTENDS Naturals

CONSTANTS Tasks,        \* the ids of all tasks that may ever be created
          Cron,         \* those that recur; the others are one-shot
          MaxFailures,  \* MAX_CONSECUTIVE_FAILURES
          MaxFaults,    \* bound: how many crashes and failed writes happen
          None          \* no task

ASSUME TaskSchedulerAssumption ==
    /\ Cron \subseteq Tasks
    /\ MaxFailures \in Nat \ {0}
    /\ MaxFaults \in Nat
    /\ None \notin Tasks

VARIABLES
    status,     \* the status column; "unborn": never created, "deleted": row removed
    due,        \* whether next_run_at has passed
    batch,      \* tasks of the current list the loop has not come to yet
    hand,       \* the task the loop is executing or settling
    outcome,    \* what the executor returned for it, "none" while it runs
    retries,    \* retry_count, 0 for an absent entry
    faults,     \* crashes and failed writes so far
    succeeded,  \* history: one-shot tasks an execution of which has succeeded
    orphans     \* history: tasks whose row a crash or a failed write left "running"

vars == <<status, due, batch, hand, outcome, retries, faults, succeeded, orphans>>
loopVars == <<batch, hand, outcome, retries>>
historyVars == <<succeeded, orphans>>

Rows == {"pending", "running", "paused", "completed", "failed"}
Statuses == Rows \cup {"unborn", "deleted"}

TypeOK ==
    /\ status \in [Tasks -> Statuses]
    /\ due \in [Tasks -> BOOLEAN]
    /\ batch \in SUBSET Tasks
    /\ hand \in Tasks \cup {None}
    /\ outcome \in {"none", "ok", "failed"}
    /\ retries \in [Tasks -> 0..MaxFailures]
    /\ faults \in 0..MaxFaults
    /\ succeeded \in SUBSET (Tasks \ Cron)
    /\ orphans \in SUBSET Tasks

Init ==
    /\ status = [t \in Tasks |-> "unborn"]
    /\ due = [t \in Tasks |-> FALSE]
    /\ batch = {}
    /\ hand = None
    /\ outcome = "none"
    /\ retries = [t \in Tasks |-> 0]
    /\ faults = 0
    /\ succeeded = {}
    /\ orphans = {}
-----------------------------------------------------------------------------
(* The tools.  A turn of any chat calls them at any time, the turn of the  *)
(* task in hand included; a call whose statement fails changes nothing.    *)

(* Mutant: the write is an upsert. *)
Upsert(t, s) == [status EXCEPT ![t] = s]

(* UPDATE ... SET status = s WHERE id = t: no row, no effect, and no error. *)
Update(t, s) == [status EXCEPT ![t] = IF @ \in Rows THEN s ELSE @]

Schedule(t) ==
    /\ status[t] = "unborn"
    /\ status' = [status EXCEPT ![t] = "pending"]
    /\ \E now \in BOOLEAN : due' = [due EXCEPT ![t] = now]
    /\ UNCHANGED <<loopVars, faults, historyVars>>

(* pause_task does not look at the status the row has. *)
Pause(t) ==
    /\ status[t] \in Rows
    /\ status' = Update(t, "paused")
    /\ UNCHANGED <<due, loopVars, faults, historyVars>>

Delete(t) ==
    /\ status[t] \in Rows
    /\ status' = [status EXCEPT ![t] = "deleted"]
    /\ UNCHANGED <<due, loopVars, faults, historyVars>>

(* Time passes next_run_at. *)
Elapse(t) ==
    /\ status[t] \in Rows
    /\ ~due[t]
    /\ due' = [due EXCEPT ![t] = TRUE]
    /\ UNCHANGED <<status, loopVars, faults, historyVars>>
-----------------------------------------------------------------------------
(* The loop. *)

(* Mutant: rows found "running" are listed too, to recover from a crash. *)
DueOrRunning == {t \in Tasks : status[t] \in {"pending", "running"} /\ due[t]}

Due == {t \in Tasks : status[t] = "pending" /\ due[t]}

(* Mutant: one due task per tick, any. *)
TickTakesOne ==
    /\ batch = {} /\ hand = None
    /\ IF Due = {} THEN batch' = {} ELSE \E t \in Due : batch' = {t}
    /\ UNCHANGED <<status, due, hand, outcome, retries, faults, historyVars>>

(* A tick: list the due tasks (a failed query leaves the list empty).  They *)
(* are taken in any order: next_run_at is reduced to whether it has passed. *)
Tick ==
    /\ batch = {} /\ hand = None
    /\ batch' = Due
    /\ UNCHANGED <<status, due, hand, outcome, retries, faults, historyVars>>

(* Mark the next task of the list running and execute it, whatever has become *)
(* of its row since the list was made.                                        *)
Start(t) ==
    /\ hand = None /\ t \in batch
    /\ status' = Update(t, "running")
    /\ batch' = batch \ {t}
    /\ hand' = t
    /\ UNCHANGED <<due, outcome, retries, faults, historyVars>>

(* Marking it fails: the task is passed over. *)
MarkFails(t) ==
    /\ hand = None /\ t \in batch
    /\ faults < MaxFaults
    /\ faults' = faults + 1
    /\ batch' = batch \ {t}
    /\ UNCHANGED <<status, due, hand, outcome, retries, historyVars>>

ExecuteReturns(verdict) ==
    /\ hand # None /\ outcome = "none"
    /\ outcome' = verdict
    /\ succeeded' = IF verdict = "ok" /\ hand \notin Cron THEN succeeded \cup {hand}
                                                        ELSE succeeded
    /\ UNCHANGED <<status, due, batch, hand, retries, faults, orphans>>

(* The loop is done with the task in hand. *)
LetGo == hand' = None /\ outcome' = "none"

(* The write that settles the task in hand, which may fail and is then only logged. *)
Write(newStatus, newDue) ==
    \/ /\ status' = newStatus
       /\ due' = newDue
       /\ UNCHANGED <<faults, orphans>>
    \/ /\ faults < MaxFaults
       /\ faults' = faults + 1
       /\ orphans' = orphans \cup {t \in {hand} : status[t] = "running"}
       /\ UNCHANGED <<status, due>>

(* Mutants: one failure too many is allowed; a failed task is not put back. *)
SettleFailureLate ==
    /\ outcome = "failed"
    /\ LET fails == retries[hand] + 1 IN
       /\ retries' = [retries EXCEPT ![hand] = fails]
       /\ Write(Update(hand, IF fails > MaxFailures THEN "failed" ELSE "pending"), due)
    /\ LetGo
    /\ UNCHANGED <<batch, succeeded>>

SettleFailureForgets ==
    /\ outcome = "failed"
    /\ retries' = [retries EXCEPT ![hand] = @ + 1]
    /\ LetGo
    /\ UNCHANGED <<status, due, batch, faults, historyVars>>

(* The execution failed: another try at a later tick, or, once there have been *)
(* MaxFailures in a row, none.                                                 *)
SettleFailure ==
    /\ outcome = "failed"
    /\ LET fails == retries[hand] + 1 IN
       /\ retries' = [retries EXCEPT ![hand] = fails]
       /\ Write(Update(hand, IF fails >= MaxFailures THEN "failed" ELSE "pending"), due)
    /\ LetGo
    /\ UNCHANGED <<batch, succeeded>>

(* A one-shot task succeeded, or a recurring one has no future occurrence. *)
SettleDone ==
    /\ outcome = "ok"
    /\ retries' = [retries EXCEPT ![hand] = 0]
    /\ Write(Update(hand, "completed"), due)
    /\ LetGo
    /\ UNCHANGED <<batch, succeeded>>

(* A recurring task succeeded: back to pending, at its next occurrence. *)
SettleRecurring ==
    /\ outcome = "ok"
    /\ hand \in Cron
    /\ retries' = [retries EXCEPT ![hand] = 0]
    /\ Write(Update(hand, "pending"), [due EXCEPT ![hand] = FALSE])
    /\ LetGo
    /\ UNCHANGED <<batch, succeeded>>

(* The server dies and starts again.  Nothing looks at "running" rows on startup. *)
Crash ==
    /\ faults < MaxFaults
    /\ faults' = faults + 1
    /\ batch' = {}
    /\ hand' = None
    /\ outcome' = "none"
    /\ retries' = [t \in Tasks |-> 0]
    /\ orphans' = orphans \cup {t \in Tasks : t = hand /\ status[t] = "running"}
    /\ UNCHANGED <<status, due, succeeded>>

Tools(t) == Schedule(t) \/ Pause(t) \/ Delete(t) \/ Elapse(t)

LoopStep ==
    \/ Tick
    \/ \E t \in Tasks : Start(t) \/ MarkFails(t)
    \/ \E verdict \in {"ok", "failed"} : ExecuteReturns(verdict)
    \/ SettleFailure
    \/ SettleDone
    \/ SettleRecurring

Next == (\E t \in Tasks : Tools(t)) \/ LoopStep \/ Crash

(* The loop is polled whenever it is ready, and the executor always returns *)
(* (SchedulerNeverStuck of ChatQueue).                                      *)
Spec == Init /\ [][Next]_vars /\ WF_vars(LoopStep)
-----------------------------------------------------------------------------
Starts(t) == hand # t /\ hand' = t

(* A one-shot task that has succeeded is never executed again, whatever pauses, *)
(* lost writes and restarts come after: its reminder or command is not repeated. *)
OneShotSucceedsOnce ==
    [][\A t \in Tasks \ Cron : t \in succeeded => ~Starts(t)]_vars

(* No attempt is made at a task that has failed MaxFailures times in a row in *)
(* this run of the server.                                                    *)
GivesUp == [][\A t \in Tasks : Starts(t) => retries[t] < MaxFailures]_vars

(* A deleted task is gone: no later write brings its row back, and no later *)
(* list has it (a list made before may, and then it is executed once more). *)
DeletionIsFinal ==
    [][\A t \in Tasks : status[t] = "deleted" =>
          /\ status'[t] = "deleted"
          /\ t \in batch' => t \in batch]_vars

(* A row says "running" only of the task in hand, or because the server crashed *)
(* or a write failed while it was.                                              *)
RunningIsOwned ==
    \A t \in Tasks : status[t] = "running" => t = hand \/ t \in orphans

(* A task that is pending and due is taken up (or paused, or deleted): other *)
(* tasks, failing or recurring, do not keep the loop from it.                *)
DueTaskIsTaken ==
    \A t \in Tasks : t \in Due ~> status[t] # "pending"

(* What tools.rs:218 and queries.rs:376 say: a paused task is kept from running *)
(* (the scheduler will skip it).                                                *)
PausedTaskIsSkipped == [][\A t \in Tasks : status[t] = "paused" => ~Starts(t)]_vars
=============================================================================
