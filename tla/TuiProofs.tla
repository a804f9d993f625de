------------------------------ MODULE TuiProofs ------------------------------
(***************************************************************************)
(* Theorems about Tui, for any number of keys, any lines and any answers.  *)
(***************************************************************************)
EXTENDS Tui, HistoryProofs

Ids == Seq(Nat)
Msgs == Messages(Ids)
Kinds == {"safe", "risky", "sudo", "root", "look", "desk", "unknown"}
Words == {"none", "nothing", "y", "a", "n", "text", "exit"}
TaskRecs == [kind : {"none", "turn", "init"},
             place : Waits \cup {"persist", "calls", "writing", "done"},
             aborted : BOOLEAN, left : Seq(Kinds \X Nat), sent : Nat, round : Nat,
             tools : BOOLEAN, desk : BOOLEAN, shot : BOOLEAN, asks : Nat, answer : Words]

Typing ==
    /\ tasks \in [Tasks -> TaskRecs]
    /\ history \in Seq(Msgs)
    /\ said \in [Tasks -> Words]
    /\ allowed \subseteq Listed /\ trusted \in BOOLEAN

(* The call that a turn asks about or runs is there. *)
LeftInv ==
    \A t \in Tasks :
        /\ tasks[t].place \in {"running", "terminal"} => tasks[t].kind = "turn"
        /\ tasks[t].kind = "turn" /\ tasks[t].place \in {"asked", "running", "terminal"} =>
              tasks[t].left # <<>>

(* A turn that runs, and has not been aborted, is the one in the handle. *)
HandleInv ==
    \A t \in Tasks : tasks[t].kind = "turn" /\ Live(t) => handle = t

(* The answer a task is about to read is the user's own. *)
SaidInv ==
    \A t \in Tasks :
        tasks[t].place = "asked" /\ tasks[t].answer \notin {"none", "nothing"} =>
            said[t] = tasks[t].answer

IInv == Typing /\ LeftInv /\ HandleInv /\ SaidInv /\ RunsOnlyWithConsent

(* A call of kind k may run, given what is approved and what the user said. *)
MayRun(k, approved, trust, word) ==
    /\ k \in Listed => SkipPermissions \/ k \in approved \/ word \notin {"none", "nothing", "n"}
    /\ k = "desk" => ~RequireConfirmation \/ trust \/ word \in {"y", "a"}

(* What every step but a submission keeps. *)
Kept ==
    /\ \A u \in Tasks : tasks'[u].kind = tasks[u].kind
    /\ enabled' = enabled
    /\ Len(history') >= Len(history)
-----------------------------------------------------------------------------
(* Messages, and the histories made of them. *)

LEMMA MessageTypes ==
    /\ \A id \in Ids : Result(id) \in Msgs
    /\ \A calls \in Seq(Ids) : Assistant(calls) \in Msgs
    /\ User \in Msgs /\ Screenshot \in Msgs
  <1>1. <<>> \in Ids /\ <<>> \in Seq(Ids)
    BY DEF Ids
  <1> HIDE DEF Ids
  <1>2. \A role \in Roles, calls \in Seq(Ids), id \in Ids : Message(role, calls, id) \in Msgs
    BY DEF Msgs, Messages, Message
  <1>3. \A id \in Ids : Result(id) \in Msgs
    BY <1>1, <1>2 DEF Result, Roles
  <1>4. \A calls \in Seq(Ids) : Assistant(calls) \in Msgs
    BY <1>1, <1>2 DEF Assistant, Roles
  <1>5. User \in Msgs
    BY <1>1, <1>2 DEF User, Roles
  <1>6. Screenshot \in Msgs
    BY <1>5 DEF Screenshot, Msgs, Messages
  <1> QED
    BY <1>3, <1>4, <1>5, <1>6

LEMMA PruneType ==
    ASSUME NEW ms \in Seq(Msgs), NEW keep
    PROVE  prune_images(ms, keep) \in Seq(Msgs) /\ Len(prune_images(ms, keep)) = Len(ms)
  <1>1. Len(ms) \in Nat /\ DOMAIN ms = 1..Len(ms) /\ \A i \in 1..Len(ms) : ms[i] \in Msgs
    OBVIOUS
  <1>2. \A i \in 1..Len(ms) : [ms[i] EXCEPT !.image = FALSE] \in Msgs
    BY <1>1 DEF Msgs, Messages
  <1> DEFINE kept(i) == Cardinality({j \in Images(ms) : j > i}) < keep
             pruned == [i \in 1..Len(ms) |->
                           IF kept(i) THEN ms[i] ELSE [ms[i] EXCEPT !.image = FALSE]]
  <1>3. prune_images(ms, keep) = pruned
    BY <1>1 DEF prune_images
  <1> HIDE DEF kept
  <1>4. pruned \in [1..Len(ms) -> Msgs]
    BY <1>1, <1>2
  <1> HIDE DEF pruned
  <1>5. pruned \in Seq(Msgs) /\ Len(pruned) = Len(ms)
    BY <1>1, <1>4
  <1> QED
    BY <1>3, <1>5

(* A task whose answer has been set. *)
LEMMA AnswerSet ==
    ASSUME NEW r \in TaskRecs, NEW answer \in Words
    PROVE  LET new == [r EXCEPT !.answer = answer] IN
           /\ new \in TaskRecs /\ new.answer = answer
           /\ new.kind = r.kind /\ new.place = r.place /\ new.left = r.left
           /\ new.aborted = r.aborted
  BY DEF TaskRecs

(* Told changes at most the answer of a task that waits for one. *)
LEMMA ToldEffect ==
    ASSUME Typing, NEW p, NEW answer \in Words
    PROVE  /\ Told(p, answer) \in [Tasks -> TaskRecs]
           /\ \A u \in Tasks :
                 \/ Told(p, answer)[u] = tasks[u]
                 \/ /\ u = p[1] /\ tasks[u].place = "asked" /\ tasks[u].answer = "none"
                    /\ Told(p, answer)[u] = [tasks[u] EXCEPT !.answer = answer]
  <1>1. tasks \in [Tasks -> TaskRecs]
    BY DEF Typing
  <1>2. \A u \in Tasks : [tasks[u] EXCEPT !.answer = answer] \in TaskRecs
    BY <1>1, AnswerSet
  <1> QED
    BY <1>1, <1>2 DEF Told

LEMMA WordType == \A line : Word(line) \in Words \ {"none", "exit"}
  BY DEF Word, Words
-----------------------------------------------------------------------------
(* A step that changes at most the answers of tasks that wait for one. *)
LEMMA AnswersGiven ==
    ASSUME IInv, NEW answer \in Words, tasks' \in [Tasks -> TaskRecs], said' \in [Tasks -> Words],
           handle' = handle, UNCHANGED <<history, flags>>,
           \A u \in Tasks :
              \/ tasks'[u] = tasks[u] /\ said'[u] = said[u]
              \/ /\ tasks[u].place = "asked" /\ tasks[u].answer = "none"
                 /\ tasks'[u] = [tasks[u] EXCEPT !.answer = answer]
                 /\ answer # "nothing" => said'[u] = answer
    PROVE  IInv' /\ Kept
  <1>1. \A u \in Tasks : /\ tasks'[u].kind = tasks[u].kind /\ tasks'[u].place = tasks[u].place
                         /\ tasks'[u].left = tasks[u].left /\ tasks'[u].aborted = tasks[u].aborted
                         /\ \/ tasks'[u].answer = tasks[u].answer /\ said'[u] = said[u]
                            \/ /\ tasks[u].place = "asked" /\ tasks'[u].answer = answer
                               /\ answer # "nothing" => said'[u] = answer
    BY DEF IInv, Typing, TaskRecs
  <1>2. Typing'
    BY DEF IInv, Typing, flags
  <1>3. LeftInv'
    BY <1>1 DEF IInv, LeftInv
  <1>4. HandleInv'
    BY <1>1 DEF IInv, HandleInv, Live, Finished
  <1>5. SaidInv'
    BY <1>1 DEF IInv, SaidInv
  <1>6. RunsOnlyWithConsent'
    BY <1>1 DEF IInv, RunsOnlyWithConsent, Live, Finished, Current, flags
  <1>7. Len(history) \in Nat
    BY DEF IInv, Typing
  <1> QED
    BY <1>1, <1>2, <1>3, <1>4, <1>5, <1>6, <1>7 DEF IInv, Kept, flags

LEMMA LoopAnswers ==
    ASSUME IInv,
           EnterAnswers \/ HandlePrompt \/ HandlePromptExpired \/ HandleStreamDone \/ HandleInteractive
    PROVE  IInv' /\ Kept
  <1> USE DEF IInv
  <1>1. "nothing" \in Words /\ "exit" \in Words
    BY DEF Words
  <1>2. CASE HandlePrompt \/ HandlePromptExpired \/ HandleStreamDone
    <2>1. tasks' = Told(pending, "nothing") /\ UNCHANGED <<handle, history, flags, said>>
      BY <1>2 DEF HandlePrompt, HandlePromptExpired, HandleStreamDone
    <2>2. said' \in [Tasks -> Words]
      BY <2>1 DEF Typing
    <2>3. /\ tasks' \in [Tasks -> TaskRecs]
          /\ \A u \in Tasks :
                \/ tasks'[u] = tasks[u]
                \/ /\ tasks[u].place = "asked" /\ tasks[u].answer = "none"
                   /\ tasks'[u] = [tasks[u] EXCEPT !.answer = "nothing"]
      BY <1>1, <2>1, ToldEffect
    <2>4. UNCHANGED <<history, flags>> /\ handle' = handle /\ said' = said
      BY <2>1
    <2> QED
      BY <1>1, <2>2, <2>3, <2>4, AnswersGiven
  <1>3. CASE EnterAnswers
    <2> DEFINE word == Word(buffer)
    <2>1. /\ tasks' = Told(pending, word) /\ UNCHANGED <<handle, history, flags>>
          /\ said' = IF tasks' = tasks THEN said
                     ELSE [said EXCEPT ![pending[1]] = tasks'[pending[1]].answer]
      BY <1>3 DEF EnterAnswers
    <2>2. word \in Words \ {"none", "exit"}
      BY WordType
    <2> HIDE DEF word
    <2>3. tasks' \in [Tasks -> TaskRecs]
      BY <2>1, <2>2, ToldEffect
    <2>4. \A u \in Tasks : tasks'[u].answer \in Words
      BY <2>3 DEF TaskRecs
    <2>5. said' \in [Tasks -> Words]
      BY <2>1, <2>4 DEF Typing
    <2>6. ASSUME NEW u \in Tasks
          PROVE  \/ tasks'[u] = tasks[u] /\ said'[u] = said[u]
                 \/ /\ tasks[u].place = "asked" /\ tasks[u].answer = "none"
                    /\ tasks'[u] = [tasks[u] EXCEPT !.answer = word]
                    /\ word # "nothing" => said'[u] = word
      <3>1. CASE /\ u = pending[1] /\ tasks[u].place = "asked" /\ tasks[u].answer = "none"
                 /\ tasks'[u] = [tasks[u] EXCEPT !.answer = word]
        <4>1. tasks'[u].answer = word
          BY <3>1 DEF Typing, TaskRecs
        <4>2. tasks' # tasks
          BY <2>2, <3>1, <4>1
        <4>3. said'[u] = word
          BY <2>1, <3>1, <4>1, <4>2 DEF Typing
        <4> QED
          BY <3>1, <4>3
      <3>2. CASE tasks'[u] = tasks[u] /\ u # pending[1]
        BY <2>1, <3>2 DEF Typing
      <3>3. CASE tasks'[u] = tasks[u] /\ u = pending[1]
        <4>1. \A v \in Tasks : tasks'[v] = tasks[v]
          <5> SUFFICES ASSUME NEW v \in Tasks PROVE tasks'[v] = tasks[v]
            OBVIOUS
          <5>1. CASE v = u
            BY <3>3, <5>1
          <5>2. CASE v # u
            <6>1. v # pending[1]
              BY <3>3, <5>2
            <6> QED
              BY <2>1, <2>2, <6>1, ToldEffect
          <5> QED
            BY <5>1, <5>2
        <4>2. tasks' = tasks
          BY <2>3, <4>1 DEF Typing
        <4> QED
          BY <2>1, <3>3, <4>2
      <3> QED
        BY <2>1, <2>2, <3>1, <3>2, <3>3, ToldEffect
    <2> QED
      BY <2>1, <2>2, <2>3, <2>5, <2>6, AnswersGiven
  <1>4. CASE HandleInteractive
    <2>1. /\ UNCHANGED <<handle, history, flags, said>>
          /\ \/ tasks' = tasks
             \/ /\ tasks[events[1][2]].place = "terminal"
                /\ tasks' = [tasks EXCEPT ![events[1][2]].answer = "exit"]
      BY <1>4 DEF HandleInteractive, appVars
    <2>2. tasks' \in [Tasks -> TaskRecs]
      BY <1>1, <2>1, AnswerSet DEF Typing
    <2>3. \A u \in Tasks :
             /\ tasks'[u].kind = tasks[u].kind /\ tasks'[u].place = tasks[u].place
             /\ tasks'[u].left = tasks[u].left /\ tasks'[u].aborted = tasks[u].aborted
             /\ tasks[u].place = "asked" => tasks'[u].answer = tasks[u].answer
      <3> SUFFICES ASSUME NEW u \in Tasks
                   PROVE  /\ tasks'[u].kind = tasks[u].kind /\ tasks'[u].place = tasks[u].place
                          /\ tasks'[u].left = tasks[u].left /\ tasks'[u].aborted = tasks[u].aborted
                          /\ tasks[u].place = "asked" => tasks'[u].answer = tasks[u].answer
        OBVIOUS
      <3>1. tasks[u] \in TaskRecs
        BY DEF Typing
      <3>2. CASE tasks'[u] = tasks[u]
        BY <3>2
      <3>3. CASE tasks'[u] = [tasks[u] EXCEPT !.answer = "exit"] /\ tasks[u].place = "terminal"
        BY <1>1, <3>1, <3>3, AnswerSet
      <3> QED
        BY <2>1, <3>2, <3>3 DEF Typing
    <2>4. Typing' /\ LeftInv' /\ HandleInv' /\ SaidInv'
      BY <2>1, <2>2, <2>3 DEF Typing, LeftInv, HandleInv, SaidInv, Live, Finished, flags
    <2>5. RunsOnlyWithConsent'
      BY <2>1, <2>3 DEF RunsOnlyWithConsent, Live, Finished, Current, flags
    <2>6. Len(history) \in Nat
      BY DEF Typing
    <2> QED
      BY <2>1, <2>3, <2>4, <2>5, <2>6 DEF Kept, flags
  <1> QED
    BY <1>2, <1>3, <1>4

LEMMA LoopLeavesTasks ==
    ASSUME IInv, UNCHANGED <<tasks, handle, history, flags, said>>
    PROVE  IInv' /\ Kept
  <1>1. Typing' /\ LeftInv' /\ HandleInv' /\ SaidInv'
    BY DEF IInv, Typing, LeftInv, HandleInv, SaidInv, Live, Finished, flags
  <1>2. RunsOnlyWithConsent'
    BY DEF IInv, RunsOnlyWithConsent, Live, Finished, Current, flags
  <1>3. Len(history) \in Nat
    BY DEF IInv, Typing
  <1> QED
    BY <1>1, <1>2, <1>3 DEF IInv, Kept, flags

(* An abort changes nothing but the flag of one task. *)
LEMMA AbortEffect ==
    ASSUME Typing, NEW t
    PROVE  LET new == Aborted(tasks, t) IN
           /\ new \in [Tasks -> TaskRecs]
           /\ \A u \in Tasks :
                 /\ new[u].kind = tasks[u].kind /\ new[u].place = tasks[u].place
                 /\ new[u].left = tasks[u].left /\ new[u].answer = tasks[u].answer
                 /\ tasks[u].aborted => new[u].aborted
                 /\ u = t /\ t # 0 /\ tasks[u].place # "done" => new[u].aborted
  <1>1. \A r \in TaskRecs :
           LET dead == [r EXCEPT !.aborted = TRUE] IN
           /\ dead \in TaskRecs /\ dead.aborted
           /\ dead.kind = r.kind /\ dead.place = r.place /\ dead.left = r.left
           /\ dead.answer = r.answer
    BY DEF TaskRecs
  <1>2. tasks \in [Tasks -> TaskRecs]
    BY DEF Typing
  <1> QED
    BY <1>1, <1>2 DEF Aborted

LEMMA LoopEsc ==
    ASSUME IInv, HandleEsc
    PROVE  IInv' /\ Kept
  <1>1. UNCHANGED <<history, flags, said>>
    BY DEF HandleEsc
  <1>2. CASE status = Idle
    BY <1>1, <1>2, LoopLeavesTasks DEF HandleEsc
  <1>3. CASE status # Idle
    <2>1. tasks' = Aborted(tasks, handle) /\ handle' = 0 /\ Typing
      BY <1>3 DEF HandleEsc, IInv
    <2>2. /\ tasks' \in [Tasks -> TaskRecs]
          /\ \A u \in Tasks :
                 /\ tasks'[u].kind = tasks[u].kind /\ tasks'[u].place = tasks[u].place
                 /\ tasks'[u].left = tasks[u].left /\ tasks'[u].answer = tasks[u].answer
                 /\ tasks[u].aborted => tasks'[u].aborted
                 /\ u = handle /\ handle # 0 /\ tasks[u].place # "done" => tasks'[u].aborted
      BY <2>1, AbortEffect
    <2>3. \A u \in Tasks : u # 0
      BY DEF Tasks
    <2>4. \A u \in Tasks : tasks[u].kind = "turn" => ~Live(u)'
      BY <2>2, <2>3 DEF IInv, HandleInv, Live, Finished
    <2>5. Typing' /\ LeftInv' /\ HandleInv' /\ SaidInv'
      BY <1>1, <2>2, <2>4 DEF IInv, Typing, LeftInv, HandleInv, SaidInv, flags
    <2>6. RunsOnlyWithConsent'
      BY <2>2, <2>4 DEF IInv, LeftInv, RunsOnlyWithConsent
    <2>7. Len(history) \in Nat
      BY DEF IInv, Typing
    <2> QED
      BY <1>1, <2>2, <2>5, <2>6, <2>7 DEF IInv, Kept, flags
  <1> QED
    BY <1>2, <1>3

(* No line is submitted while a turn runs, whatever the status says. *)
LEMMA SubmitsAlone ==
    ASSUME IInv, MaySubmit
    PROVE  \A t \in Tasks : tasks[t].kind = "turn" => ~Live(t)
  <1>1. \A t \in Tasks : t # 0
    BY DEF Tasks
  <1> QED
    BY <1>1 DEF IInv, HandleInv, MaySubmit, Live, Finished

LEMMA UnusedType ==
    /\ Unused \in TaskRecs
    /\ \A k \in {"none", "turn", "init"} : [Unused EXCEPT !.kind = k] \in TaskRecs
    /\ \A desk \in BOOLEAN :
          [Unused EXCEPT !.kind = "turn", !.place = "request", !.tools = TRUE, !.desk = desk] \in TaskRecs
    /\ \A n \in Nat, place \in {"asked", "starting"} :
          [Unused EXCEPT !.kind = "init", !.asks = n, !.place = place] \in TaskRecs
  <1>1. <<>> \in Seq(Kinds \X Nat)
    OBVIOUS
  <1> QED
    BY <1>1 DEF Unused, TaskRecs, Words, Waits

(* A line that starts no turn. *)
LEMMA SubmitKeeps ==
    ASSUME IInv, MaySubmit, history' \in Seq(Msgs), allowed' \subseteq Listed, trusted' \in BOOLEAN,
           said' = said, tasks' = AfterAbort
    PROVE  IInv'
  <1>1. \A t \in Tasks : tasks[t].kind = "turn" => ~Live(t)
    BY SubmitsAlone
  <1>2. /\ tasks' \in [Tasks -> TaskRecs]
        /\ \A u \in Tasks :
               /\ tasks'[u].kind = tasks[u].kind /\ tasks'[u].place = tasks[u].place
               /\ tasks'[u].left = tasks[u].left /\ tasks'[u].answer = tasks[u].answer
               /\ tasks[u].aborted => tasks'[u].aborted
    BY AbortEffect DEF AfterAbort, IInv
  <1>3. \A u \in Tasks : tasks[u].kind = "turn" => ~Live(u)'
    BY <1>1, <1>2 DEF Live, Finished
  <1>4. Typing'
    BY <1>2 DEF IInv, Typing
  <1>5. LeftInv'
    BY <1>2 DEF IInv, LeftInv
  <1>6. HandleInv'
    BY <1>2, <1>3 DEF HandleInv
  <1>7. SaidInv'
    BY <1>2 DEF IInv, SaidInv
  <1>8. RunsOnlyWithConsent'
    BY <1>2, <1>3 DEF IInv, LeftInv, RunsOnlyWithConsent
  <1> QED
    BY <1>4, <1>5, <1>6, <1>7, <1>8 DEF IInv

(* A line that starts a task. *)
LEMMA SubmitStarts ==
    ASSUME IInv, MaySubmit, history' \in Seq(Msgs), UNCHANGED <<flags, said>>,
           NEW new \in TaskRecs, tasks' = [AfterAbort EXCEPT ![Fresh] = new],
           new.kind = "turn" => handle' = Fresh,
           new.place \in {"request", "asked", "starting"}, new.answer = "none",
           new.place = "asked" => new.kind = "init"
    PROVE  IInv'
  <1>1. \A t \in Tasks : tasks[t].kind = "turn" => ~Live(t)
    BY SubmitsAlone
  <1>2. /\ AfterAbort \in [Tasks -> TaskRecs]
        /\ \A u \in Tasks :
               /\ AfterAbort[u].kind = tasks[u].kind /\ AfterAbort[u].place = tasks[u].place
               /\ AfterAbort[u].left = tasks[u].left /\ AfterAbort[u].answer = tasks[u].answer
               /\ tasks[u].aborted => AfterAbort[u].aborted
    BY AbortEffect DEF AfterAbort, IInv
  <1>3. /\ tasks' \in [Tasks -> TaskRecs]
        /\ \A u \in Tasks : IF u = Fresh THEN tasks'[u] = new ELSE tasks'[u] = AfterAbort[u]
    BY <1>2
  <1> HIDE DEF AfterAbort, Fresh
  <1>4. \A u \in Tasks : u # Fresh /\ tasks[u].kind = "turn" => ~Live(u)'
    BY <1>1, <1>2, <1>3 DEF Live, Finished
  <1>5. Typing'
    BY <1>3 DEF IInv, Typing, flags
  <1>6. LeftInv'
    BY <1>2, <1>3 DEF IInv, LeftInv
  <1>7. HandleInv'
    BY <1>2, <1>3, <1>4 DEF HandleInv
  <1>8. SaidInv'
    BY <1>2, <1>3 DEF IInv, SaidInv
  <1>9. RunsOnlyWithConsent'
    BY <1>2, <1>3, <1>4 DEF IInv, LeftInv, RunsOnlyWithConsent
  <1> QED
    BY <1>5, <1>6, <1>7, <1>8, <1>9 DEF IInv

Submission == \/ SubmitNothing \/ SubmitPrompt \/ SubmitPlan \/ SubmitClear \/ SubmitComputer
              \/ \E exists \in AgentsFile : SubmitInit(exists)

LEMMA LoopSubmits ==
    ASSUME IInv, Submission
    PROVE  MaySubmit /\ IInv'
  <1>1. MaySubmit /\ said' = said
    BY DEF Submission, SubmitNothing, SubmitPrompt, SubmitPlan, SubmitClear, SubmitComputer, SubmitInit,
           Submits
  <1>2. history \in Seq(Msgs) /\ allowed \subseteq Listed /\ trusted \in BOOLEAN
    BY DEF IInv, Typing
  <1>3. CASE SubmitNothing
    BY <1>1, <1>2, <1>3, SubmitKeeps DEF SubmitNothing, flags
  <1>4. CASE SubmitClear
    <2>1. <<>> \in Seq(Msgs)
      OBVIOUS
    <2> QED
      BY <1>1, <1>2, <1>4, <2>1, SubmitKeeps DEF SubmitClear
  <1>5. CASE SubmitComputer
    <2>1. history' \in Seq(Msgs)
      BY <1>2, <1>5, PruneType DEF SubmitComputer
    <2> QED
      BY <1>1, <1>2, <1>5, <2>1, SubmitKeeps DEF SubmitComputer
  <1>6. ASSUME NEW desk \in BOOLEAN, StartTurn(desk) PROVE IInv'
    <2> DEFINE new == [Unused EXCEPT !.kind = "turn", !.place = "request", !.tools = TRUE, !.desk = desk]
    <2>1. Append(history, User) \in Seq(Msgs)
      BY <1>2, MessageTypes
    <2>2. history' \in Seq(Msgs)
      BY <1>6, <2>1, PruneType DEF StartTurn
    <2>3. new \in TaskRecs /\ new.place = "request" /\ new.answer = "none"
      BY UnusedType DEF Unused
    <2>4. tasks' = [AfterAbort EXCEPT ![Fresh] = new] /\ handle' = Fresh /\ flags' = flags
      BY <1>6 DEF StartTurn
    <2> HIDE DEF new
    <2> QED
      BY <1>1, <2>2, <2>3, <2>4, SubmitStarts
  <1>7. ASSUME NEW exists \in AgentsFile, SubmitInit(exists) PROVE IInv'
    <2> DEFINE new == [Unused EXCEPT !.kind = "init", !.asks = IF exists THEN 1 ELSE 0,
                                     !.place = IF exists THEN "asked" ELSE "starting"]
    <2>1. new \in TaskRecs /\ new.kind = "init" /\ new.answer = "none"
          /\ new.place \in {"request", "asked", "starting"}
      BY UnusedType DEF Unused
    <2>2. /\ tasks' = [AfterAbort EXCEPT ![Fresh] = new]
          /\ history' = history /\ flags' = flags
      BY <1>7 DEF SubmitInit
    <2> HIDE DEF new
    <2> QED
      BY <1>1, <1>2, <2>1, <2>2, SubmitStarts
  <1> QED
    BY <1>1, <1>3, <1>4, <1>5, <1>6, <1>7 DEF Submission, SubmitPrompt, SubmitPlan
-----------------------------------------------------------------------------
(* A step of one task. *)
LEMMA OneTask ==
    ASSUME IInv, NEW t \in Tasks, NEW new \in TaskRecs, tasks' = [tasks EXCEPT ![t] = new],
           new.kind = tasks[t].kind, handle' = handle, enabled' = enabled,
           new.place # "done" => tasks[t].place # "done" /\ new.aborted = tasks[t].aborted,
           new.place \in {"running", "terminal"} => new.kind = "turn",
           new.kind = "turn" /\ new.place \in {"asked", "running", "terminal"} => new.left # <<>>,
           said' \in [Tasks -> Words], \A u \in Tasks : u # t => said'[u] = said[u],
           new.place = "asked" => new.answer = "none",
           history' \in Seq(Msgs), Len(history') >= Len(history),
           allowed' \subseteq Listed, trusted' \in BOOLEAN, allowed \subseteq allowed', trusted => trusted',
           new.place \in {"running", "terminal"} =>
              MayRun(new.left[1][1], allowed', trusted', said'[t])
    PROVE  IInv' /\ Kept
  <1>1. /\ tasks' \in [Tasks -> TaskRecs] /\ tasks'[t] = new
        /\ \A u \in Tasks : u # t => tasks'[u] = tasks[u]
    BY DEF IInv, Typing
  <1>2. Typing'
    BY <1>1 DEF Typing
  <1>3. LeftInv'
    BY <1>1 DEF IInv, LeftInv
  <1>4. HandleInv'
    BY <1>1 DEF IInv, HandleInv, Live, Finished
  <1>5. SaidInv'
    BY <1>1 DEF IInv, SaidInv
  <1>6. RunsOnlyWithConsent'
    <2> SUFFICES ASSUME NEW u \in Tasks, tasks'[u].place \in {"running", "terminal"}, Live(u)'
                 PROVE  MayRun(tasks'[u].left[1][1], allowed', trusted', said'[u])
      BY DEF RunsOnlyWithConsent, Current, MayRun
    <2>1. CASE u = t
      BY <1>1, <2>1
    <2>2. CASE u # t
      <3>1. tasks[u].place \in {"running", "terminal"} /\ Live(u) /\ tasks'[u] = tasks[u]
            /\ said'[u] = said[u]
        BY <1>1, <2>2 DEF Live, Finished
      <3>2. MayRun(tasks[u].left[1][1], allowed, trusted, said[u])
        BY <3>1 DEF IInv, RunsOnlyWithConsent, Current, MayRun
      <3> QED
        BY <3>1, <3>2 DEF MayRun
    <2> QED
      BY <2>1, <2>2
  <1>7. \A u \in Tasks : tasks'[u].kind = tasks[u].kind
    BY <1>1
  <1> QED
    BY <1>2, <1>3, <1>4, <1>5, <1>6, <1>7 DEF IInv, Kept

(* The fields of a task after a step of it. *)
LEMMA FieldTypes ==
    ASSUME NEW r \in TaskRecs
    PROVE  /\ r.kind \in {"none", "turn", "init"} /\ r.left \in Seq(Kinds \X Nat)
           /\ r.sent \in Nat /\ r.round \in Nat /\ r.asks \in Nat
           /\ r.aborted \in BOOLEAN /\ r.shot \in BOOLEAN
  BY DEF TaskRecs

(* The record of a task at another place. *)
Put(r, place, answer, asks) == [r EXCEPT !.place = place, !.answer = answer, !.asks = asks]

LEMMA PutType ==
    ASSUME NEW r \in TaskRecs,
           NEW place \in Waits \cup {"persist", "calls", "writing", "done"},
           NEW answer \in Words, NEW asks \in Nat
    PROVE  /\ Put(r, place, answer, asks) \in TaskRecs
           /\ Put(r, place, answer, asks).place = place
           /\ Put(r, place, answer, asks).answer = answer
           /\ Put(r, place, answer, asks).kind = r.kind
           /\ Put(r, place, answer, asks).left = r.left
           /\ Put(r, place, answer, asks).aborted = r.aborted
  BY DEF Put, TaskRecs

LEMMA OverType ==
    ASSUME NEW r \in TaskRecs
    PROVE  Over(r) \in TaskRecs /\ Over(r).place = "done" /\ Over(r).kind = r.kind
  BY FieldTypes, UnusedType DEF Over, Unused

(* A task that is over, or goes to a place where it neither asks nor runs. *)
LEMMA Passes ==
    ASSUME IInv, NEW t \in Tasks, NEW new \in TaskRecs, tasks' = [tasks EXCEPT ![t] = new],
           new.kind = tasks[t].kind, handle' = handle, UNCHANGED flags,
           new.place # "done" => tasks[t].place # "done" /\ new.aborted = tasks[t].aborted,
           new.place \notin {"asked", "running", "terminal"},
           said' = said \/ said' = [said EXCEPT ![t] = "none"],
           history' \in Seq(Msgs), Len(history') >= Len(history)
    PROVE  IInv' /\ Kept
  <1>1. said' \in [Tasks -> Words] /\ \A u \in Tasks : u # t => said'[u] = said[u]
    BY DEF IInv, Typing, Words
  <1>2. allowed' = allowed /\ trusted' = trusted /\ enabled' = enabled
        /\ allowed \subseteq Listed /\ trusted \in BOOLEAN
    BY DEF IInv, Typing, flags
  <1> QED
    BY <1>1, <1>2, OneTask

(* A message is pushed to the history. *)
LEMMA Pushed ==
    ASSUME IInv, NEW m \in Msgs
    PROVE  Append(history, m) \in Seq(Msgs) /\ Len(Append(history, m)) >= Len(history)
  BY DEF IInv, Typing

LEMMA IdType ==
    ASSUME Typing, NEW t \in Tasks, NEW k \in Nat
    PROVE  Id(t, k) \in Ids
  <1>1. tasks[t].sent \in Nat /\ t \in Nat
    BY FieldTypes, TuiAssumption DEF Typing, Tasks
  <1> QED
    BY <1>1 DEF Id, Ids

(* The result of the current call is pushed and the call is done with. *)
LEMMA CallDone ==
    ASSUME IInv, NEW t \in Tasks, tasks[t].left # <<>>, tasks[t].place # "done", NEW shot \in BOOLEAN,
           history' = Append(history, Result(Id(t, tasks[t].left[1][2]))),
           tasks' = Popped(t, shot), handle' = handle, UNCHANGED flags,
           said' = said \/ said' = [said EXCEPT ![t] = "none"]
    PROVE  IInv' /\ Kept
  <1> DEFINE r == tasks[t]
             new == [r EXCEPT !.left = Tail(r.left), !.place = "calls", !.answer = "none",
                              !.shot = r.shot \/ shot]
  <1>1. Typing /\ r \in TaskRecs
    BY DEF IInv, Typing
  <1>2. r.left \in Seq(Kinds \X Nat) /\ r.shot \in BOOLEAN
    BY <1>1, FieldTypes
  <1>3. Tail(r.left) \in Seq(Kinds \X Nat) /\ r.left[1] \in Kinds \X Nat
    BY <1>2
  <1>4. new \in TaskRecs /\ new.kind = r.kind /\ new.place = "calls" /\ new.aborted = r.aborted
    BY <1>1, <1>2, <1>3 DEF TaskRecs, Words
  <1>5. Result(Id(t, r.left[1][2])) \in Msgs
    BY <1>1, <1>3, IdType, MessageTypes
  <1>6. history' \in Seq(Msgs) /\ Len(history') >= Len(history)
    BY <1>5, Pushed
  <1>7. tasks' = [tasks EXCEPT ![t] = new]
    BY DEF Popped
  <1> HIDE DEF new
  <1> QED
    BY <1>4, <1>6, <1>7, Passes

(* A task ends, or moves on, without touching history, flags or handles. *)
LEMMA Ends ==
    ASSUME IInv, NEW t \in Tasks, handle' = handle, history' = history, UNCHANGED flags,
           said' = said \/ said' = [said EXCEPT ![t] = "none"],
           tasks' = [tasks EXCEPT ![t] = Over(@)]
    PROVE  IInv' /\ Kept
  <1> DEFINE r == tasks[t]
  <1>1. r \in TaskRecs /\ history \in Seq(Msgs) /\ Len(history) \in Nat
    BY DEF IInv, Typing
  <1>2. tasks' = [tasks EXCEPT ![t] = Over(r)]
    OBVIOUS
  <1>3. history' \in Seq(Msgs) /\ Len(history') >= Len(history)
    BY <1>1
  <1>4. Over(r) \in TaskRecs /\ Over(r).place = "done" /\ Over(r).kind = r.kind
    BY <1>1, OverType
  <1> QED
    BY <1>2, <1>3, <1>4, Passes

LEMMA Moves ==
    ASSUME IInv, NEW t \in Tasks, handle' = handle, history' = history, UNCHANGED flags,
           said' = said \/ said' = [said EXCEPT ![t] = "none"], tasks[t].place # "done",
           NEW place \in {"starting", "probing", "request", "writing"},
           NEW answer \in {"none", tasks[t].answer},
           tasks' = [tasks EXCEPT ![t] = Put(tasks[t], place, answer, tasks[t].asks)]
    PROVE  IInv' /\ Kept
  <1> DEFINE r == tasks[t]
             new == Put(r, place, answer, r.asks)
  <1>1. /\ r \in TaskRecs /\ r.answer \in Words /\ r.asks \in Nat
        /\ history \in Seq(Msgs) /\ Len(history) \in Nat
    BY DEF IInv, Typing, TaskRecs
  <1>2. answer \in Words /\ place \in Waits \cup {"persist", "calls", "writing", "done"}
    BY <1>1 DEF Words, Waits
  <1>3. /\ new \in TaskRecs /\ new.place = place
        /\ new.kind = r.kind /\ new.aborted = r.aborted
    BY <1>1, <1>2, PutType
  <1>4. tasks' = [tasks EXCEPT ![t] = new]
    OBVIOUS
  <1>5. history' \in Seq(Msgs) /\ Len(history') >= Len(history)
    BY <1>1
  <1>6. new.place \notin {"asked", "running", "terminal"}
    BY <1>3
  <1> HIDE DEF new
  <1> QED
    BY <1>3, <1>4, <1>5, <1>6, Passes

LEMMA TurnAsks ==
    ASSUME IInv, NEW t \in Tasks, AskFirst(t)
    PROVE  IInv' /\ Kept
  <1> DEFINE r == tasks[t]
  <1>0. PICK n \in Nat : n = r.asks + 1
    BY FieldTypes DEF IInv, Typing
  <1> DEFINE new == Put(r, "asked", "none", n)
  <1>1. /\ r \in TaskRecs /\ r.asks \in Nat /\ Typing
        /\ history \in Seq(Msgs) /\ Len(history) \in Nat
        /\ allowed \subseteq Listed /\ trusted \in BOOLEAN /\ said \in [Tasks -> Words]
    BY FieldTypes DEF IInv, Typing
  <1>2. r.kind = "turn" /\ r.place = "calls" /\ r.left # <<>>
    BY DEF AskFirst, HasCall, At
  <1>3. "none" \in Words /\ "asked" \in Waits
    BY <1>1 DEF Words, Waits
  <1>4. /\ new \in TaskRecs /\ new.place = "asked" /\ new.answer = "none" /\ new.kind = r.kind
        /\ new.left = r.left /\ new.aborted = r.aborted
    BY <1>1, <1>3, PutType
  <1>5. tasks' = [tasks EXCEPT ![t] = new]
    BY <1>0 DEF AskFirst, Put
  <1>6. /\ handle' = handle /\ enabled' = enabled /\ allowed' = allowed /\ trusted' = trusted
        /\ history' = history /\ said' = [said EXCEPT ![t] = "none"]
    BY DEF AskFirst, TaskForgets, appVars, flags
  <1>7. said' \in [Tasks -> Words] /\ \A u \in Tasks : u # t => said'[u] = said[u]
    BY <1>1, <1>3, <1>6 DEF Typing
  <1>8. /\ allowed' \subseteq Listed /\ trusted' \in BOOLEAN
        /\ (allowed \subseteq allowed') /\ (trusted => trusted')
    BY <1>1, <1>6
  <1>9. history' \in Seq(Msgs) /\ Len(history') >= Len(history)
    BY <1>1, <1>6
  <1>10. /\ new.place # "done" => r.place # "done" /\ new.aborted = r.aborted
         /\ new.place \in {"running", "terminal"} => new.kind = "turn"
         /\ new.kind = "turn" /\ new.place \in {"asked", "running", "terminal"} => new.left # <<>>
         /\ new.place = "asked" => new.answer = "none"
         /\ new.place \notin {"running", "terminal"}
    BY <1>2, <1>4
  <1> HIDE DEF new
  <1> QED
    BY <1>4, <1>5, <1>6, <1>7, <1>8, <1>9, <1>10, OneTask

LEMMA TurnRuns ==
    ASSUME IInv, NEW t \in Tasks, RunCall(t)
    PROVE  IInv' /\ Kept
  <1> DEFINE r == tasks[t]
             place == RunsIn(t)
             new == Put(r, place, r.answer, r.asks)
  <1>1. /\ r \in TaskRecs /\ r.asks \in Nat /\ r.answer \in Words /\ Typing
        /\ history \in Seq(Msgs) /\ Len(history) \in Nat
        /\ allowed \subseteq Listed /\ trusted \in BOOLEAN /\ said \in [Tasks -> Words]
    BY FieldTypes DEF IInv, Typing, TaskRecs
  <1>2. r.kind = "turn" /\ r.place = "calls" /\ r.left # <<>> /\ ~Risky(t)
    BY DEF RunCall, HasCall, At
  <1>3. place \in Waits /\ place \in {"terminal", "running"}
    BY DEF Waits, RunsIn
  <1>4. tasks' = [tasks EXCEPT ![t] = new]
    BY <1>1 DEF RunCall, TaskRecs, Put
  <1> HIDE DEF place
  <1>5. /\ new \in TaskRecs /\ new.place = place /\ new.kind = r.kind
        /\ new.left = r.left /\ new.aborted = r.aborted
    BY <1>1, <1>3, PutType
  <1>6. /\ handle' = handle /\ enabled' = enabled /\ allowed' = allowed /\ trusted' = trusted
        /\ history' = history /\ said' = said
    BY DEF RunCall, TaskOnly, appVars, flags
  <1>7. MayRun(r.left[1][1], allowed, trusted, said[t])
    BY <1>2 DEF Risky, Current, MayRun
  <1>8. /\ allowed' \subseteq Listed /\ trusted' \in BOOLEAN
        /\ (allowed \subseteq allowed') /\ (trusted => trusted')
    BY <1>1, <1>6
  <1>9. history' \in Seq(Msgs) /\ Len(history') >= Len(history)
    BY <1>1, <1>6
  <1>10. /\ new.place # "done" => r.place # "done" /\ new.aborted = r.aborted
         /\ new.place \in {"running", "terminal"} => new.kind = "turn"
         /\ new.kind = "turn" /\ new.place \in {"asked", "running", "terminal"} => new.left # <<>>
         /\ new.place # "asked"
         /\ MayRun(new.left[1][1], allowed', trusted', said'[t])
    BY <1>2, <1>3, <1>5, <1>6, <1>7
  <1>11. said' \in [Tasks -> Words] /\ \A u \in Tasks : u # t => said'[u] = said[u]
    BY <1>1, <1>6
  <1> HIDE DEF new
  <1> QED
    BY <1>4, <1>5, <1>6, <1>8, <1>9, <1>10, <1>11, OneTask

LEMMA TurnTakesAnswer ==
    ASSUME IInv, NEW t \in Tasks, TakeAnswer(t)
    PROVE  IInv' /\ Kept
  <1> DEFINE r == tasks[t]
             place == RunsIn(t)
             new == Put(r, place, "none", r.asks)
  <1>1. /\ r \in TaskRecs /\ r.asks \in Nat /\ Typing
        /\ history \in Seq(Msgs) /\ Len(history) \in Nat
        /\ allowed \subseteq Listed /\ trusted \in BOOLEAN /\ said \in [Tasks -> Words]
    BY FieldTypes DEF IInv, Typing
  <1>2. r.kind = "turn" /\ r.place = "asked" /\ Approved(t)
    BY DEF TakeAnswer, At
  <1>3. r.left # <<>>
    BY <1>2 DEF IInv, LeftInv
  <1>4. "none" \in Words /\ place \in Waits /\ place \in {"running", "terminal"}
    BY DEF Words, Waits, RunsIn
  <1>6. tasks' = [tasks EXCEPT ![t] = new]
    BY <1>1 DEF TakeAnswer, TaskRecs, Put
  <1> HIDE DEF place
  <1>5. /\ new \in TaskRecs /\ new.place = place /\ new.kind = r.kind
        /\ new.left = r.left /\ new.aborted = r.aborted
    BY <1>1, <1>4, PutType
  <1>7. /\ handle' = handle /\ enabled' = enabled /\ history' = history /\ said' = said
        /\ allowed' \subseteq Listed /\ trusted' \in BOOLEAN /\ (allowed \subseteq allowed') /\ (trusted => trusted')
    BY <1>1 DEF TakeAnswer, TaskOnly, appVars, Typing
  <1>8. MayRun(r.left[1][1], allowed', trusted', said[t])
    <2>1. r.answer \in {"y", "a", "text"} /\ (Current(t) = "desk" => r.answer \in {"y", "a"})
      BY <1>2 DEF Approved
    <2>2. said[t] = r.answer
      BY <1>2, <2>1 DEF IInv, SaidInv
    <2> QED
      BY <2>1, <2>2 DEF Current, MayRun
  <1>9. /\ new.place # "done" => r.place # "done" /\ new.aborted = r.aborted
        /\ new.place \in {"running", "terminal"} => new.kind = "turn"
        /\ new.kind = "turn" /\ new.place \in {"asked", "running", "terminal"} => new.left # <<>>
        /\ new.place # "asked"
        /\ MayRun(new.left[1][1], allowed', trusted', said'[t])
    BY <1>2, <1>3, <1>4, <1>5, <1>7, <1>8
  <1>10. /\ said' \in [Tasks -> Words] /\ \A u \in Tasks : u # t => said'[u] = said[u]
         /\ history' \in Seq(Msgs) /\ Len(history') >= Len(history)
    BY <1>1, <1>7
  <1>11. handle' = handle /\ enabled' = enabled
    BY <1>7
  <1>12. allowed' \subseteq Listed /\ trusted' \in BOOLEAN /\ (allowed \subseteq allowed') /\ (trusted => trusted')
    BY <1>7
  <1> HIDE DEF new
  <1> QED
    BY <1>5, <1>6, <1>9, <1>10, <1>11, <1>12, OneTask

LEMMA TurnPersists ==
    ASSUME IInv, NEW t \in Tasks, Persist(t)
    PROVE  IInv' /\ Kept
  <1> DEFINE r == tasks[t]
             ids == [i \in DOMAIN r.left |-> Id(t, i)]
             new == Put(r, "calls", r.answer, r.asks)
  <1>1. r \in TaskRecs /\ r.asks \in Nat /\ r.answer \in Words /\ Typing
    BY FieldTypes DEF IInv, Typing, TaskRecs
  <1>2. r.left \in Seq(Kinds \X Nat)
    BY <1>1, FieldTypes
  <1>3. ids \in Seq(Ids)
    <2>1. DOMAIN r.left = 1..Len(r.left) /\ Len(r.left) \in Nat
      BY <1>2
    <2>2. \A i \in 1..Len(r.left) : Id(t, i) \in Ids
      BY <1>1, IdType
    <2>3. ids \in [1..Len(r.left) -> Ids]
      BY <2>1, <2>2
    <2> QED
      BY <2>1, <2>3
  <1>4. Assistant(ids) \in Msgs
    BY <1>3, MessageTypes
  <1>5. history' = Append(history, Assistant(ids))
    BY DEF Persist
  <1>6. history' \in Seq(Msgs) /\ Len(history') >= Len(history)
    BY <1>4, <1>5, Pushed
  <1>7. handle' = handle /\ flags' = flags /\ said' = said /\ r.place = "persist"
    BY DEF Persist, TaskOnly, appVars, At
  <1>8. CASE tasks' = [tasks EXCEPT ![t] = Over(@)]
    <2>1. tasks' = [tasks EXCEPT ![t] = Over(r)]
      BY <1>8
    <2> QED
      BY <1>1, <1>6, <1>7, <2>1, OverType, Passes
  <1>9. CASE tasks' = [tasks EXCEPT ![t].place = "calls"]
    <2>1. tasks' = [tasks EXCEPT ![t] = new]
      BY <1>1, <1>9 DEF TaskRecs, Put
    <2>2. /\ new \in TaskRecs /\ new.place = "calls" /\ new.kind = r.kind
          /\ new.aborted = r.aborted
      BY <1>1, PutType
    <2> HIDE DEF new
    <2> QED
      BY <1>6, <1>7, <2>1, <2>2, Passes
  <1> QED
    BY <1>8, <1>9 DEF Persist

LEMMA TurnReceives ==
    ASSUME IInv, NEW t \in Tasks, NEW calls \in Answers \cup {<<>>}, StreamEnds(t, calls)
    PROVE  IInv' /\ Kept
  <1> DEFINE r == tasks[t]
             left == [k \in DOMAIN calls |-> <<calls[k], k>>]
             new == [r EXCEPT !.place = "persist", !.sent = r.sent + 1, !.left = left]
  <1>1. r \in TaskRecs /\ r.sent \in Nat /\ history \in Seq(Msgs) /\ Len(history) \in Nat
    BY FieldTypes DEF IInv, Typing
  <1>2. left \in Seq(Kinds \X Nat)
    <2>1. <<>> \in Seq(Kinds) /\ Answers \subseteq Seq(Kinds)
      BY TuiAssumption DEF Kinds
    <2>2. DOMAIN calls = 1..Len(calls) /\ Len(calls) \in Nat /\ \A k \in 1..Len(calls) : calls[k] \in Kinds
      BY <2>1
    <2>3. left \in [1..Len(calls) -> Kinds \X Nat]
      BY <2>2
    <2> QED
      BY <2>2, <2>3
  <1>3. tasks' = [tasks EXCEPT ![t] = new]
    BY DEF StreamEnds
  <1> HIDE DEF left
  <1>4. new \in TaskRecs /\ new.place = "persist" /\ new.kind = r.kind /\ new.aborted = r.aborted
    BY <1>1, <1>2, r.sent + 1 \in Nat DEF TaskRecs
  <1>5. /\ handle' = handle /\ flags' = flags /\ said' = said /\ history' = history
        /\ r.place = "request"
    BY DEF StreamEnds, TaskOnly, appVars, At
  <1>6. history' \in Seq(Msgs) /\ Len(history') >= Len(history)
    BY <1>1, <1>5
  <1>7. new.place # "done" /\ r.place # "done" /\ new.place \notin {"asked", "running", "terminal"}
    BY <1>4, <1>5
  <1> HIDE DEF new
  <1> QED
    BY <1>3, <1>4, <1>5, <1>6, <1>7, Passes

LEMMA TurnRequests ==
    ASSUME IInv, NEW t \in Tasks, NextRequest(t)
    PROVE  IInv' /\ Kept
  <1> DEFINE r == tasks[t]
             shot == IF r.shot THEN Append(history, Screenshot) ELSE history
             again == enabled /\ r.desk /\ r.round + 1 < (IF MaxRounds = 0 THEN 1 ELSE MaxRounds)
             new == [r EXCEPT !.place = "request", !.shot = FALSE, !.tools = again,
                              !.round = IF again THEN r.round + 1 ELSE r.round]
  <1>1. r \in TaskRecs /\ r.round \in Nat /\ history \in Seq(Msgs) /\ Len(history) \in Nat
    BY FieldTypes DEF IInv, Typing
  <1>2. shot \in Seq(Msgs) /\ Len(shot) >= Len(history)
    BY <1>1, Pushed, MessageTypes
  <1>3. history' = prune_images(shot, Keep)
    BY DEF NextRequest
  <1>4. history' \in Seq(Msgs) /\ Len(history') >= Len(history)
    BY <1>2, <1>3, PruneType
  <1>5. tasks' = [tasks EXCEPT ![t] = new]
    BY DEF NextRequest
  <1>6. again \in BOOLEAN /\ (IF again THEN r.round + 1 ELSE r.round) \in Nat
    BY <1>1
  <1> HIDE DEF again
  <1>7. new \in TaskRecs /\ new.place = "request" /\ new.kind = r.kind /\ new.aborted = r.aborted
    BY <1>1, <1>6 DEF TaskRecs, Waits
  <1>8. handle' = handle /\ flags' = flags /\ said' = said /\ r.place = "calls"
    BY DEF NextRequest, TaskOnly, appVars, At
  <1> HIDE DEF new
  <1> QED
    BY <1>4, <1>5, <1>7, <1>8, Passes

LEMMA TurnStep ==
    ASSUME IInv, NEW t \in Tasks, Turn(t)
    PROVE  IInv' /\ Kept
  <1>1. CASE StreamChunk(t)
    BY <1>1, LoopLeavesTasks DEF StreamChunk, TaskOnly, appVars
  <1>2. CASE StreamFails(t) \/ Dropped(t)
    BY <1>2, Ends DEF StreamFails, Dropped, TaskOnly, TaskForgets, appVars
  <1>3. CASE RefuseCall(t)
    BY <1>3, CallDone DEF RefuseCall, PushResult, HasCall, At, TaskOnly, appVars
  <1>4. CASE TakeDenial(t) \/ \E shot \in BOOLEAN : CallEnds(t, shot)
    <2>1. PICK shot \in BOOLEAN : tasks' = Popped(t, shot)
      BY <1>4 DEF TakeDenial, CallEnds
    <2>2. tasks[t].kind = "turn" /\ tasks[t].place \in {"asked", "running", "terminal"}
      BY <1>4 DEF TakeDenial, CallEnds, At
    <2>3. tasks[t].left # <<>>
      BY <2>2 DEF IInv, LeftInv
    <2>4. /\ history' = Append(history, Result(Id(t, tasks[t].left[1][2])))
          /\ handle' = handle /\ flags' = flags /\ said' = [said EXCEPT ![t] = "none"]
      BY <1>4 DEF TakeDenial, CallEnds, PushResult, TaskForgets, appVars
    <2> QED
      BY <2>1, <2>2, <2>3, <2>4, CallDone
  <1> QED
    BY <1>1, <1>2, <1>3, <1>4, TurnAsks, TurnRuns, TurnTakesAnswer, TurnPersists, TurnReceives,
       TurnRequests DEF Turn

LEMMA InitStep ==
    ASSUME IInv, NEW t \in Tasks, InitTask(t)
    PROVE  IInv' /\ Kept
  <1>1. CASE InitAnswered(t)
    <2>1. /\ handle' = handle /\ history' = history /\ flags' = flags
          /\ said' = [said EXCEPT ![t] = "none"] /\ tasks[t].place = "asked"
      BY <1>1 DEF InitAnswered, TaskForgets, appVars, At
    <2>2. \/ tasks' = [tasks EXCEPT ![t] = Over(@)]
          \/ tasks' = [tasks EXCEPT ![t] = Put(tasks[t], "starting", "none", tasks[t].asks)]
      BY <1>1 DEF InitAnswered, IInv, Typing, Put, TaskRecs
    <2> QED
      BY <2>1, <2>2, Ends, Moves
  <1>2. CASE InitStarts(t) \/ InitProbed(t) \/ InitGenerated(t)
    <2>1. /\ handle' = handle /\ history' = history /\ flags' = flags /\ said' = said
          /\ tasks[t].place # "done"
      BY <1>2 DEF InitStarts, InitProbed, InitGenerated, TaskOnly, appVars, At
    <2>2. PICK place \in {"probing", "request", "writing"} : tasks' = [tasks EXCEPT ![t].place = place]
      BY <1>2 DEF InitStarts, InitProbed, InitGenerated
    <2>3. tasks' = [tasks EXCEPT ![t] = Put(tasks[t], place, tasks[t].answer, tasks[t].asks)]
      BY <2>2 DEF IInv, Typing, Put, TaskRecs
    <2> QED
      BY <2>1, <2>3, Moves
  <1>3. CASE InitWrites(t)
    BY <1>3, Ends DEF InitWrites, TaskOnly, appVars
  <1> QED
    BY <1>1, <1>2, <1>3 DEF InitTask
-----------------------------------------------------------------------------
LEMMA InitInv == Init => IInv
  <1> SUFFICES ASSUME Init PROVE IInv
    OBVIOUS
  <1>1. <<>> \in Seq(Msgs) /\ "none" \in Words
    BY DEF Words
  <1>2. \A t \in Tasks : tasks[t].kind = "none" /\ tasks[t].place = "done" /\ tasks[t].answer = "none"
    BY DEF Init, Unused
  <1>3. Typing
    BY <1>1, UnusedType DEF Init, Typing
  <1>4. LeftInv /\ HandleInv /\ SaidInv /\ RunsOnlyWithConsent
    BY <1>2 DEF LeftInv, HandleInv, SaidInv, RunsOnlyWithConsent
  <1> QED
    BY <1>3, <1>4 DEF IInv

(* Every step but a submission keeps the invariant, the kinds of tasks, the *)
(* switch of the desktop and the messages; a submission finds no turn.      *)
LEMMA NextStep ==
    ASSUME IInv, [Next]_vars
    PROVE  IInv' /\ (Kept \/ MaySubmit)
  <1>1. CASE Submission
    BY <1>1, LoopSubmits
  <1>2. CASE EnterAnswers \/ HandlePrompt \/ HandlePromptExpired \/ HandleStreamDone \/ HandleInteractive
    BY <1>2, LoopAnswers
  <1>3. CASE HandleEsc
    BY <1>3, LoopEsc
  <1>4. CASE \/ HandleInput \/ EnterIgnored \/ HandleStatus \/ User_
             \/ CompressionStarts \/ CompressionEnds \/ UNCHANGED vars
    <2>1. UNCHANGED <<tasks, handle, history, flags, said>>
      BY <1>4 DEF HandleInput, EnterIgnored, HandleStatus, User_, Type, PressEnter, PressEsc,
                  CompressionStarts, CompressionEnds, vars, appVars, flags
    <2> QED
      BY <2>1, LoopLeavesTasks
  <1>5. CASE \E t \in Tasks : Turn(t) \/ InitTask(t)
    BY <1>5, TurnStep, InitStep
  <1> QED
    BY <1>1, <1>2, <1>3, <1>4, <1>5 DEF Next, Loop, Submission

(* The invariant: what a task is about to read as its answer was typed for *)
(* it, the call it acts on is there, and a turn that has not been aborted  *)
(* is the one in the handle.                                               *)
THEOREM InductiveInvariant == Spec => []IInv
  <1>1. IInv /\ [Next]_vars => IInv'
    BY NextStep
  <1> QED
    BY <1>1, InitInv, PTL DEF Spec

(* Unless the configuration asks no questions: no command to be confirmed  *)
(* and no action on the desktop runs, by itself or in the terminal,        *)
(* without an Enter to its own question (or a standing "always"), however  *)
(* the events of turns, /init and compressions interleave with keys        *)
(* (approvals of the tool loop).                                           *)
THEOREM Consent == Spec => []RunsOnlyWithConsent
  <1>1. IInv => RunsOnlyWithConsent
    BY DEF IInv
  <1> QED
    BY <1>1, InductiveInvariant, PTL

(* While a turn runs no other task starts and the session is not cleared,  *)
(* whatever the status line says (is_finished in run).                     *)
THEOREM OneTurnAtATime == Spec => TurnAlone
  <1>1. IInv /\ [Next]_vars =>
          [\A t \in Tasks :
              tasks[t].kind = "turn" /\ Live(t) /\ Live(t)' =>
                  /\ \A u \in Tasks : tasks'[u].kind = tasks[u].kind
                  /\ Len(history') >= Len(history)]_vars
    BY NextStep, SubmitsAlone DEF Kept
  <1> QED
    BY <1>1, InductiveInvariant, PTL DEF Spec, TurnAlone
-----------------------------------------------------------------------------
(***************************************************************************)
(* What the event channel, the slot of a question, the status and the      *)
(* tasks have to do with each other (Channel), and what the turns send to  *)
(* the model (Requests).  A step is proved to keep Channel by the class it *)
(* belongs to: of a task (TaskStep), of the loop (LoopStep), of a line     *)
(* that starts a task (StartStep), or one that only appends to the channel *)
(* (AppendStep).                                                           *)
(***************************************************************************)

(* What the channel may hold. *)
Events == ({"Input"} \X Lines)
          \cup ({"Enter", "Esc", "Token", "ToolExec"} \X {""})
          \cup ({"StreamDone", "PromptExpired"} \X Tasks)
          \cup ({"Prompt"} \X (Tasks \X Nat))
          \cup ({"Status"} \X {"executing", "compressing", "idle"})
          \cup ({"InteractiveCommand"} \X Tasks)

ShapeInv ==
    /\ events \in Seq(Events)
    /\ pending \in {None} \cup (Tasks \X Nat)
    /\ status \in {Idle} \cup Busy
    /\ buffer \in Lines \cup {"", "mixed"}
    /\ handle \in 0..MaxKeys /\ initHandle \in 0..MaxKeys
    /\ compressing \in Nat \X Nat
    /\ keys \in [pressed : 0..MaxKeys, mid : BOOLEAN]
    /\ enabled \in BOOLEAN /\ stray \in SUBSET Tasks
    /\ said \in [Tasks -> Words \ {"exit"}]
    /\ \A t \in Tasks : tasks[t].kind = "none" => tasks[t] = Unused
    /\ \A t \in Tasks : tasks[t].aborted => tasks[t].place # "done"

(* Tasks are started in order, each by an Enter that was pressed. *)
EnterKey == <<"Enter", "">>
Enters(s) == {i \in DOMAIN s : s[i] = EnterKey}

StartedInv ==
    \E k \in 0..MaxKeys :
        /\ \A t \in Tasks : tasks[t].kind # "none" <=> t <= k
        /\ k + Cardinality(Enters(events)) <= keys.pressed

(* A question has been asked by its task and has its number. *)
PromptOf(t, n) == <<"Prompt", <<t, n>>>>
Underway(t, n) == pending = <<t, n>> \/ \E i \in DOMAIN events : events[i] = PromptOf(t, n)

NumbersInv ==
    \A t \in Tasks, n \in Nat :
        Underway(t, n) =>
            /\ tasks[t].kind # "none"
            /\ tasks[t].place # "done" => n <= tasks[t].asks

(* Of the tasks not aborted one runs at a time; a live /init is the one in *)
(* its handle, and what has been aborted is remembered.                    *)
AloneInv ==
    /\ \A t \in Tasks : tasks[t].kind = "init" /\ Live(t) => initHandle = t
    /\ \A t \in Tasks : tasks[t].aborted => t \in stray
    /\ \A t, u \in Tasks : Live(t) /\ Live(u) => t = u

Waiting(t) == tasks[t].place = "asked" /\ tasks[t].answer = "none"
Dismissals == {"PromptExpired", "StreamDone"} \X Tasks
Regular(e) == e \in Dismissals /\ e[2] \notin stray

(* A question that still waits is behind everything that could dismiss it  *)
(* and that no aborted task has sent.                                      *)
AheadInv ==
    \A t \in Tasks : Waiting(t) /\ Live(t) =>
        \A i \in DOMAIN events : Regular(events[i]) =>
            /\ pending # <<t, tasks[t].asks>>
            /\ \A j \in DOMAIN events : events[j] = PromptOf(t, tasks[t].asks) => i < j

(* The status ends up idle, or a question in the slot, once the channel is *)
(* drained: unless a task or a compression is still to report.             *)
Settles(e) == e[1] \in {"StreamDone", "PromptExpired", "Prompt"} \/ e = Status(Idle)
Unsettles(e) == e \in {Token, ToolExec, Status("executing"), Status("compressing")}
Settled ==
    /\ status = Idle \/ pending # None \/ \E i \in DOMAIN events : Settles(events[i])
    /\ \A i \in DOMAIN events :
          Unsettles(events[i]) => \E j \in DOMAIN events : i < j /\ Settles(events[j])
Reports(t) == ~Finished(t) /\ ~(tasks[t].kind = "init" /\ tasks[t].place = "asked")

SettledInv ==
    stray # {} \/ compressing # <<0, 0>> \/ (\E t \in Tasks : Reports(t)) \/ Settled

Channel == /\ ShapeInv /\ StartedInv /\ NumbersInv /\ AloneInv /\ AskedIsReachable
           /\ AheadInv /\ SettledInv
-----------------------------------------------------------------------------
(* The channel as a sequence. *)
LEMMA TailIs ==
    ASSUME NEW S, NEW s \in Seq(S), s # <<>>
    PROVE  /\ Tail(s) \in Seq(S) /\ Len(s) \in Nat \ {0} /\ Len(Tail(s)) = Len(s) - 1
           /\ DOMAIN s = 1..Len(s) /\ DOMAIN Tail(s) = 1..(Len(s) - 1)
           /\ \A i \in 1..(Len(s) - 1) : Tail(s)[i] = s[i + 1] /\ i + 1 \in 1..Len(s)
           /\ \A i \in 1..Len(s) : i = 1 \/ (i - 1 \in 1..(Len(s) - 1) /\ Tail(s)[i - 1] = s[i])
  <1>1. /\ Tail(s) \in Seq(S) /\ Len(s) \in Nat \ {0} /\ Len(Tail(s)) = Len(s) - 1
        /\ \A i \in 1..Len(Tail(s)) : Tail(s)[i] = s[i + 1]
    BY HeadTailProperties, EmptySeq
  <1>2. DOMAIN s = 1..Len(s) /\ DOMAIN Tail(s) = 1..(Len(s) - 1)
    BY <1>1, LenProperties
  <1>3. ASSUME NEW i \in 1..Len(s), i # 1
        PROVE  i - 1 \in 1..(Len(s) - 1) /\ Tail(s)[i - 1] = s[i]
    <2>1. i - 1 \in 1..(Len(s) - 1) /\ (i - 1) + 1 = i
      BY <1>1, <1>3
    <2> QED BY <2>1, <1>1
  <1> QED BY <1>1, <1>2, <1>3

LEMMA MoreIs ==
    ASSUME NEW S, NEW s \in Seq(S), NEW more \in Seq(S)
    PROVE  /\ s \o more \in Seq(S) /\ Len(s) \in Nat /\ Len(more) \in Nat
           /\ DOMAIN s = 1..Len(s) /\ DOMAIN more = 1..Len(more)
           /\ DOMAIN (s \o more) = 1..(Len(s) + Len(more))
           /\ \A i \in 1..Len(s) : (s \o more)[i] = s[i]
           /\ \A i \in 1..Len(more) : (s \o more)[Len(s) + i] = more[i]
           /\ \A i \in 1..(Len(s) + Len(more)) :
                 i \in 1..Len(s) \/ (i - Len(s) \in 1..Len(more) /\ (s \o more)[i] = more[i - Len(s)])
  <1>1. /\ s \o more \in Seq(S) /\ Len(s) \in Nat /\ Len(more) \in Nat
        /\ DOMAIN s = 1..Len(s) /\ DOMAIN more = 1..Len(more)
        /\ DOMAIN (s \o more) = 1..(Len(s) + Len(more))
    BY LenProperties, ConcatProperties
  <1>2. /\ \A i \in 1..Len(s) : (s \o more)[i] = s[i]
        /\ \A i \in 1..Len(more) : (s \o more)[Len(s) + i] = more[i]
    BY <1>1, ConcatProperties
  <1>3. ASSUME NEW i \in 1..(Len(s) + Len(more)), i \notin 1..Len(s)
        PROVE  i - Len(s) \in 1..Len(more) /\ (s \o more)[i] = more[i - Len(s)]
    <2>1. i - Len(s) \in 1..Len(more) /\ Len(s) + (i - Len(s)) = i
      BY <1>1, <1>3
    <2> QED BY <2>1, <1>2
  <1> QED BY <1>1, <1>2, <1>3

LEMMA SentIs ==
    ASSUME events \in Seq(Events), NEW es \in Seq(Events), es # <<>>
    PROVE  \/ Sent(es) = events \o es
           \/ /\ es[1][1] \in {"Token", "ToolExec"} /\ Tail(es) \in Seq(Events)
              /\ Sent(es) = events \o Tail(es)
  BY TailIs DEF Sent

LEMMA EntersFinite ==
    ASSUME NEW s \in Seq(Events)
    PROVE  IsFiniteSet(Enters(s)) /\ Cardinality(Enters(s)) \in Nat
  <1>1. DOMAIN s = 1..Len(s) /\ Len(s) \in Nat
    BY LenProperties
  <1>2. IsFiniteSet(1..Len(s)) /\ Enters(s) \in SUBSET (1..Len(s))
    BY <1>1, FS_Interval DEF Enters
  <1> QED BY <1>2, FS_Subset, FS_CardinalityType

LEMMA EntersTail ==
    ASSUME NEW s \in Seq(Events), s # <<>>
    PROVE  Cardinality(Enters(Tail(s))) + (IF s[1] = EnterKey THEN 1 ELSE 0) = Cardinality(Enters(s))
  <1> DEFINE A == Enters(Tail(s))
             B == Enters(s) \ {1}
             f == [i \in A |-> i + 1]
  <1>1. /\ Tail(s) \in Seq(Events) /\ Len(s) \in Nat \ {0}
        /\ DOMAIN s = 1..Len(s) /\ DOMAIN Tail(s) = 1..(Len(s) - 1)
        /\ \A i \in 1..(Len(s) - 1) : Tail(s)[i] = s[i + 1] /\ i + 1 \in 1..Len(s)
        /\ \A i \in 1..Len(s) : i = 1 \/ (i - 1 \in 1..(Len(s) - 1) /\ Tail(s)[i - 1] = s[i])
    BY TailIs
  <1>2. \A i \in A : i \in Nat /\ i + 1 \in B
    BY <1>1 DEF Enters
  <1>3. \A j \in B : j \in Nat /\ j - 1 \in A /\ (j - 1) + 1 = j
    BY <1>1 DEF Enters
  <1> HIDE DEF A, B
  <1>4. f \in [A -> B]
    BY <1>2
  <1>5. f \in Bijection(A, B)
    <2>1. \A i, j \in A : f[i] = f[j] => i = j
      BY <1>2
    <2>2. \A j \in B : \E i \in A : f[i] = j
      BY <1>3
    <2> QED BY <1>4, <2>1, <2>2 DEF Bijection, Injection, Surjection, IsInjective
  <1>6. IsFiniteSet(A) /\ Cardinality(B) = Cardinality(A)
    <2>1. ExistsBijection(A, B)
      BY <1>5 DEF ExistsBijection
    <2>2. IsFiniteSet(A)
      BY <1>1, EntersFinite DEF A
    <2> QED BY <2>1, <2>2, FS_Bijection
  <1>7. IsFiniteSet(Enters(s)) /\ Cardinality(Enters(s)) \in Nat
    BY EntersFinite
  <1>8. Cardinality(B) = IF 1 \in Enters(s) THEN Cardinality(Enters(s)) - 1 ELSE Cardinality(Enters(s))
    BY <1>7, FS_RemoveElement DEF B
  <1>9. 1 \in Enters(s) <=> s[1] = EnterKey
    BY <1>1 DEF Enters
  <1> QED BY <1>6, <1>7, <1>8, <1>9 DEF A

LEMMA EntersMore ==
    ASSUME NEW s \in Seq(Events), NEW more \in Seq(Events),
           \A i \in DOMAIN more : more[i] # EnterKey
    PROVE  Enters(s \o more) = Enters(s)
  BY MoreIs DEF Enters

LEMMA EntersPressed ==
    ASSUME NEW s \in Seq(Events)
    PROVE  Cardinality(Enters(s \o <<EnterKey>>)) = Cardinality(Enters(s)) + 1
  <1>1. <<EnterKey>> \in Seq(Events) /\ Len(<<EnterKey>>) = 1 /\ <<EnterKey>>[1] = EnterKey
    <2>1. EnterKey \in Events
      BY DEF Events, EnterKey
    <2> QED BY <2>1
  <1>2. Len(s) \in Nat /\ DOMAIN s = 1..Len(s)
    BY LenProperties
  <1>3. Enters(s \o <<EnterKey>>) = Enters(s) \cup {Len(s) + 1}
    BY <1>1, <1>2, MoreIs DEF Enters
  <1>4. Len(s) + 1 \notin Enters(s)
    BY <1>2 DEF Enters
  <1> QED BY <1>3, <1>4, EntersFinite, FS_AddElement

LEMMA EventTypes ==
    /\ {Token, ToolExec, EnterKey, <<"Esc", "">>} \subseteq Events
    /\ \A t \in Tasks : StreamDone(t) \in Events /\ PromptExpired(t) \in Events
    /\ {Status("executing"), Status("compressing"), Status(Idle)} \subseteq Events
    /\ \A t \in Tasks, n \in Nat : PromptOf(t, n) \in Events
    /\ \A t \in Tasks : <<"InteractiveCommand", t>> \in Events
    /\ \A line \in Lines : <<"Input", line>> \in Events
  <1>1. Token \in Events BY DEF Events, Token
  <1>2. ToolExec \in Events BY DEF Events, ToolExec
  <1>3. \A t \in Tasks : StreamDone(t) \in Events BY DEF Events, StreamDone
  <1>4. \A t \in Tasks : PromptExpired(t) \in Events BY DEF Events, PromptExpired
  <1>5. EnterKey \in Events BY DEF Events, EnterKey
  <1>6. <<"Esc", "">> \in Events BY DEF Events
  <1>7. Status("executing") \in Events BY DEF Events, Status
  <1>8. Status("compressing") \in Events BY DEF Events, Status
  <1>9. Status(Idle) \in Events BY DEF Events, Status, Idle
  <1>10. \A t \in Tasks, n \in Nat : PromptOf(t, n) \in Events
    BY DEF Events, PromptOf
  <1>11. \A t \in Tasks : <<"InteractiveCommand", t>> \in Events
    BY DEF Events
  <1>12. \A line \in Lines : <<"Input", line>> \in Events
    BY DEF Events
  <1> QED BY <1>1, <1>2, <1>3, <1>4, <1>5, <1>6, <1>7, <1>8, <1>9, <1>10, <1>11, <1>12

LEMMA PromptIs ==
    /\ \A t, n : PromptOf(t, n)[1] = "Prompt" /\ PromptOf(t, n)[2] = <<t, n>>
    /\ \A t, n : PromptOf(t, n) # EnterKey /\ PromptOf(t, n) \notin Dismissals
  BY DEF PromptOf, EnterKey, Dismissals

(* An event that settles the status does not unsettle it. *)
LEMMA SettlesOrUnsettles == \A e : ~(Settles(e) /\ Unsettles(e))
  <1> SUFFICES ASSUME NEW e, Settles(e), Unsettles(e) PROVE FALSE
    OBVIOUS
  <1>1. Token[1] = "Token" /\ ToolExec[1] = "ToolExec"
    BY DEF Token, ToolExec
  <1>2. \A s : Status(s)[1] = "Status" /\ Status(s)[2] = s
    BY DEF Status
  <1>3. CASE e = Token \/ e = ToolExec
    BY <1>1, <1>2, <1>3 DEF Settles
  <1>4. CASE e = Status("executing") \/ e = Status("compressing")
    <2>1. e[1] = "Status" /\ e[2] # Idle
      BY <1>2, <1>4 DEF Idle
    <2> QED BY <1>1, <1>2, <2>1 DEF Settles
  <1> QED BY <1>3, <1>4 DEF Unsettles

-----------------------------------------------------------------------------
(* A step of task t, which sends the events more and becomes new. *)
TaskStep(t, new, more) ==
    /\ tasks[t].place # "done" /\ new \in TaskRecs /\ new.kind = tasks[t].kind
    /\ tasks' = [tasks EXCEPT ![t] = new]
    /\ more \in Seq(Events) /\ events' = events \o more
    /\ \A i \in DOMAIN more : more[i] # EnterKey
    /\ UNCHANGED <<buffer, status, pending, handle, initHandle, compressing, keys, enabled>>
    /\ stray' \in SUBSET Tasks /\ stray \subseteq stray'
    /\ said' \in [Tasks -> Words \ {"exit"}]
    /\ new.aborted = (tasks[t].aborted /\ new.place # "done")
    /\ new.place # "done" => new.asks >= tasks[t].asks
    /\ \A i \in DOMAIN more, u \in Tasks, n \in Nat :
          more[i] = PromptOf(u, n) => u = t /\ n <= new.asks
    /\ \A i \in DOMAIN more : more[i] \in Dismissals => more[i][2] = t
    /\ new.place = "asked" =>
          /\ new.kind = "turn" /\ new.asks > tasks[t].asks
          /\ \E i \in DOMAIN more : more[i] = PromptOf(t, new.asks)
          /\ \A i \in DOMAIN more : more[i] \notin Dismissals
    /\ new.place = "done" =>
          \/ stray' # {}
          \/ more # <<>> /\ Settles(more[Len(more)])
          \/ more = <<>> /\ tasks[t].kind = "init" /\ tasks[t].place = "asked"

(* What such a step does to the records and to the channel. *)
LEMMA TaskStepIs ==
    ASSUME IInv, ShapeInv, NEW t \in Tasks, NEW new, NEW more, TaskStep(t, new, more)
    PROVE  /\ tasks'[t] = new /\ \A u \in Tasks : u # t => tasks'[u] = tasks[u]
           /\ \A u \in Tasks : tasks'[u].kind = tasks[u].kind
           /\ tasks[t].place # "done" /\ tasks[t].kind # "none" /\ new.kind # "none"
           /\ tasks[t].asks \in Nat /\ new.asks \in Nat
           /\ more \in Seq(Events) /\ events' \in Seq(Events)
           /\ Len(events) \in Nat /\ Len(more) \in Nat
           /\ DOMAIN events = 1..Len(events) /\ DOMAIN more = 1..Len(more)
           /\ DOMAIN events' = 1..(Len(events) + Len(more))
           /\ \A i \in 1..Len(events) : events'[i] = events[i]
           /\ \A i \in 1..Len(more) : events'[Len(events) + i] = more[i]
           /\ \A i \in 1..(Len(events) + Len(more)) :
                 i \in 1..Len(events) \/ (i - Len(events) \in 1..Len(more) /\ events'[i] = more[i - Len(events)])
  <1>1. /\ tasks'[t] = new /\ \A u \in Tasks : u # t => tasks'[u] = tasks[u]
        /\ new.kind = tasks[t].kind /\ tasks[t].place # "done"
        /\ tasks[t].asks \in Nat /\ new.asks \in Nat
    BY FieldTypes DEF IInv, Typing, TaskStep
  <1>2. Unused.place = "done"
    BY DEF Unused
  <1>3. tasks[t].kind # "none"
    BY <1>1, <1>2 DEF ShapeInv
  <1>4. more \in Seq(Events) /\ events \in Seq(Events) /\ events' = events \o more
    BY DEF ShapeInv, TaskStep
  <1>5. /\ events \o more \in Seq(Events) /\ Len(events) \in Nat /\ Len(more) \in Nat
        /\ DOMAIN events = 1..Len(events) /\ DOMAIN more = 1..Len(more)
        /\ DOMAIN (events \o more) = 1..(Len(events) + Len(more))
        /\ \A i \in 1..Len(events) : (events \o more)[i] = events[i]
        /\ \A i \in 1..Len(more) : (events \o more)[Len(events) + i] = more[i]
        /\ \A i \in 1..(Len(events) + Len(more)) :
              i \in 1..Len(events) \/ (i - Len(events) \in 1..Len(more) /\ (events \o more)[i] = more[i - Len(events)])
    BY <1>4, MoreIs
  <1> QED BY <1>1, <1>3, <1>4, <1>5

LEMMA TaskStepShape ==
    ASSUME IInv, Channel, NEW t \in Tasks, NEW new, NEW more, TaskStep(t, new, more)
    PROVE  ShapeInv'
  <1>1. ShapeInv
    BY DEF Channel
  <1>2. /\ tasks'[t] = new /\ \A u \in Tasks : u # t => tasks'[u] = tasks[u]
        /\ new.kind # "none" /\ events' \in Seq(Events)
    BY <1>1, TaskStepIs
  <1>3. /\ \A u \in Tasks : tasks'[u].kind = "none" => tasks'[u] = Unused
        /\ \A u \in Tasks : tasks'[u].aborted => tasks'[u].place # "done"
    BY <1>1, <1>2 DEF ShapeInv, TaskStep
  <1> QED BY <1>1, <1>2, <1>3 DEF ShapeInv, TaskStep

LEMMA TaskStepStarted ==
    ASSUME IInv, Channel, NEW t \in Tasks, NEW new, NEW more, TaskStep(t, new, more)
    PROVE  StartedInv'
  <1>1. \A u \in Tasks : tasks'[u].kind = tasks[u].kind
    BY TaskStepIs DEF Channel
  <1>2. more \in Seq(Events) /\ events \in Seq(Events) /\ events' = events \o more
        /\ \A i \in DOMAIN more : more[i] # EnterKey
    BY DEF Channel, ShapeInv, TaskStep
  <1>3. Enters(events') = Enters(events)
    BY <1>2, EntersMore
  <1> QED BY <1>1, <1>3 DEF Channel, StartedInv, TaskStep

LEMMA TaskStepNumbers ==
    ASSUME IInv, Channel, NEW t \in Tasks, NEW new, NEW more, TaskStep(t, new, more)
    PROVE  NumbersInv'
  <1> SUFFICES ASSUME NEW u \in Tasks, NEW n \in Nat, Underway(u, n)'
               PROVE  /\ tasks'[u].kind # "none"
                      /\ tasks'[u].place # "done" => n <= tasks'[u].asks
    BY DEF NumbersInv
  <1>1. /\ tasks'[t] = new /\ \A v \in Tasks : v # t => tasks'[v] = tasks[v]
        /\ new.kind # "none" /\ tasks[t].place # "done"
        /\ tasks[t].asks \in Nat /\ new.asks \in Nat
    BY TaskStepIs DEF Channel
  <1>2. CASE Underway(u, n)
    BY <1>1, <1>2 DEF Channel, NumbersInv, TaskStep
  <1>3. CASE ~Underway(u, n)
    <2>1. pending' = pending
      BY DEF TaskStep
    <2>2. PICK i \in DOMAIN events' : events'[i] = PromptOf(u, n)
      BY <1>3, <2>1 DEF Underway, PromptOf
    <2>3. \A j \in DOMAIN events : events[j] # PromptOf(u, n)
      BY <1>3 DEF Underway
    <2>4. ShapeInv
      BY DEF Channel
    <2>5. /\ DOMAIN events' = 1..(Len(events) + Len(more))
          /\ DOMAIN events = 1..Len(events) /\ DOMAIN more = 1..Len(more)
          /\ \A j \in 1..Len(events) : events'[j] = events[j]
          /\ \A j \in 1..(Len(events) + Len(more)) :
                j \in 1..Len(events) \/ (j - Len(events) \in 1..Len(more) /\ events'[j] = more[j - Len(events)])
      BY <2>4, TaskStepIs
    <2>6. i - Len(events) \in DOMAIN more /\ more[i - Len(events)] = PromptOf(u, n)
      BY <2>2, <2>3, <2>5
    <2> QED BY <2>6, <1>1 DEF TaskStep
  <1> QED BY <1>2, <1>3

LEMMA TaskStepAlone ==
    ASSUME IInv, Channel, NEW t \in Tasks, NEW new, NEW more, TaskStep(t, new, more)
    PROVE  AloneInv'
  <1>1. /\ tasks'[t] = new /\ \A v \in Tasks : v # t => tasks'[v] = tasks[v]
        /\ new.kind = tasks[t].kind /\ tasks[t].place # "done"
    BY DEF IInv, Typing, TaskStep
  <1>2. /\ initHandle' = initHandle /\ stray \subseteq stray'
        /\ new.aborted = (tasks[t].aborted /\ new.place # "done")
    BY DEF TaskStep
  <1> QED BY <1>1, <1>2 DEF Channel, AloneInv, Live, Finished

LEMMA TaskStepReachable ==
    ASSUME IInv, Channel, NEW t \in Tasks, NEW new, NEW more, TaskStep(t, new, more)
    PROVE  AskedIsReachable'
  <1> SUFFICES ASSUME NEW u \in Tasks, tasks'[u].place = "asked", Live(u)', tasks'[u].answer = "none"
               PROVE  \/ pending' = <<u, tasks'[u].asks>>
                      \/ \E i \in DOMAIN events' : events'[i] = PromptOf(u, tasks'[u].asks)
    BY DEF AskedIsReachable, PromptOf
  <1>1. /\ tasks'[t] = new /\ \A v \in Tasks : v # t => tasks'[v] = tasks[v]
    BY DEF IInv, Typing, TaskStep
  <1>2. CASE u = t
    <2>1. PICK i \in DOMAIN more : more[i] = PromptOf(t, new.asks)
      BY <1>1, <1>2 DEF TaskStep
    <2>2. ShapeInv
      BY DEF Channel
    <2>3. /\ DOMAIN events' = 1..(Len(events) + Len(more)) /\ DOMAIN more = 1..Len(more)
          /\ Len(events) \in Nat /\ Len(more) \in Nat
          /\ \A j \in 1..Len(more) : events'[Len(events) + j] = more[j]
      BY <2>2, TaskStepIs
    <2>4. Len(events) + i \in DOMAIN events' /\ events'[Len(events) + i] = more[i]
      BY <2>1, <2>3
    <2> QED BY <2>1, <2>4, <1>1, <1>2
  <1>3. CASE u # t
    <2>1. tasks'[u] = tasks[u] /\ pending' = pending
      BY <1>1, <1>3 DEF TaskStep
    <2>2. \/ pending = <<u, tasks[u].asks>>
          \/ \E i \in DOMAIN events : events[i] = PromptOf(u, tasks[u].asks)
      BY <2>1 DEF Channel, AskedIsReachable, Live, Finished, PromptOf
    <2>3. \A i \in DOMAIN events : i \in DOMAIN events' /\ events'[i] = events[i]
      <3>1. ShapeInv
        BY DEF Channel
      <3>2. /\ Len(events) \in Nat /\ Len(more) \in Nat
            /\ DOMAIN events = 1..Len(events) /\ DOMAIN events' = 1..(Len(events) + Len(more))
            /\ \A i \in 1..Len(events) : events'[i] = events[i]
        BY <3>1, TaskStepIs
      <3>3. 1..Len(events) \subseteq 1..(Len(events) + Len(more))
        BY <3>2
      <3> QED BY <3>2, <3>3
    <2> QED BY <2>1, <2>2, <2>3 DEF TaskStep
  <1> QED BY <1>2, <1>3

LEMMA TaskStepAhead ==
    ASSUME IInv, Channel, NEW t \in Tasks, NEW new, NEW more, TaskStep(t, new, more)
    PROVE  AheadInv'
  <1> SUFFICES ASSUME NEW u \in Tasks, Waiting(u)', Live(u)',
                      NEW i \in DOMAIN events', Regular(events[i])'
               PROVE  /\ pending' # <<u, tasks'[u].asks>>
                      /\ \A j \in DOMAIN events' :
                            events'[j] = PromptOf(u, tasks'[u].asks) => i < j
    BY DEF AheadInv, Regular
  <1>1. /\ tasks'[t] = new /\ \A v \in Tasks : v # t => tasks'[v] = tasks[v]
        /\ tasks[t].place # "done" /\ tasks[t].asks \in Nat /\ new.asks \in Nat
    BY FieldTypes DEF IInv, Typing, TaskStep
  <1>2. ShapeInv
    BY DEF Channel
  <1>3. /\ DOMAIN events' = 1..(Len(events) + Len(more)) /\ Len(events) \in Nat /\ Len(more) \in Nat
        /\ DOMAIN events = 1..Len(events) /\ DOMAIN more = 1..Len(more)
        /\ \A j \in 1..Len(events) : events'[j] = events[j]
        /\ \A j \in 1..(Len(events) + Len(more)) :
              j \in 1..Len(events) \/ (j - Len(events) \in 1..Len(more) /\ events'[j] = more[j - Len(events)])
    BY <1>2, TaskStepIs
  <1>4. events'[i] \in Dismissals /\ events'[i][2] \notin stray' /\ events'[i][2] \notin stray
    BY DEF Regular, TaskStep
  <1>5. i \in DOMAIN events /\ Regular(events[i])
    <2>1. CASE i \in DOMAIN events
      BY <1>3, <1>4, <2>1 DEF Regular
    <2>2. CASE i - Len(events) \in DOMAIN more /\ events'[i] = more[i - Len(events)]
      <3>1. events'[i][2] = t
        BY <1>4, <2>2 DEF TaskStep
      <3>2. Live(t)
        BY <1>1, <1>4, <3>1 DEF Channel, AloneInv, Live, Finished
      <3>3. u = t
        <4>1. CASE u # t
          BY <1>1, <3>2, <4>1 DEF Channel, AloneInv, Live, Finished
        <4> QED BY <4>1
      <3>4. new.place = "asked"
        BY <1>1, <3>3 DEF Waiting
      <3> QED BY <1>4, <2>2, <3>4 DEF TaskStep
    <2> QED BY <1>3, <2>1, <2>2
  <1>6. ~Underway(u, tasks'[u].asks) \/ (u # t /\ tasks'[u] = tasks[u])
    <2>1. CASE u = t
      <3>1. new.place = "asked" /\ new.asks > tasks[t].asks
        BY <1>1, <2>1 DEF Waiting, TaskStep
      <3>2. ~(new.asks <= tasks[t].asks)
        BY <1>1, <3>1
      <3> QED BY <1>1, <2>1, <3>2 DEF Channel, NumbersInv
    <2> QED BY <1>1, <2>1
  <1>7. /\ pending # <<u, tasks'[u].asks>>
        /\ \A j \in DOMAIN events : events[j] = PromptOf(u, tasks'[u].asks) => i < j
    <2>1. CASE u # t /\ tasks'[u] = tasks[u]
      BY <1>5, <2>1 DEF Channel, AheadInv, Waiting, Live, Finished
    <2> QED BY <1>6, <2>1 DEF Underway
  <1>8. ASSUME NEW j \in DOMAIN events', events'[j] = PromptOf(u, tasks'[u].asks)
        PROVE  i < j
    <2>1. CASE j \in DOMAIN events
      BY <1>3, <1>7, <1>8, <2>1
    <2>2. CASE j \notin DOMAIN events
      BY <1>3, <1>5, <2>2
    <2> QED BY <2>1, <2>2
  <1>9. pending' = pending
    BY DEF TaskStep
  <1> QED BY <1>7, <1>8, <1>9

LEMMA SettledAtEnd ==
    ASSUME NEW s \in Seq(Events), NEW more \in Seq(Events), more # <<>>, Settles(more[Len(more)]),
           events' = s \o more
    PROVE  Settled'
  <1>0. Len(more) \in Nat \ {0}
    BY EmptySeq, LenProperties
  <1>1. /\ Len(more) \in Nat \ {0} /\ Len(s) \in Nat
        /\ DOMAIN events' = 1..(Len(s) + Len(more))
        /\ events'[Len(s) + Len(more)] = more[Len(more)]
    <2>1. Len(more) \in 1..Len(more)
      BY <1>0
    <2> QED BY <1>0, <2>1, MoreIs
  <1> DEFINE n == Len(s) + Len(more)
  <1>2. n \in DOMAIN events' /\ Settles(events'[n])
    BY <1>1
  <1>3. Settles(more[Len(more)]) => ~Unsettles(more[Len(more)])
    BY SettlesOrUnsettles
  <1>4. \A i \in DOMAIN events' : i = n \/ i < n
    <2>1. DOMAIN events' = 1..n /\ n \in Nat
      BY <1>1
    <2> HIDE DEF n
    <2> QED BY <2>1
  <1>5. ~Unsettles(events'[n])
    BY <1>1, <1>3
  <1>6. \A i \in DOMAIN events' : Unsettles(events'[i]) => i < n
    BY <1>4, <1>5
  <1> HIDE DEF n
  <1> QED BY <1>2, <1>6 DEF Settled, Settles, Unsettles, Status, Idle, Token, ToolExec

LEMMA TaskStepSettled ==
    ASSUME IInv, Channel, NEW t \in Tasks, NEW new, NEW more, TaskStep(t, new, more)
    PROVE  SettledInv'
  <1>1. /\ tasks'[t] = new /\ \A v \in Tasks : v # t => tasks'[v] = tasks[v]
    BY DEF IInv, Typing, TaskStep
  <1>2. CASE new.place # "done"
    <2>1. Reports(t)'
      BY <1>1, <1>2 DEF Reports, Finished, TaskStep
    <2> QED BY <2>1 DEF SettledInv, Reports, Finished
  <1>3. CASE new.place = "done" /\ stray' # {}
    BY <1>3 DEF SettledInv
  <1>4. CASE more # <<>> /\ Settles(more[Len(more)])
    <2>1. Settled'
      BY <1>4, SettledAtEnd DEF TaskStep, Channel, ShapeInv
    <2> QED BY <2>1 DEF SettledInv
  <1>5. CASE more = <<>> /\ tasks[t].kind = "init" /\ tasks[t].place = "asked" /\ stray' = {}
    <2>1. events' = events
      BY <1>5, ConcatEmptySeq DEF TaskStep, Channel, ShapeInv
    <2>2. \A u \in Tasks : Reports(u) => Reports(u)'
      BY <1>1, <1>5 DEF Reports, Finished
    <2>3. UNCHANGED <<status, pending, compressing>> /\ stray = {}
      BY <1>5 DEF TaskStep
    <2>4. Settled => Settled'
      BY <2>1, <2>3 DEF Settled, Settles, Unsettles, Status, Idle, Token, ToolExec
    <2> QED BY <2>2, <2>3, <2>4 DEF SettledInv, Channel
  <1> QED BY <1>2, <1>3, <1>4, <1>5 DEF TaskStep

(* A step of a task takes nothing from the channel. *)
TaskKept == Channel' /\ Len(events') >= Len(events)

LEMMA TaskStepKeeps ==
    ASSUME IInv, Channel, NEW t \in Tasks, NEW new, NEW more, TaskStep(t, new, more)
    PROVE  TaskKept
  <1>1. Channel'
    BY TaskStepShape, TaskStepStarted, TaskStepNumbers, TaskStepAlone, TaskStepReachable,
       TaskStepAhead, TaskStepSettled DEF Channel
  <1>2. Len(events') >= Len(events)
    <2>1. ShapeInv
      BY DEF Channel
    <2>2. /\ Len(events) \in Nat /\ Len(more) \in Nat /\ events' \in Seq(Events)
          /\ DOMAIN events' = 1..(Len(events) + Len(more))
      BY <2>1, TaskStepIs
    <2>3. DOMAIN events' = 1..Len(events') /\ Len(events') \in Nat
      BY <2>2, LenProperties
    <2>4. Len(events') = Len(events) + Len(more)
      BY <2>2, <2>3
    <2> QED BY <2>2, <2>4
  <1> QED BY <1>1, <1>2 DEF TaskKept
-----------------------------------------------------------------------------
(* A task that has at most been aborted or answered, and whose question is *)
(* not dropped without an answer.                                          *)
Undisturbed(u) ==
    /\ tasks'[u].kind = tasks[u].kind /\ tasks'[u].place = tasks[u].place
    /\ tasks'[u].asks = tasks[u].asks
    /\ tasks[u].place = "done" => tasks'[u] = tasks[u]
    /\ tasks[u].aborted => tasks'[u].aborted
    /\ tasks'[u].aborted => tasks[u].aborted \/ u \in stray'
    /\ tasks'[u].answer = "none" => tasks[u].answer = "none"
    /\ Waiting(u)' /\ pending = <<u, tasks[u].asks>> => pending' = pending
    /\ tasks[u].kind = "init" /\ Live(u)' => initHandle' = initHandle

(* A step of the loop that takes an event and starts no task. *)
LoopStep ==
    /\ events # <<>> /\ events' = Tail(events)
    /\ \A u \in Tasks : Undisturbed(u)
    /\ pending' \in IF events[1][1] = "Prompt" THEN {events[1][2]} ELSE {pending, None}
    /\ buffer' \in Lines \cup {"", "mixed"} /\ status' \in {Idle} \cup Busy
    /\ handle' \in {handle, 0} /\ initHandle' \in {initHandle, 0}
    /\ compressing' \in {compressing, <<compressing[1] + 1, compressing[2]>>}
    /\ keys' = keys /\ enabled' \in BOOLEAN
    /\ stray' \in SUBSET Tasks /\ stray \subseteq stray'
    /\ said' \in [Tasks -> Words \ {"exit"}]
    /\ \/ status' = Idle \/ pending' # None \/ Unsettles(events[1])
       \/ status' = status /\ pending' = pending /\ ~Settles(events[1])

LEMMA Bounds == MaxKeys \in Nat /\ MaxQueued \in Nat /\ MaxRequests \in Nat /\ Keep \in Nat
  BY TuiAssumption

(* An event called Prompt carries a question. *)
LEMMA PromptEvent ==
    ASSUME NEW e \in Events, e[1] = "Prompt"
    PROVE  e[2] \in Tasks \X Nat /\ e = <<"Prompt", e[2]>>
  <1>1. e \in {"Prompt"} \X (Tasks \X Nat)
    BY DEF Events
  <1> QED BY <1>1

LEMMA LoopStepShape ==
    ASSUME IInv, Channel, LoopStep
    PROVE  ShapeInv'
  <1>1. events \in Seq(Events) /\ events # <<>> /\ ShapeInv
    BY DEF Channel, ShapeInv, LoopStep
  <1>2. /\ events' \in Seq(Events) /\ events[1] \in Events
    <2>1. Tail(events) \in Seq(Events) /\ Len(events) \in Nat \ {0} /\ DOMAIN events = 1..Len(events)
      BY <1>1, TailIs
    <2>2. 1 \in DOMAIN events
      BY <2>1
    <2>3. events[1] \in Events
      BY <1>1, <2>2, ElementOfSeq
    <2> QED BY <2>1, <2>3 DEF LoopStep
  <1>3. pending' \in {None} \cup (Tasks \X Nat)
    <2>1. CASE events[1][1] = "Prompt"
      <3>1. events[1][2] \in Tasks \X Nat
        BY <1>2, <2>1, PromptEvent
      <3>2. pending' = events[1][2]
        BY <2>1 DEF LoopStep
      <3> QED BY <3>1, <3>2
    <2>2. CASE events[1][1] # "Prompt"
      BY <1>1, <2>2 DEF LoopStep, Undisturbed, ShapeInv
    <2> QED BY <2>1, <2>2
  <1>4. compressing' \in Nat \X Nat
    <2>1. /\ compressing \in Nat \X Nat
          /\ compressing' \in {compressing, <<compressing[1] + 1, compressing[2]>>}
      BY <1>1 DEF LoopStep, Undisturbed, ShapeInv
    <2>2. compressing[1] + 1 \in Nat /\ compressing[2] \in Nat
      BY <2>1
    <2> QED BY <2>1, <2>2
  <1>5. \A u \in Tasks : tasks'[u].kind = "none" => tasks'[u] = Unused
    <2>1. Unused.place = "done"
      BY DEF Unused
    <2> QED BY <1>1, <2>1 DEF LoopStep, Undisturbed, ShapeInv
  <1>6. \A u \in Tasks : tasks'[u].aborted => tasks'[u].place # "done"
    BY <1>1 DEF LoopStep, Undisturbed, ShapeInv
  <1>7. handle' \in 0..MaxKeys /\ initHandle' \in 0..MaxKeys
    <2>1. 0 \in 0..MaxKeys
      BY Bounds
    <2> QED BY <1>1, <2>1 DEF LoopStep, Undisturbed, ShapeInv
  <1> QED BY <1>1, <1>2, <1>3, <1>4, <1>5, <1>6, <1>7 DEF LoopStep, Undisturbed, ShapeInv

(* What is in the channel afterwards was there before, one place further on. *)
LEMMA LoopStepIs ==
    ASSUME Channel, LoopStep
    PROVE  /\ events' \in Seq(Events) /\ events \in Seq(Events) /\ 1 \in DOMAIN events
           /\ \A i \in DOMAIN events' : i \in Nat /\ i + 1 \in DOMAIN events /\ events'[i] = events[i + 1]
           /\ \A i \in DOMAIN events :
                 i \in Nat /\ (i = 1 \/ (i - 1 \in DOMAIN events' /\ events'[i - 1] = events[i]))
  <1>1. events \in Seq(Events) /\ events # <<>> /\ events' = Tail(events)
    BY DEF Channel, ShapeInv, LoopStep
  <1>2. /\ Tail(events) \in Seq(Events) /\ Len(events) \in Nat \ {0}
        /\ DOMAIN events = 1..Len(events) /\ DOMAIN Tail(events) = 1..(Len(events) - 1)
        /\ \A i \in 1..(Len(events) - 1) : Tail(events)[i] = events[i + 1] /\ i + 1 \in 1..Len(events)
        /\ \A i \in 1..Len(events) :
              i = 1 \/ (i - 1 \in 1..(Len(events) - 1) /\ Tail(events)[i - 1] = events[i])
    BY <1>1, TailIs
  <1> QED BY <1>1, <1>2

LEMMA LoopStepStarted ==
    ASSUME IInv, Channel, LoopStep
    PROVE  StartedInv'
  <1>1. events \in Seq(Events) /\ events # <<>> /\ events' = Tail(events)
    BY DEF Channel, ShapeInv, LoopStep
  <1>2. Tail(events) \in Seq(Events)
    BY <1>1, TailIs
  <1>3. /\ Cardinality(Enters(events')) \in Nat /\ Cardinality(Enters(events)) \in Nat
        /\ Cardinality(Enters(events')) + (IF events[1] = EnterKey THEN 1 ELSE 0) = Cardinality(Enters(events))
    BY <1>1, <1>2, EntersFinite, EntersTail
  <1> DEFINE m == Cardinality(Enters(events))
             n == Cardinality(Enters(events'))
  <1>4. m \in Nat /\ n \in Nat /\ n <= m
    BY <1>3
  <1>5. PICK k \in 0..MaxKeys : (\A t \in Tasks : tasks[t].kind # "none" <=> t <= k) /\ k + m <= keys.pressed
    BY DEF Channel, StartedInv
  <1>6. keys' = keys /\ keys.pressed \in Nat /\ \A t \in Tasks : tasks'[t].kind = tasks[t].kind
    <2>1. keys \in [pressed : 0..MaxKeys, mid : BOOLEAN]
      BY DEF Channel, ShapeInv
    <2>2. keys.pressed \in Nat
      BY <2>1, Bounds
    <2> QED BY <2>2 DEF LoopStep, Undisturbed
  <1>7. k + n <= keys'.pressed
    <2> HIDE DEF m, n
    <2> QED BY <1>4, <1>5, <1>6
  <1> QED BY <1>5, <1>6, <1>7 DEF StartedInv

LEMMA LoopStepNumbers ==
    ASSUME IInv, Channel, LoopStep
    PROVE  NumbersInv'
  <1> SUFFICES ASSUME NEW u \in Tasks, NEW n \in Nat, Underway(u, n)'
               PROVE  /\ tasks'[u].kind # "none"
                      /\ tasks'[u].place # "done" => n <= tasks'[u].asks
    BY DEF NumbersInv
  <1>1. Underway(u, n)
    <2>1. CASE pending' = <<u, n>>
      <3>1. CASE events[1][1] = "Prompt"
        <4>1. events[1][2] = <<u, n>>
          BY <2>1, <3>1 DEF LoopStep
        <4>2. events[1] = PromptOf(u, n)
          <5>1. events[1] \in Events
            BY LoopStepIs, ElementOfSeq
          <5> QED BY <3>1, <4>1, <5>1, PromptEvent DEF PromptOf
        <4> QED BY <4>2, LoopStepIs DEF Underway
      <3>2. CASE events[1][1] # "Prompt"
        BY <2>1, <3>2 DEF LoopStep, None, Underway
      <3> QED BY <3>1, <3>2
    <2>2. CASE \E i \in DOMAIN events' : events'[i] = PromptOf(u, n)
      BY <2>2, LoopStepIs DEF Underway
    <2> QED BY <2>1, <2>2 DEF Underway, PromptOf
  <1> QED BY <1>1 DEF Channel, NumbersInv, LoopStep, Undisturbed

LEMMA LoopStepAlone ==
    ASSUME IInv, Channel, LoopStep
    PROVE  AloneInv'
  <1>1. \A u \in Tasks : /\ tasks'[u].kind = tasks[u].kind /\ tasks'[u].place = tasks[u].place
                         /\ tasks[u].aborted => tasks'[u].aborted
                         /\ tasks'[u].aborted => tasks[u].aborted \/ u \in stray'
                         /\ tasks[u].kind = "init" /\ Live(u)' => initHandle' = initHandle
    BY DEF LoopStep, Undisturbed
  <1>2. stray \subseteq stray'
    BY DEF LoopStep, Undisturbed
  <1> QED BY <1>1, <1>2 DEF Channel, AloneInv, Live, Finished

LEMMA LoopStepReachable ==
    ASSUME IInv, Channel, LoopStep
    PROVE  AskedIsReachable'
  <1> SUFFICES ASSUME NEW u \in Tasks, tasks'[u].place = "asked", Live(u)', tasks'[u].answer = "none"
               PROVE  \/ pending' = <<u, tasks'[u].asks>>
                      \/ \E i \in DOMAIN events' : events'[i] = PromptOf(u, tasks'[u].asks)
    BY DEF AskedIsReachable, PromptOf
  <1>1. /\ tasks[u].place = "asked" /\ Live(u) /\ tasks[u].answer = "none"
        /\ tasks'[u].asks = tasks[u].asks /\ Waiting(u)'
    BY DEF LoopStep, Undisturbed, Live, Finished, Waiting
  <1>2. CASE pending = <<u, tasks[u].asks>>
    BY <1>1, <1>2 DEF LoopStep, Undisturbed
  <1>3. CASE \E i \in DOMAIN events : events[i] = PromptOf(u, tasks[u].asks)
    <2>1. PICK i \in DOMAIN events : events[i] = PromptOf(u, tasks[u].asks)
      BY <1>3
    <2>2. CASE i = 1
      <3>1. events[1][1] = "Prompt" /\ events[1][2] = <<u, tasks[u].asks>>
        BY <2>1, <2>2 DEF PromptOf
      <3>2. pending' = events[1][2]
        BY <3>1 DEF LoopStep
      <3> QED BY <1>1, <3>1, <3>2
    <2>3. CASE i # 1
      BY <1>1, <2>1, <2>3, LoopStepIs
    <2> QED BY <2>2, <2>3
  <1> QED BY <1>1, <1>2, <1>3 DEF Channel, AskedIsReachable, PromptOf

LEMMA LoopStepAhead ==
    ASSUME IInv, Channel, LoopStep
    PROVE  AheadInv'
  <1> SUFFICES ASSUME NEW u \in Tasks, Waiting(u)', Live(u)',
                      NEW i \in DOMAIN events', Regular(events[i])'
               PROVE  /\ pending' # <<u, tasks'[u].asks>>
                      /\ \A j \in DOMAIN events' :
                            events'[j] = PromptOf(u, tasks'[u].asks) => i < j
    BY DEF AheadInv, Regular
  <1>1. Waiting(u) /\ Live(u) /\ tasks'[u].asks = tasks[u].asks
    BY DEF LoopStep, Undisturbed, Waiting, Live, Finished
  <1>2. i \in Nat /\ i + 1 \in DOMAIN events /\ Regular(events[i + 1])
    BY LoopStepIs DEF Regular, LoopStep
  <1>3. /\ pending # <<u, tasks[u].asks>>
        /\ \A j \in DOMAIN events : events[j] = PromptOf(u, tasks[u].asks) => i + 1 < j
    BY <1>1, <1>2 DEF Channel, AheadInv
  <1>4. pending' # <<u, tasks[u].asks>>
    <2>1. CASE events[1][1] = "Prompt"
      <3>1. 1 \in DOMAIN events /\ events[1] = <<"Prompt", pending'>>
        <4>1. events[1] \in Events /\ 1 \in DOMAIN events
          BY LoopStepIs, ElementOfSeq
        <4>2. pending' = events[1][2]
          BY <2>1 DEF LoopStep
        <4> QED BY <2>1, <4>1, <4>2, PromptEvent
      <3>2. events[1] # PromptOf(u, tasks[u].asks)
        BY <1>2, <1>3, <3>1
      <3> QED BY <3>1, <3>2 DEF PromptOf
    <2>2. CASE events[1][1] # "Prompt"
      <3>1. pending' \in {pending, None}
        BY <2>2 DEF LoopStep, Undisturbed
      <3>2. None # <<u, tasks[u].asks>>
        BY DEF None
      <3> QED BY <1>3, <3>1, <3>2
    <2> QED BY <2>1, <2>2
  <1>5. ASSUME NEW j \in DOMAIN events', events'[j] = PromptOf(u, tasks[u].asks)
        PROVE  i < j
    <2>1. j \in Nat /\ j + 1 \in DOMAIN events /\ events[j + 1] = PromptOf(u, tasks[u].asks)
      BY <1>5, LoopStepIs
    <2>2. i + 1 < j + 1
      BY <1>3, <2>1
    <2> QED BY <1>2, <2>1, <2>2
  <1> QED BY <1>1, <1>4, <1>5

LEMMA LoopStepSettled ==
    ASSUME IInv, Channel, LoopStep
    PROVE  SettledInv'
  <1>1. CASE stray # {} \/ \E u \in Tasks : Reports(u)
    BY <1>1 DEF SettledInv, LoopStep, Undisturbed, Reports, Finished
  <1>2. CASE compressing # <<0, 0>>
    <2>1. /\ compressing \in Nat \X Nat
          /\ compressing' \in {compressing, <<compressing[1] + 1, compressing[2]>>}
      BY DEF LoopStep, Channel, ShapeInv
    <2>2. compressing[1] + 1 # 0
      BY <2>1
    <2>3. compressing' # <<0, 0>>
      BY <1>2, <2>1, <2>2
    <2> QED BY <2>3 DEF SettledInv
  <1>3. CASE Settled
    <2>1. ASSUME NEW i \in DOMAIN events', Unsettles(events'[i])
          PROVE  \E j \in DOMAIN events' : i < j /\ Settles(events'[j])
      <3>1. i \in Nat /\ i + 1 \in DOMAIN events /\ events'[i] = events[i + 1]
        BY LoopStepIs
      <3>2. PICK j \in DOMAIN events : i + 1 < j /\ Settles(events[j])
        BY <1>3, <2>1, <3>1 DEF Settled
      <3>3. j \in Nat /\ j - 1 \in DOMAIN events' /\ events'[j - 1] = events[j]
        BY <3>1, <3>2, LoopStepIs
      <3>4. i < j - 1
        BY <3>1, <3>2, <3>3
      <3> QED BY <3>2, <3>3, <3>4
    <2>2. status' = Idle \/ pending' # None \/ \E i \in DOMAIN events' : Settles(events'[i])
      <3>1. CASE Unsettles(events[1])
        <4>1. PICK j \in DOMAIN events : 1 < j /\ Settles(events[j])
          BY <1>3, <3>1, LoopStepIs DEF Settled
        <4>2. j - 1 \in DOMAIN events' /\ events'[j - 1] = events[j]
          BY <4>1, LoopStepIs
        <4> QED BY <4>1, <4>2
      <3>2. CASE status' = status /\ pending' = pending /\ ~Settles(events[1])
        <4>1. ASSUME NEW j \in DOMAIN events, Settles(events[j])
              PROVE  j - 1 \in DOMAIN events' /\ events'[j - 1] = events[j]
          BY <3>2, <4>1, LoopStepIs
        <4> QED BY <1>3, <3>2, <4>1 DEF Settled
      <3> QED BY <3>1, <3>2 DEF LoopStep
    <2> QED BY <2>1, <2>2 DEF SettledInv, Settled, Settles, Unsettles, Status, Idle, Token, ToolExec
  <1> QED BY <1>1, <1>2, <1>3 DEF Channel, SettledInv

LEMMA LoopStepKeeps ==
    ASSUME IInv, Channel, LoopStep
    PROVE  Channel'
  BY LoopStepShape, LoopStepStarted, LoopStepNumbers, LoopStepAlone, LoopStepReachable,
     LoopStepAhead, LoopStepSettled DEF Channel
-----------------------------------------------------------------------------
(* A line that starts a task, which may ask its first question at once. *)
StartStep(new, more) ==
    /\ events # <<>> /\ events[1] = EnterKey /\ MaySubmit /\ pending = None
    /\ new \in TaskRecs /\ new.kind # "none" /\ new.place # "done" /\ ~new.aborted
    /\ tasks' = [AfterAbort EXCEPT ![Fresh] = new]
    /\ events' = Tail(events) \o more
    /\ more = IF new.place = "asked" THEN <<PromptOf(Fresh, new.asks)>> ELSE <<>>
    /\ new.place = "asked" => new.kind = "init"
    /\ initHandle' = IF new.kind = "init" THEN Fresh ELSE 0
    /\ handle' \in {handle, Fresh}
    /\ pending' = None /\ status' \in {Idle} \cup Busy /\ buffer' = ""
    /\ UNCHANGED <<compressing, keys, said>> /\ enabled' \in BOOLEAN
    /\ stray' = Strays(AfterAbort)

(* The task it starts is the next one, and there is room for it. *)
LEMMA FreshIs ==
    ASSUME Channel, events # <<>>, events[1] = EnterKey
    PROVE  \E k \in 0..MaxKeys :
              /\ \A t \in Tasks : tasks[t].kind # "none" <=> t <= k
              /\ Fresh = k + 1 /\ Fresh \in Tasks /\ tasks[Fresh].kind = "none"
              /\ k + 1 + Cardinality(Enters(Tail(events))) <= keys.pressed
  <1>1. events \in Seq(Events)
    BY DEF Channel, ShapeInv
  <1>2. Tail(events) \in Seq(Events)
    BY <1>1, TailIs
  <1> DEFINE m == Cardinality(Enters(events))
             n == Cardinality(Enters(Tail(events)))
  <1>3. m \in Nat /\ n \in Nat /\ n + 1 = m
    BY <1>1, <1>2, EntersFinite, EntersTail
  <1>4. PICK k \in 0..MaxKeys : (\A t \in Tasks : tasks[t].kind # "none" <=> t <= k) /\ k + m <= keys.pressed
    BY DEF Channel, StartedInv
  <1>5. keys.pressed \in 0..MaxKeys
    BY DEF Channel, ShapeInv
  <1> HIDE DEF m, n
  <1>6. k \in Nat /\ k + 1 \in 1..MaxKeys /\ k + 1 + n <= keys.pressed
    BY <1>3, <1>4, <1>5, Bounds
  <1>7. /\ k + 1 \in Tasks /\ tasks[k + 1].kind = "none"
        /\ \A u \in 1..k : u \in Tasks /\ tasks[u].kind # "none"
    BY <1>4, <1>6, Bounds DEF Tasks
  <1>8. \A t \in Tasks : tasks[t].kind = "none" /\ (\A u \in 1..(t - 1) : tasks[u].kind # "none") => t = k + 1
    <2> SUFFICES ASSUME NEW t \in Tasks, tasks[t].kind = "none", \A u \in 1..(t - 1) : tasks[u].kind # "none"
                 PROVE  t = k + 1
      OBVIOUS
    <2>1. t \in Nat /\ t > k
      BY <1>4, <1>6 DEF Tasks
    <2>2. ~(k + 1 \in 1..(t - 1))
      BY <1>7
    <2> QED BY <1>6, <2>1, <2>2
  <1>9. (k + 1) - 1 = k
    BY <1>6
  <1>10. Fresh = k + 1
    BY <1>7, <1>8, <1>9 DEF Fresh
  <1> QED BY <1>4, <1>6, <1>7, <1>10 DEF n

(* What such a step does: every other task is as it was or aborted. *)
LEMMA StartStepIs ==
    ASSUME IInv, Channel, NEW new, NEW more, StartStep(new, more)
    PROVE  /\ Fresh \in Tasks /\ tasks[Fresh].kind = "none" /\ tasks[Fresh].place = "done"
           /\ tasks'[Fresh] = new
           /\ \A u \in Tasks : u # Fresh =>
                 /\ tasks'[u].kind = tasks[u].kind /\ tasks'[u].place = tasks[u].place
                 /\ tasks'[u].asks = tasks[u].asks /\ tasks'[u].answer = tasks[u].answer
                 /\ tasks[u].kind = "none" => tasks'[u] = tasks[u]
                 /\ tasks[u].aborted => tasks'[u].aborted
                 /\ tasks'[u].aborted => tasks'[u].place # "done"
                 /\ u = initHandle /\ tasks[u].place # "done" => tasks'[u].aborted
           /\ stray' \in SUBSET Tasks /\ stray \subseteq stray'
           /\ \A u \in Tasks : tasks'[u].aborted => u \in stray'
           /\ \A u \in Tasks : u # Fresh => ~Live(u)'
  <1>1. /\ events # <<>> /\ events[1] = EnterKey /\ MaySubmit
        /\ tasks' = [AfterAbort EXCEPT ![Fresh] = new]
        /\ stray' = Strays(AfterAbort)
    BY DEF StartStep
  <1>2. Fresh \in Tasks /\ tasks[Fresh].kind = "none"
    BY <1>1, FreshIs
  <1>3. Unused.place = "done" /\ Unused.aborted = FALSE
    BY DEF Unused
  <1>4. /\ \A u \in Tasks : tasks[u].kind = "none" => tasks[u] = Unused
        /\ \A u \in Tasks : tasks[u].aborted => tasks[u].place # "done"
    BY DEF Channel, ShapeInv
  <1>5. Typing /\ tasks \in [Tasks -> TaskRecs]
    BY DEF IInv, Typing
  <1>6. AfterAbort \in [Tasks -> TaskRecs]
    BY <1>5, AbortEffect DEF AfterAbort
  <1>7. \A u \in Tasks :
           /\ AfterAbort[u].kind = tasks[u].kind /\ AfterAbort[u].place = tasks[u].place
           /\ AfterAbort[u].asks = tasks[u].asks /\ AfterAbort[u].answer = tasks[u].answer
           /\ tasks[u].place = "done" => AfterAbort[u] = tasks[u]
           /\ tasks[u].aborted => AfterAbort[u].aborted
           /\ u = initHandle /\ tasks[u].place # "done" => AfterAbort[u].aborted
    <2>1. \A r \in TaskRecs :
             LET dead == [r EXCEPT !.aborted = TRUE] IN
             /\ dead.aborted /\ dead.kind = r.kind /\ dead.place = r.place
             /\ dead.answer = r.answer /\ dead.asks = r.asks
      BY DEF TaskRecs
    <2>2. \A u \in Tasks : u # 0
      BY DEF Tasks
    <2> QED BY <1>5, <2>1, <2>2 DEF AfterAbort, Aborted
  <1>8. \A u \in Tasks : tasks'[u] = IF u = Fresh THEN new ELSE AfterAbort[u]
    BY <1>1, <1>2, <1>6
  <1>9. \A u \in Tasks : u # Fresh => (tasks'[u].aborted => tasks'[u].place # "done")
    BY <1>4, <1>7, <1>8
  <1>10. ASSUME NEW u \in Tasks, u # Fresh
         PROVE  ~Live(u)'
    <2>1. tasks[u].kind \in {"none", "turn", "init"}
      BY <1>5 DEF TaskRecs
    <2>2. tasks'[u] = AfterAbort[u]
      BY <1>8, <1>10
    <2>3. CASE tasks[u].kind = "none"
      BY <1>3, <1>4, <1>7, <2>2, <2>3 DEF Live, Finished
    <2>4. CASE tasks[u].kind = "turn"
      <3>1. ~Live(u)
        BY <1>1, <2>4, SubmitsAlone
      <3> QED BY <1>7, <2>2, <3>1 DEF Live, Finished
    <2>5. CASE tasks[u].kind = "init"
      <3>1. Live(u) => initHandle = u
        BY <2>5 DEF Channel, AloneInv
      <3> QED BY <1>7, <2>2, <3>1 DEF Live, Finished
    <2> QED BY <2>1, <2>3, <2>4, <2>5
  <1>11. /\ stray' \in SUBSET Tasks /\ stray \subseteq stray'
         /\ \A u \in Tasks : tasks'[u].aborted => u \in stray'
    <2>1. stray \in SUBSET Tasks /\ ~new.aborted
      BY DEF Channel, ShapeInv, StartStep
    <2> QED BY <1>1, <1>8, <2>1 DEF Strays
  <1> HIDE DEF Live
  <1> QED BY <1>2, <1>3, <1>4, <1>7, <1>8, <1>9, <1>10, <1>11

LEMMA StartStepChannel ==
    ASSUME IInv, Channel, NEW new, NEW more, StartStep(new, more)
    PROVE  /\ Tail(events) \in Seq(Events) /\ more \in Seq(Events) /\ events' \in Seq(Events)
           /\ \A i \in DOMAIN more : new.place = "asked" /\ i = 1 /\ more[i] = PromptOf(Fresh, new.asks)
           /\ new.asks \in Nat
           /\ \A i \in DOMAIN events' : i \in Nat /\
                 \/ /\ i \in DOMAIN Tail(events) /\ events'[i] = Tail(events)[i]
                    /\ i + 1 \in DOMAIN events /\ events'[i] = events[i + 1] /\ i <= Len(Tail(events))
                 \/ /\ new.place = "asked" /\ events'[i] = PromptOf(Fresh, new.asks)
                    /\ i = Len(Tail(events)) + 1 /\ Len(Tail(events)) \in Nat
           /\ \A i \in DOMAIN events : i = 1 \/ (i - 1 \in DOMAIN events' /\ events'[i - 1] = events[i])
           /\ new.place = "asked" => \E i \in DOMAIN events' : events'[i] = PromptOf(Fresh, new.asks)
  <1>1. events \in Seq(Events) /\ events # <<>> /\ events[1] = EnterKey /\ events' = Tail(events) \o more
    BY DEF Channel, ShapeInv, StartStep
  <1>2. Fresh \in Tasks
    BY <1>1, FreshIs
  <1>3. new.asks \in Nat
    BY FieldTypes DEF StartStep
  <1>4. more \in Seq(Events) /\ \A i \in DOMAIN more : new.place = "asked" /\ i = 1 /\ more[i] = PromptOf(Fresh, new.asks)
    <2>1. PromptOf(Fresh, new.asks) \in Events
      BY <1>2, <1>3, EventTypes
    <2>2. CASE new.place = "asked"
      <3>1. more = <<PromptOf(Fresh, new.asks)>>
        BY <2>2 DEF StartStep
      <3> HIDE DEF PromptOf
      <3> QED BY <2>1, <2>2, <3>1
    <2>3. CASE new.place # "asked"
      <3>1. more = <<>>
        BY <2>3 DEF StartStep
      <3> QED BY <3>1
    <2> QED BY <2>2, <2>3
  <1> DEFINE rest == Tail(events)
  <1>5. /\ rest \in Seq(Events) /\ Len(events) \in Nat \ {0} /\ Len(rest) = Len(events) - 1
        /\ DOMAIN events = 1..Len(events) /\ DOMAIN rest = 1..(Len(events) - 1)
        /\ \A i \in 1..(Len(events) - 1) : rest[i] = events[i + 1] /\ i + 1 \in 1..Len(events)
        /\ \A i \in 1..Len(events) : i = 1 \/ (i - 1 \in 1..(Len(events) - 1) /\ rest[i - 1] = events[i])
    BY <1>1, TailIs
  <1>6. events' = rest \o more
    BY <1>1
  <1> HIDE DEF rest
  <1>7. /\ events' \in Seq(Events) /\ Len(rest) \in Nat /\ Len(more) \in Nat
        /\ DOMAIN rest = 1..Len(rest) /\ DOMAIN more = 1..Len(more)
        /\ DOMAIN events' = 1..(Len(rest) + Len(more))
        /\ \A i \in 1..Len(rest) : events'[i] = rest[i]
        /\ \A i \in 1..Len(more) : events'[Len(rest) + i] = more[i]
        /\ \A i \in 1..(Len(rest) + Len(more)) :
              i \in 1..Len(rest) \/ (i - Len(rest) \in 1..Len(more) /\ events'[i] = more[i - Len(rest)])
    <2>1. rest \in Seq(Events) /\ more \in Seq(Events)
      BY <1>4, <1>5
    <2>2. /\ rest \o more \in Seq(Events) /\ Len(rest) \in Nat /\ Len(more) \in Nat
          /\ DOMAIN rest = 1..Len(rest) /\ DOMAIN more = 1..Len(more)
          /\ DOMAIN (rest \o more) = 1..(Len(rest) + Len(more))
          /\ \A i \in 1..Len(rest) : (rest \o more)[i] = rest[i]
          /\ \A i \in 1..Len(more) : (rest \o more)[Len(rest) + i] = more[i]
          /\ \A i \in 1..(Len(rest) + Len(more)) :
              i \in 1..Len(rest) \/ (i - Len(rest) \in 1..Len(more) /\ (rest \o more)[i] = more[i - Len(rest)])
      BY <2>1, MoreIs
    <2> QED BY <1>6, <2>2
  <1>8. ASSUME NEW i \in DOMAIN events'
        PROVE  i \in Nat /\
                 \/ /\ i \in DOMAIN rest /\ events'[i] = rest[i]
                    /\ i + 1 \in DOMAIN events /\ events'[i] = events[i + 1] /\ i <= Len(rest)
                 \/ /\ new.place = "asked" /\ events'[i] = PromptOf(Fresh, new.asks)
                    /\ i = Len(rest) + 1 /\ Len(rest) \in Nat
    <2>1. CASE i \in 1..Len(rest)
      BY <1>5, <1>7, <2>1
    <2>2. CASE i - Len(rest) \in 1..Len(more) /\ events'[i] = more[i - Len(rest)]
      <3>1. i \in Nat /\ i - Len(rest) \in DOMAIN more
        BY <1>7, <2>2
      <3>2. new.place = "asked" /\ i - Len(rest) = 1 /\ events'[i] = PromptOf(Fresh, new.asks)
        BY <1>4, <2>2, <3>1
      <3>3. i = Len(rest) + 1
        BY <1>7, <3>1, <3>2
      <3> QED BY <1>7, <3>1, <3>2, <3>3
    <2> QED BY <1>7, <2>1, <2>2
  <1>9. \A i \in DOMAIN events : i = 1 \/ (i - 1 \in DOMAIN events' /\ events'[i - 1] = events[i])
    BY <1>5, <1>7
  <1>10. new.place = "asked" => \E i \in DOMAIN events' : events'[i] = PromptOf(Fresh, new.asks)
    <2> SUFFICES ASSUME new.place = "asked" PROVE \E i \in DOMAIN events' : events'[i] = PromptOf(Fresh, new.asks)
      OBVIOUS
    <2>1. more = <<PromptOf(Fresh, new.asks)>>
      BY DEF StartStep
    <2> HIDE DEF PromptOf
    <2>2. Len(more) = 1 /\ more[1] = PromptOf(Fresh, new.asks)
      BY <2>1
    <2>3. Len(rest) + 1 \in DOMAIN events' /\ events'[Len(rest) + 1] = PromptOf(Fresh, new.asks)
      BY <1>7, <2>2
    <2> QED BY <2>3
  <1> QED BY <1>3, <1>4, <1>5, <1>7, <1>8, <1>9, <1>10 DEF rest

LEMMA StartStepShape ==
    ASSUME IInv, Channel, NEW new, NEW more, StartStep(new, more)
    PROVE  ShapeInv'
  <1>1. \A u \in Tasks : (tasks'[u].kind = "none" => tasks'[u] = Unused)
                         /\ (tasks'[u].aborted => tasks'[u].place # "done")
    <2> SUFFICES ASSUME NEW u \in Tasks
                 PROVE  (tasks'[u].kind = "none" => tasks'[u] = Unused)
                         /\ (tasks'[u].aborted => tasks'[u].place # "done")
      OBVIOUS
    <2>1. CASE u = Fresh
      <3>1. tasks'[u] = new
        BY <2>1, StartStepIs
      <3> QED BY <3>1 DEF StartStep
    <2>2. CASE u # Fresh
      <3>1. /\ tasks'[u].kind = tasks[u].kind /\ (tasks[u].kind = "none" => tasks'[u] = tasks[u])
            /\ (tasks'[u].aborted => tasks'[u].place # "done")
        BY <2>2, StartStepIs
      <3> QED BY <3>1 DEF Channel, ShapeInv
    <2> QED BY <2>1, <2>2
  <1>2. events' \in Seq(Events)
    BY StartStepChannel
  <1>3. Fresh \in 0..MaxKeys /\ 0 \in 0..MaxKeys
    BY StartStepIs, Bounds DEF Tasks
  <1>4. stray' \in SUBSET Tasks
    BY StartStepIs
  <1>5. handle' \in 0..MaxKeys /\ initHandle' \in 0..MaxKeys
    BY <1>3 DEF StartStep, Channel, ShapeInv
  <1>6. UNCHANGED <<compressing, keys, said>> /\ enabled' \in BOOLEAN /\ pending' = None
        /\ status' \in {Idle} \cup Busy /\ buffer' = ""
    BY DEF StartStep
  <1>7. compressing' \in Nat \X Nat /\ keys' \in [pressed : 0..MaxKeys, mid : BOOLEAN]
        /\ said' \in [Tasks -> Words \ {"exit"}]
    BY <1>6 DEF Channel, ShapeInv
  <1> QED BY <1>1, <1>2, <1>4, <1>5, <1>6, <1>7 DEF ShapeInv

LEMMA StartStepStarted ==
    ASSUME IInv, Channel, NEW new, NEW more, StartStep(new, more)
    PROVE  StartedInv'
  <1>1. events # <<>> /\ events[1] = EnterKey /\ events' = Tail(events) \o more /\ keys' = keys
    BY DEF StartStep
  <1>2. PICK k \in 0..MaxKeys :
              /\ \A t \in Tasks : tasks[t].kind # "none" <=> t <= k
              /\ Fresh = k + 1 /\ Fresh \in Tasks /\ tasks[Fresh].kind = "none"
              /\ k + 1 + Cardinality(Enters(Tail(events))) <= keys.pressed
    BY <1>1, FreshIs
  <1>3. /\ Tail(events) \in Seq(Events) /\ more \in Seq(Events)
        /\ \A i \in DOMAIN more : more[i] = PromptOf(Fresh, new.asks)
    BY StartStepChannel
  <1>4. \A i \in DOMAIN more : more[i] # EnterKey
    BY <1>3, PromptIs
  <1>5. Enters(events') = Enters(Tail(events))
    BY <1>1, <1>3, <1>4, EntersMore
  <1>6. tasks'[Fresh] = new /\ new.kind # "none"
        /\ \A u \in Tasks : u # Fresh => tasks'[u].kind = tasks[u].kind
    BY StartStepIs DEF StartStep
  <1>7. \A t \in Tasks : tasks'[t].kind # "none" <=> t <= k + 1
    BY <1>2, <1>6, Bounds DEF Tasks
  <1>8. k + 1 \in 0..MaxKeys
    BY <1>2, Bounds DEF Tasks
  <1> QED BY <1>1, <1>2, <1>5, <1>7, <1>8 DEF StartedInv

LEMMA StartStepNumbers ==
    ASSUME IInv, Channel, NEW new, NEW more, StartStep(new, more)
    PROVE  NumbersInv'
  <1> SUFFICES ASSUME NEW u \in Tasks, NEW n \in Nat, Underway(u, n)'
               PROVE  /\ tasks'[u].kind # "none"
                      /\ tasks'[u].place # "done" => n <= tasks'[u].asks
    BY DEF NumbersInv
  <1>1. PICK i \in DOMAIN events' : events'[i] = PromptOf(u, n)
    BY DEF Underway, StartStep, None, PromptOf
  <1>2. CASE new.place = "asked" /\ events'[i] = PromptOf(Fresh, new.asks)
    <2>1. u = Fresh /\ n = new.asks
      BY <1>1, <1>2 DEF PromptOf
    <2>2. tasks'[u] = new /\ new.kind # "none"
      BY <2>1, StartStepIs DEF StartStep
    <2> QED BY <2>1, <2>2
  <1>3. CASE i + 1 \in DOMAIN events /\ events'[i] = events[i + 1]
    <2>1. Underway(u, n)
      BY <1>1, <1>3 DEF Underway
    <2>2. tasks[u].kind # "none" /\ (tasks[u].place # "done" => n <= tasks[u].asks)
      BY <2>1 DEF Channel, NumbersInv
    <2>3. u # Fresh
      BY <2>2, StartStepIs
    <2> QED BY <2>2, <2>3, StartStepIs
  <1> QED BY <1>2, <1>3, StartStepChannel

LEMMA StartStepAlone ==
    ASSUME IInv, Channel, NEW new, NEW more, StartStep(new, more)
    PROVE  AloneInv'
  <1>1. ASSUME NEW u \in Tasks, tasks'[u].kind = "init", Live(u)'
        PROVE  initHandle' = u
    <2>1. CASE u = Fresh
      <3>1. tasks'[Fresh] = new
        BY StartStepIs
      <3>2. initHandle' = IF new.kind = "init" THEN Fresh ELSE 0
        BY DEF StartStep
      <3> QED BY <1>1, <2>1, <3>1, <3>2
    <2>2. CASE u # Fresh
      <3>1. /\ tasks[u].kind = "init" /\ Live(u)
        BY <1>1, <2>2, StartStepIs DEF Live, Finished
      <3>2. initHandle = u
        BY <3>1 DEF Channel, AloneInv
      <3> QED BY <1>1, <2>2, <3>1, <3>2, StartStepIs DEF Live, Finished
    <2> QED BY <2>1, <2>2
  <1>2. \A u \in Tasks : tasks'[u].aborted => u \in stray'
    BY StartStepIs
  <1>3. \A u, v \in Tasks : Live(u)' /\ Live(v)' => u = v
    <2>1. \A u \in Tasks : u # Fresh => ~Live(u)'
      BY StartStepIs
    <2> QED BY <2>1
  <1> QED BY <1>1, <1>2, <1>3 DEF AloneInv

LEMMA StartStepReachable ==
    ASSUME IInv, Channel, NEW new, NEW more, StartStep(new, more)
    PROVE  AskedIsReachable'
  <1> SUFFICES ASSUME NEW u \in Tasks, tasks'[u].place = "asked", Live(u)', tasks'[u].answer = "none"
               PROVE  \E i \in DOMAIN events' : events'[i] = PromptOf(u, tasks'[u].asks)
    BY DEF AskedIsReachable, PromptOf
  <1>1. CASE u = Fresh
    <2>1. tasks'[u] = new
      BY <1>1, StartStepIs
    <2>2. \E i \in DOMAIN events' : events'[i] = PromptOf(Fresh, new.asks)
      BY <2>1, StartStepChannel
    <2> QED BY <1>1, <2>1, <2>2
  <1>2. CASE u # Fresh
    <2>1. /\ tasks[u].place = "asked" /\ Live(u) /\ tasks[u].answer = "none"
          /\ tasks'[u].asks = tasks[u].asks
      BY <1>2, StartStepIs DEF Live, Finished
    <2>2. pending # <<u, tasks[u].asks>> /\ events[1] = EnterKey
      BY DEF StartStep, None
    <2>3. PICK i \in DOMAIN events : events[i] = PromptOf(u, tasks[u].asks)
      BY <2>1, <2>2 DEF Channel, AskedIsReachable, PromptOf
    <2>4. i # 1
      BY <2>2, <2>3, PromptIs
    <2> QED BY <2>1, <2>3, <2>4, StartStepChannel
  <1> QED BY <1>1, <1>2

LEMMA StartStepAhead ==
    ASSUME IInv, Channel, NEW new, NEW more, StartStep(new, more)
    PROVE  AheadInv'
  <1> SUFFICES ASSUME NEW u \in Tasks, Waiting(u)', Live(u)',
                      NEW i \in DOMAIN events', Regular(events[i])'
               PROVE  /\ pending' # <<u, tasks'[u].asks>>
                      /\ \A j \in DOMAIN events' :
                            events'[j] = PromptOf(u, tasks'[u].asks) => i < j
    BY DEF AheadInv, Regular
  <1>1. u = Fresh /\ tasks'[u] = new
    BY StartStepIs
  <1>2. pending' # <<u, tasks'[u].asks>>
    BY DEF StartStep, None
  <1>3. i \in Nat /\ i <= Len(Tail(events))
    <2>1. PromptOf(Fresh, new.asks) \notin Dismissals
      BY PromptIs
    <2> QED BY <2>1, StartStepChannel DEF Regular
  <1>4. ASSUME NEW j \in DOMAIN events', events'[j] = PromptOf(u, tasks'[u].asks)
        PROVE  i < j
    <2>1. CASE j + 1 \in DOMAIN events /\ events'[j] = events[j + 1]
      <3>1. Underway(u, new.asks) /\ new.asks \in Nat
        BY <1>1, <1>4, <2>1, StartStepChannel DEF Underway
      <3>2. tasks[u].kind # "none"
        BY <3>1 DEF Channel, NumbersInv
      <3> QED BY <1>1, <3>2, StartStepIs
    <2>2. CASE j = Len(Tail(events)) + 1 /\ Len(Tail(events)) \in Nat
      BY <1>3, <2>2
    <2> QED BY <2>1, <2>2, StartStepChannel
  <1> QED BY <1>2, <1>4

LEMMA StartStepSettled ==
    ASSUME IInv, Channel, NEW new, NEW more, StartStep(new, more)
    PROVE  SettledInv'
  <1>1. Fresh \in Tasks /\ tasks'[Fresh] = new /\ new.place # "done"
    BY StartStepIs DEF StartStep
  <1>2. CASE new.place # "asked"
    <2>1. \E u \in Tasks : /\ ~(tasks'[u].place = "done")
                           /\ ~(tasks'[u].kind = "init" /\ tasks'[u].place = "asked")
      BY <1>1, <1>2
    <2> QED BY <2>1 DEF SettledInv, Reports, Finished
  <1>3. CASE new.place = "asked"
    <2>1. more = <<PromptOf(Fresh, new.asks)>> /\ events' = Tail(events) \o more
      BY <1>3 DEF StartStep
    <2>2. Settles(PromptOf(Fresh, new.asks))
      BY DEF Settles, PromptOf
    <2>3. Tail(events) \in Seq(Events) /\ more \in Seq(Events)
      BY StartStepChannel
    <2>4. more # <<>> /\ Settles(more[Len(more)])
      <3> HIDE DEF PromptOf, Settles
      <3>1. Len(more) = 1 /\ more[1] = PromptOf(Fresh, new.asks)
        BY <2>1
      <3> QED BY <2>1, <2>2, <3>1
    <2>5. Settled'
      BY <2>1, <2>3, <2>4, SettledAtEnd
    <2> QED BY <2>5 DEF SettledInv
  <1> QED BY <1>2, <1>3

LEMMA StartStepKeeps ==
    ASSUME IInv, Channel, NEW new, NEW more, StartStep(new, more)
    PROVE  Channel'
  BY StartStepShape, StartStepStarted, StartStepNumbers, StartStepAlone, StartStepReachable,
     StartStepAhead, StartStepSettled DEF Channel
-----------------------------------------------------------------------------
(* A key, or a compression: something is sent, no task and no question moves. *)
AppendStep(more) ==
    /\ more \in Seq(Events) /\ events' = events \o more
    /\ UNCHANGED <<tasks, pending, status, handle, initHandle, buffer, stray, enabled, said>>
    /\ \A i \in DOMAIN more : more[i][1] # "Prompt" /\ more[i] \notin Dismissals
    /\ compressing' \in Nat \X Nat /\ keys' \in [pressed : 0..MaxKeys, mid : BOOLEAN]
    /\ \/ (\A i \in DOMAIN more : more[i] # EnterKey) /\ keys'.pressed >= keys.pressed
       \/ more = <<EnterKey>> /\ keys'.pressed = keys.pressed + 1
    /\ \/ compressing' # <<0, 0>>
       \/ more # <<>> /\ Settles(more[Len(more)])
       \/ compressing' = compressing /\ \A i \in DOMAIN more : ~Unsettles(more[i])

LEMMA AppendStepIs ==
    ASSUME Channel, NEW more, AppendStep(more)
    PROVE  /\ events \in Seq(Events) /\ more \in Seq(Events) /\ events' \in Seq(Events)
           /\ \A i \in DOMAIN events : i \in DOMAIN events' /\ events'[i] = events[i]
           /\ \A i \in DOMAIN events' :
                 i \in DOMAIN events \/ \E j \in DOMAIN more : events'[i] = more[j]
  <1>1. events \in Seq(Events) /\ more \in Seq(Events) /\ events' = events \o more
    BY DEF Channel, ShapeInv, AppendStep
  <1>2. /\ events \o more \in Seq(Events) /\ Len(events) \in Nat /\ Len(more) \in Nat
        /\ DOMAIN events = 1..Len(events) /\ DOMAIN more = 1..Len(more)
        /\ DOMAIN (events \o more) = 1..(Len(events) + Len(more))
        /\ \A i \in 1..Len(events) : (events \o more)[i] = events[i]
        /\ \A i \in 1..(Len(events) + Len(more)) :
              i \in 1..Len(events) \/ (i - Len(events) \in 1..Len(more) /\ (events \o more)[i] = more[i - Len(events)])
    BY <1>1, MoreIs
  <1>3. \A i \in DOMAIN events : i \in DOMAIN (events \o more)
    BY <1>2
  <1> QED BY <1>1, <1>2, <1>3

LEMMA AppendStepStarted ==
    ASSUME Channel, NEW more, AppendStep(more)
    PROVE  StartedInv'
  <1>1. events \in Seq(Events) /\ more \in Seq(Events) /\ events' = events \o more /\ tasks' = tasks
    BY AppendStepIs DEF AppendStep
  <1> DEFINE m == Cardinality(Enters(events))
             n == Cardinality(Enters(events'))
  <1>2. m \in Nat
    BY <1>1, EntersFinite
  <1>3. PICK k \in 0..MaxKeys : (\A t \in Tasks : tasks[t].kind # "none" <=> t <= k) /\ k + m <= keys.pressed
    BY DEF Channel, StartedInv
  <1>4. keys.pressed \in Nat /\ keys'.pressed \in Nat
    <2>1. keys \in [pressed : 0..MaxKeys, mid : BOOLEAN] /\ keys' \in [pressed : 0..MaxKeys, mid : BOOLEAN]
      BY DEF Channel, ShapeInv, AppendStep
    <2>2. keys.pressed \in 0..MaxKeys /\ keys'.pressed \in 0..MaxKeys
      BY <2>1
    <2> QED BY <2>2, Bounds
  <1>5. k + n <= keys'.pressed
    <2>1. CASE (\A i \in DOMAIN more : more[i] # EnterKey) /\ keys'.pressed >= keys.pressed
      <3>1. n = m
        BY <1>1, <2>1, EntersMore
      <3> HIDE DEF m, n
      <3> QED BY <1>2, <1>3, <1>4, <2>1, <3>1
    <2>2. CASE more = <<EnterKey>> /\ keys'.pressed = keys.pressed + 1
      <3>1. n = m + 1
        BY <1>1, <2>2, EntersPressed
      <3> HIDE DEF m, n
      <3> QED BY <1>2, <1>3, <1>4, <2>2, <3>1
    <2> QED BY <2>1, <2>2 DEF AppendStep
  <1> QED BY <1>1, <1>3, <1>5 DEF StartedInv

LEMMA AppendStepSettled ==
    ASSUME Channel, NEW more, AppendStep(more)
    PROVE  SettledInv'
  <1>1. CASE stray # {} \/ \E u \in Tasks : Reports(u)
    BY <1>1 DEF SettledInv, AppendStep, Reports, Finished
  <1>2. CASE compressing' # <<0, 0>>
    BY <1>2 DEF SettledInv
  <1>3. CASE more # <<>> /\ Settles(more[Len(more)])
    <2>1. events \in Seq(Events) /\ more \in Seq(Events) /\ events' = events \o more
      BY AppendStepIs DEF AppendStep
    <2>2. Settled'
      BY <1>3, <2>1, SettledAtEnd
    <2> QED BY <2>2 DEF SettledInv
  <1>4. CASE Settled /\ \A i \in DOMAIN more : ~Unsettles(more[i])
    <2>1. status' = status /\ pending' = pending
      BY DEF AppendStep
    <2>2. ASSUME NEW i \in DOMAIN events', Unsettles(events'[i])
          PROVE  \E j \in DOMAIN events' : i < j /\ Settles(events'[j])
      <3>1. i \in DOMAIN events /\ events'[i] = events[i]
        BY <1>4, <2>2, AppendStepIs
      <3>2. PICK j \in DOMAIN events : i < j /\ Settles(events[j])
        BY <1>4, <2>2, <3>1 DEF Settled
      <3> QED BY <3>2, AppendStepIs
    <2>3. status' = Idle \/ pending' # None \/ \E i \in DOMAIN events' : Settles(events'[i])
      <3>1. CASE \E i \in DOMAIN events : Settles(events[i])
        <4>1. PICK i \in DOMAIN events : Settles(events[i])
          BY <3>1
        <4> QED BY <4>1, AppendStepIs
      <3> QED BY <1>4, <2>1, <3>1 DEF Settled
    <2> QED BY <2>2, <2>3 DEF SettledInv, Settled, Settles, Unsettles, Status, Idle, Token, ToolExec
  <1> QED BY <1>1, <1>2, <1>3, <1>4 DEF Channel, SettledInv, AppendStep

LEMMA AppendStepKeeps ==
    ASSUME Channel, NEW more, AppendStep(more)
    PROVE  Channel'
  <1>1. UNCHANGED <<tasks, pending, status, handle, initHandle, buffer, stray, enabled, said>>
    BY DEF AppendStep
  <1>2. /\ events' \in Seq(Events)
        /\ \A i \in DOMAIN events : i \in DOMAIN events' /\ events'[i] = events[i]
        /\ \A i \in DOMAIN events' :
              events'[i][1] = "Prompt" \/ events'[i] \in Dismissals =>
                  i \in DOMAIN events /\ events'[i] = events[i]
    <2>1. \A j \in DOMAIN more : more[j][1] # "Prompt" /\ more[j] \notin Dismissals
      BY DEF AppendStep
    <2> QED BY <2>1, AppendStepIs
  <1>3. \A u \in Tasks, n \in Nat : Underway(u, n)' => Underway(u, n)
    <2> SUFFICES ASSUME NEW u \in Tasks, NEW n \in Nat, Underway(u, n)' PROVE Underway(u, n)
      OBVIOUS
    <2>1. CASE pending' = <<u, n>>
      BY <1>1, <2>1 DEF Underway
    <2>2. CASE \E i \in DOMAIN events' : events'[i] = PromptOf(u, n)
      BY <1>2, <2>2, PromptIs DEF Underway
    <2> QED BY <2>1, <2>2 DEF Underway, PromptOf
  <1>4. ShapeInv'
    BY <1>1, <1>2 DEF Channel, ShapeInv, AppendStep
  <1>5. NumbersInv'
    BY <1>1, <1>3 DEF Channel, NumbersInv
  <1>6. AloneInv'
    BY <1>1 DEF Channel, AloneInv, Live, Finished
  <1>7. AskedIsReachable'
    BY <1>1, <1>2 DEF Channel, AskedIsReachable, Live, Finished
  <1>8. AheadInv'
    <2> SUFFICES ASSUME NEW u \in Tasks, Waiting(u)', Live(u)',
                        NEW i \in DOMAIN events', Regular(events[i])'
                 PROVE  /\ pending' # <<u, tasks'[u].asks>>
                        /\ \A j \in DOMAIN events' :
                              events'[j] = PromptOf(u, tasks'[u].asks) => i < j
      BY DEF AheadInv, Regular
    <2>1. Waiting(u) /\ Live(u) /\ tasks' = tasks /\ i \in DOMAIN events /\ Regular(events[i])
      BY <1>1, <1>2 DEF Waiting, Live, Finished, Regular
    <2>2. /\ pending # <<u, tasks[u].asks>>
          /\ \A j \in DOMAIN events : events[j] = PromptOf(u, tasks[u].asks) => i < j
      BY <2>1 DEF Channel, AheadInv
    <2>3. \A j \in DOMAIN events' : events'[j] = PromptOf(u, tasks[u].asks) =>
             j \in DOMAIN events /\ events'[j] = events[j]
      BY <1>2, PromptIs
    <2> QED BY <1>1, <2>1, <2>2, <2>3
  <1> QED BY <1>4, <1>5, <1>6, <1>7, <1>8, AppendStepStarted, AppendStepSettled DEF Channel
-----------------------------------------------------------------------------
(* The loop's handlers are such steps. *)
LEMMA EventIs ==
    ASSUME NEW e \in Events
    PROVE  /\ e[1] \in {"Input", "Enter", "Esc", "Token", "ToolExec", "StreamDone", "PromptExpired",
                        "Prompt", "Status", "InteractiveCommand"}
           /\ e[1] = "Input" => e[2] \in Lines
           /\ e[1] = "Enter" => e = EnterKey
           /\ e[1] = "Token" => e = Token
           /\ e[1] = "ToolExec" => e = ToolExec
           /\ e[1] \in {"StreamDone", "PromptExpired"} => e \in Dismissals /\ e[2] \in Tasks
           /\ e[1] = "Status" => e = Status(e[2]) /\ e[2] \in {"executing", "compressing", "idle"}
           /\ e[1] = "InteractiveCommand" => e[2] \in Tasks
  <1>1. CASE e \in {"Input"} \X Lines
    BY <1>1
  <1>2. CASE e \in {"Enter", "Esc", "Token", "ToolExec"} \X {""}
    <2> DEFINE Tags == {"Enter", "Esc", "Token", "ToolExec"}
               Nothing == {""}
    <2>1. e \in Tags \X Nothing
      BY <1>2
    <2> HIDE DEF Tags, Nothing
    <2>2. e = <<e[1], e[2]>> /\ e[1] \in Tags /\ e[2] \in Nothing
      BY <2>1
    <2>3. e[2] = ""
      BY <2>2 DEF Nothing
    <2>4. e = <<e[1], "">>
      BY <2>2, <2>3, Zenon
    <2>5. /\ e[1] = "Enter" => e = EnterKey
          /\ e[1] = "Token" => e = Token
          /\ e[1] = "ToolExec" => e = ToolExec
      BY <2>4, Zenon DEF EnterKey, Token, ToolExec
    <2> QED BY <2>2, <2>5 DEF Tags
  <1>3. CASE e \in {"Prompt"} \X (Tasks \X Nat)
    BY <1>3
  <1>4. CASE e \in {"Status"} \X {"executing", "compressing", "idle"}
    BY <1>4 DEF Status
  <1>5. CASE e \in {"InteractiveCommand"} \X Tasks
    BY <1>5
  <1>6. CASE e \in {"StreamDone", "PromptExpired"} \X Tasks
    BY <1>6 DEF Dismissals
  <1> QED BY <1>1, <1>2, <1>3, <1>4, <1>5, <1>6 DEF Events

LEMMA SettlesIs == \A e : Settles(e) => e[1] \in {"StreamDone", "PromptExpired", "Status", "Prompt"}
  <1>1. Status(Idle)[1] = "Status"
    BY DEF Status
  <1> QED BY <1>1 DEF Settles

LEMMA TagsAre ==
    /\ \A e : e \in Dismissals => e[1] \in {"PromptExpired", "StreamDone"}
    /\ \A e : Unsettles(e) => e[1] \in {"Token", "ToolExec", "Status"}
    /\ EnterKey[1] = "Enter" /\ Token[1] = "Token" /\ ToolExec[1] = "ToolExec"
    /\ \A t : StreamDone(t)[1] = "StreamDone" /\ StreamDone(t)[2] = t
    /\ \A t : PromptExpired(t)[1] = "PromptExpired" /\ PromptExpired(t)[2] = t
    /\ \A s : Status(s)[1] = "Status"
    /\ \A t : <<"InteractiveCommand", t>>[1] = "InteractiveCommand"
    /\ \A line : <<"Input", line>>[1] = "Input"
    /\ <<"Esc", "">>[1] = "Esc"
  <1>1. /\ \A t : StreamDone(t)[1] = "StreamDone" /\ StreamDone(t)[2] = t
        /\ \A t : PromptExpired(t)[1] = "PromptExpired" /\ PromptExpired(t)[2] = t
        /\ EnterKey[1] = "Enter" /\ Token[1] = "Token" /\ ToolExec[1] = "ToolExec"
        /\ \A s : Status(s)[1] = "Status"
    BY DEF StreamDone, PromptExpired, EnterKey, Token, ToolExec, Status
  <1>2. \A t : <<"InteractiveCommand", t>>[1] = "InteractiveCommand"
    OBVIOUS
  <1>3. \A line : <<"Input", line>>[1] = "Input"
    OBVIOUS
  <1>4. <<"Esc", "">>[1] = "Esc"
    OBVIOUS
  <1> QED BY <1>1, <1>2, <1>3, <1>4 DEF Dismissals, Unsettles

(* The event the loop takes. *)
LEMMA HeadIs ==
    ASSUME Channel, events # <<>>
    PROVE  events[1] \in Events
  <1>1. events \in Seq(Events)
    BY DEF Channel, ShapeInv
  <1>2. Len(events) \in Nat \ {0} /\ DOMAIN events = 1..Len(events)
    BY <1>1, TailIs
  <1>3. 1 \in DOMAIN events
    BY <1>2
  <1> QED BY <1>1, <1>3, ElementOfSeq

LEMMA Unmoved ==
    ASSUME UNCHANGED <<tasks, pending, initHandle, stray>>
    PROVE  \A u \in Tasks : Undisturbed(u)
  BY DEF Undisturbed

LEMMA ToldLeaves ==
    ASSUME IInv, NEW answer \in Words \ {"none"}, tasks' = Told(pending, answer),
           UNCHANGED <<initHandle, stray>>
    PROVE  \A u \in Tasks : Undisturbed(u)
  <1> SUFFICES ASSUME NEW u \in Tasks PROVE Undisturbed(u)
    OBVIOUS
  <1>1. tasks[u] \in TaskRecs
    BY DEF IInv, Typing
  <1>2. [tasks[u] EXCEPT !.answer = answer].asks = tasks[u].asks
        /\ [tasks[u] EXCEPT !.answer = answer].kind = tasks[u].kind
        /\ [tasks[u] EXCEPT !.answer = answer].place = tasks[u].place
        /\ [tasks[u] EXCEPT !.answer = answer].aborted = tasks[u].aborted
        /\ [tasks[u] EXCEPT !.answer = answer].answer = answer
    BY <1>1 DEF TaskRecs
  <1>3. CASE tasks'[u] = tasks[u] /\ ~(Waiting(u) /\ pending = <<u, tasks[u].asks>>)
    BY <1>3 DEF Undisturbed, Waiting
  <1>4. CASE /\ tasks[u].place = "asked" /\ tasks[u].answer = "none"
             /\ tasks'[u] = [tasks[u] EXCEPT !.answer = answer]
    BY <1>2, <1>4 DEF Undisturbed, Waiting, Live, Finished
  <1>5. tasks'[u] = tasks[u] /\ Waiting(u) /\ pending = <<u, tasks[u].asks>> =>
           tasks'[u] = [tasks[u] EXCEPT !.answer = answer]
    BY DEF IInv, Typing, Told, Waiting, None
  <1>6. Typing /\ answer \in Words
    BY DEF IInv
  <1> QED BY <1>3, <1>4, <1>5, <1>6, ToldEffect DEF Waiting

LEMMA AbortLeaves ==
    ASSUME IInv, NEW h, tasks' = Aborted(tasks, h), pending' = pending,
           stray' = Strays(tasks'),
           initHandle' = initHandle \/ (h = initHandle /\ AloneInv)
    PROVE  \A u \in Tasks : Undisturbed(u)
  <1> SUFFICES ASSUME NEW u \in Tasks PROVE Undisturbed(u)
    OBVIOUS
  <1>1. tasks \in [Tasks -> TaskRecs] /\ tasks[u] \in TaskRecs
    BY DEF IInv, Typing
  <1>2. LET dead == [tasks[u] EXCEPT !.aborted = TRUE] IN
        dead.aborted /\ dead.kind = tasks[u].kind /\ dead.place = tasks[u].place
        /\ dead.answer = tasks[u].answer /\ dead.asks = tasks[u].asks
    BY <1>1 DEF TaskRecs
  <1>3. CASE tasks'[u] = tasks[u] /\ ~(u = h /\ tasks[u].place # "done")
    <2>1. tasks[u].kind = "init" /\ Live(u)' => initHandle' = initHandle
      BY <1>3 DEF AloneInv, Live, Finished
    <2> QED BY <1>3, <2>1 DEF Undisturbed
  <1>4. CASE tasks[u].place # "done" /\ tasks'[u] = [tasks[u] EXCEPT !.aborted = TRUE]
    <2>1. tasks'[u].aborted => u \in stray'
      BY DEF Strays
    <2> QED BY <1>2, <1>4, <2>1 DEF Undisturbed, Live, Finished
  <1>5. u # 0
    BY DEF Tasks
  <1> QED BY <1>1, <1>3, <1>4, <1>5 DEF Aborted

LEMMA LoopInput ==
    ASSUME IInv, Channel, HandleInput \/ EnterIgnored
    PROVE  Channel'
  <1>1. UNCHANGED <<status, pending, handle, initHandle, tasks, compressing, keys, stray, said, enabled>>
        /\ events # <<>> /\ events' = Tail(events) /\ events[1][1] \in {"Input", "Enter"}
    BY DEF HandleInput, EnterIgnored, Handles, appVars, flags
  <1>2. buffer' \in Lines \cup {"", "mixed"}
    BY <1>1, HeadIs, EventIs DEF Channel, ShapeInv, HandleInput, EnterIgnored, Handles, appVars
  <1>3. ~Settles(events[1])
    BY <1>1, SettlesIs
  <1>4. \A u \in Tasks : Undisturbed(u)
    BY <1>1, Unmoved
  <1>5. LoopStep
    BY <1>1, <1>2, <1>3, <1>4 DEF LoopStep, Channel, ShapeInv
  <1> QED BY <1>5, LoopStepKeeps

LEMMA LoopStatus ==
    ASSUME IInv, Channel, HandleStatus
    PROVE  Channel'
  <1>1. UNCHANGED <<buffer, pending, handle, initHandle, tasks, compressing, keys, stray, said, enabled>>
        /\ events # <<>> /\ events' = Tail(events) /\ events[1][1] \in {"Token", "ToolExec", "Status"}
    BY DEF HandleStatus, Handles, flags
  <1>2. status' = CASE events[1] = Token -> "streaming"
                    [] events[1] = ToolExec -> "executing"
                    [] OTHER -> events[1][2]
    BY DEF HandleStatus
  <1>3. status' \in {Idle} \cup Busy /\ (status' = Idle \/ Unsettles(events[1]))
    <2>1. CASE events[1] = Token
      BY <1>2, <2>1 DEF Busy, Unsettles
    <2>2. CASE events[1] = ToolExec
      BY <1>2, <2>2 DEF Busy, Unsettles, Token, ToolExec
    <2>3. CASE events[1] # Token /\ events[1] # ToolExec
      <3>1. events[1] = Status(events[1][2]) /\ events[1][2] \in {"executing", "compressing", "idle"}
        BY <1>1, <2>3, HeadIs, EventIs
      <3>2. status' = events[1][2]
        BY <1>2, <2>3
      <3> QED BY <3>1, <3>2 DEF Busy, Idle, Unsettles
    <2> QED BY <2>1, <2>2, <2>3
  <1>4. \A u \in Tasks : Undisturbed(u)
    BY <1>1, Unmoved
  <1>5. LoopStep
    BY <1>1, <1>3, <1>4 DEF LoopStep, Channel, ShapeInv
  <1> QED BY <1>5, LoopStepKeeps

LEMMA LoopDismisses ==
    ASSUME IInv, Channel, HandlePromptExpired \/ HandleStreamDone
    PROVE  Channel'
  <1>1. UNCHANGED <<handle, initHandle, keys, stray, said, enabled>> /\ pending' = None /\ status' = Idle
        /\ events # <<>> /\ events' = Tail(events) /\ events[1][1] \in {"PromptExpired", "StreamDone"}
        /\ tasks' = Told(pending, "nothing") /\ buffer' \in {buffer, ""}
        /\ compressing' \in {compressing, <<compressing[1] + 1, compressing[2]>>}
    BY DEF HandlePromptExpired, HandleStreamDone, Handles, flags
  <1>2. "nothing" \in Words \ {"none"}
    BY DEF Words
  <1>3. \A u \in Tasks : Undisturbed(u)
    BY <1>1, <1>2, ToldLeaves
  <1>4. LoopStep
    BY <1>1, <1>3 DEF LoopStep, Channel, ShapeInv
  <1> QED BY <1>4, LoopStepKeeps

LEMMA LoopPrompts ==
    ASSUME IInv, Channel, HandlePrompt
    PROVE  Channel'
  <1>1. UNCHANGED <<buffer, handle, initHandle, compressing, keys, stray, said, enabled>>
        /\ pending' = events[1][2] /\ status' = "waiting"
        /\ events # <<>> /\ events' = Tail(events) /\ events[1][1] = "Prompt"
        /\ tasks' = Told(pending, "nothing")
    BY DEF HandlePrompt, Handles, flags
  <1>2. "nothing" \in Words \ {"none"}
    BY DEF Words
  <1>3. \A u \in Tasks : Undisturbed(u)
    BY <1>1, <1>2, ToldLeaves
  <1>4. pending' # None
    <2>1. events[1][2] \in Tasks \X Nat
      BY <1>1, HeadIs, PromptEvent
    <2>2. PICK t \in Tasks, n \in Nat : events[1][2] = <<t, n>>
      BY <2>1
    <2>3. None # <<t, n>>
      BY DEF None
    <2> QED BY <1>1, <2>2, <2>3
  <1>5. LoopStep
    BY <1>1, <1>3, <1>4 DEF LoopStep, Channel, ShapeInv, Busy
  <1> QED BY <1>5, LoopStepKeeps

LEMMA LoopAnswered ==
    ASSUME IInv, Channel, EnterAnswers
    PROVE  Channel'
  <1> DEFINE word == Word(buffer)
  <1>1. UNCHANGED <<handle, initHandle, compressing, keys, stray, enabled>>
        /\ pending' = None /\ status' = Idle /\ buffer' = ""
        /\ events # <<>> /\ events' = Tail(events) /\ events[1][1] = "Enter"
        /\ tasks' = Told(pending, word)
        /\ said' = IF tasks' = tasks THEN said
                   ELSE [said EXCEPT ![pending[1]] = tasks'[pending[1]].answer]
    BY DEF EnterAnswers, Handles, flags
  <1>2. word \in Words \ {"none", "exit"}
    BY WordType
  <1>3. \A u \in Tasks : Undisturbed(u)
    BY <1>1, <1>2, ToldLeaves
  <1> HIDE DEF word
  <1>4. said' \in [Tasks -> Words \ {"exit"}]
    <2>1. said \in [Tasks -> Words \ {"exit"}]
      BY DEF Channel, ShapeInv
    <2>2. ASSUME tasks' # tasks
          PROVE  tasks'[pending[1]].answer = word
      <3>1. tasks \in [Tasks -> TaskRecs] /\ tasks' = [tasks EXCEPT ![pending[1]].answer = word]
            /\ pending # None
        BY <1>1, <2>2 DEF Told, IInv, Typing
      <3>2. pending[1] \in Tasks
        BY <3>1 DEF Channel, ShapeInv
      <3>3. tasks[pending[1]] \in TaskRecs
        BY <3>1, <3>2
      <3>4. [tasks[pending[1]] EXCEPT !.answer = word].answer = word
        BY <3>3 DEF TaskRecs
      <3> QED BY <3>1, <3>2, <3>4
    <2> QED BY <1>1, <1>2, <2>1, <2>2
  <1>5. LoopStep
    BY <1>1, <1>3, <1>4 DEF LoopStep, Channel, ShapeInv
  <1> QED BY <1>5, LoopStepKeeps

LEMMA LoopCommand ==
    ASSUME IInv, Channel, HandleInteractive
    PROVE  Channel'
  <1> DEFINE t == events[1][2]
  <1>1. UNCHANGED <<buffer, status, pending, handle, initHandle, compressing, keys, stray, said, enabled>>
        /\ events # <<>> /\ events' = Tail(events) /\ events[1][1] = "InteractiveCommand"
        /\ tasks' = IF tasks[t].place = "terminal" THEN [tasks EXCEPT ![t].answer = "exit"] ELSE tasks
    BY DEF HandleInteractive, Handles, appVars, flags
  <1>2. t \in Tasks
    BY <1>1, HeadIs, EventIs
  <1> HIDE DEF t
  <1>3. ASSUME NEW u \in Tasks
        PROVE  Undisturbed(u)
    <2>1. tasks \in [Tasks -> TaskRecs] /\ tasks[u] \in TaskRecs
      BY DEF IInv, Typing
    <2>2. LET told == [tasks[u] EXCEPT !.answer = "exit"] IN
          /\ told.kind = tasks[u].kind /\ told.place = tasks[u].place /\ told.asks = tasks[u].asks
          /\ told.aborted = tasks[u].aborted /\ told.answer = "exit"
      BY <2>1 DEF TaskRecs
    <2>3. CASE tasks'[u] = tasks[u]
      BY <1>1, <2>3 DEF Undisturbed
    <2>4. CASE tasks'[u] = [tasks[u] EXCEPT !.answer = "exit"] /\ tasks[u].place = "terminal"
      BY <1>1, <2>2, <2>4 DEF Undisturbed
    <2> QED BY <1>1, <2>1, <2>3, <2>4
  <1>4. ~Settles(events[1])
    BY <1>1, SettlesIs
  <1>5. LoopStep
    BY <1>1, <1>3, <1>4 DEF LoopStep, Channel, ShapeInv
  <1> QED BY <1>5, LoopStepKeeps

LEMMA LoopDismissed ==
    ASSUME IInv, Channel, HandleEsc
    PROVE  Channel'
  <1>1. UNCHANGED <<buffer, pending, initHandle, compressing, keys, said, enabled>>
        /\ events # <<>> /\ events' = Tail(events) /\ events[1][1] = "Esc"
        /\ \/ status = Idle /\ UNCHANGED <<tasks, handle, status, stray>>
           \/ tasks' = Aborted(tasks, handle) /\ handle' = 0 /\ status' = Idle /\ stray' = Strays(tasks')
    BY DEF HandleEsc, Handles, flags
  <1>2. \A u \in Tasks : Undisturbed(u)
    BY <1>1, Unmoved, AbortLeaves
  <1>3. /\ stray' \in SUBSET Tasks /\ stray \subseteq stray' /\ enabled' \in BOOLEAN /\ status' = Idle
        /\ buffer' \in Lines \cup {"", "mixed"} /\ said' \in [Tasks -> Words \ {"exit"}]
        /\ handle' \in {handle, 0}
    <2>1. stray \in SUBSET Tasks /\ enabled \in BOOLEAN /\ buffer \in Lines \cup {"", "mixed"}
          /\ said \in [Tasks -> Words \ {"exit"}]
      BY DEF Channel, ShapeInv
    <2>2. stray' \in SUBSET Tasks /\ stray \subseteq stray'
      BY <1>1, <2>1 DEF Strays
    <2>3. status' = Idle /\ handle' \in {handle, 0}
      BY <1>1
    <2> QED BY <1>1, <2>1, <2>2, <2>3
  <1>4. pending' \in IF events[1][1] = "Prompt" THEN {events[1][2]} ELSE {pending, None}
    BY <1>1
  <1>5. LoopStep
    BY <1>1, <1>2, <1>3, <1>4 DEF LoopStep
  <1> QED BY <1>5, LoopStepKeeps

LEMMA LoopSubmitsNone ==
    ASSUME IInv, Channel, SubmitNothing \/ SubmitClear \/ SubmitComputer
    PROVE  Channel'
  <1>1. UNCHANGED <<status, pending, handle, compressing, keys, said>>
        /\ events # <<>> /\ events' = Tail(events) /\ events[1][1] = "Enter"
        /\ tasks' = AfterAbort /\ initHandle' = 0 /\ buffer' = "" /\ status = Idle
        /\ stray' = Strays(AfterAbort) /\ (enabled' = enabled \/ enabled' \in BOOLEAN)
    BY DEF SubmitNothing, SubmitClear, SubmitComputer, Submits, Handles, flags, MaySubmit
  <1>2. \A u \in Tasks : Undisturbed(u)
    BY <1>1, AbortLeaves DEF AfterAbort, Channel
  <1>3. /\ stray' \in SUBSET Tasks /\ stray \subseteq stray' /\ enabled' \in BOOLEAN /\ status' = Idle
        /\ buffer' \in Lines \cup {"", "mixed"} /\ said' \in [Tasks -> Words \ {"exit"}]
    BY <1>1 DEF Channel, ShapeInv, Strays
  <1>4. pending' \in IF events[1][1] = "Prompt" THEN {events[1][2]} ELSE {pending, None}
    BY <1>1
  <1>5. LoopStep
    BY <1>1, <1>2, <1>3, <1>4 DEF LoopStep
  <1> QED BY <1>5, LoopStepKeeps
-----------------------------------------------------------------------------
(* A line that starts a turn or an /init. *)
LEMMA LoopStartsTurn ==
    ASSUME IInv, Channel, SubmitPrompt \/ SubmitPlan
    PROVE  Channel'
  <1>1. PICK desk \in BOOLEAN : StartTurn(desk)
    BY DEF SubmitPrompt, SubmitPlan
  <1> DEFINE new == [Unused EXCEPT !.kind = "turn", !.place = "request", !.tools = TRUE, !.desk = desk]
  <1>2. events # <<>> /\ events[1][1] = "Enter" /\ MaySubmit /\ pending = None
        /\ buffer' = "" /\ initHandle' = 0 /\ stray' = Strays(AfterAbort)
        /\ UNCHANGED <<compressing, keys, said>> /\ status' \in {"thinking", "planning"}
    BY DEF SubmitPrompt, SubmitPlan, Submits, Handles
  <1>3. handle' = Fresh /\ tasks' = [AfterAbort EXCEPT ![Fresh] = new] /\ events' = Tail(events)
        /\ pending' = pending /\ enabled' = enabled
    BY <1>1 DEF StartTurn, flags
  <1>4. new \in TaskRecs /\ new.kind = "turn" /\ new.place = "request" /\ ~new.aborted
    BY UnusedType DEF Unused
  <1>5. events[1] = EnterKey
    BY <1>2, HeadIs, EventIs
  <1>6. Tail(events) \in Seq(Events)
    BY <1>2, TailIs DEF Channel, ShapeInv
  <1>7. events' = Tail(events) \o <<>>
    BY <1>3, <1>6
  <1>8. enabled' \in BOOLEAN
    BY <1>3 DEF Channel, ShapeInv
  <1>9. status' \in {Idle} \cup Busy
    BY <1>2 DEF Busy
  <1> HIDE DEF new
  <1>10. StartStep(new, <<>>)
    BY <1>2, <1>3, <1>4, <1>5, <1>7, <1>8, <1>9 DEF StartStep
  <1> QED BY <1>10, StartStepKeeps

LEMMA LoopStartsInit ==
    ASSUME IInv, Channel, NEW exists \in BOOLEAN, SubmitInit(exists)
    PROVE  Channel'
  <1> DEFINE asks == IF exists THEN 1 ELSE 0
             place == IF exists THEN "asked" ELSE "starting"
             new == [Unused EXCEPT !.kind = "init", !.asks = asks, !.place = place]
             more == IF exists THEN <<PromptOf(Fresh, 1)>> ELSE <<>>
  <1>1. events # <<>> /\ events[1][1] = "Enter" /\ MaySubmit /\ pending = None /\ status = Idle
        /\ buffer' = "" /\ initHandle' = Fresh /\ stray' = Strays(AfterAbort)
        /\ UNCHANGED <<compressing, keys, said, pending, handle, enabled>>
        /\ status' = (IF exists THEN status ELSE "thinking")
    BY DEF SubmitInit, Submits, Handles, flags, MaySubmit
  <1>2. tasks' = [AfterAbort EXCEPT ![Fresh] = new]
        /\ events' = IF exists THEN Append(Tail(events), PromptOf(Fresh, 1)) ELSE Tail(events)
    BY DEF SubmitInit, PromptOf
  <1>3. asks \in Nat /\ place \in {"asked", "starting"}
    OBVIOUS
  <1>4. new \in TaskRecs /\ new.kind = "init" /\ new.place = place /\ ~new.aborted /\ new.asks = asks
    <2> HIDE DEF asks, place
    <2> QED BY <1>3, UnusedType DEF Unused
  <1>5. events[1] = EnterKey
    BY <1>1, HeadIs, EventIs
  <1>6. Tail(events) \in Seq(Events)
    BY <1>1, TailIs DEF Channel, ShapeInv
  <1>7. more = IF new.place = "asked" THEN <<PromptOf(Fresh, new.asks)>> ELSE <<>>
    BY <1>4
  <1>8. events' = Tail(events) \o more
    <2>1. PromptOf(Fresh, 1) \in Events
      BY <1>1, <1>5, FreshIs, EventTypes
    <2> HIDE DEF PromptOf
    <2>2. CASE exists
      BY <1>2, <1>6, <2>1, <2>2, AppendProperties, AppendIsConcat
    <2>3. CASE ~exists
      BY <1>2, <1>6, <2>3
    <2> QED BY <2>2, <2>3
  <1>9. enabled' \in BOOLEAN
    BY <1>1 DEF Channel, ShapeInv
  <1>10. status' \in {Idle} \cup Busy
    BY <1>1 DEF Busy
  <1> HIDE DEF new, more
  <1>11. StartStep(new, more)
    BY <1>1, <1>2, <1>4, <1>5, <1>7, <1>8, <1>9, <1>10 DEF StartStep
  <1> QED BY <1>11, StartStepKeeps

LEMMA LoopKeeps ==
    ASSUME IInv, Channel, Loop
    PROVE  Channel'
  <1>1. AgentsFile \subseteq BOOLEAN
    BY TuiAssumption
  <1> QED BY <1>1, LoopInput, LoopStatus, LoopDismisses, LoopPrompts, LoopAnswered, LoopCommand,
             LoopDismissed, LoopSubmitsNone, LoopStartsTurn, LoopStartsInit DEF Loop
-----------------------------------------------------------------------------
(* What Sent puts into the channel: all of es, or all but a repeated first. *)
LEMMA SentMore ==
    ASSUME Channel, NEW es \in Seq(Events), es # <<>>
    PROVE  \E more \in Seq(Events) :
              /\ Sent(es) = events \o more
              /\ \A i \in DOMAIN more : \E j \in DOMAIN es : more[i] = es[j]
              /\ \A j \in DOMAIN es : es[j][1] \notin {"Token", "ToolExec"} =>
                    \E i \in DOMAIN more : more[i] = es[j]
              /\ es[Len(es)][1] \notin {"Token", "ToolExec"} =>
                    more # <<>> /\ more[Len(more)] = es[Len(es)]
  <1>1. /\ Tail(es) \in Seq(Events) /\ Len(es) \in Nat \ {0} /\ Len(Tail(es)) = Len(es) - 1
        /\ DOMAIN es = 1..Len(es) /\ DOMAIN Tail(es) = 1..(Len(es) - 1)
        /\ \A i \in 1..(Len(es) - 1) : Tail(es)[i] = es[i + 1] /\ i + 1 \in 1..Len(es)
        /\ \A i \in 1..Len(es) : i = 1 \/ (i - 1 \in 1..(Len(es) - 1) /\ Tail(es)[i - 1] = es[i])
    BY TailIs
  <1>2. CASE Sent(es) = events \o es
    BY <1>2
  <1>3. CASE es[1][1] \in {"Token", "ToolExec"} /\ Sent(es) = events \o Tail(es)
    <2>1. \A i \in DOMAIN Tail(es) : \E j \in DOMAIN es : Tail(es)[i] = es[j]
      BY <1>1
    <2>2. ASSUME NEW j \in DOMAIN es, es[j][1] \notin {"Token", "ToolExec"}
          PROVE  \E i \in DOMAIN Tail(es) : Tail(es)[i] = es[j]
      <3>1. j # 1
        BY <1>3, <2>2
      <3> QED BY <1>1, <3>1
    <2>3. ASSUME es[Len(es)][1] \notin {"Token", "ToolExec"}
          PROVE  Tail(es) # <<>> /\ Tail(es)[Len(Tail(es))] = es[Len(es)]
      <3>1. Len(es) # 1 /\ Len(es) \in 1..Len(es)
        BY <1>1, <1>3, <2>3
      <3>2. Len(es) - 1 \in 1..(Len(es) - 1) /\ Tail(es)[Len(es) - 1] = es[Len(es)]
        BY <1>1, <3>1
      <3>3. Len(Tail(es)) # 0
        BY <1>1, <3>2
      <3>4. Tail(es) # <<>>
        BY <1>1, <3>3, EmptySeq
      <3> QED BY <1>1, <3>2, <3>4
    <2> QED BY <1>1, <1>3, <2>1, <2>2, <2>3
  <1>4. events \in Seq(Events)
    BY DEF Channel, ShapeInv
  <1> QED BY <1>2, <1>3, <1>4, SentIs

(* One event that is not a token is simply added. *)
LEMMA SentOne ==
    ASSUME NEW e, e[1] \notin {"Token", "ToolExec"}
    PROVE  Sent(<<e>>) = events \o <<e>>
  BY DEF Sent

LEMMA KeysKeep ==
    ASSUME IInv, Channel, User_
    PROVE  Channel'
  <1>1. UNCHANGED <<tasks, pending, status, handle, initHandle, buffer, stray, enabled, said, compressing>>
        /\ keys.pressed < MaxKeys
    BY DEF User_, Type, PressEnter, PressEsc, appVars, flags
  <1>2. keys \in [pressed : 0..MaxKeys, mid : BOOLEAN] /\ compressing \in Nat \X Nat
        /\ keys.pressed \in Nat
    <2>1. keys \in [pressed : 0..MaxKeys, mid : BOOLEAN] /\ compressing \in Nat \X Nat
      BY DEF Channel, ShapeInv
    <2>2. keys.pressed \in 0..MaxKeys
      BY <2>1
    <2> QED BY <2>1, <2>2, Bounds
  <1>3. PICK e \in Events : /\ events' = Sent(<<e>>) /\ e[1] \in {"Input", "Enter", "Esc"}
                            /\ keys' \in [pressed : 0..MaxKeys, mid : BOOLEAN]
                            /\ \/ e # EnterKey /\ keys'.pressed >= keys.pressed
                               \/ e = EnterKey /\ keys'.pressed = keys.pressed + 1
    <2>0. keys.pressed + 1 \in 0..MaxKeys
      BY <1>1, <1>2, Bounds
    <2>1. ASSUME NEW line \in Lines, Type(line)
          PROVE  /\ <<"Input", line>> \in Events /\ events' = Sent(<< <<"Input", line>> >>)
                 /\ <<"Input", line>> # EnterKey /\ <<"Input", line>>[1] = "Input"
                 /\ keys' \in [pressed : 0..MaxKeys, mid : BOOLEAN] /\ keys'.pressed >= keys.pressed
      <3>1. keys' = [keys EXCEPT !.mid = TRUE]
        BY <2>1 DEF Type
      <3>2. keys' \in [pressed : 0..MaxKeys, mid : BOOLEAN] /\ keys'.pressed >= keys.pressed
        <4>1. keys'.pressed = keys.pressed
          BY <1>2, <3>1
        <4>2. keys' \in [pressed : 0..MaxKeys, mid : BOOLEAN]
          BY <1>2, <3>1
        <4> QED BY <1>2, <4>1, <4>2
      <3>3. <<"Input", line>> \in Events /\ <<"Input", line>> # EnterKey
        BY EventTypes, TagsAre
      <3> QED BY <2>1, <3>2, <3>3 DEF Type
    <2>2. ASSUME PressEnter
          PROVE  /\ EnterKey \in Events /\ events' = Sent(<<EnterKey>>) /\ EnterKey[1] = "Enter"
                 /\ keys' \in [pressed : 0..MaxKeys, mid : BOOLEAN] /\ keys'.pressed = keys.pressed + 1
      <3>1. keys' = [keys EXCEPT !.mid = FALSE, !.pressed = keys.pressed + 1]
        BY <2>2 DEF PressEnter
      <3> QED BY <1>2, <2>0, <2>2, <3>1, EventTypes DEF PressEnter, EnterKey
    <2>3. ASSUME PressEsc
          PROVE  /\ <<"Esc", "">> \in Events /\ events' = Sent(<< <<"Esc", "">> >>)
                 /\ <<"Esc", "">> # EnterKey /\ <<"Esc", "">>[1] = "Esc"
                 /\ keys' \in [pressed : 0..MaxKeys, mid : BOOLEAN] /\ keys'.pressed >= keys.pressed
      <3>1. keys' = [keys EXCEPT !.pressed = keys.pressed + 1]
        BY <2>3 DEF PressEsc
      <3>2. keys' \in [pressed : 0..MaxKeys, mid : BOOLEAN] /\ keys'.pressed >= keys.pressed
        BY <1>2, <2>0, <3>1
      <3>3. <<"Esc", "">> \in Events /\ <<"Esc", "">> # EnterKey
        BY EventTypes, TagsAre
      <3> QED BY <2>3, <3>2, <3>3 DEF PressEsc
    <2> QED BY <2>1, <2>2, <2>3 DEF User_
  <1>4. events' = events \o <<e>>
    BY <1>3, SentOne
  <1>5. /\ <<e>> \in Seq(Events) /\ DOMAIN <<e>> = {1} /\ <<e>>[1] = e
    OBVIOUS
  <1>6. e[1] # "Prompt" /\ e \notin Dismissals /\ ~Unsettles(e)
    BY <1>3, TagsAre
  <1>7. AppendStep(<<e>>)
    BY <1>1, <1>2, <1>3, <1>4, <1>5, <1>6 DEF AppendStep
  <1> QED BY <1>7, AppendStepKeeps

LEMMA CompressionKeeps ==
    ASSUME IInv, Channel, CompressionStarts \/ CompressionEnds
    PROVE  Channel'
  <1>1. UNCHANGED <<tasks, pending, status, handle, initHandle, buffer, stray, enabled, said, keys>>
    BY DEF CompressionStarts, CompressionEnds, appVars, flags
  <1>2. keys \in [pressed : 0..MaxKeys, mid : BOOLEAN] /\ compressing \in Nat \X Nat
        /\ keys.pressed \in Nat
    <2>1. keys \in [pressed : 0..MaxKeys, mid : BOOLEAN] /\ compressing \in Nat \X Nat
      BY DEF Channel, ShapeInv
    <2>2. keys.pressed \in 0..MaxKeys
      BY <2>1
    <2> QED BY <2>1, <2>2, Bounds
  <1>3. PICK s \in {"compressing", "idle"} :
           /\ events' = Sent(<<Status(s)>>) /\ compressing' \in Nat \X Nat
           /\ s = "compressing" => compressing' # <<0, 0>>
    <2>1. CASE CompressionStarts
      <3>1. compressing' = <<compressing[1] - 1, compressing[2] + 1>> /\ compressing[1] > 0
        BY <2>1 DEF CompressionStarts
      <3>2. compressing[1] - 1 \in Nat /\ compressing[2] + 1 \in Nat /\ compressing[2] + 1 # 0
        BY <1>2, <3>1
      <3>3. compressing' # <<0, 0>> /\ compressing' \in Nat \X Nat
        BY <3>1, <3>2
      <3> QED BY <2>1, <3>3 DEF CompressionStarts
    <2>2. CASE CompressionEnds
      <3>1. compressing' = <<compressing[1], compressing[2] - 1>> /\ compressing[2] > 0
        BY <2>2 DEF CompressionEnds
      <3>2. compressing' \in Nat \X Nat
        BY <1>2, <3>1
      <3> QED BY <2>2, <3>2 DEF CompressionEnds, Idle
    <2> QED BY <2>1, <2>2
  <1> DEFINE e == Status(s)
  <1>4. e \in Events /\ e[1] = "Status" /\ (s = "idle" => Settles(e))
    BY EventTypes DEF Idle, Settles, Status
  <1>5. e # EnterKey /\ e[1] # "Prompt" /\ e \notin Dismissals
    BY <1>4, TagsAre
  <1> HIDE DEF e
  <1>6. events' = events \o <<e>>
    <2>1. events' = Sent(<<e>>)
      BY <1>3 DEF e
    <2> QED BY <1>4, <2>1, SentOne
  <1>7. /\ <<e>> \in Seq(Events) /\ DOMAIN <<e>> = {1} /\ <<e>>[1] = e /\ Len(<<e>>) = 1 /\ <<e>> # <<>>
    BY <1>4
  <1>8. compressing' # <<0, 0>> \/ (<<e>> # <<>> /\ Settles(<<e>>[Len(<<e>>)]))
    BY <1>3, <1>4, <1>7
  <1>9. AppendStep(<<e>>)
    BY <1>1, <1>2, <1>3, <1>5, <1>6, <1>7, <1>8 DEF AppendStep
  <1> QED BY <1>9, AppendStepKeeps

LEMMA NothingKeeps ==
    ASSUME IInv, Channel, UNCHANGED vars
    PROVE  Channel'
  <1>1. events \in Seq(Events) /\ keys \in [pressed : 0..MaxKeys, mid : BOOLEAN] /\ compressing \in Nat \X Nat
    BY DEF Channel, ShapeInv
  <1>2. keys.pressed \in Nat
    <2>1. keys.pressed \in 0..MaxKeys
      BY <1>1
    <2> QED BY <2>1, Bounds
  <1>3. <<>> \in Seq(Events) /\ DOMAIN <<>> = {} /\ events = events \o <<>>
    BY <1>1
  <1>4. AppendStep(<<>>)
    BY <1>1, <1>2, <1>3 DEF AppendStep, vars
  <1> QED BY <1>4, AppendStepKeeps
-----------------------------------------------------------------------------
(* The steps of turns and of /init. *)
Unconcerned == UNCHANGED <<buffer, status, pending, handle, initHandle, compressing, keys, enabled>>
Reported == {"Token", "ToolExec", "StreamDone", "PromptExpired", "Status", "InteractiveCommand"}

ReportOf(t, e) == e[1] \in Reported /\ (e[1] \in {"StreamDone", "PromptExpired"} => e[2] = t)

LEMMA SentNothing ==
    ASSUME Channel
    PROVE  /\ Sent(<<>>) = events \o <<>> /\ events \o <<>> = events
           /\ <<>> \in Seq(Events) /\ DOMAIN <<>> = {}
  <1>1. events \in Seq(Events)
    BY DEF Channel, ShapeInv
  <1> QED BY <1>1 DEF Sent

LEMMA TaskMoves ==
    ASSUME IInv, Channel, NEW t \in Tasks, tasks[t].place # "done", NEW new \in TaskRecs,
           tasks' = [tasks EXCEPT ![t] = new], new.kind = tasks[t].kind,
           new.place \notin {"asked", "done"}, new.asks = tasks[t].asks,
           new.aborted = tasks[t].aborted,
           NEW es \in Seq(Events), events' = Sent(es), \A i \in DOMAIN es : ReportOf(t, es[i]),
           Unconcerned, stray' = stray, said' = said \/ said' = [said EXCEPT ![t] = "none"]
    PROVE  TaskKept
  <1>1. PICK more \in Seq(Events) :
           /\ events' = events \o more
           /\ \A i \in DOMAIN more : \E j \in DOMAIN es : more[i] = es[j]
    <2>1. CASE es = <<>>
      <3>1. events' = events \o <<>> /\ <<>> \in Seq(Events) /\ DOMAIN <<>> = {}
        BY <2>1, SentNothing
      <3> QED BY <2>1, <3>1
    <2>2. CASE es # <<>>
      BY <2>2, SentMore
    <2> QED BY <2>1, <2>2
  <1>2. \A i \in DOMAIN more : ReportOf(t, more[i])
    BY <1>1
  <1>3. /\ \A i \in DOMAIN more : more[i] # EnterKey /\ \A u, n : more[i] # PromptOf(u, n)
        /\ \A i \in DOMAIN more : more[i] \in Dismissals => more[i][2] = t
    BY <1>2, TagsAre, PromptIs DEF Reported, ReportOf
  <1>4. said' \in [Tasks -> Words \ {"exit"}]
    BY DEF Channel, ShapeInv, Words
  <1>5. stray' \in SUBSET Tasks
    BY DEF Channel, ShapeInv
  <1>6. tasks[t].asks \in Nat /\ tasks[t].aborted \in BOOLEAN
    BY FieldTypes DEF IInv, Typing
  <1>7. TaskStep(t, new, more)
    BY <1>1, <1>3, <1>4, <1>5, <1>6 DEF TaskStep, Unconcerned
  <1> QED BY <1>7, TaskStepKeeps

LEMMA TaskEnds ==
    ASSUME IInv, Channel, NEW t \in Tasks, tasks[t].place # "done",
           tasks' = [tasks EXCEPT ![t] = Over(tasks[t])],
           NEW es \in Seq(Events), events' = Sent(es), \A i \in DOMAIN es : ReportOf(t, es[i]),
           \/ stray' # {}
           \/ es # <<>> /\ es[Len(es)] = StreamDone(t)
           \/ es = <<>> /\ tasks[t].kind = "init" /\ tasks[t].place = "asked",
           Unconcerned, stray' \in {stray, stray \cup {t}},
           said' = said \/ said' = [said EXCEPT ![t] = "none"]
    PROVE  TaskKept
  <1>1. PICK more \in Seq(Events) :
           /\ events' = events \o more
           /\ \A i \in DOMAIN more : \E j \in DOMAIN es : more[i] = es[j]
           /\ es = <<>> => more = <<>>
           /\ es # <<>> /\ es[Len(es)] = StreamDone(t) => more # <<>> /\ more[Len(more)] = StreamDone(t)
    <2>1. CASE es = <<>>
      <3>1. events' = events \o <<>> /\ <<>> \in Seq(Events) /\ DOMAIN <<>> = {}
        BY <2>1, SentNothing
      <3> QED BY <2>1, <3>1
    <2>2. CASE es # <<>>
      <3>1. PICK more \in Seq(Events) :
              /\ Sent(es) = events \o more
              /\ \A i \in DOMAIN more : \E j \in DOMAIN es : more[i] = es[j]
              /\ es[Len(es)][1] \notin {"Token", "ToolExec"} =>
                    more # <<>> /\ more[Len(more)] = es[Len(es)]
        BY <2>2, SentMore
      <3>2. es[Len(es)] = StreamDone(t) => es[Len(es)][1] \notin {"Token", "ToolExec"}
        BY TagsAre
      <3> QED BY <2>2, <3>1, <3>2
    <2> QED BY <2>1, <2>2
  <1>2. \A i \in DOMAIN more : ReportOf(t, more[i])
    BY <1>1
  <1>3. /\ \A i \in DOMAIN more : more[i] # EnterKey /\ \A u, n : more[i] # PromptOf(u, n)
        /\ \A i \in DOMAIN more : more[i] \in Dismissals => more[i][2] = t
    BY <1>2, TagsAre, PromptIs DEF Reported, ReportOf
  <1>4. said' \in [Tasks -> Words \ {"exit"}]
    BY DEF Channel, ShapeInv, Words
  <1>5. stray' \in SUBSET Tasks /\ stray \subseteq stray'
    BY DEF Channel, ShapeInv
  <1>6. /\ Over(tasks[t]) \in TaskRecs /\ Over(tasks[t]).place = "done"
        /\ Over(tasks[t]).kind = tasks[t].kind /\ Over(tasks[t]).aborted = FALSE
    <2>1. tasks[t] \in TaskRecs
      BY DEF IInv, Typing
    <2> QED BY <2>1, OverType DEF Over, Unused
  <1>7. Settles(StreamDone(t))
    BY TagsAre DEF Settles
  <1> DEFINE new == Over(tasks[t])
  <1>8. new \in TaskRecs /\ new.place = "done" /\ new.kind = tasks[t].kind /\ new.aborted = FALSE
        /\ tasks' = [tasks EXCEPT ![t] = new]
    BY <1>6
  <1>9. \/ stray' # {}
        \/ more # <<>> /\ Settles(more[Len(more)])
        \/ more = <<>> /\ tasks[t].kind = "init" /\ tasks[t].place = "asked"
    BY <1>1, <1>7
  <1> HIDE DEF new
  <1>10. new.aborted = (tasks[t].aborted /\ new.place # "done")
    BY <1>8
  <1>11. TaskStep(t, new, more)
    <2>1. \A i \in DOMAIN more, u \in Tasks, n \in Nat :
             more[i] = PromptOf(u, n) => u = t /\ n <= new.asks
      BY <1>3
    <2>2. \A i \in DOMAIN more : more[i] # EnterKey
      BY <1>3
    <2>3. new.place # "asked" /\ ~(new.place # "done")
      BY <1>8
    <2>4. UNCHANGED <<buffer, status, pending, handle, initHandle, compressing, keys, enabled>>
      BY DEF Unconcerned
    <2>5. \A i \in DOMAIN more : more[i] \in Dismissals => more[i][2] = t
      BY <1>3
    <2> QED BY <1>1, <1>4, <1>5, <1>8, <1>9, <1>10, <2>1, <2>2, <2>3, <2>4, <2>5, Zenon DEF TaskStep
  <1> QED BY <1>11, TaskStepKeeps

LEMMA TaskAsks ==
    ASSUME IInv, Channel, NEW t \in Tasks, AskFirst(t)
    PROVE  TaskKept
  <1> DEFINE r == tasks[t]
  <1>0. PICK n \in Nat : n = r.asks + 1
    BY FieldTypes DEF IInv, Typing
  <1> DEFINE new == Put(r, "asked", "none", n)
             es == (IF Current(t) = "desk" THEN <<>> ELSE <<ToolExec>>) \o <<PromptOf(t, n)>>
  <1>1. r \in TaskRecs /\ r.asks \in Nat /\ r.place = "calls" /\ r.kind = "turn"
        /\ r.aborted \in BOOLEAN
    BY FieldTypes DEF IInv, Typing, AskFirst, HasCall, At
  <1>2. /\ new \in TaskRecs /\ new.place = "asked" /\ new.answer = "none" /\ new.kind = r.kind
        /\ new.aborted = r.aborted /\ new.asks = n
    <2>1. "none" \in Words /\ "asked" \in Waits
      BY <1>1 DEF Words, Waits
    <2>2. new.asks = n
      BY <1>1 DEF Put, TaskRecs
    <2> QED BY <1>1, <2>1, <2>2, PutType
  <1>3. tasks' = [tasks EXCEPT ![t] = new] /\ events' = Sent(es)
    BY <1>0 DEF AskFirst, Put, PromptOf
  <1>4. PICK more \in Seq(Events) :
           /\ events' = events \o more
           /\ \A i \in DOMAIN more : more[i] = ToolExec \/ more[i] = PromptOf(t, n)
           /\ \E i \in DOMAIN more : more[i] = PromptOf(t, n)
    <2>1. PromptOf(t, n) \in Events /\ ToolExec \in Events
      BY EventTypes
    <2> DEFINE p == PromptOf(t, n)
    <2>2. p[1] \notin {"Token", "ToolExec"}
      BY PromptIs
    <2>3. /\ es \in Seq(Events) /\ es # <<>>
          /\ \A i \in DOMAIN es : es[i] = ToolExec \/ es[i] = p
          /\ \E i \in DOMAIN es : es[i] = p
      <3> HIDE DEF p
      <3>1. p \in Events
        BY <2>1 DEF p
      <3>2. CASE Current(t) # "desk"
        <4>1. /\ <<ToolExec>> \in Seq(Events) /\ <<p>> \in Seq(Events)
              /\ Len(<<ToolExec>>) = 1 /\ Len(<<p>>) = 1 /\ <<ToolExec>>[1] = ToolExec /\ <<p>>[1] = p
          BY <2>1, <3>1
        <4>2. es = <<ToolExec>> \o <<p>>
          BY <3>2 DEF p
        <4> HIDE DEF es
        <4>3. es \in Seq(Events) /\ DOMAIN es = 1..2 /\ es[1] = ToolExec /\ es[2] = p
          BY <4>1, <4>2, MoreIs
        <4>4. \A i \in 1..2 : i = 1 \/ i = 2
          OBVIOUS
        <4> QED BY <4>3, <4>4
      <3>3. CASE Current(t) = "desk"
        <4>1. es = <<>> \o <<p>>
          BY <3>3 DEF p
        <4>2. es = <<p>>
          BY <3>1, <4>1
        <4> HIDE DEF es
        <4>3. es \in Seq(Events) /\ DOMAIN es = {1} /\ es[1] = p
          BY <3>1, <4>2
        <4> QED BY <4>3
      <3> QED BY <3>2, <3>3
    <2> HIDE DEF es, p
    <2>4. PICK more \in Seq(Events) :
              /\ Sent(es) = events \o more
              /\ \A i \in DOMAIN more : \E j \in DOMAIN es : more[i] = es[j]
              /\ \A j \in DOMAIN es : es[j][1] \notin {"Token", "ToolExec"} =>
                    \E i \in DOMAIN more : more[i] = es[j]
      BY <2>3, SentMore
    <2>5. \E i \in DOMAIN more : more[i] = p
      BY <2>2, <2>3, <2>4
    <2>6. \A i \in DOMAIN more : more[i] = ToolExec \/ more[i] = p
      BY <2>3, <2>4
    <2> QED BY <1>3, <2>4, <2>5, <2>6 DEF p
  <1>5. \A i \in DOMAIN more : more[i] # EnterKey /\ more[i] \notin Dismissals
    <2>1. ToolExec # EnterKey /\ ToolExec \notin Dismissals
      BY TagsAre
    <2>2. PromptOf(t, n) # EnterKey /\ PromptOf(t, n) \notin Dismissals
      BY PromptIs
    <2> QED BY <1>4, <2>1, <2>2
  <1>6. \A i \in DOMAIN more, u \in Tasks, m \in Nat : more[i] = PromptOf(u, m) => u = t /\ m = n
    <2> SUFFICES ASSUME NEW i \in DOMAIN more, NEW u \in Tasks, NEW m \in Nat, more[i] = PromptOf(u, m)
                 PROVE  u = t /\ m = n
      OBVIOUS
    <2>1. more[i] = PromptOf(t, n)
      <3>1. more[i][1] = "Prompt" /\ ToolExec[1] = "ToolExec"
        BY PromptIs, TagsAre
      <3> QED BY <1>4, <3>1
    <2>2. <<u, m>> = <<t, n>>
      BY <2>1, PromptIs
    <2> QED BY <2>2
  <1>7. Unconcerned /\ stray' = stray /\ said' = [said EXCEPT ![t] = "none"]
    BY DEF AskFirst, TaskForgets, appVars, flags, Unconcerned
  <1>8. said' \in [Tasks -> Words \ {"exit"}] /\ stray' \in SUBSET Tasks
    BY <1>7 DEF Channel, ShapeInv, Words
  <1>9. n > r.asks /\ n <= n
    BY <1>0, <1>1
  <1> HIDE DEF new, es
  <1>10. TaskStep(t, new, more)
    BY <1>1, <1>2, <1>3, <1>4, <1>5, <1>6, <1>7, <1>8, <1>9 DEF TaskStep, Unconcerned
  <1> QED BY <1>10, TaskStepKeeps
(* The task after such a step is taken from the step itself. *)
LEMMA TaskGoes ==
    ASSUME IInv, IInv', Channel, NEW t \in Tasks, tasks[t].place # "done",
           NEW r, tasks' = [tasks EXCEPT ![t] = r],
           r.kind = tasks[t].kind, r.place \notin {"asked", "done"},
           r.asks = tasks[t].asks, r.aborted = tasks[t].aborted,
           NEW es \in Seq(Events), events' = Sent(es), \A i \in DOMAIN es : ReportOf(t, es[i]),
           TaskOnly \/ TaskForgets(t), enabled' = enabled, stray' = stray
    PROVE  TaskKept
  <1>1. tasks' \in [Tasks -> TaskRecs] /\ tasks \in [Tasks -> TaskRecs]
    BY DEF IInv, Typing
  <1>2. r \in TaskRecs
    BY <1>1
  <1>3. Unconcerned /\ (said' = said \/ said' = [said EXCEPT ![t] = "none"])
    BY DEF Unconcerned, TaskOnly, TaskForgets, appVars
  <1> QED BY <1>2, <1>3, TaskMoves

LEMMA OneEvent ==
    ASSUME NEW t, NEW e \in Events, ReportOf(t, e)
    PROVE  /\ <<e>> \in Seq(Events) /\ <<e>> # <<>> /\ <<e>>[Len(<<e>>)] = e
           /\ \A i \in DOMAIN <<e>> : ReportOf(t, <<e>>[i])
  <1>1. <<e>> \in Seq(Events) /\ Len(<<e>>) = 1 /\ <<e>>[1] = e /\ DOMAIN <<e>> = {1}
    OBVIOUS
  <1> QED BY <1>1

LEMMA Pair ==
    ASSUME NEW a, NEW b
    PROVE  <<a>> \o <<b>> = <<a, b>>
  <1> DEFINE S == {a, b}
  <1>1. /\ <<a>> \in Seq(S) /\ Len(<<a>>) = 1 /\ <<a>>[1] = a
        /\ <<b>> \in Seq(S) /\ Len(<<b>>) = 1 /\ <<b>>[1] = b
        /\ <<a, b>> \in Seq(S) /\ Len(<<a, b>>) = 2 /\ <<a, b>>[1] = a /\ <<a, b>>[2] = b
    OBVIOUS
  <1> HIDE DEF S
  <1> DEFINE s == <<a>> \o <<b>>
  <1>2. s \in Seq(S) /\ Len(s) = 2 /\ s[1] = a /\ s[2] = b
    BY <1>1, ConcatProperties
  <1> HIDE DEF s
  <1>3. \A i \in 1..Len(s) : s[i] = <<a, b>>[i]
    <2>1. \A i \in 1..2 : i = 1 \/ i = 2
      OBVIOUS
    <2> QED BY <1>1, <1>2, <2>1
  <1>4. s = <<a, b>>
    BY <1>1, <1>2, <1>3, SeqEqual
  <1> QED BY <1>4 DEF s

LEMMA TwoEvents ==
    ASSUME NEW t, NEW d \in Events, NEW e \in Events, ReportOf(t, d), ReportOf(t, e)
    PROVE  /\ <<d, e>> \in Seq(Events) /\ <<d, e>> # <<>> /\ <<d, e>>[Len(<<d, e>>)] = e
           /\ \A i \in DOMAIN <<d, e>> : ReportOf(t, <<d, e>>[i])
  <1>1. <<d, e>> \in Seq(Events) /\ Len(<<d, e>>) = 2 /\ <<d, e>>[1] = d /\ <<d, e>>[2] = e
        /\ DOMAIN <<d, e>> = 1..2
    OBVIOUS
  <1>2. \A i \in 1..2 : i = 1 \/ i = 2
    OBVIOUS
  <1> QED BY <1>1, <1>2

(* The events that tasks send. *)
LEMMA ReportTypes ==
    \A t \in Tasks :
        /\ Token \in Events /\ ReportOf(t, Token)
        /\ ToolExec \in Events /\ ReportOf(t, ToolExec)
        /\ StreamDone(t) \in Events /\ ReportOf(t, StreamDone(t))
        /\ PromptExpired(t) \in Events /\ ReportOf(t, PromptExpired(t))
        /\ Status("executing") \in Events /\ ReportOf(t, Status("executing"))
        /\ <<"InteractiveCommand", t>> \in Events /\ ReportOf(t, <<"InteractiveCommand", t>>)
  BY EventTypes, TagsAre DEF Reported, ReportOf

(* The last text of a task, and its end. *)
LEMMA EndReported ==
    ASSUME Channel, NEW t \in Tasks, events' = Sent(<<Token, StreamDone(t)>>)
    PROVE  \E es \in Seq(Events) :
              /\ events' = Sent(es) /\ \A i \in DOMAIN es : ReportOf(t, es[i])
              /\ es # <<>> /\ es[Len(es)] = StreamDone(t)
  <1> DEFINE e == StreamDone(t)
  <1>1. Token \in Events /\ ReportOf(t, Token) /\ e \in Events /\ ReportOf(t, e)
    BY ReportTypes
  <1> HIDE DEF e
  <1>2. /\ <<Token, e>> \in Seq(Events) /\ <<Token, e>> # <<>> /\ <<Token, e>>[Len(<<Token, e>>)] = e
        /\ \A i \in DOMAIN <<Token, e>> : ReportOf(t, <<Token, e>>[i])
    BY <1>1, TwoEvents
  <1> DEFINE es == <<Token, e>>
  <1>3. events' = Sent(es)
    BY DEF e
  <1> HIDE DEF es
  <1>4. es \in Seq(Events) /\ es # <<>> /\ es[Len(es)] = e /\ \A i \in DOMAIN es : ReportOf(t, es[i])
    BY <1>2 DEF es
  <1> QED BY <1>3, <1>4 DEF e

LEMMA NoReport ==
    ASSUME Channel, events' = events
    PROVE  <<>> \in Seq(Events) /\ events' = Sent(<<>>) /\ DOMAIN <<>> = {}
  BY SentNothing

LEMMA TurnEnds ==
    ASSUME IInv, Channel, NEW t \in Tasks,
           StreamFails(t) \/ (Persist(t) /\ tasks[t].left = <<>>) \/ Dropped(t)
    PROVE  TaskKept
  <1>1. tasks' = [tasks EXCEPT ![t] = Over(tasks[t])] /\ Unconcerned /\ stray' = stray
        /\ (said' = said \/ said' = [said EXCEPT ![t] = "none"])
    BY DEF StreamFails, Persist, Dropped, TaskOnly, TaskForgets, Unconcerned, appVars, flags
  <1>2. CASE StreamFails(t)
    <2>1. tasks[t].place # "done" /\ events' = Sent(<<Token, StreamDone(t)>>)
      BY <1>2 DEF StreamFails
    <2> QED BY <1>1, <2>1, EndReported, TaskEnds
  <1>3. CASE Persist(t) /\ tasks[t].left = <<>>
    <2>1. tasks[t].place # "done" /\ events' = Sent(<<StreamDone(t)>>)
      BY <1>3 DEF Persist, At
    <2> QED BY <1>1, <2>1, ReportTypes, OneEvent, TaskEnds
  <1>4. CASE Dropped(t)
    <2>1. tasks[t].aborted /\ events' = events
      BY <1>4 DEF Dropped
    <2>2. tasks[t].place # "done"
      BY <2>1 DEF Channel, ShapeInv
    <2>3. stray' # {}
      BY <1>1, <2>1 DEF Channel, AloneInv
    <2> QED BY <1>1, <2>1, <2>2, <2>3, NoReport, TaskEnds
  <1> QED BY <1>2, <1>3, <1>4

LEMMA TurnKeeps ==
    ASSUME IInv, IInv', Channel, NEW t \in Tasks, Turn(t)
    PROVE  TaskKept
  <1> DEFINE r == tasks[t]
  <1>1. r \in TaskRecs /\ tasks \in [Tasks -> TaskRecs] /\ tasks[t] = r
    BY DEF IInv, Typing
  <1>2. CASE StreamChunk(t)
    <2>1. tasks' = [tasks EXCEPT ![t] = r] /\ r.place = "request" /\ events' = Sent(<<Token>>)
          /\ TaskOnly /\ enabled' = enabled /\ stray' = stray
      BY <1>1, <1>2 DEF StreamChunk, flags
    <2> QED BY <2>1, ReportTypes, OneEvent, TaskGoes
  <1>3. ASSUME NEW calls, StreamEnds(t, calls) PROVE TaskKept
    <2> DEFINE left == [k \in DOMAIN calls |-> <<calls[k], k>>]
               new == [r EXCEPT !.place = "persist", !.sent = r.sent + 1, !.left = left]
    <2>1. tasks' = [tasks EXCEPT ![t] = new] /\ r.place = "request" /\ events' = events
          /\ TaskOnly /\ enabled' = enabled /\ stray' = stray
      BY <1>3 DEF StreamEnds, At, flags
    <2> HIDE DEF left
    <2>2. new.kind = r.kind /\ new.place = "persist" /\ new.asks = r.asks /\ new.aborted = r.aborted
      BY <1>1 DEF TaskRecs
    <2> HIDE DEF new
    <2> QED BY <2>1, <2>2, NoReport, TaskGoes
  <1>4. CASE Persist(t) /\ r.left # <<>>
    <2> DEFINE new == [r EXCEPT !.place = "calls"]
    <2>1. tasks' = [tasks EXCEPT ![t] = new] /\ r.place = "persist" /\ events' = events
          /\ TaskOnly /\ enabled' = enabled /\ stray' = stray
      BY <1>4 DEF Persist, At, flags
    <2>2. new.kind = r.kind /\ new.place = "calls" /\ new.asks = r.asks /\ new.aborted = r.aborted
      BY <1>1 DEF TaskRecs
    <2> HIDE DEF new
    <2> QED BY <2>1, <2>2, NoReport, TaskGoes
  <1>5. ASSUME RefuseCall(t) \/ TakeDenial(t) \/ \E shot \in BOOLEAN : CallEnds(t, shot) PROVE TaskKept
    <2>1. PICK shot \in BOOLEAN : tasks' = Popped(t, shot)
      BY <1>5 DEF RefuseCall, TakeDenial, CallEnds
    <2> DEFINE new == [r EXCEPT !.left = Tail(r.left), !.place = "calls", !.answer = "none",
                                !.shot = r.shot \/ shot]
    <2>2. tasks' = [tasks EXCEPT ![t] = new]
      BY <2>1 DEF Popped
    <2>3. new.kind = r.kind /\ new.place = "calls" /\ new.asks = r.asks /\ new.aborted = r.aborted
      BY <1>1 DEF TaskRecs
    <2>4. r.place \in {"calls", "asked", "running", "terminal"}
          /\ (TaskOnly \/ TaskForgets(t)) /\ enabled' = enabled /\ stray' = stray
      BY <1>5 DEF RefuseCall, TakeDenial, CallEnds, HasCall, At, flags
    <2>5. events' = Sent(<<ToolExec>>) \/ events' = Sent(<<PromptExpired(t), ToolExec>>)
      BY <1>5 DEF RefuseCall, TakeDenial, CallEnds, PushResult
    <2> HIDE DEF new
    <2>6. CASE events' = Sent(<<ToolExec>>)
      BY <2>2, <2>3, <2>4, <2>6, ReportTypes, OneEvent, TaskGoes
    <2>7. CASE events' = Sent(<<PromptExpired(t), ToolExec>>)
      BY <2>2, <2>3, <2>4, <2>7, ReportTypes, TwoEvents, TaskGoes
    <2> QED BY <2>5, <2>6, <2>7
  <1>6. CASE RunCall(t)
    <2> DEFINE place == RunsIn(t)
               new == [r EXCEPT !.place = place]
    <2>1. tasks' = [tasks EXCEPT ![t] = new] /\ r.place = "calls"
          /\ TaskOnly /\ enabled' = enabled /\ stray' = stray
      BY <1>6 DEF RunCall, HasCall, At, flags
    <2>2. place \in {"terminal", "running"}
      BY DEF RunsIn
    <2>3. events' = Sent(<<ToolExec>> \o GivenTo(t))
      BY <1>6 DEF RunCall
    <2> HIDE DEF place
    <2>4. new.kind = r.kind /\ new.place = place /\ new.asks = r.asks /\ new.aborted = r.aborted
      BY <1>1 DEF TaskRecs
    <2> HIDE DEF new
    <2>5. CASE GivenTo(t) = <<>>
      <3>1. <<ToolExec>> \o <<>> = <<ToolExec>>
        OBVIOUS
      <3>2. events' = Sent(<<ToolExec>>)
        BY <2>3, <2>5, <3>1
      <3> QED BY <2>1, <2>2, <2>4, <3>2, ReportTypes, OneEvent, TaskGoes
    <2>6. CASE GivenTo(t) = << <<"InteractiveCommand", t>> >>
      <3> DEFINE command == <<"InteractiveCommand", t>>
      <3>1. command \in Events /\ ReportOf(t, command) /\ events' = Sent(<<ToolExec>> \o <<command>>)
        BY <2>3, <2>6, ReportTypes
      <3> HIDE DEF command
      <3>2. events' = Sent(<<ToolExec, command>>)
        BY <3>1, Pair
      <3> DEFINE es == <<ToolExec, command>>
      <3>3. es \in Seq(Events) /\ \A i \in DOMAIN es : ReportOf(t, es[i])
        BY <3>1, ReportTypes, TwoEvents
      <3>4. events' = Sent(es)
        BY <3>2
      <3> HIDE DEF es
      <3>5. r.place # "done" /\ new.kind = r.kind /\ new.place \notin {"asked", "done"}
        BY <2>1, <2>2, <2>4
      <3> QED BY <2>1, <2>4, <3>3, <3>4, <3>5, TaskGoes
    <2> QED BY <2>5, <2>6 DEF GivenTo
  <1>7. CASE TakeAnswer(t)
    <2> DEFINE place == RunsIn(t)
               new == [r EXCEPT !.place = place, !.answer = "none"]
    <2>1. tasks' = [tasks EXCEPT ![t] = new] /\ r.place = "asked"
          /\ TaskOnly /\ enabled' = enabled /\ stray' = stray
          /\ (events' = Sent(<<ToolExec>>) \/ events' = Sent(GivenTo(t)))
      BY <1>7 DEF TakeAnswer, At
    <2>2. place \in {"terminal", "running"}
      BY DEF RunsIn
    <2> HIDE DEF place
    <2>3. new.kind = r.kind /\ new.place = place /\ new.asks = r.asks /\ new.aborted = r.aborted
      BY <1>1 DEF TaskRecs
    <2> HIDE DEF new
    <2>4. CASE events' = Sent(<<ToolExec>>)
      BY <2>1, <2>2, <2>3, <2>4, ReportTypes, OneEvent, TaskGoes
    <2>5. CASE events' = Sent(<<>>)
      BY <2>1, <2>2, <2>3, <2>5, SentNothing, TaskGoes
    <2>6. CASE events' = Sent(<< <<"InteractiveCommand", t>> >>)
      <3> DEFINE command == <<"InteractiveCommand", t>>
      <3>1. command \in Events /\ ReportOf(t, command) /\ events' = Sent(<<command>>)
        BY <2>6, ReportTypes
      <3> HIDE DEF command
      <3> QED BY <2>1, <2>2, <2>3, <3>1, OneEvent, TaskGoes
    <2> QED BY <2>1, <2>4, <2>5, <2>6 DEF GivenTo
  <1>8. CASE NextRequest(t)
    <2> DEFINE again == enabled /\ r.desk /\ r.round + 1 < (IF MaxRounds = 0 THEN 1 ELSE MaxRounds)
               round == IF again THEN r.round + 1 ELSE r.round
               new == [r EXCEPT !.place = "request", !.shot = FALSE, !.tools = again, !.round = round]
    <2>1. tasks' = [tasks EXCEPT ![t] = new] /\ r.place = "calls" /\ events' = events
          /\ TaskOnly /\ enabled' = enabled /\ stray' = stray
      BY <1>8 DEF NextRequest, At, flags
    <2> HIDE DEF again, round
    <2>2. new.kind = r.kind /\ new.place = "request" /\ new.asks = r.asks /\ new.aborted = r.aborted
      BY <1>1 DEF TaskRecs
    <2> HIDE DEF new
    <2> QED BY <2>1, <2>2, NoReport, TaskGoes
  <1> QED BY <1>2, <1>3, <1>4, <1>5, <1>6, <1>7, <1>8, TaskAsks, TurnEnds DEF Turn

LEMMA InitKeeps ==
    ASSUME IInv, IInv', Channel, NEW t \in Tasks, InitTask(t)
    PROVE  TaskKept
  <1> DEFINE r == tasks[t]
  <1>1. r \in TaskRecs /\ tasks[t] = r
    BY DEF IInv, Typing
  <1>2. ASSUME tasks' = [tasks EXCEPT ![t] = Over(@)], r.place # "done", enabled' = enabled,
               TaskOnly \/ TaskForgets(t), stray' \in {stray, stray \cup {t}},
               \/ stray' # {} /\ events' = Sent(<<Token>>)
               \/ events' = Sent(<<Token, StreamDone(t)>>)
               \/ events' = events /\ r.kind = "init" /\ r.place = "asked"
        PROVE  TaskKept
    <2>1. tasks' = [tasks EXCEPT ![t] = Over(tasks[t])] /\ Unconcerned
          /\ (said' = said \/ said' = [said EXCEPT ![t] = "none"])
      BY <1>2 DEF Unconcerned, TaskOnly, TaskForgets, appVars
    <2>2. CASE stray' # {} /\ events' = Sent(<<Token>>)
      BY <1>2, <2>1, <2>2, ReportTypes, OneEvent, TaskEnds
    <2>3. CASE events' = Sent(<<Token, StreamDone(t)>>)
      BY <1>2, <2>1, <2>3, EndReported, TaskEnds
    <2>4. CASE events' = events /\ r.kind = "init" /\ r.place = "asked"
      BY <1>2, <2>1, <2>4, NoReport, TaskEnds
    <2> QED BY <1>2, <2>2, <2>3, <2>4
  <1>3. ASSUME NEW place \in {"starting", "probing", "request", "writing"},
               NEW answer, tasks' = [tasks EXCEPT ![t] = [r EXCEPT !.place = place, !.answer = answer]],
               r.place # "done", enabled' = enabled, TaskOnly \/ TaskForgets(t), stray' = stray,
               \/ events' = events
               \/ events' = Sent(<<ToolExec>>) \/ events' = Sent(<<Status("executing")>>)
        PROVE  TaskKept
    <2> DEFINE new == [r EXCEPT !.place = place, !.answer = answer]
    <2>1. new.kind = r.kind /\ new.place = place /\ new.asks = r.asks /\ new.aborted = r.aborted
      BY <1>1 DEF TaskRecs
    <2>2. tasks' = [tasks EXCEPT ![t] = new]
      BY <1>3
    <2> HIDE DEF new
    <2>3. CASE events' = events
      BY <1>3, <2>1, <2>2, <2>3, NoReport, TaskGoes
    <2>4. CASE events' = Sent(<<ToolExec>>)
      BY <1>3, <2>1, <2>2, <2>4, ReportTypes, OneEvent, TaskGoes
    <2>5. CASE events' = Sent(<<Status("executing")>>)
      BY <1>3, <2>1, <2>2, <2>5, ReportTypes, OneEvent, TaskGoes
    <2> QED BY <1>3, <2>3, <2>4, <2>5
  <1>4. CASE InitAnswered(t)
    <2>1. r.kind = "init" /\ r.place = "asked" /\ enabled' = enabled /\ TaskForgets(t)
      BY <1>4 DEF InitAnswered, At, flags
    <2>2. CASE tasks[t].answer = "y"
      <3>1. tasks' = [tasks EXCEPT ![t] = [r EXCEPT !.place = "starting", !.answer = "none"]]
            /\ events' = events /\ stray' = stray
        BY <1>4, <2>2 DEF InitAnswered
      <3> QED BY <1>3, <2>1, <3>1
    <2>3. CASE tasks[t].answer = "nothing"
      <3>1. tasks' = [tasks EXCEPT ![t] = Over(@)] /\ events' = events /\ stray' = stray
        BY <1>4, <2>3 DEF InitAnswered
      <3> QED BY <1>2, <2>1, <3>1
    <2>4. CASE tasks[t].answer \notin {"y", "nothing"}
      <3>1. tasks' = [tasks EXCEPT ![t] = Over(@)] /\ events' = Sent(<<Token>>) /\ stray' = stray \cup {t}
        BY <1>4, <2>4 DEF InitAnswered
      <3> QED BY <1>2, <2>1, <3>1
    <2> QED BY <2>2, <2>3, <2>4
  <1>5. CASE InitStarts(t) \/ InitProbed(t) \/ InitGenerated(t)
    <2>1. PICK place \in {"probing", "request", "writing"} : tasks' = [tasks EXCEPT ![t].place = place]
      BY <1>5 DEF InitStarts, InitProbed, InitGenerated
    <2>2. tasks' = [tasks EXCEPT ![t] = [r EXCEPT !.place = place, !.answer = r.answer]]
      BY <1>1, <2>1 DEF TaskRecs
    <2>3. r.place # "done" /\ enabled' = enabled /\ TaskOnly /\ stray' = stray
          /\ (\/ events' = events
              \/ events' = Sent(<<ToolExec>>) \/ events' = Sent(<<Status("executing")>>))
      BY <1>5 DEF InitStarts, InitProbed, InitGenerated, At, flags
    <2> QED BY <1>3, <2>2, <2>3
  <1>6. CASE InitWrites(t)
    <2>1. r.place # "done" /\ enabled' = enabled /\ TaskOnly /\ stray' = stray
          /\ events' = Sent(<<Token, StreamDone(t)>>) /\ tasks' = [tasks EXCEPT ![t] = Over(@)]
      BY <1>6 DEF InitWrites, At, flags
    <2> QED BY <1>2, <2>1
  <1> QED BY <1>4, <1>5, <1>6 DEF InitTask

LEMMA ChannelStep ==
    ASSUME IInv, IInv', Channel, [Next]_vars
    PROVE  Channel'
  BY LoopKeeps, KeysKeep, CompressionKeeps, NothingKeeps, TurnKeeps, InitKeeps DEF Next, TaskKept

LEMMA ChannelInit == Init => Channel
  <1> SUFFICES ASSUME Init PROVE Channel
    OBVIOUS
  <1>1. /\ events = <<>> /\ pending = None /\ status = Idle /\ buffer = "" /\ handle = 0
        /\ initHandle = 0 /\ compressing = <<0, 0>> /\ keys = [pressed |-> 0, mid |-> FALSE]
        /\ enabled = Enabled /\ stray = {} /\ said = [t \in Tasks |-> "none"]
        /\ \A t \in Tasks : tasks[t] = Unused
    BY DEF Init
  <1>2. Unused.kind = "none" /\ Unused.place = "done" /\ Unused.aborted = FALSE
    BY DEF Unused
  <1>3. <<>> \in Seq(Events) /\ DOMAIN <<>> = {} /\ Enters(<<>>) = {} /\ Cardinality({}) = 0
    BY FS_EmptySet DEF Enters
  <1>4. ShapeInv
    <2>1. 0 \in 0..MaxKeys /\ "none" \in Words \ {"exit"} /\ Enabled \in BOOLEAN
      BY Bounds, TuiAssumption DEF Words
    <2>2. <<0, 0>> \in Nat \X Nat /\ said \in [Tasks -> Words \ {"exit"}]
          /\ keys \in [pressed : 0..MaxKeys, mid : BOOLEAN]
      BY <1>1, <2>1
    <2>3. \A t \in Tasks : (tasks[t].kind = "none" => tasks[t] = Unused)
                           /\ (tasks[t].aborted => tasks[t].place # "done")
      BY <1>1, <1>2
    <2> QED BY <1>1, <1>3, <2>1, <2>2, <2>3 DEF ShapeInv
  <1>5. StartedInv
    <2>1. 0 \in 0..MaxKeys /\ \A t \in Tasks : ~(t <= 0)
      BY Bounds DEF Tasks
    <2>2. keys.pressed = 0 /\ 0 + Cardinality(Enters(events)) <= 0
      <3>1. Cardinality(Enters(events)) = 0
        BY <1>1, <1>3
      <3>2. keys.pressed = 0
        BY <1>1
      <3> QED BY <3>1, <3>2
    <2> QED BY <1>1, <1>2, <2>1, <2>2 DEF StartedInv
  <1>6. NumbersInv
    BY <1>1, <1>3 DEF NumbersInv, Underway, None
  <1>7. AloneInv /\ AskedIsReachable /\ AheadInv
    BY <1>1, <1>2, <1>3 DEF AloneInv, AskedIsReachable, AheadInv, Waiting, Live, Finished
  <1>8. SettledInv
    BY <1>1, <1>3 DEF SettledInv, Settled
  <1> QED BY <1>4, <1>5, <1>6, <1>7, <1>8 DEF Channel

LEMMA DismissesNobody ==
    ASSUME IInv, Channel, [Next]_vars, events # <<>>, events' = Tail(events),
           events[1][1] \in {"PromptExpired", "StreamDone"}, events[1][2] \notin stray,
           NEW t \in Tasks, Live(t)
    PROVE  tasks'[t] = tasks[t]
  <1>1. events \in Seq(Events) /\ Len(Tail(events)) < Len(events)
    <2>1. events \in Seq(Events)
      BY DEF Channel, ShapeInv
    <2>2. Len(events) \in Nat \ {0} /\ Len(Tail(events)) = Len(events) - 1
      BY <2>1, TailIs
    <2> QED BY <2>1, <2>2
  <1>2. IInv'
    BY NextStep
  <1>3. CASE HandlePromptExpired \/ HandleStreamDone
    <2>1. tasks' = Told(pending, "nothing")
      BY <1>3 DEF HandlePromptExpired, HandleStreamDone
    <2>2. 1 \in DOMAIN events /\ Regular(events[1])
      <3>1. events[1] \in Events
        BY HeadIs
      <3>2. Regular(events[1])
        BY <3>1, EventIs DEF Regular
      <3>3. Len(events) \in Nat \ {0} /\ DOMAIN events = 1..Len(events)
        BY <1>1, TailIs
      <3> QED BY <3>2, <3>3
    <2>3. Waiting(t) => pending # <<t, tasks[t].asks>>
      BY <2>2 DEF Channel, AheadInv
    <2>4. CASE pending = None
      BY <2>1, <2>4 DEF Told
    <2>5. CASE pending # None
      <3>1. pending \in Tasks \X Nat
        BY <2>5 DEF Channel, ShapeInv
      <3>2. pending[1] \in Tasks /\ pending = <<pending[1], pending[2]>>
        BY <3>1
      <3>3. tasks \in [Tasks -> TaskRecs]
        BY DEF IInv, Typing
      <3> QED BY <2>1, <2>3, <3>2, <3>3 DEF Told, Waiting
    <2> QED BY <2>4, <2>5
  <1>4. CASE \E u \in Tasks : Turn(u) \/ InitTask(u)
    <2>1. TaskKept
      BY <1>2, <1>4, TurnKeeps, InitKeeps
    <2>2. ~(Len(Tail(events)) >= Len(events))
      <3>1. Len(events) \in Nat \ {0} /\ Len(Tail(events)) = Len(events) - 1
        BY <1>1, TailIs
      <3> QED BY <3>1
    <2> QED BY <2>1, <2>2 DEF TaskKept
  <1>5. CASE User_ \/ CompressionStarts \/ CompressionEnds \/ UNCHANGED vars
    BY <1>5 DEF User_, Type, PressEnter, PressEsc, CompressionStarts, CompressionEnds, vars
  <1>6. CASE Loop /\ ~(HandlePromptExpired \/ HandleStreamDone)
    BY <1>6 DEF Loop, HandleInput, EnterAnswers, EnterIgnored, SubmitNothing, SubmitPrompt, SubmitPlan,
                SubmitClear, SubmitComputer, SubmitInit, Submits, HandleEsc, HandlePrompt, HandleStatus,
                HandleInteractive, Handles
  <1> QED BY <1>3, <1>4, <1>5, <1>6 DEF Next
-----------------------------------------------------------------------------
(* What the channel, the slot and the tasks have to do with each other in  *)
(* every state: a question that waits is in the slot or on its way, behind *)
(* every dismissal but those of aborted tasks; of the tasks not aborted one *)
(* runs at a time; unless one was aborted, or AGENTS.md was kept, whatever *)
(* unsettles the status is followed by what settles it.                    *)
THEOREM ChannelInvariant == Spec => []Channel
  <1>1. IInv /\ IInv' /\ Channel /\ [Next]_vars => Channel'
    BY ChannelStep
  <1> QED
    BY <1>1, ChannelInit, InductiveInvariant, PTL DEF Spec

(* A task that awaits an answer can get one: its question is in the slot or *)
(* on its way there, whatever the keys and the other tasks do meanwhile    *)
(* (Prompt, PromptExpired, StreamDone and Enter in the loop).              *)
THEOREM Reachable == Spec => []AskedIsReachable
  <1>1. Channel => AskedIsReachable
    BY DEF Channel
  <1> QED
    BY <1>1, ChannelInvariant, PTL

(* When everything has come to rest and no task was aborted or told to     *)
(* keep AGENTS.md, a line can be submitted again: the status is idle and   *)
(* the handle holds a finished turn (StreamDone, the compression it        *)
(* spawns, and the test of Enter).                                         *)
THEOREM Quiet == Spec => []QuietIsIdle
  <1>1. Channel => QuietIsIdle
    <2> SUFFICES ASSUME Channel, events = <<>>, pending = None, compressing = <<0, 0>>,
                        \A t \in Tasks : Finished(t), stray = {}
                 PROVE  MaySubmit
      BY DEF QuietIsIdle
    <2>1. Settled
      BY DEF Channel, SettledInv, Reports
    <2>2. status = Idle
      <3>1. DOMAIN events = {}
        OBVIOUS
      <3> QED BY <2>1, <3>1 DEF Settled
    <2>3. handle # 0 => handle \in Tasks
      <3>1. handle \in 0..MaxKeys
        BY DEF Channel, ShapeInv
      <3> QED BY <3>1, Bounds DEF Tasks
    <2> QED BY <2>2, <2>3 DEF MaySubmit
  <1> QED
    BY <1>1, ChannelInvariant, PTL

(* An expiry or the end of a stream, which empty the slot whoever's        *)
(* question it holds, change nothing for a task that still runs, unless a  *)
(* task that was aborted or told to keep AGENTS.md has sent them           *)
(* (PromptExpired and StreamDone).                                         *)
THEOREM Questions == Spec => QuestionsKept
  <1>1. IInv /\ Channel /\ [Next]_vars =>
          [\A t \in Tasks :
              /\ events # <<>> /\ events[1][1] \in {"PromptExpired", "StreamDone"}
              /\ events' = Tail(events)
              /\ Live(t) /\ tasks'[t] # tasks[t]
              => events[1][2] \in stray]_vars
    BY DismissesNobody
  <1> QED
    BY <1>1, InductiveInvariant, ChannelInvariant, PTL DEF Spec, QuestionsKept
-----------------------------------------------------------------------------
(* What the turns send. *)

(* How many requests a turn has sent: the bound of StreamEnds is on those  *)
(* answered with calls.                                                    *)
SentOf(r) ==
    IF r.kind # "turn" \/ r.place = "done" THEN r.sent = 0
    ELSE IF r.place = "request" THEN r.sent \in 0..MaxRequests
    ELSE IF r.place = "persist" /\ r.left = <<>> THEN r.sent \in 1..(MaxRequests + 1)
    ELSE r.sent \in 1..MaxRequests

(* What the API accepts as a request, with at most limit images. *)
Accepted(ms, limit) ==
    WellFormed(ms) /\ Reasoned(ms) /\ Cardinality(Images(ms)) <= limit

(* The last request of a task is there while its answer is awaited. *)
WireOf(t) ==
    wire[t] # <<>> =>
        /\ tasks[t].kind = "turn" /\ tasks[t].place = "request"
        /\ Accepted(wire[t], IF tasks[t].sent = 0 THEN 0 ELSE Keep)

Requests ==
    /\ wire = [t \in Tasks |-> wire[t]]
    /\ \A t \in Tasks : SentOf(tasks[t]) /\ WireOf(t)

LEMMA NoRequest == Accepted(<<>>, 0)
  <1>1. DOMAIN <<>> = {} /\ Images(<<>>) = {} /\ Cardinality({}) = 0
    BY FS_EmptySet DEF Images
  <1>2. Cardinality(Images(<<>>)) <= 0
    <2>1. Cardinality(Images(<<>>)) = 0
      BY <1>1
    <2> QED BY <2>1
  <1> QED BY <1>1, <1>2 DEF Accepted, WellFormed, Reasoned

(* A request that is pruned and prepared is accepted. *)
LEMMA Requested ==
    ASSUME NEW ms \in Seq(Msgs), NEW keep \in Nat
    PROVE  Accepted(Prepared(prune_images(ms, keep)), keep)
  <1> DEFINE pruned == prune_images(ms, keep)
             sent == prepare_for_request(pruned)
  <1>1. pruned \in Seq(Msgs) /\ Cardinality(Images(pruned)) <= keep
    BY PruneKeeps DEF Msgs
  <1>2. sent \in Seq(Msgs) /\ WellFormed(sent) /\ Reasoned(sent)
        /\ Cardinality(Images(sent)) <= Cardinality(Images(pruned))
    BY <1>1, PreparedIsAccepted DEF Msgs
  <1>3. Cardinality(Images(sent)) \in Nat /\ Cardinality(Images(pruned)) \in Nat
    BY <1>1, <1>2, ImagesFinite, FS_CardinalityType DEF Msgs
  <1> HIDE DEF pruned, sent
  <1>4. Cardinality(Images(sent)) <= keep
    BY <1>1, <1>2, <1>3
  <1> QED BY <1>2, <1>4 DEF Accepted, Prepared, pruned, sent

(* A step that leaves a task where it is with its request. *)
Untouched(u) ==
    /\ tasks'[u].kind = tasks[u].kind /\ tasks'[u].place = tasks[u].place
    /\ tasks'[u].left = tasks[u].left /\ tasks'[u].sent = tasks[u].sent
    /\ wire'[u] = wire[u]

LEMMA UntouchedKeeps ==
    ASSUME NEW u \in Tasks, SentOf(tasks[u]), WireOf(u), Untouched(u)
    PROVE  SentOf(tasks'[u]) /\ WireOf(u)'
  BY DEF SentOf, WireOf, Untouched

(* The loop leaves every task where it is, but for an answer or an abort. *)
LEMMA AnswerTouchesNone ==
    ASSUME Typing, wire' = wire, NEW answer \in Words,
           \A u \in Tasks : tasks'[u] = tasks[u] \/ tasks'[u] = [tasks[u] EXCEPT !.answer = answer]
    PROVE  \A u \in Tasks : Untouched(u)
  <1> SUFFICES ASSUME NEW u \in Tasks PROVE Untouched(u)
    OBVIOUS
  <1>1. tasks[u] \in TaskRecs
    BY DEF Typing
  <1>2. LET new == [tasks[u] EXCEPT !.answer = answer] IN
        /\ new.kind = tasks[u].kind /\ new.place = tasks[u].place
        /\ new.left = tasks[u].left /\ new.sent = tasks[u].sent
    BY <1>1 DEF TaskRecs
  <1> QED BY <1>2 DEF Untouched

LEMMA AbortTouchesNone ==
    ASSUME Typing, NEW t
    PROVE  \A u \in Tasks :
              LET new == Aborted(tasks, t)[u] IN
              /\ new.kind = tasks[u].kind /\ new.place = tasks[u].place
              /\ new.left = tasks[u].left /\ new.sent = tasks[u].sent
  <1>1. \A r \in TaskRecs :
           LET dead == [r EXCEPT !.aborted = TRUE] IN
           /\ dead.kind = r.kind /\ dead.place = r.place /\ dead.left = r.left
           /\ dead.sent = r.sent
    BY DEF TaskRecs
  <1>2. tasks \in [Tasks -> TaskRecs]
    BY DEF Typing
  <1> QED BY <1>1, <1>2 DEF Aborted

LEMMA LoopTouchesNone ==
    ASSUME IInv, \/ HandleInput \/ EnterAnswers \/ EnterIgnored \/ SubmitNothing \/ SubmitClear
                 \/ SubmitComputer \/ HandleEsc \/ HandlePrompt \/ HandlePromptExpired
                 \/ HandleStreamDone \/ HandleStatus \/ HandleInteractive \/ User_
                 \/ CompressionStarts \/ CompressionEnds \/ UNCHANGED vars
    PROVE  wire' = wire /\ \A u \in Tasks : Untouched(u)
  <1>1. Typing
    BY DEF IInv
  <1>2. CASE \/ HandleInput \/ EnterIgnored \/ HandleStatus \/ User_
             \/ CompressionStarts \/ CompressionEnds \/ UNCHANGED vars
    <2>1. UNCHANGED <<tasks, wire>>
      BY <1>2 DEF HandleInput, EnterIgnored, HandleStatus, User_, Type, PressEnter, PressEsc,
                  CompressionStarts, CompressionEnds, vars
    <2> QED BY <2>1 DEF Untouched
  <1>3. CASE EnterAnswers \/ HandlePrompt \/ HandlePromptExpired \/ HandleStreamDone
    <2>1. PICK answer \in Words : tasks' = Told(pending, answer)
      <3>1. "nothing" \in Words /\ Word(buffer) \in Words
        BY WordType DEF Words
      <3> QED BY <1>3, <3>1 DEF EnterAnswers, HandlePrompt, HandlePromptExpired, HandleStreamDone
    <2>2. wire' = wire
      BY <1>3 DEF EnterAnswers, HandlePrompt, HandlePromptExpired, HandleStreamDone
    <2>3. \A u \in Tasks : tasks'[u] = tasks[u] \/ tasks'[u] = [tasks[u] EXCEPT !.answer = answer]
      BY <1>1, <2>1, ToldEffect
    <2> QED BY <1>1, <2>2, <2>3, AnswerTouchesNone
  <1>4. CASE HandleInteractive
    <2>1. wire' = wire /\ (tasks' = tasks \/ tasks' = [tasks EXCEPT ![events[1][2]].answer = "exit"])
      BY <1>4 DEF HandleInteractive
    <2>2. tasks \in [Tasks -> TaskRecs] /\ "exit" \in Words
      BY <1>1 DEF Typing, Words
    <2>3. \A u \in Tasks : tasks'[u] = tasks[u] \/ tasks'[u] = [tasks[u] EXCEPT !.answer = "exit"]
      BY <2>1, <2>2
    <2> QED BY <1>1, <2>1, <2>2, <2>3, AnswerTouchesNone
  <1>5. CASE SubmitNothing \/ SubmitClear \/ SubmitComputer \/ HandleEsc
    <2>1. wire' = wire /\ (tasks' = tasks \/ \E h : tasks' = Aborted(tasks, h))
      BY <1>5 DEF SubmitNothing, SubmitClear, SubmitComputer, HandleEsc, AfterAbort
    <2> QED BY <1>1, <2>1, AbortTouchesNone DEF Untouched
  <1> QED BY <1>2, <1>3, <1>4, <1>5

(* A line starts a task: a turn with its first request, which has no image. *)
LEMMA StartKeepsRequests ==
    ASSUME IInv, Channel, Requests,
           SubmitPrompt \/ SubmitPlan \/ \E exists \in AgentsFile : SubmitInit(exists)
    PROVE  Requests'
  <1>1. events # <<>> /\ events[1] = EnterKey
    <2>1. events # <<>> /\ events[1][1] = "Enter"
      BY DEF SubmitPrompt, SubmitPlan, SubmitInit, Submits, Handles
    <2> QED BY <2>1, HeadIs, EventIs
  <1>2. PICK t \in Tasks : t = Fresh /\ tasks[t].kind = "none"
    BY <1>1, FreshIs
  <1>3. wire[t] = <<>>
    BY <1>2 DEF Requests, WireOf
  <1>4. Typing /\ tasks \in [Tasks -> TaskRecs] /\ history \in Seq(Msgs)
    BY DEF IInv, Typing
  <1>5. /\ AfterAbort \in [Tasks -> TaskRecs]
        /\ \A u \in Tasks :
              /\ AfterAbort[u].kind = tasks[u].kind /\ AfterAbort[u].place = tasks[u].place
              /\ AfterAbort[u].left = tasks[u].left /\ AfterAbort[u].sent = tasks[u].sent
    BY <1>4, AbortEffect, AbortTouchesNone DEF AfterAbort
  <1> HIDE DEF AfterAbort, Fresh
  <1>6. ASSUME NEW new, tasks' = [AfterAbort EXCEPT ![t] = new], SentOf(new),
               NEW sent, wire' = [wire EXCEPT ![t] = sent],
               \/ sent = <<>>
               \/ new.kind = "turn" /\ new.place = "request" /\ new.sent = 0 /\ Accepted(sent, 0)
        PROVE  Requests'
    <2>1. /\ tasks'[t] = new /\ \A u \in Tasks : u # t => tasks'[u] = AfterAbort[u]
          /\ wire' = [u \in Tasks |-> wire'[u]] /\ wire'[t] = sent
          /\ \A u \in Tasks : u # t => wire'[u] = wire[u]
      BY <1>2, <1>5, <1>6 DEF Requests
    <2>2. SentOf(tasks'[t]) /\ WireOf(t)'
      BY <1>2, <1>6, <2>1 DEF WireOf
    <2>3. ASSUME NEW u \in Tasks, u # t
          PROVE  SentOf(tasks'[u]) /\ WireOf(u)'
      <3>1. Untouched(u)
        BY <1>5, <2>1, <2>3 DEF Untouched
      <3> QED BY <3>1, UntouchedKeeps DEF Requests
    <2> QED BY <2>1, <2>2, <2>3 DEF Requests
  <1>7. ASSUME NEW desk \in BOOLEAN, StartTurn(desk)
        PROVE  Requests'
    <2> DEFINE new == [Unused EXCEPT !.kind = "turn", !.place = "request", !.tools = TRUE, !.desk = desk]
    <2>1. new.kind = "turn" /\ new.place = "request" /\ new.sent = 0
      BY DEF Unused
    <2>2. SentOf(new)
      BY <2>1, Bounds DEF SentOf
    <2>3. Append(history, User) \in Seq(Msgs)
      BY <1>4, MessageTypes
    <2>4. Accepted(Prepared(history'), 0)
      BY <1>7, <2>3, Requested DEF StartTurn
    <2>5. tasks' = [AfterAbort EXCEPT ![t] = new]
          /\ wire' = [wire EXCEPT ![t] = Prepared(history')]
      BY <1>2, <1>7 DEF StartTurn
    <2> HIDE DEF new
    <2> QED BY <1>6, <2>1, <2>2, <2>4, <2>5
  <1>8. ASSUME NEW exists \in AgentsFile, SubmitInit(exists)
        PROVE  Requests'
    <2> DEFINE new == [Unused EXCEPT !.kind = "init", !.asks = IF exists THEN 1 ELSE 0,
                                     !.place = IF exists THEN "asked" ELSE "starting"]
    <2>1. new.kind = "init" /\ new.sent = 0
      BY DEF Unused
    <2>2. SentOf(new)
      BY <2>1 DEF SentOf
    <2>3. tasks' = [AfterAbort EXCEPT ![t] = new] /\ wire' = wire
      BY <1>2, <1>8 DEF SubmitInit
    <2>4. wire = [wire EXCEPT ![t] = <<>>]
      BY <1>2, <1>3 DEF Requests
    <2> HIDE DEF new
    <2>5. wire' = [wire EXCEPT ![t] = <<>>]
      BY <2>3, <2>4
    <2> QED BY <1>6, <2>2, <2>3, <2>5
  <1> QED BY <1>7, <1>8 DEF SubmitPrompt, SubmitPlan

(* A step of one task, after which its last request is sent. *)
LEMMA TaskKeepsRequests ==
    ASSUME IInv, Requests, NEW t \in Tasks, NEW new, tasks' = [tasks EXCEPT ![t] = new], SentOf(new),
           NEW sent, wire' = [wire EXCEPT ![t] = sent],
           \/ sent = <<>>
           \/ /\ new.kind = "turn" /\ new.place = "request"
              /\ Accepted(sent, IF new.sent = 0 THEN 0 ELSE Keep)
    PROVE  Requests'
  <1>1. tasks \in [Tasks -> TaskRecs]
    BY DEF IInv, Typing
  <1>2. /\ tasks'[t] = new /\ \A u \in Tasks : u # t => tasks'[u] = tasks[u]
        /\ wire' = [u \in Tasks |-> wire'[u]] /\ wire'[t] = sent
        /\ \A u \in Tasks : u # t => wire'[u] = wire[u]
    BY <1>1 DEF Requests
  <1>3. SentOf(tasks'[t]) /\ WireOf(t)'
    BY <1>2 DEF WireOf
  <1>4. ASSUME NEW u \in Tasks, u # t
        PROVE  SentOf(tasks'[u]) /\ WireOf(u)'
    <2>1. Untouched(u)
      BY <1>2, <1>4 DEF Untouched
    <2> QED BY <2>1, UntouchedKeeps DEF Requests
  <1> QED BY <1>2, <1>3, <1>4 DEF Requests

(* A task that awaits no answer to a request has none. *)
LEMMA NoneSent ==
    ASSUME Requests, NEW t \in Tasks, ~(tasks[t].kind = "turn" /\ tasks[t].place = "request")
    PROVE  wire = [wire EXCEPT ![t] = <<>>]
  <1>1. wire[t] = <<>> /\ wire = [u \in Tasks |-> wire[u]]
    BY DEF Requests, WireOf
  <1> HIDE DEF Requests
  <1> QED BY <1>1

Round == {"calls", "asked", "running", "terminal"}

LEMMA RoundKeepsRequests ==
    ASSUME IInv, Requests, NEW t \in Tasks, tasks[t].kind = "turn", tasks[t].place \in Round,
           NEW new, tasks' = [tasks EXCEPT ![t] = new], new.kind = "turn", new.place \in Round,
           new.sent = tasks[t].sent, wire' = wire
    PROVE  Requests'
  <1>1. SentOf(new)
    BY DEF Requests, SentOf, Round
  <1>2. wire' = [wire EXCEPT ![t] = <<>>]
    BY NoneSent DEF Round
  <1> QED BY <1>1, <1>2, TaskKeepsRequests

LEMMA OverKeepsRequests ==
    ASSUME IInv, Requests, NEW t \in Tasks, tasks' = [tasks EXCEPT ![t] = Over(tasks[t])],
           wire' = [wire EXCEPT ![t] = <<>>]
    PROVE  Requests'
  <1>1. Over(tasks[t]).place = "done" /\ Over(tasks[t]).sent = 0
    BY DEF Over, Unused
  <1>2. SentOf(Over(tasks[t]))
    BY <1>1 DEF SentOf
  <1> QED BY <1>2, TaskKeepsRequests

LEMMA ReceivedKeepsRequests ==
    ASSUME IInv, Requests, NEW t \in Tasks, NEW calls, StreamEnds(t, calls)
    PROVE  Requests'
  <1> DEFINE r == tasks[t]
             left == [k \in DOMAIN calls |-> <<calls[k], k>>]
  <1>1. r \in TaskRecs /\ r.sent \in Nat /\ r.kind = "turn" /\ r.place = "request"
    BY FieldTypes DEF IInv, Typing, StreamEnds, At
  <1>2. PICK n \in Nat : n = r.sent + 1
    BY <1>1
  <1> DEFINE new == [r EXCEPT !.place = "persist", !.sent = n, !.left = left]
  <1>3. tasks' = [tasks EXCEPT ![t] = new] /\ wire' = [wire EXCEPT ![t] = <<>>]
    BY <1>2 DEF StreamEnds
  <1>4. left = <<>> \/ r.sent < MaxRequests
    <2>1. CASE calls = <<>>
      <3>1. DOMAIN calls = {}
        BY <2>1
      <3> QED BY <3>1
    <2>2. CASE calls # <<>>
      BY <2>2 DEF StreamEnds
    <2> QED BY <2>1, <2>2
  <1>5. r.sent \in 0..MaxRequests
    BY <1>1 DEF Requests, SentOf
  <1>6. IF left = <<>> THEN n \in 1..(MaxRequests + 1) ELSE n \in 1..MaxRequests
    <2> HIDE DEF left
    <2> QED BY <1>1, <1>2, <1>4, <1>5, Bounds
  <1> HIDE DEF left
  <1>7. new.kind = "turn" /\ new.place = "persist" /\ new.sent = n /\ new.left = left
    BY <1>1 DEF TaskRecs
  <1> HIDE DEF new
  <1>8. SentOf(new)
    BY <1>6, <1>7 DEF SentOf
  <1> QED BY <1>3, <1>8, TaskKeepsRequests

LEMMA PersistedKeepsRequests ==
    ASSUME IInv, Requests, NEW t \in Tasks, Persist(t)
    PROVE  Requests'
  <1> DEFINE r == tasks[t]
             new == [r EXCEPT !.place = "calls"]
  <1>1. r \in TaskRecs /\ r.kind = "turn" /\ r.place = "persist" /\ wire' = wire
    BY DEF IInv, Typing, Persist, At
  <1>2. wire' = [wire EXCEPT ![t] = <<>>]
    BY <1>1, NoneSent
  <1>3. CASE r.left = <<>>
    <2>1. tasks' = [tasks EXCEPT ![t] = Over(tasks[t])]
      BY <1>3 DEF Persist
    <2> QED BY <1>2, <2>1, OverKeepsRequests
  <1>4. CASE r.left # <<>>
    <2>1. tasks' = [tasks EXCEPT ![t] = new]
      BY <1>4 DEF Persist
    <2>2. new.kind = "turn" /\ new.place = "calls" /\ new.sent = r.sent
      BY <1>1 DEF TaskRecs
    <2> HIDE DEF new
    <2>3. r.sent \in 1..MaxRequests
      BY <1>1, <1>4 DEF Requests, SentOf
    <2>4. SentOf(new)
      BY <2>2, <2>3 DEF SentOf
    <2> QED BY <1>2, <2>1, <2>4, TaskKeepsRequests
  <1> QED BY <1>3, <1>4

(* The next request of a turn has at most Keep screenshots. *)
LEMMA NextKeepsRequests ==
    ASSUME IInv, Requests, NEW t \in Tasks, NextRequest(t)
    PROVE  Requests'
  <1> DEFINE r == tasks[t]
             shot == IF r.shot THEN Append(history, Screenshot) ELSE history
             again == enabled /\ r.desk /\ r.round + 1 < (IF MaxRounds = 0 THEN 1 ELSE MaxRounds)
             round == IF again THEN r.round + 1 ELSE r.round
             new == [r EXCEPT !.place = "request", !.shot = FALSE, !.tools = again, !.round = round]
  <1>1. r \in TaskRecs /\ r.kind = "turn" /\ r.place = "calls" /\ history \in Seq(Msgs)
    BY DEF IInv, Typing, NextRequest, At
  <1>2. shot \in Seq(Msgs)
    BY <1>1, MessageTypes
  <1>3. tasks' = [tasks EXCEPT ![t] = new]
    BY DEF NextRequest
  <1> HIDE DEF again, round
  <1>4. new.kind = "turn" /\ new.place = "request" /\ new.sent = r.sent
    BY <1>1 DEF TaskRecs
  <1> HIDE DEF new
  <1>5. r.sent \in 1..MaxRequests
    BY <1>1 DEF Requests, SentOf
  <1>6. SentOf(new) /\ new.sent # 0
    <2>1. r.sent \in 0..MaxRequests /\ r.sent # 0
      BY <1>5, Bounds
    <2> QED BY <1>4, <2>1 DEF SentOf
  <1>7. wire' = [wire EXCEPT ![t] = Prepared(prune_images(shot, Keep))]
    BY DEF NextRequest
  <1>8. Accepted(Prepared(prune_images(shot, Keep)), Keep)
    BY <1>2, Bounds, Requested
  <1> QED BY <1>3, <1>4, <1>6, <1>7, <1>8, TaskKeepsRequests

LEMMA TurnKeepsRequests ==
    ASSUME IInv, Requests, NEW t \in Tasks, Turn(t)
    PROVE  Requests'
  <1> DEFINE r == tasks[t]
  <1>1. r \in TaskRecs
    BY DEF IInv, Typing
  <1>2. CASE StreamChunk(t)
    <2>1. UNCHANGED <<tasks, wire>>
      BY <1>2 DEF StreamChunk
    <2>2. \A u \in Tasks : Untouched(u)
      BY <2>1 DEF Untouched
    <2> QED BY <2>1, <2>2, UntouchedKeeps DEF Requests
  <1>3. CASE StreamFails(t) \/ Dropped(t)
    BY <1>3, OverKeepsRequests DEF StreamFails, Dropped
  <1>4. ASSUME RefuseCall(t) \/ TakeDenial(t) \/ \E shot \in BOOLEAN : CallEnds(t, shot)
        PROVE  Requests'
    <2>1. PICK shot \in BOOLEAN : tasks' = Popped(t, shot)
      BY <1>4 DEF RefuseCall, TakeDenial, CallEnds
    <2> DEFINE new == [r EXCEPT !.left = Tail(r.left), !.place = "calls", !.answer = "none",
                                !.shot = r.shot \/ shot]
    <2>2. tasks' = [tasks EXCEPT ![t] = new]
      BY <2>1 DEF Popped
    <2>3. new.kind = r.kind /\ new.place \in Round /\ new.sent = r.sent
      BY <1>1 DEF TaskRecs, Round
    <2>4. wire' = wire /\ r.kind = "turn" /\ r.place \in Round
      BY <1>4 DEF RefuseCall, TakeDenial, CallEnds, HasCall, At, Round
    <2> HIDE DEF new
    <2> QED BY <2>2, <2>3, <2>4, RoundKeepsRequests
  <1>5. CASE AskFirst(t)
    <2> DEFINE new == [r EXCEPT !.place = "asked", !.asks = r.asks + 1, !.answer = "none"]
    <2>1. tasks' = [tasks EXCEPT ![t] = new]
      BY <1>5 DEF AskFirst
    <2>2. new.kind = r.kind /\ new.place \in Round /\ new.sent = r.sent
      BY <1>1 DEF TaskRecs, Round
    <2>3. wire' = wire /\ r.kind = "turn" /\ r.place \in Round
      BY <1>5 DEF AskFirst, HasCall, At, Round
    <2> HIDE DEF new
    <2> QED BY <2>1, <2>2, <2>3, RoundKeepsRequests
  <1>6. CASE RunCall(t)
    <2> DEFINE place == RunsIn(t)
               new == [r EXCEPT !.place = place]
    <2>1. tasks' = [tasks EXCEPT ![t] = new] /\ place \in Round
      BY <1>6 DEF RunCall, RunsIn, Round
    <2> HIDE DEF place
    <2>2. new.kind = r.kind /\ new.place \in Round /\ new.sent = r.sent
      BY <1>1, <2>1 DEF TaskRecs
    <2>3. wire' = wire /\ r.kind = "turn" /\ r.place \in Round
      BY <1>6 DEF RunCall, HasCall, At, Round
    <2> HIDE DEF new
    <2> QED BY <2>1, <2>2, <2>3, RoundKeepsRequests
  <1>7. CASE TakeAnswer(t)
    <2> DEFINE place == RunsIn(t)
               new == [r EXCEPT !.place = place, !.answer = "none"]
    <2>1. tasks' = [tasks EXCEPT ![t] = new] /\ place \in Round
      BY <1>7 DEF TakeAnswer, RunsIn, Round
    <2> HIDE DEF place
    <2>2. new.kind = r.kind /\ new.place \in Round /\ new.sent = r.sent
      BY <1>1, <2>1 DEF TaskRecs
    <2>3. wire' = wire /\ r.kind = "turn" /\ r.place \in Round
      BY <1>7 DEF TakeAnswer, At, Round
    <2> HIDE DEF new
    <2> QED BY <2>1, <2>2, <2>3, RoundKeepsRequests
  <1> QED BY <1>2, <1>3, <1>4, <1>5, <1>6, <1>7, ReceivedKeepsRequests, PersistedKeepsRequests,
             NextKeepsRequests DEF Turn

LEMMA InitKeepsRequests ==
    ASSUME IInv, Requests, NEW t \in Tasks, InitTask(t)
    PROVE  Requests'
  <1> DEFINE r == tasks[t]
  <1>1. r \in TaskRecs /\ r.kind = "init" /\ wire' = wire
    BY DEF IInv, Typing, InitTask, InitAnswered, InitStarts, InitProbed, InitGenerated, InitWrites, At
  <1>2. wire' = [wire EXCEPT ![t] = <<>>] /\ r.sent = 0
    BY <1>1, NoneSent DEF Requests, SentOf
  <1>3. \/ tasks' = [tasks EXCEPT ![t] = Over(tasks[t])]
        \/ \E place, answer : tasks' = [tasks EXCEPT ![t] = [r EXCEPT !.place = place, !.answer = answer]]
    <2>1. CASE InitAnswered(t)
      <3>1. CASE tasks[t].answer = "y"
        <4>1. tasks' = [tasks EXCEPT ![t] = [r EXCEPT !.place = "starting", !.answer = "none"]]
          BY <2>1, <3>1 DEF InitAnswered
        <4> QED BY <4>1
      <3>2. CASE tasks[t].answer # "y"
        BY <2>1, <3>2 DEF InitAnswered
      <3> QED BY <3>1, <3>2
    <2>2. CASE InitStarts(t) \/ InitProbed(t) \/ InitGenerated(t)
      <3>1. PICK place : tasks' = [tasks EXCEPT ![t].place = place]
        BY <2>2 DEF InitStarts, InitProbed, InitGenerated
      <3>2. tasks' = [tasks EXCEPT ![t] = [r EXCEPT !.place = place, !.answer = r.answer]]
        BY <1>1, <3>1 DEF TaskRecs
      <3> QED BY <3>2
    <2>3. CASE InitWrites(t)
      BY <2>3 DEF InitWrites
    <2> QED BY <2>1, <2>2, <2>3 DEF InitTask
  <1>4. CASE tasks' = [tasks EXCEPT ![t] = Over(tasks[t])]
    BY <1>2, <1>4, OverKeepsRequests
  <1>5. ASSUME NEW place, NEW answer,
               tasks' = [tasks EXCEPT ![t] = [r EXCEPT !.place = place, !.answer = answer]]
        PROVE  Requests'
    <2> DEFINE new == [r EXCEPT !.place = place, !.answer = answer]
    <2>1. new.kind = "init" /\ new.sent = 0
      BY <1>1, <1>2 DEF TaskRecs
    <2>2. tasks' = [tasks EXCEPT ![t] = new]
      BY <1>5
    <2> HIDE DEF new
    <2>3. SentOf(new)
      BY <2>1 DEF SentOf
    <2> QED BY <1>2, <2>2, <2>3, TaskKeepsRequests
  <1> QED BY <1>3, <1>4, <1>5

LEMMA RequestsStep ==
    ASSUME IInv, Channel, Requests, [Next]_vars
    PROVE  Requests'
  <1>1. CASE SubmitPrompt \/ SubmitPlan \/ \E exists \in AgentsFile : SubmitInit(exists)
    BY <1>1, StartKeepsRequests
  <1>2. CASE \E t \in Tasks : Turn(t) \/ InitTask(t)
    BY <1>2, TurnKeepsRequests, InitKeepsRequests
  <1>3. ASSUME wire' = wire, \A u \in Tasks : Untouched(u)
        PROVE  Requests'
    BY <1>3, UntouchedKeeps DEF Requests
  <1> QED BY <1>1, <1>2, <1>3, LoopTouchesNone DEF Next, Loop

LEMMA RequestsInit == Init => Requests
  <1> SUFFICES ASSUME Init PROVE Requests
    OBVIOUS
  <1>1. /\ wire = [t \in Tasks |-> wire[t]] /\ \A t \in Tasks : wire[t] = <<>>
        /\ \A t \in Tasks : tasks[t] = Unused
    BY DEF Init
  <1>2. Unused.kind = "none" /\ Unused.sent = 0
    BY DEF Unused
  <1> QED BY <1>1, <1>2 DEF Requests, SentOf, WireOf
-----------------------------------------------------------------------------
(* Every request is one the API accepts, and a turn sends at most one more *)
(* than the answers with calls it is bounded to.                           *)
THEOREM RequestsInvariant == Spec => []Requests
  <1>1. IInv /\ Channel /\ Requests /\ [Next]_vars => Requests'
    BY RequestsStep
  <1> QED
    BY <1>1, RequestsInit, InductiveInvariant, ChannelInvariant, PTL DEF Spec

(* Every request of a turn is accepted by the API, whatever Esc has cut    *)
(* short before: each call has its result right behind it, calls carry     *)
(* reasoning, and at most Keep screenshots are sent, none in the first     *)
(* request (run_tool_calling_loop, prepare_for_request, prune_images).     *)
THEOREM TuiRequestsAccepted == Spec => []RequestsAccepted
  <1>1. Requests => RequestsAccepted
    <2> SUFFICES ASSUME Requests, NEW t \in Tasks
                 PROVE  Accepted(wire[t], IF tasks[t].sent = 0 THEN 0 ELSE Keep)
      BY DEF RequestsAccepted, Accepted
    <2>1. CASE wire[t] = <<>>
      <3>1. Cardinality(Images(wire[t])) = 0
        <4>1. Images(wire[t]) = {}
          BY <2>1 DEF Images
        <4> QED BY <4>1, FS_EmptySet
      <3>2. WellFormed(wire[t]) /\ Reasoned(wire[t])
        BY <2>1, NoRequest DEF Accepted
      <3> QED BY <3>1, <3>2, Bounds DEF Accepted
    <2>2. CASE wire[t] # <<>>
      BY <2>2 DEF Requests, WireOf
    <2> QED BY <2>1, <2>2
  <1> QED
    BY <1>1, RequestsInvariant, PTL

(* Type correctness of the terminal front end, with the bounds on what a   *)
(* turn sends.                                                             *)
THEOREM TuiTypeCorrect == Spec => []TypeOK
  <1>1. IInv /\ Channel /\ Requests => TypeOK
    <2> SUFFICES ASSUME IInv, Channel, Requests PROVE TypeOK
      OBVIOUS
    <2>1. Typing /\ ShapeInv
      BY DEF IInv, Channel
    <2>2. \A i \in DOMAIN events :
             events[i][1] \in {"Input", "Enter", "Esc", "Prompt", "PromptExpired", "Token",
                               "ToolExec", "StreamDone", "Status", "InteractiveCommand"}
      <3>1. events \in Seq(Events)
        BY <2>1 DEF ShapeInv
      <3> SUFFICES ASSUME NEW i \in DOMAIN events
                   PROVE  events[i][1] \in {"Input", "Enter", "Esc", "Prompt", "PromptExpired", "Token",
                               "ToolExec", "StreamDone", "Status", "InteractiveCommand"}
        OBVIOUS
      <3>2. events[i] \in Events
        BY <3>1, ElementOfSeq
      <3> QED BY <3>2, EventIs
    <2>3. ASSUME NEW t \in Tasks
          PROVE  /\ tasks[t].kind \in {"none", "turn", "init"}
                 /\ tasks[t].place \in Waits \cup {"persist", "calls", "writing", "done"}
                 /\ tasks[t].sent \in 0..MaxRequests + 1
                 /\ tasks[t].answer \in Words
                 /\ tasks[t].kind = "none" => tasks[t] = Unused
      <3>1. tasks[t] \in TaskRecs
        BY <2>1 DEF Typing
      <3>2. tasks[t].sent \in 0..MaxRequests + 1
        BY Bounds DEF Requests, SentOf
      <3>3. tasks[t].kind = "none" => tasks[t] = Unused
        BY <2>1 DEF ShapeInv
      <3> QED BY <3>1, <3>2, <3>3 DEF TaskRecs
    <2>4. buffer \in Lines \cup {"", "mixed"} /\ status \in {Idle} \cup Busy
          /\ (pending = None \/ pending \in Tasks \X Nat)
          /\ handle \in 0..MaxKeys /\ initHandle \in 0..MaxKeys
          /\ compressing \in Nat \X Nat
      BY <2>1 DEF ShapeInv
    <2>5. {enabled, trusted} \subseteq BOOLEAN /\ allowed \subseteq Listed /\ stray \subseteq Tasks
      BY <2>1 DEF ShapeInv, Typing
    <2>6. said \in [Tasks -> {"none", "nothing", "y", "a", "n", "text"}]
      <3>1. Words \ {"exit"} = {"none", "nothing", "y", "a", "n", "text"}
        BY DEF Words
      <3> QED BY <2>1, <3>1 DEF ShapeInv
    <2> QED BY <2>2, <2>3, <2>4, <2>5, <2>6, Zenon DEF TypeOK, Words
  <1> QED
    BY <1>1, InductiveInvariant, ChannelInvariant, RequestsInvariant, PTL
=============================================================================
