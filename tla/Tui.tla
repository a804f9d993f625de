--------------------------------- MODULE Tui ---------------------------------
(***************************************************************************)
(* The terminal front end (arcc-tui/src/ui/app.rs).  One loop owns the     *)
(* screen and handles the events of one FIFO channel: keys, and what the   *)
(* background tasks send.  A submitted line starts a task: the turn of a   *)
(* prompt (run_tool_calling_loop) or the generation of AGENTS.md           *)
(* (run_project_init).  A task that needs a confirmation sends a Prompt    *)
(* and awaits the answer; the loop has one slot for it.  Esc aborts the    *)
(* turn, which takes effect at its next await that has to wait.  The end   *)
(* of a turn spawns a compression, which reports through the same channel. *)
(*                                                                         *)
(* A prompt <<t, n>> is the n-th question of task t.  Texts are reduced to *)
(* the lines that are handled differently, tool calls to the kinds that    *)
(* are: "safe" and "risky" commands, "sudo" and "root" ones that take the  *)
(* terminal ("risky" and "root" ones match the list of those to confirm),  *)
(* "look" (a screenshot), "desk" (an action on the desktop) and "unknown"  *)
(* (no such tool, or no such action on the desktop).                       *)
(***************************************************************************)
EXTENDS History

CONSTANTS Lines,        \* bound: the lines the user may type
          MaxKeys,      \* bound: how often Enter or Esc is pressed
          AgentsFile,   \* bound: whether AGENTS.md may exist (a set of Booleans)
          MaxQueued,    \* bound: a key is pressed with at most so many events before it
          Answers,      \* bound: the sequences of calls the model may answer with
          MaxRequests,  \* bound: a turn's requests answered with calls
          SkipPermissions,     \* dangerously_skip_permissions
          RequireConfirmation, \* computer_use.require_confirmation
          Enabled,      \* computer_use.enabled
          MaxRounds,    \* computer_use.max_rounds
          Keep          \* computer_use.keep_screenshots

ASSUME TuiAssumption ==
    /\ Lines \subseteq {"y", "a", "n", "hi", "/init", "/clear", "/plan", "/on", "/off"}
    /\ {MaxKeys, MaxQueued, MaxRequests} \subseteq Nat /\ AgentsFile \subseteq BOOLEAN
    /\ {SkipPermissions, RequireConfirmation, Enabled} \subseteq BOOLEAN
    /\ MaxRounds \in Nat /\ Keep \in Nat
    /\ Answers \subseteq Seq({"safe", "risky", "sudo", "root", "look", "desk", "unknown"})

Tasks == 1..MaxKeys
Listed == {"risky", "root"}         \* commands that Allowlist::check stops
Interactive == {"sudo", "root"}     \* commands that get the terminal

VARIABLES
    buffer,      \* input_buffer: "" or the line in it
    status,      \* the status line, which gates what Enter and Esc do
    pending,     \* pending_prompt: the question in the slot, or None
    handle,      \* task_handle: the turn it holds, or 0
    initHandle,  \* init_handle: the task it holds, or 0
    events,      \* the event channel
    tasks,       \* the background tasks, in the order of their lines
    compressing, \* compressions spawned: <<not yet announced, running>>
    history,     \* the messages of the session
    wire,        \* the request each turn has last sent
    enabled,     \* computer_enabled
    trusted,     \* computer_trusted
    allowed,     \* session_approved: the commands that had an "always"
    keys,        \* keys pressed so far, and whether a line is half typed
    stray,       \* history: tasks aborted by Esc or a line, or told to keep AGENTS.md
    said         \* history: what the user answered to the question a task acts on

appVars == <<buffer, status, pending, handle, initHandle>>
flags == <<enabled, trusted, allowed>>
vars == <<buffer, status, pending, handle, initHandle, events, tasks, compressing,
          history, wire, enabled, trusted, allowed, keys, stray, said>>

None == <<>>
Idle == "idle"
Busy == {"thinking", "planning", "streaming", "executing", "waiting", "compressing"}

(* A task not spawned, and what is left of one that is over. *)
Unused == [kind |-> "none", place |-> "done", aborted |-> FALSE, left |-> <<>>,
           sent |-> 0, round |-> 0, tools |-> FALSE, desk |-> FALSE,
           shot |-> FALSE, asks |-> 0, answer |-> "none"]
Over(task) == [Unused EXCEPT !.kind = task.kind]

(* Where a turn or an init waits, so that an abort drops it there. *)
Waits == {"request", "asked", "running", "terminal", "starting", "probing"}

TypeOK ==
    /\ buffer \in Lines \cup {"", "mixed"}
    /\ status \in {Idle} \cup Busy
    /\ pending = None \/ pending \in Tasks \X Nat
    /\ handle \in 0..MaxKeys /\ initHandle \in 0..MaxKeys
    /\ \A i \in DOMAIN events :
          events[i][1] \in {"Input", "Enter", "Esc", "Prompt", "PromptExpired", "Token",
                            "ToolExec", "StreamDone", "Status", "InteractiveCommand"}
    /\ \A t \in Tasks :
          /\ tasks[t].kind \in {"none", "turn", "init"}
          /\ tasks[t].place \in Waits \cup {"persist", "calls", "writing", "done"}
          /\ tasks[t].sent \in 0..MaxRequests + 1
          /\ tasks[t].answer \in {"none", "nothing", "y", "a", "n", "text", "exit"}
          /\ tasks[t].kind = "none" => tasks[t] = Unused
    /\ compressing \in Nat \X Nat
    /\ {enabled, trusted} \subseteq BOOLEAN /\ allowed \subseteq Listed
    /\ stray \subseteq Tasks
    /\ said \in [Tasks -> {"none", "nothing", "y", "a", "n", "text"}]

Init ==
    /\ buffer = "" /\ status = Idle /\ pending = None
    /\ handle = 0 /\ initHandle = 0
    /\ events = <<>>
    /\ tasks = [t \in Tasks |-> Unused]
    /\ compressing = <<0, 0>>
    /\ history = <<>>
    /\ wire = [t \in Tasks |-> <<>>]
    /\ enabled = Enabled
    /\ trusted = FALSE /\ allowed = {}
    /\ keys = [pressed |-> 0, mid |-> FALSE]
    /\ stray = {}
    /\ said = [t \in Tasks |-> "none"]

Finished(t) == tasks[t].place = "done"
Live(t) == ~Finished(t) /\ ~tasks[t].aborted

(* The channel after es have been sent; a token, or an execution line,     *)
(* that follows another is the same to the loop and not kept twice.        *)
Sent(es) ==
    IF events # <<>> /\ es # <<>> /\ es[1] = events[Len(events)]
       /\ es[1][1] \in {"Token", "ToolExec"}
    THEN events \o Tail(es) ELSE events \o es

(* An end and an expiry name their sender, which the loop cannot see.      *)
Token == <<"Token", "">>
ToolExec == <<"ToolExec", "">>
StreamDone(t) == <<"StreamDone", t>>
PromptExpired(t) == <<"PromptExpired", t>>
Status(s) == <<"Status", s>>

(* What a line is as an answer. *)
Word(line) == CASE line = "" -> "nothing"
                [] line \in {"y", "a", "n"} -> line
                [] OTHER -> "text"

(* tasks after the question p has been answered; nobody may be waiting. *)
Told(p, answer) ==
    IF p # None /\ tasks[p[1]].place = "asked" /\ tasks[p[1]].asks = p[2]
       /\ tasks[p[1]].answer = "none"
    THEN [tasks EXCEPT ![p[1]].answer = answer] ELSE tasks

(* What abort() does to the task in a handle. *)
Aborted(ts, t) == IF t # 0 /\ ts[t].place # "done"
                  THEN [ts EXCEPT ![t].aborted = TRUE] ELSE ts
Strays(ts) == stray \cup {t \in Tasks : ts[t].aborted}
-----------------------------------------------------------------------------
(* The user: types a line, presses Enter, presses Esc. *)

Type(line) ==
    /\ keys.pressed < MaxKeys /\ ~keys.mid /\ Len(events) <= MaxQueued
    /\ events' = Sent(<< <<"Input", line>> >>)
    /\ keys' = [keys EXCEPT !.mid = TRUE]
    /\ UNCHANGED <<appVars, tasks, compressing, history, wire, flags, stray, said>>

PressEnter ==
    /\ keys.pressed < MaxKeys /\ Len(events) <= MaxQueued
    /\ events' = Sent(<< <<"Enter", "">> >>)
    /\ keys' = [keys EXCEPT !.mid = FALSE, !.pressed = @ + 1]
    /\ UNCHANGED <<appVars, tasks, compressing, history, wire, flags, stray, said>>

PressEsc ==
    /\ keys.pressed < MaxKeys /\ Len(events) <= MaxQueued
    /\ events' = Sent(<< <<"Esc", "">> >>)
    /\ keys' = [keys EXCEPT !.pressed = @ + 1]
    /\ UNCHANGED <<appVars, tasks, compressing, history, wire, flags, stray, said>>
-----------------------------------------------------------------------------
(* The loop. *)

Handles(name) == events # <<>> /\ events[1][1] = name

(* Keys typed while a command has the terminal are discarded. *)
HandleInput ==
    /\ Handles("Input")
    /\ events' = Tail(events)
    /\ buffer' = CASE status = "executing" -> buffer
                   [] buffer = "" -> events[1][2]
                   [] OTHER -> "mixed"
    /\ UNCHANGED <<status, pending, handle, initHandle, tasks, compressing, history, wire,
                   flags, keys, stray, said>>

(* Enter answers the question in the slot, whoever has asked it. *)
EnterAnswers ==
    /\ Handles("Enter") /\ pending # None
    /\ events' = Tail(events)
    /\ tasks' = Told(pending, Word(buffer))
    /\ said' = IF tasks' = tasks THEN said ELSE [said EXCEPT ![pending[1]] = tasks'[pending[1]].answer]
    /\ pending' = None /\ buffer' = "" /\ status' = Idle
    /\ UNCHANGED <<handle, initHandle, compressing, history, wire, flags, keys, stray>>

(* Mutant: whether the turn has finished is not looked at. *)
MaySubmitWhenIdle == status = Idle

MaySubmit == status = Idle /\ (handle # 0 => Finished(handle))

EnterIgnored ==
    /\ Handles("Enter") /\ pending = None /\ ~MaySubmit
    /\ events' = Tail(events)
    /\ UNCHANGED <<appVars, tasks, compressing, history, wire, flags, keys, stray, said>>

AfterAbort == Aborted(tasks, initHandle)

(* App::submit: a running /init is aborted, even by an empty line. *)
Submits(lines, init) ==
    /\ Handles("Enter") /\ pending = None /\ MaySubmit
    /\ buffer \in lines
    /\ buffer' = "" /\ initHandle' = init
    /\ stray' = Strays(AfterAbort)
    /\ UNCHANGED <<compressing, keys, said>>

SubmitNothing ==
    /\ Submits({""}, 0)
    /\ events' = Tail(events)
    /\ tasks' = AfterAbort
    /\ UNCHANGED <<status, pending, handle, history, wire, flags>>

Fresh == CHOOSE t \in Tasks : tasks[t].kind = "none" /\ \A u \in 1..(t - 1) : tasks[u].kind # "none"

(* Mutant: calls that have lost their results are not repaired. *)
PreparedUnrepaired(ms) ==
    [i \in DOMAIN ms |-> [ms[i] EXCEPT !.reason = (ms[i].calls # <<>>)]]

Prepared(ms) == prepare_for_request(ms)

(* The line is pushed, images of an aborted turn are dropped, and a turn   *)
(* is spawned with its first request.                                      *)
StartTurn(desk) ==
    /\ history' = prune_images(Append(history, User), 0)
    /\ handle' = Fresh
    /\ tasks' = [AfterAbort EXCEPT ![Fresh] =
                   [Unused EXCEPT !.kind = "turn", !.place = "request", !.tools = TRUE,
                                  !.desk = desk]]
    /\ wire' = [wire EXCEPT ![Fresh] = Prepared(history')]
    /\ events' = Tail(events)
    /\ UNCHANGED <<pending, flags>>

SubmitPrompt ==
    /\ Submits({"y", "a", "n", "hi", "mixed"}, 0)
    /\ status' = "thinking"
    /\ StartTurn(TRUE)

(* plan_submit: a plan may not use the desktop. *)
SubmitPlan ==
    /\ Submits({"/plan"}, 0)
    /\ status' = "planning"
    /\ StartTurn(FALSE)

(* /init asks before it overwrites AGENTS.md, if there is one. *)
SubmitInit(exists) ==
    /\ Submits({"/init"}, Fresh)
    /\ tasks' = [AfterAbort EXCEPT ![Fresh] =
                   [Unused EXCEPT !.kind = "init", !.asks = IF exists THEN 1 ELSE 0,
                                  !.place = IF exists THEN "asked" ELSE "starting"]]
    /\ events' = IF exists THEN Append(Tail(events), <<"Prompt", <<Fresh, 1>>>>)
                 ELSE Tail(events)
    /\ status' = IF exists THEN status ELSE "thinking"
    /\ UNCHANGED <<pending, handle, history, wire, flags>>

SubmitClear ==
    /\ Submits({"/clear"}, 0)
    /\ history' = <<>> /\ trusted' = FALSE
    /\ tasks' = AfterAbort
    /\ events' = Tail(events)
    /\ UNCHANGED <<status, pending, handle, wire, enabled, allowed>>

(* /computer on and off: trust is withdrawn, and with off the screenshots. *)
SubmitComputer ==
    /\ Submits({"/on", "/off"}, 0)
    /\ enabled' = (buffer = "/on") /\ trusted' = FALSE
    /\ history' = IF buffer = "/off" THEN prune_images(history, 0) ELSE history
    /\ tasks' = AfterAbort
    /\ events' = Tail(events)
    /\ UNCHANGED <<status, pending, handle, wire, allowed>>

(* Dismiss: aborts the turn whose handle is held, if the status is not idle. *)
HandleEsc ==
    /\ Handles("Esc")
    /\ events' = Tail(events)
    /\ IF status = Idle
       THEN UNCHANGED <<tasks, handle, status, stray>>
       ELSE /\ tasks' = Aborted(tasks, handle)
            /\ handle' = 0
            /\ status' = Idle
            /\ stray' = Strays(tasks')
    /\ UNCHANGED <<buffer, pending, initHandle, compressing, history, wire, flags, keys, said>>

(* Mutant: a question is dropped while the slot is taken. *)
HandlePromptIfFree ==
    /\ Handles("Prompt")
    /\ events' = Tail(events)
    /\ pending' = IF pending = None THEN events[1][2] ELSE pending
    /\ status' = "waiting"
    /\ UNCHANGED <<tasks, buffer, handle, initHandle, compressing, history, wire, flags, keys, stray, said>>

(* A question takes the slot; the sender of one that was there is dropped. *)
HandlePrompt ==
    /\ Handles("Prompt")
    /\ events' = Tail(events)
    /\ tasks' = Told(pending, "nothing")
    /\ pending' = events[1][2]
    /\ status' = "waiting"
    /\ UNCHANGED <<buffer, handle, initHandle, compressing, history, wire, flags, keys, stray, said>>

HandlePromptExpired ==
    /\ Handles("PromptExpired")
    /\ events' = Tail(events)
    /\ tasks' = Told(pending, "nothing")
    /\ pending' = None /\ buffer' = "" /\ status' = Idle
    /\ UNCHANGED <<handle, initHandle, compressing, history, wire, flags, keys, stray, said>>

(* The end of a stream dismisses a question and spawns a compression. *)
HandleStreamDone ==
    /\ Handles("StreamDone")
    /\ events' = Tail(events)
    /\ tasks' = Told(pending, "nothing")
    /\ buffer' = IF pending = None THEN buffer ELSE ""
    /\ pending' = None /\ status' = Idle
    /\ compressing' = <<compressing[1] + 1, compressing[2]>>
    /\ UNCHANGED <<handle, initHandle, history, wire, flags, keys, stray, said>>

HandleStatus ==
    /\ Handles("Token") \/ Handles("ToolExec") \/ Handles("Status")
    /\ events' = Tail(events)
    /\ status' = CASE events[1] = Token -> "streaming"
                   [] events[1] = ToolExec -> "executing"
                   [] OTHER -> events[1][2]
    /\ UNCHANGED <<buffer, pending, handle, initHandle, tasks, compressing, history, wire,
                   flags, keys, stray, said>>

(* The loop gives the terminal to the command and waits for it. *)
HandleInteractive ==
    /\ Handles("InteractiveCommand")
    /\ events' = Tail(events)
    /\ LET t == events[1][2] IN
       tasks' = IF tasks[t].place = "terminal" THEN [tasks EXCEPT ![t].answer = "exit"] ELSE tasks
    /\ UNCHANGED <<appVars, compressing, history, wire, flags, keys, stray, said>>

Loop == \/ HandleInput \/ EnterAnswers \/ EnterIgnored
        \/ SubmitNothing \/ SubmitPrompt \/ SubmitPlan \/ SubmitClear \/ SubmitComputer
        \/ \E exists \in AgentsFile : SubmitInit(exists)
        \/ HandleEsc \/ HandlePrompt \/ HandlePromptExpired
        \/ HandleStreamDone \/ HandleStatus \/ HandleInteractive
-----------------------------------------------------------------------------
(* A turn (run_tool_calling_loop).  An aborted one still takes the steps   *)
(* that do not wait, until it is dropped.                                  *)

At(t, kind, place) ==
    /\ tasks[t].kind = kind /\ tasks[t].place = place
    /\ place \in Waits => ~tasks[t].aborted

TaskOnly == UNCHANGED <<appVars, compressing, keys, said>>
TaskForgets(t) == said' = [said EXCEPT ![t] = "none"] /\ UNCHANGED <<appVars, compressing, keys>>

(* A piece of text arrives (reasoning has the same effect). *)
StreamChunk(t) ==
    /\ tasks[t].place = "request" /\ ~tasks[t].aborted
    /\ events' = Sent(<<Token>>)
    /\ UNCHANGED <<tasks, history, wire, flags, stray>> /\ TaskOnly

(* The stream ends, with tool calls or without.  In a request without      *)
(* tools the calls are recovered from the text.                            *)
StreamEnds(t, calls) ==
    /\ At(t, "turn", "request")
    /\ calls # <<>> => tasks[t].sent < MaxRequests
    /\ tasks' = [tasks EXCEPT ![t].place = "persist", ![t].sent = @ + 1,
                   ![t].left = [k \in DOMAIN calls |-> <<calls[k], k>>]]
    /\ wire' = [wire EXCEPT ![t] = <<>>]
    /\ UNCHANGED <<events, history, flags, stray>> /\ TaskOnly

StreamFails(t) ==
    /\ tasks[t].place = "request" /\ ~tasks[t].aborted
    /\ tasks' = [tasks EXCEPT ![t] = Over(@)]
    /\ events' = Sent(<<Token, StreamDone(t)>>)
    /\ wire' = [wire EXCEPT ![t] = <<>>]
    /\ UNCHANGED <<history, flags, stray>> /\ TaskOnly

Id(t, k) == <<t, tasks[t].sent, k>>

(* Mutant: a turn goes on after an answer without calls. *)
PersistGoesOn(t) ==
    /\ At(t, "turn", "persist")
    /\ history' = Append(history, Assistant([i \in DOMAIN tasks[t].left |-> Id(t, i)]))
    /\ tasks' = [tasks EXCEPT ![t].place = "calls"]
    /\ UNCHANGED <<events, wire, flags, stray>> /\ TaskOnly

Persist(t) ==
    /\ At(t, "turn", "persist")
    /\ history' = Append(history, Assistant([i \in DOMAIN tasks[t].left |-> Id(t, i)]))
    /\ IF tasks[t].left = <<>>
       THEN /\ tasks' = [tasks EXCEPT ![t] = Over(@)]
            /\ events' = Sent(<<StreamDone(t)>>)
       ELSE /\ tasks' = [tasks EXCEPT ![t].place = "calls"]
            /\ UNCHANGED events
    /\ UNCHANGED <<wire, flags, stray>> /\ TaskOnly

Current(t) == tasks[t].left[1][1]

(* Is the call refused outright, and does it need a confirmation? *)
Unknown(t) == Current(t) = "unknown"
Refused(t) == \/ Unknown(t)
              \/ /\ Current(t) \in {"look", "desk"}
                 /\ ~(enabled /\ tasks[t].desk /\ tasks[t].tools)
Risky(t) == \/ Current(t) \in Listed \ allowed /\ ~SkipPermissions
            \/ Current(t) = "desk" /\ ~trusted /\ RequireConfirmation

(* An interactive command is run by the loop, in the terminal. *)
RunsIn(t) == IF Current(t) \in Interactive THEN "terminal" ELSE "running"
GivenTo(t) == IF Current(t) \in Interactive THEN << <<"InteractiveCommand", t>> >> ELSE <<>>

(* The result of the current call is pushed, and the call is done with. *)
PushResult(t, es) ==
    /\ history' = Append(history, Result(Id(t, tasks[t].left[1][2])))
    /\ events' = Sent(es)

Popped(t, shot) ==
    [tasks EXCEPT ![t].left = Tail(@), ![t].place = "calls", ![t].answer = "none",
                  ![t].shot = @ \/ shot]

HasCall(t) == At(t, "turn", "calls") /\ tasks[t].left # <<>>

RefuseCall(t) ==
    /\ HasCall(t) /\ Refused(t)
    /\ PushResult(t, <<ToolExec>>)
    /\ tasks' = Popped(t, FALSE)
    /\ UNCHANGED <<wire, flags, stray>> /\ TaskOnly

AskFirst(t) ==
    /\ HasCall(t) /\ ~Refused(t) /\ Risky(t)
    /\ tasks' = [tasks EXCEPT ![t].place = "asked", ![t].asks = @ + 1, ![t].answer = "none"]
    /\ events' = Sent((IF Current(t) = "desk" THEN <<>> ELSE <<ToolExec>>)
                      \o << <<"Prompt", <<t, tasks[t].asks + 1>>>> >>)
    /\ UNCHANGED <<history, wire, flags, stray>> /\ TaskForgets(t)

RunCall(t) ==
    /\ HasCall(t) /\ ~Refused(t) /\ ~Risky(t)
    /\ tasks' = [tasks EXCEPT ![t].place = RunsIn(t)]
    /\ events' = Sent(<<ToolExec>> \o GivenTo(t))
    /\ UNCHANGED <<history, wire, flags, stray>> /\ TaskOnly

(* Mutant: on the desktop too, whatever is not a refusal is a yes. *)
ApprovedUnlessRefused(t) == tasks[t].answer \in {"y", "a", "text"}

(* To a command any text but "n" is a yes, whatever was in the buffer when *)
(* the question came included; the desktop needs "y" or "a".               *)
Approved(t) ==
    tasks[t].answer \in IF Current(t) = "desk" THEN {"y", "a"} ELSE {"y", "a", "text"}

TakeAnswer(t) ==
    /\ At(t, "turn", "asked") /\ tasks[t].answer # "none" /\ Approved(t)
    /\ tasks' = [tasks EXCEPT ![t].place = RunsIn(t), ![t].answer = "none"]
    /\ allowed' = IF tasks[t].answer = "a" THEN allowed \cup ({Current(t)} \cap Listed) ELSE allowed
    /\ trusted' = (trusted \/ (Current(t) = "desk" /\ tasks[t].answer = "a"))
    /\ events' = Sent(IF Current(t) = "desk" THEN <<ToolExec>> ELSE GivenTo(t))
    /\ UNCHANGED <<history, wire, enabled, stray>> /\ TaskOnly

(* Denied, dismissed, or (on the desktop) not answered in time. *)
TakeDenial(t) ==
    /\ At(t, "turn", "asked")
    /\ IF tasks[t].answer = "none" THEN Current(t) = "desk" ELSE ~Approved(t)
    /\ PushResult(t, IF Current(t) = "desk" THEN <<PromptExpired(t), ToolExec>> ELSE <<ToolExec>>)
    /\ tasks' = Popped(t, FALSE)
    /\ UNCHANGED <<wire, flags, stray>> /\ TaskForgets(t)

CallEnds(t, shot) ==
    /\ \/ At(t, "turn", "running")
       \/ At(t, "turn", "terminal") /\ tasks[t].answer = "exit"
    /\ shot => Current(t) \in {"look", "desk"}
    /\ PushResult(t, <<ToolExec>>)
    /\ tasks' = Popped(t, shot)
    /\ UNCHANGED <<wire, flags, stray>> /\ TaskForgets(t)

(* All calls done: the last screenshot is pushed, older ones are pruned,   *)
(* and the next request is built, with tools while the desktop is on.      *)
NextRequest(t) ==
    /\ At(t, "turn", "calls") /\ tasks[t].left = <<>>
    /\ LET shot == IF tasks[t].shot THEN Append(history, Screenshot) ELSE history
           again == enabled /\ tasks[t].desk
                    /\ tasks[t].round + 1 < (IF MaxRounds = 0 THEN 1 ELSE MaxRounds)
       IN  /\ history' = prune_images(shot, Keep)
           /\ tasks' = [tasks EXCEPT ![t].place = "request", ![t].shot = FALSE,
                          ![t].tools = again, ![t].round = IF again THEN @ + 1 ELSE @]
    /\ wire' = [wire EXCEPT ![t] = Prepared(history')]
    /\ UNCHANGED <<events, flags, stray>> /\ TaskOnly

Dropped(t) ==
    /\ tasks[t].aborted
    /\ tasks' = [tasks EXCEPT ![t] = Over(@)]
    /\ wire' = [wire EXCEPT ![t] = <<>>]
    /\ UNCHANGED <<events, history, flags, stray>> /\ TaskForgets(t)

Turn(t) ==
    \/ StreamChunk(t) \/ StreamFails(t)
    \/ \E calls \in Answers \cup {<<>>} : StreamEnds(t, calls)
    \/ Persist(t)
    \/ RefuseCall(t) \/ AskFirst(t) \/ RunCall(t) \/ TakeAnswer(t) \/ TakeDenial(t)
    \/ \E shot \in BOOLEAN : CallEnds(t, shot)
    \/ NextRequest(t) \/ Dropped(t)
-----------------------------------------------------------------------------
(* /init: waits for the answer, probes, asks the model, writes the file. *)

InitAnswered(t) ==
    /\ At(t, "init", "asked") /\ tasks[t].answer # "none"
    /\ CASE tasks[t].answer = "y" ->
              /\ tasks' = [tasks EXCEPT ![t].place = "starting", ![t].answer = "none"]
              /\ UNCHANGED <<events, stray>>
         [] tasks[t].answer = "nothing" ->
              /\ tasks' = [tasks EXCEPT ![t] = Over(@)]
              /\ UNCHANGED <<events, stray>>
         [] OTHER ->
              /\ tasks' = [tasks EXCEPT ![t] = Over(@)]
              /\ events' = Sent(<<Token>>)
              /\ stray' = stray \cup {t}
    /\ UNCHANGED <<history, wire, flags>> /\ TaskForgets(t)

InitStarts(t) ==
    /\ At(t, "init", "starting")
    /\ tasks' = [tasks EXCEPT ![t].place = "probing"]
    /\ events' = Sent(<<ToolExec>>)
    /\ UNCHANGED <<history, wire, flags, stray>> /\ TaskOnly

InitProbed(t) ==
    /\ At(t, "init", "probing")
    /\ tasks' = [tasks EXCEPT ![t].place = "request"]
    /\ events' = Sent(<<Status("executing")>>)
    /\ UNCHANGED <<history, wire, flags, stray>> /\ TaskOnly

InitGenerated(t) ==
    /\ At(t, "init", "request")
    /\ tasks' = [tasks EXCEPT ![t].place = "writing"]
    /\ UNCHANGED <<events, history, wire, flags, stray>> /\ TaskOnly

InitWrites(t) ==
    /\ At(t, "init", "writing")
    /\ tasks' = [tasks EXCEPT ![t] = Over(@)]
    /\ events' = Sent(<<Token, StreamDone(t)>>)
    /\ UNCHANGED <<history, wire, flags, stray>> /\ TaskOnly

InitTask(t) == InitAnswered(t) \/ InitStarts(t) \/ InitProbed(t) \/ InitGenerated(t) \/ InitWrites(t)
-----------------------------------------------------------------------------
(* The compression that the end of a stream spawns. *)

CompressionStarts ==
    /\ compressing[1] > 0
    /\ compressing' = <<compressing[1] - 1, compressing[2] + 1>>
    /\ events' = Sent(<<Status("compressing")>>)
    /\ UNCHANGED <<appVars, tasks, history, wire, flags, keys, stray, said>>

(* Mutant: the end of a compression is not reported. *)
CompressionEndsSilently ==
    /\ compressing[2] > 0
    /\ compressing' = <<compressing[1], compressing[2] - 1>>
    /\ UNCHANGED <<appVars, events, tasks, history, wire, flags, keys, stray, said>>

CompressionEnds ==
    /\ compressing[2] > 0
    /\ compressing' = <<compressing[1], compressing[2] - 1>>
    /\ events' = Sent(<<Status(Idle)>>)
    /\ UNCHANGED <<appVars, tasks, history, wire, flags, keys, stray, said>>
-----------------------------------------------------------------------------
User_ == (\E line \in Lines : Type(line)) \/ PressEnter \/ PressEsc

Next == \/ User_ \/ Loop
        \/ \E t \in Tasks : Turn(t) \/ InitTask(t)
        \/ CompressionStarts \/ CompressionEnds

Spec == Init /\ [][Next]_vars
-----------------------------------------------------------------------------
(* Every request of a turn is one the API accepts, whatever Esc has cut    *)
(* short before: each call has its result right behind it, there is no     *)
(* other result, calls carry reasoning, and there are at most Keep         *)
(* screenshots, none in the first request (run_tool_calling_loop,          *)
(* prepare_for_request, prune_images).                                     *)
RequestsAccepted ==
    \A t \in Tasks :
        /\ WellFormed(wire[t]) /\ Reasoned(wire[t])
        /\ Cardinality(Images(wire[t])) <= IF tasks[t].sent = 0 THEN 0 ELSE Keep

(* When nothing runs and nothing is queued, the status is idle again, so   *)
(* that Enter submits, whatever turns, /init and compressions have sent    *)
(* (StreamDone, the compression it spawns, and the Enter of run).  Except  *)
(* after a task was aborted, whose last events may come late, or was told  *)
(* to keep AGENTS.md: then the status may stay busy until Esc is pressed.  *)
QuietIsIdle ==
    /\ events = <<>> /\ pending = None /\ compressing = <<0, 0>>
    /\ \A t \in Tasks : Finished(t)
    /\ stray = {}
    => MaySubmit

(* A task that awaits an answer can get one: its question is in the slot   *)
(* or on its way there (Prompt, PromptExpired, StreamDone, Enter).         *)
AskedIsReachable ==
    \A t \in Tasks :
        tasks[t].place = "asked" /\ Live(t) /\ tasks[t].answer = "none" =>
            LET p == <<t, tasks[t].asks>> IN
            pending = p \/ \E i \in DOMAIN events : events[i] = <<"Prompt", p>>

(* Unless the configuration asks no questions, a command to be confirmed   *)
(* runs, by itself or in the terminal, only after an Enter to its own      *)
(* question that was not empty and not a refusal (what was typed before    *)
(* the question came counts), or after an "always" to the same command;    *)
(* an action on the desktop only after a "y" or an "a", or while an "a"    *)
(* stands, which /clear and /computer take back.  A task that was aborted  *)
(* may not be gone yet (execute_command and computer_use in the loop).     *)
RunsOnlyWithConsent ==
    \A t \in Tasks :
        tasks[t].place \in {"running", "terminal"} /\ Live(t) =>
            /\ Current(t) \in Listed =>
                  \/ SkipPermissions \/ Current(t) \in allowed
                  \/ said[t] \notin {"none", "nothing", "n"}
            /\ Current(t) = "desk" =>
                  ~RequireConfirmation \/ trusted \/ said[t] \in {"y", "a"}

(* While a turn runs no other task is started and the session is not       *)
(* cleared, although a compression that ends meanwhile sets the status to  *)
(* idle (the is_finished test of run).                                     *)
TurnAlone ==
    [][\A t \in Tasks :
          tasks[t].kind = "turn" /\ Live(t) /\ Live(t)' =>
              /\ \A u \in Tasks : tasks'[u].kind = tasks[u].kind
              /\ Len(history') >= Len(history)]_vars

(* An expiry or the end of a stream, which empty the slot whoever's        *)
(* question it holds, dismiss the question of a task that still runs only  *)
(* if an aborted task has sent them: a turn or /init that Esc or a line    *)
(* cut short may report its end late (PromptExpired, StreamDone).          *)
QuestionsKept ==
    [][\A t \in Tasks :
          /\ events # <<>> /\ events[1][1] \in {"PromptExpired", "StreamDone"}
          /\ events' = Tail(events)
          /\ Live(t) /\ tasks'[t] # tasks[t]
          => events[1][2] \in stray]_vars
=============================================================================
