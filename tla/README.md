# ARCC in TLA+

A model of ARCC (a terminal, HTTP, Feishu and ACP front end to a language
model, in Rust): its queues, scheduler, agents, sessions and stream assembly as
TLA+ modules translated from the source, TLC runs over small instances, and
proofs for every instance. Paths below are
relative to `src/crates/` unless they start with `src/`.

To run: `tlc -config MCChatQueue.cfg MCChatQueue` (each `.cfg` names its
module by its prefix, see the table of runs) and `tlapm ChatQueueProofs.tla`.

## 1. The system

| Component | State | Operations | Talks to | What is hard |
|---|---|---|---|---|
| Chat queue (`arcc-server/src/feishu/chat_queue.rs`, `executor.rs`) | a map from chats to senders, a channel and a task per chat; one such queue in the webhook and one in the executor | enqueue a user message, enqueue a trigger and await its result, the consumer loop with its idle timeout | webhook and scheduler loop (callers), Feishu turn (callee) | the map, the channel and the consumer change in separate steps; a consumer times out, or panics, under a sender's hands |
| Task scheduler (`arcc-server/src/scheduler.rs`) | the list of due tasks, the task in hand, retry counters | tick, mark running, execute, settle, give up | task table, chat queue (through `TaskExecutor`) | the list is old when it is used; other turns write the rows; crashes and failed writes |
| Task table and tools (`arcc-storage/src/db/queries.rs`, `webhook.rs`) | rows with a status and a next run | schedule, pause, delete, list due, update | every Feishu turn, scheduler | one statement at a time, no transactions over several |
| Feishu webhook and turn (`arcc-server/src/feishu/webhook.rs`) | none of its own | verify, parse, enqueue; a turn of at most ten tool rounds | chat queue, sessions, model, Feishu client | redelivered events; a turn that panics; history shared with compression |
| Session manager (`arcc-core/src/session.rs`) | id -> session (messages, token count, summary) | create, find by name, push, compress, repair the history for a request | every front end, storage | look-up and creation are two steps; compression holds a session's lock over a call to the model |
| ACP agent (`arcc-acp/src`) | sessions with a running flag and a cancellation token; permission requests; an outbound channel | new, prompt, cancel, close, permission answers, shutdown; the turn of a prompt | client (stdin/stdout), sessions, model, commands | cancellation racing the start, the waits and the end of a turn; answers that come late or never |
| TUI (`arcc-tui/src`) | one slot for a pending prompt, the status line, handles of the running tasks, one session | keys, turn loop, approvals, expiry, `/init`, compression | session, model, commands | late events of tasks that are over or aborted; a question after another has taken its slot |
| CLI agent (`arcc-cli/src/lib.rs`) | the messages of its run | one tool loop over streamed answers | model, commands | answers that arrive in pieces, or only in part |
| HTTP routes (`arcc-server/src/routes`) | none | chat stream, memory, health, metrics | sessions, model | requests of one session interleave |
| Model clients (`arcc-core/src/model`) | builders and buffer of a stream | request with retries, stream assembly, DSML recovery | DeepSeek API | tags and calls cut anywhere; streams that end early |
| MCP scheduler (`arcc-core/src/mcp`) | child processes | ensure running, health check | children | takes its lock twice (no caller) |
| Feishu client (`arcc-core/src/feishu_client.rs`) | a cached token | fetch, send, update cards | Feishu API | expiry |
| Storage, migrations, audit (`arcc-storage/src`) | SQLite, a log file | inserts, selects, migrations | all | a migration interrupted half-way |
| Safety, tools, computer use, memory, configuration | allowlist, facts, config file | matching, formatting, system calls | all | string processing and I/O |

What makes each correct, in one sentence:

- *chat queue*: a message is processed once or is known to be lost, turns of a
  chat are serial and in order, and whoever waits for a turn is answered;
- *scheduler*: what succeeded is not repeated, what fails is given up, what is
  deleted stays deleted, and nothing due is forgotten;
- *ACP agent*: the turns of a session do not mix, a command that needs
  permission runs only with it, a cancel ends the turn it is meant for and no
  other, and every prompt gets one response, last;
- *sessions*: one session per name, a compression that loses nothing, and
  well-formed histories, whatever has been cut short before;
- *TUI*: one turn at a time, no command the allowlist stops without a consent,
  every question can be answered, and the status line does not get stuck;
- *model client and CLI agent*: calls and text come out of a stream as they are
  in the text as a whole, and only complete answers are acted upon.

`PROJECT.json` lists every component with its status, and the hazards at
their lines with the properties that look for them.

## 2. Modules

| Module | Models | Kind |
|---|---|---|
| `Mailbox` | what a chat queue promises: per box, messages are taken in order of arrival and one at a time, until the box has refused one | abstract specification |
| `ChatQueue` | both chat queues, consumer tasks and the scheduler's wait | detailed specification, implements `Mailbox` |
| `ChatQueueProofs` | invariants of `ChatQueue`, and that it implements `Mailbox` | proofs |
| `TaskScheduler` | the scheduler loop and the task table under the tools of other turns | specification |
| `TaskSchedulerProofs` | its safety properties | proofs |
| `AcpServer` | the ACP read loop, the turns and the client | specification |
| `AcpServerProofs` | its safety properties | proofs |
| `History` | the messages of a conversation, what the API accepts of them, the three repairs, the outcomes of a compression | operators |
| `HistoryProofs` | what the repairs return, for any history | proofs |
| `Conversations` | the server's sessions under Feishu turns, HTTP turns and compressions | specification over `History` |
| `ConversationsProofs` | its safety properties | proofs, over `HistoryProofs` |
| `Tui` | the terminal front end: loop, slot, status, turns, `/init`, compressions | specification over `History` |
| `TuiProofs` | its safety properties | proofs, over `HistoryProofs` |
| `Dsml` | the markup parsers, of a whole text and of a stream | operators and recursive functions |
| `DsmlProofs` | what the parsers find, for any text cut in any way | proofs |
| `ModelClient` | `chat` with its retries, `chat_stream` with its frames | actions over `Dsml` |
| `CliAgent` | the headless agent, composed with `ModelClient` | specification over `ModelClient` and `History` |
| `CliAgentProofs` | the safety properties of the agent and the client | proofs, over `DsmlProofs` and `HistoryProofs` |
| `MCChatQueue`, `MCTaskScheduler`, `MCAcpServer`, `MCConversations`, `MCTui`, `MCCliAgent` | instances for TLC | model checking |

The operators whose comment starts with "Mutant" are not part of the
specification: each is a plausible bug, and with it in place of the definition
it follows its property fails. They keep the properties honest.

### ChatQueue

A consumer is named by the message it was spawned for. `consumers` is the map
`consumers` of a `ChatQueue`, `channel[c]` the mpsc channel, `task[c]` the
place of the spawned task. The map's mutex is never held across an await, so
each critical section of `enqueue_inner` is one action (`EnqueueSend`,
`EnqueueClosed`, `EnqueueSpawn`). The end of a consumer takes three steps, as
in the code: leave the loop (`IdleTimeout`, `SendersGone`), drop the receiver
with whatever has arrived in the meantime (`DropReceiver`), lock the map and
remove the entry of the chat (`Deregister`). `process_feishu_chat` is a start and
an end with a free result, or a `Panic` (`schedule_task` with a delay that
overflows the clock, `webhook.rs:143`). `fate` says what has become of each
message; a message is *refused* when its channel was closed and *stranded*
when it was in a channel whose receiver was dropped. `ExecuteReturns` is the
return of `enqueue_scheduler`.

`Mailbox` knows boxes, order and phases (new, pending, running, over), and a
box that is *degraded* after a refusal, where nothing is promised about order
and overlap. The mapping sends `fate` to phases and a refusal to degradation.

### TaskScheduler

`status` is the column of `scheduled_tasks`, `due` whether `next_run_at` has
passed, `batch` the list a tick made, `hand` the task in execution. `Start`
marks the row running without looking at it, as the code does. `Write` is the
settlement, one statement that may fail and is then logged only. A crash
empties the loop's memory and leaves the table. The tools (`Schedule`,
`Pause`, `Delete`) act at any time. The executor's verdict is free: the
contract that it returns at all is `SchedulerNeverStuck` of `ChatQueue`.

### AcpServer

A prompt `<<s, n>>` is the n-th `session/prompt` of session s. The read loop
handles a line before it reads the next, so each handler is one action
(`lib.rs:11` says requests are spawned; the code handles them in line); only
`run_prompt` runs concurrently, and its steps are the stretches between two
awaits. A cancellation token is named by the prompt that made it: the handle's
`token[s]` starts as the session's own and is replaced in `Begin`
(`fresh_cancel_token`). `registered` and `reply` are the permission registry
and the oneshot; `asked` is what the client has read and not answered, `out`
the outbound FIFO. `CancelSeen` is the cancelled branch of the four `select!`s:
at `streaming`, `asking` and `executing`. `CloseStdin` is `cancel_all`, which
runs once: a request registered later is not answered. `Exit` drops the turns
where they stand.

### History

A message keeps its role, the ids of its tool calls or of the call it answers,
and whether it has reasoning or an image. `WellFormed` is what the API accepts,
as the comments above `sanitize_history` and `sanitize_tool_call_sequence`
state it. The two repairs are different functions in the code and here:
`sanitize_tool_call_sequence` moves and makes up results and drops those of no
call; `sanitize_history` counts. The images of `prune_images` are a flag.

### Conversations

`sessions` is the map of `SessionManager` in order of creation, `lock[s]` the
worker that compresses session s (an access of a turn is one action and needs
the lock free), `todo[w]` what a `compress_all` has yet to look at.
`get_or_create` is `LookUp` and `Create`, two critical sections with a step in
between. `find_by_name` only tries each lock: it passes over a session that is
locked, and may pass over one that another turn is just pushing to, or a
`compress_all` just looking at, or that either waits for (`Contended`); those
accesses are one step each here, so that they may coincide with the look-up is
a choice of `LookUp`. Without a flash model a Feishu turn ends before it has
a session (`NoProvider`, with a fallback message if there is a client), without
a Feishu client after it has read the history (`ReadHistory`), and without a
message; `up` is what the server has of the two. Otherwise a Feishu turn is
`LookUp`, `Create`, `PushPrompt`, `ReadHistory`, then `Asks` and `RunTool` in
rounds, `Reply`, whose final text may be lost on the way (that is only logged,
and the turn has ended well, `webhook.rs:862-872`), the compression of all
sessions, and `TurnEnds`; `AskFails` is a failed request (also after the model
has replied by itself: the fallback is sent too, and the scheduler may try
again) and `ToolPanics` the unwinding of its task. An answer with calls may have
reasoning or not, and is pushed as it is. An HTTP turn reads the history before
it pushes the prompt, pushes only once the stream has begun (`StreamStarts`),
and its answer only if the stream ends with a usage record (`StreamBreaks`
stands for all other ends). Turns of one `QueueOf` are serial, as `ChatQueue`
makes them; the webhook and the scheduler have a queue each for the same chat.
`torn`, `exposed` and `bare` are history variables: which sessions a compression
or a second turn has caught among the calls of a turn, which names were looked
up while another turn of theirs or a compression of their session was under
way (`Overlapped`), and which answers came without reasoning.

### Tui

The loop of `run` handles one event at a time; each arm of `handle_event` and of
`run` is an action on the head of `events`. `tasks[t]` is the t-th task the
loop has spawned, a turn or an `/init`; `place` is the await it is at. An abort
(`Esc`, or the next line for an `/init`) sets a flag and takes effect at the
next await that has to wait (`Waits`), so an aborted task may still send events.
The end of a turn and the expiry of a question carry their sender
(`StreamDone(t)`, `PromptExpired(t)`), which the code's events do not and no
action looks at; the property `QuestionsKept` does. Aborted tasks, and an `/init`
told to keep AGENTS.md, are in `stray`. A question `<<t, n>>` is in `pending` or in `events`; `Told` is the use or the
drop of its sender. Typed lines are few: an answer, a prompt, and one for each
command that changes state. A line is a prompt when the slot is empty and an
answer when it is not, whenever it was typed: `EnterAnswers` takes what is in
the buffer. To a command any text but "n" and "no" is a yes, as in the code
(`app.rs:1679-1687`). The kinds of commands are two sets: those the
allowlist stops (`Listed`) and those that get the terminal (`Interactive`); one
in both (`sudo rm`) is asked about first and then run by the loop.
`SkipPermissions` and `RequireConfirmation` are the two settings that leave the
question out. The session of the TUI is not in `SessionManager`, so
the compression it starts never changes its history.

### Dsml, ModelClient and CliAgent

A text is a sequence of symbols (a bracket with the marker, a name, white space,
a closing tag, an invocation with its parameters, other text), so that a delta
may end between any two of them. `extract_tool_calls` and `parse_invoke_blocks`
read a whole text, `ingest` and `flush` are the accumulator's; `dropped`
records what it swallows. `ModelClient` chooses how an answer is cut into
frames, whether reasoning comes before it, and when it ends, breaks or brings
the finish reason, which may overtake pieces of the native calls: a call that
lacks its arguments then is `Broken`. `builders` are the native calls under
assembly, `rx` the channel to the caller. `CliAgent` reads
that channel while it is filled, and puts the reasoning it has read into the
messages of the calls (`Called`). A call of `chat` (as `Session::compress`
makes it) is in the same module: `Chat` to `Retry`.

## 3. Runs

| Run | Instance | Shows |
|---|---|---|
| `MCChatQueue.cfg` | one chat, three user messages, one trigger | nothing duplicated or parked (`EveryMessageHasOnePlace`), one refusal per dead consumer, the scheduler is told the truth, order and seriality by refinement, every accepted message settles, the scheduler is never stuck |
| `ChatQueueTwoStatics.cfg` (violation) | same | a trigger and a user message of one chat overlap: `webhook.rs` and `executor.rs` each have their own static queue, although `executor.rs:14` says it is shared |
| `ChatQueueReopened.cfg` (violation) | same | one queue runs two messages of a chat at once, after a leaving consumer has removed its successor's entry |
| `MCTaskScheduler.cfg` | one one-shot and one recurring task, three failures in a row, two faults | no success repeated, failures bounded, deletion final, "running" rows explained, no due task starved |
| `TaskSchedulerPause.cfg` (violation) | same | a task paused after the list was made is executed |
| `MCAcpServer.cfg` | one session, two prompts, the first with up to two tool calls | turns contiguous in the history, consent before execution, the response is the last line, busy only while unanswered, cancels do not leak, a cancelled turn ends, accepted prompts are answered |
| `AcpServerCancel.cfg` (violation) | same | a cancel or close handled between acceptance and `fresh_cancel_token` is lost |
| `MCConversations.cfg` | a chat message and a scheduled task of one chat in two queues, a web request, hourly compressions, any two of all these; with and without a flash model and a client | requests are well formed (outside `torn`) and keep their reasoning, nothing is pushed into a running compression, a name has one session (outside `exposed`), one answer per turn, every turn ends |
| `FeishuHistory.cfg` (violation) | same | without that exception: a compression among the calls of a turn leaves results of no call in the history, which `sanitize_history` does not drop |
| `MCTui.cfg` | three presses of Enter or Esc, five lines, turns with two calls | requests are accepted after any abort, the status returns to idle, questions stay answerable, consent before execution, in the terminal too, one turn at a time, no question is dismissed by the events of another task that was not aborted |
| `MCCliAgent.cfg` | texts of one or two parts and two native calls cut in every way, with or without reasoning | calls and text as in the whole, complete answers only, well-formed requests with their reasoning, every call ends |
| `CliText.cfg` (violation) | same | text before an opening tag is lost when both come in one delta and the closing tag does not |

*Bounds.* Chat queue: the races between a sender and a leaving consumer need
one message that spawns it, one that is refused and one that spawns the next;
a fourth is the trigger, the only kind anyone waits for. Different chats share
nothing but the mutex, so one chat is enough. Scheduler: two tasks are the
least for a list that grows old; three failures stand for the ten of
`MAX_CONSECUTIVE_FAILURES` (a failure, a next one, the last); two faults let a
crash follow a lost write. ACP: two prompts for what passes from one turn to
the next; two calls in the first turn for what passes from one permission to
the next (in one turn or across its rounds: 2 or 1+1); the second turn makes
none. Sessions meet only in `out` and in the registry, where requests have
ids of their own. Conversations: two Feishu turns of one name are the least for
a history left behind by a panic and read by the next turn, for two sessions of
a name and for two turns at a time (they are in two queues, and may come one
after the other as well); `Arrivals` = 2 lets any two of the turns and of the
scheduler's compressions come, so every pair meets; each Feishu turn brings a
compression of its own (362,012 distinct states); one round of two calls has a
place between the calls and one behind them; a limit of two messages makes
every turn outgrow it. TUI: three presses start a turn, answer or abort it, and
start the next beside what is left of it; `MaxQueued` = 0 means a key is
pressed when the channel is empty (the late events of an aborted task still meet
the next one's question), which loses nothing: the loop is the only
reader, and a key handled after earlier events has the effect of one pressed
then. A turn is asked once with calls and once more; the calls of one answer
are an unknown tool and a command that takes the terminal, a command and an
action on the desktop that both need consent, or a command that needs consent
and takes the terminal (945,104 states). CLI: the texts are each of
the seven kinds of part that the parsers tell apart, alone, behind ordinary
text, behind a beginning of a tag and behind a block with two calls; one answer
with calls and one without (193,147 states); the loop of the code has no limit of its own
(`MaxPhases`).

*Fairness.* Weak fairness of each consumer's steps, of the scheduler loop and
of a turn's own steps: tokio polls what is ready, and none of these can be
disabled by another task while it waits. A turn of `ChatQueue` ends because
the model client, shell commands and the number of rounds have limits, and
the Feishu API is taken to answer. `AcpServer` assumes nothing of client,
model or commands in `CancelEndsTurn`; `select!` picks among ready branches at
random, hence weak fairness of `CancelSeen`. `EveryPromptAnswered` has the
assumption on them (`Responsive`) in its own statement. `Conversations` has weak
fairness of the whole next-state relation: each turn and each `compress_all`
takes finitely many steps, so it is enough that something happens while
anything can; a model call has a timeout (`deepseek.rs:232`), so it answers or fails.
`CliAgent` has weak fairness of the agent, of the API's reply to a request and
of the end of a stream, and none of its frames: a stream may end after any.
`Tui` has no liveness property; `QuietIsIdle` states as an invariant what must
be true once everything has settled.

## 4. Proofs

| Theorem | Says |
|---|---|
| `ChatQueueProofs!TypeCorrect`, `OnePlace`, `VerdictCorrect` | `TypeOK`, `EveryMessageHasOnePlace`, `VerdictIsTrueAndFinal` are invariants |
| `ChatQueueProofs!InductiveInvariant` | the invariant they follow from |
| `ChatQueueProofs!Refusals` | `OneRefusalPerDeadConsumer`: a stale entry of the map never turns away a second message |
| `ChatQueueProofs!Refinement` | `Spec => Mailbox` under the mapping (`ImplementsMailbox`) |
| `TaskSchedulerProofs!TypeCorrect`, `RunningOwned`, `NoRepeat`, `GivesUpForGood`, `DeletedForGood` | the scheduler's safety properties |
| `AcpServerProofs!TypeCorrect`, `TurnsDoNotMix`, `CancelsDoNotLeak`, `ConsentGiven`, `ResponseIsLast`, `BusyIsJust` | the ACP agent's safety properties |
| `HistoryProofs!PreparedIsAccepted` | `prepare_for_request` of *any* history is one the API accepts |
| `HistoryProofs!SanitizedIsAccepted` | `sanitize_history` of a *tidy* history is one the API accepts |
| `HistoryProofs!PruneKeeps` | `prune_images` leaves at most the images it is told to |
| `ConversationsProofs!TypeCorrect`, `AtomicCompression`, `OneSession`, `OneAnswer` | `TypeOK`, `CompressionIsAtomic`, `OneSessionPerName`, `AnsweredOnce` are invariants |
| `ConversationsProofs!InductiveInvariant` | the invariant they follow from |
| `ConversationsProofs!ConversationsRequests` | `RequestsComplete` is an invariant |
| `TuiProofs!Consent`, `OneTurnAtATime` | `RunsOnlyWithConsent` is an invariant, `TurnAlone` holds of every step |
| `TuiProofs!InductiveInvariant` | the invariant they follow from |
| `TuiProofs!Reachable`, `Quiet`, `Questions` | `AskedIsReachable` and `QuietIsIdle` are invariants, `QuestionsKept` holds of every step |
| `TuiProofs!ChannelInvariant` | the invariant on the channel they follow from |
| `TuiProofs!TuiRequestsAccepted`, `TuiTypeCorrect` | `RequestsAccepted` and `TypeOK` are invariants |
| `TuiProofs!RequestsInvariant` | what every request is, and how many there are |
| `DsmlProofs!ExtractIs`, `IngestIs` | the recursive parsers are defined for every text, and are what their definitions say |
| `DsmlProofs!NextDelta` | however a text is cut, the accumulator finds what `extract_tool_calls` finds in the whole |
| `CliAgentProofs!TypeCorrect`, `Accepted`, `WholeAnswersRun`, `CallsFound`, `TextShown` | `TypeOK`, `RequestsComplete`, `RunsWholeAnswers`, `CallsOfTheWhole`, `TextOfTheWhole` are invariants |
| `CliAgentProofs!InductiveInvariant` | the invariant they follow from |

They hold for any messages, chats, tasks, sessions and bounds under the named
assumptions: `ChatQueueAssumption` (user messages and triggers are distinct,
each has a chat, `None` is no message), `TaskSchedulerAssumption` (cron tasks
are tasks, the limits are natural numbers, at least one failure is allowed),
`AcpServerAssumption` (the bounds are natural numbers, a session is not a
prompt), `ConversationsAssumption` (the Feishu turns are turns, no turn is
called like the scheduler or a free lock, the answers are sequences of calls,
at least one round is allowed), `TuiAssumption` (lines and calls are of the
known kinds, the bounds are natural numbers), `ClientAssumption` (answers are
texts and calls of the known commands, a call cut short is not one of them, a
frame carries something) and `CliAssumption` (the bound is a natural number). No
proof uses fairness.

*Chat queue.* That a queued message is in one place says nothing of the map,
so it is not inductive: a sender taken from the map could belong to another
chat, or a consumer could be spawned twice. The invariant `IInv` adds how
consumers and messages correspond (a consumer exists only for a message that
was accepted by a spawn, its channel holds messages of its own box and is
empty once the receiver is gone, `current` is set just while busy) and, for a
box that has refused nothing, that at most one consumer has still to
deregister, that it is the one in the map, and that tickets grow along its
channel. The last part is what the refinement needs; it is conditional because
the code breaks it after a refusal (run `ChatQueueReopened.cfg`). That refusals
are at most as many as dead consumers is not inductive either: the next message
could be turned away by the consumer that has turned away one. `RefusalInv`
counts a dead consumer only once it is out of the map; the refusal takes it out.

*Scheduler.* None of the action properties follows from the state the step
starts in alone: the list is older than the rows. The invariant (`ListInv`)
says that whatever is in the list, pending or not yet created can run again:
its retry counter is below the limit and, if it is one-shot, it has not
succeeded. The task in hand is not in the list, and it has succeeded only if
the success is still to be settled.

*ACP agent.* The running flag alone says nothing of who raised it. `IInv`
adds that at most one turn of a session is under way and that the flag is up
just then (`OneTurn`), that this turn is the last in the session's history
(`LastInHistory`), that a token belongs to a turn of its session that has
begun (`TokenOwned`), so that a fresh turn cannot find its token cancelled,
and that the answer in the oneshot of a waiting turn is the client's own
(`ReplyIsConsent`).

*Conversations.* That a locked session is as its compression has read it says
nothing of who may release it: `LockInv` adds that whoever holds a lock has
that session still to do, so that no new list of a worker forgets one. One
session per name needs the turns between the look-up and the creation
(`NamesInv`): a second session is on its way only if `exposed` has its name;
and a session that the look-up passes over belongs to a turn or is in the list of
a worker that the look-up overlaps. One answer per turn needs what each place of a turn has sent so far (`AnswersInv`):
nothing before the first request, replies of the model only until the end, with
`replied_to_user` just if there are any, and one attempt at the final text if
there are none. The three parts share only the types
(`Typing`), and each is carried over a step by lemmas on what a push, a release
and a compression change in one record of `sessions`. For the requests
(`RequestsInv`), a session that is not torn has at most one turn that pushes,
and its history is `Tidy`: every result follows the message that made its
call, in the order of the calls, or was left at the start by a truncation; what
may be missing are the last results of a turn (`SessionOk`). In the middle of a
turn's calls, history and request end with the message that made them and the
results so far (`TurnOk`), so the next result keeps both in order. A panic
leaves a tidy history, and `SanitizedIsAccepted` does the rest. That no reasoning
is lost is an invariant of every message in a session or a request (`KeptInv`).

*TUI.* Neither the status nor `is_finished` alone keeps turns apart. `HandleInv`
says that a turn which has not been aborted is the one in the handle, so that
`MaySubmit` finds none (`SubmitsAlone`); every other step keeps kinds, the
switch of the desktop and the messages (`Kept`). For consent, `SaidInv` ties the
answer a task is about to read to what the user said to that very question:
`Told` gives an answer only to the question it was typed for, and an expiry
or another question gives "nothing". `LeftInv` says that the call acted on is
still the one asked about.

The other properties need to know what is on its way. `Channel` has seven
parts: the shape of every variable (`ShapeInv`); that tasks are started in
order, each by an Enter that was pressed (`StartedInv`); that a question in the
channel or in the slot was asked by its task (`NumbersInv`); that tasks are
alone unless one was aborted (`AloneInv`); that a question which waits is in
the slot or on its way (`AskedIsReachable`), behind everything that could
dismiss it (`AheadInv`); that what makes the status busy is followed by what
clears it, or somebody is still to report (`SettledInv`). What an aborted task has
sent is exempt from the two parts on dismissals and the status, by its sender. The steps are sorted
by what they do to the channel (`TaskStep` and `AppendStep` append an event,
`LoopStep` takes one, `StartStep` starts a task), so that each part is proved once per
kind of step. `QuestionsKept` is `AheadInv` at the head of the channel.
`Requests` says of each request that it is accepted and holds the images it may,
which is `PreparedIsAccepted` and `PruneKeeps` of whatever the session holds.

*Histories.* The repairs fold over a history of any length, and what
they return is proved for all of them although no induction theorem with an
operator parameter can be used: a set of natural numbers that is not empty has
a least element (`Least`), so if some beginning of the history were repaired
wrongly there would be a shortest one, and the step to it is looked at
(`Flattened`). `Least` itself comes from the well-founded order of the finite
sets of natural numbers, which the library states without a parameter.

*Markup.* `parse_invoke_blocks`, `extract_tool_calls` and `ingest_text` call themselves
on what follows a block. They are written as recursive functions, of which TLA+
says nothing until a function with that equation is known to exist:
`RecursionExists` builds one from the solutions for texts up to each length, given
that the body looks at shorter texts only (`FromBelow`). Facts about all texts are
proved by a shortest counterexample (`Shorter`). `Good(s, r)` is what makes the
argument go through: the result r of ingesting s holds back a text in
which no block opens, or one that has not ended (`Held`), and, *with
whatever follows* s, its calls and those of what is held back make up the calls
of the whole, and likewise the text, if none was dropped. `NextDelta` says one more
delta keeps this. The condition on what follows is needed: a beginning of a tag
is text or not depending on it.

*Model client and CLI agent.* `Base` has the types and what each place knows:
only the last builder waits for its other piece, nothing has been streamed
before an answer is accepted, the finish reason ends the text, commands run
when the stream has closed and been read, a broken stream has an error as its
last chunk, and the messages are a request at any time. `StreamInv` is `Good` of
what has arrived and what was sent; once the stream has closed or the finish
reason has come, calls and text sent are those of the whole, and a call
without its arguments is the last (`HalfInv`). `KeptInv` follows the
reasoning from the API through the channel to the messages of the calls.

*Model-checked only.* The liveness properties, which need fairness and `ENABLED`:
`EveryMessageSettles` and `SchedulerNeverStuck` of `ChatQueue`, `DueTaskIsTaken` of
`TaskScheduler`, `CancelEndsTurn` and `EveryPromptAnswered` of `AcpServer`,
`EveryTurnEnds` of `Conversations`, `EveryCallEnds` of `CliAgent`. Every other
property of a run that passes has a theorem.

## 5. What the models show of the code

The findings of `PROJECT.json` are the violated runs. Besides them, each visible
in the definition named:

- *One session per name* is promised by `get_or_create` (`session.rs:526-529`) and
  holds only for names that nobody looks up while another turn of theirs, or a
  compression that comes to their session, is under way (`exposed`):
  `find_by_name` skips a session whose lock it does not get at once
  (`session.rs:519-524`), and look-up and creation are two steps. A message that
  arrives during a compression of its chat starts a new session; which of the two
  later ones find is open.
- *Reasoning*: the code calls it a hard 400 if a message with calls lacks
  `reasoning_content` (`session.rs:356-374`, `deepseek.rs:287-290, 491-494`).
  Only the TUI repairs such messages, by `prepare_for_request`; a Feishu turn
  (`webhook.rs:653-664, 764-774, 788-795`) and the headless agent
  (`arcc-cli/src/lib.rs:217-228`) send them as the answer came. If the model has
  sent calls without reasoning, the next request of that run, and every later one
  of that chat, lacks it. `RequestsComplete` therefore says less than
  `RequestsAccepted` of the TUI: no reasoning is lost that was there (`bare`).
- *The final send of a Feishu turn* may fail; that is logged, and the turn counts
  as a success, to the scheduler too (`Reply`, `webhook.rs:862-872`). So
  `AnsweredOnce` counts what the turn has tried to send.
- *A compression among the calls of a turn* (`torn`) also happens without a
  failure: `compress_all` of any turn, or of the scheduler, takes every session.
  Between the push of a prompt and the read of the history it removes the prompt.
- *HTTP turns* are sent as they are, without `sanitize_history`
  (`ReadAndStart`). That is enough for a session of web turns alone, which holds
  nothing but texts. A web client that names the session of a Feishu chat
  (`routes/chat.rs:68-83`, `session.rs:519`) is sent on with what a turn of the
  chat has left there; `RequestsComplete` excludes such names (`Shared`), and
  `ConversationsRequests` shows that no other exception is needed.
- *TUI*: the end of a compression sets the status to idle in the middle of the
  next turn (`app.rs:337`); Enter is still held back by the `is_finished` test
  (`TurnAlone`), but Esc no longer aborts the turn (`HandleEsc`). Since no line can
  be submitted while a turn runs, `/computer off` cannot take effect in the midst
  of one, which `app.rs:1770-1771`, `app.rs:1960-1962`,
  `docs/spec/computer-use.md:31` and `docs/tutorial/tui-tutorial.md:78` say it does:
  the tests of the switch in each round and call (`Refused`, `NextRequest`) only
  ever see, in a turn that was not aborted, what it was when the turn began (`SubmitComputer`); Esc is what stops a
  round. The run shows no violation of that sentence because there is no step
  that would be one.
- *TUI, aborted tasks*: a turn that Esc has cut short goes on to its next wait, and
  the PromptExpired or StreamDone it sends on the way empties the slot whoever's
  question is in it (an `/init` that was started meanwhile is told "no answer":
  `QuestionsKept` names the sender); the status it sends may stay busy until the
  next Esc, as it does when `/init` is told to keep AGENTS.md (`QuietIsIdle`).
- *TUI, answers*: what is in the input line when a question appears becomes its
  answer with the next Enter, and to a command any text but "n" and "no" is a yes;
  consent in `RunsOnlyWithConsent` includes such a text.
- *Model client*: native calls are lost if the stream ends without
  `finish_reason` "tool_calls" (`StreamEnds`), and one whose arguments the finish
  reason has overtaken is sent with what there is of them, as a string, in which
  the headless agent finds no command and runs an empty one (`Broken`,
  `deepseek.rs:697-701`, `arcc-cli/src/lib.rs:207`); the end of the bytes without
  "[DONE]" is a clean end; `chat_stream` does not try again on 429
  (`StreamRefused`); a complete block without a call is shown by
  `extract_tool_calls` and swallowed by the stream (`dropped`); a tag with
  white space before its ">" is not held back (`Spaced`, `dsml.rs:160-182`),
  although `dsml.rs:5-6` has it that no call is silently dropped.
- *CLI agent*: a tool that fails leaves the JSON status at "ok" (`RunCall`),
  `lib.rs:33` says "partial"; the loop has no limit of rounds.

## 6. What is not modelled

- The order of due tasks by `next_run_at`: reduced to whether it has passed.
- A stored cron expression that does not parse: `schedule_task` validates it,
  so the branch of the loop that marks it failed is not reached. `resume_task`
  has no caller.
- ACP: `initialize`, modes, the model option and malformed lines, answered on
  the spot without touching a turn. The panic for a missing model provider:
  `src/src/main.rs` always registers both.
- Sessions: `remove` and `find` by id, and the copies of sessions, messages and
  summaries in SQLite, which nothing reads back into a session. A message
  counts as one token.
- Feishu: signatures and parsing of events, cards, attachments, the memory
  tools and the token cache. A redelivered event is one more message: the code
  does not recognise it.
- TUI: the line editor, its history and completion, the dashboard, commands
  that only print, and a prompt without a provider. Reasoning has the effect of
  text.
- Model client: serialisation of requests, the pieces of the reasoning (it is one
  chunk; calls in it are dropped), usage, frames behind "[DONE]", the capacity of the channel (128),
  which only delays its writer.
- Drawing, command matching, computer use, memory, configuration: I/O or string
  processing without interacting state. Verdicts on commands and outcomes of
  tools are free inputs of the models.
- The MCP scheduler, whose `health_check` has no caller, and the migrations.

## 7. Plan

The queue, the scheduler and the ACP agent came first, then the sessions, the
TUI, the model client and the CLI agent; their safety properties are proved.
What is left, in this order:

1. `FeishuServer`: `ChatQueue` and `TaskScheduler` composed, the scheduler's
   executor replaced by the queue's; abstract specification: a due task is
   attempted, and at most one attempt of it runs.
2. The MCP scheduler's table of children and the Feishu token cache.
3. Migrations interrupted between two statements.
