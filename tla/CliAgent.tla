------------------------------- MODULE CliAgent -------------------------------
(***************************************************************************)
(* The headless agent (arcc-cli/src/lib.rs, run): it asks the model with   *)
(* the command tool, runs the calls of the answer and asks again, without  *)
(* tools, until an answer has no call.  It reads the answer from the       *)
(* channel of chat_stream (ModelClient) as the task fills it.              *)
(*                                                                         *)
(* A second use of the client is in the same module: a call of chat, as    *)
(* Session::compress makes one.  A run has one or the other.               *)
(***************************************************************************)
EXTENDS ModelClient, History

CONSTANT MaxPhases      \* bound: the answers of the model that have calls

ASSUME CliAssumption == MaxPhases \in Nat

VARIABLES
    place,      \* where the agent is
    phase,      \* the requests it has made
    shown,      \* the text of this answer it has printed
    tool_calls, \* the calls of this answer
    reasoning,  \* reasoning_buf is not empty
    ran,        \* the calls of this answer it has run
    messages,   \* the request it builds
    status,     \* the status it reports
    bare        \* history: the requests answered without reasoning

cliVars == <<place, phase, shown, tool_calls, reasoning, ran, messages, status, bare>>
vars == <<clientVars, cliVars>>

Outcomes == {"ok", "blocked", "error"}

TypeOK ==
    /\ ClientTypeOK
    /\ place \in {"reading", "running", "done", "failed"}
    /\ phase \in 1..(MaxPhases + 1)
    /\ shown \in Seq(Symbols)
    /\ tool_calls \in Seq(Calls) /\ ran \in Seq(Calls)
    /\ reasoning \in BOOLEAN
    /\ status \in {"ok", "partial", "error"}
    /\ bare \subseteq 1..MaxPhases

Init ==
    /\ call \in {"idle", "asked"} /\ delay = 1 /\ attempt = 0
    /\ NothingStreamed
    /\ place = "reading" /\ phase = 1 /\ shown = <<>>
    /\ tool_calls = <<>> /\ reasoning = FALSE /\ ran = <<>> /\ status = "ok"
    /\ messages = <<User>> /\ bare = {}
-----------------------------------------------------------------------------
HasCalls(a) == a.natives # <<>> \/ extract_tool_calls[a.text].calls # <<>>

(* What the model may answer.  Without tools it may still ask for calls.   *)
AnswersNow ==
    {a \in [text : Texts, natives : Natives] :
        /\ phase > 1 => a.natives = <<>>
        /\ phase > MaxPhases => ~HasCalls(a)}

Client ==
    /\ ChatNext \/ StreamAccepted(AnswersNow) \/ StreamRefused \/ StreamNext
    /\ UNCHANGED cliVars

(* chat_stream has returned an error. *)
AskFails ==
    /\ place = "reading" /\ call = "refused"
    /\ place' = "failed" /\ status' = "error"
    /\ UNCHANGED <<clientVars, phase, shown, tool_calls, reasoning, ran, messages, bare>>

ErrorIgnored == UNCHANGED <<place, shown, tool_calls, reasoning, status>>

ErrorTaken ==
    /\ place' = "failed" /\ status' = "error"
    /\ UNCHANGED <<shown, tool_calls, reasoning>>

(* A chunk: text is printed, a call or the reasoning is kept, an error     *)
(* ends the run.                                                           *)
TakeChunk ==
    /\ place = "reading" /\ rx # <<>>
    /\ rx' = Tail(rx)
    /\ LET chunk == Head(rx) IN
       \/ /\ chunk.kind = "Content"
          /\ shown' = shown \o chunk.text
          /\ UNCHANGED <<place, tool_calls, reasoning, status>>
       \/ /\ chunk.kind = "ToolCallStart"
          /\ tool_calls' = Append(tool_calls, chunk.command)
          /\ UNCHANGED <<place, shown, reasoning, status>>
       \/ /\ chunk.kind = "Reasoning"
          /\ reasoning' = TRUE
          /\ UNCHANGED <<place, shown, tool_calls, status>>
       \/ /\ chunk.kind = "Err"
          /\ ErrorTaken
    /\ UNCHANGED <<call, retryVars, arrivedVars, builders, dsml_acc, finished, dropped>>
    /\ UNCHANGED <<phase, ran, messages, bare>>

(* The channel is closed and empty: the answer is complete.                *)
AnswerTaken ==
    /\ place = "reading" /\ call \in {"closed", "broken"} /\ rx = <<>>
    /\ place' = IF tool_calls = <<>> THEN "done" ELSE "running"
    /\ UNCHANGED <<clientVars, phase, shown, tool_calls, reasoning, ran, messages, status, bare>>

Called(id, reason) == [Assistant(<<id>>) EXCEPT !.reason = reason]

FollowUpOnSuccess(id, reason, outcome) ==
    IF outcome = "ok" THEN <<Called(id, reason), Result(id)>> ELSE <<Called(id, reason)>>

(* The messages of a call: one of the assistant, with the reasoning of the *)
(* answer if it had any, and the output or error.                          *)
FollowUp(id, reason, outcome) == <<Called(id, reason), Result(id)>>

(* execute_command for one call. *)
RunCall ==
    /\ place = "running" /\ Len(ran) < Len(tool_calls)
    /\ ran' = Append(ran, tool_calls[Len(ran) + 1])
    /\ \E outcome \in Outcomes :
          /\ messages' = messages \o FollowUp(<<phase, Len(ran) + 1>>, reasoning, outcome)
          /\ status' = IF outcome = "blocked" THEN "partial" ELSE status
    /\ UNCHANGED <<clientVars, place, phase, shown, tool_calls, reasoning, bare>>

(* All have run: the next request. *)
AskAgain ==
    /\ place = "running" /\ Len(ran) = Len(tool_calls)
    /\ phase <= MaxPhases               \* bound, as in AnswersNow
    /\ place' = "reading" /\ phase' = phase + 1
    /\ call' = "asked"
    /\ answer' = NoAnswer /\ received' = 0 /\ pieces' = 0 /\ reasoned' = FALSE
    /\ builders' = <<>> /\ dsml_acc' = EmptyAccumulator /\ finished' = FALSE
    /\ dropped' = <<>> /\ rx' = <<>>
    /\ shown' = <<>> /\ tool_calls' = <<>> /\ reasoning' = FALSE /\ ran' = <<>>
    /\ bare' = IF reasoned THEN bare ELSE bare \cup {phase}
    /\ UNCHANGED <<retryVars, messages, status>>

Agent == AskFails \/ TakeChunk \/ AnswerTaken \/ RunCall \/ AskAgain

Next == Client \/ Agent

Spec == Init /\ [][Next]_vars

(* The client and the agent are scheduled; the API answers each request,   *)
(* and every stream it sends comes to its end.                             *)
ApiAnswers == (ChatNext \/ StreamAccepted(AnswersNow) \/ StreamRefused) /\ UNCHANGED cliVars
AnswerEnds == (StreamEnds \/ StreamBreaks) /\ UNCHANGED cliVars

FairSpec ==
    Spec /\ WF_vars(ApiAnswers) /\ WF_vars(AnswerEnds) /\ WF_vars(Agent)
-----------------------------------------------------------------------------
(* The calls and the text that chunks carry. *)
CallsIn(cs) ==
    FlattenSeq([i \in DOMAIN cs |-> IF cs[i].kind = "ToolCallStart" THEN <<cs[i].command>> ELSE <<>>])
TextIn(cs) ==
    FlattenSeq([i \in DOMAIN cs |-> IF cs[i].kind = "Content" THEN cs[i].text ELSE <<>>])

(* The calls the agent has, or will read; the text it has shown, or will.  *)
CallsSent == tool_calls \o CallsIn(rx)
TextSent == shown \o TextIn(rx)

CallsOf(text) == extract_tool_calls[text].calls
TextOf(text) == extract_tool_calls[text].cleaned

EndedWell == call = "closed"

(* However the answer is cut into frames, the calls that come out of it    *)
(* are those of the text as a whole, each once and in order, and then, if  *)
(* the finish reason has come, the native ones that had arrived: at any    *)
(* time a beginning of them, at the end of the stream all.                 *)
CallsOfTheWhole ==
    ~Spaced(answer.text) =>
        LET whole == CallsOf(Arrived) \o (IF finished THEN NativesArrived ELSE <<>>) IN
        /\ IsPrefix(CallsSent, whole)
        /\ EndedWell => CallsSent = whole

(* What is shown as the answer arrives is a beginning of the text without  *)
(* its calls, never a part of a call, and in the end all of it, unless the *)
(* accumulator has dropped some.                                           *)
TextOfTheWhole ==
    ~Spaced(answer.text) /\ dropped = <<>> =>
        /\ IsPrefix(TextSent, TextOf(Arrived))
        /\ EndedWell => TextSent = TextOf(Arrived)

(* "emit_content: clean text safe to surface to the user", "Stitch:        *)
(* prefix_content (before DSML) + suffix (after DSML)": the text around    *)
(* the calls is shown, when every block is complete and has a call.        *)
TextIsKept ==
    /\ ~Spaced(answer.text) /\ EndedWell
    /\ \A p \in DOMAIN TextOf(Arrived) : TextOf(Arrived)[p] = "t"
    => TextSent = TextOf(Arrived)

(* A command runs only once its answer is complete: the stream has ended   *)
(* by itself, and what it sent has been read; and each runs once, in the   *)
(* order of the answer.  One that lacks its arguments (it runs as an empty *)
(* command) is the last, and the finish reason has come before they did.   *)
RunsWholeAnswers ==
    ran # <<>> =>
        /\ EndedWell /\ rx = <<>>
        /\ IsPrefix(ran, tool_calls)
        /\ \A i \in DOMAIN ran :
              ran[i] = Broken => i = Len(tool_calls) /\ finished /\ HalfCall

(* Every request is well formed, and no reasoning is lost: calls are sent  *)
(* without it only if their answer had none.  (That the API rejects those, *)
(* and that nothing repairs them here, is in section 5 of the README.)     *)
RequestsComplete ==
    call = "asked" =>
        /\ WellFormed(messages)
        /\ \A i \in DOMAIN messages :
              messages[i].calls # <<>> /\ ~messages[i].reason => messages[i].calls[1][1] \in bare

(* A call of the client comes to an end, and so does the agent. *)
EveryCallEnds == <>[](call \in {"answered", "failed"} \/ place \in {"done", "failed"})
=============================================================================
