----------------------------- MODULE AcpServer ------------------------------
(***************************************************************************)
(* The ACP agent (arcc-acp): a JSON-RPC server on stdin and stdout.  One   *)
(* loop reads the client's lines and handles each before the next; only    *)
(* the turn of a session/prompt runs in a task of its own (run_prompt),    *)
(* and it alone waits: for the model, for a command, for the client's      *)
(* permission.  All lines to the client go through one FIFO channel.       *)
(*                                                                         *)
(* A prompt <<s, n>> is the n-th session/prompt request of session s.  A   *)
(* cancellation token is named by the prompt whose turn made it, the first *)
(* token of a session by the session.  A turn asks for one permission at a *)
(* time, so a permission request is named by its prompt.                   *)
(*                                                                         *)
(* Chunks, commands and results are left out: an update line stands for    *)
(* all that a step sends, a message of the history for its turn.           *)
(***************************************************************************)
EXTENDS Naturals, Sequences, FiniteSets

CONSTANTS Sessions,
          MaxPrompts,  \* bound: prompts the client sends per session
          MaxCalls     \* bound: tool calls the model makes in the n-th turn of a session

ASSUME AcpServerAssumption ==
    /\ MaxPrompts \in Nat
    /\ MaxCalls \in [1..MaxPrompts -> Nat]
    /\ Sessions \cap (Sessions \X (1..MaxPrompts)) = {}

Prompts == Sessions \X (1..MaxPrompts)
Of(p) == p[1]
CallsOf(p) == 0..MaxCalls[p[2]]

VARIABLES
    stage,       \* "reading", then "closing" once stdin is closed, then "gone"
    session,     \* whether a session is registered
    running,     \* the running flag of each session
    token,       \* the cancellation token each session's handle holds
    cancelled,   \* the tokens that are cancelled
    pc,          \* where the turn of each prompt is
    left,        \* tool calls of the current answer not yet dealt with
    used,        \* tool calls the model has made in the turn
    registered,  \* permission requests in the registry (PermRegistry)
    reply,       \* what the oneshot of the turn's permission request holds
    history,     \* per session: the turns that have pushed messages, in order of a first
                 \* push, with a further entry for a turn pushing after another one
    out,         \* lines sent and not yet read by the client
    asked,       \* permission requests the client has read and not answered
    consent,     \* history: turns whose last permission request the client has allowed
    told,        \* history: turns in flight when a cancel or close of their session was handled
    responded    \* history: prompts to which a response has been sent

vars == <<stage, session, running, token, cancelled, pc, left, used, registered,
          reply, history, out, asked, consent, told, responded>>
sessionVars == <<session, running, token, cancelled, told>>
askVars == <<registered, reply, asked, consent>>
callVars == <<left, used>>

(* A turn that awaits something selects on its cancellation token. *)
Awaiting == {"streaming", "asking", "executing"}

(* From the spawn of the turn until it gives up the running flag. *)
InTurn == Awaiting \cup {"accepted", "calling", "registered", "finished"}

Stages == {"unsent", "busy", "refused", "released", "answered", "dropped"} \cup InTurn

TypeOK ==
    /\ stage \in {"reading", "closing", "gone"}
    /\ session \in [Sessions -> {"unborn", "live", "closed"}]
    /\ running \in [Sessions -> BOOLEAN]
    /\ token \in [Sessions -> Sessions \cup Prompts]
    /\ cancelled \subseteq Sessions \cup Prompts
    /\ pc \in [Prompts -> Stages]
    /\ left \in [Prompts -> Nat] /\ used \in [Prompts -> Nat]
    /\ \A p \in Prompts : left[p] \in CallsOf(p) /\ used[p] \in CallsOf(p)
    /\ registered \subseteq Prompts
    /\ reply \in [Prompts -> {"none", "allow", "reject", "null"}]
    /\ history \in [Sessions -> Seq(Prompts)]
    /\ out \in Seq({"update", "ask", "response"} \X Prompts)
    /\ asked \subseteq Prompts
    /\ consent \subseteq Prompts
    /\ told \subseteq Prompts
    /\ responded \subseteq Prompts

Init ==
    /\ stage = "reading"
    /\ session = [s \in Sessions |-> "unborn"]
    /\ running = [s \in Sessions |-> FALSE]
    /\ token = [s \in Sessions |-> s]
    /\ cancelled = {}
    /\ pc = [p \in Prompts |-> "unsent"]
    /\ left = [p \in Prompts |-> 0]
    /\ used = [p \in Prompts |-> 0]
    /\ registered = {}
    /\ reply = [p \in Prompts |-> "none"]
    /\ history = [s \in Sessions |-> <<>>]
    /\ out = <<>>
    /\ asked = {}
    /\ consent = {}
    /\ told = {}
    /\ responded = {}

Goto(p, where) == pc' = [pc EXCEPT ![p] = where]

(* Updates of a turn that follow each other are one line. *)
Send(kind, p) ==
    out' = IF kind = "update" /\ out # <<>> /\ out[Len(out)] = <<kind, p>>
           THEN out ELSE Append(out, <<kind, p>>)

Respond(p) == Send("response", p) /\ responded' = responded \cup {p}

(* The turn of p pushes a message to the history of its session. *)
Push(p) ==
    LET h == history[Of(p)] IN
    history' = [history EXCEPT ![Of(p)] =
                  IF h # <<>> /\ h[Len(h)] = p THEN h ELSE Append(h, p)]
-----------------------------------------------------------------------------
(* The read loop. *)

NewSession(s) ==
    /\ stage = "reading"
    /\ session[s] = "unborn"
    /\ session' = [session EXCEPT ![s] = "live"]
    /\ UNCHANGED <<stage, running, token, cancelled, told, pc, callVars, askVars,
                   history, out, responded>>

(* The client sends its prompts in order, to sessions that it was told of. *)
Sends(p) ==
    /\ stage = "reading"
    /\ pc[p] = "unsent"
    /\ session[Of(p)] # "unborn"
    /\ \A n \in 1..(p[2] - 1) : pc[<<Of(p), n>>] # "unsent"

(* Mutant: the running flag is looked at but not taken. *)
PromptAcceptedUnflagged(p) ==
    /\ Sends(p)
    /\ session[Of(p)] = "live"
    /\ ~running[Of(p)]
    /\ Goto(p, "accepted")
    /\ UNCHANGED <<stage, sessionVars, callVars, askVars, history, out, responded>>

PromptAccepted(p) ==
    /\ Sends(p)
    /\ session[Of(p)] = "live"
    /\ ~running[Of(p)]
    /\ running' = [running EXCEPT ![Of(p)] = TRUE]
    /\ Goto(p, "accepted")
    /\ UNCHANGED <<stage, session, token, cancelled, told, callVars, askVars,
                   history, out, responded>>

(* The flag was taken already. *)
PromptBusy(p) ==
    /\ Sends(p)
    /\ session[Of(p)] = "live"
    /\ running[Of(p)]
    /\ Goto(p, "busy")
    /\ Respond(p)
    /\ UNCHANGED <<stage, sessionVars, callVars, askVars, history>>

(* No such session, or (the flag is given back at once) no text in the prompt. *)
PromptRefused(p) ==
    /\ Sends(p)
    /\ session[Of(p)] = "closed" \/ ~running[Of(p)]
    /\ Goto(p, "refused")
    /\ Respond(p)
    /\ UNCHANGED <<stage, sessionVars, callVars, askVars, history>>

InFlight(s) == {p \in Prompts : Of(p) = s /\ pc[p] \in InTurn}

CancelToken(s) ==
    /\ cancelled' = cancelled \cup {token[s]}
    /\ told' = told \cup InFlight(s)

(* Mutant: the handler answers the prompt it cancels. *)
CancelAnswers(s) ==
    /\ stage = "reading"
    /\ session[s] = "live"
    /\ CancelToken(s)
    /\ IF token[s] \in InFlight(s) THEN Respond(token[s]) ELSE UNCHANGED <<out, responded>>
    /\ UNCHANGED <<stage, session, running, token, pc, callVars, askVars, history>>

(* session/cancel: cancel the token the handle holds at the moment. *)
Cancel(s) ==
    /\ stage = "reading"
    /\ session[s] = "live"
    /\ CancelToken(s)
    /\ UNCHANGED <<stage, session, running, token, pc, callVars, askVars, history,
                   out, responded>>

(* session/close: forget the session, then the same. *)
Close(s) ==
    /\ stage = "reading"
    /\ session[s] = "live"
    /\ session' = [session EXCEPT ![s] = "closed"]
    /\ CancelToken(s)
    /\ UNCHANGED <<stage, running, token, pc, callVars, askVars, history, out, responded>>

(* The client answers a permission request: the read loop takes its entry off the *)
(* registry and fires the oneshot, in vain if the turn has stopped waiting.       *)
Resolve(p, answer) ==
    /\ stage = "reading"
    /\ p \in asked
    /\ asked' = asked \ {p}
    /\ registered' = registered \ {p}
    /\ reply' = [reply EXCEPT ![p] = IF p \in registered THEN answer ELSE @]
    /\ consent' = IF answer = "allow" THEN consent \cup {p} ELSE consent
    /\ UNCHANGED <<stage, sessionVars, pc, callVars, history, out, responded>>

(* stdin closes: every registered request gets a null answer (cancel_all). *)
CloseStdin ==
    /\ stage = "reading"
    /\ stage' = "closing"
    /\ reply' = [p \in Prompts |-> IF p \in registered THEN "null" ELSE reply[p]]
    /\ registered' = {}
    /\ UNCHANGED <<sessionVars, pc, callVars, history, out, asked, consent, responded>>

(* run returns, and with it main: the runtime drops the turns where they are. *)
Exit ==
    /\ stage = "closing"
    /\ stage' = "gone"
    /\ pc' = [p \in Prompts |-> IF pc[p] \in InTurn \cup {"released"} THEN "dropped"
                                                                     ELSE pc[p]]
    /\ UNCHANGED <<sessionVars, callVars, askVars, history, out, responded>>
-----------------------------------------------------------------------------
(* The turn of a prompt. *)

(* Mutant: a turn goes on using the token the handle has. *)
BeginKeepsToken(p) ==
    /\ pc[p] = "accepted"
    /\ token' = [token EXCEPT ![Of(p)] = p]
    /\ cancelled' = IF token[Of(p)] \in cancelled THEN cancelled \cup {p} ELSE cancelled
    /\ Push(p)
    /\ Goto(p, "streaming")
    /\ UNCHANGED <<stage, session, running, told, callVars, askVars, out, responded>>

(* A fresh token, the user message, the request to the model. *)
Begin(p) ==
    /\ pc[p] = "accepted"
    /\ token' = [token EXCEPT ![Of(p)] = p]
    /\ Push(p)
    /\ Goto(p, "streaming")
    /\ UNCHANGED <<stage, session, running, cancelled, told, callVars, askVars,
                   out, responded>>

(* The model's answer is complete, with n tool calls. *)
StreamEnds(p, n) ==
    /\ pc[p] = "streaming"
    /\ used[p] + n \in CallsOf(p)
    /\ used' = [used EXCEPT ![p] = @ + n]
    /\ left' = [left EXCEPT ![p] = n]
    /\ Push(p)
    /\ Send("update", p)
    /\ Goto(p, IF n = 0 THEN "finished" ELSE "calling")
    /\ UNCHANGED <<stage, sessionVars, askVars, responded>>

(* The request or the stream fails: nothing of the answer is kept. *)
StreamFails(p) ==
    /\ pc[p] = "streaming"
    /\ Send("update", p)
    /\ Goto(p, "finished")
    /\ UNCHANGED <<stage, sessionVars, callVars, askVars, history, responded>>

(* The next call needs no confirmation. *)
RunUnasked(p) ==
    /\ pc[p] = "calling"
    /\ Send("update", p)
    /\ Goto(p, "executing")
    /\ UNCHANGED <<stage, sessionVars, callVars, askVars, history, responded>>

(* Mutant: the request is sent before it is registered. *)
AskThenRegister(p) ==
    \/ /\ pc[p] = "calling"
       /\ reply' = [reply EXCEPT ![p] = "none"]
       /\ consent' = consent \ {p}
       /\ Send("ask", p)
       /\ Goto(p, "registered")
       /\ UNCHANGED <<stage, sessionVars, callVars, registered, asked, history, responded>>
    \/ /\ pc[p] = "registered"
       /\ registered' = registered \cup {p}
       /\ Goto(p, "asking")
       /\ UNCHANGED <<stage, sessionVars, callVars, reply, asked, consent, history,
                      out, responded>>

(* The next call needs confirmation: register a request, then send it. *)
RequestPermission(p) ==
    \/ /\ pc[p] = "calling"
       /\ registered' = registered \cup {p}
       /\ reply' = [reply EXCEPT ![p] = "none"]
       /\ consent' = consent \ {p}
       /\ Send("update", p)
       /\ Goto(p, "registered")
       /\ UNCHANGED <<stage, sessionVars, callVars, asked, history, responded>>
    \/ /\ pc[p] = "registered"
       /\ Send("ask", p)
       /\ Goto(p, "asking")
       /\ UNCHANGED <<stage, sessionVars, callVars, askVars, history, responded>>

(* Mutant: one call too many. *)
CallDoneOneMore(p) ==
    /\ left' = [left EXCEPT ![p] = @ - 1]
    /\ Push(p)
    /\ Send("update", p)
    /\ Goto(p, IF left[p] = 0 THEN "streaming" ELSE "calling")
    /\ UNCHANGED used

(* The call is dealt with: its result is pushed, and the next call or, after the *)
(* last one, the model takes over.                                               *)
CallDone(p) ==
    /\ left' = [left EXCEPT ![p] = @ - 1]
    /\ Push(p)
    /\ Send("update", p)
    /\ Goto(p, IF left[p] = 1 THEN "streaming" ELSE "calling")
    /\ UNCHANGED used

(* Mutant: whatever does not say reject is permission. *)
PermissionReadLenient(p) ==
    /\ pc[p] = "asking"
    /\ reply[p] # "none"
    /\ IF reply[p] # "reject" THEN /\ Send("update", p)
                                   /\ Goto(p, "executing")
                                   /\ UNCHANGED <<callVars, history>>
                              ELSE CallDone(p)
    /\ UNCHANGED <<stage, sessionVars, askVars, responded>>

(* The answer arrives: execute the command, or push its rejection. *)
PermissionRead(p) ==
    /\ pc[p] = "asking"
    /\ reply[p] # "none"
    /\ IF reply[p] = "allow" THEN /\ Send("update", p)
                                  /\ Goto(p, "executing")
                                  /\ UNCHANGED <<callVars, history>>
                             ELSE CallDone(p)
    /\ UNCHANGED <<stage, sessionVars, askVars, responded>>

(* The command has ended, well or badly, or run into its timeout. *)
ExecutionEnds(p) ==
    /\ pc[p] = "executing"
    /\ CallDone(p)
    /\ UNCHANGED <<stage, sessionVars, askVars, responded>>

(* Mutant: waiting for permission does not select on the token. *)
CancelSeenUnlessAsking(p) ==
    /\ pc[p] \in Awaiting \ {"asking"}
    /\ p \in cancelled
    /\ Goto(p, "finished")
    /\ UNCHANGED <<stage, sessionVars, callVars, askVars, history, out, responded>>

(* A turn that awaits finds its token cancelled.  Its permission request, if it *)
(* has one, stays in the registry.                                              *)
CancelSeen(p) ==
    /\ pc[p] \in Awaiting
    /\ p \in cancelled
    /\ Goto(p, "finished")
    /\ UNCHANGED <<stage, sessionVars, callVars, askVars, history, out, responded>>

(* Mutant: the response goes out before the flag is given up. *)
FinishRespondsFirst(p) ==
    \/ /\ pc[p] = "finished"
       /\ Respond(p)
       /\ Goto(p, "released")
       /\ UNCHANGED <<stage, sessionVars, callVars, askVars, history>>
    \/ /\ pc[p] = "released"
       /\ running' = [running EXCEPT ![Of(p)] = FALSE]
       /\ Goto(p, "answered")
       /\ UNCHANGED <<stage, session, token, cancelled, told, callVars, askVars,
                      history, out, responded>>

(* run_prompt has returned: give up the running flag, then respond. *)
Finish(p) ==
    \/ /\ pc[p] = "finished"
       /\ running' = [running EXCEPT ![Of(p)] = FALSE]
       /\ Goto(p, "released")
       /\ UNCHANGED <<stage, session, token, cancelled, told, callVars, askVars,
                      history, out, responded>>
    \/ /\ pc[p] = "released"
       /\ Respond(p)
       /\ Goto(p, "answered")
       /\ UNCHANGED <<stage, sessionVars, callVars, askVars, history>>
-----------------------------------------------------------------------------
(* The client reads the next line. *)
Deliver ==
    /\ stage # "gone"
    /\ out # <<>>
    /\ out' = Tail(out)
    /\ asked' = IF Head(out)[1] = "ask" THEN asked \cup {Head(out)[2]} ELSE asked
    /\ UNCHANGED <<stage, sessionVars, pc, callVars, registered, reply, history,
                   consent, responded>>

(* The agent is gone; what it has still said is of no consequence to it. *)
Rest == stage = "gone" /\ UNCHANGED vars

ReadLoop ==
    \/ \E s \in Sessions : NewSession(s) \/ Cancel(s) \/ Close(s)
    \/ \E p \in Prompts : PromptAccepted(p) \/ PromptBusy(p) \/ PromptRefused(p)
    \/ \E p \in Prompts, answer \in {"allow", "reject"} : Resolve(p, answer)
    \/ CloseStdin
    \/ Exit

(* What a turn does as soon as it is polled, and what it waits for. *)
Proceed(p) == \/ Begin(p) \/ RunUnasked(p) \/ RequestPermission(p)
              \/ PermissionRead(p) \/ Finish(p)

ModelAnswers(p) == (\E n \in CallsOf(p) : StreamEnds(p, n)) \/ StreamFails(p)

Turn(p) == Proceed(p) \/ CancelSeen(p) \/ ModelAnswers(p) \/ ExecutionEnds(p)

Next == ReadLoop \/ (\E p \in Prompts : Turn(p)) \/ Deliver \/ Rest

(* The runtime polls a turn that can go on; select! picks among ready branches at *)
(* random, so a cancelled token is not overlooked for ever.  Nothing is assumed   *)
(* of the client, the model or a command.                                         *)
Spec == /\ Init /\ [][Next]_vars
        /\ \A p \in Prompts : WF_vars(Proceed(p)) /\ WF_vars(CancelSeen(p))

(* The model answers (its client has timeouts), a command ends (it has one too), *)
(* the client reads its lines and answers the permission requests.               *)
Responsive ==
    /\ \A p \in Prompts : /\ WF_vars(ModelAnswers(p))
                          /\ WF_vars(ExecutionEnds(p))
                          /\ WF_vars(\E answer \in {"allow", "reject"} : Resolve(p, answer))
    /\ WF_vars(Deliver)
-----------------------------------------------------------------------------
(* The messages of a turn are not mixed with those of another turn of the      *)
(* session: after a turn has pushed its first message, no other turn pushes    *)
(* one until it is over.  (The running flag, lib.rs:228 and :278.)             *)
TurnsAreContiguous ==
    \A s \in Sessions : \A i, j \in 1..Len(history[s]) :
        history[s][i] = history[s][j] => i = j

(* A command for which permission was asked is executed only if the client has *)
(* allowed this very command: an earlier consent, a null answer on shutdown or *)
(* a cancelled dialogue will not do.  (request_permission, cancel_all.)        *)
ConsentBeforeExecution ==
    [][\A p \in Prompts :
          pc[p] = "asking" /\ pc'[p] = "executing" => p \in consent]_vars

(* The response to a prompt is the last line sent about it, and the only       *)
(* response.  (The spawned task responds when run_prompt has returned.)        *)
NothingAfterResponse ==
    [][Len(out') > Len(out) => out'[Len(out')][2] \notin responded]_vars

(* A prompt is turned away as busy only while an earlier prompt of the session *)
(* awaits its response: a client that waits for the response is not refused.   *)
(* (The order of release and response, lib.rs:276-283.)                        *)
BusyMeansUnanswered ==
    [][\A p \in Prompts : pc[p] # "busy" /\ pc'[p] = "busy" =>
          \E q \in Prompts : /\ Of(q) = Of(p)
                             /\ pc[q] \in InTurn
                             /\ q \notin responded]_vars

(* A cancel never leaks into another turn: a turn is cancelled only by a cancel *)
(* or close that came while it was in flight.  (fresh_cancel_token.)            *)
CancelHitsOnlyItsTurn ==
    \A p \in Prompts : pc[p] \in Awaiting /\ p \in cancelled => p \in told

(* Once its token is cancelled a turn ends, whatever it awaits, even if neither *)
(* the model nor the command nor the client ever does anything again.           *)
CancelEndsTurn ==
    \A p \in Prompts : p \in cancelled ~> p \in responded \/ stage # "reading"

(* Every accepted prompt is answered unless stdin closes first, if model,       *)
(* commands and client do their part: no permission answer is lost on its way   *)
(* to the turn that awaits it.                                                  *)
EveryPromptAnswered ==
    Responsive => \A p \in Prompts :
        pc[p] = "accepted" ~> p \in responded \/ stage # "reading"

(* What session.rs:22-25 and :50 say of session/cancel and session/close: they *)
(* cancel the prompt that is in flight.                                        *)
CancelHitsInFlightPrompt ==
    \A p \in Prompts : pc[p] \in Awaiting /\ p \in told => p \in cancelled
=============================================================================
