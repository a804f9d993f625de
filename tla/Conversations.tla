---------------------------- MODULE Conversations ----------------------------
(***************************************************************************)
(* The server's conversations: the sessions SessionManager keeps, the two  *)
(* kinds of turns that use them, process_feishu_chat (webhook.rs) and the  *)
(* POST /chat handler (routes/chat.rs), and compress_all, which each       *)
(* Feishu turn runs at its end and the scheduler once an hour.             *)
(*                                                                         *)
(* Each session has a read-write lock, held for one access by a turn but   *)
(* across the call to the flash model by a compression; find_by_name       *)
(* cannot see a session that is locked or that a writer waits for.  A chat *)
(* queue runs its turns one after the other; the webhook and the scheduler *)
(* have one each for the same chat.  A turn may panic in a tool.           *)
(*                                                                         *)
(* Replies and texts are left out, but for who has been answered.          *)
(***************************************************************************)
EXTENDS History

CONSTANTS Turns,       \* the turns that may come
          FeishuTurns, \* those of them that come from Feishu
          NameOf,      \* the chat_id or session_id of each
          QueueOf,     \* the queue each waits in
          Answers,     \* bound: the sequences of calls the model may answer with
          MaxRounds,   \* MAX_TOOL_ROUNDS
          Limit,       \* context_max_tokens, in messages
          Arrivals     \* bound: the turns that come and the compressions that
                       \* the scheduler runs

(* The names that turns of both kinds use: nothing keeps a web client from *)
(* naming a Feishu chat.                                                   *)
Shared == {NameOf[t] : t \in FeishuTurns} \cap {NameOf[t] : t \in Turns \ FeishuTurns}

Scheduler == "scheduler"
Workers == Turns \cup {Scheduler}            \* those that run compress_all
Free == "free"

ASSUME ConversationsAssumption ==
    /\ FeishuTurns \subseteq Turns /\ {Scheduler, Free} \cap Turns = {}
    /\ Answers \subseteq Seq({"reply", "tool"})
    /\ MaxRounds \in Nat \ {0} /\ Limit \in Nat /\ Arrivals \in Nat

VARIABLES
    sessions,   \* the sessions, in the order of their creation
    lock,       \* the worker that compresses each, or Free
    place,      \* where each turn is
    session,    \* the session of each, or 0
    messages,   \* the request it builds, has sent or may still add to
    left,       \* the calls it has yet to run
    rounds,     \* tool_rounds
    replied,    \* replied_to_user
    todo,       \* the sessions each worker has yet to look at
    hours,      \* compressions the scheduler has begun
    prompted,   \* history: what each locked session's compression has read
    torn,       \* history: sessions a compression or two turns have torn
    exposed,    \* history: names looked up while their session was in use
    bare,       \* history: calls that have come without reasoning
    answers,    \* history: what each turn has sent to the user
    up          \* what the server was started with: a flash model, a client

vars == <<sessions, lock, place, session, messages, left, rounds, replied, todo, hours,
          prompted, torn, exposed, bare, answers, up>>
notes == <<torn, exposed, bare, up>>
turnVars == <<place, session, messages, left, rounds, replied, answers>>
compressVars == <<todo, hours, prompted>>

Places == {"new", "create", "push", "read", "start", "ask", "calls", "reply", "compress",
           "stream", "over", "failed", "panicked"}
Ended == {"over", "failed", "panicked"}
Live(t) == place[t] \notin Ended \cup {"new"}

TypeOK ==
    /\ DOMAIN lock = DOMAIN sessions
    /\ \A s \in DOMAIN sessions :
          /\ sessions[s].name \in {NameOf[t] : t \in Turns}
          /\ lock[s] \in Workers \cup {Free}
          /\ lock[s] # Free => s \in todo[lock[s]]
    /\ place \in [Turns -> Places]
    /\ session \in [Turns -> 0..Len(sessions)]
    /\ rounds \in [Turns -> 0..MaxRounds]
    /\ replied \in [Turns -> BOOLEAN]
    /\ todo \in [Workers -> SUBSET (DOMAIN sessions)]
    /\ hours \in Nat
    /\ torn \subseteq DOMAIN sessions /\ exposed \subseteq {NameOf[t] : t \in Turns}
    /\ up \subseteq {"flash", "client"}
    /\ \A t \in Turns : place[t] = "calls" => left[t] # <<>> /\ rounds[t] < MaxRounds

Init ==
    /\ sessions = <<>> /\ lock = <<>> /\ prompted = <<>>
    /\ place = [t \in Turns |-> "new"]
    /\ session = [t \in Turns |-> 0]
    /\ messages = [t \in Turns |-> <<>>]
    /\ left = [t \in Turns |-> <<>>]
    /\ rounds = [t \in Turns |-> 0]
    /\ replied = [t \in Turns |-> FALSE]
    /\ todo = [w \in Workers |-> {}]
    /\ hours = 0
    /\ torn = {} /\ exposed = {} /\ bare = {}
    /\ up \in SUBSET {"flash", "client"}
    /\ answers = [t \in Turns |-> <<>>]

Goto(t, p) == place' = [place EXCEPT ![t] = p]

(* Mutant: the lock is not looked at. *)
PushUnlocked(t, m) ==
    /\ sessions' = [sessions EXCEPT ![session[t]].msgs = Append(@, m)]
    /\ UNCHANGED lock

(* m is pushed to the session of t, as soon as nobody has locked it. *)
Push(t, m) ==
    /\ lock[session[t]] = Free
    /\ sessions' = [sessions EXCEPT ![session[t]].msgs = Append(@, m)]
    /\ UNCHANGED lock

(* The Feishu turns that still push to session s, and those of them that   *)
(* may have pushed calls without all results.                              *)
Pushing(s) == {t \in FeishuTurns : session[t] = s /\ place[t] \in
                  {"push", "read", "ask", "calls"}}
Calling(s) == {t \in Pushing(s) : place[t] = "calls"}
-----------------------------------------------------------------------------
(* get_or_create: find_by_name, and, in a second step, create. *)

Named(name) == {s \in DOMAIN sessions : sessions[s].name = name}
Holds(w) == \E s \in DOMAIN lock : lock[s] = w

(* find_by_name only tries to read a session: it passes over one that is   *)
(* locked, and may pass over one that a turn is just pushing to or that    *)
(* compress_all is just looking at, or that they wait for.                 *)
Contended(s) ==
    \/ \E u \in Turns : session[u] = s /\ place[u] \in {"push", "ask", "calls", "stream"}
    \/ \E w \in Workers : s \in todo[w] /\ ~Holds(w)

(* Another turn of the name, or a compression that will come to a session  *)
(* of it, is under way.                                                    *)
Overlapped(t) ==
    \/ \E u \in Turns \ {t} : NameOf[u] = NameOf[t] /\ Live(u)
    \/ \E w \in Workers : (w = Scheduler \/ Live(w)) /\ todo[w] \cap Named(NameOf[t]) # {}

Arrived == Cardinality({u \in Turns : place[u] # "new"}) + hours

(* The turn has come, and its queue to it. *)
Begins(t) ==
    /\ place[t] = "new" /\ \A u \in Turns : QueueOf[u] = QueueOf[t] => ~Live(u)
    /\ Arrived < Arrivals

LookUp(t) ==
    /\ Begins(t) /\ (t \in FeishuTurns => "flash" \in up)
    /\ \/ \E s \in Named(NameOf[t]) :
             /\ lock[s] = Free
             /\ session' = [session EXCEPT ![t] = s]
             /\ Goto(t, IF t \in FeishuTurns THEN "push" ELSE "read")
             /\ torn' = IF t \in FeishuTurns /\ Pushing(s) # {} THEN torn \cup {s} ELSE torn
       \/ /\ \A s \in Named(NameOf[t]) : lock[s] # Free \/ Contended(s)
          /\ Goto(t, "create")
          /\ UNCHANGED <<session, torn>>
    /\ exposed' = IF Overlapped(t) THEN exposed \cup {NameOf[t]} ELSE exposed
    /\ UNCHANGED <<sessions, lock, messages, left, rounds, replied, answers, compressVars, bare, up>>

(* There is no model for the turn: no flash model for one from Feishu,     *)
(* neither it nor the pro model, as the prompt needs, for one of the web.  *)
NoProvider(t) ==
    /\ Begins(t) /\ (t \in FeishuTurns => "flash" \notin up)
    /\ Goto(t, "failed")
    /\ answers' = IF t \in FeishuTurns /\ "client" \in up
                  THEN [answers EXCEPT ![t] = Append(@, "fallback")] ELSE answers
    /\ UNCHANGED <<sessions, lock, session, messages, left, rounds, replied, compressVars, notes>>

(* Session::new; its row is written at once, and nothing reads it back. *)
NewSession(name) == [name |-> name, msgs |-> <<>>, summary |-> FALSE]

Create(t) ==
    /\ place[t] = "create"
    /\ sessions' = Append(sessions, NewSession(NameOf[t]))
    /\ lock' = Append(lock, Free)
    /\ prompted' = Append(prompted, <<>>)
    /\ session' = [session EXCEPT ![t] = Len(sessions) + 1]
    /\ Goto(t, IF t \in FeishuTurns THEN "push" ELSE "read")
    /\ UNCHANGED <<messages, left, rounds, replied, answers, todo, hours, notes>>

Prompt(t) == [User EXCEPT !.id = <<t>>]
-----------------------------------------------------------------------------
(* process_feishu_chat *)

PushPrompt(t) ==
    /\ place[t] = "push"
    /\ Push(t, Prompt(t))
    /\ Goto(t, IF t \in FeishuTurns THEN "read" ELSE "stream")
    /\ UNCHANGED <<session, messages, left, rounds, replied, answers, compressVars, notes>>

(* Mutant: the history is sent as it is. *)
SanitizedNot(ms) == ms

Sanitized(ms) == sanitize_history(ms)

(* Without a client the turn ends here, and without a word.                *)
ReadHistory(t) ==
    /\ place[t] = "read" /\ t \in FeishuTurns
    /\ lock[session[t]] = Free
    /\ LET s == sessions[session[t]] IN
       messages' = [messages EXCEPT ![t] = Sanitized(context(s.msgs, s.summary))]
    /\ Goto(t, IF "client" \in up THEN "ask" ELSE "failed")
    /\ UNCHANGED <<sessions, lock, session, left, rounds, replied, answers, compressVars, notes>>

AskFails(t) ==
    /\ place[t] = "ask"
    /\ answers' = [answers EXCEPT ![t] = Append(@, "fallback")]
    /\ Goto(t, "failed")
    /\ UNCHANGED <<sessions, lock, session, messages, left, rounds, replied, compressVars, notes>>

(* Mutant: tools stay available. *)
Phase1Always(t) == rounds[t] <= MaxRounds

Phase1(t) == rounds[t] < MaxRounds

(* The message of an answer: its calls, and whether they have reasoning. *)
Answer(ids, reason) == [Assistant(ids) EXCEPT !.reason = reason /\ ids # <<>>]

(* The answer of the model is pushed as it has come, with the calls it     *)
(* makes.  In phase 2 calls may still be recovered from its text; nobody   *)
(* runs them and they are left out.                                        *)
Asks(t) ==
    /\ place[t] = "ask"
    /\ \E answer \in Answers \cup {<<>>}, reason \in BOOLEAN :
          LET calls == IF Phase1(t)
                       THEN [k \in DOMAIN answer |-> <<answer[k], <<t, rounds[t], k>>>>] ELSE <<>>
              ids == [k \in DOMAIN calls |-> calls[k][2]]
              m == Answer(ids, reason)
          IN  /\ Push(t, m)
              /\ left' = [left EXCEPT ![t] = calls]
              /\ messages' = [messages EXCEPT ![t] = IF calls = <<>> THEN <<>> ELSE Append(@, m)]
              /\ bare' = IF reason \/ calls = <<>> THEN bare ELSE bare \cup {ids[1]}
              /\ Goto(t, IF calls = <<>> THEN "reply" ELSE "calls")
    /\ UNCHANGED <<session, rounds, replied, answers, compressVars, torn, exposed, up>>

(* Mutant: replied_to_user is what the last call was. *)
RunToolLastCounts(t) ==
    /\ place[t] = "calls"
    /\ \E ok \in BOOLEAN :
          LET delivered == left[t][1][1] = "reply" /\ ok IN
          /\ replied' = [replied EXCEPT ![t] = delivered]
          /\ answers' = [answers EXCEPT ![t] = IF delivered THEN Append(@, "reply") ELSE @]
    /\ Push(t, Result(left[t][1][2]))
    /\ messages' = [messages EXCEPT ![t] = Append(@, Result(left[t][1][2]))]
    /\ left' = [left EXCEPT ![t] = Tail(@)]
    /\ IF left'[t] = <<>>
       THEN Goto(t, "ask") /\ rounds' = [rounds EXCEPT ![t] = @ + 1]
       ELSE UNCHANGED <<place, rounds>>
    /\ UNCHANGED <<session, compressVars, notes>>

(* A tool runs, reply_to_user may fail to deliver, and the result is       *)
(* pushed; after the last one the next request goes out.                   *)
RunTool(t) ==
    /\ place[t] = "calls"
    /\ \E ok \in BOOLEAN :
          LET delivered == left[t][1][1] = "reply" /\ ok IN
          /\ replied' = [replied EXCEPT ![t] = @ \/ delivered]
          /\ answers' = [answers EXCEPT ![t] = IF delivered THEN Append(@, "reply") ELSE @]
    /\ Push(t, Result(left[t][1][2]))
    /\ messages' = [messages EXCEPT ![t] = Append(@, Result(left[t][1][2]))]
    /\ left' = [left EXCEPT ![t] = Tail(@)]
    /\ IF left'[t] = <<>>
       THEN Goto(t, "ask") /\ rounds' = [rounds EXCEPT ![t] = @ + 1]
       ELSE UNCHANGED <<place, rounds>>
    /\ UNCHANGED <<session, compressVars, notes>>

ToolPanics(t) ==
    /\ place[t] = "calls" /\ left[t][1][1] = "tool"
    /\ Goto(t, "panicked")
    /\ UNCHANGED <<sessions, lock, session, messages, left, rounds, replied, answers,
                   compressVars, notes>>

(* The final answer, unless the model has replied by itself, and then      *)
(* compress_all.  That the answer could not be sent is only logged.        *)
Reply(t) ==
    /\ place[t] = "reply"
    /\ \E sent \in {"final", "lost"} :
          answers' = [answers EXCEPT ![t] = IF replied[t] THEN @ ELSE Append(@, sent)]
    /\ todo' = [todo EXCEPT ![t] = DOMAIN sessions]
    /\ Goto(t, "compress")
    /\ UNCHANGED <<sessions, lock, session, messages, left, rounds, replied, hours, prompted, notes>>

(* Mutant: the turn does not wait for its compress_all. *)
TurnEndsEarly(t) ==
    /\ place[t] = "compress"
    /\ Goto(t, "over")
    /\ UNCHANGED <<sessions, lock, session, messages, left, rounds, replied, answers,
                   compressVars, notes>>

TurnEnds(t) ==
    /\ place[t] = "compress" /\ todo[t] = {}
    /\ Goto(t, "over")
    /\ UNCHANGED <<sessions, lock, session, messages, left, rounds, replied, answers,
                   compressVars, notes>>
-----------------------------------------------------------------------------
(* POST /chat: the history is read before the prompt is pushed, and the    *)
(* prompt only once the stream has started.                                *)

ReadAndStart(t) ==
    /\ place[t] = "read" /\ t \notin FeishuTurns
    /\ lock[session[t]] = Free
    /\ LET s == sessions[session[t]] IN
       messages' = [messages EXCEPT ![t] = Append(context(s.msgs, s.summary), Prompt(t))]
    /\ Goto(t, "start")
    /\ UNCHANGED <<sessions, lock, session, left, rounds, replied, answers, compressVars, notes>>

StreamStarts(t) ==
    /\ place[t] = "start"
    /\ Goto(t, "push") \/ Goto(t, "failed")
    /\ UNCHANGED <<sessions, lock, session, messages, left, rounds, replied, answers,
                   compressVars, notes>>

StreamBreaks(t) ==
    /\ place[t] = "stream"
    /\ Goto(t, "failed")
    /\ UNCHANGED <<sessions, lock, session, messages, left, rounds, replied, answers,
                   compressVars, notes>>

StreamFinishes(t) ==
    /\ place[t] = "stream"
    /\ Push(t, Assistant(<<>>))
    /\ answers' = [answers EXCEPT ![t] = Append(@, "final")]
    /\ Goto(t, "over")
    /\ UNCHANGED <<session, messages, left, rounds, replied, compressVars, notes>>
-----------------------------------------------------------------------------
(* compress_all: the sessions known at its start, in any order, each       *)
(* locked while it is looked at and, if it is over the limit, compressed.  *)

SchedulerCompresses ==
    /\ "flash" \in up /\ Arrived < Arrivals /\ todo[Scheduler] = {}
    /\ hours' = hours + 1
    /\ todo' = [todo EXCEPT ![Scheduler] = DOMAIN sessions]
    /\ UNCHANGED <<sessions, lock, turnVars, prompted, notes>>

Skip(w, s) ==
    /\ s \in todo[w] /\ lock[s] = Free
    /\ ~needs_compression(sessions[s].msgs, Limit)
    /\ todo' = [todo EXCEPT ![w] = @ \ {s}]
    /\ UNCHANGED <<sessions, lock, turnVars, hours, prompted, notes>>

Compress(w, s) ==
    /\ s \in todo[w] /\ lock[s] = Free /\ ~Holds(w)
    /\ needs_compression(sessions[s].msgs, Limit)
    /\ lock' = [lock EXCEPT ![s] = w]
    /\ prompted' = [prompted EXCEPT ![s] = sessions[s].msgs]
    /\ UNCHANGED <<sessions, turnVars, todo, hours, notes>>

Release(w, s) ==
    /\ lock' = [lock EXCEPT ![s] = Free]
    /\ prompted' = [prompted EXCEPT ![s] = <<>>]
    /\ todo' = [todo EXCEPT ![w] = @ \ {s}]

CompressReturns(w, s) ==
    /\ s \in todo[w] /\ lock[s] = w
    /\ sessions' = [sessions EXCEPT ![s].msgs = Compressed, ![s].summary = TRUE]
    /\ Release(w, s)
    /\ torn' = CASE Calling(s) # {} -> torn \cup {s}
                 [] Pushing(s) = {} -> torn \ {s}
                 [] OTHER -> torn
    /\ UNCHANGED <<turnVars, hours, exposed, bare, up>>

(* Mutant: a failure returns with the lock held. *)
CompressFailsLocked(w, s) ==
    /\ s \in todo[w] /\ lock[s] = w
    /\ sessions' = [sessions EXCEPT ![s].msgs = Truncated(@, Limit)]
    /\ todo' = [todo EXCEPT ![w] = @ \ {s}]
    /\ UNCHANGED <<lock, prompted>>
    /\ torn' = IF Calling(s) # {} \/ sessions[s].summary THEN torn \cup {s} ELSE torn
    /\ UNCHANGED <<turnVars, hours, exposed, bare, up>>

(* The flash model fails: the oldest messages go.  Behind a summary the    *)
(* results that come first are not dropped by sanitize_history.            *)
CompressFails(w, s) ==
    /\ s \in todo[w] /\ lock[s] = w
    /\ sessions' = [sessions EXCEPT ![s].msgs = Truncated(@, Limit)]
    /\ Release(w, s)
    /\ torn' = IF Calling(s) # {} \/ sessions[s].summary THEN torn \cup {s} ELSE torn
    /\ UNCHANGED <<turnVars, hours, exposed, bare, up>>
-----------------------------------------------------------------------------
FeishuTurn(t) ==
    \/ PushPrompt(t) \/ ReadHistory(t) \/ Asks(t) \/ AskFails(t)
    \/ RunTool(t) \/ ToolPanics(t) \/ Reply(t) \/ TurnEnds(t)

HttpTurn(t) == ReadAndStart(t) \/ StreamStarts(t) \/ StreamBreaks(t) \/ StreamFinishes(t)

Turn(t) == LookUp(t) \/ NoProvider(t) \/ Create(t) \/ FeishuTurn(t) \/ HttpTurn(t)

CompressAll(w) ==
    \E s \in DOMAIN sessions :
        Skip(w, s) \/ Compress(w, s) \/ CompressReturns(w, s) \/ CompressFails(w, s)

Next ==
    \/ \E t \in Turns : Turn(t)
    \/ \E w \in Workers : CompressAll(w)
    \/ SchedulerCompresses

Spec == Init /\ [][Next]_vars

(* Something is done while anything can be: the model's API answers every  *)
(* request or fails it, and a lock is given to one of those who wait.      *)
FairSpec == Spec /\ WF_vars(Next)
-----------------------------------------------------------------------------
(* Every request of a turn is well formed, although a panic may leave      *)
(* calls without results behind (sanitize_history): unless the session was *)
(* compressed among the calls of a turn, was truncated behind a summary,   *)
(* or has had two turns at a time, and not been compressed since; or a web *)
(* client has named a Feishu chat.  And no reasoning is lost: calls are    *)
(* sent without it only if they came without it.  (That the API rejects    *)
(* those, and that nothing repairs them here as prepare_for_request does   *)
(* for the TUI, is in section 5 of the README.)                            *)
Kept(ms) == \A i \in DOMAIN ms :
                ms[i].calls # <<>> /\ ~ms[i].reason => ms[i].calls[1] \in bare

RequestsComplete ==
    \A t \in Turns : place[t] \in {"ask", "start"} =>
        /\ session[t] \notin torn /\ NameOf[t] \notin Shared => WellFormed(messages[t])
        /\ Kept(messages[t])


(* Nothing is pushed to a session while it is being summarised, so that no *)
(* message is lost that the summary does not cover (compress_all holds the *)
(* write lock across the call to the model).                               *)
CompressionIsAtomic ==
    \A s \in DOMAIN sessions : lock[s] # Free => sessions[s].msgs = prompted[s]

(* A name has one session, unless it was looked up while another turn of   *)
(* it, or a compression that would come to its session, was under way.     *)
(* (get_or_create promises it without the exception: find_by_name may then *)
(* pass over the session, and two turns may both find none.)               *)
OneSessionPerName ==
    \A s, r \in DOMAIN sessions :
        s # r /\ sessions[s].name = sessions[r].name => sessions[s].name \in exposed

(* A turn that has ended well has answered by replies of the model         *)
(* (reply_to_user), whatever further attempts at them have failed, or has  *)
(* tried once to send the final text, and not both.  Whether that last     *)
(* message was delivered the turn does not know.                           *)
AnsweredOnce ==
    \A t \in Turns :
        place[t] = "over" =>
            LET finals == {i \in DOMAIN answers[t] : answers[t][i] \in {"final", "lost"}} IN
            IF \E i \in DOMAIN answers[t] : answers[t][i] = "reply" THEN finals = {}
            ELSE Cardinality(finals) = 1

(* Every turn that has begun ends, whoever holds the locks it needs        *)
(* (compress_all locks one session at a time; MAX_TOOL_ROUNDS): again and  *)
(* again none is under way.                                                *)
EveryTurnEnds == []<>(\A t \in Turns : ~Live(t))
=============================================================================
