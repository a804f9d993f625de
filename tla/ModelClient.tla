----------------------------- MODULE ModelClient -----------------------------
(***************************************************************************)
(* DeepSeekProvider (deepseek.rs): a call of chat, which with_retry makes  *)
(* again when the API limits the rate, and a call of chat_stream, whose    *)
(* task reads the frames of the answer and sends chunks to a channel.      *)
(*                                                                         *)
(* An answer is a text (see Dsml) and native tool calls.  Its frames carry *)
(* the reasoning, a delta of the text, a piece of a native call or the     *)
(* finish reason, cut as the API likes; the stream may end, or break,      *)
(* after any frame.  One chunk stands for all the reasoning, whose calls   *)
(* are not taken.  The chunk of the usage, and the channel's capacity,     *)
(* which only delays the task, are left out.                               *)
(***************************************************************************)
EXTENDS Dsml, SequencesExt

CONSTANTS Texts,        \* bound: the texts the model may answer with
          Natives,      \* bound: the native calls it may make
          MaxDelta      \* bound: the symbols of a frame

Broken == "broken"      \* a call whose arguments are not all there
Calls == Commands \cup {Broken}

ASSUME ClientAssumption ==
    /\ Texts \subseteq Seq(Symbols) /\ Natives \subseteq Seq(Commands)
    /\ MaxDelta \in Nat \ {0} /\ Broken \notin Commands

MaxRetries == 3
MaxDelay == 30
Pieces == 2             \* of a native call: its id and name, its arguments

VARIABLES
    call,       \* where the call is
    delay,      \* with_retry: the next delay
    attempt,    \* the retries so far
    answer,     \* what the model answers
    received,   \* the symbols of its text that have arrived
    pieces,     \* the pieces of its native calls that have
    reasoned,   \* its reasoning has
    builders,   \* tool_builders: the pieces of each call
    dsml_acc,   \* the accumulator of the text
    finished,   \* finish_reason "tool_calls" has arrived
    dropped,    \* the text the accumulator has dropped (history)
    rx          \* the channel to the caller

retryVars == <<delay, attempt>>
arrivedVars == <<answer, received, pieces, reasoned>>
streamVars == <<arrivedVars, builders, dsml_acc, finished, dropped, rx>>
clientVars == <<call, retryVars, streamVars>>

NoAnswer == [text |-> <<>>, natives |-> <<>>]

Content(text) == IF text = <<>> THEN <<>> ELSE <<[kind |-> "Content", text |-> text]>>
ToolCallStart(c) == [kind |-> "ToolCallStart", command |-> c]
Reasoning == [kind |-> "Reasoning"]
StreamError == [kind |-> "Err"]

Chunks == [kind : {"Content"}, text : Seq(Symbols)]
          \cup [kind : {"ToolCallStart"}, command : Calls]
          \cup {Reasoning, StreamError}

ClientTypeOK ==
    /\ call \in {"idle", "chat", "waiting", "asked", "streaming", "closed",
                 "broken", "refused", "answered", "failed"}
    /\ delay \in 1..MaxDelay /\ attempt \in 0..MaxRetries
    /\ answer \in [text : Texts, natives : Natives] \cup {NoAnswer}
    /\ received \in 0..Len(answer.text)
    /\ pieces \in 0..(Pieces * Len(answer.natives)) /\ reasoned \in BOOLEAN
    /\ builders \in Seq(1..Pieces) /\ Len(builders) <= Len(answer.natives)
    /\ dsml_acc \in Accumulator
    /\ finished \in BOOLEAN
    /\ dropped \in Seq(Symbols)
    /\ rx \in Seq(Chunks)

NothingStreamed ==
    /\ answer = NoAnswer /\ received = 0 /\ pieces = 0 /\ reasoned = FALSE
    /\ builders = <<>>
    /\ dsml_acc = EmptyAccumulator /\ finished = FALSE
    /\ dropped = <<>> /\ rx = <<>>

(* What has arrived of the text, and of the native calls: the last of them *)
(* may lack its arguments.                                                 *)
Arrived == UpTo(answer.text, received)
HalfCall == pieces % Pieces # 0
NativesArrived ==
    [i \in 1..((pieces + 1) \div Pieces) |->
        IF Pieces * i <= pieces THEN answer.natives[i] ELSE Broken]
-----------------------------------------------------------------------------
(* chat, with_retry *)

Chat ==
    /\ call = "idle"
    /\ call' = "chat" /\ delay' = 1 /\ attempt' = 0
    /\ UNCHANGED streamVars

ChatAnswered == call = "chat" /\ call' = "answered" /\ UNCHANGED <<retryVars, streamVars>>

(* Any other error, and a rate limit after the last retry. *)
ChatFails == call = "chat" /\ call' = "failed" /\ UNCHANGED <<retryVars, streamVars>>

RateLimited ==
    /\ call = "chat" /\ attempt < MaxRetries
    /\ call' = "waiting"
    /\ UNCHANGED <<retryVars, streamVars>>

RetryForever ==
    /\ call = "waiting"
    /\ call' = "chat"
    /\ delay' = Min({delay * 2, MaxDelay})
    /\ UNCHANGED <<attempt, streamVars>>

(* The wait is over; it lasts the API's retry-after or the delay. *)
Retry ==
    /\ call = "waiting"
    /\ call' = "chat"
    /\ delay' = Min({delay * 2, MaxDelay}) /\ attempt' = attempt + 1
    /\ UNCHANGED streamVars

ChatNext == Chat \/ ChatAnswered \/ ChatFails \/ RateLimited \/ Retry
-----------------------------------------------------------------------------
(* chat_stream: the request, then the frames of the answer. *)

(* The request is accepted, and the task starts. *)
StreamAccepted(answers) ==
    /\ call = "asked"
    /\ call' = "streaming"
    /\ answer' \in answers
    /\ UNCHANGED <<retryVars, received, pieces, reasoned, builders, dsml_acc, finished, dropped, rx>>

(* Any status but success, 429 included, is an error at once. *)
StreamRefused == call = "asked" /\ call' = "refused" /\ UNCHANGED <<retryVars, streamVars>>

WithBuilderForEachPiece(bs) == Append(bs, 1)

(* The pieces of native calls that have arrived; the next one belongs to   *)
(* the last builder, or starts one.                                        *)
WithPiece(bs) ==
    IF bs # <<>> /\ Last(bs) < Pieces
    THEN [bs EXCEPT ![Len(bs)] = @ + 1] ELSE Append(bs, 1)

NativeCalls(bs) ==
    [i \in DOMAIN bs |->
        ToolCallStart(IF bs[i] = Pieces THEN answer.natives[i] ELSE Broken)]

(* The reasoning, if there is any, comes before the rest of the answer. *)
ReasoningFrame ==
    /\ call = "streaming" /\ ~finished
    /\ ~reasoned /\ received = 0 /\ pieces = 0
    /\ reasoned' = TRUE
    /\ rx' = Append(rx, Reasoning)
    /\ UNCHANGED <<call, retryVars, answer, received, pieces, builders, dsml_acc, finished, dropped>>

(* A frame with a delta of the text.  The finish reason may come with it:  *)
(* the calls of all builders are sent then, whatever they lack.            *)
TextFrame(n, finish) ==
    LET in == ingest(dsml_acc, SubSeq(answer.text, received + 1, received + n))
        calls == [i \in DOMAIN in.calls |-> ToolCallStart(in.calls[i])]
        shown == Content(in.text) \o calls
    IN  /\ received' = received + n
        /\ dropped' = dropped \o in.dropped
        /\ IF finish
           THEN /\ rx' = rx \o shown \o NativeCalls(builders) \o Content(flush(in.acc))
                /\ dsml_acc' = EmptyAccumulator /\ builders' = <<>>
           ELSE /\ rx' = rx \o shown
                /\ dsml_acc' = in.acc /\ UNCHANGED builders
        /\ finished' = finish
        /\ UNCHANGED <<call, retryVars, answer, pieces, reasoned>>

(* A frame with a piece of a native call. *)
NativeFrame ==
    /\ call = "streaming" /\ ~finished /\ pieces < Pieces * Len(answer.natives)
    /\ pieces' = pieces + 1
    /\ builders' = WithPiece(builders)
    /\ UNCHANGED <<call, retryVars, answer, received, reasoned, dsml_acc, finished, dropped, rx>>

(* The finish reason "tool_calls" may come at any time; nothing of the     *)
(* answer comes after it.                                                  *)
Frame ==
    /\ call = "streaming" /\ ~finished
    /\ \E n \in 0..Min({MaxDelta, Len(answer.text) - received}), finish \in BOOLEAN :
          /\ n > 0 \/ finish
          /\ TextFrame(n, finish)

(* "data: [DONE]", or the end of the bytes: what is buffered is shown; a   *)
(* native call that no finish reason has sent is lost.                     *)
StreamEnds ==
    /\ call = "streaming"
    /\ call' = "closed"
    /\ rx' = rx \o Content(flush(dsml_acc))
    /\ dsml_acc' = EmptyAccumulator
    /\ UNCHANGED <<retryVars, arrivedVars, builders, finished, dropped>>

(* The transport breaks: the caller is told, and nothing is flushed. *)
StreamBreaks ==
    /\ call = "streaming"
    /\ call' = "broken"
    /\ rx' = Append(rx, StreamError)
    /\ UNCHANGED <<retryVars, arrivedVars, builders, dsml_acc, finished, dropped>>

StreamNext == ReasoningFrame \/ NativeFrame \/ Frame \/ StreamEnds \/ StreamBreaks
=============================================================================
