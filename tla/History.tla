------------------------------- MODULE History -------------------------------
(***************************************************************************)
(* The messages of a conversation, what the model's API accepts of them,   *)
(* and the three passes that repair a history before it is sent:           *)
(* sanitize_tool_call_sequence and prepare_for_request (session.rs), which *)
(* the TUI and the ACP agent use, and sanitize_history (webhook.rs).       *)
(*                                                                         *)
(* A text is left out.  A message keeps its role, the ids of the tool      *)
(* calls it makes (assistant), the id it answers (tool), whether it        *)
(* carries reasoning (assistant), an image (user), and whether it was made *)
(* up by a repair.                                                         *)
(***************************************************************************)
EXTENDS Naturals, Sequences, FiniteSets, SequencesExt

Message(role, calls, id) ==
    [role |-> role, calls |-> calls, id |-> id,
     reason |-> FALSE, image |-> FALSE, made |-> FALSE]

User == Message("user", <<>>, <<>>)
Screenshot == [User EXCEPT !.image = TRUE]
Assistant(calls) == Message("assistant", calls, <<>>)
Result(id) == Message("tool", <<>>, id)
Summary == Message("system", <<>>, <<>>)     \* "[conversation summary] ..."

IsTool(m) == m.role = "tool"
-----------------------------------------------------------------------------
(* What the API accepts (external; as the comments of the two repairs have *)
(* it): calls are followed at once by one result each, and there is no     *)
(* other result; with reasoning on, a message with calls carries some.     *)

(* The i-th message of ms is followed by exactly the results of its calls. *)
Answered(ms, i) ==
    LET n == Len(ms[i].calls) IN
    /\ i + n <= Len(ms)
    /\ \A k \in (i + 1)..(i + n) : IsTool(ms[k])
    /\ {ms[k].id : k \in (i + 1)..(i + n)} = {ms[i].calls[k] : k \in 1..n}

(* The j-th message of ms is the result of a call made just before. *)
Owned(ms, j) == \E i \in 1..(j - 1) : j - i <= Len(ms[i].calls)

WellFormed(ms) ==
    \A i \in DOMAIN ms :
        /\ ms[i].calls # <<>> => Answered(ms, i)
        /\ IsTool(ms[i]) => Owned(ms, i)

Reasoned(ms) == \A i \in DOMAIN ms : ms[i].calls # <<>> => ms[i].reason

Images(ms) == {i \in DOMAIN ms : ms[i].image}
-----------------------------------------------------------------------------
(* sanitize_tool_call_sequence: an assistant message is followed by a      *)
(* result of each of its calls, taken from before the next assistant       *)
(* message or made up; other results are dropped, all else keeps its       *)
(* order.                                                                  *)

Missing(id) == [Result(id) EXCEPT !.made = TRUE]

(* The result of call k of the i-th message. *)
ResultFor(ms, i, k) ==
    LET id == ms[i].calls[k]
        before == {j \in (i + 1)..Len(ms) :
                      \A l \in (i + 1)..j : ms[l].role # "assistant"}
        found == {j \in before : IsTool(ms[j]) /\ ms[j].id = id}
        earlier == \E l \in 1..(k - 1) : ms[i].calls[l] = id
    IN  IF found # {} /\ ~earlier THEN Result(id) ELSE Missing(id)

WithResults(ms, i) ==
    IF IsTool(ms[i]) THEN <<>>
    ELSE <<ms[i]>> \o [k \in DOMAIN ms[i].calls |-> ResultFor(ms, i, k)]

sanitize_tool_call_sequence(ms) ==
    FlattenSeq([i \in DOMAIN ms |-> WithResults(ms, i)])

(* Session::prepare_for_request *)
prepare_for_request(ms) ==
    LET repaired == sanitize_tool_call_sequence(ms) IN
    [i \in DOMAIN repaired |->
        IF repaired[i].calls # <<>> THEN [repaired[i] EXCEPT !.reason = TRUE]
        ELSE repaired[i]]

(* Session::prune_images: only the last keep images stay. *)
prune_images(ms, keep) ==
    [i \in DOMAIN ms |->
        IF Cardinality({j \in Images(ms) : j > i}) < keep THEN ms[i]
        ELSE [ms[i] EXCEPT !.image = FALSE]]
-----------------------------------------------------------------------------
(* sanitize_history: results at the start are dropped; a message whose     *)
(* calls are followed by too few results loses its calls and the results.  *)
(* A result anywhere else stays.                                           *)

(* The results that follow the i-th message at once. *)
RunAfter(ms, i) ==
    {j \in (i + 1)..Len(ms) : \A l \in (i + 1)..j : IsTool(ms[l])}

Short(ms, i) == Cardinality(RunAfter(ms, i)) < Len(ms[i].calls)

sanitize_history(ms) ==
    LET dropped == RunAfter(ms, 0) \cup
                   UNION {RunAfter(ms, i) : i \in {j \in DOMAIN ms : Short(ms, j)}}
    IN  FlattenSeq([i \in DOMAIN ms |->
            IF i \in dropped THEN <<>>
            ELSE IF Short(ms, i) THEN <<[ms[i] EXCEPT !.calls = <<>>]>>
            ELSE <<ms[i]>>])
-----------------------------------------------------------------------------
(* Session::context and the two outcomes of Session::compress.  A message  *)
(* counts as one token.                                                    *)

context(ms, summary) == IF summary THEN <<Summary>> \o ms ELSE ms

needs_compression(ms, limit) == Len(ms) > limit

Compressed == <<Assistant(<<>>)>>            \* "[summary] ..."

Truncated(ms, limit) ==
    LET n == IF limit > 2 THEN limit ELSE 2 IN
    IF Len(ms) <= n THEN ms ELSE SubSeq(ms, Len(ms) - n + 1, Len(ms))
=============================================================================
