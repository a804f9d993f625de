--------------------------------- MODULE Dsml ---------------------------------
(***************************************************************************)
(* The recovery of tool calls from markup in an answer's text (dsml.rs):   *)
(* extract_tool_calls, which reads a whole text, and DsmlAccumulator,      *)
(* which is fed the text in deltas and shows it as it arrives.             *)
(*                                                                         *)
(* A text is a sequence of symbols: "t" is ordinary text, "<" an angle     *)
(* bracket with the marker, "s" white space, "n" the name of a tool-call   *)
(* block, ">" the end of a tag, a command c the rest of an opening invoke  *)
(* tag and its parameters, "j" a closing invoke tag and "/" a closing      *)
(* block tag.  So "<" "n" ">" opens a block, and a tag that has white      *)
(* space after its name extends to the next symbol that ends a tag.        *)
(***************************************************************************)
EXTENDS Naturals, Sequences, FiniteSets, FiniteSetsExt

CONSTANT Commands       \* the commands the model asks for

Symbols == {"t", "<", "s", "n", ">", "j", "/"} \cup Commands

From(s, p) == SubSeq(s, p, Len(s))
UpTo(s, p) == SubSeq(s, 1, p)

(* The first of some positions, or 0. *)
First(positions) == IF positions = {} THEN 0 ELSE Min(positions)
-----------------------------------------------------------------------------
(* match_open_tag_at, find_open_tag, find_close_tag *)

EndsTag(c) == c \in {">", "j", "/"} \cup Commands

(* The first symbol from p on that is not white space, or Len(s) + 1. *)
SkipSpaces(s, p) == Min({q \in p..Len(s) : s[q] # "s"} \cup {Len(s) + 1})

At(s, p, c) == p <= Len(s) /\ s[p] = c

(* The end of a tag whose name is at name, or 0; of the opening block tag  *)
(* at p, or 0.                                                             *)
TagEnd(s, name) ==
    IF At(s, name + 1, ">") THEN name + 1
    ELSE IF At(s, name + 1, "s") THEN First({q \in (name + 2)..Len(s) : EndsTag(s[q])})
    ELSE 0
BlockEnd(s, name) == IF At(s, name, "n") THEN TagEnd(s, name) ELSE 0
OpenEnd(s, p) == IF s[p] = "<" THEN BlockEnd(s, SkipSpaces(s, p + 1)) ELSE 0

(* Is an opening invoke tag at p, and where does it end? *)
InvokeEnd(s, p) == SkipSpaces(s, p + 1)
IsInvoke(s, p) == s[p] = "<" /\ \E c \in Commands : At(s, InvokeEnd(s, p), c)

find_open_tag(s) == First({p \in DOMAIN s : OpenEnd(s, p) # 0})
find_invoke_tag(s) == First({p \in DOMAIN s : IsInvoke(s, p)})
find_close_tag(s, p, c) == First({q \in p..Len(s) : s[q] = c})

(* could_be_open_tag_prefix, and the part of the text that is kept back    *)
(* because it could be the beginning of an opening tag.                    *)
could_be_open_tag_prefix(s) ==
    LET name == SkipSpaces(s, 2) IN
    /\ s[1] = "<"
    /\ name > Len(s) \/ (name = Len(s) /\ s[name] = "n")

KeptNothing(s) == Len(s) + 1

KeptFrom(s) ==
    Min({q \in DOMAIN s : could_be_open_tag_prefix(From(s, q))} \cup {Len(s) + 1})
-----------------------------------------------------------------------------
(* parse_invoke_blocks: the commands of a block's body, as far as each     *)
(* invocation has its closing tag.                                         *)
parse_invoke_blocks[s \in Seq(Symbols)] ==
    LET body == InvokeEnd(s, find_invoke_tag(s))
        close == find_close_tag(s, body + 1, "j")
    IN  IF find_invoke_tag(s) = 0 \/ close = 0 THEN <<>>
        ELSE <<s[body]>> \o parse_invoke_blocks[From(s, close + 1)]

(* extract_tool_calls: the text without its blocks, and their calls.       *)
(* A block that never ends stays, and so does one without a call.          *)
extract_tool_calls[s \in Seq(Symbols)] ==
    LET open == find_open_tag(s)
        close == find_close_tag(s, OpenEnd(s, open) + 1, "/")
        calls == parse_invoke_blocks[SubSeq(s, OpenEnd(s, open) + 1, close - 1)]
        rest == extract_tool_calls[From(s, close + 1)]
    IN  IF open = 0 \/ close = 0 THEN [cleaned |-> s, calls |-> <<>>]
        ELSE [cleaned |-> UpTo(s, IF calls = <<>> THEN close ELSE open - 1) \o rest.cleaned,
              calls |-> calls \o rest.calls]
-----------------------------------------------------------------------------
(* DsmlAccumulator.  ingest's result carries the accumulator it leaves,    *)
(* the text to show, the calls, and what it drops: the text before a       *)
(* block that has not ended, and a block that has no call.                 *)

Accumulator == [buf : Seq(Symbols), in_dsml : BOOLEAN]
EmptyAccumulator == [buf |-> <<>>, in_dsml |-> FALSE]

Ingested(acc, text, calls, dropped) ==
    [acc |-> acc, text |-> text, calls |-> calls, dropped |-> dropped]

(* The buffer holds no tag: all of it is shown but a beginning of one. *)
IngestText(buf) ==
    LET kept == KeptFrom(buf) IN
    Ingested([buf |-> From(buf, kept), in_dsml |-> FALSE],
             UpTo(buf, kept - 1), <<>>, <<>>)

(* There is a block at open; what follows it is ingested by itself.        *)
IngestBlock(following, text, open) ==
    LET before == UpTo(text, open - 1)
        buf == From(text, open)
        close == find_close_tag(buf, 1, "/")
        block == extract_tool_calls[UpTo(buf, close)]
        rest == following[From(buf, close + 1)]
    IN  IF close = 0
        THEN Ingested([buf |-> buf, in_dsml |-> TRUE], <<>>, <<>>, before)
        ELSE Ingested(rest.acc, before \o rest.text, block.calls \o rest.calls,
                      block.cleaned \o rest.dropped)

ingest_text[text \in Seq(Symbols)] ==
    LET open == find_open_tag(text) IN
    IF open = 0 THEN IngestText(text) ELSE IngestBlock(ingest_text, text, open)

ingest(acc, delta) ==
    LET text == acc.buf \o delta IN
    IF acc.in_dsml THEN IngestBlock(ingest_text, text, 1) ELSE ingest_text[text]

flushNothing(acc) == <<>>

(* flush: the text it returns; the accumulator is empty then. *)
flush(acc) == acc.buf
-----------------------------------------------------------------------------
(* A tag with white space after its name, which could arrive in two parts. *)
Spaced(s) == \E p \in DOMAIN s : s[p] = "n" /\ At(s, p + 1, "s")
=============================================================================
