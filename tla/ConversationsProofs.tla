------------------------- MODULE ConversationsProofs -------------------------
(***************************************************************************)
(* Theorems about Conversations, for any turns, names, queues and bounds.  *)
(***************************************************************************)
EXTENDS Conversations, HistoryProofs

Names == {NameOf[t] : t \in Turns}
Ids == Seq(Turns \cup Nat)
Msgs == [role : Roles, calls : Seq(Ids), id : Ids,
         reason : BOOLEAN, image : BOOLEAN, made : BOOLEAN]
Records == [name : Names, msgs : Seq(Msgs), summary : BOOLEAN]
Calls == {"reply", "tool"} \X Ids

(* The types of all variables but messages, which no invariant below reads. *)
Typing ==
    /\ sessions \in Seq(Records)
    /\ lock \in Seq(Workers \cup {Free}) /\ Len(lock) = Len(sessions)
    /\ prompted \in Seq(Seq(Msgs)) /\ Len(prompted) = Len(sessions)
    /\ place \in [Turns -> Places]
    /\ session \in [Turns -> 0..Len(sessions)]
    /\ \A t \in Turns : place[t] \notin {"new", "create", "failed"} => session[t] # 0
    /\ left \in [Turns -> Seq(Calls)]
    /\ rounds \in [Turns -> 0..MaxRounds]
    /\ replied \in [Turns -> BOOLEAN]
    /\ todo \in [Workers -> SUBSET (1..Len(sessions))]
    /\ hours \in Nat
    /\ torn \subseteq 1..Len(sessions) /\ exposed \subseteq Names
    /\ up \subseteq {"flash", "client"}
    /\ answers \in [Turns -> Seq({"reply", "final", "lost", "fallback"})]
    /\ \A t \in Turns : place[t] = "calls" => left[t] # <<>> /\ rounds[t] < MaxRounds

(* Whoever holds a lock has still to deal with that session, and nobody has *)
(* pushed to it.                                                            *)
LockInv ==
    \A s \in 1..Len(sessions) :
        lock[s] # Free => s \in todo[lock[s]] /\ sessions[s].msgs = prompted[s]

(* Only in its last step does a turn compress. *)
TodoInv == \A t \in Turns : place[t] # "compress" => todo[t] = {}

(* A turn has a session of its name; a second session of a name, or a       *)
(* second one that is being created, needs a look-up while the first was in *)
(* use.                                                                     *)
NamesInv ==
    /\ OneSessionPerName
    /\ \A t \in Turns : session[t] # 0 => sessions[session[t]].name = NameOf[t]
    /\ \A t \in Turns : place[t] = "create" =>
          /\ \A s \in 1..Len(sessions) : sessions[s].name = NameOf[t] => NameOf[t] \in exposed
          /\ \A u \in Turns :
                u # t /\ place[u] = "create" /\ NameOf[u] = NameOf[t] => NameOf[t] \in exposed

(* Until its last step a turn has answered by reply_to_user only, and       *)
(* replied_to_user says whether it has; then it has tried once more, unless *)
(* it had.                                                                  *)
OnlyReplies(t) ==
    /\ \A i \in 1..Len(answers[t]) : answers[t][i] = "reply"
    /\ replied[t] <=> answers[t] # <<>>

AnswersInv ==
    \A t \in Turns :
        /\ place[t] \in {"new", "create", "push", "read", "start", "stream"} =>
              answers[t] = <<>> /\ ~replied[t]
        /\ place[t] \in {"ask", "calls", "reply"} => OnlyReplies(t)
        /\ place[t] \in {"compress", "over"} =>
              (OnlyReplies(t) /\ replied[t]) \/ answers[t] \in {<<"final">>, <<"lost">>}

IInv == Typing /\ LockInv /\ TodoInv /\ NamesInv /\ AnswersInv
-----------------------------------------------------------------------------
(* What is pushed, and what a compression leaves, are messages. *)

LEMMA MessageTypes ==
    /\ \A id \in Ids : Result(id) \in Msgs
    /\ \A calls \in Seq(Ids) : Assistant(calls) \in Msgs
    /\ \A calls \in Seq(Ids), reason \in BOOLEAN : Answer(calls, reason) \in Msgs
    /\ \A t \in Turns : Prompt(t) \in Msgs
  <1>1. <<>> \in Ids /\ <<>> \in Seq(Ids)
    BY DEF Ids
  <1>2. \A t \in Turns : <<t>> \in Ids
    BY DEF Ids
  <1> HIDE DEF Ids
  <1>3. \A role \in Roles, calls \in Seq(Ids), id \in Ids : Message(role, calls, id) \in Msgs
    BY DEF Msgs, Message
  <1>4. \A id \in Ids : Result(id) \in Msgs
    BY <1>1, <1>3 DEF Result, Roles
  <1>5. \A calls \in Seq(Ids) : Assistant(calls) \in Msgs
    BY <1>1, <1>3 DEF Assistant, Roles
  <1>7. ASSUME NEW calls \in Seq(Ids), NEW reason \in BOOLEAN PROVE Answer(calls, reason) \in Msgs
    <2> DEFINE b == reason /\ calls # <<>>
    <2>1. b \in BOOLEAN
      OBVIOUS
    <2>2. Answer(calls, reason) = [Assistant(calls) EXCEPT !.reason = b]
      BY DEF Answer
    <2> HIDE DEF b
    <2> QED
      BY <1>5, <2>1, <2>2 DEF Msgs
  <1>6. \A t \in Turns : Prompt(t) \in Msgs
    <2>1. User \in Msgs
      BY <1>1, <1>3 DEF User, Roles
    <2> QED
      BY <1>2, <2>1 DEF Prompt, Msgs
  <1> QED
    BY <1>4, <1>5, <1>6, <1>7

LEMMA CompressedType == Compressed \in Seq(Msgs)
  <1>1. <<>> \in Seq(Ids)
    BY DEF Ids
  <1>2. Assistant(<<>>) \in Msgs
    BY <1>1, MessageTypes
  <1> QED
    BY <1>2 DEF Compressed

LEMMA TruncatedType ==
    ASSUME NEW ms \in Seq(Msgs)
    PROVE  Truncated(ms, Limit) \in Seq(Msgs)
  <1> DEFINE n == IF Limit > 2 THEN Limit ELSE 2
  <1>1. n \in Nat /\ n >= 2
    BY ConversationsAssumption
  <1> HIDE DEF n
  <1>2. Truncated(ms, Limit) = IF Len(ms) <= n THEN ms ELSE SubSeq(ms, Len(ms) - n + 1, Len(ms))
    BY DEF Truncated, n
  <1>3. CASE Len(ms) <= n
    BY <1>2, <1>3
  <1>4. CASE Len(ms) > n
    <2>1. Len(ms) \in Nat /\ Len(ms) - n + 1 \in 1..Len(ms)
      BY <1>1, <1>4
    <2>2. \A i \in Len(ms) - n + 1 .. Len(ms) : ms[i] \in Msgs
      BY <2>1
    <2>3. SubSeq(ms, Len(ms) - n + 1, Len(ms)) \in Seq(Msgs)
      BY <2>1, <2>2, SubSeqProperties
    <2> QED
      BY <1>1, <1>2, <1>4, <2>1, <2>3
  <1> QED
    BY <1>1, <1>3, <1>4

(* One element of a sequence is replaced. *)
LEMMA SeqExcept ==
    ASSUME NEW S, NEW s \in Seq(S), NEW i \in 1..Len(s), NEW x \in S
    PROVE  /\ [s EXCEPT ![i] = x] \in Seq(S)
           /\ Len([s EXCEPT ![i] = x]) = Len(s)
           /\ [s EXCEPT ![i] = x][i] = x
           /\ \A j \in 1..Len(s) : j # i => [s EXCEPT ![i] = x][j] = s[j]
  BY ExceptSeq

(* The record of session s after its messages have been replaced. *)
LEMMA MsgsExcept ==
    ASSUME sessions \in Seq(Records), NEW s \in 1..Len(sessions), NEW ms \in Seq(Msgs)
    PROVE  LET new == [sessions EXCEPT ![s].msgs = ms] IN
           /\ new \in Seq(Records) /\ Len(new) = Len(sessions)
           /\ \A r \in 1..Len(sessions) : new[r].name = sessions[r].name
           /\ \A r \in 1..Len(sessions) : r # s => new[r] = sessions[r]
           /\ new[s].msgs = ms /\ new[s].summary = sessions[s].summary
  <1> DEFINE x == [sessions[s] EXCEPT !.msgs = ms]
  <1>1. sessions[s] \in Records
    BY ElementOfSeq
  <1>2. /\ x \in Records /\ x.name = sessions[s].name
        /\ x.msgs = ms /\ x.summary = sessions[s].summary
    BY <1>1 DEF Records
  <1>3. [sessions EXCEPT ![s].msgs = ms] = [sessions EXCEPT ![s] = x]
    OBVIOUS
  <1> HIDE DEF x
  <1>4. /\ [sessions EXCEPT ![s] = x] \in Seq(Records)
        /\ Len([sessions EXCEPT ![s] = x]) = Len(sessions)
        /\ [sessions EXCEPT ![s] = x][s] = x
        /\ \A r \in 1..Len(sessions) : r # s => [sessions EXCEPT ![s] = x][r] = sessions[r]
    BY <1>2, SeqExcept
  <1> QED
    BY <1>2, <1>3, <1>4

(* The same after a compression, which also sets the summary. *)
LEMMA SummaryExcept ==
    ASSUME sessions \in Seq(Records), NEW s \in 1..Len(sessions), NEW ms \in Seq(Msgs)
    PROVE  LET new == [sessions EXCEPT ![s].msgs = ms, ![s].summary = TRUE] IN
           /\ new \in Seq(Records) /\ Len(new) = Len(sessions)
           /\ \A r \in 1..Len(sessions) : new[r].name = sessions[r].name
           /\ \A r \in 1..Len(sessions) : r # s => new[r] = sessions[r]
           /\ new[s].msgs = ms /\ new[s].summary
  <1> DEFINE x == [sessions[s] EXCEPT !.msgs = ms, !.summary = TRUE]
  <1>1. sessions[s] \in Records
    BY ElementOfSeq
  <1>2. x \in Records /\ x.name = sessions[s].name /\ x.msgs = ms /\ x.summary
    BY <1>1 DEF Records
  <1>3. [sessions EXCEPT ![s].msgs = ms, ![s].summary = TRUE] = [sessions EXCEPT ![s] = x]
    OBVIOUS
  <1> HIDE DEF x
  <1>4. /\ [sessions EXCEPT ![s] = x] \in Seq(Records)
        /\ Len([sessions EXCEPT ![s] = x]) = Len(sessions)
        /\ [sessions EXCEPT ![s] = x][s] = x
        /\ \A r \in 1..Len(sessions) : r # s => [sessions EXCEPT ![s] = x][r] = sessions[r]
    BY <1>2, SeqExcept
  <1> QED
    BY <1>2, <1>3, <1>4

(* What Push(t, m) does to the sessions. *)
LEMMA PushEffect ==
    ASSUME Typing, NEW t \in Turns, session[t] # 0, NEW m \in Msgs, Push(t, m)
    PROVE  /\ session[t] \in 1..Len(sessions) /\ lock[session[t]] = Free /\ lock' = lock
           /\ sessions' \in Seq(Records) /\ Len(sessions') = Len(sessions)
           /\ \A r \in 1..Len(sessions) : sessions'[r].name = sessions[r].name
           /\ \A r \in 1..Len(sessions) : r # session[t] => sessions'[r] = sessions[r]
           /\ sessions'[session[t]].msgs = Append(sessions[session[t]].msgs, m)
           /\ sessions'[session[t]].summary = sessions[session[t]].summary
  <1>1. session[t] \in 1..Len(sessions) /\ sessions \in Seq(Records)
    BY DEF Typing
  <1>2. sessions[session[t]].msgs \in Seq(Msgs)
    <2>1. sessions[session[t]] \in Records
      BY <1>1, ElementOfSeq
    <2> QED
      BY <2>1 DEF Records
  <1> DEFINE ms == Append(sessions[session[t]].msgs, m)
  <1>3. ms \in Seq(Msgs)
    BY <1>2
  <1>4. sessions' = [sessions EXCEPT ![session[t]].msgs = ms]
    BY DEF Push
  <1>5. lock[session[t]] = Free /\ lock' = lock
    BY DEF Push
  <1> HIDE DEF ms
  <1>6. /\ sessions' \in Seq(Records) /\ Len(sessions') = Len(sessions)
        /\ \A r \in 1..Len(sessions) : sessions'[r].name = sessions[r].name
        /\ \A r \in 1..Len(sessions) : r # session[t] => sessions'[r] = sessions[r]
        /\ sessions'[session[t]].msgs = ms
        /\ sessions'[session[t]].summary = sessions[session[t]].summary
    BY <1>1, <1>3, <1>4, MsgsExcept
  <1> QED
    BY <1>1, <1>5, <1>6 DEF ms

(* The calls of an answer, and the message that makes them. *)
LEMMA CallsType ==
    ASSUME Typing, NEW t \in Turns, NEW answer \in Answers \cup {<<>>}
    PROVE  LET calls == [k \in DOMAIN answer |-> <<answer[k], <<t, rounds[t], k>>>>] IN
           /\ calls \in Seq(Calls)
           /\ [k \in DOMAIN calls |-> calls[k][2]] \in Seq(Ids)
  <1> DEFINE calls == [k \in DOMAIN answer |-> <<answer[k], <<t, rounds[t], k>>>>]
             ids == [k \in DOMAIN calls |-> calls[k][2]]
  <1>1. answer \in Seq({"reply", "tool"})
    <2>1. <<>> \in Seq({"reply", "tool"})
      OBVIOUS
    <2> QED
      BY <2>1, ConversationsAssumption
  <1>2. Len(answer) \in Nat /\ DOMAIN answer = 1..Len(answer)
        /\ \A k \in 1..Len(answer) : answer[k] \in {"reply", "tool"}
    BY <1>1
  <1>3. rounds[t] \in Nat
    BY ConversationsAssumption DEF Typing
  <1>4. \A k \in 1..Len(answer) : <<t, rounds[t], k>> \in Ids
    BY <1>3 DEF Ids
  <1> HIDE DEF Ids
  <1>5. \A k \in 1..Len(answer) : calls[k] \in Calls /\ calls[k][2] \in Ids
    BY <1>2, <1>4 DEF Calls
  <1>6. calls \in Seq(Calls) /\ DOMAIN calls = 1..Len(answer)
    BY <1>2, <1>5
  <1>7. ids \in Seq(Ids)
    <2>1. ids = [k \in 1..Len(answer) |-> calls[k][2]]
      BY <1>6
    <2> HIDE DEF calls
    <2>2. ids \in [1..Len(answer) -> Ids]
      BY <1>5, <2>1
    <2> QED
      BY <1>2, <2>2
  <1> QED
    BY <1>6, <1>7
(* What a turn pushes is a message. *)
LEMMA PushesMessage ==
    ASSUME Typing, NEW t \in Turns, PushPrompt(t) \/ Asks(t) \/ RunTool(t) \/ StreamFinishes(t)
    PROVE  session[t] # 0 /\ \E m \in Msgs : Push(t, m)
  <1>1. session[t] # 0
    BY DEF PushPrompt, Asks, RunTool, StreamFinishes, Typing
  <1>2. CASE PushPrompt(t)
    BY <1>1, <1>2, MessageTypes DEF PushPrompt
  <1>3. CASE Asks(t)
    <2> DEFINE Called(answer) == IF Phase1(t)
                  THEN [k \in DOMAIN answer |-> <<answer[k], <<t, rounds[t], k>>>>] ELSE <<>>
               Pushed(answer, reason) ==
                  Answer([k \in DOMAIN Called(answer) |-> Called(answer)[k][2]], reason)
    <2>1. PICK answer \in Answers \cup {<<>>}, reason \in BOOLEAN : Push(t, Pushed(answer, reason))
      BY <1>3 DEF Asks
    <2>2. [k \in DOMAIN Called(answer) |-> Called(answer)[k][2]] \in Seq(Ids)
      <3>1. CASE Phase1(t)
        BY <3>1, CallsType
      <3>2. CASE ~Phase1(t)
        BY <3>2
      <3> QED
        BY <3>1, <3>2
    <2>3. Pushed(answer, reason) \in Msgs
      BY <2>2, MessageTypes
    <2> HIDE DEF Pushed
    <2> QED
      BY <1>1, <2>1, <2>3
  <1>4. CASE RunTool(t)
    <2>1. left[t] \in Seq(Calls) /\ left[t] # <<>>
      BY <1>4 DEF RunTool, Typing
    <2>2. left[t][1] \in Calls
      BY <2>1
    <2>3. Result(left[t][1][2]) \in Msgs
      BY <2>2, MessageTypes DEF Calls
    <2> QED
      BY <1>1, <1>4, <2>3 DEF RunTool
  <1>5. CASE StreamFinishes(t)
    <2>1. <<>> \in Seq(Ids)
      OBVIOUS
    <2> QED
      BY <1>1, <1>5, <2>1, MessageTypes DEF StreamFinishes
  <1> QED
    BY <1>1, <1>2, <1>3, <1>4, <1>5
-----------------------------------------------------------------------------
(* The types are invariant. *)

LEMMA TypingInit == Init => Typing
  <1> SUFFICES ASSUME Init PROVE Typing
    OBVIOUS
  <1>1. sessions = <<>> /\ lock = <<>> /\ prompted = <<>> /\ Len(sessions) = 0
    BY DEF Init
  <1>2. sessions \in Seq(Records) /\ lock \in Seq(Workers \cup {Free}) /\ prompted \in Seq(Seq(Msgs))
    BY <1>1
  <1>3. <<>> \in Seq(Calls) /\ <<>> \in Seq({"reply", "final", "lost", "fallback"})
    OBVIOUS
  <1>4. 0 \in 0..MaxRounds
    BY ConversationsAssumption
  <1> QED
    BY <1>1, <1>2, <1>3, <1>4 DEF Init, Typing, Places

LEMMA TypingTurn ==
    ASSUME Typing, NEW t \in Turns, Turn(t)
    PROVE  Typing'
  <1>1. ASSUME LookUp(t) PROVE Typing'
    <2> USE <1>1
    <2>1. DOMAIN sessions = 1..Len(sessions)
      BY DEF Typing
    <2>2. NameOf[t] \in Names
      BY DEF Names
    <2>3. exposed' \subseteq Names
      BY <2>2 DEF LookUp, Typing
    <2>4. UNCHANGED <<sessions, lock, prompted, left, rounds, replied, todo, hours, answers, up>>
      BY DEF LookUp, compressVars
    <2>5. CASE Goto(t, "create") /\ UNCHANGED <<session, torn>>
      BY <2>3, <2>4, <2>5 DEF Typing, Goto, Places
    <2>6. ASSUME NEW s \in Named(NameOf[t]),
                 session' = [session EXCEPT ![t] = s],
                 Goto(t, IF t \in FeishuTurns THEN "push" ELSE "read"),
                 torn' = IF t \in FeishuTurns /\ Pushing(s) # {} THEN torn \cup {s} ELSE torn
          PROVE  Typing'
      <3>1. s \in 1..Len(sessions) /\ s # 0
        BY <2>1, <2>6 DEF Named, Typing
      <3>2. torn' \subseteq 1..Len(sessions)
        BY <2>6, <3>1 DEF Typing
      <3> QED
        BY <2>3, <2>4, <2>6, <3>1, <3>2 DEF Typing, Goto, Places
    <2> QED
      BY <2>5, <2>6 DEF LookUp
  <1>2. ASSUME Create(t) PROVE Typing'
    <2> USE <1>2
    <2>1. NewSession(NameOf[t]) \in Records
      <3>1. <<>> \in Seq(Msgs)
        OBVIOUS
      <3> QED
        BY <3>1 DEF NewSession, Records, Names
    <2>2. sessions' \in Seq(Records) /\ Len(sessions') = Len(sessions) + 1
      <3>1. sessions \in Seq(Records) /\ sessions' = Append(sessions, NewSession(NameOf[t]))
        BY DEF Create, Typing
      <3> QED
        BY <2>1, <3>1, AppendProperties
    <2>3. lock' \in Seq(Workers \cup {Free}) /\ Len(lock') = Len(lock) + 1
      <3>1. lock \in Seq(Workers \cup {Free}) /\ lock' = Append(lock, Free)
        BY DEF Create, Typing
      <3> QED
        BY <3>1, AppendProperties
    <2>4. prompted' \in Seq(Seq(Msgs)) /\ Len(prompted') = Len(prompted) + 1
      <3>1. <<>> \in Seq(Msgs)
        OBVIOUS
      <3> QED
        BY <3>1, AppendProperties DEF Create, Typing
    <2>5. /\ Len(sessions) \in Nat /\ 1..Len(sessions) \subseteq 1..Len(sessions')
          /\ 0..Len(sessions) \subseteq 0..Len(sessions') /\ Len(sessions') # 0
          /\ Len(sessions') \in 0..Len(sessions')
      <3>1. Len(sessions) \in Nat
        BY LenProperties DEF Typing
      <3> QED
        BY <2>2, <3>1
    <2>6. /\ session' = [session EXCEPT ![t] = Len(sessions')]
          /\ place' = [place EXCEPT ![t] = IF t \in FeishuTurns THEN "push" ELSE "read"]
          /\ UNCHANGED <<left, rounds, replied, answers, todo, hours, torn, exposed, up>>
      BY <2>2 DEF Create, Goto, notes
    <2>7. /\ place' \in [Turns -> Places]
          /\ session' \in [Turns -> 0..Len(sessions')]
          /\ \A u \in Turns : place'[u] \notin {"new", "create", "failed"} => session'[u] # 0
      BY <2>5, <2>6 DEF Typing, Places
    <2>8. todo' \in [Workers -> SUBSET (1..Len(sessions'))] /\ torn' \subseteq 1..Len(sessions')
      BY <2>5, <2>6 DEF Typing
    <2>9. \A u \in Turns : place'[u] = "calls" => left'[u] # <<>> /\ rounds'[u] < MaxRounds
      BY <2>6 DEF Typing
    <2> QED
      BY <2>2, <2>3, <2>4, <2>6, <2>7, <2>8, <2>9 DEF Typing
  <1>3. ASSUME PushPrompt(t) PROVE Typing'
    <2> USE <1>3
    <2>1. session[t] # 0 /\ Push(t, Prompt(t)) /\ Prompt(t) \in Msgs
      BY MessageTypes DEF PushPrompt, Typing
    <2>2. /\ lock' = lock /\ sessions' \in Seq(Records)
          /\ Len(sessions') = Len(sessions)
      BY <2>1, PushEffect
    <2> QED
      BY <2>2 DEF Typing, Goto, Places, compressVars, notes, PushPrompt
  <1>4. ASSUME ReadHistory(t) PROVE Typing'
    BY <1>4 DEF Typing, Goto, Places, compressVars, notes, ReadHistory
  <1>5. ASSUME Asks(t) PROVE Typing'
    <2> USE <1>5
    <2>1. PICK answer \in Answers \cup {<<>>}, reason \in BOOLEAN :
             LET calls == IF Phase1(t)
                          THEN [k \in DOMAIN answer |-> <<answer[k], <<t, rounds[t], k>>>>] ELSE <<>>
                 m == Answer([k \in DOMAIN calls |-> calls[k][2]], reason)
             IN  /\ Push(t, m)
                 /\ left' = [left EXCEPT ![t] = calls]
                 /\ Goto(t, IF calls = <<>> THEN "reply" ELSE "calls")
      BY DEF Asks
    <2> DEFINE calls == IF Phase1(t)
                        THEN [k \in DOMAIN answer |-> <<answer[k], <<t, rounds[t], k>>>>] ELSE <<>>
               m == Answer([k \in DOMAIN calls |-> calls[k][2]], reason)
    <2>2. /\ Push(t, m)
          /\ left' = [left EXCEPT ![t] = calls]
          /\ Goto(t, IF calls = <<>> THEN "reply" ELSE "calls")
      BY <2>1
    <2>3. calls \in Seq(Calls) /\ [k \in DOMAIN calls |-> calls[k][2]] \in Seq(Ids)
      <3>1. CASE Phase1(t)
        BY <3>1, CallsType
      <3>2. CASE ~Phase1(t)
        BY <3>2
      <3> QED
        BY <3>1, <3>2
    <2>4. m \in Msgs
      BY <2>3, MessageTypes
    <2>5. calls # <<>> => rounds[t] < MaxRounds
      BY DEF Phase1
    <2> HIDE DEF calls, m
    <2>6. session[t] # 0
      BY DEF Asks, Typing
    <2>7. lock' = lock /\ sessions' \in Seq(Records) /\ Len(sessions') = Len(sessions)
      BY <2>2, <2>4, <2>6, PushEffect
    <2>8. UNCHANGED <<session, rounds, replied, answers, todo, hours, prompted, torn, exposed, up>>
      BY DEF Asks, compressVars
    <2>9. /\ place' \in [Turns -> Places] /\ left' \in [Turns -> Seq(Calls)]
          /\ \A u \in Turns : place'[u] = "calls" => left'[u] # <<>> /\ rounds[u] < MaxRounds
      BY <2>2, <2>3, <2>5 DEF Typing, Goto, Places
    <2>10. \A u \in Turns : place'[u] \notin {"new", "create", "failed"} => session[u] # 0
      BY <2>2, <2>6 DEF Typing, Goto
    <2> QED
      BY <2>7, <2>8, <2>9, <2>10 DEF Typing
  <1>15. ASSUME NoProvider(t) PROVE Typing'
    <2>1. Append(answers[t], "fallback") \in Seq({"reply", "final", "lost", "fallback"})
      BY DEF Typing
    <2>2. answers' \in [Turns -> Seq({"reply", "final", "lost", "fallback"})]
      BY <1>15, <2>1 DEF Typing, NoProvider
    <2> QED
      BY <1>15, <2>2 DEF Typing, Goto, Places, compressVars, notes, NoProvider
  <1>6. ASSUME AskFails(t) PROVE Typing'
    BY <1>6 DEF Typing, Goto, Places, compressVars, notes, AskFails
  <1>7. ASSUME RunTool(t) PROVE Typing'
    <2> USE <1>7
    <2> DEFINE m == Result(left[t][1][2])
    <2>1. left[t] \in Seq(Calls) /\ left[t] # <<>> /\ rounds[t] < MaxRounds /\ session[t] # 0
      BY DEF RunTool, Typing
    <2>2. left[t][1] \in Calls
      BY <2>1
    <2>3. m \in Msgs
      BY <2>2, MessageTypes DEF Calls
    <2>4. Push(t, m)
      BY DEF RunTool
    <2> HIDE DEF m
    <2>5. lock' = lock /\ sessions' \in Seq(Records) /\ Len(sessions') = Len(sessions)
      BY <2>1, <2>3, <2>4, PushEffect
    <2>6. replied' \in [Turns -> BOOLEAN] /\ answers' \in [Turns -> Seq({"reply", "final", "lost", "fallback"})]
      <3>1. PICK delivered \in BOOLEAN :
               /\ replied' = [replied EXCEPT ![t] = @ \/ delivered]
               /\ answers' = [answers EXCEPT ![t] = IF delivered THEN Append(@, "reply") ELSE @]
        BY DEF RunTool
      <3>2. Append(answers[t], "reply") \in Seq({"reply", "final", "lost", "fallback"})
        BY DEF Typing
      <3> QED
        BY <3>1, <3>2 DEF Typing
    <2>7. left' = [left EXCEPT ![t] = Tail(left[t])] /\ Tail(left[t]) \in Seq(Calls)
      BY <2>1, HeadTailProperties DEF RunTool
    <2>8. UNCHANGED <<session, todo, hours, prompted, torn, exposed, up>>
      BY DEF RunTool, compressVars, notes
    <2>9. rounds[t] + 1 \in 0..MaxRounds
      BY <2>1, ConversationsAssumption DEF Typing
    <2>10. CASE left'[t] = <<>>
      <3>1. place' = [place EXCEPT ![t] = "ask"] /\ rounds' = [rounds EXCEPT ![t] = @ + 1]
        BY <2>10 DEF RunTool, Goto
      <3>2. /\ place' \in [Turns -> Places] /\ rounds' \in [Turns -> 0..MaxRounds]
            /\ left' \in [Turns -> Seq(Calls)]
        BY <2>7, <2>9, <3>1 DEF Typing, Places
      <3>3. \A u \in Turns : place'[u] \notin {"new", "create", "failed"} => session[u] # 0
        BY <2>1, <3>1 DEF Typing
      <3>4. \A u \in Turns : place'[u] = "calls" => left'[u] # <<>> /\ rounds'[u] < MaxRounds
        BY <2>7, <3>1 DEF Typing
      <3> QED
        BY <2>5, <2>6, <2>8, <3>2, <3>3, <3>4 DEF Typing
    <2>11. CASE left'[t] # <<>>
      <3>1. UNCHANGED <<place, rounds>>
        BY <2>11 DEF RunTool
      <3> QED
        BY <2>5, <2>6, <2>7, <2>8, <2>11, <3>1 DEF Typing
    <2> QED
      BY <2>10, <2>11
  <1>8. ASSUME ToolPanics(t) PROVE Typing'
    BY <1>8 DEF Typing, Goto, Places, compressVars, notes, ToolPanics
  <1>9. ASSUME Reply(t) PROVE Typing'
    <2> USE <1>9
    <2>1. DOMAIN sessions = 1..Len(sessions) /\ t \in Workers
      BY DEF Typing, Workers
    <2>2. Append(answers[t], "final") \in Seq({"reply", "final", "lost", "fallback"})
          /\ Append(answers[t], "lost") \in Seq({"reply", "final", "lost", "fallback"})
      BY DEF Typing
    <2>3. PICK sent \in {"final", "lost"} :
             answers' = [answers EXCEPT ![t] = IF replied[t] THEN @ ELSE Append(@, sent)]
      BY DEF Reply
    <2>4. answers' \in [Turns -> Seq({"reply", "final", "lost", "fallback"})]
      <3>1. Append(answers[t], sent) \in Seq({"reply", "final", "lost", "fallback"})
        BY <2>2, <2>3
      <3> QED
        BY <2>3, <3>1 DEF Typing
    <2>5. todo' \in [Workers -> SUBSET (1..Len(sessions))]
      BY <2>1 DEF Typing, Reply
    <2>6. place' = [place EXCEPT ![t] = "compress"] /\ session[t] # 0
          /\ UNCHANGED <<sessions, lock, session, left, rounds, replied, hours, prompted, torn, exposed, up>>
      BY DEF Reply, Goto, notes, Typing
    <2> QED
      BY <2>4, <2>5, <2>6 DEF Typing, Places
  <1>10. ASSUME TurnEnds(t) PROVE Typing'
    BY <1>10 DEF Typing, Goto, Places, compressVars, notes, TurnEnds
  <1>11. ASSUME ReadAndStart(t) PROVE Typing'
    BY <1>11 DEF Typing, Goto, Places, compressVars, notes, ReadAndStart
  <1>12. ASSUME StreamStarts(t) PROVE Typing'
    BY <1>12 DEF Typing, Goto, Places, compressVars, notes, StreamStarts
  <1>13. ASSUME StreamBreaks(t) PROVE Typing'
    BY <1>13 DEF Typing, Goto, Places, compressVars, notes, StreamBreaks
  <1>14. ASSUME StreamFinishes(t) PROVE Typing'
    <2> USE <1>14
    <2>1. <<>> \in Seq(Ids)
      OBVIOUS
    <2>2. session[t] # 0 /\ Push(t, Assistant(<<>>)) /\ Assistant(<<>>) \in Msgs
      BY <2>1, MessageTypes DEF StreamFinishes, Typing
    <2>3. lock' = lock /\ sessions' \in Seq(Records) /\ Len(sessions') = Len(sessions)
      BY <2>2, PushEffect
    <2>4. Append(answers[t], "final") \in Seq({"reply", "final", "lost", "fallback"})
      BY DEF Typing
    <2> QED
      BY <2>3, <2>4 DEF Typing, Goto, Places, compressVars, notes, StreamFinishes
  <1> QED
    BY <1>1, <1>2, <1>3, <1>4, <1>5, <1>6, <1>7, <1>8, <1>9, <1>10, <1>11, <1>12, <1>13, <1>14, <1>15
       DEF Turn, FeishuTurn, HttpTurn

LEMMA ReleaseType ==
    ASSUME Typing, NEW w \in Workers, NEW s \in 1..Len(sessions), Release(w, s)
    PROVE  /\ lock' \in Seq(Workers \cup {Free}) /\ Len(lock') = Len(lock)
           /\ prompted' \in Seq(Seq(Msgs)) /\ Len(prompted') = Len(prompted)
           /\ todo' \in [Workers -> SUBSET (1..Len(sessions))]
  <1>1. <<>> \in Seq(Msgs) /\ Free \in Workers \cup {Free}
    OBVIOUS
  <1>2. /\ lock \in Seq(Workers \cup {Free}) /\ s \in 1..Len(lock)
        /\ prompted \in Seq(Seq(Msgs)) /\ s \in 1..Len(prompted)
    BY DEF Typing
  <1>3. lock' \in Seq(Workers \cup {Free}) /\ Len(lock') = Len(lock)
    BY <1>1, <1>2, SeqExcept DEF Release
  <1>4. prompted' \in Seq(Seq(Msgs)) /\ Len(prompted') = Len(prompted)
    BY <1>1, <1>2, SeqExcept DEF Release
  <1>5. todo' \in [Workers -> SUBSET (1..Len(sessions))]
    BY DEF Release, Typing
  <1> QED
    BY <1>3, <1>4, <1>5

LEMMA TypingCompressAll ==
    ASSUME Typing, NEW w \in Workers, NEW s \in 1..Len(sessions),
           Skip(w, s) \/ Compress(w, s) \/ CompressReturns(w, s) \/ CompressFails(w, s)
    PROVE  Typing'
  <1>1. ASSUME Skip(w, s) PROVE Typing'
    BY <1>1 DEF Typing, Skip, turnVars, notes
  <1>2. ASSUME Compress(w, s) PROVE Typing'
    <2>1. lock' \in Seq(Workers \cup {Free}) /\ Len(lock') = Len(lock)
      <3>1. lock \in Seq(Workers \cup {Free}) /\ s \in 1..Len(lock) /\ w \in Workers \cup {Free}
        BY DEF Typing
      <3> QED
        BY <1>2, <3>1, SeqExcept DEF Compress
    <2>2. prompted' \in Seq(Seq(Msgs)) /\ Len(prompted') = Len(prompted)
      <3>1. prompted \in Seq(Seq(Msgs)) /\ s \in 1..Len(prompted) /\ sessions[s] \in Records
        BY ElementOfSeq DEF Typing
      <3>2. sessions[s].msgs \in Seq(Msgs)
        BY <3>1 DEF Records
      <3> QED
        BY <1>2, <3>1, <3>2, SeqExcept DEF Compress
    <2> QED
      BY <1>2, <2>1, <2>2 DEF Typing, Compress, turnVars, notes
  <1>3. ASSUME CompressReturns(w, s) PROVE Typing'
    <2>1. sessions' \in Seq(Records) /\ Len(sessions') = Len(sessions)
      BY <1>3, CompressedType, SummaryExcept DEF CompressReturns, Typing
    <2>2. torn' \subseteq 1..Len(sessions)
      BY <1>3 DEF CompressReturns, Typing
    <2>3. /\ lock' \in Seq(Workers \cup {Free}) /\ Len(lock') = Len(lock)
          /\ prompted' \in Seq(Seq(Msgs)) /\ Len(prompted') = Len(prompted)
          /\ todo' \in [Workers -> SUBSET (1..Len(sessions))]
      BY <1>3, ReleaseType DEF CompressReturns
    <2> QED
      BY <1>3, <2>1, <2>2, <2>3 DEF Typing, CompressReturns, turnVars
  <1>4. ASSUME CompressFails(w, s) PROVE Typing'
    <2>1. sessions[s] \in Records
      BY ElementOfSeq DEF Typing
    <2>2. Truncated(sessions[s].msgs, Limit) \in Seq(Msgs)
      BY <2>1, TruncatedType DEF Records
    <2>3. sessions' \in Seq(Records) /\ Len(sessions') = Len(sessions)
      BY <1>4, <2>2, MsgsExcept DEF CompressFails, Typing
    <2>4. torn' \subseteq 1..Len(sessions)
      BY <1>4 DEF CompressFails, Typing
    <2>5. /\ lock' \in Seq(Workers \cup {Free}) /\ Len(lock') = Len(lock)
          /\ prompted' \in Seq(Seq(Msgs)) /\ Len(prompted') = Len(prompted)
          /\ todo' \in [Workers -> SUBSET (1..Len(sessions))]
      BY <1>4, ReleaseType DEF CompressFails
    <2> QED
      BY <1>4, <2>3, <2>4, <2>5 DEF Typing, CompressFails, turnVars
  <1> QED
    BY <1>1, <1>2, <1>3, <1>4

LEMMA TypingStep == Typing /\ [Next]_vars => Typing'
  <1> SUFFICES ASSUME Typing, [Next]_vars PROVE Typing'
    OBVIOUS
  <1>1. ASSUME NEW t \in Turns, Turn(t) PROVE Typing'
    BY <1>1, TypingTurn
  <1>2. ASSUME NEW w \in Workers, CompressAll(w) PROVE Typing'
    <2>1. DOMAIN sessions = 1..Len(sessions)
      BY DEF Typing
    <2> QED
      BY <1>2, <2>1, TypingCompressAll DEF CompressAll
  <1>3. ASSUME SchedulerCompresses PROVE Typing'
    <2>1. DOMAIN sessions = 1..Len(sessions) /\ Scheduler \in Workers
      BY DEF Typing, Workers
    <2>2. hours' \in Nat
      BY <1>3 DEF SchedulerCompresses, Typing
    <2> QED
      BY <1>3, <2>1, <2>2 DEF Typing, SchedulerCompresses, turnVars, notes
  <1>4. ASSUME UNCHANGED vars PROVE Typing'
    BY <1>4 DEF Typing, vars
  <1> QED
    BY <1>1, <1>2, <1>3, <1>4 DEF Next
-----------------------------------------------------------------------------
(* A lock is free, or its session is as its compression has read it. *)

(* A step of a turn that changes no lock and no locked session keeps it. *)
LEMMA LockKept ==
    ASSUME Typing, LockInv, Len(sessions') = Len(sessions), lock' = lock, prompted' = prompted,
           \A r \in 1..Len(sessions) : lock[r] # Free => sessions'[r] = sessions[r],
           \A w \in Workers : todo[w] \subseteq todo'[w]
    PROVE  LockInv'
  <1>1. \A r \in 1..Len(sessions) : lock[r] # Free => lock[r] \in Workers
    BY DEF Typing
  <1> QED
    BY <1>1 DEF LockInv

LEMMA LockInvPush ==
    ASSUME Typing, LockInv, NEW t \in Turns, session[t] # 0, NEW m \in Msgs, Push(t, m),
           UNCHANGED <<todo, prompted>>
    PROVE  LockInv'
  <1>1. /\ Len(sessions') = Len(sessions) /\ lock' = lock
        /\ \A r \in 1..Len(sessions) : lock[r] # Free => sessions'[r] = sessions[r]
    BY PushEffect
  <1> QED
    BY <1>1, LockKept

LEMMA LockInvTurn ==
    ASSUME Typing, LockInv, NEW t \in Turns, Turn(t)
    PROVE  LockInv'
  <1>1. ASSUME /\ \/ LookUp(t) \/ NoProvider(t) \/ ReadHistory(t) \/ AskFails(t) \/ ToolPanics(t) \/ TurnEnds(t)
                  \/ ReadAndStart(t) \/ StreamStarts(t) \/ StreamBreaks(t)
        PROVE  LockInv'
    <2>1. UNCHANGED <<sessions, lock, prompted, todo>>
      BY <1>1 DEF LookUp, NoProvider, ReadHistory, AskFails, ToolPanics, TurnEnds, ReadAndStart,
                  StreamStarts, StreamBreaks, compressVars, notes
    <2> QED
      BY <2>1, LockKept
  <1>2. ASSUME Reply(t) PROVE LockInv'
    <2>1. UNCHANGED <<sessions, lock, prompted>>
      BY <1>2 DEF Reply
    <2>2. \A w \in Workers : todo[w] \subseteq todo'[w]
      BY <1>2 DEF Reply, Typing
    <2> QED
      BY <2>1, <2>2, LockKept
  <1>3. ASSUME Create(t) PROVE LockInv'
    <2>1. Len(sessions) \in Nat /\ Len(lock) = Len(sessions) /\ Len(prompted) = Len(sessions)
      BY LenProperties DEF Typing
    <2>2. /\ Len(sessions') = Len(sessions) + 1 /\ lock'[Len(sessions) + 1] = Free
          /\ \A r \in 1..Len(sessions) :
                sessions'[r] = sessions[r] /\ lock'[r] = lock[r] /\ prompted'[r] = prompted[r]
      BY <1>3, <2>1, AppendProperties DEF Create, Typing
    <2>3. todo' = todo
      BY <1>3 DEF Create
    <2> QED
      BY <2>1, <2>2, <2>3 DEF LockInv
  <1>4. ASSUME PushPrompt(t) \/ Asks(t) \/ RunTool(t) \/ StreamFinishes(t) PROVE LockInv'
    <2>1. UNCHANGED <<todo, prompted>>
      BY <1>4 DEF PushPrompt, Asks, RunTool, StreamFinishes, compressVars, notes
    <2>2. session[t] # 0 /\ \E m \in Msgs : Push(t, m)
      BY <1>4, PushesMessage
    <2> QED
      BY <2>1, <2>2, LockInvPush
  <1> QED
    BY <1>1, <1>2, <1>3, <1>4 DEF Turn, FeishuTurn, HttpTurn

LEMMA LockInvReleased ==
    ASSUME Typing, LockInv, NEW w \in Workers, NEW s \in 1..Len(sessions), Release(w, s), lock[s] = w,
           Len(sessions') = Len(sessions),
           \A r \in 1..Len(sessions) : r # s => sessions'[r] = sessions[r]
    PROVE  LockInv'
  <1>1. lock'[s] = Free
    BY DEF Release, Typing
  <1>2. \A r \in 1..Len(sessions) : r # s => lock'[r] = lock[r] /\ prompted'[r] = prompted[r]
    BY DEF Release, Typing
  <1>3. \A v \in Workers, r \in 1..Len(sessions) : r # s /\ r \in todo[v] => r \in todo'[v]
    BY DEF Release, Typing
  <1>4. \A r \in 1..Len(sessions) : lock[r] # Free => lock[r] \in Workers
    BY DEF Typing
  <1> QED
    BY <1>1, <1>2, <1>3, <1>4 DEF LockInv

LEMMA LockInvCompressAll ==
    ASSUME Typing, LockInv, NEW w \in Workers, NEW s \in 1..Len(sessions),
           Skip(w, s) \/ Compress(w, s) \/ CompressReturns(w, s) \/ CompressFails(w, s)
    PROVE  LockInv'
  <1>1. \A r \in 1..Len(sessions) : lock[r] # Free => lock[r] \in Workers
    BY DEF Typing
  <1>2. ASSUME Skip(w, s) PROVE LockInv'
    <2>1. UNCHANGED <<sessions, lock, prompted>> /\ lock[s] = Free
      BY <1>2 DEF Skip
    <2>2. \A v \in Workers, r \in 1..Len(sessions) : r # s /\ r \in todo[v] => r \in todo'[v]
      BY <1>2 DEF Skip, Typing
    <2> QED
      BY <1>1, <2>1, <2>2 DEF LockInv
  <1>3. ASSUME Compress(w, s) PROVE LockInv'
    <2>1. /\ lock'[s] = w /\ prompted'[s] = sessions[s].msgs
          /\ \A r \in 1..Len(sessions) : r # s => lock'[r] = lock[r] /\ prompted'[r] = prompted[r]
      BY <1>3 DEF Compress, Typing
    <2>2. s \in todo[w] /\ UNCHANGED <<sessions, todo>>
      BY <1>3 DEF Compress
    <2> QED
      BY <2>1, <2>2 DEF LockInv
  <1>4. ASSUME CompressReturns(w, s) PROVE LockInv'
    <2>1. /\ Len(sessions') = Len(sessions)
          /\ \A r \in 1..Len(sessions) : r # s => sessions'[r] = sessions[r]
      BY <1>4, CompressedType, SummaryExcept DEF CompressReturns, Typing
    <2> QED
      BY <1>4, <2>1, LockInvReleased DEF CompressReturns
  <1>5. ASSUME CompressFails(w, s) PROVE LockInv'
    <2>1. sessions[s] \in Records
      BY ElementOfSeq DEF Typing
    <2>2. Truncated(sessions[s].msgs, Limit) \in Seq(Msgs)
      BY <2>1, TruncatedType DEF Records
    <2>3. /\ Len(sessions') = Len(sessions)
          /\ \A r \in 1..Len(sessions) : r # s => sessions'[r] = sessions[r]
      BY <1>5, <2>2, MsgsExcept DEF CompressFails, Typing
    <2> QED
      BY <1>5, <2>3, LockInvReleased DEF CompressFails
  <1> QED
    BY <1>2, <1>3, <1>4, <1>5

LEMMA LockInvStep == Typing /\ LockInv /\ [Next]_vars => LockInv'
  <1> SUFFICES ASSUME Typing, LockInv, [Next]_vars PROVE LockInv'
    OBVIOUS
  <1>1. ASSUME NEW t \in Turns, Turn(t) PROVE LockInv'
    BY <1>1, LockInvTurn
  <1>2. ASSUME NEW w \in Workers, CompressAll(w) PROVE LockInv'
    <2>1. DOMAIN sessions = 1..Len(sessions)
      BY DEF Typing
    <2> QED
      BY <1>2, <2>1, LockInvCompressAll DEF CompressAll
  <1>3. ASSUME SchedulerCompresses PROVE LockInv'
    <2>1. UNCHANGED <<sessions, lock, prompted>>
      BY <1>3 DEF SchedulerCompresses
    <2>2. \A w \in Workers : todo[w] \subseteq todo'[w]
      BY <1>3 DEF SchedulerCompresses, Typing
    <2> QED
      BY <2>1, <2>2, LockKept
  <1>4. ASSUME UNCHANGED vars PROVE LockInv'
    BY <1>4 DEF LockInv, vars
  <1> QED
    BY <1>1, <1>2, <1>3, <1>4 DEF Next
-----------------------------------------------------------------------------
(* Who compresses: a turn that has answered, until it has been everywhere. *)

LEMMA TodoStep == Typing /\ TodoInv /\ [Next]_vars => TodoInv'
  <1> SUFFICES ASSUME Typing, TodoInv, [Next]_vars PROVE TodoInv'
    OBVIOUS
  <1>1. ASSUME NEW t \in Turns, Turn(t) PROVE TodoInv'
    <2>1. ASSUME place[t] # "compress", todo' = todo, \A u \in Turns \ {t} : place'[u] = place[u]
          PROVE  TodoInv'
      BY <2>1 DEF TodoInv
    <2>2. CASE LookUp(t) \/ NoProvider(t) \/ Create(t) \/ PushPrompt(t) \/ ReadHistory(t) \/ AskFails(t)
               \/ ToolPanics(t) \/ ReadAndStart(t) \/ StreamStarts(t) \/ StreamBreaks(t) \/ StreamFinishes(t)
      BY <2>1, <2>2 DEF LookUp, NoProvider, Begins, Create, PushPrompt, ReadHistory, AskFails, ToolPanics,
                        ReadAndStart, StreamStarts, StreamBreaks, StreamFinishes, Goto, Typing, compressVars
    <2>3. CASE Asks(t)
      BY <2>1, <2>3 DEF Asks, Goto, Typing, compressVars
    <2>4. CASE RunTool(t)
      BY <2>1, <2>4 DEF RunTool, Goto, Typing, compressVars
    <2>5. CASE Reply(t)
      BY <2>5 DEF Reply, Goto, Typing, TodoInv, Workers
    <2>6. CASE TurnEnds(t)
      BY <2>6 DEF TurnEnds, Goto, Typing, TodoInv, compressVars
    <2> QED
      BY <1>1, <2>2, <2>3, <2>4, <2>5, <2>6 DEF Turn, FeishuTurn, HttpTurn
  <1>2. ASSUME NEW w \in Workers, CompressAll(w) PROVE TodoInv'
    <2>1. place' = place /\ \A v \in Workers : todo'[v] \subseteq todo[v]
      <3>1. PICK s \in DOMAIN sessions :
               Skip(w, s) \/ Compress(w, s) \/ CompressReturns(w, s) \/ CompressFails(w, s)
        BY <1>2 DEF CompressAll
      <3>2. place' = place
        BY <3>1 DEF Skip, Compress, CompressReturns, CompressFails, turnVars
      <3>3. todo' = [todo EXCEPT ![w] = @ \ {s}] \/ todo' = todo
        BY <3>1 DEF Skip, Compress, CompressReturns, CompressFails, Release
      <3> QED
        BY <3>2, <3>3 DEF Typing
    <2> QED
      BY <2>1 DEF TodoInv, Workers
  <1>3. CASE SchedulerCompresses
    BY <1>3, ConversationsAssumption DEF SchedulerCompresses, TodoInv, turnVars, Typing
  <1>4. CASE UNCHANGED vars
    BY <1>4 DEF TodoInv, vars
  <1> QED
    BY <1>1, <1>2, <1>3, <1>4 DEF Next
-----------------------------------------------------------------------------
(* Sessions of one name: the names of sessions stay, and a look-up that    *)
(* misses one meets another turn or a compression of the name.             *)

(* A step that creates no session and begins to create none keeps it. *)
LEMMA NamesKept ==
    ASSUME Typing, NamesInv, Len(sessions') = Len(sessions), exposed' = exposed, session' = session,
           sessions' \in Seq(Records),
           \A r \in 1..Len(sessions) : sessions'[r].name = sessions[r].name,
           \A u \in Turns : place'[u] = "create" => place[u] = "create"
    PROVE  NamesInv'
  <1>1. DOMAIN sessions = 1..Len(sessions) /\ DOMAIN sessions' = 1..Len(sessions)
    BY DEF Typing
  <1>2. OneSessionPerName'
    BY <1>1 DEF NamesInv, OneSessionPerName
  <1>3. \A u \in Turns : place'[u] = "create" =>
          /\ \A s \in 1..Len(sessions') : sessions'[s].name = NameOf[u] => NameOf[u] \in exposed'
          /\ \A v \in Turns :
                v # u /\ place'[v] = "create" /\ NameOf[v] = NameOf[u] => NameOf[u] \in exposed'
    BY DEF NamesInv
  <1>4. \A u \in Turns : session'[u] # 0 => sessions'[session'[u]].name = NameOf[u]
    <2>1. \A u \in Turns : session[u] # 0 => session[u] \in 1..Len(sessions)
      BY DEF Typing
    <2> QED
      BY <2>1 DEF NamesInv
  <1> QED
    BY <1>2, <1>3, <1>4 DEF NamesInv

(* A session that a look-up passes over is in use. *)
LEMMA PassedOver ==
    ASSUME Typing, LockInv, TodoInv, NamesInv, NEW t \in Turns, place[t] = "new",
           NEW s \in 1..Len(sessions), sessions[s].name = NameOf[t],
           lock[s] # Free \/ Contended(s)
    PROVE  Overlapped(t)
  <1>1. DOMAIN sessions = 1..Len(sessions) /\ s \in Named(NameOf[t])
    BY DEF Named, Typing
  <1>2. ASSUME NEW w \in Workers, s \in todo[w] PROVE Overlapped(t)
    <2>1. w = Scheduler \/ Live(w)
      BY <1>2 DEF TodoInv, Workers, Live, Ended
    <2> QED
      BY <1>1, <1>2, <2>1 DEF Overlapped
  <1>3. CASE lock[s] # Free
    <2>1. lock[s] \in Workers /\ s \in todo[lock[s]]
      BY <1>3 DEF LockInv, Typing
    <2> QED
      BY <2>1, <1>2
  <1>4. CASE Contended(s)
    <2>1. ASSUME NEW u \in Turns, session[u] = s, place[u] \in {"push", "ask", "calls", "stream"}
          PROVE  Overlapped(t)
      <3>1. session[u] # 0
        BY <2>1
      <3>2. u # t /\ NameOf[u] = NameOf[t] /\ Live(u)
        BY <2>1, <3>1 DEF NamesInv, Live, Ended
      <3> QED
        BY <3>2 DEF Overlapped
    <2> QED
      BY <1>4, <2>1, <1>2 DEF Contended
  <1> QED
    BY <1>3, <1>4

LEMMA NamesLookUp ==
    ASSUME Typing, LockInv, TodoInv, NamesInv, NEW t \in Turns, LookUp(t)
    PROVE  NamesInv'
  <1>1. /\ sessions' = sessions /\ exposed \subseteq exposed' /\ DOMAIN sessions = 1..Len(sessions)
        /\ place[t] = "new" /\ (Overlapped(t) => NameOf[t] \in exposed')
    BY DEF LookUp, Begins, Typing
  <1>2. OneSessionPerName'
    BY <1>1 DEF NamesInv, OneSessionPerName
  <1>3. \A u \in Turns : u # t => place'[u] = place[u]
    BY DEF LookUp, Goto, Typing
  <1>4. \A u \in Turns : u # t /\ place[u] = "create" /\ NameOf[u] = NameOf[t] => NameOf[t] \in exposed'
    <2> SUFFICES ASSUME NEW u \in Turns, u # t, place[u] = "create", NameOf[u] = NameOf[t]
                 PROVE  Overlapped(t)
      BY <1>1
    <2>1. Live(u)
      BY DEF Live, Ended
    <2> QED
      BY <2>1 DEF Overlapped
  <1>5. ASSUME place'[t] = "create"
        PROVE  \A s \in 1..Len(sessions) : sessions[s].name = NameOf[t] => NameOf[t] \in exposed'
    <2> SUFFICES ASSUME NEW s \in 1..Len(sessions), sessions[s].name = NameOf[t]
                 PROVE  Overlapped(t)
      BY <1>1
    <2>1. lock[s] # Free \/ Contended(s)
      <3>1. s \in Named(NameOf[t])
        BY <1>1 DEF Named
      <3> QED
        BY <1>5, <3>1 DEF LookUp, Goto, Typing
    <2> QED
      BY <1>1, <2>1, PassedOver
  <1>6. \A u \in Turns : place'[u] = "create" =>
          \A s \in 1..Len(sessions) : sessions[s].name = NameOf[u] => NameOf[u] \in exposed'
    BY <1>1, <1>3, <1>5 DEF NamesInv
  <1>7. \A u, v \in Turns :
          u # v /\ place'[u] = "create" /\ place'[v] = "create" /\ NameOf[v] = NameOf[u] => NameOf[u] \in exposed'
    BY <1>1, <1>3, <1>4 DEF NamesInv
  <1>8. \A u \in Turns : session'[u] # 0 => sessions'[session'[u]].name = NameOf[u]
    <2>1. CASE session' = session
      BY <1>1, <2>1 DEF NamesInv
    <2>2. ASSUME NEW s \in Named(NameOf[t]), session' = [session EXCEPT ![t] = s]
          PROVE  \A u \in Turns : session'[u] # 0 => sessions'[session'[u]].name = NameOf[u]
      <3>1. session'[t] = s /\ \A u \in Turns : u # t => session'[u] = session[u]
        BY <2>2 DEF Typing
      <3>2. sessions[s].name = NameOf[t]
        BY <2>2 DEF Named
      <3> QED
        BY <1>1, <3>1, <3>2 DEF NamesInv
    <2> QED
      BY <2>1, <2>2 DEF LookUp
  <1> QED
    BY <1>1, <1>2, <1>6, <1>7, <1>8 DEF NamesInv

LEMMA NamesCreate ==
    ASSUME Typing, NamesInv, NEW t \in Turns, Create(t)
    PROVE  NamesInv'
  <1> DEFINE n == Len(sessions) + 1
  <1>1. Len(sessions) \in Nat /\ DOMAIN sessions = 1..Len(sessions)
    BY LenProperties DEF Typing
  <1>2. /\ DOMAIN sessions' = 1..n /\ Len(sessions') = n /\ sessions'[n].name = NameOf[t]
        /\ \A r \in 1..Len(sessions) : sessions'[r] = sessions[r]
    BY <1>1, AppendProperties DEF Create, NewSession, Typing
  <1>3. exposed' = exposed /\ place[t] = "create" /\ place'[t] # "create"
        /\ \A u \in Turns : u # t => place'[u] = place[u]
    BY DEF Create, Goto, Typing, notes
  <1>4. \A r \in 1..Len(sessions) : sessions[r].name = NameOf[t] => NameOf[t] \in exposed
    BY <1>3 DEF NamesInv
  <1>5. \A r \in 1..n : r = n \/ r \in 1..Len(sessions)
    BY <1>1
  <1> HIDE DEF n
  <1>6. OneSessionPerName'
    BY <1>1, <1>2, <1>3, <1>4, <1>5 DEF NamesInv, OneSessionPerName
  <1>7. \A u \in Turns : place'[u] = "create" =>
          \A s \in 1..Len(sessions') : sessions'[s].name = NameOf[u] => NameOf[u] \in exposed'
    BY <1>2, <1>3, <1>5 DEF NamesInv
  <1>8. \A u, v \in Turns :
          u # v /\ place'[u] = "create" /\ place'[v] = "create" /\ NameOf[v] = NameOf[u] => NameOf[u] \in exposed'
    BY <1>3 DEF NamesInv
  <1>9. \A u \in Turns : session'[u] # 0 => sessions'[session'[u]].name = NameOf[u]
    <2>1. session'[t] = n /\ \A u \in Turns : u # t => session'[u] = session[u]
      BY DEF Create, Typing, n
    <2>2. \A u \in Turns : session[u] # 0 => session[u] \in 1..Len(sessions)
      BY DEF Typing
    <2> QED
      BY <1>2, <2>1, <2>2 DEF NamesInv
  <1> QED
    BY <1>6, <1>7, <1>8, <1>9 DEF NamesInv

LEMMA NamesStep == Typing /\ LockInv /\ TodoInv /\ NamesInv /\ [Next]_vars => NamesInv'
  <1> SUFFICES ASSUME Typing, LockInv, TodoInv, NamesInv, [Next]_vars PROVE NamesInv'
    OBVIOUS
  <1>1. sessions \in Seq(Records) /\ DOMAIN sessions = 1..Len(sessions)
    BY DEF Typing
  <1>2. ASSUME NEW t \in Turns, Turn(t) PROVE NamesInv'
    <2>1. ASSUME PushPrompt(t) \/ Asks(t) \/ RunTool(t) \/ StreamFinishes(t) PROVE NamesInv'
      <3>1. exposed' = exposed /\ session' = session
            /\ \A u \in Turns : place'[u] = "create" => place[u] = "create"
        BY <2>1 DEF PushPrompt, Asks, RunTool, StreamFinishes, Goto, Typing, notes
      <3>2. /\ sessions' \in Seq(Records) /\ Len(sessions') = Len(sessions)
            /\ \A r \in 1..Len(sessions) : sessions'[r].name = sessions[r].name
        BY <2>1, PushesMessage, PushEffect
      <3> QED
        BY <3>1, <3>2, NamesKept
    <2>2. ASSUME \/ NoProvider(t) \/ ReadHistory(t) \/ AskFails(t) \/ ToolPanics(t) \/ Reply(t)
                 \/ TurnEnds(t) \/ ReadAndStart(t) \/ StreamStarts(t) \/ StreamBreaks(t)
          PROVE  NamesInv'
      <3>1. /\ exposed' = exposed /\ sessions' = sessions /\ session' = session
            /\ \A u \in Turns : place'[u] = "create" => place[u] = "create"
        BY <2>2 DEF NoProvider, ReadHistory, AskFails, ToolPanics, Reply, TurnEnds, ReadAndStart,
                    StreamStarts, StreamBreaks, Goto, Typing, notes
      <3> QED
        BY <1>1, <3>1, NamesKept
    <2> QED
      BY <1>2, <2>1, <2>2, NamesLookUp, NamesCreate DEF Turn, FeishuTurn, HttpTurn
  <1>3. ASSUME NEW w \in Workers, CompressAll(w) PROVE NamesInv'
    <2>1. PICK s \in 1..Len(sessions) :
             Skip(w, s) \/ Compress(w, s) \/ CompressReturns(w, s) \/ CompressFails(w, s)
      BY <1>1, <1>3 DEF CompressAll
    <2>2. exposed' = exposed /\ place' = place /\ session' = session
      BY <2>1 DEF Skip, Compress, CompressReturns, CompressFails, turnVars, notes
    <2>3. /\ sessions' \in Seq(Records) /\ Len(sessions') = Len(sessions)
          /\ \A r \in 1..Len(sessions) : sessions'[r].name = sessions[r].name
      <3>1. CASE Skip(w, s) \/ Compress(w, s)
        BY <1>1, <3>1 DEF Skip, Compress
      <3>2. CASE CompressReturns(w, s)
        <4>1. sessions' = [sessions EXCEPT ![s].msgs = Compressed, ![s].summary = TRUE]
          BY <3>2 DEF CompressReturns
        <4>2. LET new == [sessions EXCEPT ![s].msgs = Compressed, ![s].summary = TRUE] IN
              /\ new \in Seq(Records) /\ Len(new) = Len(sessions)
              /\ \A r \in 1..Len(sessions) : new[r].name = sessions[r].name
              /\ \A r \in 1..Len(sessions) : r # s => new[r] = sessions[r]
              /\ new[s].msgs = Compressed /\ new[s].summary
          BY <1>1, CompressedType, SummaryExcept, Zenon
        <4> QED
          BY <4>1, <4>2
      <3>3. CASE CompressFails(w, s)
        <4>1. sessions[s] \in Records
          BY <1>1, ElementOfSeq
        <4>2. Truncated(sessions[s].msgs, Limit) \in Seq(Msgs)
          BY <4>1, TruncatedType DEF Records
        <4> QED
          BY <1>1, <3>3, <4>2, MsgsExcept DEF CompressFails
      <3> QED
        BY <2>1, <3>1, <3>2, <3>3
    <2> QED
      BY <2>2, <2>3, NamesKept
  <1>4. ASSUME SchedulerCompresses \/ UNCHANGED vars PROVE NamesInv'
    BY <1>1, <1>4, NamesKept DEF SchedulerCompresses, turnVars, vars, notes
  <1> QED
    BY <1>2, <1>3, <1>4 DEF Next
-----------------------------------------------------------------------------
(* What a turn has answered, at each place of it. *)

Before == {"new", "create", "push", "read", "start", "stream"}
Within == {"ask", "calls", "reply"}
After == {"compress", "over"}

(* A step that answers nobody keeps it, if it leaves each turn among the   *)
(* places that say the same of it.                                         *)
LEMMA AnswersKept ==
    ASSUME AnswersInv, UNCHANGED <<answers, replied>>,
           \A u \in Turns :
              \/ place'[u] = place[u]
              \/ place'[u] \in {"failed", "panicked"}
              \/ place[u] \in Before /\ place'[u] \in Before
              \/ place[u] \in Before \cup Within /\ place'[u] \in Within
              \/ place[u] \in After /\ place'[u] \in After
    PROVE  AnswersInv'
  <1> SUFFICES ASSUME NEW u \in Turns
               PROVE  /\ place'[u] \in Before => answers[u] = <<>> /\ ~replied[u]
                      /\ place'[u] \in Within => OnlyReplies(u)
                      /\ place'[u] \in After =>
                            (OnlyReplies(u) /\ replied[u]) \/ answers[u] \in {<<"final">>, <<"lost">>}
    BY DEF AnswersInv, OnlyReplies, Before, Within, After
  <1>1. Len(<<>>) = 0
    OBVIOUS
  <1>2. answers[u] = <<>> /\ ~replied[u] => OnlyReplies(u)
    BY <1>1 DEF OnlyReplies
  <1>3. /\ place[u] \in Before => answers[u] = <<>> /\ ~replied[u]
        /\ place[u] \in Within => OnlyReplies(u)
        /\ place[u] \in After =>
              (OnlyReplies(u) /\ replied[u]) \/ answers[u] \in {<<"final">>, <<"lost">>}
    BY DEF AnswersInv, Before, Within, After
  <1> QED
    BY <1>2, <1>3 DEF Before, Within, After

LEMMA AnswersRunTool ==
    ASSUME Typing, AnswersInv, NEW t \in Turns, RunTool(t)
    PROVE  AnswersInv'
  <1>1. PICK delivered \in BOOLEAN :
           /\ replied' = [replied EXCEPT ![t] = @ \/ delivered]
           /\ answers' = [answers EXCEPT ![t] = IF delivered THEN Append(@, "reply") ELSE @]
    BY DEF RunTool
  <1>2. OnlyReplies(t)
    BY DEF RunTool, AnswersInv
  <1>3. answers[t] \in Seq({"reply", "final", "lost", "fallback"}) /\ Len(answers[t]) \in Nat
    BY DEF Typing
  <1>4. answers'[t] = (IF delivered THEN Append(answers[t], "reply") ELSE answers[t])
        /\ replied'[t] = (replied[t] \/ delivered)
    BY <1>1 DEF Typing
  <1>5. OnlyReplies(t)'
    <2>1. CASE delivered
      <3>1. answers'[t] = Append(answers[t], "reply") /\ replied'[t]
        BY <1>4, <2>1
      <3>2. /\ Len(answers'[t]) = Len(answers[t]) + 1
            /\ \A i \in 1..Len(answers'[t]) : answers'[t][i] = "reply"
        BY <1>2, <1>3, <3>1, AppendProperties DEF OnlyReplies
      <3>3. answers'[t] # <<>>
        BY <1>3, <3>2
      <3> QED
        BY <3>1, <3>2, <3>3 DEF OnlyReplies
    <2>2. CASE ~delivered
      BY <1>2, <1>4, <2>2 DEF OnlyReplies
    <2> QED
      BY <1>1, <2>1, <2>2
  <1>6. place'[t] \in Within
    BY DEF RunTool, Goto, Typing, Within
  <1>7. \A u \in Turns : u # t => /\ place'[u] = place[u] /\ answers'[u] = answers[u]
                                 /\ replied'[u] = replied[u]
    BY <1>1 DEF RunTool, Goto, Typing
  <1> QED
    BY <1>5, <1>6, <1>7 DEF AnswersInv, OnlyReplies, Within

LEMMA AnswersReply ==
    ASSUME Typing, AnswersInv, NEW t \in Turns, Reply(t)
    PROVE  AnswersInv'
  <1>1. /\ OnlyReplies(t) /\ place'[t] = "compress"
        /\ replied' = replied
    BY DEF Reply, AnswersInv, Goto, Typing
  <1>2. PICK sent \in {"final", "lost"} :
           answers' = [answers EXCEPT ![t] = IF replied[t] THEN @ ELSE Append(@, sent)]
    BY DEF Reply
  <1>3. (OnlyReplies(t) /\ replied[t])' \/ answers'[t] \in {<<"final">>, <<"lost">>}
    <2>3. answers'[t] = IF replied[t] THEN answers[t] ELSE Append(answers[t], sent)
      BY <1>2 DEF Typing
    <2>1. CASE replied[t]
      BY <1>1, <2>1, <2>3 DEF OnlyReplies
    <2>2. CASE ~replied[t]
      <3>1. answers[t] = <<>> /\ answers'[t] = Append(answers[t], sent)
        BY <1>1, <2>2, <2>3 DEF OnlyReplies
      <3>2. Append(<<>>, "final") = <<"final">> /\ Append(<<>>, "lost") = <<"lost">>
        OBVIOUS
      <3> QED
        BY <3>1, <3>2
    <2> QED
      BY <2>1, <2>2
  <1>4. \A u \in Turns : u # t => /\ place'[u] = place[u] /\ answers'[u] = answers[u]
                                 /\ replied'[u] = replied[u]
    BY <1>2 DEF Reply, Goto, Typing
  <1> QED
    BY <1>1, <1>3, <1>4 DEF AnswersInv, OnlyReplies

LEMMA AnswersStep == Typing /\ AnswersInv /\ [Next]_vars => AnswersInv'
  <1> SUFFICES ASSUME Typing, AnswersInv, [Next]_vars PROVE AnswersInv'
    OBVIOUS
  <1>1. ASSUME NEW t \in Turns, Turn(t) PROVE AnswersInv'
    <2>6. ASSUME LookUp(t) PROVE AnswersInv'
      <3>1. place[t] = "new" /\ place'[t] \in {"create", "push", "read"}
            /\ UNCHANGED <<answers, replied>> /\ \A u \in Turns : u # t => place'[u] = place[u]
        BY <2>6 DEF LookUp, Begins, Goto, Typing
      <3> QED
        BY <3>1, AnswersKept DEF Before
    <2>1. ASSUME Create(t) \/ PushPrompt(t) \/ ReadAndStart(t) \/ StreamStarts(t)
                 \/ StreamBreaks(t)
          PROVE  AnswersInv'
      BY <2>1, AnswersKept DEF Create, PushPrompt, ReadAndStart, StreamStarts, StreamBreaks,
                               Goto, Typing, Before
    <2>2. ASSUME ReadHistory(t) \/ Asks(t) \/ ToolPanics(t) \/ TurnEnds(t)
          PROVE  AnswersInv'
      BY <2>2, AnswersKept DEF ReadHistory, Asks, ToolPanics, TurnEnds, Goto, Typing,
                               Before, Within, After
    <2>5. ASSUME NoProvider(t) PROVE AnswersInv'
      BY <2>5 DEF NoProvider, Goto, Typing, AnswersInv, OnlyReplies
    <2>3. ASSUME AskFails(t) PROVE AnswersInv'
      BY <2>3 DEF AskFails, Goto, Typing, AnswersInv, OnlyReplies
    <2>4. ASSUME StreamFinishes(t) PROVE AnswersInv'
      <3>1. answers[t] = <<>>
        BY <2>4 DEF StreamFinishes, AnswersInv
      <3>2. answers'[t] = <<"final">> /\ place'[t] = "over"
        BY <2>4, <3>1 DEF StreamFinishes, Goto, Typing
      <3>3. \A u \in Turns : u # t => /\ place'[u] = place[u] /\ answers'[u] = answers[u]
                                     /\ replied'[u] = replied[u]
        BY <2>4 DEF StreamFinishes, Goto, Typing
      <3>4. answers'[t] \in {<<"final">>, <<"lost">>}
        BY <3>2
      <3> QED
        <4> SUFFICES ASSUME NEW u \in Turns
                     PROVE  (/\ place[u] \in Before => answers[u] = <<>> /\ ~replied[u]
                             /\ place[u] \in Within => OnlyReplies(u)
                             /\ place[u] \in After => (OnlyReplies(u) /\ replied[u])
                                  \/ answers[u] \in {<<"final">>, <<"lost">>})'
          BY DEF AnswersInv, Before, Within, After
        <4>1. CASE u = t
          BY <3>2, <3>4, <4>1 DEF Before, Within, After
        <4>2. CASE u # t
          BY <3>3, <4>2 DEF AnswersInv, OnlyReplies, Before, Within, After
        <4> QED
          BY <4>1, <4>2
    <2> QED
      BY <1>1, <2>1, <2>2, <2>3, <2>4, <2>5, <2>6, AnswersRunTool, AnswersReply DEF Turn, FeishuTurn, HttpTurn
  <1>2. ASSUME \/ \E w \in Workers : CompressAll(w)
               \/ SchedulerCompresses \/ UNCHANGED vars
        PROVE  AnswersInv'
    <2>1. UNCHANGED <<place, answers, replied>>
      BY <1>2 DEF CompressAll, Skip, Compress, CompressReturns, CompressFails, SchedulerCompresses,
                  turnVars, vars
    <2> QED
      BY <2>1, AnswersKept
  <1> QED
    BY <1>1, <1>2 DEF Next
-----------------------------------------------------------------------------
LEMMA InitInv == Init => IInv
  <1> SUFFICES ASSUME Init PROVE IInv
    OBVIOUS
  <1>1. Typing
    BY TypingInit
  <1>2. sessions = <<>> /\ Len(sessions) = 0 /\ DOMAIN sessions = {}
    BY DEF Init
  <1>3. LockInv
    BY <1>2 DEF LockInv
  <1>4. NamesInv
    BY <1>2 DEF NamesInv, OneSessionPerName, Init
  <1>5. AnswersInv
    BY DEF AnswersInv, Init
  <1>6. TodoInv
    BY DEF TodoInv, Init, Workers
  <1> QED
    BY <1>1, <1>3, <1>4, <1>5, <1>6 DEF IInv

(* The four parts together hold in every state: a lock has its             *)
(* compression, a name its session, and a turn the answers its place       *)
(* allows, however the turns, the compressions and the panics interleave.  *)
THEOREM InductiveInvariant == Spec => []IInv
  <1>1. IInv /\ [Next]_vars => IInv'
    BY TypingStep, LockInvStep, TodoStep, NamesStep, AnswersStep DEF IInv
  <1> QED
    BY <1>1, InitInv, PTL DEF Spec

(* The variables have their types: a locked session is one its compression *)
(* still has to finish, and a turn that runs calls has one left and a      *)
(* round to spare (MAX_TOOL_ROUNDS).                                       *)
THEOREM TypeCorrect == Spec => []TypeOK
  <1>1. IInv => TypeOK
    <2> SUFFICES ASSUME IInv PROVE TypeOK
      OBVIOUS
    <2>1. /\ sessions \in Seq(Records) /\ DOMAIN sessions = 1..Len(sessions)
          /\ DOMAIN lock = 1..Len(sessions)
          /\ \A s \in 1..Len(sessions) : lock[s] \in Workers \cup {Free}
      BY DEF IInv, Typing
    <2>2. \A s \in 1..Len(sessions) : sessions[s].name \in Names
      <3> SUFFICES ASSUME NEW s \in 1..Len(sessions) PROVE sessions[s].name \in Names
        OBVIOUS
      <3>1. sessions[s] \in Records
        BY <2>1, ElementOfSeq
      <3> QED
        BY <3>1 DEF Records
    <2>3. todo \in [Workers -> SUBSET (DOMAIN sessions)] /\ torn \subseteq DOMAIN sessions
      BY <2>1 DEF IInv, Typing
    <2>4. \A s \in DOMAIN sessions : /\ sessions[s].name \in {NameOf[t] : t \in Turns}
                                     /\ lock[s] \in Workers \cup {Free}
                                     /\ lock[s] # Free => s \in todo[lock[s]]
      BY <2>1, <2>2 DEF IInv, LockInv, Names
    <2> QED
      BY <2>1, <2>3, <2>4 DEF IInv, Typing, TypeOK, Names
  <1> QED
    BY <1>1, InductiveInvariant, PTL

(* No turn pushes to a session whose messages are being summarised, of     *)
(* however many turns and sessions: what the summary replaces is what the  *)
(* flash model has read (compress_all, Session's lock).                    *)
THEOREM AtomicCompression == Spec => []CompressionIsAtomic
  <1>1. IInv => CompressionIsAtomic
    BY DEF IInv, Typing, LockInv, CompressionIsAtomic
  <1> QED
    BY <1>1, InductiveInvariant, PTL

(* A chat has two sessions only if it was looked up while another turn of  *)
(* it was under way or while a compression had yet to finish with its      *)
(* session: turns of a chat that do not overlap, one in the queue after    *)
(* the other, share theirs.                                                *)
THEOREM OneSession == Spec => []OneSessionPerName
  <1>1. IInv => OneSessionPerName
    BY DEF IInv, NamesInv
  <1> QED
    BY <1>1, InductiveInvariant, PTL

(* A turn that ends well has answered its user by replies of the model, or *)
(* has tried to send one final text, and never both, whatever the model    *)
(* answers and however many deliveries fail (replied_to_user).  The final  *)
(* text may be lost: process_feishu_chat only logs that.                   *)
THEOREM OneAnswer == Spec => []AnsweredOnce
  <1>1. IInv => AnsweredOnce
    <2> SUFFICES ASSUME IInv, NEW t \in Turns, place[t] = "over"
                 PROVE  LET finals == {i \in DOMAIN answers[t] : answers[t][i] \in {"final", "lost"}} IN
                        IF \E i \in DOMAIN answers[t] : answers[t][i] = "reply" THEN finals = {}
                        ELSE Cardinality(finals) = 1
      BY DEF AnsweredOnce
    <2>1. CASE OnlyReplies(t) /\ replied[t]
      <3>1. /\ answers[t] \in Seq({"reply", "final", "lost", "fallback"}) /\ answers[t] # <<>>
            /\ \A i \in 1..Len(answers[t]) : answers[t][i] = "reply"
        BY <2>1 DEF OnlyReplies, IInv, Typing
      <3>2. DOMAIN answers[t] = 1..Len(answers[t]) /\ 1 \in 1..Len(answers[t])
        BY <3>1
      <3> QED
        BY <3>1, <3>2
    <2>2. CASE answers[t] \in {<<"final">>, <<"lost">>}
      <3>1. DOMAIN answers[t] = {1} /\ answers[t][1] \in {"final", "lost"}
        BY <2>2
      <3>2. {i \in DOMAIN answers[t] : answers[t][i] \in {"final", "lost"}} = {1}
        BY <3>1
      <3>3. Cardinality({1}) = 1
        BY FS_Singleton
      <3> QED
        BY <3>1, <3>2, <3>3
    <2> QED
      BY <2>1, <2>2 DEF IInv, AnswersInv
  <1> QED
    BY <1>1, InductiveInvariant, PTL

-----------------------------------------------------------------------------
(***************************************************************************)
(* What the turns send.  A session that is not torn is tidy, and while a   *)
(* turn runs the calls of an answer, both its request and its session end  *)
(* in the results so far.                                                  *)
(***************************************************************************)
FeishuNames == {NameOf[t] : t \in FeishuTurns}
WebNames == {NameOf[t] : t \in Turns \ FeishuTurns}

(* Nothing but texts. *)
Plain(ms) == \A i \in DOMAIN ms : ms[i].calls = <<>> /\ ~IsTool(ms[i])

(* The calls of ids have yet to run: nothing else is missing in ms; and    *)
(* without them it is accepted.                                            *)
EndsTidy(ms, ids) ==
    \E b, c \in Seq(Msgs) : ms = b \o c /\ Tidy(b) /\ Run(c, ids)
EndsWell(ms, ids) ==
    \E b, c \in Seq(Msgs) : ms = b \o c /\ WellFormed(b) /\ Run(c, ids)

LEMMA MsgsAre == Msgs = Messages(Ids)
  <1>1. <<>> \in Ids
    BY DEF Ids
  <1>2. Ids \cup {<<>>} = Ids
    BY <1>1
  <1> QED BY <1>2, Zenon DEF Msgs, Messages

LEMMA AppendToRun ==
    ASSUME NEW b \in Seq(Msgs), NEW c \in Seq(Msgs), NEW m \in Msgs
    PROVE  Append(b \o c, m) = b \o Append(c, m)
  <1> DEFINE x == Append(b \o c, m)
             y == b \o Append(c, m)
  <1>1. x \in Seq(Msgs) /\ y \in Seq(Msgs) /\ Len(x) = Len(y)
    BY ConcatProperties, AppendProperties, LenProperties
  <1>2. \A i \in 1..Len(x) : x[i] = y[i]
    BY ConcatProperties, AppendProperties, LenProperties
  <1> HIDE DEF x, y
  <1>3. x = y
    BY <1>1, <1>2, SeqEqual
  <1> QED BY <1>3 DEF x, y

LEMMA RunStarts ==
    ASSUME NEW ids \in Seq(Ids), NEW reason \in BOOLEAN
    PROVE  /\ Answer(ids, reason) \in Msgs /\ ~IsTool(Answer(ids, reason))
           /\ Answer(ids, reason).calls = ids
           /\ Answer(ids, reason).reason = (reason /\ ids # <<>>)
           /\ <<Answer(ids, reason)>> \in Seq(Msgs)
           /\ Run(<<Answer(ids, reason)>>, ids)
  <1> DEFINE m == Answer(ids, reason)
             c == <<m>>
  <1>1. m \in Msgs
    BY MessageTypes
  <1>2. m.calls = ids /\ ~IsTool(m) /\ m.reason = (reason /\ ids # <<>>)
    BY DEF Answer, Assistant, Message, IsTool
  <1> HIDE DEF m
  <1>3. c \in Seq(Msgs) /\ Len(c) = 1 /\ c[1] = m /\ c # <<>>
    BY <1>1
  <1> HIDE DEF c
  <1>4. Len(ids) \in Nat
    BY LenProperties
  <1>5. Len(c) - 1 = 0 /\ \A x \in Nat : 0 + x = x
    BY <1>3
  <1>6. Len(c[1].calls) = (Len(c) - 1) + Len(ids)
    BY <1>2, <1>3, <1>4, <1>5
  <1>7. \A i \in 1..Len(ids) : (Len(c) - 1) + i = i
    BY <1>3, <1>4
  <1>8. \A i \in 1..Len(ids) : c[1].calls[(Len(c) - 1) + i] = ids[i]
    BY <1>2, <1>3, <1>7
  <1>9. \A j \in 2..Len(c) : FALSE
    BY <1>3
  <1>10. Run(c, ids)
    BY <1>2, <1>3, <1>6, <1>8, <1>9 DEF Run
  <1> QED BY <1>1, <1>2, <1>3, <1>10 DEF m, c

(* An answer with calls is appended ... *)
LEMMA EndsStart ==
    ASSUME NEW ms \in Seq(Msgs), NEW ids \in Seq(Ids), NEW reason \in BOOLEAN
    PROVE  /\ Tidy(ms) => EndsTidy(Append(ms, Answer(ids, reason)), ids)
           /\ WellFormed(ms) => EndsWell(Append(ms, Answer(ids, reason)), ids)
  <1>1. /\ Answer(ids, reason) \in Msgs /\ <<Answer(ids, reason)>> \in Seq(Msgs)
        /\ Run(<<Answer(ids, reason)>>, ids)
    BY RunStarts
  <1> DEFINE m == Answer(ids, reason)
  <1> HIDE DEF m
  <1>2. Append(ms, m) = ms \o <<m>>
    BY <1>1, AppendIsConcat DEF m
  <1> QED BY <1>1, <1>2, Zenon DEF EndsTidy, EndsWell, m

(* ... and a result of the next call. *)
LEMMA EndsStep ==
    ASSUME NEW ms, NEW ids \in Seq(Ids), ids # <<>>
    PROVE  /\ EndsTidy(ms, ids) => EndsTidy(Append(ms, Result(ids[1])), Tail(ids))
           /\ EndsWell(ms, ids) => EndsWell(Append(ms, Result(ids[1])), Tail(ids))
  <1>1. ids[1] \in Ids
    <2>1. Len(ids) \in Nat /\ Len(ids) # 0
      BY LenProperties, EmptySeq
    <2> QED BY <2>1, ElementOfSeq
  <1>2. Result(ids[1]) \in Msgs
    BY <1>1, MessageTypes
  <1>3. ASSUME NEW b \in Seq(Msgs), NEW c \in Seq(Msgs), ms = b \o c, Run(c, ids)
        PROVE  /\ Append(c, Result(ids[1])) \in Seq(Msgs)
               /\ Append(ms, Result(ids[1])) = b \o Append(c, Result(ids[1]))
               /\ Run(Append(c, Result(ids[1])), Tail(ids))
    <2>1. Append(c, Result(ids[1])) \in Seq(Msgs)
      BY <1>2, AppendProperties
    <2>2. Append(ms, Result(ids[1])) = b \o Append(c, Result(ids[1]))
      BY <1>2, <1>3, AppendToRun
    <2>3. c \in Seq(Messages(Ids)) /\ Result(ids[1]) \in Messages(Ids)
      BY <1>2, MsgsAre
    <2>4. Run(Append(c, Result(ids[1])), Tail(ids))
      BY <1>3, <2>3, RunStep
    <2> QED BY <2>1, <2>2, <2>4
  <1>4. ASSUME EndsTidy(ms, ids) PROVE EndsTidy(Append(ms, Result(ids[1])), Tail(ids))
    <2>1. PICK b, c \in Seq(Msgs) : ms = b \o c /\ Tidy(b) /\ Run(c, ids)
      BY <1>4 DEF EndsTidy
    <2> QED BY <2>1, <1>3, Zenon DEF EndsTidy
  <1>5. ASSUME EndsWell(ms, ids) PROVE EndsWell(Append(ms, Result(ids[1])), Tail(ids))
    <2>1. PICK b, c \in Seq(Msgs) : ms = b \o c /\ WellFormed(b) /\ Run(c, ids)
      BY <1>5 DEF EndsWell
    <2> QED BY <2>1, <1>3, Zenon DEF EndsWell
  <1> QED BY <1>4, <1>5

LEMMA EndsDone ==
    ASSUME NEW ms, NEW ids \in Seq(Ids)
    PROVE  /\ EndsTidy(ms, ids) => Tidy(ms)
           /\ EndsWell(ms, ids) /\ ids = <<>> => WellFormed(ms)
  <1>1. Len(ids) \in Nat
    BY LenProperties
  <1>2. ASSUME EndsTidy(ms, ids) PROVE Tidy(ms)
    <2>1. PICK b, c \in Seq(Msgs) : ms = b \o c /\ Tidy(b) /\ Run(c, ids)
      BY <1>2 DEF EndsTidy
    <2>2. b \in Seq(Messages(Ids)) /\ c \in Seq(Messages(Ids))
      BY MsgsAre
    <2> QED BY <1>1, <2>1, <2>2, TidyRun
  <1>3. ASSUME EndsWell(ms, ids), ids = <<>> PROVE WellFormed(ms)
    <2>1. PICK b, c \in Seq(Msgs) : ms = b \o c /\ WellFormed(b) /\ Run(c, ids)
      BY <1>3 DEF EndsWell
    <2>2. b \in Seq(Messages(Ids)) /\ c \in Seq(Messages(Ids))
      BY MsgsAre
    <2>3. Len(ids) = 0
      BY <1>3, EmptySeq
    <2>4. WellFormed(c)
      BY <2>1, <2>2, <2>3, RunDone
    <2> QED BY <2>1, <2>2, <2>4, WellFormedConcat
  <1> QED BY <1>2, <1>3

(* The history of a session, as it is sent. *)
LEMMA ContextIs ==
    ASSUME NEW ms \in Seq(Msgs), NEW summary \in BOOLEAN
    PROVE  /\ context(ms, summary) \in Seq(Msgs)
           /\ \A m \in Msgs : context(Append(ms, m), summary) = Append(context(ms, summary), m)
           /\ Plain(ms) => Plain(context(ms, summary))
  <1>1. Summary \in Msgs /\ ~IsTool(Summary) /\ Summary.calls = <<>>
    <2>1. <<>> \in Ids /\ <<>> \in Seq(Ids)
      BY DEF Ids
    <2> HIDE DEF Ids
    <2> QED BY <2>1 DEF Summary, Message, Msgs, Roles, IsTool
  <1> DEFINE s == <<Summary>>
  <1>2. s \in Seq(Msgs) /\ Len(s) = 1 /\ s[1] = Summary
    BY <1>1
  <1> HIDE DEF s
  <1>3. s \o ms \in Seq(Msgs) /\ Len(s \o ms) = 1 + Len(ms) /\ Len(ms) \in Nat
    BY <1>2, ConcatProperties, LenProperties
  <1>4. \A m \in Msgs : s \o Append(ms, m) = Append(s \o ms, m)
    BY <1>2, AppendToRun
  <1>5. ASSUME Plain(ms) PROVE Plain(s \o ms)
    <2>1. DOMAIN (s \o ms) = 1..(1 + Len(ms)) /\ DOMAIN ms = 1..Len(ms)
      BY <1>3, LenProperties
    <2>2. (s \o ms)[1] = Summary /\ \A i \in 1..Len(ms) : (s \o ms)[1 + i] = ms[i]
      BY <1>2, <1>3, ConcatProperties
    <2>3. \A i \in 1..(1 + Len(ms)) : i = 1 \/ (i - 1 \in 1..Len(ms) /\ 1 + (i - 1) = i)
      BY <1>3
    <2>4. ASSUME NEW i \in 1..(1 + Len(ms))
          PROVE  (s \o ms)[i].calls = <<>> /\ ~IsTool((s \o ms)[i])
      <3>1. CASE i = 1
        BY <3>1, <2>2, <1>1
      <3>2. CASE i - 1 \in 1..Len(ms) /\ 1 + (i - 1) = i
        <4>1. (s \o ms)[i] = ms[i - 1]
          BY <3>2, <2>2
        <4> QED BY <4>1, <3>2, <2>1, <1>5 DEF Plain
      <3> QED BY <3>1, <3>2, <2>3
    <2> QED BY <2>1, <2>4 DEF Plain
  <1>6. CASE summary
    BY <1>3, <1>4, <1>5, <1>6 DEF context, s
  <1>7. CASE ~summary
    BY <1>7 DEF context
  <1> QED BY <1>6, <1>7

LEMMA PlainIs ==
    ASSUME NEW ms \in Seq(Msgs), Plain(ms)
    PROVE  /\ WellFormed(ms) /\ Tidy(ms)
           /\ \A m \in Msgs : m.calls = <<>> /\ ~IsTool(m) => Plain(Append(ms, m))
           /\ Plain(Truncated(ms, Limit))
  <1>1. WellFormed(ms) /\ Tidy(ms)
    BY DEF Plain, WellFormed, Tidy
  <1>2. Len(ms) \in Nat /\ DOMAIN ms = 1..Len(ms)
    BY LenProperties
  <1>3. ASSUME NEW m \in Msgs, m.calls = <<>>, ~IsTool(m) PROVE Plain(Append(ms, m))
    <2>1. /\ DOMAIN Append(ms, m) = 1..(Len(ms) + 1)
          /\ Append(ms, m)[Len(ms) + 1] = m
          /\ \A i \in 1..Len(ms) : Append(ms, m)[i] = ms[i]
      BY <1>2, AppendProperties
    <2>2. \A i \in 1..(Len(ms) + 1) : i = Len(ms) + 1 \/ i \in 1..Len(ms)
      BY <1>2
    <2> QED BY <1>2, <1>3, <2>1, <2>2 DEF Plain
  <1>4. Plain(Truncated(ms, Limit))
    <2> DEFINE n == IF Limit > 2 THEN Limit ELSE 2
    <2>1. n \in Nat /\ n >= 2
      BY ConversationsAssumption
    <2>2. Truncated(ms, Limit) = IF Len(ms) <= n THEN ms ELSE SubSeq(ms, Len(ms) - n + 1, Len(ms))
      BY DEF Truncated
    <2> HIDE DEF n
    <2>3. CASE Len(ms) > n
      <3> DEFINE w == SubSeq(ms, Len(ms) - n + 1, Len(ms))
      <3>1. \A i \in (Len(ms) - n + 1)..Len(ms) : ms[i] \in Msgs
        BY <1>2, <2>1, <2>3, ElementOfSeq
      <3>2. /\ w \in Seq(Msgs)
            /\ Len(w) = IF Len(ms) - n + 1 <= Len(ms) THEN Len(ms) - (Len(ms) - n + 1) + 1 ELSE 0
            /\ \A i \in 1..(Len(ms) - (Len(ms) - n + 1) + 1) : w[i] = ms[Len(ms) - n + 1 + i - 1]
        BY <1>2, <2>1, <2>3, <3>1, SubSeqProperties
      <3> HIDE DEF w
      <3>3. Len(w) = n /\ \A i \in 1..n : w[i] = ms[(Len(ms) - n) + i] /\ (Len(ms) - n) + i \in 1..Len(ms)
        BY <3>2, <1>2, <2>1, <2>3
      <3>4. DOMAIN w = 1..n
        BY <3>2, <3>3, LenProperties
      <3>5. Plain(w)
        BY <3>3, <3>4, <1>2 DEF Plain
      <3>6. Truncated(ms, Limit) = w
        BY <1>2, <2>1, <2>2, <2>3 DEF w
      <3> QED BY <3>5, <3>6
    <2>4. CASE ~(Len(ms) > n)
      <3>1. Truncated(ms, Limit) = ms
        BY <1>2, <2>1, <2>2, <2>4
      <3> QED BY <3>1
    <2> QED BY <2>3, <2>4
  <1> QED BY <1>1, <1>3, <1>4

LEMMA TruncatedTidy ==
    ASSUME NEW ms \in Seq(Msgs), Tidy(ms)
    PROVE  Tidy(Truncated(ms, Limit))
  <1> DEFINE n == IF Limit > 2 THEN Limit ELSE 2
  <1>1. n \in Nat /\ n >= 2
    BY ConversationsAssumption
  <1>2. Truncated(ms, Limit) = IF Len(ms) <= n THEN ms ELSE SubSeq(ms, Len(ms) - n + 1, Len(ms))
    BY DEF Truncated
  <1> HIDE DEF n
  <1>3. Len(ms) \in Nat
    BY LenProperties
  <1>4. CASE Len(ms) > n
    <2> DEFINE p == Len(ms) - n
    <2>1. p \in Nat /\ p < Len(ms)
      BY <1>1, <1>3, <1>4
    <2>2. ms \in Seq(Messages(Ids))
      BY MsgsAre
    <2>3. Truncated(ms, Limit) = SubSeq(ms, p + 1, Len(ms))
      BY <1>1, <1>2, <1>3, <1>4
    <2> HIDE DEF p
    <2>4. Tidy(SubSeq(ms, p + 1, Len(ms)))
      BY <2>1, <2>2, TidySuffix
    <2> QED BY <2>3, <2>4
  <1>5. CASE ~(Len(ms) > n)
    <2>1. Truncated(ms, Limit) = ms
      BY <1>1, <1>2, <1>3, <1>5
    <2> QED BY <2>1
  <1> QED BY <1>4, <1>5

LEMMA CompressedIs == Plain(Compressed) /\ Plain(<<>>)
  <1>1. Assistant(<<>>).calls = <<>> /\ ~IsTool(Assistant(<<>>))
    BY DEF Assistant, Message, IsTool
  <1>2. DOMAIN Compressed = 1..1 /\ Compressed[1] = Assistant(<<>>)
    BY DEF Compressed
  <1>3. \A i \in DOMAIN Compressed : i = 1
    BY <1>2
  <1>4. DOMAIN <<>> = {}
    BY EmptySeq
  <1> QED BY <1>1, <1>2, <1>3, <1>4 DEF Plain

IdsOf(calls) == [k \in DOMAIN calls |-> calls[k][2]]

LEMMA IdsOfIs ==
    ASSUME NEW calls \in Seq(Calls)
    PROVE  /\ IdsOf(calls) \in Seq(Ids)
           /\ calls = <<>> <=> IdsOf(calls) = <<>>
           /\ calls # <<>> => /\ IdsOf(calls)[1] = calls[1][2]
                              /\ Tail(calls) \in Seq(Calls)
                              /\ IdsOf(Tail(calls)) = Tail(IdsOf(calls))
  <1> DEFINE ids == IdsOf(calls)
  <1>1. Len(calls) \in Nat /\ DOMAIN calls = 1..Len(calls)
        /\ \A k \in 1..Len(calls) : calls[k] \in Calls
    BY LenProperties, ElementOfSeq
  <1>2. \A k \in 1..Len(calls) : calls[k][2] \in Ids
    BY <1>1 DEF Calls
  <1>3. ids \in [1..Len(calls) -> Ids] /\ \A k \in 1..Len(calls) : ids[k] = calls[k][2]
    BY <1>1, <1>2 DEF IdsOf
  <1> HIDE DEF ids
  <1>4. ids \in Seq(Ids) /\ Len(ids) = Len(calls) /\ DOMAIN ids = 1..Len(calls)
    BY <1>1, <1>3, IsSequence
  <1>5. calls = <<>> <=> ids = <<>>
    BY <1>4, EmptySeq
  <1>6. ASSUME calls # <<>>
        PROVE  /\ ids[1] = calls[1][2] /\ Tail(calls) \in Seq(Calls)
               /\ IdsOf(Tail(calls)) = Tail(ids)
    <2>1. Len(calls) # 0 /\ 1 \in 1..Len(calls) /\ ids # <<>>
      BY <1>1, <1>5, <1>6, EmptySeq
    <2>2. /\ Tail(calls) \in Seq(Calls) /\ Len(Tail(calls)) = Len(calls) - 1
          /\ \A k \in 1..(Len(calls) - 1) : Tail(calls)[k] = calls[k + 1]
      BY <1>6, <1>1, HeadTailProperties
    <2>3. /\ Tail(ids) \in Seq(Ids) /\ Len(Tail(ids)) = Len(calls) - 1
          /\ \A k \in 1..(Len(calls) - 1) : Tail(ids)[k] = ids[k + 1]
      BY <1>4, <2>1, HeadTailProperties
    <2>4. DOMAIN Tail(calls) = 1..(Len(calls) - 1) /\ DOMAIN Tail(ids) = 1..(Len(calls) - 1)
      BY <2>2, <2>3, LenProperties
    <2>5. ASSUME NEW k \in 1..(Len(calls) - 1)
          PROVE  Tail(calls)[k][2] = Tail(ids)[k]
      <3>1. k + 1 \in 1..Len(calls)
        BY <1>1
      <3> QED BY <3>1, <2>2, <2>3, <1>3
    <2>6. Tail(ids) = [k \in 1..(Len(calls) - 1) |-> Tail(ids)[k]]
      BY <2>3, <2>4, LenProperties
    <2>7. IdsOf(Tail(calls)) = [k \in 1..(Len(calls) - 1) |-> Tail(calls)[k][2]]
      BY <2>4 DEF IdsOf
    <2>8. IdsOf(Tail(calls)) = Tail(ids)
      BY <2>5, <2>6, <2>7, Zenon
    <2> QED BY <1>3, <2>1, <2>2, <2>8
  <1> QED BY <1>4, <1>5, <1>6 DEF ids

(* What session s would send. *)
Hist(s) == context(sessions[s].msgs, sessions[s].summary)

SessionOk(s) ==
    /\ sessions[s].name \notin FeishuNames => Plain(sessions[s].msgs)
    /\ s \notin torn => /\ \A t, u \in Pushing(s) : t = u
                        /\ sessions[s].name \notin WebNames => Tidy(Hist(s))

(* The request of t, and the session it runs its calls for. *)
Sound(t) == session[t] \notin torn /\ NameOf[t] \notin WebNames

TurnOk(t) ==
    /\ place[t] \notin {"new", "create", "failed"} => sessions[session[t]].name = NameOf[t]
    /\ place[t] \in {"ask", "calls", "reply"} => t \in FeishuTurns
    /\ place[t] \in {"start", "stream"} => t \notin FeishuTurns
    /\ place[t] = "start" /\ NameOf[t] \notin FeishuNames => Plain(messages[t])
    /\ place[t] = "ask" /\ Sound(t) => WellFormed(messages[t])
    /\ place[t] = "calls" /\ Sound(t) => /\ EndsWell(messages[t], IdsOf(left[t]))
                                         /\ EndsTidy(Hist(session[t]), IdsOf(left[t]))

RequestsInv ==
    /\ messages \in [Turns -> Seq(Msgs)]
    /\ \A s \in 1..Len(sessions) : SessionOk(s)
    /\ \A t \in Turns : TurnOk(t)

LEMMA SessionThere ==
    ASSUME Typing, NEW t \in Turns, place[t] \notin {"new", "create", "failed"}
    PROVE  session[t] \in 1..Len(sessions)
  <1>1. session[t] \in 0..Len(sessions) /\ session[t] # 0
    BY DEF Typing
  <1> QED BY <1>1

LEMMA HistType ==
    ASSUME Typing, NEW s \in 1..Len(sessions)
    PROVE  /\ sessions[s].msgs \in Seq(Msgs) /\ sessions[s].summary \in BOOLEAN
           /\ sessions[s].name \in Names /\ Hist(s) \in Seq(Msgs)
  <1>1. sessions[s] \in Records
    BY ElementOfSeq DEF Typing
  <1>2. sessions[s].msgs \in Seq(Msgs) /\ sessions[s].summary \in BOOLEAN /\ sessions[s].name \in Names
    BY <1>1 DEF Records
  <1> QED BY <1>2, ContextIs DEF Hist

(* A step that leaves a session alone, and brings nobody to push to it. *)
LEMMA SessionFrame ==
    ASSUME NEW s \in 1..Len(sessions), SessionOk(s), sessions'[s] = sessions[s],
           s \in torn => s \in torn', Pushing(s)' \subseteq Pushing(s)
    PROVE  SessionOk(s)'
  BY DEF SessionOk, Hist

(* A step that leaves a turn alone, and its session while it runs calls. *)
LEMMA TurnFrame ==
    ASSUME NEW t \in Turns, TurnOk(t), place'[t] = place[t], session'[t] = session[t],
           messages'[t] = messages[t], left'[t] = left[t],
           place[t] \notin {"new", "create", "failed"} =>
               /\ sessions'[session[t]].name = sessions[session[t]].name
               /\ place[t] \in {"ask", "calls"} /\ Sound(t)' => Sound(t)
               /\ place[t] = "calls" /\ Sound(t)' => sessions'[session[t]] = sessions[session[t]]
    PROVE  TurnOk(t)'
  <1>1. CASE place[t] \in {"new", "create", "failed"}
    BY <1>1 DEF TurnOk
  <1>2. CASE place[t] = "calls"
    <2>1. ASSUME Sound(t)'
          PROVE  EndsWell(messages[t], IdsOf(left[t]))' /\ EndsTidy(Hist(session[t]), IdsOf(left[t]))'
      <3>1. Sound(t) /\ sessions'[session[t]] = sessions[session[t]]
        BY <2>1, <1>2
      <3>2. EndsWell(messages[t], IdsOf(left[t])) /\ EndsTidy(Hist(session[t]), IdsOf(left[t]))
        BY <3>1, <1>2 DEF TurnOk
      <3>3. Hist(session[t])' = Hist(session[t])
        BY <3>1 DEF Hist
      <3> QED BY <3>2, <3>3
    <2> QED BY <1>2, <2>1 DEF TurnOk
  <1>3. CASE place[t] \notin {"new", "create", "failed", "calls"}
    BY <1>3 DEF TurnOk
  <1> QED BY <1>1, <1>2, <1>3

PushPlaces == {"push", "read", "ask", "calls"}

(* A turn moves on, and no session changes. *)
LEMMA TurnMoves ==
    ASSUME Typing, RequestsInv, NEW t \in Turns, UNCHANGED <<sessions, session, torn, left>>,
           \A u \in Turns \ {t} : place'[u] = place[u] /\ messages'[u] = messages[u],
           place'[t] \in PushPlaces => place[t] \in PushPlaces,
           messages' \in [Turns -> Seq(Msgs)], TurnOk(t)'
    PROVE  RequestsInv'
  <1>1. ASSUME NEW s \in 1..Len(sessions) PROVE SessionOk(s)'
    <2>1. Pushing(s)' \subseteq Pushing(s)
      BY ConversationsAssumption DEF Pushing, PushPlaces
    <2> QED BY <2>1, SessionFrame DEF RequestsInv
  <1>2. ASSUME NEW u \in Turns, u # t PROVE TurnOk(u)'
    <2>1. place'[u] = place[u] /\ messages'[u] = messages[u]
      BY <1>2
    <2>2. Sound(u)' => Sound(u)
      BY DEF Sound
    <2> QED BY <2>1, <2>2, TurnFrame DEF RequestsInv
  <1> QED BY <1>1, <1>2 DEF RequestsInv

(* A turn pushes to its session. *)
LEMMA TurnPushes ==
    ASSUME Typing, RequestsInv, NEW t \in Turns, NEW m \in Msgs, Push(t, m),
           UNCHANGED <<session, torn>>, place[t] \in {"push", "ask", "calls", "stream"},
           \A u \in Turns \ {t} :
               place'[u] = place[u] /\ messages'[u] = messages[u] /\ left'[u] = left[u],
           place'[t] \in PushPlaces => place[t] \in PushPlaces,
           t \notin FeishuTurns => m.calls = <<>> /\ ~IsTool(m),
           Sound(t) => Tidy(Append(Hist(session[t]), m)),
           messages' \in [Turns -> Seq(Msgs)], TurnOk(t)'
    PROVE  RequestsInv'
  <1> DEFINE s == session[t]
  <1>0. s # 0
    BY DEF Typing
  <1>1. /\ s \in 1..Len(sessions) /\ Len(sessions') = Len(sessions)
        /\ \A r \in 1..Len(sessions) : sessions'[r].name = sessions[r].name
        /\ \A r \in 1..Len(sessions) : r # s => sessions'[r] = sessions[r]
        /\ sessions'[s].msgs = Append(sessions[s].msgs, m)
        /\ sessions'[s].summary = sessions[s].summary
    BY <1>0, PushEffect
  <1>2. sessions[s].name = NameOf[t] /\ s \in 1..Len(sessions)
    BY <1>1 DEF RequestsInv, TurnOk
  <1>3. \A r : Pushing(r)' \subseteq Pushing(r)
    BY ConversationsAssumption DEF Pushing, PushPlaces
  <1> HIDE DEF s
  <1>4. Hist(s)' = Append(Hist(s), m)
    <2>1. sessions[s].msgs \in Seq(Msgs) /\ sessions[s].summary \in BOOLEAN
      BY <1>2, HistType
    <2>2. context(Append(sessions[s].msgs, m), sessions[s].summary)
            = Append(context(sessions[s].msgs, sessions[s].summary), m)
      BY <2>1, ContextIs
    <2>3. s' = s
      BY DEF s
    <2> QED BY <1>1, <2>2, <2>3 DEF Hist
  <1>5. SessionOk(s)'
    <2>1. s' = s
      BY DEF s
    <2>2. ASSUME sessions[s].name \notin FeishuNames PROVE Plain(sessions'[s].msgs)
      <3>1. t \notin FeishuTurns
        BY <1>2, <2>2 DEF FeishuNames
      <3>2. Plain(sessions[s].msgs) /\ sessions[s].msgs \in Seq(Msgs)
        BY <1>2, <2>2, HistType DEF RequestsInv, SessionOk
      <3> QED BY <3>1, <3>2, <1>1, PlainIs
    <2>3. ASSUME s \notin torn
          PROVE  /\ \A u, v \in Pushing(s)' : u = v
                 /\ sessions[s].name \notin WebNames => Tidy(Hist(s)')
      <3>1. \A u, v \in Pushing(s) : u = v
        BY <1>2, <2>3 DEF RequestsInv, SessionOk
      <3>2. ASSUME sessions[s].name \notin WebNames PROVE Tidy(Hist(s)')
        <4>1. Sound(t)
          BY <3>2, <2>3, <1>2 DEF Sound, s
        <4> QED BY <4>1, <1>4 DEF s
      <3>3. Pushing(s)' \subseteq Pushing(s)
        BY <1>3, <2>1
      <3> QED BY <3>1, <3>2, <3>3
    <2> QED BY <2>1, <2>2, <2>3, <1>1 DEF SessionOk
  <1>6. ASSUME NEW r \in 1..Len(sessions), r # s PROVE SessionOk(r)'
    <2>1. sessions'[r] = sessions[r] /\ Pushing(r)' \subseteq Pushing(r)
      BY <1>1, <1>3, <1>6
    <2> QED BY <2>1, SessionFrame DEF RequestsInv
  <1>7. ASSUME NEW u \in Turns, u # t PROVE TurnOk(u)'
    <2>1. place'[u] = place[u] /\ messages'[u] = messages[u] /\ left'[u] = left[u] /\ session'[u] = session[u]
      BY <1>7
    <2>2. Sound(u)' => Sound(u)
      BY DEF Sound
    <2>3. TurnOk(u)
      BY DEF RequestsInv
    <2>4. ASSUME place[u] \notin {"new", "create", "failed"}
          PROVE  /\ session[u] \in 1..Len(sessions)
                 /\ sessions'[session[u]].name = sessions[session[u]].name
      <3>1. session[u] \in 1..Len(sessions)
        BY <2>4 DEF Typing
      <3> QED BY <3>1, <1>1
    <2>5. ASSUME place[u] = "calls", Sound(u)'
          PROVE  sessions'[session[u]] = sessions[session[u]]
      <3>1. session[u] \in 1..Len(sessions)
        BY <2>4, <2>5
      <3>2. CASE session[u] # s
        BY <3>1, <3>2, <1>1
      <3>3. CASE session[u] = s
        <4>1. NameOf[u] = NameOf[t] /\ u \in FeishuTurns /\ u \in Pushing(s)
          BY <2>3, <2>5, <3>3, <1>2 DEF TurnOk, Pushing
        <4>2. NameOf[t] \notin WebNames /\ s \notin torn
          BY <2>2, <2>5, <3>3, <4>1 DEF Sound
        <4>3. t \in FeishuTurns
          BY <4>2 DEF WebNames
        <4>4. t \in Pushing(s)
          <5>1. place[t] # "stream"
            BY <4>3 DEF RequestsInv, TurnOk
          <5> QED BY <5>1, <4>3 DEF Pushing, s
        <4> QED BY <4>1, <4>2, <4>4, <1>2, <1>7 DEF RequestsInv, SessionOk
      <3> QED BY <3>2, <3>3
    <2> QED BY <2>1, <2>2, <2>3, <2>4, <2>5, TurnFrame
  <1>8. ASSUME NEW r \in 1..Len(sessions) PROVE SessionOk(r)'
    <2>1. s' = s
      BY DEF s
    <2>2. CASE r = s
      BY <1>5, <2>1, <2>2 DEF SessionOk, Hist, Pushing
    <2> QED BY <2>2, <1>6
  <1>9. \A r \in 1..Len(sessions') : SessionOk(r)'
    BY <1>1, <1>8
  <1>10. \A u \in Turns : TurnOk(u)'
    BY <1>7
  <1> QED BY <1>9, <1>10 DEF RequestsInv

(* The steps of a turn that read, fail or end. *)
LEMMA RequestsMoves ==
    ASSUME Typing, RequestsInv, NEW t \in Turns,
           \/ NoProvider(t) \/ ReadHistory(t) \/ AskFails(t) \/ ToolPanics(t) \/ Reply(t)
           \/ TurnEnds(t) \/ ReadAndStart(t) \/ StreamStarts(t) \/ StreamBreaks(t)
    PROVE  RequestsInv'
  <1>0. TurnOk(t) /\ FeishuTurns \subseteq Turns
    BY ConversationsAssumption DEF RequestsInv
  <1>4. CASE NoProvider(t)
    <2>1. /\ UNCHANGED <<sessions, session, torn, left, messages>>
          /\ place' = [place EXCEPT ![t] = "failed"]
      BY <1>4 DEF NoProvider, Goto, notes
    <2>2. /\ place'[t] = "failed" /\ messages' \in [Turns -> Seq(Msgs)]
          /\ \A u \in Turns \ {t} : place'[u] = place[u] /\ messages'[u] = messages[u]
      BY <2>1 DEF Typing, RequestsInv
    <2>3. TurnOk(t)'
      BY <2>2 DEF TurnOk
    <2> QED BY <2>1, <2>2, <2>3, TurnMoves DEF PushPlaces
  <1>1. CASE AskFails(t) \/ ToolPanics(t) \/ TurnEnds(t) \/ Reply(t) \/ StreamStarts(t) \/ StreamBreaks(t)
    <2>1. UNCHANGED <<sessions, session, torn, left, messages>>
      BY <1>1 DEF AskFails, ToolPanics, TurnEnds, Reply, StreamStarts, StreamBreaks, compressVars, notes
    <2>2. \E p \in {"failed", "panicked", "compress", "over", "push"} :
             /\ place' = [place EXCEPT ![t] = p]
             /\ p = "push" => place[t] = "start"
      BY <1>1 DEF AskFails, ToolPanics, TurnEnds, Reply, StreamStarts, StreamBreaks, Goto
    <2>3. PICK p \in {"failed", "panicked", "compress", "over", "push"} :
             /\ place' = [place EXCEPT ![t] = p]
             /\ p = "push" => place[t] = "start"
      BY <2>2
    <2>4. place'[t] = p /\ place[t] \notin {"new", "create", "failed"}
      BY <2>3, <1>1 DEF AskFails, ToolPanics, TurnEnds, Reply, StreamStarts, StreamBreaks, Typing
    <2>5. TurnOk(t)'
      BY <1>0, <2>1, <2>3, <2>4 DEF TurnOk
    <2>9. messages' \in [Turns -> Seq(Msgs)]
      BY <2>1 DEF RequestsInv
    <2>6. \A u \in Turns \ {t} : place'[u] = place[u] /\ messages'[u] = messages[u]
      BY <2>1, <2>3 DEF Typing
    <2>7. CASE p # "push"
      <3>1. place'[t] \notin PushPlaces
        BY <2>3, <2>4, <2>7 DEF PushPlaces
      <3> QED BY <3>1, <2>1, <2>5, <2>6, <2>9, TurnMoves
    <2>8. CASE p = "push"
      <3>1. t \notin FeishuTurns
        BY <1>0, <2>3, <2>8 DEF TurnOk
      <3>2. \A r \in 1..Len(sessions) : Pushing(r)' \subseteq Pushing(r)
        BY <3>1, <2>1, <2>6, <1>0 DEF Pushing
      <3>3. \A r \in 1..Len(sessions) : SessionOk(r)'
        BY <3>2, <2>1, SessionFrame DEF RequestsInv
      <3>4. ASSUME NEW u \in Turns, u # t PROVE TurnOk(u)'
        <4>1. place'[u] = place[u] /\ messages'[u] = messages[u] /\ TurnOk(u)
          BY <3>4, <2>6 DEF RequestsInv
        <4>2. Sound(u)' => Sound(u)
          BY <2>1 DEF Sound
        <4> QED BY <4>1, <4>2, <2>1, TurnFrame
      <3> QED BY <2>1, <2>5, <2>9, <3>3, <3>4 DEF RequestsInv
    <2> QED BY <2>7, <2>8
  <1>2. CASE ReadHistory(t)
    <2>1. /\ UNCHANGED <<sessions, session, torn, left>>
          /\ messages' = [messages EXCEPT ![t] = sanitize_history(Hist(session[t]))]
          /\ place' = [place EXCEPT ![t] = IF "client" \in up THEN "ask" ELSE "failed"]
          /\ place[t] = "read" /\ t \in FeishuTurns
      BY <1>2 DEF ReadHistory, Sanitized, Hist, Goto, compressVars, notes
    <2>2. session[t] \in 1..Len(sessions)
      BY <2>1, SessionThere
    <2>3. Hist(session[t]) \in Seq(Messages(Ids))
      BY <2>2, HistType, MsgsAre
    <2>4. sanitize_history(Hist(session[t])) \in Seq(Msgs)
      BY <2>3, SanitizedType, MsgsAre
    <2>5. ASSUME Sound(t) PROVE WellFormed(sanitize_history(Hist(session[t])))
      <3>1. sessions[session[t]].name = NameOf[t]
        BY <1>0, <2>1 DEF TurnOk
      <3>2. Tidy(Hist(session[t]))
        BY <3>1, <2>2, <2>5 DEF RequestsInv, SessionOk, Sound
      <3> QED BY <3>2, <2>3, SanitizedIsAccepted
    <2>6. /\ place'[t] \in {"ask", "failed"} /\ messages'[t] = sanitize_history(Hist(session[t]))
          /\ messages' \in [Turns -> Seq(Msgs)]
      BY <2>1, <2>4 DEF Typing, RequestsInv
    <2>7. Sound(t)' => Sound(t)
      BY <2>1 DEF Sound
    <2>8. TurnOk(t)'
      BY <1>0, <2>1, <2>4, <2>5, <2>6, <2>7 DEF TurnOk
    <2>9. \A u \in Turns \ {t} : place'[u] = place[u] /\ messages'[u] = messages[u]
      BY <2>1 DEF Typing
    <2> QED BY <2>1, <2>6, <2>8, <2>9, TurnMoves DEF PushPlaces
  <1>3. CASE ReadAndStart(t)
    <2>1. /\ UNCHANGED <<sessions, session, torn, left>>
          /\ messages' = [messages EXCEPT ![t] = Append(Hist(session[t]), Prompt(t))]
          /\ place' = [place EXCEPT ![t] = "start"] /\ place[t] = "read" /\ t \notin FeishuTurns
      BY <1>3 DEF ReadAndStart, Hist, Goto, compressVars, notes
    <2>2. session[t] \in 1..Len(sessions)
      BY <2>1, SessionThere
    <2>3. /\ sessions[session[t]].msgs \in Seq(Msgs) /\ sessions[session[t]].summary \in BOOLEAN
          /\ Hist(session[t]) \in Seq(Msgs) /\ Prompt(t) \in Msgs
      BY <2>2, HistType, MessageTypes
    <2>4. Append(Hist(session[t]), Prompt(t)) \in Seq(Msgs)
      BY <2>3, AppendProperties
    <2>5. ASSUME NameOf[t] \notin FeishuNames PROVE Plain(Append(Hist(session[t]), Prompt(t)))
      <3>1. sessions[session[t]].name = NameOf[t]
        BY <1>0, <2>1 DEF TurnOk
      <3>2. Plain(sessions[session[t]].msgs)
        BY <3>1, <2>2, <2>5 DEF RequestsInv, SessionOk
      <3>3. Plain(Hist(session[t]))
        BY <3>2, <2>3, ContextIs DEF Hist
      <3>4. Prompt(t).calls = <<>> /\ ~IsTool(Prompt(t))
        BY DEF Prompt, User, Message, IsTool
      <3> QED BY <3>3, <3>4, <2>3, PlainIs
    <2>6. /\ place'[t] = "start" /\ messages'[t] = Append(Hist(session[t]), Prompt(t))
          /\ messages' \in [Turns -> Seq(Msgs)]
      BY <2>1, <2>4 DEF Typing, RequestsInv
    <2>8. TurnOk(t)'
      BY <1>0, <2>1, <2>5, <2>6 DEF TurnOk
    <2>9. \A u \in Turns \ {t} : place'[u] = place[u] /\ messages'[u] = messages[u]
      BY <2>1 DEF Typing
    <2> QED BY <2>1, <2>6, <2>8, <2>9, TurnMoves DEF PushPlaces
  <1> QED BY <1>1, <1>2, <1>3, <1>4

LEMMA PushHist ==
    ASSUME Typing, NEW t \in Turns, session[t] # 0, NEW m \in Msgs, Push(t, m),
           UNCHANGED session
    PROVE  /\ session[t] \in 1..Len(sessions)
           /\ sessions'[session[t]].name = sessions[session[t]].name
           /\ Hist(session[t])' = Append(Hist(session[t]), m)
  <1> DEFINE s == session[t]
  <1>1. /\ s \in 1..Len(sessions)
        /\ sessions'[s].name = sessions[s].name
        /\ sessions'[s].msgs = Append(sessions[s].msgs, m)
        /\ sessions'[s].summary = sessions[s].summary
    BY PushEffect
  <1>2. s' = s
    OBVIOUS
  <1> HIDE DEF s
  <1>3. sessions[s].msgs \in Seq(Msgs) /\ sessions[s].summary \in BOOLEAN
    BY <1>1, HistType
  <1>4. context(Append(sessions[s].msgs, m), sessions[s].summary)
          = Append(context(sessions[s].msgs, sessions[s].summary), m)
    BY <1>3, ContextIs
  <1>5. Hist(s)' = Append(Hist(s), m)
    BY <1>1, <1>2, <1>4 DEF Hist
  <1> QED BY <1>1, <1>5 DEF s

(* The session of a turn whose request is sound is tidy, but among calls. *)
LEMMA SoundIsTidy ==
    ASSUME Typing, RequestsInv, NEW t \in Turns, place[t] \notin {"new", "create", "failed"}, Sound(t)
    PROVE  Tidy(Hist(session[t])) /\ Hist(session[t]) \in Seq(Msgs)
  <1>1. session[t] \in 1..Len(sessions)
    BY SessionThere
  <1>2. sessions[session[t]].name = NameOf[t]
    BY DEF RequestsInv, TurnOk
  <1> QED BY <1>1, <1>2, HistType DEF RequestsInv, SessionOk, Sound

LEMMA TidyMore ==
    ASSUME NEW ms \in Seq(Msgs), NEW m \in Msgs, Tidy(ms), ~IsTool(m)
    PROVE  Tidy(Append(ms, m))
  BY MsgsAre, TidyAppend

LEMMA PushesPrompt ==
    ASSUME Typing, RequestsInv, NEW t \in Turns, PushPrompt(t) \/ StreamFinishes(t)
    PROVE  RequestsInv'
  <1>0. TurnOk(t) /\ place[t] \in Places /\ place \in [Turns -> Places]
    BY DEF RequestsInv, Typing
  <1>1. PICK m \in {Prompt(t), Assistant(<<>>)} :
          /\ Push(t, m)
          /\ \E p \in {"read", "stream", "over"} :
                /\ place' = [place EXCEPT ![t] = p]
                /\ p = "read" => t \in FeishuTurns /\ place[t] = "push"
                /\ p = "stream" => t \notin FeishuTurns
    BY DEF PushPrompt, StreamFinishes, Goto
  <1>2. UNCHANGED <<session, torn, messages, left>> /\ place[t] \in {"push", "stream"}
    BY DEF PushPrompt, StreamFinishes, notes
  <1>3. m \in Msgs /\ m.calls = <<>> /\ ~IsTool(m)
    <2>1. CASE m = Prompt(t)
      BY <2>1, MessageTypes DEF Prompt, User, Message, IsTool
    <2>2. CASE m = Assistant(<<>>)
      <3>1. <<>> \in Seq(Ids)
        OBVIOUS
      <3>2. m.calls = <<>>
        BY <2>2 DEF Assistant, Message
      <3>3. m \in Msgs
        BY <2>2, <3>1, MessageTypes
      <3> QED BY <2>2, <3>2, <3>3 DEF Assistant, Message, IsTool
    <2> QED BY <1>1, <2>1, <2>2
  <1>4. PICK p \in {"read", "stream", "over"} :
                /\ place' = [place EXCEPT ![t] = p]
                /\ p = "read" => t \in FeishuTurns /\ place[t] = "push"
                /\ p = "stream" => t \notin FeishuTurns
    BY <1>1
  <1>5. place'[t] = p /\ \A u \in Turns \ {t} : place'[u] = place[u]
    BY <1>0, <1>4
  <1>6. session[t] # 0
    BY <1>2 DEF Typing
  <1>7. sessions'[session[t]].name = sessions[session[t]].name
    BY <1>1, <1>2, <1>3, <1>6, PushHist
  <1>8. TurnOk(t)'
    BY <1>0, <1>2, <1>4, <1>5, <1>7 DEF TurnOk
  <1>9. ASSUME Sound(t) PROVE Tidy(Append(Hist(session[t]), m))
    BY <1>2, <1>3, <1>9, SoundIsTidy, TidyMore
  <1>10. messages' \in [Turns -> Seq(Msgs)]
    BY <1>2 DEF RequestsInv
  <1>11. place'[t] \in PushPlaces => place[t] \in PushPlaces
    BY <1>4, <1>5 DEF PushPlaces
  <1>12. \A u \in Turns \ {t} :
            place'[u] = place[u] /\ messages'[u] = messages[u] /\ left'[u] = left[u]
    BY <1>2, <1>5
  <1>13. UNCHANGED <<session, torn>> /\ place[t] \in {"push", "ask", "calls", "stream"}
         /\ Push(t, m)
    BY <1>1, <1>2
  <1> QED BY <1>3, <1>8, <1>9, <1>10, <1>11, <1>12, <1>13, TurnPushes

LEMMA PushesAnswer ==
    ASSUME Typing, RequestsInv, NEW t \in Turns, Asks(t)
    PROVE  RequestsInv'
  <1>0. TurnOk(t) /\ place \in [Turns -> Places] /\ place[t] = "ask" /\ t \in FeishuTurns
    BY DEF RequestsInv, Typing, Asks, TurnOk
  <1>1. PICK answer \in Answers \cup {<<>>}, reason \in BOOLEAN :
             LET calls == IF Phase1(t)
                          THEN [k \in DOMAIN answer |-> <<answer[k], <<t, rounds[t], k>>>>] ELSE <<>>
                 m == Answer([k \in DOMAIN calls |-> calls[k][2]], reason)
             IN  /\ Push(t, m)
                 /\ left' = [left EXCEPT ![t] = calls]
                 /\ messages' = [messages EXCEPT ![t] = IF calls = <<>> THEN <<>> ELSE Append(@, m)]
                 /\ Goto(t, IF calls = <<>> THEN "reply" ELSE "calls")
    BY DEF Asks
  <1> DEFINE calls == IF Phase1(t)
                      THEN [k \in DOMAIN answer |-> <<answer[k], <<t, rounds[t], k>>>>] ELSE <<>>
             ids == IdsOf(calls)
             m == Answer(ids, reason)
  <1>2. /\ Push(t, m)
        /\ left' = [left EXCEPT ![t] = calls]
        /\ messages' = [messages EXCEPT ![t] = IF calls = <<>> THEN <<>> ELSE Append(@, m)]
        /\ place' = [place EXCEPT ![t] = IF calls = <<>> THEN "reply" ELSE "calls"]
    BY <1>1 DEF IdsOf, Goto
  <1>3. calls \in Seq(Calls)
    <2>1. CASE Phase1(t)
      BY <2>1, CallsType
    <2>2. CASE ~Phase1(t)
      BY <2>2
    <2> QED BY <2>1, <2>2
  <1> HIDE DEF calls
  <1>4. ids \in Seq(Ids) /\ (calls = <<>> <=> ids = <<>>)
    BY <1>3, IdsOfIs
  <1> HIDE DEF ids
  <1>5. m \in Msgs /\ ~IsTool(m) /\ m = Answer(ids, reason)
    BY <1>4, RunStarts
  <1> HIDE DEF m
  <1>6. UNCHANGED <<session, torn>>
    BY DEF Asks
  <1>7. session[t] # 0
    BY <1>0 DEF Typing
  <1>8. /\ session[t] \in 1..Len(sessions)
        /\ sessions'[session[t]].name = sessions[session[t]].name
        /\ Hist(session[t])' = Append(Hist(session[t]), m)
    BY <1>2, <1>5, <1>6, <1>7, PushHist
  <1>9. /\ place'[t] = IF calls = <<>> THEN "reply" ELSE "calls"
        /\ left'[t] = calls
        /\ messages'[t] = IF calls = <<>> THEN <<>> ELSE Append(messages[t], m)
        /\ messages[t] \in Seq(Msgs)
        /\ \A u \in Turns \ {t} :
              place'[u] = place[u] /\ messages'[u] = messages[u] /\ left'[u] = left[u]
    BY <1>0, <1>2 DEF RequestsInv, Typing
  <1>10. messages' \in [Turns -> Seq(Msgs)]
    <2>1. Append(messages[t], m) \in Seq(Msgs) /\ <<>> \in Seq(Msgs)
      BY <1>5, <1>9, AppendProperties, EmptySeq
    <2> QED BY <1>2, <1>9, <2>1 DEF RequestsInv
  <1>11. ASSUME Sound(t)
         PROVE  /\ Tidy(Append(Hist(session[t]), m))
                /\ EndsTidy(Append(Hist(session[t]), m), ids)
                /\ EndsWell(Append(messages[t], m), ids)
    <2>1. Tidy(Hist(session[t])) /\ Hist(session[t]) \in Seq(Msgs)
      BY <1>0, <1>11, SoundIsTidy
    <2>2. Tidy(Append(Hist(session[t]), m))
      BY <2>1, <1>5, TidyMore
    <2>3. EndsTidy(Append(Hist(session[t]), m), ids)
      BY <2>1, <1>4, <1>5, EndsStart
    <2>4. WellFormed(messages[t])
      BY <1>0, <1>11 DEF TurnOk
    <2>5. EndsWell(Append(messages[t], m), ids)
      BY <2>4, <1>4, <1>5, <1>9, EndsStart
    <2> QED BY <2>2, <2>3, <2>5
  <1>12. TurnOk(t)'
    <2>1. Sound(t)' => Sound(t)
      BY <1>6 DEF Sound
    <2>2. sessions'[session'[t]].name = NameOf[t]
      BY <1>0, <1>6, <1>8 DEF TurnOk
    <2>3. CASE calls = <<>>
      BY <2>2, <2>3, <1>0, <1>9 DEF TurnOk
    <2>4. CASE calls # <<>>
      <3>1. ASSUME Sound(t)'
            PROVE  EndsWell(messages[t], IdsOf(left[t]))' /\ EndsTidy(Hist(session[t]), IdsOf(left[t]))'
        <4>1. IdsOf(left[t])' = ids
          BY <1>9 DEF ids, IdsOf
        <4>2. messages'[t] = Append(messages[t], m)
          BY <1>9, <2>4
        <4> QED BY <4>1, <4>2, <2>1, <3>1, <1>8, <1>11
      <3>2. place'[t] = "calls"
        BY <1>9, <2>4
      <3> QED BY <2>2, <3>1, <3>2, <1>0 DEF TurnOk
    <2> QED BY <2>3, <2>4
  <1>13. place'[t] \in PushPlaces => place[t] \in PushPlaces
    BY <1>0 DEF PushPlaces
  <1>14. place[t] \in {"push", "ask", "calls", "stream"} /\ Push(t, m)
         /\ (t \notin FeishuTurns => m.calls = <<>> /\ ~IsTool(m))
    BY <1>0, <1>2
  <1> QED BY <1>5, <1>6, <1>9, <1>10, <1>11, <1>12, <1>13, <1>14, TurnPushes

LEMMA PushesResult ==
    ASSUME Typing, RequestsInv, NEW t \in Turns, RunTool(t)
    PROVE  RequestsInv'
  <1>0. TurnOk(t) /\ place \in [Turns -> Places] /\ place[t] = "calls" /\ t \in FeishuTurns
    BY DEF RequestsInv, Typing, RunTool, TurnOk
  <1> DEFINE calls == left[t]
             ids == IdsOf(calls)
             m == Result(ids[1])
  <1>1. calls \in Seq(Calls) /\ calls # <<>>
    BY <1>0 DEF Typing
  <1>2. /\ ids \in Seq(Ids) /\ ids # <<>> /\ ids[1] = calls[1][2]
        /\ Tail(calls) \in Seq(Calls) /\ IdsOf(Tail(calls)) = Tail(ids)
        /\ (Tail(calls) = <<>> <=> Tail(ids) = <<>>) /\ Tail(ids) \in Seq(Ids)
    BY <1>1, IdsOfIs
  <1>3. /\ Push(t, m)
        /\ left' = [left EXCEPT ![t] = Tail(calls)]
        /\ messages' = [messages EXCEPT ![t] = Append(messages[t], m)]
        /\ left'[t] = <<>> => place' = [place EXCEPT ![t] = "ask"]
        /\ left'[t] # <<>> => place' = place
        /\ UNCHANGED <<session, torn>>
    BY <1>2 DEF RunTool, Goto, notes
  <1> HIDE DEF ids
  <1>4. m \in Msgs
    <2>1. Len(ids) \in Nat /\ Len(ids) # 0
      BY <1>2, LenProperties, EmptySeq
    <2>2. ids[1] \in Ids
      BY <1>2, <2>1, ElementOfSeq
    <2> QED BY <2>2, MessageTypes
  <1> HIDE DEF m
  <1>5. /\ left'[t] = Tail(calls) /\ messages'[t] = Append(messages[t], m)
        /\ messages[t] \in Seq(Msgs)
        /\ place'[t] = IF Tail(calls) = <<>> THEN "ask" ELSE "calls"
        /\ \A u \in Turns \ {t} :
              place'[u] = place[u] /\ messages'[u] = messages[u] /\ left'[u] = left[u]
    BY <1>0, <1>3 DEF RequestsInv, Typing
  <1>6. messages' \in [Turns -> Seq(Msgs)]
    <2>1. Append(messages[t], m) \in Seq(Msgs)
      BY <1>4, <1>5, AppendProperties
    <2> QED BY <1>3, <2>1 DEF RequestsInv
  <1>7. session[t] # 0
    BY <1>0 DEF Typing
  <1>8. /\ session[t] \in 1..Len(sessions)
        /\ sessions'[session[t]].name = sessions[session[t]].name
        /\ Hist(session[t])' = Append(Hist(session[t]), m)
    BY <1>3, <1>4, <1>7, PushHist
  <1>9. ASSUME Sound(t)
        PROVE  /\ EndsTidy(Append(Hist(session[t]), m), Tail(ids))
               /\ EndsWell(Append(messages[t], m), Tail(ids))
    <2>1. EndsTidy(Hist(session[t]), ids) /\ EndsWell(messages[t], ids)
      BY <1>0, <1>9 DEF TurnOk, ids
    <2> QED BY <2>1, <1>2, EndsStep DEF m
  <1>10. ASSUME Sound(t) PROVE Tidy(Append(Hist(session[t]), m))
    BY <1>2, <1>9, <1>10, EndsDone
  <1>11. ASSUME Sound(t), Tail(calls) = <<>> PROVE WellFormed(Append(messages[t], m))
    BY <1>2, <1>9, <1>11, EndsDone
  <1>12. TurnOk(t)'
    <2>1. Sound(t)' => Sound(t)
      BY <1>3 DEF Sound
    <2>2. sessions'[session'[t]].name = NameOf[t]
      BY <1>0, <1>3, <1>8 DEF TurnOk
    <2>3. CASE Tail(calls) = <<>>
      BY <2>1, <2>2, <2>3, <1>0, <1>5, <1>11 DEF TurnOk
    <2>4. CASE Tail(calls) # <<>>
      <3>1. ASSUME Sound(t)'
            PROVE  EndsWell(messages[t], IdsOf(left[t]))' /\ EndsTidy(Hist(session[t]), IdsOf(left[t]))'
        <4>1. IdsOf(left[t])' = Tail(ids)
          BY <1>2, <1>5 DEF IdsOf
        <4> QED BY <4>1, <2>1, <3>1, <1>5, <1>8, <1>9
      <3>2. place'[t] = "calls"
        BY <1>5, <2>4
      <3> QED BY <2>2, <3>1, <3>2, <1>0 DEF TurnOk
    <2> QED BY <2>3, <2>4
  <1>13. place'[t] \in PushPlaces => place[t] \in PushPlaces
    BY <1>0 DEF PushPlaces
  <1>14. place[t] \in {"push", "ask", "calls", "stream"} /\ Push(t, m) /\ UNCHANGED <<session, torn>>
         /\ (t \notin FeishuTurns => m.calls = <<>> /\ ~IsTool(m))
    BY <1>0, <1>3
  <1> QED BY <1>4, <1>5, <1>6, <1>10, <1>12, <1>13, <1>14, TurnPushes

(* A turn takes the session it has looked up or created. *)
LEMMA TurnTakes ==
    ASSUME Typing, RequestsInv, NEW t \in Turns, place[t] \in {"new", "create"},
           UNCHANGED <<messages, left>>,
           NEW s \in 1..Len(sessions'), sessions'[s].name = NameOf[t],
           session' = [session EXCEPT ![t] = s],
           place' = [place EXCEPT ![t] = IF t \in FeishuTurns THEN "push" ELSE "read"],
           Len(sessions') \in Nat, Len(sessions) <= Len(sessions'),
           \A r \in 1..Len(sessions) : sessions'[r] = sessions[r],
           \A r \in 1..Len(sessions) : r \in torn => r \in torn',
           torn' \subseteq torn \cup {s},
           s \in 1..Len(sessions') \ (1..Len(sessions)) =>
               Plain(sessions'[s].msgs) /\ sessions'[s].msgs = <<>> /\ ~sessions'[s].summary,
           1..Len(sessions') \subseteq (1..Len(sessions)) \cup {s},
           t \in FeishuTurns /\ Pushing(s) # {} => s \in torn'
    PROVE  RequestsInv'
  <1>0. /\ place \in [Turns -> Places] /\ session \in [Turns -> 0..Len(sessions)]
        /\ FeishuTurns \subseteq Turns /\ Len(sessions) \in Nat
        /\ messages \in [Turns -> Seq(Msgs)]
    BY ConversationsAssumption, LenProperties DEF Typing, RequestsInv
  <1>1. /\ place'[t] = IF t \in FeishuTurns THEN "push" ELSE "read"
        /\ session'[t] = s
        /\ \A u \in Turns \ {t} : place'[u] = place[u] /\ session'[u] = session[u]
    BY <1>0
  <1>2. TurnOk(t)'
    BY <1>1 DEF TurnOk
  <1>3. ASSUME NEW u \in Turns, u # t PROVE TurnOk(u)'
    <2>1. place'[u] = place[u] /\ session'[u] = session[u] /\ messages'[u] = messages[u]
          /\ left'[u] = left[u] /\ TurnOk(u)
      BY <1>1, <1>3 DEF RequestsInv
    <2>2. ASSUME place[u] \notin {"new", "create", "failed"}
          PROVE  /\ sessions'[session[u]] = sessions[session[u]]
                 /\ Sound(u)' => Sound(u)
      <3>1. session[u] \in 1..Len(sessions)
        BY <2>2, SessionThere
      <3> QED BY <3>1, <2>1 DEF Sound
    <2> QED BY <2>1, <2>2, TurnFrame
  <1>4. \A r : Pushing(r)' \subseteq Pushing(r) \cup (IF r = s THEN {t} ELSE {})
    BY <1>0, <1>1 DEF Pushing
  <1>5. t \notin FeishuTurns => \A r : Pushing(r)' \subseteq Pushing(r)
    BY <1>0, <1>1 DEF Pushing
  <1>6. ASSUME NEW r \in 1..Len(sessions) PROVE SessionOk(r)'
    <2>1. SessionOk(r)
      BY DEF RequestsInv
    <2>2. CASE r = s /\ t \in FeishuTurns
      <3>1. sessions'[r] = sessions[r]
        OBVIOUS
      <3>2. ASSUME r \notin torn'
            PROVE  /\ \A u, v \in Pushing(r)' : u = v
                   /\ sessions[r].name \notin WebNames => Tidy(Hist(r))
        <4>1. Pushing(r) = {} /\ r \notin torn
          BY <2>2, <3>2
        <4>2. Pushing(r)' \subseteq {t}
          BY <4>1, <1>4, <2>2
        <4> QED BY <4>1, <4>2, <2>1 DEF SessionOk
      <3>3. Hist(r)' = Hist(r)
        BY <3>1 DEF Hist
      <3> QED BY <2>1, <3>1, <3>2, <3>3 DEF SessionOk
    <2>3. CASE ~(r = s /\ t \in FeishuTurns)
      <3>1. Pushing(r)' \subseteq Pushing(r)
        BY <2>3, <1>4, <1>5
      <3>2. r \in torn => r \in torn'
        OBVIOUS
      <3>3. sessions'[r] = sessions[r]
        OBVIOUS
      <3> QED BY <2>1, <3>1, <3>2, <3>3, SessionFrame
    <2> QED BY <2>2, <2>3
  <1>7. ASSUME s \notin 1..Len(sessions) PROVE SessionOk(s)'
    <2>1. Plain(sessions'[s].msgs) /\ sessions'[s].msgs = <<>> /\ ~sessions'[s].summary
      BY <1>7
    <2>2. Hist(s)' = <<>>
      BY <2>1 DEF Hist, context
    <2>3. Tidy(<<>>)
      <3>1. <<>> \in Seq(Msgs)
        OBVIOUS
      <3> QED BY <3>1, CompressedIs, PlainIs
    <2>4. \A u \in Pushing(s)' : u = t
      <3>1. ASSUME NEW u \in Pushing(s) PROVE FALSE
        <4>1. u \in Turns /\ place[u] \notin {"new", "create", "failed"} /\ session[u] = s
          BY <1>0, <3>1 DEF Pushing
        <4> QED BY <4>1, <1>7, SessionThere
      <3> QED BY <3>1, <1>4
    <2> QED BY <2>1, <2>2, <2>3, <2>4 DEF SessionOk
  <1>8. ASSUME NEW r \in 1..Len(sessions') PROVE SessionOk(r)'
    <2>1. CASE r \in 1..Len(sessions)
      BY <2>1, <1>6
    <2>2. CASE r \notin 1..Len(sessions)
      <3>1. r = s
        BY <2>2
      <3>2. SessionOk(s)'
        BY <3>1, <2>2, <1>7
      <3> QED BY <3>1, <3>2 DEF SessionOk, Hist, Pushing
    <2> QED BY <2>1, <2>2
  <1> QED BY <1>0, <1>2, <1>3, <1>8 DEF RequestsInv

LEMMA TakesFound ==
    ASSUME Typing, RequestsInv, NEW t \in Turns, LookUp(t)
    PROVE  RequestsInv'
  <1>0. /\ place \in [Turns -> Places] /\ Len(sessions) \in Nat /\ place[t] = "new"
        /\ UNCHANGED <<sessions, messages, left>> /\ DOMAIN sessions = 1..Len(sessions)
        /\ torn \subseteq 1..Len(sessions)
    BY LenProperties DEF Typing, LookUp, Begins
  <1>1. CASE Goto(t, "create") /\ UNCHANGED <<session, torn>>
    <2>1. place'[t] = "create" /\ \A u \in Turns \ {t} : place'[u] = place[u] /\ messages'[u] = messages[u]
      BY <1>0, <1>1 DEF Goto
    <2>2. TurnOk(t)'
      BY <2>1 DEF TurnOk
    <2>3. messages' \in [Turns -> Seq(Msgs)]
      BY <1>0 DEF RequestsInv
    <2>4. UNCHANGED <<sessions, session, torn, left>>
      BY <1>0, <1>1
    <2>5. place'[t] \notin PushPlaces
      BY <2>1 DEF PushPlaces
    <2> QED BY <2>1, <2>2, <2>3, <2>4, <2>5, TurnMoves
  <1>2. ASSUME NEW s \in Named(NameOf[t]),
               session' = [session EXCEPT ![t] = s],
               Goto(t, IF t \in FeishuTurns THEN "push" ELSE "read"),
               torn' = IF t \in FeishuTurns /\ Pushing(s) # {} THEN torn \cup {s} ELSE torn
        PROVE  RequestsInv'
    <2>1. s \in 1..Len(sessions') /\ sessions'[s].name = NameOf[t]
      BY <1>0 DEF Named
    <2>2. Len(sessions') = Len(sessions) /\ Len(sessions') \in Nat /\ Len(sessions) <= Len(sessions')
      BY <1>0
    <2>3. place[t] \in {"new", "create"} /\ UNCHANGED <<messages, left>>
          /\ place' = [place EXCEPT ![t] = IF t \in FeishuTurns THEN "push" ELSE "read"]
      BY <1>0, <1>2 DEF Goto
    <2>4. \A r \in 1..Len(sessions) : sessions'[r] = sessions[r]
      BY <1>0
    <2>5. /\ torn' \subseteq torn \cup {s}
          /\ \A r \in 1..Len(sessions) : r \in torn => r \in torn'
          /\ t \in FeishuTurns /\ Pushing(s) # {} => s \in torn'
      BY <1>2
    <2>6. 1..Len(sessions') \subseteq (1..Len(sessions)) \cup {s}
          /\ s \notin 1..Len(sessions') \ (1..Len(sessions))
      BY <2>2
    <2> QED BY <1>2, <2>1, <2>2, <2>3, <2>4, <2>5, <2>6, TurnTakes
  <1> QED BY <1>1, <1>2 DEF LookUp

LEMMA TakesCreated ==
    ASSUME Typing, RequestsInv, NEW t \in Turns, Create(t)
    PROVE  RequestsInv'
  <1>0. /\ place[t] = "create" /\ UNCHANGED <<messages, left, torn>>
        /\ sessions \in Seq(Records) /\ Len(sessions) \in Nat
        /\ sessions' = Append(sessions, NewSession(NameOf[t]))
    BY LenProperties DEF Typing, Create, notes
  <1> DEFINE s == Len(sessions) + 1
  <1>1. NewSession(NameOf[t]) \in Records
    <2>1. <<>> \in Seq(Msgs)
      OBVIOUS
    <2> QED BY <2>1 DEF NewSession, Records, Names
  <1>2. /\ Len(sessions') = s /\ sessions'[s] = NewSession(NameOf[t])
        /\ \A r \in 1..Len(sessions) : sessions'[r] = sessions[r]
    BY <1>0, <1>1, AppendProperties
  <1>3. /\ s \in 1..s /\ s \in Nat /\ Len(sessions) <= s
        /\ 1..s \subseteq (1..Len(sessions)) \cup {s}
        /\ s \notin 1..Len(sessions)
    BY <1>0
  <1>4. session' = [session EXCEPT ![t] = s]
        /\ place' = [place EXCEPT ![t] = IF t \in FeishuTurns THEN "push" ELSE "read"]
    BY DEF Create, Goto
  <1>5. Pushing(s) = {}
    <2> SUFFICES ASSUME NEW u \in Pushing(s) PROVE FALSE
      OBVIOUS
    <2>1. u \in Turns /\ place[u] \notin {"new", "create", "failed"} /\ session[u] = s
      BY ConversationsAssumption DEF Pushing
    <2> QED BY <2>1, <1>3, SessionThere
  <1> HIDE DEF s
  <1>6. /\ sessions'[s].name = NameOf[t] /\ sessions'[s].msgs = <<>> /\ ~sessions'[s].summary
        /\ Plain(sessions'[s].msgs)
    BY <1>2, CompressedIs DEF NewSession
  <1>7. \A r \in 1..Len(sessions) : r \in torn => r \in torn'
    BY <1>0
  <1>8. torn' \subseteq torn \cup {s} /\ (t \in FeishuTurns /\ Pushing(s) # {} => s \in torn')
    BY <1>0, <1>5
  <1>9. s \in 1..Len(sessions') /\ Len(sessions') \in Nat /\ Len(sessions) <= Len(sessions')
        /\ 1..Len(sessions') \subseteq (1..Len(sessions)) \cup {s}
    BY <1>2, <1>3
  <1>10. place[t] \in {"new", "create"} /\ UNCHANGED <<messages, left>>
    BY <1>0
  <1> QED BY <1>2, <1>4, <1>6, <1>7, <1>8, <1>9, <1>10, TurnTakes

(* Nothing changes that a turn or a session has. *)
LEMMA RequestsSame ==
    ASSUME RequestsInv, UNCHANGED <<sessions, session, torn, left, place, messages>>
    PROVE  RequestsInv'
  <1>1. \A s \in 1..Len(sessions) : SessionOk(s)'
    BY DEF RequestsInv, SessionOk, Hist, Pushing
  <1>2. \A t \in Turns : TurnOk(t)'
    BY DEF RequestsInv, TurnOk, Sound, Hist
  <1> QED BY <1>1, <1>2 DEF RequestsInv

(* A compression replaces the messages of a session. *)
LEMMA Compresses ==
    ASSUME Typing, RequestsInv, NEW s \in 1..Len(sessions),
           UNCHANGED <<session, left, place, messages>>,
           Len(sessions') = Len(sessions),
           \A r \in 1..Len(sessions) : sessions'[r].name = sessions[r].name,
           \A r \in 1..Len(sessions) : r # s => sessions'[r] = sessions[r] /\ (r \in torn <=> r \in torn'),
           Calling(s) # {} => s \in torn',
           s \in torn /\ s \notin torn' => Pushing(s) = {},
           sessions[s].name \notin FeishuNames => Plain(sessions'[s].msgs),
           s \notin torn' => (sessions[s].name \notin WebNames => Tidy(Hist(s)'))
    PROVE  RequestsInv'
  <1>1. \A r : Pushing(r)' = Pushing(r)
    BY DEF Pushing
  <1>2. SessionOk(s)'
    <2>1. ASSUME s \notin torn' PROVE \A t, u \in Pushing(s) : t = u
      <3>1. CASE s \in torn
        BY <2>1, <3>1
      <3>2. CASE s \notin torn
        BY <3>2 DEF RequestsInv, SessionOk
      <3> QED BY <3>1, <3>2
    <2>2. Pushing(s)' = Pushing(s)
      BY <1>1
    <2> QED BY <2>1, <2>2 DEF SessionOk
  <1>3. ASSUME NEW r \in 1..Len(sessions), r # s PROVE SessionOk(r)'
    <2>1. Pushing(r)' \subseteq Pushing(r)
      BY <1>1
    <2>2. sessions'[r] = sessions[r] /\ (r \in torn => r \in torn')
      BY <1>3
    <2> QED BY <2>1, <2>2, SessionFrame DEF RequestsInv
  <1>4. ASSUME NEW t \in Turns PROVE TurnOk(t)'
    <2>0. TurnOk(t)
      BY DEF RequestsInv
    <2>1. ASSUME place[t] \notin {"new", "create", "failed"}
          PROVE  session[t] \in 1..Len(sessions) /\ sessions'[session[t]].name = sessions[session[t]].name
      <3>1. session[t] \in 1..Len(sessions)
        BY <2>1, SessionThere
      <3> QED BY <3>1
    <2>2. ASSUME place[t] \in {"ask", "calls"}, Sound(t)' PROVE Sound(t)
      <3>1. session[t] \in 1..Len(sessions) /\ session[t] \notin torn' /\ NameOf[t] \notin WebNames
        BY <2>1, <2>2 DEF Sound
      <3>2. CASE session[t] = s
        <4>1. t \in Pushing(s)
          BY <2>0, <2>2, <3>2 DEF TurnOk, Pushing
        <4> QED BY <4>1, <3>1, <3>2 DEF Sound
      <3>3. CASE session[t] # s
        BY <3>1, <3>3 DEF Sound
      <3> QED BY <3>2, <3>3
    <2>3. ASSUME place[t] = "calls", Sound(t)'
          PROVE  sessions'[session[t]] = sessions[session[t]]
      <3>1. session[t] \in 1..Len(sessions) /\ session[t] \notin torn'
        BY <2>1, <2>3 DEF Sound
      <3>2. session[t] # s
        <4>1. ASSUME session[t] = s PROVE t \in Calling(s)
          BY <4>1, <2>0, <2>3 DEF TurnOk, Pushing, Calling
        <4> QED BY <4>1, <3>1
      <3> QED BY <3>1, <3>2
    <2> QED BY <2>0, <2>1, <2>2, <2>3, TurnFrame
  <1>5. \A r \in 1..Len(sessions') : SessionOk(r)'
    <2> SUFFICES ASSUME NEW r \in 1..Len(sessions') PROVE SessionOk(r)'
      OBVIOUS
    <2>1. CASE r = s
      BY <1>2, <2>1 DEF SessionOk, Hist, Pushing
    <2> QED BY <2>1, <1>3
  <1>6. messages' \in [Turns -> Seq(Msgs)]
    BY DEF RequestsInv
  <1> QED BY <1>4, <1>5, <1>6 DEF RequestsInv

LEMMA RequestsCompress ==
    ASSUME Typing, RequestsInv, NEW w \in Workers, NEW s \in 1..Len(sessions),
           Skip(w, s) \/ Compress(w, s) \/ CompressReturns(w, s) \/ CompressFails(w, s)
    PROVE  RequestsInv'
  <1>0. /\ sessions \in Seq(Records) /\ s \in 1..Len(sessions)
        /\ sessions[s].msgs \in Seq(Msgs) /\ sessions[s].summary \in BOOLEAN
        /\ Hist(s) \in Seq(Msgs) /\ SessionOk(s)
    <2>1. sessions \in Seq(Records) /\ s \in 1..Len(sessions)
      BY LenProperties DEF Typing
    <2> QED BY <2>1, HistType DEF RequestsInv
  <1>1. CASE Skip(w, s) \/ Compress(w, s)
    BY <1>1, RequestsSame DEF Skip, Compress, turnVars, notes
  <1>2. CASE CompressReturns(w, s)
    <2>1. UNCHANGED <<session, left, place, messages>>
          /\ torn' = CASE Calling(s) # {} -> torn \cup {s}
                       [] Pushing(s) = {} -> torn \ {s}
                       [] OTHER -> torn
      BY <1>2 DEF CompressReturns, turnVars
    <2>2. Calling(s) \subseteq Pushing(s)
      BY DEF Calling
    <2>3. /\ \A r : r # s => (r \in torn <=> r \in torn')
          /\ Calling(s) # {} => s \in torn'
          /\ s \in torn /\ s \notin torn' => Pushing(s) = {}
      <3>1. CASE Calling(s) # {}
        <4>1. Pushing(s) # {}
          BY <2>2, <3>1
        <4> QED BY <2>1, <3>1, <4>1
      <3>2. CASE Calling(s) = {} /\ Pushing(s) = {}
        BY <2>1, <3>2
      <3>3. CASE Calling(s) = {} /\ Pushing(s) # {}
        BY <2>1, <3>3
      <3> QED BY <2>2, <3>1, <3>2, <3>3
    <2>4. /\ Len(sessions') = Len(sessions)
          /\ \A r \in 1..Len(sessions) : sessions'[r].name = sessions[r].name
          /\ \A r \in 1..Len(sessions) : r # s => sessions'[r] = sessions[r]
          /\ sessions'[s].msgs = Compressed /\ sessions'[s].summary
      <3>1. sessions' = [sessions EXCEPT ![s].msgs = Compressed, ![s].summary = TRUE]
        BY <1>2 DEF CompressReturns
      <3> QED BY <1>0, <3>1, CompressedType, SummaryExcept
    <2>5. Plain(sessions'[s].msgs)
      BY <2>4, CompressedIs
    <2>6. Tidy(Hist(s)')
      <3>1. Plain(context(Compressed, sessions'[s].summary)) /\ context(Compressed, sessions'[s].summary) \in Seq(Msgs)
        <4>1. Plain(context(Compressed, TRUE)) /\ context(Compressed, TRUE) \in Seq(Msgs)
          BY CompressedType, CompressedIs, ContextIs
        <4>2. context(Compressed, sessions'[s].summary) = context(Compressed, TRUE)
          BY <2>4 DEF context
        <4> QED BY <4>1, <4>2
      <3>2. Hist(s)' = context(Compressed, sessions'[s].summary)
        BY <2>4 DEF Hist
      <3> QED BY <3>1, <3>2, PlainIs
    <2> QED BY <1>0, <2>1, <2>3, <2>4, <2>5, <2>6, Compresses
  <1>3. CASE CompressFails(w, s)
    <2> DEFINE ms == Truncated(sessions[s].msgs, Limit)
    <2>0. UNCHANGED <<session, left, place, messages>>
      BY <1>3 DEF CompressFails, turnVars
    <2>1. /\ torn' = IF Calling(s) # {} \/ sessions[s].summary THEN torn \cup {s} ELSE torn
          /\ sessions' = [sessions EXCEPT ![s].msgs = ms]
      BY <1>3, Zenon DEF CompressFails
    <2>2. ms \in Seq(Msgs)
      BY <1>0, TruncatedType
    <2> HIDE DEF ms
    <2>3. /\ \A r : r # s => (r \in torn <=> r \in torn')
          /\ Calling(s) # {} => s \in torn'
          /\ s \in torn /\ s \notin torn' => Pushing(s) = {}
          /\ s \notin torn' => s \notin torn /\ ~sessions[s].summary
      BY <2>1
    <2>4. /\ Len(sessions') = Len(sessions)
          /\ \A r \in 1..Len(sessions) : sessions'[r].name = sessions[r].name
          /\ \A r \in 1..Len(sessions) : r # s => sessions'[r] = sessions[r]
          /\ sessions'[s].msgs = ms /\ sessions'[s].summary = sessions[s].summary
      <3>1. sessions' = [sessions EXCEPT ![s].msgs = ms]
        BY <2>1
      <3> QED BY <1>0, <2>2, <3>1, MsgsExcept
    <2>5. ASSUME sessions[s].name \notin FeishuNames PROVE Plain(sessions'[s].msgs)
      BY <1>0, <2>4, <2>5, PlainIs DEF SessionOk, ms
    <2>6. ASSUME s \notin torn', sessions[s].name \notin WebNames PROVE Tidy(Hist(s)')
      <3>1. ~sessions[s].summary /\ s \notin torn
        BY <2>3, <2>6
      <3>2. Hist(s) = sessions[s].msgs /\ Hist(s)' = ms
        BY <2>4, <3>1 DEF Hist, context
      <3>3. Tidy(Hist(s))
        BY <1>0, <3>1, <2>6 DEF SessionOk
      <3> QED BY <1>0, <3>2, <3>3, TruncatedTidy DEF ms
    <2> QED BY <1>0, <2>0, <2>3, <2>4, <2>5, <2>6, Compresses
  <1> QED BY <1>1, <1>2, <1>3

LEMMA RequestsInit == Init => RequestsInv
  <1> SUFFICES ASSUME Init PROVE RequestsInv
    OBVIOUS
  <1>1. sessions = <<>> /\ Len(sessions) = 0 /\ 1..Len(sessions) = {}
    BY DEF Init
  <1>2. <<>> \in Seq(Msgs)
    OBVIOUS
  <1>3. messages \in [Turns -> Seq(Msgs)]
    BY <1>2 DEF Init
  <1>4. \A t \in Turns : place[t] = "new"
    BY DEF Init
  <1> QED BY <1>1, <1>3, <1>4 DEF RequestsInv, TurnOk

LEMMA RequestsStep == Typing /\ RequestsInv /\ [Next]_vars => RequestsInv'
  <1> SUFFICES ASSUME Typing, RequestsInv, [Next]_vars PROVE RequestsInv'
    OBVIOUS
  <1>1. ASSUME NEW t \in Turns, Turn(t) PROVE RequestsInv'
    BY <1>1, RequestsMoves, PushesPrompt, PushesAnswer, PushesResult, TakesFound, TakesCreated
       DEF Turn, FeishuTurn, HttpTurn
  <1>2. ASSUME NEW w \in Workers, CompressAll(w) PROVE RequestsInv'
    <2>1. DOMAIN sessions = 1..Len(sessions)
      BY LenProperties DEF Typing
    <2> QED BY <1>2, <2>1, RequestsCompress DEF CompressAll
  <1>3. CASE SchedulerCompresses
    BY <1>3, RequestsSame DEF SchedulerCompresses, turnVars, notes
  <1>4. CASE UNCHANGED vars
    BY <1>4, RequestsSame DEF vars
  <1> QED BY <1>1, <1>2, <1>3, <1>4 DEF Next
-----------------------------------------------------------------------------
(* What is sent and kept without reasoning: the messages of the sessions   *)
(* and of the requests are of this set.                                    *)
KeptMsgs(ids) == {m \in Msgs : m.calls # <<>> /\ ~m.reason => m.calls[1] \in ids}

KeptInv ==
    /\ \A s \in 1..Len(sessions) : sessions[s].msgs \in Seq(KeptMsgs(bare))
    /\ messages \in [Turns -> Seq(KeptMsgs(bare))]

LEMMA KeptIs ==
    ASSUME NEW ms \in Seq(KeptMsgs(bare))
    PROVE  Kept(ms)
  <1> SUFFICES ASSUME NEW i \in DOMAIN ms PROVE ms[i] \in KeptMsgs(bare)
    BY DEF Kept, KeptMsgs
  <1>1. i \in 1..Len(ms)
    BY LenProperties
  <1> QED
    BY <1>1, ElementOfSeq

LEMMA KeptMore ==
    ASSUME NEW ids, NEW more, ids \subseteq more, NEW ms \in Seq(KeptMsgs(ids))
    PROVE  ms \in Seq(KeptMsgs(more))
  <1>1. \A m \in KeptMsgs(ids) : m \in KeptMsgs(more)
    BY DEF KeptMsgs
  <1>2. Len(ms) \in Nat /\ DOMAIN ms = 1..Len(ms) /\ \A i \in 1..Len(ms) : ms[i] \in KeptMsgs(ids)
    BY LenProperties, ElementOfSeq
  <1>3. ms = [i \in 1..Len(ms) |-> ms[i]]
    BY LenProperties
  <1>4. \A i \in 1..Len(ms) : ms[i] \in KeptMsgs(more)
    BY <1>1, <1>2
  <1> HIDE DEF KeptMsgs
  <1>5. ms \in [1..Len(ms) -> KeptMsgs(more)]
    BY <1>2, <1>3, <1>4
  <1> QED
    BY <1>2, <1>5, IsSequence

(* Nothing that is pushed but an answer with calls lacks reasoning, and no *)
(* repair takes any.                                                       *)
LEMMA KeptOthers ==
    ASSUME NEW ids
    PROVE  /\ \A id \in Ids : Result(id) \in KeptMsgs(ids)
           /\ \A t \in Turns : Prompt(t) \in KeptMsgs(ids)
           /\ Assistant(<<>>) \in KeptMsgs(ids) /\ Summary \in KeptMsgs(ids)
           /\ \A m \in KeptMsgs(ids) : [m EXCEPT !.calls = <<>>] \in KeptMsgs(ids)
  <1>1. <<>> \in Ids /\ <<>> \in Seq(Ids)
    BY DEF Ids
  <1> HIDE DEF Ids
  <1>2. \A id \in Ids : Result(id) \in KeptMsgs(ids)
    BY MessageTypes DEF KeptMsgs, Result, Message
  <1>3. \A t \in Turns : Prompt(t) \in KeptMsgs(ids)
    BY MessageTypes DEF KeptMsgs, Prompt, User, Message
  <1>4. Assistant(<<>>) \in KeptMsgs(ids)
    BY <1>1, MessageTypes DEF KeptMsgs, Assistant, Message
  <1>5. Summary \in Msgs
    BY <1>1 DEF Summary, Message, Msgs, Roles
  <1>6. Summary \in KeptMsgs(ids)
    BY <1>5 DEF KeptMsgs, Summary, Message
  <1>7. \A m \in KeptMsgs(ids) : [m EXCEPT !.calls = <<>>] \in KeptMsgs(ids)
    <2> SUFFICES ASSUME NEW m \in KeptMsgs(ids) PROVE [m EXCEPT !.calls = <<>>] \in KeptMsgs(ids)
      OBVIOUS
    <2>1. m \in Msgs
      BY DEF KeptMsgs
    <2>2. [m EXCEPT !.calls = <<>>] \in Msgs /\ [m EXCEPT !.calls = <<>>].calls = <<>>
      BY <1>1, <2>1 DEF Msgs
    <2> QED
      BY <2>2 DEF KeptMsgs
  <1> QED
    BY <1>2, <1>3, <1>4, <1>6, <1>7

LEMMA KeptContext ==
    ASSUME NEW ids, NEW ms \in Seq(KeptMsgs(ids)), NEW summary
    PROVE  context(ms, summary) \in Seq(KeptMsgs(ids))
  <1>1. <<Summary>> \in Seq(KeptMsgs(ids))
    BY KeptOthers
  <1>2. <<Summary>> \o ms \in Seq(KeptMsgs(ids))
    BY <1>1, ConcatProperties
  <1> QED
    BY <1>2 DEF context

LEMMA KeptTruncated ==
    ASSUME NEW ids, NEW ms \in Seq(KeptMsgs(ids))
    PROVE  Truncated(ms, Limit) \in Seq(KeptMsgs(ids))
  <1> DEFINE n == IF Limit > 2 THEN Limit ELSE 2
  <1>1. n \in Nat /\ n >= 2 /\ Len(ms) \in Nat
    BY ConversationsAssumption, LenProperties
  <1>2. Truncated(ms, Limit) = IF Len(ms) <= n THEN ms ELSE SubSeq(ms, Len(ms) - n + 1, Len(ms))
    BY DEF Truncated
  <1> HIDE DEF n
  <1>3. CASE Len(ms) > n
    <2>1. Len(ms) - n + 1 \in 1..Len(ms)
      BY <1>1, <1>3
    <2>2. \A i \in Len(ms) - n + 1 .. Len(ms) : ms[i] \in KeptMsgs(ids)
      BY <1>1, <2>1, ElementOfSeq
    <2>3. SubSeq(ms, Len(ms) - n + 1, Len(ms)) \in Seq(KeptMsgs(ids))
      BY <1>1, <2>1, <2>2, SubSeqProperties
    <2> QED
      BY <1>1, <1>2, <1>3, <2>3
  <1>4. CASE ~(Len(ms) > n)
    BY <1>1, <1>2, <1>4
  <1> QED
    BY <1>3, <1>4

(* A step that changes one session and one request at most. *)
LEMMA KeptFrame ==
    ASSUME Typing, KeptInv, bare \subseteq bare', Len(sessions') = Len(sessions),
           \A r \in 1..Len(sessions) :
              sessions'[r].msgs = sessions[r].msgs \/ sessions'[r].msgs \in Seq(KeptMsgs(bare')),
           \/ UNCHANGED messages
           \/ \E t \in Turns, ms \in Seq(KeptMsgs(bare')) : messages' = [messages EXCEPT ![t] = ms]
    PROVE  KeptInv'
  <1>1. ASSUME NEW r \in 1..Len(sessions) PROVE sessions'[r].msgs \in Seq(KeptMsgs(bare'))
    <2>1. sessions[r].msgs \in Seq(KeptMsgs(bare'))
      BY KeptMore DEF KeptInv
    <2> QED
      BY <2>1
  <1>2. messages' \in [Turns -> Seq(KeptMsgs(bare'))]
    <2>1. \A t \in Turns : messages[t] \in Seq(KeptMsgs(bare'))
      BY KeptMore DEF KeptInv
    <2>2. messages \in [Turns -> Seq(KeptMsgs(bare'))]
      BY <2>1 DEF KeptInv
    <2> HIDE DEF KeptMsgs
    <2> QED
      BY <2>2
  <1>3. KeptMsgs(bare)' = KeptMsgs(bare')
    BY DEF KeptMsgs, Msgs, Ids
  <1> QED
    BY <1>1, <1>2, <1>3 DEF KeptInv

LEMMA KeptInit == Init => KeptInv
  <1> SUFFICES ASSUME Init PROVE KeptInv
    OBVIOUS
  <1>1. 1..Len(sessions) = {}
    BY DEF Init
  <1>2. messages = [t \in Turns |-> <<>>]
    BY DEF Init
  <1>3. <<>> \in Seq(KeptMsgs(bare))
    OBVIOUS
  <1> QED
    BY <1>1, <1>2, <1>3 DEF KeptInv

LEMMA AppendedIs ==
    ASSUME NEW S, NEW s \in Seq(S), NEW x \in S
    PROVE  /\ Len(s) \in Nat /\ Len(Append(s, x)) = Len(s) + 1
           /\ \A i \in 1..Len(s) : Append(s, x)[i] = s[i]
           /\ Append(s, x)[Len(s) + 1] = x
  BY LenProperties, AppendProperties

LEMMA KeptSame ==
    ASSUME KeptInv, UNCHANGED <<sessions, messages, bare>>
    PROVE  KeptInv'
  BY DEF KeptInv, KeptMsgs, Msgs, Ids

(* A turn pushes m, and may add it to its request or drop that. *)
LEMMA KeptPush ==
    ASSUME Typing, KeptInv, bare \subseteq bare', NEW t \in Turns, session[t] # 0,
           NEW m \in KeptMsgs(bare'), Push(t, m),
           \/ UNCHANGED messages
           \/ messages' = [messages EXCEPT ![t] = Append(@, m)]
           \/ messages' = [messages EXCEPT ![t] = <<>>]
    PROVE  KeptInv'
  <1>1. m \in Msgs
    BY DEF KeptMsgs
  <1>2. /\ session[t] \in 1..Len(sessions) /\ Len(sessions') = Len(sessions)
        /\ \A r \in 1..Len(sessions) : r # session[t] => sessions'[r] = sessions[r]
        /\ sessions'[session[t]].msgs = Append(sessions[session[t]].msgs, m)
    BY <1>1, PushEffect
  <1>3. sessions[session[t]].msgs \in Seq(KeptMsgs(bare')) /\ messages[t] \in Seq(KeptMsgs(bare'))
    BY <1>2, KeptMore DEF KeptInv
  <1>4. /\ Append(sessions[session[t]].msgs, m) \in Seq(KeptMsgs(bare'))
        /\ Append(messages[t], m) \in Seq(KeptMsgs(bare'))
        /\ <<>> \in Seq(KeptMsgs(bare'))
    BY <1>3, AppendProperties
  <1>5. \A r \in 1..Len(sessions) :
           sessions'[r].msgs = sessions[r].msgs \/ sessions'[r].msgs \in Seq(KeptMsgs(bare'))
    BY <1>2, <1>4
  <1>6. \/ UNCHANGED messages
        \/ \E u \in Turns, ms \in Seq(KeptMsgs(bare')) : messages' = [messages EXCEPT ![u] = ms]
    BY <1>4
  <1> HIDE DEF KeptMsgs
  <1> QED
    BY <1>2, <1>5, <1>6, KeptFrame

(* A turn reads its session into its request, or has none left of it. *)
LEMMA KeptReads ==
    ASSUME Typing, KeptInv, NEW t \in Turns, NEW ms \in Seq(KeptMsgs(bare)),
           UNCHANGED <<sessions, bare>>, messages' = [messages EXCEPT ![t] = ms]
    PROVE  KeptInv'
  <1>1. bare \subseteq bare' /\ Len(sessions') = Len(sessions)
        /\ \A r \in 1..Len(sessions) : sessions'[r].msgs = sessions[r].msgs
    OBVIOUS
  <1>2. ms \in Seq(KeptMsgs(bare'))
    OBVIOUS
  <1> HIDE DEF KeptMsgs
  <1> QED
    BY <1>1, <1>2, KeptFrame

LEMMA KeptTurn ==
    ASSUME Typing, KeptInv, NEW t \in Turns, Turn(t)
    PROVE  KeptInv'
  <1>1. ASSUME LookUp(t) \/ NoProvider(t) \/ AskFails(t) \/ ToolPanics(t) \/ Reply(t) \/ TurnEnds(t)
               \/ StreamStarts(t) \/ StreamBreaks(t)
        PROVE  KeptInv'
    <2>1. UNCHANGED <<sessions, messages, bare>>
      BY <1>1 DEF LookUp, NoProvider, AskFails, ToolPanics, Reply, TurnEnds, StreamStarts, StreamBreaks,
                  notes
    <2> QED
      BY <2>1, KeptSame
  <1>2. ASSUME Create(t) PROVE KeptInv'
    <2>1. sessions \in Seq(Records) /\ UNCHANGED <<messages, bare>>
          /\ sessions' = Append(sessions, NewSession(NameOf[t]))
      BY <1>2 DEF Create, notes, Typing
    <2>2. /\ Len(sessions) \in Nat /\ Len(sessions') = Len(sessions) + 1
          /\ \A s \in 1..Len(sessions) : sessions'[s] = sessions[s]
          /\ sessions'[Len(sessions) + 1] = NewSession(NameOf[t])
      <3>1. NewSession(NameOf[t]) \in Records
        <4>1. <<>> \in Seq(Msgs)
          OBVIOUS
        <4> QED
          BY <4>1 DEF NewSession, Records, Names
      <3> QED
        BY <2>1, <3>1, AppendedIs
    <2>3. sessions'[Len(sessions) + 1].msgs = <<>> /\ <<>> \in Seq(KeptMsgs(bare))
      BY <2>2 DEF NewSession
    <2>4. KeptMsgs(bare)' = KeptMsgs(bare)
      BY <2>1 DEF KeptMsgs, Msgs, Ids
    <2> HIDE DEF KeptMsgs
    <2>5. \A s \in 1..Len(sessions') : sessions'[s].msgs \in Seq(KeptMsgs(bare))
      <3> SUFFICES ASSUME NEW s \in 1..Len(sessions') PROVE sessions'[s].msgs \in Seq(KeptMsgs(bare))
        OBVIOUS
      <3>1. s \in 1..Len(sessions) \/ s = Len(sessions) + 1
        BY <2>2
      <3> QED
        BY <2>2, <2>3, <3>1 DEF KeptInv
    <2> QED
      BY <2>1, <2>4, <2>5 DEF KeptInv
  <1>3. ASSUME PushPrompt(t) PROVE KeptInv'
    <2>1. session[t] # 0 /\ Push(t, Prompt(t)) /\ UNCHANGED <<messages, bare>>
      BY <1>3 DEF PushPrompt, notes, Typing
    <2>2. Prompt(t) \in KeptMsgs(bare)
      BY KeptOthers
    <2> QED
      BY <2>1, <2>2, KeptPush
  <1>4. ASSUME StreamFinishes(t) PROVE KeptInv'
    <2>1. session[t] # 0 /\ Push(t, Assistant(<<>>)) /\ UNCHANGED <<messages, bare>>
      BY <1>4 DEF StreamFinishes, notes, Typing
    <2>2. Assistant(<<>>) \in KeptMsgs(bare)
      BY KeptOthers
    <2> QED
      BY <2>1, <2>2, KeptPush
  <1>5. ASSUME ReadHistory(t) \/ ReadAndStart(t) PROVE KeptInv'
    <2> DEFINE ms == context(sessions[session[t]].msgs, sessions[session[t]].summary)
    <2>1. session[t] \in 1..Len(sessions) /\ UNCHANGED <<sessions, bare>>
          /\ \/ messages' = [messages EXCEPT ![t] = Sanitized(ms)]
             \/ messages' = [messages EXCEPT ![t] = Append(ms, Prompt(t))]
      <3>1. place[t] = "read" /\ session[t] \in 0..Len(sessions)
        BY <1>5 DEF ReadHistory, ReadAndStart, Typing
      <3>2. session[t] \in 1..Len(sessions)
        <4>1. session[t] # 0 /\ Len(sessions) \in Nat
          BY <3>1, LenProperties DEF Typing
        <4> QED
          BY <3>1, <4>1
      <3>3. CASE ReadHistory(t)
        BY <3>2, <3>3 DEF ReadHistory, notes
      <3>4. CASE ReadAndStart(t)
        BY <3>2, <3>4 DEF ReadAndStart, notes
      <3> QED
        BY <1>5, <3>3, <3>4
    <2>2. ms \in Seq(KeptMsgs(bare))
      BY <2>1, KeptContext DEF KeptInv
    <2> HIDE DEF ms
    <2>3. Sanitized(ms) \in Seq(KeptMsgs(bare))
      BY <2>2, KeptOthers, SanitizedWithin DEF Sanitized
    <2>4. Append(ms, Prompt(t)) \in Seq(KeptMsgs(bare))
      <3>1. Prompt(t) \in KeptMsgs(bare)
        BY KeptOthers
      <3> QED
        BY <2>2, <3>1, AppendProperties
    <2> QED
      BY <2>1, <2>3, <2>4, KeptReads
  <1>6. ASSUME RunTool(t) PROVE KeptInv'
    <2>1. left[t] \in Seq(Calls) /\ left[t] # <<>> /\ session[t] # 0 /\ UNCHANGED bare
      BY <1>6 DEF RunTool, Typing, notes
    <2>2. left[t][1][2] \in Ids
      <3>1. left[t][1] \in Calls
        BY <2>1
      <3> QED
        BY <3>1 DEF Calls
    <2> DEFINE m == Result(left[t][1][2])
    <2>3. m \in KeptMsgs(bare')
      BY <2>2, KeptOthers
    <2>4. Push(t, m) /\ messages' = [messages EXCEPT ![t] = Append(@, m)]
      BY <1>6 DEF RunTool
    <2> HIDE DEF m
    <2> QED
      BY <2>1, <2>3, <2>4, KeptPush
  <1>7. ASSUME Asks(t) PROVE KeptInv'
    <2> DEFINE Called(answer) == IF Phase1(t)
                  THEN [k \in DOMAIN answer |-> <<answer[k], <<t, rounds[t], k>>>>] ELSE <<>>
               Ided(answer) == [k \in DOMAIN Called(answer) |-> Called(answer)[k][2]]
    <2>1. PICK answer \in Answers \cup {<<>>}, reason \in BOOLEAN :
             /\ Push(t, Answer(Ided(answer), reason))
             /\ messages' = [messages EXCEPT ![t] =
                   IF Called(answer) = <<>> THEN <<>> ELSE Append(@, Answer(Ided(answer), reason))]
             /\ bare' = IF reason \/ Called(answer) = <<>> THEN bare ELSE bare \cup {Ided(answer)[1]}
      BY <1>7 DEF Asks
    <2> DEFINE calls == Called(answer)
               ids == Ided(answer)
               m == Answer(ids, reason)
    <2>2. calls \in Seq(Calls) /\ ids \in Seq(Ids) /\ Len(ids) = Len(calls)
      <3>1. CASE Phase1(t)
        <4>1. calls \in Seq(Calls) /\ ids \in Seq(Ids)
          BY <3>1, CallsType
        <4>2. DOMAIN ids = DOMAIN calls
          OBVIOUS
        <4> HIDE DEF calls, ids
        <4> QED
          BY <4>1, <4>2, LenProperties
      <3>2. CASE ~Phase1(t)
        BY <3>2
      <3> QED
        BY <3>1, <3>2
    <2>3. /\ Push(t, m)
          /\ messages' = [messages EXCEPT ![t] = IF calls = <<>> THEN <<>> ELSE Append(@, m)]
          /\ bare' = IF reason \/ calls = <<>> THEN bare ELSE bare \cup {ids[1]}
      BY <2>1
    <2> HIDE DEF calls, ids
    <2>4. m \in Msgs /\ m.calls = ids /\ m.reason = (reason /\ ids # <<>>)
      BY <2>2, RunStarts
    <2> HIDE DEF m
    <2>5. ids # <<>> <=> calls # <<>>
      BY <2>2
    <2>6. m \in KeptMsgs(bare')
      <3>1. CASE reason \/ calls = <<>>
        BY <2>4, <2>5, <3>1 DEF KeptMsgs
      <3>2. CASE ~(reason \/ calls = <<>>)
        BY <2>3, <2>4, <3>2 DEF KeptMsgs
      <3> QED
        BY <3>1, <3>2
    <2>7. session[t] # 0 /\ bare \subseteq bare'
      BY <1>7, <2>3 DEF Asks, Typing
    <2>8. \/ messages' = [messages EXCEPT ![t] = Append(@, m)]
          \/ messages' = [messages EXCEPT ![t] = <<>>]
      BY <2>3
    <2> QED
      BY <2>3, <2>6, <2>7, <2>8, KeptPush
  <1> QED
    BY <1>1, <1>2, <1>3, <1>4, <1>5, <1>6, <1>7 DEF Turn, FeishuTurn, HttpTurn

(* A compression leaves texts, or some of the messages. *)
LEMMA KeptCompress ==
    ASSUME Typing, KeptInv, NEW w \in Workers, NEW s \in 1..Len(sessions),
           Skip(w, s) \/ Compress(w, s) \/ CompressReturns(w, s) \/ CompressFails(w, s)
    PROVE  KeptInv'
  <1>1. ASSUME Skip(w, s) \/ Compress(w, s) PROVE KeptInv'
    BY <1>1, KeptSame DEF Skip, Compress, turnVars, notes
  <1>2. ASSUME NEW ms \in Seq(KeptMsgs(bare)), UNCHANGED <<messages, bare>>,
               Len(sessions') = Len(sessions), sessions'[s].msgs = ms,
               \A r \in 1..Len(sessions) : r # s => sessions'[r] = sessions[r]
        PROVE  KeptInv'
    <2>1. \A r \in 1..Len(sessions) :
             sessions'[r].msgs = sessions[r].msgs \/ sessions'[r].msgs = ms
      BY <1>2
    <2> HIDE DEF KeptMsgs
    <2>2. \A r \in 1..Len(sessions) :
             sessions'[r].msgs = sessions[r].msgs \/ sessions'[r].msgs \in Seq(KeptMsgs(bare'))
      BY <1>2, <2>1
    <2> QED
      BY <1>2, <2>2, KeptFrame
  <1>3. ASSUME CompressReturns(w, s) PROVE KeptInv'
    <2>1. Compressed \in Seq(KeptMsgs(bare))
      BY KeptOthers DEF Compressed
    <2>2. sessions \in Seq(Records) /\ UNCHANGED <<messages, bare>>
          /\ sessions' = [sessions EXCEPT ![s].msgs = Compressed, ![s].summary = TRUE]
      BY <1>3 DEF CompressReturns, turnVars, Typing
    <2>3. /\ Len(sessions') = Len(sessions) /\ sessions'[s].msgs = Compressed
          /\ \A r \in 1..Len(sessions) : r # s => sessions'[r] = sessions[r]
      BY <2>2, CompressedType, SummaryExcept
    <2> QED
      BY <1>2, <2>1, <2>2, <2>3
  <1>4. ASSUME CompressFails(w, s) PROVE KeptInv'
    <2> DEFINE ms == Truncated(sessions[s].msgs, Limit)
    <2>1. ms \in Seq(KeptMsgs(bare))
      BY KeptTruncated DEF KeptInv
    <2>2. sessions \in Seq(Records) /\ UNCHANGED <<messages, bare>>
          /\ sessions' = [sessions EXCEPT ![s].msgs = ms]
      BY <1>4 DEF CompressFails, turnVars, Typing
    <2>3. ms \in Seq(Msgs)
      <3>1. sessions[s] \in Records
        BY <2>2, ElementOfSeq
      <3> QED
        BY <3>1, TruncatedType DEF Records
    <2> HIDE DEF ms
    <2>4. /\ Len(sessions') = Len(sessions) /\ sessions'[s].msgs = ms
          /\ \A r \in 1..Len(sessions) : r # s => sessions'[r] = sessions[r]
      BY <2>2, <2>3, MsgsExcept
    <2> QED
      BY <1>2, <2>1, <2>2, <2>4
  <1> QED
    BY <1>1, <1>3, <1>4

LEMMA KeptStep == Typing /\ KeptInv /\ [Next]_vars => KeptInv'
  <1> SUFFICES ASSUME Typing, KeptInv, [Next]_vars PROVE KeptInv'
    OBVIOUS
  <1>1. ASSUME NEW t \in Turns, Turn(t) PROVE KeptInv'
    BY <1>1, KeptTurn
  <1>2. ASSUME NEW w \in Workers, CompressAll(w) PROVE KeptInv'
    <2>1. DOMAIN sessions = 1..Len(sessions)
      BY LenProperties DEF Typing
    <2> QED
      BY <1>2, <2>1, KeptCompress DEF CompressAll
  <1>3. CASE SchedulerCompresses
    BY <1>3, KeptSame DEF SchedulerCompresses, turnVars, notes
  <1>4. CASE UNCHANGED vars
    BY <1>4, KeptSame DEF vars
  <1> QED
    BY <1>1, <1>2, <1>3, <1>4 DEF Next
-----------------------------------------------------------------------------
(* However many turns, sessions and rounds there are, and whatever the     *)
(* model answers: every request of a turn is well formed, unless its       *)
(* session was compressed among the calls of a turn, was truncated behind  *)
(* a summary or has had two turns at a time, and not been compressed       *)
(* since, or a web client has named its chat; and calls lack reasoning     *)
(* only if they came without it, without exception.                        *)
THEOREM ConversationsRequests == Spec => []RequestsComplete
  <1>1. ASSUME Typing, RequestsInv, KeptInv PROVE RequestsComplete
    <2> SUFFICES ASSUME NEW t \in Turns, place[t] \in {"ask", "start"}
                 PROVE  /\ session[t] \notin torn /\ NameOf[t] \notin Shared
                           => WellFormed(messages[t])
                        /\ Kept(messages[t])
      BY DEF RequestsComplete
    <2>1. TurnOk(t) /\ messages[t] \in Seq(Msgs)
      BY <1>1 DEF RequestsInv
    <2>2. ASSUME place[t] = "ask", session[t] \notin torn, NameOf[t] \notin Shared
          PROVE  WellFormed(messages[t])
      <3>1. t \in FeishuTurns
        BY <2>1, <2>2 DEF TurnOk
      <3>2. Sound(t)
        BY <3>1, <2>2 DEF Sound, WebNames, Shared
      <3> QED BY <2>1, <2>2, <3>2 DEF TurnOk
    <2>3. ASSUME place[t] = "start", session[t] \notin torn, NameOf[t] \notin Shared
          PROVE  WellFormed(messages[t])
      <3>1. t \notin FeishuTurns
        BY <2>1, <2>3 DEF TurnOk
      <3>2. NameOf[t] \notin FeishuNames
        BY <3>1, <2>3 DEF FeishuNames, Shared
      <3>3. Plain(messages[t])
        BY <2>1, <2>3, <3>2 DEF TurnOk
      <3> QED BY <2>1, <3>3, PlainIs
    <2>4. Kept(messages[t])
      BY <1>1, KeptIs DEF KeptInv
    <2> QED BY <2>2, <2>3, <2>4
  <1>2. Typing /\ RequestsInv /\ KeptInv => RequestsComplete
    BY <1>1
  <1>3. IInv => Typing
    BY DEF IInv
  <1>4. Spec => []RequestsInv
    <2>1. Init => RequestsInv
      BY RequestsInit
    <2>2. Typing /\ RequestsInv /\ [Next]_vars => RequestsInv'
      BY RequestsStep
    <2> QED BY <2>1, <2>2, <1>3, InductiveInvariant, PTL DEF Spec
  <1>5. Spec => []KeptInv
    <2>1. Init => KeptInv
      BY KeptInit
    <2>2. Typing /\ KeptInv /\ [Next]_vars => KeptInv'
      BY KeptStep
    <2> QED BY <2>1, <2>2, <1>3, InductiveInvariant, PTL DEF Spec
  <1> QED BY <1>2, <1>3, <1>4, <1>5, InductiveInvariant, PTL
=============================================================================
