-------------------------- MODULE AcpServerProofs ---------------------------
(***************************************************************************)
(* Theorems about AcpServer, for any sessions, any number of prompts and   *)
(* any number of tool calls.                                               *)
(***************************************************************************)
EXTENDS AcpServer, TLAPS

LEMMA PromptFacts ==
    ASSUME NEW p \in Prompts
    PROVE  Of(p) \in Sessions /\ p[2] \in 1..MaxPrompts /\ p \notin Sessions
  BY AcpServerAssumption DEF Prompts, Of

LEMMA TypeInit == Init => TypeOK
  <1> SUFFICES ASSUME Init PROVE TypeOK
    OBVIOUS
  <1>1. \A p \in Prompts : 0 \in CallsOf(p)
    BY PromptFacts, AcpServerAssumption DEF CallsOf
  <1> QED
    BY <1>1 DEF Init, TypeOK, Stages

(* The elementary effects keep the types. *)
LEMMA SendType ==
    ASSUME TypeOK, NEW p \in Prompts, NEW kind \in {"update", "ask", "response"}, Send(kind, p)
    PROVE  out' \in Seq({"update", "ask", "response"} \X Prompts)
  BY DEF TypeOK, Send

LEMMA PushType ==
    ASSUME TypeOK, NEW p \in Prompts, Push(p)
    PROVE  history' \in [Sessions -> Seq(Prompts)]
  BY PromptFacts DEF TypeOK, Push

LEMMA GotoType ==
    ASSUME TypeOK, NEW p \in Prompts, NEW where \in Stages, Goto(p, where)
    PROVE  pc' \in [Prompts -> Stages]
  BY DEF TypeOK, Goto

LEMMA CancelType ==
    ASSUME TypeOK, NEW s \in Sessions, CancelToken(s)
    PROVE  cancelled' \subseteq Sessions \cup Prompts /\ told' \subseteq Prompts
  BY DEF TypeOK, CancelToken, InFlight

LEMMA GotoFacts ==
    ASSUME TypeOK, NEW p \in Prompts, NEW where, Goto(p, where)
    PROVE  pc'[p] = where /\ \A q \in Prompts : q # p => pc'[q] = pc[q]
  BY DEF TypeOK, Goto

LEMMA CallDoneType ==
    ASSUME TypeOK, NEW p \in Prompts, CallDone(p), left[p] # 0
    PROVE  /\ left' \in [Prompts -> Nat] /\ used' \in [Prompts -> Nat]
           /\ \A q \in Prompts : left'[q] \in CallsOf(q) /\ used'[q] \in CallsOf(q)
           /\ pc' \in [Prompts -> Stages]
           /\ history' \in [Sessions -> Seq(Prompts)]
           /\ out' \in Seq({"update", "ask", "response"} \X Prompts)
  <1>1. /\ MaxCalls[p[2]] \in Nat /\ left[p] \in 0..MaxCalls[p[2]] /\ left[p] # 0
        /\ left[p] - 1 \in 0..MaxCalls[p[2]]
    BY AcpServerAssumption, PromptFacts DEF TypeOK, CallDone, CallsOf
  <1>2. /\ left' \in [Prompts -> Nat] /\ used' \in [Prompts -> Nat]
        /\ \A q \in Prompts : left'[q] \in CallsOf(q) /\ used'[q] \in CallsOf(q)
    BY <1>1 DEF TypeOK, CallDone, CallsOf
  <1>3. pc' \in [Prompts -> Stages]
    BY DEF TypeOK, CallDone, Goto, Stages, InTurn, Awaiting
  <1> QED
    BY <1>2, <1>3, SendType, PushType DEF CallDone
-----------------------------------------------------------------------------
(* What the steps have in common.  A turn moves among the stages of its turn, *)
(* gives up the running flag, or responds; only its start makes a token.      *)
LEMMA TurnStep ==
    ASSUME TypeOK, NEW p \in Prompts, Turn(p)
    PROVE  /\ UNCHANGED <<stage, session, cancelled, told, asked>>
           /\ \A q \in Prompts : q # p => pc'[q] = pc[q]
           /\ \/ /\ pc[p] \in InTurn \ {"finished"}
                 /\ pc'[p] \in InTurn \ {"accepted"}
                 /\ UNCHANGED <<running, responded>>
              \/ /\ pc[p] = "finished" /\ pc'[p] = "released"
                 /\ running' = [running EXCEPT ![Of(p)] = FALSE]
                 /\ UNCHANGED <<token, history, responded>>
              \/ /\ pc[p] = "released" /\ pc'[p] = "answered"
                 /\ responded' = responded \cup {p}
                 /\ UNCHANGED <<running, token, history>>
           /\ pc[p] = "accepted" => Push(p) /\ token' = [token EXCEPT ![Of(p)] = p]
           /\ pc[p] # "accepted" => token' = token
           /\ Push(p) \/ history' = history
           /\ out' # out => \E kind \in {"update", "ask", "response"} : Send(kind, p)
  <1> USE GotoFacts DEF InTurn, Awaiting
  <1>1. CASE Begin(p)
    BY <1>1 DEF Begin, callVars, askVars
  <1>2. ASSUME NEW n \in CallsOf(p), StreamEnds(p, n)
        PROVE  /\ UNCHANGED <<stage, sessionVars, askVars, responded>>
               /\ pc[p] = "streaming" /\ pc'[p] \in {"finished", "calling"}
               /\ \A q \in Prompts : q # p => pc'[q] = pc[q]
               /\ Push(p) /\ Send("update", p)
    BY <1>2 DEF StreamEnds
  <1>3. CASE StreamFails(p) \/ RunUnasked(p) \/ CancelSeen(p)
    BY <1>3 DEF StreamFails, RunUnasked, CancelSeen, sessionVars, askVars
  <1>4. CASE RequestPermission(p)
    BY <1>4 DEF RequestPermission, sessionVars, askVars
  <1>5. ASSUME CallDone(p)
        PROVE  /\ pc'[p] \in {"streaming", "calling"} /\ Push(p) /\ Send("update", p)
               /\ \A q \in Prompts : q # p => pc'[q] = pc[q]
    BY <1>5 DEF CallDone
  <1>6. CASE PermissionRead(p) \/ ExecutionEnds(p)
    BY <1>5, <1>6 DEF PermissionRead, ExecutionEnds, sessionVars, askVars
  <1>7. CASE Finish(p)
    BY <1>7 DEF Finish, Respond, sessionVars, askVars
  <1> QED
    BY <1>1, <1>2, <1>3, <1>4, <1>6, <1>7
       DEF Turn, Proceed, ModelAnswers, sessionVars, askVars

(* A request is accepted, taking the flag, or answered on the spot; all other *)
(* handlers leave the turns alone, but for the exit, which ends them.         *)
LEMMA PromptStep ==
    ASSUME TypeOK, NEW p \in Prompts, PromptAccepted(p) \/ PromptBusy(p) \/ PromptRefused(p)
    PROVE  /\ UNCHANGED <<stage, session, token, cancelled, told, history, callVars, askVars>>
           /\ stage = "reading" /\ pc[p] = "unsent"
           /\ \A q \in Prompts : q # p => pc'[q] = pc[q]
           /\ \/ /\ pc'[p] = "accepted"
                 /\ ~running[Of(p)] /\ running' = [running EXCEPT ![Of(p)] = TRUE]
                 /\ UNCHANGED <<out, responded>>
              \/ /\ pc'[p] \in {"busy", "refused"}
                 /\ pc'[p] = "busy" => running[Of(p)]
                 /\ Send("response", p) /\ responded' = responded \cup {p}
                 /\ UNCHANGED running
  BY GotoFacts DEF PromptAccepted, PromptBusy, PromptRefused, Sends, Respond, sessionVars,
                   callVars, askVars

Exiting == pc' = [p \in Prompts |-> IF pc[p] \in InTurn \cup {"released"} THEN "dropped"
                                                                          ELSE pc[p]]

LEMMA OtherStep ==
    ASSUME TypeOK,
           \/ \E s \in Sessions : NewSession(s) \/ Cancel(s) \/ Close(s)
           \/ \E p \in Prompts, answer \in {"allow", "reject"} : Resolve(p, answer)
           \/ CloseStdin \/ Exit \/ Deliver \/ Rest \/ UNCHANGED vars
    PROVE  /\ UNCHANGED <<running, token, history, responded, callVars>>
           /\ out' = out \/ (out # <<>> /\ out' = Tail(out))
           /\ \/ pc' = pc /\ (stage = "gone" => stage' = "gone")
              \/ stage' = "gone" /\ Exiting /\ UNCHANGED <<cancelled, told>>
           /\ \/ UNCHANGED <<cancelled, told>>
              \/ pc' = pc /\ \E s \in Sessions : CancelToken(s)
  BY DEF NewSession, Cancel, Close, Resolve, CloseStdin, Exit, Deliver, Rest, CancelToken,
         Exiting, sessionVars, callVars, askVars, vars

LEMMA NextCases ==
    [Next]_vars => \/ \E p \in Prompts : Turn(p)
                   \/ \E p \in Prompts : PromptAccepted(p) \/ PromptBusy(p) \/ PromptRefused(p)
                   \/ \E s \in Sessions : NewSession(s) \/ Cancel(s) \/ Close(s)
                   \/ \E p \in Prompts, answer \in {"allow", "reject"} : Resolve(p, answer)
                   \/ CloseStdin \/ Exit \/ Deliver \/ Rest \/ UNCHANGED vars
  BY DEF Next, ReadLoop
-----------------------------------------------------------------------------
(* The inductive invariant. *)

(* A turn at a tool call has a call left. *)
CallsLeft == \A p \in Prompts :
    pc[p] \in {"calling", "registered", "asking", "executing"} => left[p] # 0

(* The running flag of a session is up just while one turn of it is under way. *)
OneTurn ==
    /\ \A p \in Prompts : pc[p] \in InTurn => running[Of(p)]
    /\ \A p, q \in Prompts : pc[p] \in InTurn /\ pc[q] \in InTurn /\ Of(p) = Of(q) => p = q
    /\ stage # "gone" => \A s \in Sessions : running[s] =>
          \E p \in Prompts : Of(p) = s /\ pc[p] \in InTurn

RespondedIsOver == \A p \in responded : pc[p] \in {"busy", "refused", "answered"}

(* The turn under way is the last in its session's history. *)
LastInHistory ==
    /\ \A p \in Prompts : pc[p] \in InTurn \ {"accepted"} =>
          history[Of(p)] # <<>> /\ history[Of(p)][Len(history[Of(p)])] = p
    /\ \A s \in Sessions : \A i \in 1..Len(history[s]) :
          pc[history[s][i]] \notin {"unsent", "accepted"}

(* A token belongs to a turn of its session that has begun. *)
TokenOwned ==
    /\ \A s \in Sessions : token[s] \in Prompts =>
          Of(token[s]) = s /\ pc[token[s]] \notin {"unsent", "accepted"}
    /\ \A p \in Prompts : p \in cancelled => pc[p] \notin {"unsent", "accepted"}
    /\ \A p \in Prompts : p \in cancelled /\ pc[p] \in InTurn => p \in told

(* The answer in the oneshot of a turn that waits is the client's own. *)
ReplyIsConsent == \A p \in Prompts :
    pc[p] \in {"registered", "asking"} /\ reply[p] = "allow" => p \in consent

IInv == /\ TypeOK /\ CallsLeft /\ OneTurn /\ RespondedIsOver
        /\ LastInHistory /\ TurnsAreContiguous /\ TokenOwned /\ ReplyIsConsent

LEMMA OneTurnNext == TypeOK /\ OneTurn /\ [Next]_vars => OneTurn'
  <1> SUFFICES ASSUME TypeOK, OneTurn, [Next]_vars PROVE OneTurn'
    OBVIOUS
  <1>1. ASSUME NEW p \in Prompts, Turn(p) PROVE OneTurn'
    <2>1. /\ stage' = stage
          /\ \A q \in Prompts : q # p => pc'[q] = pc[q]
      BY <1>1, TurnStep
    <2>2. CASE pc[p] \in InTurn /\ pc'[p] \in InTurn /\ running' = running
      BY <2>1, <2>2 DEF OneTurn
    <2>3. CASE /\ pc[p] = "finished" /\ pc'[p] = "released"
               /\ running' = [running EXCEPT ![Of(p)] = FALSE]
      <3>1. pc[p] \in InTurn /\ pc'[p] \notin InTurn
        BY <2>3 DEF InTurn, Awaiting
      <3>2. /\ running'[Of(p)] = FALSE
            /\ \A s \in Sessions : s # Of(p) => running'[s] = running[s]
        BY <2>3, PromptFacts DEF TypeOK
      <3> QED
        BY <2>1, <3>1, <3>2, PromptFacts DEF OneTurn
    <2>4. CASE pc[p] = "released" /\ pc'[p] = "answered" /\ running' = running
      <3>1. pc[p] \notin InTurn /\ pc'[p] \notin InTurn
        BY <2>4 DEF InTurn, Awaiting
      <3> QED
        BY <2>1, <2>4, <3>1 DEF OneTurn
    <2> QED
      BY <1>1, <2>2, <2>3, <2>4, TurnStep
  <1>2. ASSUME NEW p \in Prompts, PromptAccepted(p) \/ PromptBusy(p) \/ PromptRefused(p)
        PROVE  OneTurn'
    <2>1. /\ stage' = stage /\ pc[p] \notin InTurn
          /\ \A q \in Prompts : q # p => pc'[q] = pc[q]
      BY <1>2, PromptStep DEF InTurn, Awaiting
    <2>2. CASE /\ pc'[p] = "accepted" /\ ~running[Of(p)]
               /\ running' = [running EXCEPT ![Of(p)] = TRUE]
      <3>1. pc'[p] \in InTurn
        BY <2>2 DEF InTurn
      <3>2. /\ running'[Of(p)] = TRUE
            /\ \A s \in Sessions : s # Of(p) => running'[s] = running[s]
        BY <2>2, PromptFacts DEF TypeOK
      <3> QED
        BY <2>1, <2>2, <3>1, <3>2, PromptFacts DEF OneTurn
    <2>3. CASE pc'[p] \in {"busy", "refused"} /\ running' = running
      <3>1. pc'[p] \notin InTurn
        BY <2>3 DEF InTurn, Awaiting
      <3> QED
        BY <2>1, <2>3, <3>1 DEF OneTurn
    <2> QED
      BY <1>2, <2>2, <2>3, PromptStep
  <1>3. ASSUME pc' = pc, running' = running, stage = "gone" => stage' = "gone"
        PROVE  OneTurn'
    BY <1>3 DEF OneTurn
  <1>4. ASSUME stage' = "gone", running' = running, Exiting
        PROVE  OneTurn'
    <2>1. \A p \in Prompts : pc'[p] \notin InTurn
      BY <1>4 DEF Exiting, InTurn, Awaiting
    <2> QED
      BY <1>4, <2>1 DEF OneTurn
  <1> QED
    BY <1>1, <1>2, <1>3, <1>4, NextCases, OtherStep DEF Exiting

LEMMA RespondedNext == TypeOK /\ RespondedIsOver /\ [Next]_vars => RespondedIsOver'
  <1> SUFFICES ASSUME TypeOK, RespondedIsOver, [Next]_vars PROVE RespondedIsOver'
    OBVIOUS
  <1> DEFINE Over == {"busy", "refused", "answered"}
  <1>1. ASSUME NEW p \in Prompts, pc[p] \notin Over,
               \A q \in Prompts : q # p => pc'[q] = pc[q],
               \/ responded' = responded
               \/ responded' = responded \cup {p} /\ pc'[p] \in Over
        PROVE  RespondedIsOver'
    <2>1. p \notin responded /\ responded \subseteq Prompts
      BY <1>1 DEF RespondedIsOver, TypeOK
    <2> QED
      BY <1>1, <2>1 DEF RespondedIsOver
  <1>2. ASSUME NEW p \in Prompts, Turn(p) PROVE RespondedIsOver'
    <2>1. /\ pc[p] \notin Over
          /\ \A q \in Prompts : q # p => pc'[q] = pc[q]
          /\ \/ responded' = responded
             \/ responded' = responded \cup {p} /\ pc'[p] \in Over
      BY <1>2, TurnStep DEF InTurn, Awaiting
    <2> QED
      BY <1>1, <2>1
  <1>3. ASSUME NEW p \in Prompts, PromptAccepted(p) \/ PromptBusy(p) \/ PromptRefused(p)
        PROVE  RespondedIsOver'
    <2>1. /\ pc[p] \notin Over
          /\ \A q \in Prompts : q # p => pc'[q] = pc[q]
          /\ \/ responded' = responded
             \/ responded' = responded \cup {p} /\ pc'[p] \in Over
      BY <1>3, PromptStep
    <2> QED
      BY <1>1, <2>1
  <1>4. ASSUME responded' = responded, pc' = pc \/ Exiting PROVE RespondedIsOver'
    <2>1. \A p \in responded : p \in Prompts /\ pc[p] \in Over
      BY DEF RespondedIsOver, TypeOK
    <2>2. \A p \in responded : pc'[p] = pc[p]
      BY <1>4, <2>1 DEF Exiting, InTurn, Awaiting
    <2> QED
      BY <1>4, <2>1, <2>2 DEF RespondedIsOver
  <1> QED
    BY <1>2, <1>3, <1>4, NextCases, OtherStep

LEMMA HistoryNext ==
    TypeOK /\ OneTurn /\ LastInHistory /\ TurnsAreContiguous /\ [Next]_vars
        => LastInHistory' /\ TurnsAreContiguous'
  <1> SUFFICES ASSUME TypeOK, OneTurn, LastInHistory, TurnsAreContiguous, [Next]_vars
               PROVE  LastInHistory' /\ TurnsAreContiguous'
    OBVIOUS
  <1> DEFINE h(s) == history[s]
  <1>1. ASSUME NEW p \in Prompts, Turn(p) PROVE LastInHistory' /\ TurnsAreContiguous'
    <2>1. CASE pc[p] = "accepted"
      <3>1. /\ history' = [history EXCEPT ![Of(p)] = Append(h(Of(p)), p)]
            /\ pc'[p] \notin {"unsent", "accepted"}
            /\ \A q \in Prompts : q # p => pc'[q] = pc[q]
        <4>1. h(Of(p)) # <<>> => h(Of(p))[Len(h(Of(p)))] # p
          BY <2>1, PromptFacts DEF LastInHistory, TypeOK
        <4>2. Push(p) /\ pc'[p] \in InTurn \ {"accepted"}
          BY <1>1, <2>1, TurnStep DEF InTurn, Awaiting
        <4> QED
          BY <1>1, <4>1, <4>2, TurnStep DEF Push, InTurn, Awaiting
      <3>2. \A s \in Sessions : \A i \in 1..Len(h(s)) : h(s)[i] # p /\ h(s)[i] \in Prompts
        BY <2>1 DEF LastInHistory, TypeOK
      <3>3. \A s \in Sessions : s # Of(p) => history'[s] = h(s)
        BY <3>1 DEF TypeOK
      <3>4. /\ Len(history'[Of(p)]) = Len(h(Of(p))) + 1
            /\ history'[Of(p)][Len(h(Of(p))) + 1] = p
            /\ \A i \in 1..Len(h(Of(p))) : history'[Of(p)][i] = h(Of(p))[i]
            /\ Len(h(Of(p))) \in Nat
        BY <3>1, PromptFacts DEF TypeOK
      <3>5. TurnsAreContiguous'
        <4> SUFFICES ASSUME NEW s \in Sessions,
                            NEW i \in 1..Len(history'[s]), NEW j \in 1..Len(history'[s]),
                            history'[s][i] = history'[s][j]
                     PROVE  i = j
          BY DEF TurnsAreContiguous
        <4>1. CASE s = Of(p)
          <5>1. /\ i \in 1..Len(h(s)) \/ i = Len(h(s)) + 1
                /\ j \in 1..Len(h(s)) \/ j = Len(h(s)) + 1
            BY <3>4, <4>1
          <5>2. CASE i \in 1..Len(h(s)) /\ j \in 1..Len(h(s))
            BY <3>4, <4>1, <5>2 DEF TurnsAreContiguous
          <5>3. CASE i = Len(h(s)) + 1 \/ j = Len(h(s)) + 1
            BY <3>2, <3>4, <4>1, <5>1, <5>3
          <5> QED
            BY <5>1, <5>2, <5>3
        <4>2. CASE s # Of(p)
          BY <3>3, <4>2 DEF TurnsAreContiguous
        <4> QED
          BY <4>1, <4>2
      <3>6. \A q \in Prompts : pc'[q] \in InTurn \ {"accepted"} =>
               history'[Of(q)] # <<>> /\ history'[Of(q)][Len(history'[Of(q)])] = q
        <4>1. history'[Of(p)] # <<>> /\ history'[Of(p)][Len(history'[Of(p)])] = p
          BY <3>4, PromptFacts DEF TypeOK
        <4>2. ASSUME NEW q \in Prompts, pc'[q] \in InTurn \ {"accepted"}, q # p
              PROVE  history'[Of(q)] = h(Of(q)) /\ pc[q] \in InTurn \ {"accepted"}
          <5>1. pc[q] \in InTurn \ {"accepted"}
            BY <3>1, <4>2
          <5>2. Of(q) # Of(p)
            BY <2>1, <4>2, <5>1 DEF OneTurn, InTurn
          <5> QED
            BY <3>3, <5>1, <5>2, PromptFacts
        <4> QED
          BY <4>1, <4>2 DEF LastInHistory
      <3>7. ASSUME NEW s \in Sessions, NEW i \in 1..Len(history'[s])
            PROVE  pc'[history'[s][i]] \notin {"unsent", "accepted"}
        <4>1. CASE history'[s][i] = p
          BY <3>1, <4>1
        <4>2. CASE i \in 1..Len(h(s)) /\ history'[s][i] = h(s)[i]
          BY <3>1, <3>2, <4>2 DEF LastInHistory
        <4>3. CASE s = Of(p)
          BY <3>4, <4>1, <4>2, <4>3
        <4>4. CASE s # Of(p)
          BY <3>3, <4>2, <4>4
        <4> QED
          BY <4>3, <4>4
      <3> QED
        BY <3>5, <3>6, <3>7 DEF LastInHistory
    <2>2. CASE pc[p] # "accepted"
      <3>1. pc[p] \in InTurn \/ history' = history
        BY <1>1, TurnStep DEF InTurn
      <3>2. history' = history
        BY <1>1, <2>2, <3>1, TurnStep, PromptFacts DEF Push, LastInHistory, TypeOK
      <3>3. \A q \in Prompts : /\ pc'[q] \in InTurn => pc[q] \in InTurn
                               /\ pc'[q] \in {"unsent", "accepted"} => pc[q] = pc'[q]
                               /\ pc'[q] # "accepted" /\ pc'[q] \in InTurn => pc[q] # "accepted"
        BY <1>1, <2>2, TurnStep DEF InTurn, Awaiting
      <3> QED
        BY <3>2, <3>3 DEF LastInHistory, TurnsAreContiguous, TypeOK
    <2> QED
      BY <2>1, <2>2
  <1>2. ASSUME NEW p \in Prompts, PromptAccepted(p) \/ PromptBusy(p) \/ PromptRefused(p)
        PROVE  LastInHistory' /\ TurnsAreContiguous'
    <2>1. /\ history' = history /\ pc[p] = "unsent"
          /\ \A q \in Prompts : q # p => pc'[q] = pc[q]
          /\ pc'[p] \notin InTurn \ {"accepted"}
      BY <1>2, PromptStep DEF InTurn, Awaiting
    <2>2. \A s \in Sessions : \A i \in 1..Len(h(s)) : h(s)[i] # p /\ h(s)[i] \in Prompts
      BY <2>1 DEF LastInHistory, TypeOK
    <2> QED
      BY <2>1, <2>2 DEF LastInHistory, TurnsAreContiguous
  <1>3. ASSUME history' = history, pc' = pc \/ Exiting
        PROVE  LastInHistory' /\ TurnsAreContiguous'
    <2>1. \A q \in Prompts : \/ pc'[q] = pc[q]
                             \/ pc'[q] = "dropped" /\ pc'[q] \notin InTurn
      BY <1>3 DEF Exiting, InTurn, Awaiting
    <2>2. \A s \in Sessions : \A i \in 1..Len(h(s)) : h(s)[i] \in Prompts
      BY DEF TypeOK
    <2> QED
      BY <1>3, <2>1, <2>2 DEF LastInHistory, TurnsAreContiguous
  <1> QED
    BY <1>1, <1>2, <1>3, NextCases, OtherStep

LEMMA TokenNext == TypeOK /\ TokenOwned /\ [Next]_vars => TokenOwned'
  <1> SUFFICES ASSUME TypeOK, TokenOwned, [Next]_vars PROVE TokenOwned'
    OBVIOUS
  <1>1. ASSUME NEW p \in Prompts, Turn(p) PROVE TokenOwned'
    <2>1. /\ UNCHANGED <<cancelled, told>>
          /\ \A q \in Prompts : q # p => pc'[q] = pc[q]
          /\ pc'[p] \notin {"unsent", "accepted"}
          /\ pc'[p] \in InTurn => pc[p] \in InTurn
          /\ pc[p] # "unsent"
      BY <1>1, TurnStep DEF InTurn, Awaiting
    <2>2. CASE token' = token
      BY <2>1, <2>2 DEF TokenOwned, TypeOK
    <2>3. CASE pc[p] = "accepted" /\ token' = [token EXCEPT ![Of(p)] = p]
      <3>1. /\ token'[Of(p)] = p
            /\ \A s \in Sessions : s # Of(p) => token'[s] = token[s]
        BY <2>3, PromptFacts DEF TypeOK
      <3> QED
        BY <2>1, <2>3, <3>1 DEF TokenOwned
    <2> QED
      BY <1>1, <2>2, <2>3, TurnStep
  <1>2. ASSUME NEW p \in Prompts, PromptAccepted(p) \/ PromptBusy(p) \/ PromptRefused(p)
        PROVE  TokenOwned'
    <2>1. /\ UNCHANGED <<token, cancelled, told>> /\ pc[p] = "unsent"
          /\ \A q \in Prompts : q # p => pc'[q] = pc[q]
      BY <1>2, PromptStep
    <2>2. p \notin cancelled /\ \A s \in Sessions : token[s] # p
      BY <2>1 DEF TokenOwned
    <2> QED
      BY <2>1, <2>2 DEF TokenOwned
  <1>3. ASSUME NEW s \in Sessions, CancelToken(s), pc' = pc, token' = token PROVE TokenOwned'
    BY <1>3 DEF CancelToken, InFlight, TypeOK, TokenOwned
  <1>4. ASSUME UNCHANGED <<token, cancelled, told>>, pc' = pc \/ Exiting PROVE TokenOwned'
    <2>1. \A q \in Prompts : \/ pc'[q] = pc[q]
                             \/ pc'[q] = "dropped" /\ pc'[q] \notin InTurn
      BY <1>4 DEF Exiting, InTurn, Awaiting
    <2> QED
      BY <1>4, <2>1 DEF TokenOwned
  <1> QED
    BY <1>1, <1>2, <1>3, <1>4, NextCases, OtherStep

LEMMA ConsentNext == TypeOK /\ ReplyIsConsent /\ [Next]_vars => ReplyIsConsent'
  <1> SUFFICES ASSUME TypeOK, ReplyIsConsent, [Next]_vars PROVE ReplyIsConsent'
    OBVIOUS
  <1>1. ASSUME UNCHANGED <<reply, consent>>,
               \A q \in Prompts : pc'[q] \in {"registered", "asking"} => pc'[q] = pc[q]
        PROVE  ReplyIsConsent'
    BY <1>1 DEF ReplyIsConsent
  <1>2. ASSUME NEW p \in Prompts, Turn(p) PROVE ReplyIsConsent'
    <2>1. CASE RequestPermission(p)
      BY <2>1, GotoFacts DEF RequestPermission, ReplyIsConsent, TypeOK, askVars
    <2>2. CASE ~RequestPermission(p)
      <3>1. UNCHANGED <<reply, consent>> /\ pc'[p] \notin {"registered", "asking"}
        BY <1>2, <2>2, GotoFacts
           DEF Turn, Proceed, ModelAnswers, Begin, StreamEnds, StreamFails, RunUnasked,
               PermissionRead, CallDone, ExecutionEnds, CancelSeen, Finish, askVars
      <3> QED
        BY <1>1, <1>2, <3>1, TurnStep
    <2> QED
      BY <2>1, <2>2
  <1>3. ASSUME NEW p \in Prompts, PromptAccepted(p) \/ PromptBusy(p) \/ PromptRefused(p)
        PROVE  ReplyIsConsent'
    BY <1>1, <1>3, PromptStep DEF askVars
  <1>4. ASSUME NEW s \in Sessions, NewSession(s) \/ Cancel(s) \/ Close(s)
        PROVE  ReplyIsConsent'
    BY <1>1, <1>4 DEF NewSession, Cancel, Close, askVars
  <1>5. ASSUME NEW p \in Prompts, NEW answer \in {"allow", "reject"}, Resolve(p, answer)
        PROVE  ReplyIsConsent'
    BY <1>5 DEF Resolve, ReplyIsConsent, TypeOK
  <1>6. CASE CloseStdin
    BY <1>6 DEF CloseStdin, ReplyIsConsent, TypeOK
  <1>7. CASE Exit \/ Deliver \/ Rest \/ UNCHANGED vars
    BY <1>1, <1>7 DEF Exit, Deliver, Rest, vars, askVars, InTurn, Awaiting
  <1> QED
    BY <1>2, <1>3, <1>4, <1>5, <1>6, <1>7, NextCases

LEMMA CallsNext == TypeOK /\ CallsLeft /\ [Next]_vars => CallsLeft'
  <1> SUFFICES ASSUME TypeOK, CallsLeft, [Next]_vars PROVE CallsLeft'
    OBVIOUS
  <1> DEFINE AtCall == {"calling", "registered", "asking", "executing"}
  <1>1. ASSUME left' = left, \A q \in Prompts : pc'[q] \in AtCall => pc[q] \in AtCall
        PROVE  CallsLeft'
    BY <1>1 DEF CallsLeft
  <1>2. ASSUME NEW p \in Prompts, Turn(p) PROVE CallsLeft'
    <2>1. ASSUME NEW n \in CallsOf(p), StreamEnds(p, n) PROVE CallsLeft'
      BY <2>1, GotoFacts DEF StreamEnds, CallsLeft, TypeOK
    <2>2. ASSUME CallDone(p), pc[p] \in AtCall PROVE CallsLeft'
      <3>1. /\ left'[p] = left[p] - 1 /\ left[p] \in Nat /\ left[p] # 0
            /\ pc'[p] \in AtCall => left[p] # 1
            /\ \A q \in Prompts : q # p => left'[q] = left[q] /\ pc'[q] = pc[q]
        BY <2>2, GotoFacts DEF CallDone, CallsLeft, TypeOK
      <3> QED
        BY <3>1 DEF CallsLeft
    <2>3. CASE ExecutionEnds(p) \/ (PermissionRead(p) /\ CallDone(p))
      BY <2>2, <2>3 DEF ExecutionEnds, PermissionRead
    <2>4. CASE \/ Begin(p) \/ StreamFails(p) \/ RunUnasked(p) \/ RequestPermission(p)
               \/ (PermissionRead(p) /\ ~CallDone(p)) \/ CancelSeen(p) \/ Finish(p)
      <3>1. left' = left /\ (pc'[p] \in AtCall => pc[p] \in AtCall)
        BY <2>4, GotoFacts DEF Begin, StreamFails, RunUnasked, RequestPermission,
                               PermissionRead, CancelSeen, Finish, callVars
      <3> QED
        BY <1>1, <1>2, <3>1, TurnStep
    <2> QED
      BY <1>2, <2>1, <2>3, <2>4 DEF Turn, Proceed, ModelAnswers
  <1>3. ASSUME NEW p \in Prompts, PromptAccepted(p) \/ PromptBusy(p) \/ PromptRefused(p)
        PROVE  CallsLeft'
    BY <1>1, <1>3, PromptStep DEF callVars
  <1> QED
    BY <1>1, <1>2, <1>3, NextCases, OtherStep DEF callVars, Exiting

LEMMA TypeNext == TypeOK /\ CallsLeft /\ [Next]_vars => TypeOK'
  <1> SUFFICES ASSUME TypeOK, CallsLeft, [Next]_vars PROVE TypeOK'
    OBVIOUS
  <1>1. ASSUME NEW p \in Prompts, Turn(p) PROVE TypeOK'
    <2> USE PromptFacts, SendType, PushType, GotoType DEF Stages, InTurn, Awaiting
    <2>1. CASE Begin(p)
      BY <2>1 DEF Begin, TypeOK, callVars, askVars
    <2>2. ASSUME NEW n \in CallsOf(p), StreamEnds(p, n) PROVE TypeOK'
      <3>1. CallsOf(p) \subseteq Nat
        BY AcpServerAssumption DEF CallsOf
      <3>2. /\ left' \in [Prompts -> Nat] /\ used' \in [Prompts -> Nat]
            /\ \A q \in Prompts : left'[q] \in CallsOf(q) /\ used'[q] \in CallsOf(q)
        BY <2>2, <3>1 DEF StreamEnds, TypeOK
      <3>3. pc' \in [Prompts -> Stages]
        BY <2>2 DEF StreamEnds
      <3> QED
        BY <2>2, <3>2, <3>3 DEF StreamEnds, TypeOK, sessionVars, askVars
    <2>3. CASE StreamFails(p) \/ RunUnasked(p) \/ CancelSeen(p)
      BY <2>3 DEF StreamFails, RunUnasked, CancelSeen, TypeOK, sessionVars, callVars, askVars
    <2>4. CASE RequestPermission(p)
      BY <2>4 DEF RequestPermission, TypeOK, sessionVars, callVars, askVars
    <2>5. CASE PermissionRead(p) \/ ExecutionEnds(p)
      <3>1. CASE CallDone(p)
        <4>1. left[p] # 0 /\ UNCHANGED <<stage, sessionVars, askVars, responded>>
          BY <2>5, <3>1 DEF PermissionRead, ExecutionEnds, CallsLeft
        <4> QED
          BY <3>1, <4>1, CallDoneType DEF TypeOK, sessionVars, askVars
      <3>2. CASE ~CallDone(p)
        BY <2>5, <3>2 DEF PermissionRead, ExecutionEnds, TypeOK, sessionVars, callVars, askVars
      <3> QED
        BY <3>1, <3>2
    <2>6. CASE Finish(p)
      BY <2>6 DEF Finish, Respond, TypeOK, sessionVars, callVars, askVars
    <2> QED
      BY <1>1, <2>1, <2>2, <2>3, <2>4, <2>5, <2>6 DEF Turn, Proceed, ModelAnswers
  <1>2. ASSUME NEW p \in Prompts, PromptAccepted(p) \/ PromptBusy(p) \/ PromptRefused(p)
        PROVE  TypeOK'
    BY <1>2, PromptFacts, SendType, GotoType
       DEF PromptAccepted, PromptBusy, PromptRefused, Respond, TypeOK, Stages, InTurn,
           sessionVars, callVars, askVars
  <1>3. ASSUME NEW s \in Sessions, NewSession(s) \/ Cancel(s) \/ Close(s) PROVE TypeOK'
    BY <1>3, CancelType DEF NewSession, Cancel, Close, TypeOK, callVars, askVars
  <1>4. ASSUME NEW p \in Prompts, NEW answer \in {"allow", "reject"}, Resolve(p, answer)
        PROVE  TypeOK'
    BY <1>4 DEF Resolve, TypeOK, sessionVars, callVars
  <1>5. CASE CloseStdin
    BY <1>5 DEF CloseStdin, TypeOK, sessionVars, callVars
  <1>6. CASE Exit
    BY <1>6 DEF Exit, TypeOK, Stages, sessionVars, callVars, askVars
  <1>7. CASE Deliver
    <2>1. Head(out)[1] = "ask" => Head(out)[2] \in Prompts
      BY <1>7 DEF Deliver, TypeOK
    <2>2. out' \in Seq({"update", "ask", "response"} \X Prompts)
      BY <1>7 DEF Deliver, TypeOK
    <2> QED
      BY <1>7, <2>1, <2>2 DEF Deliver, TypeOK, sessionVars, callVars
  <1>8. CASE Rest \/ UNCHANGED vars
    BY <1>8 DEF Rest, vars, TypeOK
  <1> QED
    BY <1>1, <1>2, <1>3, <1>4, <1>5, <1>6, <1>7, <1>8, NextCases
-----------------------------------------------------------------------------
LEMMA IInvInit == Init => IInv
  <1> SUFFICES ASSUME Init PROVE IInv
    OBVIOUS
  <1>1. /\ \A p \in Prompts : pc[p] = "unsent" /\ reply[p] = "none"
        /\ \A s \in Sessions : ~running[s] /\ history[s] = <<>> /\ token[s] = s
        /\ cancelled = {} /\ responded = {}
    BY DEF Init
  <1>2. \A s \in Sessions : token[s] \notin Prompts
    BY <1>1, AcpServerAssumption DEF Prompts
  <1>3. TypeOK
    BY TypeInit
  <1> QED
    BY <1>1, <1>2, <1>3 DEF IInv, CallsLeft, OneTurn, RespondedIsOver, LastInHistory,
                           TurnsAreContiguous, TokenOwned, ReplyIsConsent, InTurn, Awaiting

(* The invariant from which the others follow. *)
THEOREM InductiveInvariant == Spec => []IInv
  <1>1. IInv /\ [Next]_vars => IInv'
    BY TypeNext, CallsNext, OneTurnNext, RespondedNext, HistoryNext, TokenNext, ConsentNext
       DEF IInv
  <1> QED
    BY <1>1, IInvInit, PTL DEF Spec

(* Every variable keeps its type; no turn deals with more calls than were made. *)
THEOREM TypeCorrect == Spec => []TypeOK
  <1>1. IInv => TypeOK
    BY DEF IInv
  <1> QED
    BY <1>1, InductiveInvariant, PTL

(* The running flag keeps the turns of a session apart in its history. *)
THEOREM TurnsDoNotMix == Spec => []TurnsAreContiguous
  <1>1. IInv => TurnsAreContiguous
    BY DEF IInv
  <1> QED
    BY <1>1, InductiveInvariant, PTL

(* With a fresh token per turn a cancel hits no turn it was not meant for. *)
THEOREM CancelsDoNotLeak == Spec => []CancelHitsOnlyItsTurn
  <1>1. IInv => CancelHitsOnlyItsTurn
    BY DEF IInv, TokenOwned, CancelHitsOnlyItsTurn, InTurn
  <1> QED
    BY <1>1, InductiveInvariant, PTL

(* Nothing that needs permission is executed without the client's consent to it. *)
THEOREM ConsentGiven == Spec => ConsentBeforeExecution
  <1>1. ASSUME IInv, [Next]_vars, NEW p \in Prompts, pc[p] = "asking", pc'[p] = "executing"
        PROVE  p \in consent
    <2>1. PICK q \in Prompts : Turn(q)
      BY <1>1, NextCases, PromptStep, OtherStep DEF IInv, Exiting
    <2>2. q = p
      BY <1>1, <2>1, TurnStep DEF IInv
    <2>3. PermissionRead(p) /\ ~CallDone(p)
      BY <1>1, <2>1, <2>2, GotoFacts
         DEF IInv, Turn, Proceed, ModelAnswers, Begin, StreamEnds, StreamFails, RunUnasked,
             RequestPermission, PermissionRead, CallDone, ExecutionEnds, CancelSeen, Finish
    <2> QED
      BY <1>1, <2>3 DEF PermissionRead, IInv, ReplyIsConsent
  <1>2. IInv /\ [Next]_vars =>
          [\A p \in Prompts : pc[p] = "asking" /\ pc'[p] = "executing" => p \in consent]_vars
    BY <1>1
  <1> QED
    BY <1>2, InductiveInvariant, PTL DEF Spec, ConsentBeforeExecution

(* The response to a prompt is the last line about it. *)
THEOREM ResponseIsLast == Spec => NothingAfterResponse
  <1>1. ASSUME IInv, [Next]_vars, Len(out') > Len(out)
        PROVE  out'[Len(out')][2] \notin responded
    <2>1. ASSUME NEW p \in Prompts, NEW kind \in {"update", "ask", "response"}, Send(kind, p),
                 pc[p] \notin {"busy", "refused", "answered"}
          PROVE  out'[Len(out')][2] \notin responded
      <3>1. out' = Append(out, <<kind, p>>)
        BY <1>1, <2>1 DEF Send
      <3>2. out \in Seq({"update", "ask", "response"} \X Prompts)
        BY <1>1 DEF IInv, TypeOK
      <3>3. out'[Len(out')] = <<kind, p>>
        BY <3>1, <3>2
      <3> QED
        BY <1>1, <2>1, <3>3 DEF IInv, RespondedIsOver
    <2>2. out' # out
      BY <1>1
    <2>3. ASSUME NEW p \in Prompts, Turn(p) PROVE out'[Len(out')][2] \notin responded
      BY <1>1, <2>1, <2>2, <2>3, TurnStep DEF IInv, InTurn, Awaiting
    <2>4. ASSUME NEW p \in Prompts, PromptAccepted(p) \/ PromptBusy(p) \/ PromptRefused(p)
          PROVE  out'[Len(out')][2] \notin responded
      BY <1>1, <2>1, <2>2, <2>4, PromptStep DEF IInv
    <2>5. out # <<>> => Len(Tail(out)) < Len(out)
      BY <1>1 DEF IInv, TypeOK
    <2> QED
      BY <1>1, <2>2, <2>3, <2>4, <2>5, NextCases, OtherStep DEF IInv, TypeOK
  <1>2. IInv /\ [Next]_vars => [Len(out') > Len(out) => out'[Len(out')][2] \notin responded]_vars
    BY <1>1
  <1> QED
    BY <1>2, InductiveInvariant, PTL DEF Spec, NothingAfterResponse

(* A prompt is busy only because of another that has not been answered. *)
THEOREM BusyIsJust == Spec => BusyMeansUnanswered
  <1>1. ASSUME IInv, [Next]_vars, NEW p \in Prompts, pc[p] # "busy", pc'[p] = "busy"
        PROVE  \E q \in Prompts : /\ Of(q) = Of(p)
                                  /\ pc[q] \in InTurn
                                  /\ q \notin responded
    <2>1. PICK r \in Prompts : PromptAccepted(r) \/ PromptBusy(r) \/ PromptRefused(r)
      <3>1. ASSUME NEW q \in Prompts, Turn(q) PROVE FALSE
        BY <1>1, <3>1, TurnStep DEF IInv, InTurn, Awaiting
      <3> QED
        BY <1>1, <3>1, NextCases, OtherStep DEF IInv, Exiting
    <2>2. r = p /\ running[Of(p)] /\ stage = "reading"
      BY <1>1, <2>1, PromptStep DEF IInv
    <2>3. PICK q \in Prompts : Of(q) = Of(p) /\ pc[q] \in InTurn
      BY <1>1, <2>2, PromptFacts DEF IInv, OneTurn
    <2>4. q \notin responded
      BY <1>1, <2>3 DEF IInv, RespondedIsOver, InTurn, Awaiting
    <2> QED
      BY <2>3, <2>4
  <1>2. IInv /\ [Next]_vars =>
          [\A p \in Prompts : pc[p] # "busy" /\ pc'[p] = "busy" =>
              \E q \in Prompts : /\ Of(q) = Of(p)
                                 /\ pc[q] \in InTurn
                                 /\ q \notin responded]_vars
    BY <1>1
  <1> QED
    BY <1>2, InductiveInvariant, PTL DEF Spec, BusyMeansUnanswered
=============================================================================
